---------------------------- MODULE DesktopShellProofs --------------------------
(* Proofs about the desktop shell, for any number of activate events and any length  *)
(* of the health timeout: nothing is left behind.  The property is not inductive:     *)
(* that the backend of a quitting application is never a new one, and that a second    *)
(* window finds the renderer server of the first, follow from the await the startup    *)
(* is in, so the inductive invariant says what each await of it knows.                *)
EXTENDS DesktopShell, TLAPS

Loading == {"reading", "serving", "loading"}

Typed ==
    /\ darwin \in BOOLEAN /\ devServer \in BOOLEAN /\ tracked \in BOOLEAN
    /\ quitting \in BOOLEAN /\ gone \in BOOLEAN
    /\ opening \in [Openers -> Loading \cup {"none", "loaded", "failed"}]

(* A backend that runs is tracked, and none runs in an application that is quitting:  *)
(* whoever quits before the backend is spawned has no window, and ends the process.    *)
BackendInv ==
    /\ Alive => tracked
    /\ quitting => ~Alive
    /\ gone => quitting
    /\ startup \in {"preparing", "probing"} =>
           open = {} /\ child = "none" /\ (quitting => gone)
    /\ <<"failure", "startup">> \in open => startup = "done" /\ ~Alive

(* A window loads during its own call: the startup's before it is done, those of       *)
(* activate after it.                                                                 *)
CallsInv ==
    /\ opening["startup"] \in Loading => startup = "opening"
    /\ \A o \in Activations : opening[o] # "none" => startup = "done"
    /\ devServer => \A o \in Openers : opening[o] \notin {"reading", "serving"}

(* While the application is not quitting, the variable and the listening renderer     *)
(* servers agree, the first window starts the only one and the others find it.         *)
RendererInv ==
    ~quitting =>
        /\ startup # "cleaning" => servers = {rendererServer} \ {NoWindow}
        /\ startup \in {"preparing", "probing", "polling", "cleaning"} =>
               rendererServer = NoWindow
        /\ opening["startup"] \in {"reading", "serving"} => rendererServer = NoWindow
        /\ opening["startup"] = "loading" /\ ~devServer => rendererServer # NoWindow
        /\ startup = "done" /\ tracked /\ ~devServer => rendererServer # NoWindow
        /\ \A o \in Activations : /\ opening[o] # "serving"
                                  /\ opening[o] = "reading" => rendererServer # NoWindow

ShellInv == Typed /\ BackendInv /\ CallsInv /\ RendererInv
--------------------------------------------------------------------------------
(* The application starts inside its invariant.                                    *)
LEMMA ShellStarts == ShellInit => ShellInv
  BY OpenersAssumption
  DEF ShellInit, ShellInv, Typed, BackendInv, CallsInv, RendererInv, Openers, Loading, Alive

(* What stopBackend leaves: no backend that runs, and none that is tracked.         *)
LEMMA Stopped ==
  ASSUME BackendInv, StopBackend
  PROVE  ~Alive' /\ tracked' = FALSE /\ (child = "none" => child' = "none")
  BY DEF BackendInv, StopBackend, Alive

(* The backend and its neighbours touch neither the windows nor the renderer.        *)
LEMMA ProcessStep ==
  ASSUME ShellInv, ChildStarts \/ ChildNotSpawned \/ ChildExits \/ NeighbourBinds \/ ExitSeen
  PROVE  ShellInv'
<1> USE DEF setting, screen, renderer
<1>1. /\ UNCHANGED <<darwin, devServer, startup, opening, open, rendererServer, servers,
                     quitting, gone>>
      /\ UNCHANGED tracked \/ tracked' = FALSE
      /\ Alive' => Alive /\ UNCHANGED tracked
      /\ child = "none" => child' = "none"
  <2>1. CASE ChildStarts
    BY <2>1 DEF ChildStarts, Exits, Alive
  <2>2. CASE ChildNotSpawned
    BY <2>2 DEF ChildNotSpawned, Alive
  <2>3. CASE ChildExits
    BY <2>3 DEF ChildExits, Exits, Alive
  <2>4. CASE NeighbourBinds
    BY <2>4 DEF NeighbourBinds, Alive
  <2>5. CASE ExitSeen
    BY <2>5 DEF ExitSeen, Alive
  <2> QED
    BY <2>1, <2>2, <2>3, <2>4, <2>5
<1>2. Typed'
  BY <1>1 DEF ShellInv, Typed
<1>3. BackendInv'
  BY <1>1 DEF ShellInv, BackendInv
<1>4. CallsInv' /\ RendererInv'
  BY <1>1 DEF ShellInv, CallsInv, RendererInv
<1> QED
  BY <1>2, <1>3, <1>4 DEF ShellInv

(* The catch of the startup, reached from an await before the window or from the      *)
(* window's own call.                                                                *)
LEMMA CatchStep ==
  ASSUME ShellInv, Catch, UNCHANGED backend, startup # "done",
         UNCHANGED opening \/ opening' = [opening EXCEPT !["startup"] = "failed"],
         opening'["startup"] \notin Loading
  PROVE  ShellInv'
<1> USE DEF setting, backend
<1>1. /\ UNCHANGED <<darwin, devServer, port, child, tracked, open, quitting, gone>>
      /\ startup' = "cleaning" /\ rendererServer' = NoWindow
  BY DEF Catch
<1>2. "startup" \in Openers /\ "startup" \notin Activations /\ Activations \subseteq Openers
  BY OpenersAssumption DEF Openers
<1>3. Typed' /\ \A o \in Activations : opening'[o] = opening[o] /\ opening[o] = "none"
  BY <1>1, <1>2 DEF ShellInv, Typed, CallsInv
<1>4. BackendInv'
  BY <1>1 DEF ShellInv, BackendInv, Alive
<1>5. CallsInv'
  BY <1>1, <1>2, <1>3 DEF ShellInv, CallsInv, Openers, Loading
<1>6. RendererInv'
  BY <1>1, <1>2, <1>3 DEF RendererInv, Loading
<1> QED
  BY <1>3, <1>4, <1>5, <1>6 DEF ShellInv

(* Before its window exists the startup fails into the catch.                        *)
LEMMA EarlyFailure ==
  ASSUME ShellInv, PrepareFails \/ SpawnFails \/ HealthTimesOut
  PROVE  ShellInv'
<1>1. /\ Catch /\ UNCHANGED <<backend, opening>>
      /\ startup \in {"preparing", "probing", "polling"}
  BY DEF PrepareFails, SpawnFails, HealthTimesOut, Fail
<1>2. opening["startup"] \notin Loading
  BY <1>1 DEF ShellInv, CallsInv
<1> QED
  BY <1>1, <1>2, CatchStep

(* The startup, await by await, until its window opens.                              *)
LEMMA StartStep ==
  ASSUME ShellInv, Prepare \/ Spawn \/ Poll \/ Healthy
  PROVE  ShellInv'
<1> USE DEF setting, backend, screen, renderer
<1>0. /\ "startup" \in Openers /\ "startup" \notin Activations /\ Activations \subseteq Openers
  BY OpenersAssumption DEF Openers
<1>1. CASE Prepare
  BY <1>1 DEF Prepare, ShellInv, Typed, BackendInv, CallsInv, RendererInv, Alive
<1>2. CASE Spawn
  BY <1>2 DEF Spawn, ShellInv, Typed, BackendInv, CallsInv, RendererInv, Alive
<1>3. CASE Poll
  BY <1>3 DEF Poll, ShellInv, Typed, BackendInv, CallsInv, RendererInv, Alive
<1>4. CASE Healthy
  <2>1. /\ startup = "polling" /\ startup' = "opening"
        /\ open' = open \cup {<<"main", "startup">>}
        /\ opening' = [opening EXCEPT !["startup"] =
                          IF devServer THEN "loading" ELSE "reading"]
        /\ UNCHANGED <<darwin, devServer, child, tracked, rendererServer, servers, quitting, gone>>
    BY <1>4 DEF Healthy, OpenMain
  <2>2. /\ Typed' /\ opening'["startup"] = IF devServer THEN "loading" ELSE "reading"
        /\ \A o \in Activations : opening'[o] = opening[o] /\ opening[o] = "none"
    BY <1>0, <2>1 DEF ShellInv, Typed, Loading, CallsInv
  <2>3. BackendInv'
    BY <2>1 DEF ShellInv, BackendInv, Alive
  <2>4. CallsInv'
    BY <1>0, <2>1, <2>2 DEF CallsInv, Openers
  <2>5. RendererInv'
    BY <2>1, <2>2 DEF ShellInv, RendererInv
  <2> QED
    BY <2>2, <2>3, <2>4, <2>5 DEF ShellInv
<1> QED
  BY <1>1, <1>2, <1>3, <1>4

(* The diagnostic window opens with the backend stopped and no renderer server left.  *)
LEMMA CleanedStep ==
  ASSUME ShellInv, Cleaned
  PROVE  ShellInv'
<1> USE DEF setting
<1>1. /\ startup = "cleaning" /\ startup' = "done" /\ servers' = {} /\ StopBackend
      /\ open' = open \cup {<<"failure", "startup">>}
      /\ UNCHANGED <<darwin, devServer, opening, rendererServer, quitting, gone>>
  BY DEF Cleaned, ShowFailure
<1>2. ~Alive' /\ tracked' = FALSE
  BY <1>1, Stopped DEF ShellInv
<1>3. \A o \in Activations : opening[o] = "none"
  BY <1>1 DEF ShellInv, CallsInv
<1>4. opening["startup"] \notin Loading
  BY <1>1 DEF ShellInv, CallsInv
<1>5. Typed' /\ BackendInv'
  BY <1>1, <1>2 DEF ShellInv, Typed, BackendInv
<1>6. CallsInv' /\ RendererInv'
  BY <1>1, <1>2, <1>3, <1>4 DEF ShellInv, CallsInv, RendererInv, Loading
<1> QED
  BY <1>5, <1>6 DEF ShellInv

(* One call of createMainWindow goes on.  Only the startup's starts a server: those   *)
(* of activate found one, or their application is quitting.                           *)
LEMMA OpensStep ==
  ASSUME ShellInv, NEW o \in Openers, Opens(o)
  PROVE  ShellInv'
<1> USE DEF setting, backend, renderer
<1>0. /\ "startup" \in Openers /\ "startup" \notin Activations /\ Activations \subseteq Openers
      /\ o # NoWindow /\ (o # "startup" => o \in Activations)
      /\ "startup" # NoWindow
  BY OpenersAssumption DEF Openers
<1>1. ASSUME NEW place \in {"serving", "loading", "loaded", "failed"},
             opening[o] \in Loading,
             opening' = [opening EXCEPT ![o] = place],
             UNCHANGED <<darwin, devServer, quitting, gone, tracked>>
      PROVE  /\ Typed' /\ opening'[o] = place
             /\ \A q \in Openers : q # o => opening'[q] = opening[q]
  BY <1>1 DEF ShellInv, Typed, Loading
<1>2. CASE ReadIndex(o)
  <2>1. /\ opening[o] = "reading" /\ UNCHANGED <<rendererServer, servers>>
        /\ opening' = [opening EXCEPT ![o] =
                          IF rendererServer = NoWindow THEN "serving" ELSE "loading"]
        /\ UNCHANGED <<darwin, devServer, startup, port, child, tracked, open, quitting, gone>>
    BY <1>2 DEF ReadIndex, At, GoesOn
  <2>2. /\ Typed'
        /\ opening'[o] = IF rendererServer = NoWindow THEN "serving" ELSE "loading"
        /\ \A q \in Openers : q # o => opening'[q] = opening[q]
    BY <1>1, <2>1 DEF Loading
  <2>3. BackendInv'
    BY <2>1 DEF ShellInv, BackendInv, Alive
  <2>4. CallsInv'
    BY <1>0, <2>1, <2>2 DEF ShellInv, CallsInv, Loading
  <2>5. RendererInv'
    BY <1>0, <2>1, <2>2 DEF ShellInv, RendererInv
  <2> QED
    BY <2>2, <2>3, <2>4, <2>5 DEF ShellInv
<1>3. CASE StartRenderer(o)
  <2>1. /\ opening[o] = "serving" /\ opening' = [opening EXCEPT ![o] = "loading"]
        /\ rendererServer' = o /\ servers' = servers \cup {o}
        /\ UNCHANGED <<darwin, devServer, startup, port, child, tracked, open, quitting, gone>>
    BY <1>3 DEF StartRenderer, At, GoesOn
  <2>2. /\ Typed' /\ opening'[o] = "loading"
        /\ \A q \in Openers : q # o => opening'[q] = opening[q]
    BY <1>1, <2>1 DEF Loading
  <2>3. BackendInv'
    BY <2>1 DEF ShellInv, BackendInv, Alive
  <2>4. CallsInv'
    BY <1>0, <2>1, <2>2 DEF ShellInv, CallsInv, Loading
  <2>5. RendererInv'
    <3>1. SUFFICES ASSUME ~quitting PROVE RendererInv'
      BY <2>1 DEF RendererInv
    <3>2. o = "startup" /\ startup = "opening" /\ rendererServer = NoWindow /\ servers = {}
      BY <1>0, <2>1, <3>1 DEF ShellInv, RendererInv, CallsInv, Loading
    <3> QED
      BY <1>0, <2>1, <2>2, <3>2 DEF ShellInv, RendererInv
  <2> QED
    BY <2>2, <2>3, <2>4, <2>5 DEF ShellInv
<1>4. CASE LoadEnds(o)
  <2>1. /\ opening[o] = "loading" /\ opening' = [opening EXCEPT ![o] = "loaded"]
        /\ startup' = IF o = "startup" THEN "done" ELSE startup
        /\ UNCHANGED <<darwin, devServer, port, child, tracked, open, rendererServer, servers,
                       quitting, gone>>
    BY <1>4 DEF LoadEnds, At
  <2>2. /\ Typed' /\ opening'[o] = "loaded"
        /\ \A q \in Openers : q # o => opening'[q] = opening[q]
    BY <1>1, <2>1 DEF Loading
  <2>3. o = "startup" => startup = "opening"
    BY <2>1 DEF ShellInv, CallsInv, Loading
  <2>4. BackendInv'
    BY <2>1, <2>3 DEF ShellInv, BackendInv, Alive
  <2>5. CallsInv'
    BY <1>0, <2>1, <2>2, <2>3 DEF ShellInv, CallsInv, Loading
  <2>6. RendererInv'
    BY <1>0, <2>1, <2>2, <2>3 DEF ShellInv, RendererInv
  <2> QED
    BY <2>2, <2>4, <2>5, <2>6 DEF ShellInv
<1>5. CASE OpeningFails(o)
  <2>1. opening[o] \in Loading /\ Rejected(o)
    BY <1>5 DEF OpeningFails, Loading
  <2>2. CASE o = "startup"
    <3>1. startup = "opening" /\ opening' = [opening EXCEPT !["startup"] = "failed"]
      BY <2>1, <2>2 DEF ShellInv, CallsInv, Rejected
    <3>2. opening'["startup"] \notin Loading
      BY <1>0, <3>1 DEF ShellInv, Typed, Loading
    <3> QED
      BY <2>1, <2>2, <3>1, <3>2, CatchStep DEF Rejected
  <2>3. CASE o # "startup"
    <3>1. /\ opening' = [opening EXCEPT ![o] = "failed"]
          /\ UNCHANGED <<darwin, devServer, startup, port, child, tracked, open, rendererServer,
                         servers, quitting, gone>>
      BY <2>1, <2>3 DEF Rejected
    <3>2. /\ Typed' /\ opening'[o] = "failed"
          /\ \A q \in Openers : q # o => opening'[q] = opening[q]
      BY <1>1, <2>1, <3>1
    <3>3. BackendInv'
      BY <3>1 DEF ShellInv, BackendInv, Alive
    <3>4. CallsInv'
      BY <1>0, <2>1, <2>3, <3>1, <3>2 DEF ShellInv, CallsInv, Loading
    <3>5. RendererInv'
      BY <1>0, <2>3, <3>1, <3>2 DEF ShellInv, RendererInv
    <3> QED
      BY <3>2, <3>3, <3>4, <3>5 DEF ShellInv
  <2> QED
    BY <2>2, <2>3
<1> QED
  BY <1>2, <1>3, <1>4, <1>5 DEF Opens

(* The end of the application stops both servers in one step.                        *)
LEMMA EndStep ==
  ASSUME ShellInv, NEW left, Ends(left), left = {} \/ left = open, open' \subseteq open,
         UNCHANGED <<setting, startup, opening>>
  PROVE  ShellInv'
<1> USE DEF setting
<1>1. /\ quitting' = TRUE /\ gone' = (left = {})
      /\ UNCHANGED <<darwin, devServer, startup, opening>>
  BY DEF Ends
<1>2. ~Alive' /\ tracked' = FALSE /\ (child = "none" => child' = "none")
  BY Stopped DEF Ends, ShellInv
<1>3. startup \in {"preparing", "probing"} => open' = {} /\ gone'
  BY <1>1 DEF ShellInv, BackendInv
<1>4. Typed'
  BY <1>1, <1>2 DEF ShellInv, Typed
<1>5. BackendInv'
  BY <1>1, <1>2, <1>3 DEF ShellInv, BackendInv
<1>6. CallsInv' /\ RendererInv'
  BY <1>1 DEF ShellInv, CallsInv, RendererInv
<1> QED
  BY <1>4, <1>5, <1>6 DEF ShellInv

(* Closing the last window ends an application that is quitting, or starts its end.   *)
LEMMA CloseStep ==
  ASSUME ShellInv, NEW w \in Windows, Close(w)
  PROVE  ShellInv'
<1> USE DEF setting, backend, renderer
<1>1. /\ w \in open /\ open' = open \ {w}
      /\ UNCHANGED <<darwin, devServer, startup, opening>>
  BY DEF Close
<1>2. CASE Ends({})
  BY <1>1, <1>2, EndStep
<1>3. CASE /\ gone' = (quitting /\ open' = {})
           /\ UNCHANGED <<quitting, port, child, tracked, rendererServer, servers>>
  <2>1. startup \notin {"preparing", "probing"}
    BY <1>1 DEF ShellInv, BackendInv
  <2>2. Typed'
    BY <1>1, <1>3 DEF ShellInv, Typed
  <2>3. BackendInv'
    BY <1>1, <1>3, <2>1 DEF ShellInv, BackendInv, Alive
  <2>4. CallsInv' /\ RendererInv'
    BY <1>1, <1>3 DEF ShellInv, CallsInv, RendererInv
  <2> QED
    BY <2>2, <2>3, <2>4 DEF ShellInv
<1> QED
  BY <1>2, <1>3 DEF Close

(* activate opens a second window on the backend that is tracked, or says that none is. *)
LEMMA ActivateStep ==
  ASSUME ShellInv, NEW o \in Activations, Activate(o) \/ ActivateInVain(o)
  PROVE  ShellInv'
<1> USE DEF setting, backend, renderer
<1>0. /\ "startup" \in Openers /\ "startup" \notin Activations /\ Activations \subseteq Openers
      /\ o # "startup"
  BY OpenersAssumption DEF Openers
<1>1. /\ startup = "done" /\ ~quitting
      /\ UNCHANGED <<darwin, devServer, startup, port, child, tracked, rendererServer, servers,
                     quitting, gone>>
      /\ open' = open \cup {<<"main", o>>} \/ open' = open \cup {<<"failure", o>>}
  BY DEF Activate, ActivateInVain, Reopen, OpenMain, ShowFailure
<1>2. \/ opening' = [opening EXCEPT ![o] = "failed"]
      \/ tracked /\ opening' = [opening EXCEPT ![o] = IF devServer THEN "loading" ELSE "reading"]
  BY DEF Activate, ActivateInVain, BackendKnown, OpenMain
<1>3. /\ \/ opening'[o] = "failed"
         \/ tracked /\ opening'[o] = IF devServer THEN "loading" ELSE "reading"
      /\ \A q \in Openers : q # o => opening'[q] = opening[q]
      /\ Typed'
  BY <1>0, <1>1, <1>2 DEF ShellInv, Typed, Loading
<1>4. BackendInv'
  <2>1. <<"failure", "startup">> \in open' => <<"failure", "startup">> \in open
    BY <1>0, <1>1
  <2> QED
    BY <1>1, <2>1 DEF ShellInv, BackendInv, Alive
<1>5. CallsInv'
  BY <1>0, <1>1, <1>3 DEF ShellInv, CallsInv, Loading
<1>6. RendererInv'
  BY <1>0, <1>1, <1>3 DEF ShellInv, RendererInv
<1> QED
  BY <1>3, <1>4, <1>5, <1>6 DEF ShellInv

(* What each await of the startup knows of the backend, the windows and the renderer    *)
(* server, however the awaits, the user and the processes interleave.                  *)
THEOREM ShellInvariant == ShellSpec => []ShellInv
<1>1. ShellInv /\ [ShellNext]_shellVars => ShellInv'
  <2> SUFFICES ASSUME ShellInv, [ShellNext]_shellVars PROVE ShellInv'
    OBVIOUS
  <2>1. CASE ChildStarts \/ ChildNotSpawned \/ ChildExits \/ NeighbourBinds \/ ExitSeen
    BY <2>1, ProcessStep
  <2>2. CASE Start
    BY <2>2, EarlyFailure, StartStep, CleanedStep DEF Start
  <2>3. CASE Quit
    BY <2>3, EndStep DEF Quit, screen
  <2>4. CASE \E o \in Openers : Opens(o)
    BY <2>4, OpensStep
  <2>5. CASE \E w \in Windows : Close(w)
    BY <2>5, CloseStep
  <2>6. CASE \E o \in Activations : Activate(o) \/ ActivateInVain(o)
    BY <2>6, ActivateStep
  <2>7. CASE UNCHANGED shellVars
    BY <2>7 DEF shellVars, setting, backend, screen, renderer, ShellInv, Typed, BackendInv, CallsInv,
                RendererInv, Alive
  <2> QED
    BY <2>1, <2>2, <2>3, <2>4, <2>5, <2>6, <2>7 DEF ShellNext
<1> QED
  BY <1>1, ShellStarts, PTL DEF ShellSpec

(* At every moment a running backend is the one stopBackend will reach, the failure     *)
(* screen leaves none behind, and no renderer server is lost to a second call.         *)
THEOREM NothingIsLeftBehind == ShellSpec => []NothingLeftBehind
<1>1. ShellInv => NothingLeftBehind
  BY DEF ShellInv, BackendInv, RendererInv, NothingLeftBehind
<1> QED
  BY <1>1, ShellInvariant, PTL

================================================================================
