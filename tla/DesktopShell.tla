------------------------------ MODULE DesktopShell ------------------------------
(* The Electron main process (electron/main.cjs, electron/backend.mjs): it picks   *)
(* a port, starts the Python backend, waits for its health, opens the window, and  *)
(* stops the backend when the application ends.  The handlers run one at a time    *)
(* and give way to one another at every await: each action is the code from one    *)
(* await to the next.                                                               *)
EXTENDS Naturals, FiniteSets

CONSTANTS
    Activations,   \* bound: the activate events that open a window
    MaxPolls,      \* health requests that fit into timeoutMs
    NoWindow       \* undefined

ASSUME PollsAssumption == MaxPolls \in Nat

\* createMainWindow is called by the startup and by activate.
Openers == {"startup"} \cup Activations

\* BrowserWindows: each call opens at most one of each kind.
Windows == {"main", "failure"} \X Openers

\* Each call of createMainWindow has a name of its own.
ASSUME OpenersAssumption == "startup" \notin Activations /\ NoWindow \notin Openers

VARIABLES
    darwin, devServer, \* process.platform, VITE_DEV_SERVER_URL
    startup,           \* where the whenReady handler awaits
    polls,             \* health requests left before the timeout
    port,              \* who listens on the port that was found
    child,             \* the backend process
    tracked,           \* backendChild, and with it backendPort, is set
    opening,           \* where each createMainWindow awaits
    open,              \* the windows on the screen
    mainWindow,
    rendererServer,    \* its call, by opener, or NoWindow
    servers,           \* renderer servers that listen
    quitting,          \* isQuitting
    gone               \* the process has ended

setting == <<darwin, devServer>>
backend == <<port, child, tracked>>
screen == <<opening, open, mainWindow>>
renderer == <<rendererServer, servers>>
shellVars == <<setting, startup, polls, backend, screen, renderer, quitting, gone>>

ShellInit ==
    /\ darwin \in BOOLEAN /\ devServer \in BOOLEAN
    /\ startup = "preparing" /\ polls = MaxPolls
    /\ port = "free" /\ child = "none" /\ tracked = FALSE
    /\ opening = [o \in Openers |-> "none"]
    /\ open = {} /\ mainWindow = NoWindow
    /\ rendererServer = NoWindow /\ servers = {}
    /\ quitting = FALSE /\ gone = FALSE

Alive == child \in {"booting", "serving"}
--------------------------------------------------------------------------------
(* The backend process and its neighbours on the port. *)

Exits == child' = "exited" /\ port' = IF port = "child" THEN "free" ELSE port

\* uvicorn binds the port and answers /health, or finds the port taken.
ChildStarts ==
    /\ child = "booting"
    /\ IF port = "free" THEN child' = "serving" /\ port' = "child" ELSE Exits
    /\ UNCHANGED <<setting, startup, polls, tracked, screen, renderer, quitting, gone>>

\* The runtime cannot be executed: exitCode is set, and there is no exit event.
ChildNotSpawned ==
    /\ child = "booting" /\ child' = "unspawned"
    /\ UNCHANGED <<setting, startup, polls, port, tracked, screen, renderer, quitting, gone>>

\* It fails to start, dies by itself, or obeys the signal.
ChildExits ==
    /\ child \in {"booting", "serving", "dying"} /\ Exits
    /\ UNCHANGED <<setting, startup, polls, tracked, screen, renderer, quitting, gone>>

\* The port is only looked at while it is chosen: another process may take it.
NeighbourBinds ==
    /\ startup = "polling" /\ port = "free" /\ port' = "neighbour"
    /\ UNCHANGED <<setting, startup, polls, child, tracked, screen, renderer, quitting, gone>>

\* trackBackendExit: the event comes some time after the end.
ExitSeen ==
    /\ ~gone /\ child = "exited" /\ tracked /\ tracked' = FALSE
    /\ UNCHANGED <<setting, startup, polls, port, child, screen, renderer, quitting, gone>>

(* Mutant: the child is forgotten without being killed. *)
StopBackendForgets == tracked' = FALSE /\ UNCHANGED <<port, child>>

StopBackend == /\ tracked' = FALSE /\ port' = port
               /\ child' = IF tracked /\ Alive THEN "dying" ELSE child
--------------------------------------------------------------------------------
(* The startup. *)

\* The catch of the handler awaits the end of the renderer server first.
Catch == /\ startup' = "cleaning" /\ rendererServer' = NoWindow
         /\ UNCHANGED <<setting, polls, open, mainWindow, servers, quitting, gone>>
Fail == /\ ~gone /\ Catch /\ UNCHANGED <<backend, opening>>

\* The helpers, the roots, and the data directory; then the port.
Prepare ==
    /\ ~gone /\ startup = "preparing" /\ startup' = "probing"
    /\ UNCHANGED <<setting, polls, backend, screen, renderer, quitting, gone>>
PrepareFails == startup = "preparing" /\ Fail

\* findAvailablePort found one that could be listened on; then, without another
\* await, the Python path is resolved and the backend spawned.
Spawn ==
    /\ ~gone /\ startup = "probing" /\ startup' = "polling"
    /\ child' = "booting" /\ tracked' = TRUE
    /\ UNCHANGED <<setting, polls, port, screen, renderer, quitting, gone>>
\* No port was free, or the Python runtime is missing.
SpawnFails == startup = "probing" /\ Fail

(* Mutant: the clock of the timeout starts again with each request. *)
PollUntimed ==
    /\ ~gone /\ startup = "polling" /\ polls > 0
    /\ UNCHANGED shellVars

\* A request without an answer, or with one that is not ok.  The exit of the child
\* is not looked at.
Poll ==
    /\ ~gone /\ startup = "polling" /\ polls > 0 /\ polls' = polls - 1
    /\ UNCHANGED <<setting, startup, backend, screen, renderer, quitting, gone>>
HealthTimesOut == startup = "polling" /\ polls = 0 /\ Fail

\* createMainWindow, up to its first await.
OpenMain(o) ==
    /\ open' = open \cup {<<"main", o>>}
    /\ opening' = [opening EXCEPT ![o] = IF devServer THEN "loading" ELSE "reading"]
    /\ UNCHANGED <<setting, polls, mainWindow, renderer, quitting, gone>>

\* Whoever listens on the port answers the request.
Healthy ==
    /\ ~gone /\ startup = "polling" /\ polls > 0 /\ port \in {"child", "neighbour"}
    /\ startup' = "opening" /\ OpenMain("startup") /\ UNCHANGED backend

ShowFailure(o) == /\ open' = open \cup {<<"failure", o>>}
                  /\ mainWindow' = <<"failure", o>>

\* The catch goes on when the renderer server is closed.  The close rejects only for a
\* server that does not listen, and rendererServer never names one.
Cleaned ==
    /\ ~gone /\ startup = "cleaning" /\ startup' = "done"
    /\ servers' = {} /\ StopBackend /\ ShowFailure("startup")
    /\ UNCHANGED <<setting, polls, opening, rendererServer, quitting, gone>>
--------------------------------------------------------------------------------
(* loadBuiltIndex and loadDevServer, for whichever call. *)

\* An exception reaches the startup's catch; activate has none.
Rejected(o) ==
    /\ opening' = [opening EXCEPT ![o] = "failed"] /\ UNCHANGED backend
    /\ IF o = "startup" THEN Catch
       ELSE UNCHANGED <<setting, startup, polls, open, mainWindow, renderer, quitting, gone>>

At(o, place) == ~gone /\ opening[o] = place

GoesOn(o, place) ==
    /\ opening' = [opening EXCEPT ![o] = place]
    /\ UNCHANGED <<setting, startup, polls, backend, open, mainWindow, quitting, gone>>

ReadIndex(o) ==
    /\ At(o, "reading") /\ UNCHANGED renderer
    /\ GoesOn(o, IF rendererServer = NoWindow THEN "serving" ELSE "loading")

\* It was undefined before the await; nobody looks again after it.
StartRenderer(o) ==
    /\ At(o, "serving") /\ GoesOn(o, "loading")
    /\ rendererServer' = o /\ servers' = servers \cup {o}

\* A window that was closed meanwhile throws, or rejects the load.
LoadEnds(o) ==
    /\ At(o, "loading") /\ <<"main", o>> \in open
    /\ opening' = [opening EXCEPT ![o] = "loaded"] /\ mainWindow' = <<"main", o>>
    /\ startup' = IF o = "startup" THEN "done" ELSE startup
    /\ UNCHANGED <<setting, polls, backend, open, renderer, quitting, gone>>

\* The file is missing, the server cannot listen, or the load fails.
OpeningFails(o) ==
    /\ ~gone /\ opening[o] \in {"reading", "serving", "loading"} /\ Rejected(o)
--------------------------------------------------------------------------------
(* The windows and the end. *)

StopRenderer == rendererServer' = NoWindow /\ servers' = {}
Ends(left) == quitting' = TRUE /\ gone' = (left = {}) /\ StopRenderer /\ StopBackend

\* before-quit.  With no window to close the process ends at once.
Quit ==
    /\ ~quitting /\ Ends(open)
    /\ UNCHANGED <<setting, startup, polls, screen>>

\* closed, and for the last one window-all-closed, which quits except on darwin.
Close(w) ==
    /\ ~gone /\ w \in open /\ open' = open \ {w}
    /\ mainWindow' = IF quitting THEN mainWindow ELSE NoWindow
    /\ IF open' = {} /\ ~darwin /\ ~quitting THEN Ends({})
       ELSE /\ gone' = (quitting /\ open' = {})
            /\ UNCHANGED <<quitting, backend, renderer>>
    /\ UNCHANGED <<setting, startup, polls, opening>>

\* What activate asks: a child is tracked and has no exitCode and no signalCode.
BackendKnown == tracked /\ child \notin {"unspawned", "exited"}

\* activate is heard after the startup, whatever came of it.
Reopen(o) ==
    /\ startup = "done" /\ darwin /\ ~quitting /\ opening[o] = "none"
    /\ open = {} /\ mainWindow = NoWindow
Activate(o) == Reopen(o) /\ BackendKnown /\ OpenMain(o) /\ UNCHANGED <<startup, backend>>
ActivateInVain(o) ==
    /\ Reopen(o) /\ ~BackendKnown /\ <<"failure", o>> \notin open /\ ShowFailure(o)
    /\ opening' = [opening EXCEPT ![o] = "failed"]
    /\ UNCHANGED <<setting, startup, polls, backend, renderer, quitting, gone>>

Start == Prepare \/ PrepareFails \/ Spawn \/ SpawnFails \/ Poll \/ HealthTimesOut \/ Healthy
         \/ Cleaned
Opens(o) == ReadIndex(o) \/ StartRenderer(o) \/ LoadEnds(o) \/ OpeningFails(o)

ShellNext ==
    \/ ChildStarts \/ ChildNotSpawned \/ ChildExits \/ NeighbourBinds \/ ExitSeen
    \/ Start \/ Quit
    \/ \E o \in Openers : Opens(o)
    \/ \E w \in Windows : Close(w)
    \/ \E o \in Activations : Activate(o) \/ ActivateInVain(o)

\* Every await of the startup comes to an end: timers, files, sockets and a page's
\* load.  The user, the backend and the other processes owe nothing.
ShellFairness == WF_shellVars(Start) /\ WF_shellVars(Opens("startup"))

ShellSpec == ShellInit /\ [][ShellNext]_shellVars /\ ShellFairness
----------------------------------------------------------------------------
(* Closing the application terminates its backend (acceptance criterion 14 of the    *)
(* workbench design): at every moment a backend that runs is the one stopBackend      *)
(* will reach, whichever await the startup is in when the application ends, a         *)
(* "Backend startup failed" window leaves none behind, and of the renderer servers     *)
(* none is lost to a second call (stopBackend, trackBackendExit, loadBuiltIndex).      *)
NothingLeftBehind ==
    /\ Alive => tracked /\ ~gone
    /\ <<"failure", "startup">> \in open => ~Alive
    /\ quitting \/ startup = "cleaning" \/ servers = {rendererServer} \ {NoWindow}

(* Every launch ends with a window, the workbench or the diagnostic screen           *)
(* (acceptance criterion 16), or with the end of the process: a backend that never     *)
(* answers, dies or loses its port, and a window closed early, included.             *)
LaunchAnswered == <>(gone \/ (startup = "done" /\ open # {}))

================================================================================
