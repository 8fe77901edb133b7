------------------------------ MODULE MCWorkbench ------------------------------
(* Three parts of a session at the workbench in one run: the desktop shell, the   *)
(* live view of a page in its window, and the task system of the episode it       *)
(* shows.  They share no variable, so no interleaving of them shows more than     *)
(* each shows while the others rest: a behaviour is one part's, beside a shell    *)
(* that is up, a page that was left, and tasks not yet begun.                     *)
EXTENDS MCDesktopShell, MCLiveStream, MCTaskLifecycle

(* The workbench is in its window and the backend serves.                         *)
ShellUp ==
    /\ darwin = FALSE /\ devServer = FALSE /\ startup = "done" /\ polls = MaxPolls
    /\ port = "child" /\ child = "serving" /\ tracked = TRUE
    /\ opening = [o \in Openers |-> IF o = "startup" THEN "loaded" ELSE "none"]
    /\ mainWindow = <<"main", "startup">> /\ open = {mainWindow}
    /\ rendererServer = "startup" /\ servers = {"startup"}
    /\ quitting = FALSE /\ gone = FALSE

(* The episode is over, and the page was left before its socket was accepted.      *)
PageLeft ==
    /\ byStop = FALSE /\ recorded = Last /\ submitted = Last
    /\ loopKnown = FALSE /\ pending = <<>>
    /\ member = FALSE /\ slow = FALSE /\ link = "none" /\ chan = <<>>
    /\ sock = "none" /\ attempts = 0
    /\ heartbeatTimer = FALSE /\ reconnectTimer = FALSE /\ stopped = TRUE
    /\ status = "idle"
    /\ frames = <<>> /\ latest = None /\ faults = 0

(* Init of TaskLifecycle is one state.                                            *)
WorkbenchInit == \/ ShellInit /\ PageLeft /\ Init
                 \/ ShellUp /\ LiveInit /\ Init

WorkbenchNext ==
    \/ PageLeft /\ Init /\ ShellNext /\ UNCHANGED <<liveVars, vars>>
    \/ ShellUp /\ Init /\ LiveNext /\ UNCHANGED <<shellVars, vars>>
    \/ ShellUp /\ PageLeft /\ Next /\ UNCHANGED <<shellVars, liveVars>>

WorkbenchSpec == /\ WorkbenchInit /\ [][WorkbenchNext]_<<shellVars, liveVars, vars>>
                 /\ ShellFairness /\ LiveFairness

================================================================================
