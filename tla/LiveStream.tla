------------------------------- MODULE LiveStream ------------------------------
(***************************************************************************)
(* The live view of one episode: the thread that records and broadcasts its  *)
(* frames, the WebSocketConnectionManager on the event loop (websocket.py),  *)
(* one socket, the page's EpisodeWebSocketClient (ws.ts) and the store it    *)
(* fills (store.ts).                                                        *)
(*                                                                          *)
(* Frames are numbered by their place in the log.  What a client compares is *)
(* their frame index, and the frame a stop leaves repeats the index of the   *)
(* one before.                                                               *)
(***************************************************************************)
EXTENDS Integers, Sequences, FiniteSets

CONSTANTS
    Last,            \* the place of the episode's last frame
    MaxAttempts,     \* maxAttempts
    FrameLimit,      \* LIVE_FRAME_LIMIT
    MaxFaults        \* bound: how often a link may fail

ASSUME LiveAssumption == /\ Last \in Nat \ {0} /\ MaxAttempts \in Nat \ {0}
                         /\ FrameLimit \in Nat \ {0} /\ MaxFaults \in Nat

None  == -1
Hello == -2         \* on the socket: it is accepted

VARIABLES
    byStop,          \* the episode ends by a stop
    recorded,        \* the recorder's last_frame
    submitted,       \* the last frame handed to the event loop
    loopKnown,       \* _loop: some socket was accepted
    pending,         \* broadcasts the event loop has not run yet
    member,          \* the socket is in connections
    slow,            \* a send to the socket is waiting
    link,            \* "none", "up", or "dead": lost without a close event
    chan,            \* what is on its way to the page
    sock,            \* "none", "connecting", "open", "closing"
    attempts, heartbeatTimer, reconnectTimer, stopped,   \* EpisodeWebSocketClient
    status,          \* connection.status; "error" only where the client gives up
    frames, latest,  \* frames and latestFrame in the store
    faults           \* bound: the faults so far

serverVars == <<byStop, recorded, submitted, loopKnown, pending>>
socketVars == <<member, slow, link, chan>>
clientVars == <<sock, attempts, heartbeatTimer, reconnectTimer, stopped, status>>
storeVars  == <<frames, latest>>
liveVars == <<serverVars, socketVars, clientVars, storeVars, faults>>

FrameIndex(p) == IF byStop /\ p = Last THEN Last - 1 ELSE p

(* The page has just called connect(); the episode may be at any frame. *)
LiveInit ==
    /\ byStop \in BOOLEAN
    /\ recorded \in None..Last /\ submitted = recorded
    /\ loopKnown = FALSE /\ pending = <<>>
    /\ member = FALSE /\ slow = FALSE /\ link = "up" /\ chan = <<>>
    /\ sock = "connecting" /\ attempts = 0
    /\ heartbeatTimer = FALSE /\ reconnectTimer = FALSE /\ stopped = FALSE
    /\ status = "connecting"
    /\ frames = <<>> /\ latest = None
    /\ faults = 0

--------------------------------------------------------------------------------
(* The thread that advances the episode *)

Record ==
    /\ recorded < Last /\ submitted = recorded
    /\ recorded' = recorded + 1
    /\ UNCHANGED <<byStop, submitted, loopKnown, pending, socketVars, clientVars,
                   storeVars, faults>>

(* submit_broadcast_sim_frame: nobody is there before the loop is known. *)
Submit ==
    /\ submitted < recorded
    /\ submitted' = recorded
    /\ pending' = IF loopKnown THEN Append(pending, recorded) ELSE pending
    /\ UNCHANGED <<byStop, recorded, loopKnown, socketVars, clientVars, storeVars, faults>>

--------------------------------------------------------------------------------
(* The event loop *)

(* A send is written to the socket at once and then may wait for it. *)
Send(p) ==
    /\ chan' = IF link = "up" THEN Append(chan, p) ELSE chan
    /\ slow' \in {slow, TRUE}

Broadcast ==
    /\ pending # <<>>
    /\ pending' = Tail(pending)
    /\ IF member THEN Send(Head(pending)) ELSE UNCHANGED <<chan, slow>>
    /\ UNCHANGED <<byStop, recorded, submitted, loopKnown, member, link, clientVars,
                   storeVars, faults>>

(* Mutant: a new client waits for the next broadcast. *)
AcceptSilently ==
    /\ sock = "connecting" /\ link = "up" /\ chan = <<>> /\ ~member
    /\ loopKnown' = TRUE /\ member' = TRUE
    /\ chan' = <<Hello>>
    /\ slow' \in BOOLEAN
    /\ UNCHANGED <<byStop, recorded, submitted, pending, link, clientVars, storeVars, faults>>

(* connect, and send_initial_frame in the same turn of the loop. *)
Accept ==
    /\ sock = "connecting" /\ link = "up" /\ chan = <<>> /\ ~member
    /\ loopKnown' = TRUE /\ member' = TRUE
    /\ chan' = IF recorded = None THEN <<Hello>> ELSE <<Hello, recorded>>
    /\ slow' \in IF recorded = None THEN {FALSE} ELSE BOOLEAN
    /\ UNCHANGED <<byStop, recorded, submitted, pending, link, clientVars, storeVars, faults>>

(* The heartbeat task goes on as long as the socket, whether it is a member or not. *)
Heartbeat ==
    /\ sock \in {"open", "closing"} /\ ~slow
    /\ slow' = TRUE
    /\ UNCHANGED <<serverVars, member, link, chan, clientVars, storeVars, faults>>

(* _send_one: a send that waits too long takes its socket off the broadcasts. *)
SendTimeout ==
    /\ slow /\ slow' = FALSE
    /\ member' = FALSE
    /\ UNCHANGED <<serverVars, link, chan, clientVars, storeVars, faults>>

SendDone ==
    /\ slow /\ slow' = FALSE
    /\ UNCHANGED <<serverVars, member, link, chan, clientVars, storeVars, faults>>

--------------------------------------------------------------------------------
(* The page: messages *)

Opened ==
    /\ chan # <<>> /\ Head(chan) = Hello /\ sock = "connecting"
    /\ chan' = Tail(chan)
    /\ sock' = "open" /\ status' = "open" /\ attempts' = 0
    /\ heartbeatTimer' = TRUE
    /\ UNCHANGED <<serverVars, member, slow, link, reconnectTimer, stopped, storeVars, faults>>

(* Mutant: a frame that comes twice is kept twice. *)
NewerOrSame(p) == frames = <<>> \/ FrameIndex(p) >= FrameIndex(frames[Len(frames)])

Newer(p) == frames = <<>> \/ FrameIndex(p) > FrameIndex(frames[Len(frames)])

Bounded(s) == IF Len(s) > FrameLimit THEN SubSeq(s, Len(s) - FrameLimit + 1, Len(s)) ELSE s

(* pushRealtimeFrame: an old frame is shown, and kept out of the buffer. *)
Frame ==
    /\ chan # <<>> /\ Head(chan) # Hello /\ sock = "open"
    /\ chan' = Tail(chan)
    /\ latest' = Head(chan)
    /\ frames' = IF Newer(Head(chan)) THEN Bounded(Append(frames, Head(chan))) ELSE frames
    /\ heartbeatTimer' = TRUE
    /\ UNCHANGED <<serverVars, member, slow, link, sock, attempts, reconnectTimer, stopped,
                   status, faults>>

--------------------------------------------------------------------------------
(* The page: connections *)

(* The socket's server side goes with it. *)
Gone == link' = "none" /\ chan' = <<>> /\ member' = FALSE /\ slow' = FALSE

(* scheduleReconnect *)
ScheduleReconnect ==
    IF attempts >= MaxAttempts
    THEN status' = "error" /\ UNCHANGED <<attempts, reconnectTimer>>
    ELSE status' = "reconnecting" /\ attempts' = attempts + 1 /\ reconnectTimer' = TRUE

(* onclose, of a socket that was refused, broke, or was closed by the timer *)
Closed ==
    /\ sock # "none"
    /\ faults' = IF sock = "closing" THEN faults ELSE faults + 1
    /\ faults' <= MaxFaults
    /\ sock' = "none" /\ heartbeatTimer' = FALSE
    /\ ScheduleReconnect
    /\ Gone
    /\ UNCHANGED <<serverVars, stopped, storeVars>>

LinkDies ==
    /\ link = "up" /\ sock = "open" /\ faults < MaxFaults
    /\ link' = "dead" /\ chan' = <<>>
    /\ faults' = faults + 1
    /\ UNCHANGED <<serverVars, member, slow, clientVars, storeVars>>

(* Mutant: the timer is not armed again after it fired in vain. *)
HeartbeatTimeoutIdle ==
    /\ heartbeatTimer /\ sock = "open" /\ link = "dead"
    /\ heartbeatTimer' = FALSE
    /\ UNCHANGED <<serverVars, socketVars, sock, attempts, reconnectTimer, stopped, status,
                   storeVars, faults>>

(* armHeartbeat: fires idle only on a link that carries no heartbeat any more. *)
HeartbeatTimeout ==
    /\ heartbeatTimer /\ sock = "open" /\ link = "dead"
    /\ sock' = "closing" /\ heartbeatTimer' = FALSE
    /\ UNCHANGED <<serverVars, socketVars, attempts, reconnectTimer, stopped, status,
                   storeVars, faults>>

(* openSocket *)
Reconnect ==
    /\ reconnectTimer /\ reconnectTimer' = FALSE
    /\ sock' = "connecting" /\ status' = "reconnecting"
    /\ link' = "up" /\ chan' = <<>> /\ member' = FALSE /\ slow' = FALSE
    /\ UNCHANGED <<serverVars, attempts, heartbeatTimer, stopped, storeVars, faults>>

(* Mutant: the timers are left running. *)
LeaveTimers ==
    /\ ~stopped /\ stopped' = TRUE
    /\ sock' = "none" /\ status' = "idle"
    /\ Gone
    /\ UNCHANGED <<serverVars, heartbeatTimer, reconnectTimer, attempts, storeVars, faults>>

(* stop(), when the page is left *)
Leave ==
    /\ ~stopped /\ stopped' = TRUE
    /\ heartbeatTimer' = FALSE /\ reconnectTimer' = FALSE
    /\ sock' = "none" /\ status' = "idle"
    /\ Gone
    /\ UNCHANGED <<serverVars, attempts, storeVars, faults>>

--------------------------------------------------------------------------------
Episode == Record \/ Submit
Loop == Broadcast \/ Accept
Waiting == SendTimeout \/ SendDone
Page == Opened \/ Frame \/ HeartbeatTimeout \/ Reconnect \/ (sock = "closing" /\ Closed)

LiveNext == Episode \/ Loop \/ Waiting \/ Page \/ Heartbeat \/ Closed \/ LinkDies \/ Leave

LiveSpec == LiveInit /\ [][LiveNext]_liveVars

(* The episode goes on, the loop and the page's timers and messages run, and   *)
(* a send does not wait for ever; no link has to fail and no page to be left.  *)
LiveFairness ==
    /\ WF_liveVars(Episode) /\ WF_liveVars(Broadcast) /\ WF_liveVars(Accept) /\ WF_liveVars(Waiting)
    /\ WF_liveVars(Page)

LiveFairSpec == LiveSpec /\ LiveFairness

--------------------------------------------------------------------------------
(* Properties *)

SeqSet(s) == {s[i] : i \in DOMAIN s}

(* The page is never stuck: unless it was left or has shown that it gives up,   *)
(* it has a socket or a timer that brings one, never both, and an open socket   *)
(* has the timer that notices its silence.                                      *)
OneLifeline ==
    /\ stopped => sock = "none" /\ ~reconnectTimer /\ ~heartbeatTimer
    /\ ~stopped /\ status # "error" => (sock = "none" <=> reconnectTimer)
    /\ sock = "open" => heartbeatTimer

(* The timeline's buffer holds every frame index once, in order, whatever was  *)
(* sent twice or late around a reconnect, and keeps the newest.                 *)
BufferInOrder ==
    /\ Len(frames) <= FrameLimit
    /\ \A i \in 1..(Len(frames) - 1) : FrameIndex(frames[i]) < FrameIndex(frames[i + 1])
    /\ frames # <<>> => FrameIndex(frames[Len(frames)]) >= FrameIndex(latest)

(* A page on the broadcasts does not miss the newest frame, though it may be    *)
(* shown older ones before: it shows it, or it is on its way.                   *)
NewestOnItsWay ==
    sock = "open" /\ link = "up" /\ member =>
        \/ latest = recorded
        \/ recorded \in SeqSet(chan) \cup SeqSet(pending)
        \/ submitted < recorded

(* The end of the episode is shown, unless the page is left, gives up, or has   *)
(* been taken off the broadcasts.                                               *)
CatchesUp ==
    <>[](latest = Last \/ stopped \/ status = "error" \/ (sock = "open" /\ ~member))

(* moduleM overview, failure boundary: a slow client is disconnected, or loses  *)
(* old frames.  Either way it does not stay connected without getting frames.   *)
DroppedIsDisconnected == (sock = "open" /\ ~member) ~> (sock # "open" \/ member)
================================================================================
