---------------------------- MODULE LiveStreamProofs ----------------------------
(***************************************************************************)
(* Proofs about the live view of an episode, for a log, a buffer and a number    *)
(* of attempts of any length, and any number of faults: the page has a socket or  *)
(* the timer that brings one, its buffer is in order, and the newest frame is     *)
(* shown or on its way to a page on the broadcasts.                             *)
(***************************************************************************)
EXTENDS LiveStream, TLAPS

Places == 0 .. Last

TypeInv ==
    /\ byStop \in BOOLEAN /\ loopKnown \in BOOLEAN /\ member \in BOOLEAN
    /\ recorded \in None .. Last /\ submitted \in None .. recorded
    /\ pending \in Seq(Places) /\ chan \in Seq(Places \cup {Hello})
    /\ sock \in {"none", "connecting", "open", "closing"}
    /\ frames \in Seq(Places) /\ latest \in None .. Last
    /\ attempts \in Nat /\ faults \in Nat

(* A page that has given up has neither a socket nor a timer. *)
LifeInv ==
    /\ OneLifeline
    /\ status = "error" => sock = "none" /\ ~reconnectTimer

(* The loop's broadcasts end with the newest frame handed to it, and nothing is of  *)
(* a frame still to be recorded.  The hello of a socket comes before its frames.    *)
QueueInv ==
    /\ member \/ pending # <<>> => loopKnown
    /\ pending # <<>> => pending[Len(pending)] = submitted
    /\ latest <= recorded
    /\ \A i \in 1 .. Len(pending) : pending[i] <= recorded
    /\ \A i \in 1 .. Len(chan) : chan[i] <= recorded
    /\ \A i \in 2 .. Len(chan) : chan[i] # Hello

(* With no broadcast to come, the newest frame is the last one on its way to a      *)
(* member, or shown when nothing is.                                            *)
Quiet == chan = <<>> \/ chan[Len(chan)] = Hello
StreamInv ==
    member /\ link = "up" /\ pending = <<>> /\ submitted = recorded =>
        IF Quiet THEN latest = recorded ELSE chan[Len(chan)] = recorded

LiveInv == TypeInv /\ LifeInv /\ BufferInOrder /\ QueueInv /\ StreamInv
--------------------------------------------------------------------------------
(* Sequences.                                                                *)
LEMMA HeadAndTail ==
  ASSUME NEW S, NEW s \in Seq(S), s # <<>>
  PROVE  /\ Len(s) \in Nat \ {0} /\ Head(s) = s[1] /\ Head(s) \in S
         /\ Tail(s) \in Seq(S) /\ Len(Tail(s)) = Len(s) - 1
         /\ \A i \in 1 .. Len(s) - 1 : Tail(s)[i] = s[i + 1]
OBVIOUS

LEMMA Element ==
  ASSUME NEW S, NEW s \in Seq(S), NEW i \in 1 .. Len(s)
  PROVE  s[i] \in S
OBVIOUS

LEMMA Appended ==
  ASSUME NEW S, NEW s \in Seq(S), NEW e \in S
  PROVE  /\ Append(s, e) \in Seq(S) /\ Append(s, e) # <<>>
         /\ Len(s) \in Nat /\ Len(Append(s, e)) = Len(s) + 1
         /\ \A i \in 1 .. Len(s) : Append(s, e)[i] = s[i]
         /\ Append(s, e)[Len(s) + 1] = e
OBVIOUS

LEMMA NoneLeft ==
  ASSUME NEW S, NEW s \in Seq(S)
  PROVE  Len(s) \in Nat /\ (s = <<>> <=> Len(s) = 0)
OBVIOUS

(* The buffer with one frame more drops at most its oldest one.                   *)
LEMMA Trimmed ==
  ASSUME NEW s \in Seq(Places), NEW p \in Places, Len(s) <= FrameLimit
  PROVE  LET b == Bounded(Append(s, p)) IN
         /\ b \in Seq(Places) /\ Len(b) \in 1 .. FrameLimit /\ b[Len(b)] = p
         /\ \E d \in {0, 1} :
                /\ Len(b) + d = Len(s) + 1
                /\ \A i \in 1 .. Len(b) - 1 : i + d \in 1 .. Len(s) /\ b[i] = s[i + d]
<1> DEFINE a == Append(s, p)
           b == Bounded(a)
<1>1. /\ a \in Seq(Places) /\ Len(s) \in Nat /\ Len(a) = Len(s) + 1 /\ a[Len(s) + 1] = p
      /\ \A i \in 1 .. Len(s) : a[i] = s[i]
  BY Appended
<1>2. FrameLimit \in Nat \ {0}
  BY LiveAssumption
<1> HIDE DEF a
<1>3. CASE Len(a) <= FrameLimit
  <2>1. b = a
    BY <1>1, <1>2, <1>3 DEF Bounded
  <2> HIDE DEF b
  <2>2. \A i \in 1 .. Len(b) - 1 : i + 0 \in 1 .. Len(s) /\ b[i] = s[i + 0]
    BY <1>1, <2>1
  <2>3. b \in Seq(Places) /\ Len(b) \in 1 .. FrameLimit /\ b[Len(b)] = p /\ Len(b) + 0 = Len(s) + 1
    BY <1>1, <1>3, <2>1
  <2> QED
    BY <2>2, <2>3 DEF a, b
<1>4. CASE Len(a) > FrameLimit
  <2>1. Len(a) = FrameLimit + 1 /\ Len(s) = FrameLimit
    BY <1>1, <1>2, <1>4
  <2>2. b = SubSeq(a, 2, Len(a))
    BY <1>1, <1>2, <1>4, <2>1 DEF Bounded
  <2>3. b \in Seq(Places) /\ Len(b) = Len(a) - 1 /\ \A i \in 1 .. Len(a) - 1 : b[i] = a[i + 1]
    BY <1>1, <1>2, <2>1, <2>2
  <2> HIDE DEF b
  <2>4. \A i \in 1 .. Len(b) - 1 : i + 1 \in 1 .. Len(s) /\ b[i] = s[i + 1]
    BY <1>1, <1>2, <2>1, <2>3
  <2>5. Len(b) \in 1 .. FrameLimit /\ b[Len(b)] = p /\ Len(b) + 1 = Len(s) + 1
    BY <1>1, <1>2, <2>1, <2>3
  <2> QED
    BY <2>3, <2>4, <2>5 DEF a, b
<1> QED
  BY <1>1, <1>2, <1>3, <1>4

(* Without its bound on the buffer. *)
LEMMA Kept ==
  ASSUME NEW s \in Seq(Places), NEW p \in Places
  PROVE  Bounded(Append(s, p)) \in Seq(Places)
<1> DEFINE a == Append(s, p)
<1>1. a \in Seq(Places) /\ Len(a) \in Nat /\ FrameLimit \in Nat \ {0}
  BY Appended, LiveAssumption
<1> HIDE DEF a
<1>2. Len(a) > FrameLimit => SubSeq(a, Len(a) - FrameLimit + 1, Len(a)) \in Seq(Places)
  BY <1>1
<1>3. Bounded(a) \in Seq(Places)
  BY <1>1, <1>2 DEF Bounded
<1> QED
  BY <1>3 DEF a

--------------------------------------------------------------------------------
LEMMA TypeKeeps ==
  ASSUME TypeInv, [LiveNext]_liveVars
  PROVE  TypeInv'
<1> USE LiveAssumption DEF TypeInv, None, Places, serverVars, socketVars, clientVars, storeVars
<1>1. CASE UNCHANGED liveVars
  BY <1>1 DEF liveVars
<1>2. CASE Record
  BY <1>2 DEF Record
<1>3. CASE Submit
  <2>1. recorded \in Places
    BY <1>3 DEF Submit
  <2>2. pending' \in Seq(Places)
    BY <1>3, <2>1, Appended DEF Submit
  <2>3. UNCHANGED <<byStop, loopKnown, member, recorded, chan, sock, frames, latest,
                    attempts, faults>>
        /\ submitted' = recorded
    BY <1>3 DEF Submit
  <2> QED
    BY <2>1, <2>2, <2>3
<1>4. CASE Broadcast
  <2>1. Tail(pending) \in Seq(Places) /\ Head(pending) \in Places \cup {Hello}
    BY <1>4, HeadAndTail DEF Broadcast
  <2>2. Append(chan, Head(pending)) \in Seq(Places \cup {Hello})
    BY <2>1, Appended
  <2>3. chan' \in Seq(Places \cup {Hello}) /\ pending' = Tail(pending)
    BY <1>4, <2>2 DEF Broadcast, Send
  <2> QED
    BY <1>4, <2>1, <2>3 DEF Broadcast
<1>5. CASE Accept
  <2> DEFINE Messages == Places \cup {Hello}
  <2>2. recorded # None => recorded \in Messages
    OBVIOUS
  <2>3. Hello \in Messages
    OBVIOUS
  <2> HIDE DEF Messages
  <2>4. /\ chan' = IF recorded = None THEN <<Hello>> ELSE <<Hello, recorded>>
        /\ <<Hello>> \in Seq(Messages)
        /\ recorded # None => <<Hello, recorded>> \in Seq(Messages)
    BY <1>5, <2>2, <2>3 DEF Accept
  <2>1. chan' \in Seq(Places \cup {Hello})
    BY <2>4 DEF Messages
  <2> QED
    BY <1>5, <2>1 DEF Accept
<1>6. CASE SendTimeout \/ SendDone \/ Heartbeat
  BY <1>6 DEF SendTimeout, SendDone, Heartbeat
<1>7. CASE Opened
  <2>1. chan' \in Seq(Places \cup {Hello})
    BY <1>7, HeadAndTail DEF Opened
  <2> QED
    BY <1>7, <2>1 DEF Opened
<1>8. CASE Frame
  <2>1. chan' \in Seq(Places \cup {Hello}) /\ Head(chan) \in Places
    BY <1>8, HeadAndTail DEF Frame
  <2>2. frames' \in Seq(Places) /\ latest' \in Places
    BY <1>8, <2>1, Kept DEF Frame
  <2> QED
    BY <1>8, <2>1, <2>2 DEF Frame
<1>9. ASSUME UNCHANGED <<byStop, loopKnown, recorded, submitted, pending, frames, latest>>,
              chan' = chan \/ chan' = <<>>, member' = member \/ member' = FALSE,
              sock' \in {"none", "connecting", "open", "closing"},
              attempts' \in {attempts, attempts + 1}, faults' \in {faults, faults + 1}
       PROVE  TypeInv'
  <2>1. chan' \in Seq(Places \cup {Hello})
    <3>1. <<>> \in Seq(Places \cup {Hello}) /\ chan \in Seq(Places \cup {Hello})
      OBVIOUS
    <3> QED
      BY <1>9, <3>1
  <2>2. member' \in BOOLEAN
    BY <1>9
  <2>3. attempts' \in Nat /\ faults' \in Nat
    BY <1>9
  <2> QED
    BY <1>9, <2>1, <2>2, <2>3
<1>10. CASE Closed
  BY <1>10, <1>9 DEF Closed, Gone, ScheduleReconnect
<1>11. CASE LinkDies \/ HeartbeatTimeout \/ Reconnect \/ Leave
  BY <1>11, <1>9 DEF LinkDies, HeartbeatTimeout, Reconnect, Leave, Gone
<1> QED
  BY <1>1, <1>2, <1>3, <1>4, <1>5, <1>6, <1>7, <1>8, <1>10, <1>11
     DEF LiveNext, Episode, Loop, Waiting, Page

LEMMA LifeKeeps ==
  ASSUME TypeInv, LifeInv, [LiveNext]_liveVars
  PROVE  LifeInv'
<1> USE DEF LifeInv, OneLifeline, serverVars, socketVars, clientVars, storeVars
<1>1. CASE UNCHANGED liveVars
  BY <1>1 DEF liveVars
<1>2. CASE Episode \/ Loop \/ Waiting \/ Heartbeat \/ LinkDies
  <2>1. UNCHANGED clientVars
    BY <1>2 DEF Episode, Record, Submit, Loop, Broadcast, Accept, Waiting, SendTimeout, SendDone,
                Heartbeat, LinkDies
  <2> QED
    BY <2>1
<1>3. CASE Opened
  BY <1>3 DEF Opened
<1>4. CASE Frame
  BY <1>4 DEF Frame
<1>5. CASE Closed
  BY <1>5 DEF Closed, ScheduleReconnect
<1>6. CASE HeartbeatTimeout
  BY <1>6 DEF HeartbeatTimeout
<1>7. CASE Reconnect
  BY <1>7 DEF Reconnect
<1>8. CASE Leave
  BY <1>8 DEF Leave
<1> QED
  BY <1>1, <1>2, <1>3, <1>4, <1>5, <1>6, <1>7, <1>8 DEF LiveNext, Page

(* The order of the buffer, whatever comes twice or late.                        *)
LEMMA BufferKeeps ==
  ASSUME TypeInv, BufferInOrder, [LiveNext]_liveVars
  PROVE  BufferInOrder'
<1> USE LiveAssumption DEF serverVars, socketVars, clientVars, storeVars
<1>1. \A p \in Int : FrameIndex(p) \in Int
  BY DEF FrameIndex
<1>2. CASE UNCHANGED <<byStop, frames, latest>>
  BY <1>2 DEF BufferInOrder, FrameIndex
<1>3. CASE Frame
  <2> DEFINE p == Head(chan)
  <2>1. p \in Places /\ Places \subseteq Int
    BY <1>3, HeadAndTail DEF Frame, TypeInv, Places
  <2>2. byStop' = byStop /\ latest' = p
        /\ frames' = IF Newer(p) THEN Bounded(Append(frames, p)) ELSE frames
    BY <1>3 DEF Frame
  <2>3. frames \in Seq(Places) /\ Len(frames) \in Nat /\ (frames = <<>> <=> Len(frames) = 0)
    BY NoneLeft DEF TypeInv
  <2>4. \A q : FrameIndex(q)' = FrameIndex(q)
    BY <2>2 DEF FrameIndex
  <2> HIDE DEF p
  <2>5. CASE ~Newer(p)
    <3>1. frames' = frames /\ frames # <<>> /\ frames[Len(frames)] \in Places
      BY <2>2, <2>3, <2>5 DEF Newer
    <3>2. FrameIndex(frames[Len(frames)]) >= FrameIndex(p)
      <4>1. FrameIndex(frames[Len(frames)]) \in Int /\ FrameIndex(p) \in Int
        BY <1>1, <2>1, <3>1
      <4>2. ~(FrameIndex(p) > FrameIndex(frames[Len(frames)]))
        BY <2>5, <3>1 DEF Newer
      <4> QED
        BY <4>1, <4>2
    <3> QED
      BY <2>2, <2>4, <3>1, <3>2 DEF BufferInOrder
  <2>6. CASE Newer(p)
    <3> DEFINE b == Bounded(Append(frames, p))
    <3>1. Len(frames) <= FrameLimit
      BY DEF BufferInOrder
    <3>2. /\ b \in Seq(Places) /\ Len(b) \in 1 .. FrameLimit /\ b[Len(b)] = p
          /\ \E d \in {0, 1} :
                 /\ Len(b) + d = Len(frames) + 1
                 /\ \A i \in 1 .. Len(b) - 1 : i + d \in 1 .. Len(frames) /\ b[i] = frames[i + d]
      BY <2>1, <2>3, <3>1, Trimmed
    <3> HIDE DEF b
    <3>3. PICK d \in {0, 1} :
              /\ Len(b) + d = Len(frames) + 1
              /\ \A i \in 1 .. Len(b) - 1 : i + d \in 1 .. Len(frames) /\ b[i] = frames[i + d]
      BY <3>2
    <3>4. ASSUME NEW i \in 1 .. Len(b) - 1 PROVE FrameIndex(b[i]) < FrameIndex(b[i + 1])
      <4>1. i + d \in 1 .. Len(frames) /\ b[i] = frames[i + d]
        BY <3>3
      <4>2. CASE i = Len(b) - 1
        <5>1. b[i + 1] = p /\ i + d = Len(frames)
          BY <3>2, <3>3, <4>2
        <5>2. FrameIndex(p) > FrameIndex(frames[Len(frames)])
          BY <2>3, <2>6, <4>1 DEF Newer
        <5>3. frames[Len(frames)] \in Int /\ p \in Int
          <6>1. Len(frames) \in 1 .. Len(frames)
            BY <2>3, <4>1, <5>1
          <6>2. frames[Len(frames)] \in Places
            BY <2>3, <6>1, Element
          <6> QED
            BY <2>1, <6>2
        <5> QED
          BY <1>1, <4>1, <5>1, <5>2, <5>3
      <4>3. CASE i # Len(b) - 1
        <5>1. i + 1 \in 1 .. Len(b) - 1
          BY <3>2, <4>3
        <5>2. b[i + 1] = frames[(i + d) + 1] /\ i + d \in 1 .. Len(frames) - 1
          <6>1. (i + 1) + d \in 1 .. Len(frames) /\ b[i + 1] = frames[(i + 1) + d]
            BY <3>3, <5>1
          <6>2. (i + 1) + d = (i + d) + 1
            BY <3>3
          <6> QED
            BY <2>3, <4>1, <6>1, <6>2
        <5> QED
          BY <4>1, <5>2 DEF BufferInOrder
      <4> QED
        BY <4>2, <4>3
    <3>5. frames' = b /\ latest' = p
      BY <2>2, <2>6 DEF b
    <3>6. FrameIndex(p) >= FrameIndex(p) /\ Len(b) <= FrameLimit
      BY <1>1, <2>1, <3>2
    <3> QED
      BY <2>4, <3>2, <3>4, <3>5, <3>6 DEF BufferInOrder
  <2> QED
    BY <2>5, <2>6
<1>4. UNCHANGED <<byStop, frames, latest>> \/ Frame
  BY DEF LiveNext, liveVars, Episode, Record, Submit, Loop, Broadcast, Accept, Waiting, SendTimeout,
         SendDone, Page, Opened, HeartbeatTimeout, Reconnect, Closed, Heartbeat, LinkDies, Leave
<1> QED
  BY <1>2, <1>3, <1>4

(* What a message on its way to the page, and one that leaves, are.                 *)
LEMMA QueueKeeps ==
  ASSUME TypeInv, QueueInv, [LiveNext]_liveVars
  PROVE  QueueInv'
<1> USE DEF serverVars, socketVars, clientVars, storeVars
<1>1. /\ recorded \in Int /\ submitted \in Int /\ submitted <= recorded /\ Hello = -2
      /\ pending \in Seq(Places) /\ chan \in Seq(Places \cup {Hello})
      /\ Places \cup {Hello} \subseteq Int /\ None \in Int /\ None <= recorded
      /\ Len(pending) \in Nat /\ Len(chan) \in Nat /\ Hello <= recorded
  BY LiveAssumption, NoneLeft DEF TypeInv, Places, None, Hello
<1>2. ASSUME UNCHANGED <<recorded, submitted, pending, loopKnown>>,
             latest' = latest, chan' = chan \/ chan' = <<>>, member' = member \/ member' = FALSE
      PROVE  QueueInv'
  BY <1>2 DEF QueueInv
<1>3. CASE UNCHANGED liveVars
  BY <1>2, <1>3 DEF liveVars
<1>4. CASE Waiting \/ Heartbeat \/ HeartbeatTimeout \/ Reconnect \/ Closed \/ LinkDies \/ Leave
  BY <1>2, <1>4 DEF Waiting, SendTimeout, SendDone, Heartbeat, HeartbeatTimeout, Reconnect,
                    Closed, Gone, LinkDies, Leave
<1>5. CASE Record
  <2>1. /\ recorded' = recorded + 1
        /\ UNCHANGED <<submitted, pending, loopKnown, latest, chan, member>>
    BY <1>5 DEF Record
  <2>2. latest \in Int /\ (\A i \in 1 .. Len(pending) : pending[i] \in Int)
        /\ \A i \in 1 .. Len(chan) : chan[i] \in Int
    BY <1>1 DEF TypeInv
  <2> QED
    BY <1>1, <2>1, <2>2 DEF QueueInv
<1>6. CASE Submit
  <2>1. /\ submitted' = recorded /\ UNCHANGED <<recorded, loopKnown, latest, chan, member>>
        /\ pending' = IF loopKnown THEN Append(pending, recorded) ELSE pending
        /\ recorded \in Places
    BY <1>6 DEF Submit, TypeInv, Places, None
  <2>2. CASE loopKnown
    <3>1. /\ Len(pending') = Len(pending) + 1 /\ pending'[Len(pending) + 1] = recorded
          /\ \A i \in 1 .. Len(pending) : pending'[i] = pending[i]
      BY <1>1, <2>1, <2>2, Appended
    <3>2. ASSUME NEW i \in 1 .. Len(pending') PROVE pending'[i] <= recorded
      <4>1. CASE i = Len(pending) + 1
        BY <1>1, <3>1, <4>1
      <4>2. CASE i # Len(pending) + 1
        <5>1. i \in 1 .. Len(pending)
          BY <1>1, <3>1, <4>2
        <5> QED
          BY <3>1, <5>1 DEF QueueInv
      <4> QED
        BY <4>1, <4>2
    <3> QED
      BY <2>1, <2>2, <3>1, <3>2 DEF QueueInv
  <2>3. CASE ~loopKnown
    BY <2>1, <2>3 DEF QueueInv
  <2> QED
    BY <2>2, <2>3
<1>7. CASE Broadcast
  <2> DEFINE p == Head(pending)
  <2>1. /\ UNCHANGED <<recorded, submitted, loopKnown, latest, member>>
        /\ pending # <<>> /\ pending' = Tail(pending)
        /\ chan' = Append(chan, p) \/ chan' = chan
    BY <1>7 DEF Broadcast, Send
  <2>2. /\ Len(pending) \in Nat \ {0} /\ p = pending[1] /\ p \in Places
        /\ pending' \in Seq(Places) /\ Len(pending') = Len(pending) - 1
        /\ \A i \in 1 .. Len(pending) - 1 : pending'[i] = pending[i + 1]
    BY <1>1, <2>1, HeadAndTail
  <2>3. p <= recorded /\ p # Hello
    BY <1>1, <2>2 DEF QueueInv, Places
  <2> HIDE DEF p
  <2>4. pending' # <<>> => pending'[Len(pending')] = submitted
    <3>1. pending' # <<>> => Len(pending') \in 1 .. Len(pending) - 1
      BY <2>2, NoneLeft
    <3> QED
      BY <2>1, <2>2, <3>1 DEF QueueInv
  <2>5. \A i \in 1 .. Len(pending') : pending'[i] <= recorded
    BY <2>2 DEF QueueInv
  <2>6. CASE chan' = Append(chan, p)
    <3>1. /\ Len(chan') = Len(chan) + 1 /\ chan'[Len(chan) + 1] = p
          /\ \A i \in 1 .. Len(chan) : chan'[i] = chan[i]
      BY <1>1, <2>2, <2>6, Appended
    <3>2. /\ \A i \in 1 .. Len(chan') : chan'[i] <= recorded
          /\ \A i \in 2 .. Len(chan') : chan'[i] # Hello
      BY <1>1, <2>3, <3>1 DEF QueueInv
    <3> QED
      BY <2>1, <2>4, <2>5, <3>2 DEF QueueInv
  <2>7. CASE chan' = chan
    BY <2>1, <2>4, <2>5, <2>7 DEF QueueInv
  <2> QED
    BY <2>1, <2>6, <2>7
<1>8. CASE Accept
  <2>1. /\ UNCHANGED <<recorded, submitted, pending, latest>> /\ loopKnown' = TRUE
        /\ chan' = IF recorded = None THEN <<Hello>> ELSE <<Hello, recorded>>
    BY <1>8 DEF Accept
  <2>2. /\ \A i \in 1 .. Len(chan') : chan'[i] <= recorded
        /\ \A i \in 2 .. Len(chan') : chan'[i] # Hello
    BY <1>1, <2>1 DEF None
  <2> QED
    BY <2>1, <2>2 DEF QueueInv
<1>9. CASE Opened \/ Frame
  <2>1. /\ UNCHANGED <<recorded, submitted, pending, loopKnown, member>>
        /\ chan # <<>> /\ chan' = Tail(chan) /\ latest' \in {latest, Head(chan)}
    BY <1>9 DEF Opened, Frame
  <2>2. /\ Len(chan) \in Nat \ {0} /\ Head(chan) = chan[1] /\ Len(chan') = Len(chan) - 1
        /\ \A i \in 1 .. Len(chan) - 1 : chan'[i] = chan[i + 1]
    BY <1>1, <2>1, HeadAndTail
  <2>3. latest' <= recorded
    BY <2>1, <2>2 DEF QueueInv
  <2>4. /\ \A i \in 1 .. Len(chan') : chan'[i] <= recorded
        /\ \A i \in 2 .. Len(chan') : chan'[i] # Hello
    BY <2>2 DEF QueueInv
  <2> QED
    BY <2>1, <2>3, <2>4 DEF QueueInv
<1> QED
  BY <1>3, <1>4, <1>5, <1>6, <1>7, <1>8, <1>9 DEF LiveNext, Episode, Loop, Page

LEMMA StreamKeeps ==
  ASSUME TypeInv, QueueInv, StreamInv, [LiveNext]_liveVars
  PROVE  StreamInv'
<1> USE DEF serverVars, socketVars, clientVars, storeVars
<1>1. /\ recorded \in Int /\ submitted \in Int /\ submitted <= recorded /\ Hello = -2
      /\ pending \in Seq(Places) /\ chan \in Seq(Places \cup {Hello})
      /\ Places \cup {Hello} \subseteq Int /\ None \in Int /\ None <= recorded
      /\ Len(pending) \in Nat /\ Len(chan) \in Nat /\ Hello <= recorded
  BY LiveAssumption, NoneLeft DEF TypeInv, Places, None, Hello
<1>2. ASSUME UNCHANGED <<recorded, submitted, pending, latest, chan>>,
             member' = member \/ member' = FALSE, link' = link \/ member' = FALSE
      PROVE  StreamInv'
  BY <1>2 DEF StreamInv, Quiet
<1>3. CASE UNCHANGED liveVars \/ Waiting \/ Heartbeat \/ HeartbeatTimeout
  BY <1>2, <1>3 DEF liveVars, Waiting, SendTimeout, SendDone, Heartbeat, HeartbeatTimeout
<1>4. CASE Reconnect \/ Closed \/ LinkDies \/ Leave
  <2>1. ~member' \/ link' # "up"
    BY <1>4 DEF Reconnect, Closed, Gone, LinkDies, Leave
  <2> QED
    BY <2>1 DEF StreamInv
<1>5. CASE Record
  <2>1. submitted' # recorded'
    BY <1>1, <1>5 DEF Record
  <2> QED
    BY <2>1 DEF StreamInv
<1>6. CASE Submit
  <2>1. ~member' \/ pending' # <<>>
    BY <1>1, <1>6, Appended DEF Submit, QueueInv, TypeInv, Places, None
  <2> QED
    BY <2>1 DEF StreamInv
<1>7. CASE Broadcast
  <2>1. SUFFICES ASSUME member', link' = "up", pending' = <<>>, submitted' = recorded'
                 PROVE  chan' # <<>> /\ chan'[Len(chan')] = recorded /\ recorded # Hello
    BY <1>7 DEF StreamInv, Quiet, Broadcast
  <2>2. /\ pending # <<>> /\ pending' = Tail(pending) /\ submitted = recorded
        /\ chan' = Append(chan, Head(pending))
    BY <1>7, <2>1 DEF Broadcast, Send
  <2>3. /\ Len(pending) = 1 /\ Head(pending) = pending[1] /\ Head(pending) \in Places
    <3>1. /\ Len(pending) \in Nat /\ Len(pending') = Len(pending) - 1
          /\ Head(pending) = pending[1] /\ Head(pending) \in Places
      BY <1>1, <2>2, HeadAndTail
    <3>2. Len(pending') = 0
      BY <2>1
    <3> QED
      BY <3>1, <3>2
  <2>4. Head(pending) = recorded
    BY <2>2, <2>3 DEF QueueInv
  <2>5. chan' # <<>> /\ chan'[Len(chan')] = Head(pending)
    BY <1>1, <2>2, <2>3, Appended
  <2>6. recorded # Hello
    BY <1>1, <2>3, <2>4 DEF Places
  <2> QED
    BY <2>4, <2>5, <2>6
<1>8. CASE Accept
  <2>1. /\ UNCHANGED <<recorded, submitted, pending, latest>>
        /\ chan' = IF recorded = None THEN <<Hello>> ELSE <<Hello, recorded>>
    BY <1>8 DEF Accept
  <2>2. CASE recorded = None
    <3>1. chan'[Len(chan')] = Hello /\ latest = recorded
      BY <1>1, <2>1, <2>2, LiveAssumption DEF QueueInv, TypeInv, None
    <3> QED
      BY <2>1, <3>1 DEF StreamInv, Quiet
  <2>3. CASE recorded # None
    <3>1. chan' # <<>> /\ chan'[Len(chan')] = recorded /\ recorded # Hello
      BY <1>1, <2>1, <2>3 DEF None
    <3> QED
      BY <2>1, <3>1 DEF StreamInv, Quiet
  <2> QED
    BY <2>2, <2>3
<1>9. CASE Opened \/ Frame
  <2>1. /\ UNCHANGED <<recorded, submitted, pending, member, link>>
        /\ chan # <<>> /\ chan' = Tail(chan)
    BY <1>9 DEF Opened, Frame
  <2>2. /\ Len(chan) \in Nat \ {0} /\ Head(chan) = chan[1]
        /\ chan' \in Seq(Places \cup {Hello}) /\ Len(chan') = Len(chan) - 1
        /\ \A i \in 1 .. Len(chan) - 1 : chan'[i] = chan[i + 1]
    BY <1>1, <2>1, HeadAndTail
  <2>3. SUFFICES ASSUME member, link = "up", pending = <<>>, submitted = recorded
                 PROVE  IF Quiet' THEN latest' = recorded ELSE chan'[Len(chan')] = recorded
    BY <2>1 DEF StreamInv
  <2>4. IF chan[Len(chan)] = Hello THEN latest = recorded ELSE chan[Len(chan)] = recorded
    BY <2>1, <2>3 DEF StreamInv, Quiet
  <2>5. CASE Len(chan) = 1
    <3>1. chan' = <<>>
      BY <2>2, <2>5, NoneLeft
    <3>2. Opened => Head(chan) = Hello /\ latest' = latest
      BY DEF Opened
    <3>3. Frame => Head(chan) # Hello /\ latest' = Head(chan)
      BY DEF Frame
    <3> QED
      BY <1>9, <2>2, <2>4, <2>5, <3>1, <3>2, <3>3 DEF Quiet
  <2>6. CASE Len(chan) > 1
    <3>1. /\ chan' # <<>> /\ chan'[Len(chan')] = chan[Len(chan)]
          /\ chan[Len(chan)] # Hello
      BY <2>2, <2>6, NoneLeft DEF QueueInv
    <3> QED
      BY <2>4, <3>1 DEF Quiet
  <2> QED
    BY <2>2, <2>5, <2>6
<1> QED
  BY <1>3, <1>4, <1>5, <1>6, <1>7, <1>8, <1>9 DEF LiveNext, Episode, Loop, Page

--------------------------------------------------------------------------------
LEMMA Initially == LiveInit => LiveInv
<1> SUFFICES ASSUME LiveInit PROVE LiveInv
  OBVIOUS
<1> USE LiveAssumption DEF LiveInit
<1>1. TypeInv
  <2>1. /\ submitted \in None .. recorded /\ latest \in None .. Last
        /\ recorded \in None .. Last
    BY DEF None
  <2>2. /\ pending \in Seq(Places) /\ chan \in Seq(Places \cup {Hello})
        /\ frames \in Seq(Places)
    OBVIOUS
  <2>3. /\ byStop \in BOOLEAN /\ loopKnown \in BOOLEAN /\ member \in BOOLEAN
        /\ sock \in {"none", "connecting", "open", "closing"}
        /\ attempts \in Nat /\ faults \in Nat
    OBVIOUS
  <2> QED
    BY <2>1, <2>2, <2>3 DEF TypeInv
<1>2. LifeInv /\ BufferInOrder
  BY DEF LifeInv, OneLifeline, BufferInOrder
<1>3. QueueInv /\ StreamInv
  BY DEF QueueInv, StreamInv, None
<1> QED
  BY <1>1, <1>2, <1>3 DEF LiveInv

(***************************************************************************)
(* Every reachable state of the page, its socket and the event loop satisfies     *)
(* the invariant from which the three properties follow.                        *)
(***************************************************************************)
THEOREM LiveInvariant == LiveSpec => []LiveInv
<1>1. LiveInv /\ [LiveNext]_liveVars => LiveInv'
  BY TypeKeeps, LifeKeeps, BufferKeeps, QueueKeeps, StreamKeeps DEF LiveInv
<1> QED
  BY Initially, <1>1, PTL DEF LiveSpec

(* EpisodeWebSocketClient (ws.ts): a page that was not left and has not given up     *)
(* has either a socket or the timer that brings one.                            *)
THEOREM LifelineHolds == LiveSpec => []OneLifeline
<1>1. LiveInv => OneLifeline
  BY DEF LiveInv, LifeInv
<1> QED
  BY LiveInvariant, <1>1, PTL

(* pushRealtimeFrame (store.ts): the buffer is within its limit, in the order of     *)
(* the frame indices, and ends with the newest that was shown.                   *)
THEOREM BufferStaysInOrder == LiveSpec => []BufferInOrder
<1>1. LiveInv => BufferInOrder
  BY DEF LiveInv
<1> QED
  BY LiveInvariant, <1>1, PTL

(* submit_broadcast_sim_frame, send_initial_frame (websocket.py): the newest frame   *)
(* is shown to a member, on its way to it, or about to be handed to the loop.       *)
THEOREM NewestArrives == LiveSpec => []NewestOnItsWay
<1>1. LiveInv => NewestOnItsWay
  <2> SUFFICES ASSUME LiveInv, link = "up", member, ~(submitted < recorded)
               PROVE  latest = recorded \/ recorded \in SeqSet(chan) \cup SeqSet(pending)
    BY DEF NewestOnItsWay
  <2>1. submitted = recorded
    BY LiveAssumption DEF LiveInv, TypeInv, None
  <2>2. CASE pending # <<>>
    <3>1. Len(pending) \in DOMAIN pending /\ pending[Len(pending)] = recorded
      BY <2>1, <2>2, NoneLeft DEF LiveInv, TypeInv, QueueInv
    <3> QED
      BY <3>1 DEF SeqSet
  <2>3. CASE pending = <<>> /\ ~Quiet
    <3>1. Len(chan) \in DOMAIN chan /\ chan[Len(chan)] = recorded
      BY <2>1, <2>3, NoneLeft DEF LiveInv, TypeInv, StreamInv, Quiet
    <3> QED
      BY <3>1 DEF SeqSet
  <2>4. CASE pending = <<>> /\ Quiet
    BY <2>1, <2>4 DEF LiveInv, StreamInv
  <2> QED
    BY <2>2, <2>3, <2>4
<1> QED
  BY LiveInvariant, <1>1, PTL
================================================================================
