----------------------------- MODULE EventLogProofs -----------------------------
(***************************************************************************)
(* Proofs about EventLog, for every number of turns, deliveries,           *)
(* interrupts, lost connections and polls and every kind of follower: a    *)
(* runner's event is logged once, and a follower sees the log in order,    *)
(* without a gap or a repetition.                                          *)
(***************************************************************************)
EXTENDS EventLog, Integers, TLAPS

StatusValue == Resting \cup InFlight \cup {"none", "completed"}
Event == [turn : Nat, kind : {"result", "user", "interrupted", "zombie"}]
FrameRecord == [kind : {"event", "status", "ping", "end"}, seq : Nat, status : StatusValue]
StreamRecord == [pc : {"off", "list", "status", "wait", "done", "stalled"},
                 seq : Nat, status : StatusValue]
ViewRecord == [seen : Seq(Nat), status : StatusValue, open : BOOLEAN, ended : BOOLEAN]

(* What the log, the row and the follower's connection hold.                *)
Typed ==
  /\ log \in Seq(Event)
  /\ status \in StatusValue
  /\ turns \in Nat
  /\ stream \in StreamRecord
  /\ wire \in Seq(FrameRecord)
  /\ view \in ViewRecord

(* The frames under way continue what the follower has seen, up to what the *)
(* stream has listed: each event of that stretch is among them, and an      *)
(* earlier one comes first.                                                 *)
WireContinues ==
  /\ \A k \in 1..Len(wire) : wire[k].kind = "event" =>
       /\ Len(view.seen) < wire[k].seq /\ wire[k].seq <= stream.seq
       /\ \A j \in 1..Len(wire) :
            j < k /\ wire[j].kind = "event" => wire[j].seq < wire[k].seq
  /\ \A n \in (Len(view.seen) + 1)..stream.seq :
       \E k \in 1..Len(wire) : wire[k].kind = "event" /\ wire[k].seq = n

(* A connection that is closed has nothing under way; one that is open has  *)
(* listed what was seen and no more than is logged; and after the end       *)
(* nothing follows.                                                         *)
StreamKeepsUp ==
  /\ stream.pc \in {"off", "stalled"} => wire = <<>> /\ stream.seq = 0
  /\ stream.pc \notin {"off", "stalled"} =>
       Len(view.seen) <= stream.seq /\ stream.seq <= Len(log)
  /\ \A k \in 1..Len(wire) : wire[k].kind = "end" => stream.pc = "done" /\ k = Len(wire)

FollowInv == Typed /\ SeenInOrder /\ WireContinues /\ StreamKeepsUp
-------------------------------------------------------------------------------
(* The log only grows, by one event at a time, and a runner's event is not  *)
(* appended when it is there (repo.ts, appendEvents).                       *)
LogGrows(old, new) ==
  \/ new = old
  \/ \E e \in Event :
       /\ new = Append(old, e)
       /\ e.kind = "result" => ~ \E i \in DOMAIN old : old[i] = e

(* An append grows the log and leaves a status of the row.                  *)
LEMMA AppendGrows ==
  ASSUME Typed, NEW e \in Event, AppendEvent(e)
  PROVE  LogGrows(log, log') /\ status' \in StatusValue /\ turns' = turns
  BY DEF AppendEvent, LogGrows, Logged, Typed, StatusValue, InFlight

connection == <<stream, wire, view>>

ConnectionStep ==
  MarkQueued \/ Connect \/ List \/ ReadStatus \/ Wake \/ Receive \/ Drop \/ Stall \/ Watchdog

(* Every step is one of the connection's, which leaves log and row alone,   *)
(* or leaves the connection alone and grows the log.                        *)
LEMMA StepKinds ==
  ASSUME Typed, [Next]_vars
  PROVE  \/ ConnectionStep /\ UNCHANGED <<log, status, turns>>
         \/ /\ UNCHANGED connection
            /\ LogGrows(log, log') /\ status' \in StatusValue /\ turns' \in Nat
  <1> DEFINE Quiet == UNCHANGED connection /\ UNCHANGED <<log, status, turns>>
             Writes == /\ UNCHANGED connection
                       /\ LogGrows(log, log') /\ status' \in StatusValue /\ turns' \in Nat
  <1>1. Quiet => Writes
    BY DEF LogGrows, Typed
  <1>2. ConnectionStep => UNCHANGED <<log, status, turns>>
    BY DEF ConnectionStep, MarkQueued, Connect, List, ReadStatus, Wake, Receive, Drop, Stall,
      Watchdog, row
  <1>3. ASSUME NEW t \in Turn, PodNext(t) PROVE Quiet
    BY <1>3 DEF PodNext, Crash, Evict, row, following, connection
  <1>4. ASSUME NEW p \in Post, Handle(p) PROVE Writes
    <2>1. p[1] \in Nat /\ p[2] \in {"result", "idle", "failed"}
      BY DEF Post, Turn, Report
    <2>2. UNCHANGED connection
      BY <1>4 DEF Handle, following, connection
    <2>3. CASE p[2] = "result"
      <3>1. [turn |-> p[1], kind |-> "result"] \in Event
        BY <2>1 DEF Event
      <3>2. AppendEvent([turn |-> p[1], kind |-> "result"])
        BY <1>4, <2>3 DEF Handle
      <3>3. QED
        BY <2>2, <3>1, <3>2, AppendGrows DEF Typed
    <2>4. CASE p[2] # "result"
      <3>1. ApplyReport(p[1], p[2])
        BY <1>4, <2>4 DEF Handle
      <3>2. QED
        BY <2>1, <2>2, <2>4, <3>1 DEF ApplyReport, LogGrows, Typed, StatusValue, Resting
    <2>5. QED
      BY <2>3, <2>4
  <1>5. CASE AppendPrompt \/ InterruptTell \/ SweepFind
    <2>1. PICK k \in {"user", "interrupted", "zombie"} :
            AppendEvent([turn |-> turns, kind |-> k])
      BY <1>5 DEF AppendPrompt, InterruptTell, SweepFind
    <2>2. [turn |-> turns, kind |-> k] \in Event
      BY DEF Event, Typed
    <2>3. UNCHANGED connection
      BY <1>5 DEF AppendPrompt, InterruptTell, SweepFind, following, connection
    <2>4. QED
      BY <2>1, <2>2, <2>3, AppendGrows DEF Typed
  <1>6. CASE StartTurn \/ CreateChild \/ InterruptIdle \/ SweepFail \/ LockSet
    <2>1. UNCHANGED connection /\ log' = log
      BY <1>6 DEF StartTurn, CreateChild, InterruptIdle, SweepFail, LockSet, following, connection
    <2>2. status' \in StatusValue
      BY <1>6 DEF StartTurn, CreateChild, InterruptIdle, SweepFail, LockSet,
        StatusValue, Resting, InFlight
    <2>3. turns' \in Nat
      BY <1>6 DEF StartTurn, CreateChild, InterruptIdle, SweepFail, LockSet, Typed
    <2>4. QED
      BY <2>1, <2>2, <2>3 DEF LogGrows
  <1>7. CASE Launch \/ InterruptStop \/ LockRead
    BY <1>1, <1>7 DEF Launch, InterruptStop, LockRead, row, following, connection
  <1>8. CASE DelegateAsk \/ DelegateCheck \/ TurnRefused \/ ParentNext \/ PollMiss
    BY <1>1, <1>8 DEF DelegateAsk, DelegateCheck, TurnRefused, ParentNext, DelegateFails,
      PollStatus, PollAnswer, FetchOutputs, PollMiss, row, following, connection
  <1>9. CASE UNCHANGED vars
    BY <1>1, <1>9 DEF vars, connection
  <1>10. QED
    BY <1>1, <1>2, <1>3, <1>4, <1>5, <1>6, <1>7, <1>8, <1>9
    DEF Next, ServerNext, StreamNext, FollowerNext, ConnectionStep
-------------------------------------------------------------------------------
(* A log that grows keeps its type and its length does not shrink.          *)
LEMMA GrownLog ==
  ASSUME NEW old \in Seq(Event), NEW new, LogGrows(old, new)
  PROVE  new \in Seq(Event) /\ Len(old) <= Len(new)
  BY DEF LogGrows

(* The first states satisfy the invariants.                                 *)
LEMMA InitFollows == Init => FollowInv /\ LoggedOnce
  <1> SUFFICES ASSUME Init PROVE FollowInv /\ LoggedOnce
    OBVIOUS
  <1>1. PICK there \in BOOLEAN :
          /\ log = IF there THEN <<[turn |-> 0, kind |-> "result"]>> ELSE <<>>
          /\ status = IF there THEN "idle" ELSE "none"
          /\ view = [seen |-> IF there THEN <<1>> ELSE <<>>, status |-> status,
                     open |-> FALSE, ended |-> FALSE]
    BY DEF Init
  <1>2. stream = Closed /\ wire = <<>> /\ turns = 0
    BY DEF Init
  <1>3. status \in StatusValue
    BY <1>1 DEF StatusValue, Resting
  <1>4. log \in Seq(Event) /\ Len(view.seen) = Len(log) /\ Len(log) \in Nat
    <2>1. [turn |-> 0, kind |-> "result"] \in Event
      BY DEF Event
    <2>2. QED
      BY <1>1, <2>1
  <1>5. view.seen \in Seq(Nat) /\ \A i \in DOMAIN view.seen : view.seen[i] = i
    BY <1>1
  <1>6. view \in ViewRecord
    BY <1>1, <1>3, <1>5 DEF ViewRecord
  <1>7. stream \in StreamRecord
    BY <1>2 DEF Closed, StatusValue, StreamRecord
  <1>8. Typed
    BY <1>2, <1>3, <1>4, <1>6, <1>7 DEF Typed
  <1>9. SeenInOrder
    BY <1>4, <1>5 DEF SeenInOrder
  <1>10. WireContinues /\ StreamKeepsUp
    BY <1>2, <1>4 DEF WireContinues, StreamKeepsUp, Closed
  <1>11. LoggedOnce
    BY <1>1 DEF LoggedOnce
  <1>12. QED
    BY <1>8, <1>9, <1>10, <1>11 DEF FollowInv

(* What the connection's steps write is of the types: a frame ...           *)
LEMMA FrameType ==
  ASSUME NEW k \in {"event", "status", "ping", "end"}, NEW n \in Nat, NEW st \in StatusValue
  PROVE  Frame(k, n, st) \in FrameRecord
  BY DEF Frame, FrameRecord

(* ... the stream, with any new value of its fields ...                     *)
LEMMA StreamType ==
  ASSUME NEW s0 \in StreamRecord, NEW n \in Nat, NEW st \in StatusValue,
         NEW pc \in {"off", "list", "status", "wait", "done", "stalled"}
  PROVE  /\ [s0 EXCEPT !.pc = pc] \in StreamRecord
         /\ [s0 EXCEPT !.pc = pc, !.seq = n] \in StreamRecord
         /\ [s0 EXCEPT !.pc = pc, !.status = st] \in StreamRecord
  BY DEF StreamRecord

(* ... and the view.                                                        *)
LEMMA ViewType ==
  ASSUME NEW v \in ViewRecord, NEW n \in Nat, NEW st \in StatusValue
  PROVE  /\ [v EXCEPT !.open = TRUE] \in ViewRecord
         /\ [v EXCEPT !.open = FALSE] \in ViewRecord
         /\ [v EXCEPT !.open = FALSE, !.ended = TRUE] \in ViewRecord
         /\ [v EXCEPT !.status = st] \in ViewRecord
         /\ [v EXCEPT !.seen = Append(@, n)] \in ViewRecord
  <1>1. Append(v.seen, n) \in Seq(Nat)
    BY DEF ViewRecord
  <1>2. QED
    BY <1>1 DEF ViewRecord

(* A closed stream is a stream.                                             *)
LEMMA ClosedType == "none" \in StatusValue /\ Closed \in StreamRecord
  BY DEF Closed, StreamRecord, StatusValue

(* The connection's steps keep the types.                                   *)
LEMMA ConnectionTypes ==
  ASSUME Typed, ConnectionStep, UNCHANGED <<log, status, turns>>
  PROVE  Typed'
  <1>1. /\ log \in Seq(Event) /\ status \in StatusValue /\ turns \in Nat
        /\ stream \in StreamRecord /\ wire \in Seq(FrameRecord) /\ view \in ViewRecord
    BY DEF Typed
  <1>2. SUFFICES stream' \in StreamRecord /\ wire' \in Seq(FrameRecord) /\ view' \in ViewRecord
    BY <1>1 DEF Typed
  <1>3. CASE MarkQueued
    <2>1. "queued" \in StatusValue /\ view.status \in StatusValue
      BY <1>1 DEF StatusValue, InFlight, ViewRecord
    <2>2. \E s \in StatusValue : view' = [view EXCEPT !.status = s]
      BY <1>3, <2>1 DEF MarkQueued
    <2>3. QED
      BY <1>1, <1>3, <2>2, ViewType DEF MarkQueued
  <1>4. CASE Connect
    <2>1. Last \in Nat
      BY <1>1 DEF Last, ViewRecord
    <2>2. /\ stream' = [Closed EXCEPT !.pc = "list", !.seq = Last]
          /\ wire' = <<>> /\ view' = [view EXCEPT !.open = TRUE]
      BY <1>4 DEF Connect
    <2>3. stream' \in StreamRecord
      BY <2>1, <2>2, StreamType, ClosedType
    <2>4. view' \in ViewRecord
      BY <1>1, <2>2, ViewType
    <2>5. QED
      BY <2>2, <2>3, <2>4
  <1>5. CASE List
    <2> DEFINE n == Len(log) - stream.seq
               new == [i \in 1..n |-> Frame("event", stream.seq + i, "none")]
    <2>1. n \in Int /\ stream.seq \in Nat /\ Len(log) \in Nat
      BY <1>1 DEF StreamRecord
    <2>2. \A i \in 1..n : Frame("event", stream.seq + i, "none") \in FrameRecord
      <3> SUFFICES ASSUME NEW i \in 1..n
                   PROVE  Frame("event", stream.seq + i, "none") \in FrameRecord
        OBVIOUS
      <3>1. stream.seq + i \in Nat
        BY <2>1
      <3>2. QED
        BY <3>1, FrameType, ClosedType
    <2>3. new \in Seq(FrameRecord)
      BY <2>1, <2>2
    <2>4. wire' = wire \o new /\ view' = view
          /\ stream' = [stream EXCEPT !.pc = "status", !.seq = Len(log)]
      BY <1>5 DEF List
    <2> HIDE DEF new
    <2>5. stream' \in StreamRecord
      BY <1>1, <2>1, <2>4, StreamType, ClosedType
    <2>6. QED
      BY <1>1, <2>3, <2>4, <2>5
  <1>6. CASE ReadStatus
    <2> DEFINE told == IF status = stream.status THEN <<>> ELSE <<Frame("status", 0, status)>>
               last == IF Over THEN <<Frame("end", 0, "none")>> ELSE Ping
    <2>1. /\ Frame("status", 0, status) \in FrameRecord
          /\ Frame("end", 0, "none") \in FrameRecord
          /\ Frame("ping", 0, status) \in FrameRecord
      BY <1>1, FrameType, ClosedType
    <2>2. told \in Seq(FrameRecord)
      BY <2>1
    <2>3. last \in Seq(FrameRecord)
      BY <2>1 DEF Ping
    <2>4. /\ wire' = wire \o told \o last /\ view' = view
          /\ stream' = [stream EXCEPT !.pc = IF Over THEN "done" ELSE "wait",
                                      !.status = status]
      BY <1>6 DEF ReadStatus
    <2> HIDE DEF told, last
    <2>5. wire' \in Seq(FrameRecord)
      BY <1>1, <2>2, <2>3, <2>4
    <2>6. stream' \in StreamRecord
      <3>1. PICK pc \in {"done", "wait"} : stream' = [stream EXCEPT !.pc = pc, !.status = status]
        BY <2>4
      <3>2. QED
        BY <1>1, <3>1, StreamType
    <2>7. QED
      BY <1>1, <2>4, <2>5, <2>6
  <1>7. CASE Wake
    BY <1>1, <1>7, StreamType DEF Wake
  <1>8. CASE Receive
    <2> DEFINE f == Head(wire)
    <2>1. wire' \in Seq(FrameRecord) /\ f \in FrameRecord
      BY <1>1, <1>8 DEF Receive
    <2>2. f.kind \in {"event", "status", "ping", "end"} /\ f.seq \in Nat /\ f.status \in StatusValue
      BY <2>1 DEF FrameRecord
    <2>3. \/ view' = view /\ stream' = stream
          \/ view' = [view EXCEPT !.seen = Append(@, f.seq)] /\ stream' = stream
          \/ view' = [view EXCEPT !.status = f.status] /\ stream' = stream
          \/ view' = [view EXCEPT !.open = FALSE, !.ended = TRUE] /\ stream' = Closed
      BY <1>8, <2>2 DEF Receive
    <2> HIDE DEF f
    <2>4. view' \in ViewRecord
      BY <1>1, <2>2, <2>3, ViewType
    <2>5. QED
      BY <1>1, <2>1, <2>3, <2>4, ClosedType
  <1>9. CASE Drop \/ Stall \/ Watchdog
    <2>1. /\ wire' = wire \/ wire' = <<>>
          /\ view' = view \/ view' = [view EXCEPT !.open = FALSE]
          /\ stream' = Closed \/ stream' = [Closed EXCEPT !.pc = "stalled"]
      BY <1>9 DEF Drop, Stall, Watchdog
    <2>2. view' \in ViewRecord
      BY <1>1, <2>1, ViewType, ClosedType
    <2>3. stream' \in StreamRecord
      <3>1. [Closed EXCEPT !.pc = "stalled"] \in StreamRecord
        BY ClosedType, StreamType
      <3>2. QED
        BY <2>1, <3>1, ClosedType
    <2>4. wire' = wire \/ wire' = <<>>
      BY <2>1
    <2>5. wire' \in Seq(FrameRecord)
      <3>1. CASE wire' = wire
        BY <1>1, <3>1
      <3>2. CASE wire' = <<>>
        BY <3>2
      <3>3. QED
        BY <2>4, <3>1, <3>2
    <2>6. QED
      BY <2>2, <2>3, <2>5
  <1>10. QED
    BY <1>3, <1>4, <1>5, <1>6, <1>7, <1>8, <1>9 DEF ConnectionStep
-------------------------------------------------------------------------------
(* What is appended comes after what was there.                             *)
LEMMA Appended ==
  ASSUME NEW S, NEW s \in Seq(S), NEW t \in Seq(S)
  PROVE  /\ Len(s \o t) = Len(s) + Len(t)
         /\ \A k \in 1..Len(s) : (s \o t)[k] = s[k]
         /\ \A i \in 1..Len(t) : (s \o t)[Len(s) + i] = t[i]
  OBVIOUS

(* The last event that a follower in order has seen is as many as it has.   *)
LEMMA LastSeen ==
  ASSUME Typed, SeenInOrder
  PROVE  Last = Len(view.seen) /\ Last \in Nat
  BY DEF Last, Typed, SeenInOrder, ViewRecord

(* The frames appended by a pass of the stream's loop carry no event.       *)
LEMMA BareFrames ==
  ASSUME Typed, ReadStatus
  PROVE  \E more \in Seq(FrameRecord) :
           /\ wire' = wire \o more
           /\ \A k \in 1..Len(more) : more[k].kind # "event"
           /\ \A k \in 1..Len(more) : more[k].kind = "end" => Over /\ k = Len(more)
  <1> DEFINE told == IF status = stream.status THEN <<>> ELSE <<Frame("status", 0, status)>>
             last == IF Over THEN <<Frame("end", 0, "none")>> ELSE Ping
             more == told \o last
  <1>1. /\ Frame("status", 0, status) \in FrameRecord
        /\ Frame("end", 0, "none") \in FrameRecord
        /\ Frame("ping", 0, status) \in FrameRecord
    BY FrameType, ClosedType DEF Typed
  <1>2. /\ Frame("status", 0, status).kind = "status"
        /\ Frame("end", 0, "none").kind = "end"
        /\ Frame("ping", 0, status).kind = "ping"
    BY DEF Frame
  <1>3. told \in Seq(FrameRecord) /\ \A k \in 1..Len(told) : told[k].kind = "status"
    BY <1>1, <1>2
  <1>4. /\ last \in Seq(FrameRecord) /\ Len(last) \in {0, 1}
        /\ \A k \in 1..Len(last) : last[k].kind # "event"
        /\ \A k \in 1..Len(last) : last[k].kind = "end" => Over
    BY <1>1, <1>2 DEF Ping
  <1>5. wire' = wire \o told \o last /\ wire \in Seq(FrameRecord)
    BY DEF ReadStatus, Typed
  <1> HIDE DEF told, last
  <1>6. wire' = wire \o more /\ more \in Seq(FrameRecord)
    BY <1>3, <1>4, <1>5
  <1>7. /\ Len(more) = Len(told) + Len(last) /\ Len(told) \in Nat
        /\ \A k \in 1..Len(more) :
             more[k] = IF k <= Len(told) THEN told[k] ELSE last[k - Len(told)]
    BY <1>3, <1>4
  <1> HIDE DEF more
  <1>8. ASSUME NEW k \in 1..Len(more)
        PROVE  more[k].kind # "event" /\ (more[k].kind = "end" => Over /\ k = Len(more))
    <2>1. CASE k <= Len(told)
      BY <1>3, <1>7, <2>1
    <2>2. CASE ~(k <= Len(told))
      <3>1. k - Len(told) \in 1..Len(last) /\ k = Len(more)
        BY <1>4, <1>7, <2>2
      <3>2. QED
        BY <1>4, <1>7, <2>2, <3>1
    <2>3. QED
      BY <2>1, <2>2
  <1>9. QED
    BY <1>6, <1>8

(* A pass of the stream's loop lists the events after the last one listed,  *)
(* in order (session-sse.ts).                                               *)
LEMMA ListedFrames ==
  ASSUME Typed, SeenInOrder, WireContinues, StreamKeepsUp, List
  PROVE  WireContinues' /\ StreamKeepsUp'
  <1> DEFINE n == Len(log) - stream.seq
             new == [i \in 1..n |-> Frame("event", stream.seq + i, "none")]
  <1>1. /\ wire \in Seq(FrameRecord) /\ Len(wire) \in Nat
        /\ stream \in StreamRecord /\ stream.seq \in Nat
        /\ Len(log) \in Nat /\ Len(view.seen) \in Nat
    BY DEF Typed, StreamRecord, ViewRecord
  <1>2. /\ stream.pc = "list" /\ wire' = wire \o new
        /\ UNCHANGED <<log, view>>
        /\ stream'.pc = "status" /\ stream'.seq = Len(log)
    BY <1>1 DEF List, StreamRecord
  <1>3. Len(view.seen) <= stream.seq /\ stream.seq <= Len(log)
    BY <1>2 DEF StreamKeepsUp
  <1>4. n \in Nat
    BY <1>1, <1>3
  <1>5. Len(new) = n /\ \A i \in 1..n : new[i].kind = "event" /\ new[i].seq = stream.seq + i
    BY <1>4 DEF Frame
  <1>6. new \in Seq(FrameRecord)
    <2>1. ASSUME NEW i \in 1..n PROVE Frame("event", stream.seq + i, "none") \in FrameRecord
      <3>1. stream.seq + i \in Nat
        BY <1>1, <1>4
      <3>2. QED
        BY <3>1, FrameType, ClosedType
    <2>2. QED
      BY <1>4, <2>1
  <1> HIDE DEF new
  <1>7. /\ Len(wire') = Len(wire) + n
        /\ \A k \in 1..Len(wire) : wire'[k] = wire[k]
        /\ \A i \in 1..n : wire'[Len(wire) + i] = new[i]
    <2>1. /\ Len(wire \o new) = Len(wire) + Len(new)
          /\ \A k \in 1..Len(wire) : (wire \o new)[k] = wire[k]
          /\ \A i \in 1..Len(new) : (wire \o new)[Len(wire) + i] = new[i]
      BY <1>1, <1>6, Appended
    <2>2. wire' = wire \o new /\ Len(new) = n
      BY <1>2, <1>5
    <2>3. QED
      BY <2>1, <2>2
  <1> HIDE DEF n
  <1>8. Len(log) = stream.seq + n
    BY <1>1, <1>4 DEF n
  <1>9. ASSUME NEW k \in 1..Len(wire'), ~(k <= Len(wire))
        PROVE  \E i \in 1..n : k = Len(wire) + i
    <2>1. k - Len(wire) \in 1..n /\ k = Len(wire) + (k - Len(wire))
      BY <1>1, <1>4, <1>7, <1>9
    <2>2. QED
      BY <2>1
  <1>10. ASSUME NEW k \in 1..Len(wire'), wire'[k].kind = "event"
         PROVE  /\ Len(view.seen) < wire'[k].seq /\ wire'[k].seq <= Len(log)
                /\ \A j \in 1..Len(wire') :
                     j < k /\ wire'[j].kind = "event" => wire'[j].seq < wire'[k].seq
    <2>1. CASE k <= Len(wire)
      <3>1. k \in 1..Len(wire) /\ wire'[k] = wire[k]
        BY <1>1, <1>7, <2>1
      <3>2. Len(view.seen) < wire[k].seq /\ wire[k].seq <= stream.seq /\ wire[k].seq \in Nat
        <4>1. wire[k] \in FrameRecord
          BY <1>1, <3>1
        <4>2. QED
          BY <1>10, <3>1, <4>1 DEF WireContinues, FrameRecord
      <3>3. ASSUME NEW j \in 1..Len(wire'), j < k, wire'[j].kind = "event"
            PROVE  wire'[j].seq < wire'[k].seq
        <4>1. j \in 1..Len(wire) /\ wire'[j] = wire[j]
          BY <1>1, <1>7, <2>1, <3>3
        <4>2. QED
          BY <1>10, <3>1, <3>3, <4>1 DEF WireContinues
      <3>4. QED
        BY <1>1, <1>3, <3>1, <3>2, <3>3
    <2>2. CASE ~(k <= Len(wire))
      <3>1. PICK i \in 1..n : k = Len(wire) + i
        BY <1>9, <2>2
      <3>2. wire'[k].seq = stream.seq + i
        BY <1>5, <1>7, <3>1
      <3>3. ASSUME NEW j \in 1..Len(wire'), j < k, wire'[j].kind = "event"
            PROVE  wire'[j].seq < wire'[k].seq
        <4>1. CASE j <= Len(wire)
          <5>1. j \in 1..Len(wire) /\ wire'[j] = wire[j]
            BY <1>1, <1>7, <4>1
          <5>2. wire[j].seq <= stream.seq /\ wire[j].seq \in Nat
            <6>1. wire[j] \in FrameRecord
              BY <1>1, <5>1
            <6>2. QED
              BY <3>3, <5>1, <6>1 DEF WireContinues, FrameRecord
          <5>3. QED
            BY <1>1, <1>4, <3>2, <5>1, <5>2
        <4>2. CASE ~(j <= Len(wire))
          <5>1. PICK m \in 1..n : j = Len(wire) + m
            BY <1>9, <4>2
          <5>2. wire'[j].seq = stream.seq + m
            BY <1>5, <1>7, <5>1
          <5>3. QED
            BY <1>1, <1>4, <3>1, <3>2, <3>3, <5>1, <5>2
        <4>3. QED
          BY <4>1, <4>2
      <3>4. QED
        BY <1>1, <1>3, <1>4, <1>8, <3>2, <3>3
    <2>3. QED
      BY <2>1, <2>2
  <1>11. ASSUME NEW m \in (Len(view.seen) + 1)..Len(log)
         PROVE  \E k \in 1..Len(wire') : wire'[k].kind = "event" /\ wire'[k].seq = m
    <2>1. CASE m <= stream.seq
      <3>1. m \in (Len(view.seen) + 1)..stream.seq
        BY <1>1, <2>1
      <3>2. PICK k \in 1..Len(wire) : wire[k].kind = "event" /\ wire[k].seq = m
        BY <3>1 DEF WireContinues
      <3>3. k \in 1..Len(wire') /\ wire'[k] = wire[k]
        BY <1>1, <1>4, <1>7
      <3>4. QED
        BY <3>2, <3>3
    <2>2. CASE ~(m <= stream.seq)
      <3>1. m - stream.seq \in 1..n
        BY <1>1, <1>4, <1>8, <2>2
      <3>2. Len(wire) + (m - stream.seq) \in 1..Len(wire')
        BY <1>1, <1>4, <1>7, <3>1
      <3>3. /\ wire'[Len(wire) + (m - stream.seq)].kind = "event"
            /\ wire'[Len(wire) + (m - stream.seq)].seq = stream.seq + (m - stream.seq)
        BY <1>5, <1>7, <3>1
      <3>4. stream.seq + (m - stream.seq) = m
        BY <1>1
      <3>5. QED
        BY <3>2, <3>3, <3>4
    <2>3. QED
      BY <2>1, <2>2
  <1>12. WireContinues'
    BY <1>2, <1>10, <1>11 DEF WireContinues
  <1>13. ASSUME NEW k \in 1..Len(wire'), wire'[k].kind = "end" PROVE FALSE
    <2>1. CASE k <= Len(wire)
      <3>1. k \in 1..Len(wire) /\ wire'[k] = wire[k]
        BY <1>1, <1>7, <2>1
      <3>2. QED
        BY <1>2, <1>13, <3>1 DEF StreamKeepsUp
    <2>2. CASE ~(k <= Len(wire))
      BY <1>5, <1>7, <1>9, <1>13, <2>2
    <2>3. QED
      BY <2>1, <2>2
  <1>14. StreamKeepsUp'
    <2>1. stream'.pc = "status" /\ stream'.seq = Len(log') /\ view' = view
      BY <1>2
    <2>2. Len(view.seen) <= Len(log)
      BY <1>1, <1>3
    <2>3. QED
      BY <1>1, <1>2, <1>13, <2>1, <2>2 DEF StreamKeepsUp
  <1>15. QED
    BY <1>12, <1>14
(* Reading the row adds no event and, with the end, the last frame.         *)
LEMMA StatusFrames ==
  ASSUME Typed, WireContinues, StreamKeepsUp, ReadStatus
  PROVE  WireContinues' /\ StreamKeepsUp'
  <1>1. /\ wire \in Seq(FrameRecord) /\ Len(wire) \in Nat
        /\ stream \in StreamRecord /\ stream.seq \in Nat
        /\ Len(log) \in Nat /\ Len(view.seen) \in Nat
    BY DEF Typed, StreamRecord, ViewRecord
  <1>2. PICK more \in Seq(FrameRecord) :
          /\ wire' = wire \o more
          /\ \A k \in 1..Len(more) : more[k].kind # "event"
          /\ \A k \in 1..Len(more) : more[k].kind = "end" => Over /\ k = Len(more)
    BY BareFrames
  <1>3. /\ stream.pc = "status" /\ UNCHANGED <<log, view>>
        /\ stream'.pc = (IF Over THEN "done" ELSE "wait") /\ stream'.seq = stream.seq
    BY <1>1 DEF ReadStatus, StreamRecord
  <1>4. Len(more) \in Nat
    BY <1>2
  <1>5. /\ Len(wire \o more) = Len(wire) + Len(more)
        /\ \A k \in 1..Len(wire) : (wire \o more)[k] = wire[k]
        /\ \A i \in 1..Len(more) : (wire \o more)[Len(wire) + i] = more[i]
    BY <1>1, <1>2, Appended
  <1>6. /\ Len(wire') = Len(wire) + Len(more)
        /\ \A k \in 1..Len(wire) : wire'[k] = wire[k]
        /\ \A i \in 1..Len(more) : wire'[Len(wire) + i] = more[i]
    BY <1>2, <1>5
  <1>7. ASSUME NEW k \in 1..Len(wire')
        PROVE  \/ k \in 1..Len(wire) /\ wire'[k] = wire[k]
               \/ k - Len(wire) \in 1..Len(more) /\ wire'[k] = more[k - Len(wire)]
    <2>1. CASE k <= Len(wire)
      BY <1>1, <1>6, <2>1
    <2>2. CASE ~(k <= Len(wire))
      <3>1. k - Len(wire) \in 1..Len(more) /\ Len(wire) + (k - Len(wire)) = k
        BY <1>1, <1>4, <1>6, <2>2
      <3>2. QED
        BY <1>6, <3>1
    <2>3. QED
      BY <2>1, <2>2
  <1>8. ASSUME NEW k \in 1..Len(wire'), wire'[k].kind = "event"
        PROVE  k \in 1..Len(wire) /\ wire'[k] = wire[k]
    BY <1>2, <1>7, <1>8
  <1>9. ASSUME NEW k \in 1..Len(wire'), wire'[k].kind = "event"
        PROVE  /\ Len(view.seen) < wire'[k].seq /\ wire'[k].seq <= stream.seq
               /\ \A j \in 1..Len(wire') :
                    j < k /\ wire'[j].kind = "event" => wire'[j].seq < wire'[k].seq
    BY <1>8, <1>9 DEF WireContinues
  <1>10. ASSUME NEW m \in (Len(view.seen) + 1)..stream.seq
         PROVE  \E k \in 1..Len(wire') : wire'[k].kind = "event" /\ wire'[k].seq = m
    <2>1. PICK k \in 1..Len(wire) : wire[k].kind = "event" /\ wire[k].seq = m
      BY DEF WireContinues
    <2>2. k \in 1..Len(wire') /\ wire'[k] = wire[k]
      BY <1>1, <1>4, <1>6
    <2>3. QED
      BY <2>1, <2>2
  <1>11. WireContinues'
    BY <1>3, <1>9, <1>10 DEF WireContinues
  <1>12. ASSUME NEW k \in 1..Len(wire'), wire'[k].kind = "end"
         PROVE  Over /\ k = Len(wire')
    <2>1. CASE k \in 1..Len(wire) /\ wire'[k] = wire[k]
      BY <1>3, <1>12, <2>1 DEF StreamKeepsUp
    <2>2. CASE k - Len(wire) \in 1..Len(more) /\ wire'[k] = more[k - Len(wire)]
      <3>1. Over /\ k - Len(wire) = Len(more)
        BY <1>2, <1>12, <2>2
      <3>2. QED
        BY <1>1, <1>4, <1>6, <3>1
    <2>3. QED
      BY <1>7, <2>1, <2>2
  <1>13. Len(view.seen) <= stream.seq /\ stream.seq <= Len(log)
    BY <1>3 DEF StreamKeepsUp
  <1>14. StreamKeepsUp'
    <2>1. stream'.pc \in {"done", "wait"} /\ (Over => stream'.pc = "done")
      BY <1>3
    <2>2. stream'.seq = stream.seq /\ view' = view /\ log' = log
      BY <1>3
    <2>3. QED
      BY <1>12, <1>13, <2>1, <2>2 DEF StreamKeepsUp
  <1>15. QED
    BY <1>11, <1>14

(* A follower that takes an event takes the next one of the log.            *)
LEMMA HeadIsNext ==
  ASSUME Typed, WireContinues, StreamKeepsUp, wire # <<>>, wire[1].kind = "event"
  PROVE  wire[1].seq = Len(view.seen) + 1 /\ Len(view.seen) < Len(log)
  <1>1. /\ wire \in Seq(FrameRecord) /\ Len(wire) \in Nat /\ 1 \in 1..Len(wire)
        /\ stream.seq \in Nat /\ Len(log) \in Nat /\ Len(view.seen) \in Nat
    BY DEF Typed, StreamRecord, ViewRecord
  <1>2. wire[1] \in FrameRecord
    BY <1>1
  <1>3. /\ wire[1].seq \in Nat
        /\ Len(view.seen) < wire[1].seq /\ wire[1].seq <= stream.seq
    BY <1>1, <1>2 DEF WireContinues, FrameRecord
  <1>4. PICK k \in 1..Len(wire) : wire[k].kind = "event" /\ wire[k].seq = Len(view.seen) + 1
    <2>1. Len(view.seen) + 1 \in (Len(view.seen) + 1)..stream.seq
      BY <1>1, <1>3
    <2>2. QED
      BY <2>1 DEF WireContinues
  <1>5. k = 1 \/ wire[1].seq < wire[k].seq
    BY <1>1, <1>4 DEF WireContinues
  <1>6. stream.pc \notin {"off", "stalled"}
    BY DEF StreamKeepsUp
  <1>7. QED
    BY <1>1, <1>3, <1>4, <1>5, <1>6 DEF StreamKeepsUp
(* What is left after a frame is taken has moved up by one.                 *)
LEMMA TailShifts ==
  ASSUME NEW S, NEW s \in Seq(S), s # <<>>
  PROVE  /\ Tail(s) \in Seq(S) /\ Len(Tail(s)) = Len(s) - 1 /\ Len(s) \in Nat \ {0}
         /\ \A k \in 1..Len(Tail(s)) : Tail(s)[k] = s[k + 1]
         /\ Head(s) = s[1] /\ s[1] \in S
  OBVIOUS

(* Taking a frame keeps what is under way a continuation of what was seen   *)
(* (use-session-live.ts and the Python client).                             *)
LEMMA ReceiveKeeps ==
  ASSUME Typed, SeenInOrder, WireContinues, StreamKeepsUp, Receive
  PROVE  SeenInOrder' /\ WireContinues' /\ StreamKeepsUp'
  <1> DEFINE f == wire[1]
  <1>1. /\ wire \in Seq(FrameRecord) /\ stream \in StreamRecord /\ view \in ViewRecord
        /\ stream.seq \in Nat /\ Len(log) \in Nat
        /\ view.seen \in Seq(Nat) /\ Len(view.seen) \in Nat
    BY DEF Typed, StreamRecord, ViewRecord
  <1>2. wire # <<>> /\ wire' = Tail(wire) /\ log' = log
    BY DEF Receive
  <1>3. /\ Len(wire') = Len(wire) - 1 /\ Len(wire) \in Nat \ {0}
        /\ \A k \in 1..Len(wire') : wire'[k] = wire[k + 1]
        /\ Head(wire) = f /\ f \in FrameRecord
    BY <1>1, <1>2, TailShifts
  <1>4. f.kind \in {"event", "status", "ping", "end"}
    BY <1>3 DEF FrameRecord
  <1>5. /\ Len(view.seen) <= stream.seq /\ stream.seq <= Len(log)
        /\ stream.pc \notin {"off", "stalled"}
    BY <1>2 DEF StreamKeepsUp
  <1>6. \A k \in 1..Len(wire') : k + 1 \in 1..Len(wire) /\ 1 < k + 1
    BY <1>3
  <1>7. CASE f.kind = "event"
    <2>1. f.seq = Len(view.seen) + 1 /\ Len(view.seen) < Len(log)
      BY <1>2, <1>7, HeadIsNext
    <2>2. Last = Len(view.seen)
      BY LastSeen
    <2>3. view' = [view EXCEPT !.seen = Append(@, f.seq)] /\ stream' = stream
      <3>1. ~(f.seq <= Last)
        BY <1>1, <2>1, <2>2
      <3>2. QED
        BY <1>3, <1>7, <3>1 DEF Receive
    <2>4. view'.seen = Append(view.seen, f.seq)
      BY <1>1, <2>3 DEF ViewRecord
    <2>5. /\ Len(view'.seen) = Len(view.seen) + 1
          /\ \A i \in 1..Len(view'.seen) : view'.seen[i] = i
      <3>1. \A i \in 1..Len(view.seen) : view.seen[i] = i
        BY <1>1 DEF SeenInOrder
      <3>2. QED
        BY <1>1, <2>1, <2>4, <3>1
    <2>6. SeenInOrder'
      <3>1. view'.seen \in Seq(Nat)
        BY <1>1, <2>1, <2>4
      <3>2. QED
        BY <1>1, <1>2, <2>1, <2>5, <3>1 DEF SeenInOrder
    <2>7. ASSUME NEW k \in 1..Len(wire'), wire'[k].kind = "event"
          PROVE  /\ Len(view'.seen) < wire'[k].seq /\ wire'[k].seq <= stream.seq
                 /\ \A j \in 1..Len(wire') :
                      j < k /\ wire'[j].kind = "event" => wire'[j].seq < wire'[k].seq
      <3>1. k + 1 \in 1..Len(wire) /\ 1 \in 1..Len(wire) /\ wire'[k] = wire[k + 1]
        BY <1>3, <1>6
      <3>2. wire[k + 1] \in FrameRecord
        BY <1>1, <3>1
      <3>3. wire[1].seq < wire[k + 1].seq /\ wire[k + 1].seq <= stream.seq
            /\ wire[k + 1].seq \in Nat
        BY <1>6, <1>7, <2>7, <3>1, <3>2 DEF WireContinues, FrameRecord
      <3>4. ASSUME NEW j \in 1..Len(wire'), j < k, wire'[j].kind = "event"
            PROVE  wire'[j].seq < wire'[k].seq
        <4>1. j + 1 \in 1..Len(wire) /\ wire'[j] = wire[j + 1] /\ j + 1 < k + 1
          BY <1>3, <1>6, <3>4
        <4>2. QED
          BY <2>7, <3>1, <3>4, <4>1 DEF WireContinues
      <3>5. QED
        BY <1>1, <2>1, <2>5, <3>1, <3>3, <3>4
    <2>8. ASSUME NEW m \in (Len(view'.seen) + 1)..stream.seq
          PROVE  \E k \in 1..Len(wire') : wire'[k].kind = "event" /\ wire'[k].seq = m
      <3>1. m \in (Len(view.seen) + 1)..stream.seq /\ m # f.seq
        BY <1>1, <2>1, <2>5
      <3>2. PICK k \in 1..Len(wire) : wire[k].kind = "event" /\ wire[k].seq = m
        BY <3>1 DEF WireContinues
      <3>3. k - 1 \in 1..Len(wire') /\ (k - 1) + 1 = k
        BY <1>3, <3>1, <3>2
      <3>4. QED
        BY <1>3, <3>2, <3>3
    <2>9. WireContinues'
      BY <2>3, <2>7, <2>8 DEF WireContinues
    <2>10. StreamKeepsUp'
      <3>1. Len(view'.seen) <= stream.seq
        <4>1. f.seq <= stream.seq
          <5>1. 1 \in 1..Len(wire)
            BY <1>3
          <5>2. QED
            BY <1>7, <5>1 DEF WireContinues
        <4>2. QED
          BY <2>1, <2>5, <4>1
      <3>2. ASSUME NEW k \in 1..Len(wire'), wire'[k].kind = "end"
            PROVE  stream.pc = "done" /\ k = Len(wire')
        <4>1. k + 1 \in 1..Len(wire) /\ wire[k + 1].kind = "end"
          BY <1>3, <1>6, <3>2
        <4>2. stream.pc = "done" /\ k + 1 = Len(wire)
          BY <4>1 DEF StreamKeepsUp
        <4>3. QED
          BY <1>3, <4>2
      <3>3. QED
        BY <1>2, <1>5, <2>3, <3>1, <3>2 DEF StreamKeepsUp
    <2>11. QED
      BY <2>6, <2>9, <2>10
  <1>8. CASE f.kind # "event"
    <2>1. view'.seen = view.seen
      BY <1>1, <1>3, <1>4, <1>8 DEF Receive, ViewRecord
    <2>2. SeenInOrder'
      BY <1>2, <2>1 DEF SeenInOrder
    <2>3. ASSUME NEW k \in 1..Len(wire'), wire'[k].kind = "event"
          PROVE  /\ Len(view'.seen) < wire'[k].seq /\ wire'[k].seq <= stream.seq
                 /\ \A j \in 1..Len(wire') :
                      j < k /\ wire'[j].kind = "event" => wire'[j].seq < wire'[k].seq
      <3>1. k + 1 \in 1..Len(wire) /\ wire'[k] = wire[k + 1]
        BY <1>3, <1>6
      <3>2. ASSUME NEW j \in 1..Len(wire'), j < k, wire'[j].kind = "event"
            PROVE  wire'[j].seq < wire'[k].seq
        <4>1. j + 1 \in 1..Len(wire) /\ wire'[j] = wire[j + 1] /\ j + 1 < k + 1
          BY <1>3, <1>6, <3>2
        <4>2. QED
          BY <2>3, <3>1, <3>2, <4>1 DEF WireContinues
      <3>3. QED
        BY <2>1, <2>3, <3>1, <3>2 DEF WireContinues
    <2>4. ASSUME NEW m \in (Len(view'.seen) + 1)..stream.seq
          PROVE  \E k \in 1..Len(wire') : wire'[k].kind = "event" /\ wire'[k].seq = m
      <3>1. PICK k \in 1..Len(wire) : wire[k].kind = "event" /\ wire[k].seq = m
        BY <2>1, <2>4 DEF WireContinues
      <3>2. k # 1
        BY <1>8, <3>1
      <3>3. k - 1 \in 1..Len(wire') /\ (k - 1) + 1 = k
        BY <1>3, <3>1, <3>2
      <3>4. QED
        BY <1>3, <3>1, <3>3
    <2>5. ASSUME NEW k \in 1..Len(wire'), wire'[k].kind = "end"
          PROVE  stream.pc = "done" /\ k = Len(wire')
      <3>1. k + 1 \in 1..Len(wire) /\ wire[k + 1].kind = "end"
        BY <1>3, <1>6, <2>5
      <3>2. stream.pc = "done" /\ k + 1 = Len(wire)
        BY <3>1 DEF StreamKeepsUp
      <3>3. QED
        BY <1>3, <3>2
    <2>6. CASE f.kind # "end"
      <3>1. stream' = stream
        BY <1>3, <1>4, <1>8, <2>6 DEF Receive
      <3>2. QED
        BY <1>2, <1>5, <2>1, <2>2, <2>3, <2>4, <2>5, <3>1 DEF WireContinues, StreamKeepsUp
    <2>7. CASE f.kind = "end"
      <3>1. stream' = Closed
        BY <1>3, <2>7 DEF Receive
      <3>2. Len(wire) = 1
        <4>1. 1 \in 1..Len(wire)
          BY <1>3
        <4>2. QED
          BY <2>7, <4>1 DEF StreamKeepsUp
      <3>3. wire' = <<>> /\ Len(wire') = 0
        BY <1>1, <1>2, <1>3, <3>2
      <3>4. stream'.pc = "off" /\ stream'.seq = 0
        BY <3>1 DEF Closed
      <3>5. QED
        BY <1>1, <2>1, <2>2, <3>3, <3>4 DEF WireContinues, StreamKeepsUp
    <2>8. QED
      BY <2>6, <2>7
  <1>9. QED
    BY <1>7, <1>8
(* Every step of the connection keeps what the follower relies on.          *)
LEMMA ConnectionKeeps ==
  ASSUME FollowInv, ConnectionStep, UNCHANGED <<log, status, turns>>
  PROVE  SeenInOrder' /\ WireContinues' /\ StreamKeepsUp'
  <1>1. Typed /\ SeenInOrder /\ WireContinues /\ StreamKeepsUp
    BY DEF FollowInv
  <1>2. /\ stream \in StreamRecord /\ view \in ViewRecord /\ stream.seq \in Nat
        /\ Len(log) \in Nat /\ Len(view.seen) \in Nat
    BY <1>1 DEF Typed, StreamRecord, ViewRecord
  <1>3. CASE MarkQueued
    <2>1. view'.seen = view.seen /\ UNCHANGED <<stream, wire>>
      BY <1>2, <1>3 DEF MarkQueued, ViewRecord
    <2>2. QED
      BY <1>1, <2>1 DEF SeenInOrder, WireContinues, StreamKeepsUp
  <1>4. CASE Connect
    <2>1. Last = Len(view.seen)
      BY <1>1, LastSeen
    <2>2. /\ stream'.pc = "list" /\ stream'.seq = Last
          /\ wire' = <<>> /\ Len(wire') = 0 /\ view'.seen = view.seen
      BY <1>2, <1>4 DEF Connect, Closed, ViewRecord
    <2>3. Len(view.seen) <= Len(log)
      BY <1>1 DEF SeenInOrder
    <2>4. QED
      BY <1>1, <1>2, <2>1, <2>2, <2>3 DEF SeenInOrder, WireContinues, StreamKeepsUp
  <1>5. CASE List
    <2>1. view' = view
      BY <1>5 DEF List
    <2>2. QED
      BY <1>1, <1>5, <2>1, ListedFrames DEF SeenInOrder
  <1>6. CASE ReadStatus
    <2>1. view' = view
      BY <1>6 DEF ReadStatus
    <2>2. QED
      BY <1>1, <1>6, <2>1, StatusFrames DEF SeenInOrder
  <1>7. CASE Wake
    <2>1. /\ stream.pc = "wait" /\ stream'.pc = "list" /\ stream'.seq = stream.seq
          /\ UNCHANGED <<wire, view>> /\ wire = <<>> /\ Len(wire) = 0
      BY <1>2, <1>7 DEF Wake, StreamRecord
    <2>2. Len(view.seen) <= stream.seq /\ stream.seq <= Len(log)
      BY <1>1, <2>1 DEF StreamKeepsUp
    <2>3. QED
      BY <1>1, <2>1, <2>2 DEF SeenInOrder, WireContinues, StreamKeepsUp
  <1>8. CASE Receive
    BY <1>1, <1>8, ReceiveKeeps
  <1>9. CASE Drop \/ Stall \/ Watchdog
    <2>1. wire' = <<>> /\ Len(wire') = 0
      BY <1>1, <1>9 DEF Drop, Stall, Watchdog, StreamKeepsUp
    <2>2. stream'.pc \in {"off", "stalled"} /\ stream'.seq = 0
      BY <1>9 DEF Drop, Stall, Watchdog, Closed
    <2>3. view'.seen = view.seen
      BY <1>2, <1>9 DEF Drop, Stall, Watchdog, ViewRecord
    <2>4. QED
      BY <1>1, <1>2, <2>1, <2>2, <2>3 DEF SeenInOrder, WireContinues, StreamKeepsUp
  <1>10. QED
    BY <1>3, <1>4, <1>5, <1>6, <1>7, <1>8, <1>9 DEF ConnectionStep

(* Every step keeps the invariant of the follower.                          *)
LEMMA FollowStep == FollowInv /\ [Next]_vars => FollowInv'
  <1> SUFFICES ASSUME FollowInv, [Next]_vars PROVE FollowInv'
    OBVIOUS
  <1>1. Typed
    BY DEF FollowInv
  <1>2. CASE ConnectionStep /\ UNCHANGED <<log, status, turns>>
    BY <1>1, <1>2, ConnectionTypes, ConnectionKeeps DEF FollowInv
  <1>3. CASE /\ UNCHANGED connection
             /\ LogGrows(log, log') /\ status' \in StatusValue /\ turns' \in Nat
    <2>1. log' \in Seq(Event) /\ Len(log) <= Len(log') /\ Len(log) \in Nat /\ Len(log') \in Nat
      BY <1>1, <1>3, GrownLog DEF Typed
    <2>2. UNCHANGED <<stream, wire, view>>
      BY <1>3 DEF connection
    <2>3. stream.seq \in Nat /\ Len(view.seen) \in Nat
      BY <1>1 DEF Typed, StreamRecord, ViewRecord
    <2>4. Typed'
      BY <1>1, <1>3, <2>1, <2>2 DEF Typed
    <2>5. SeenInOrder'
      BY <2>1, <2>2, <2>3 DEF FollowInv, SeenInOrder
    <2>6. WireContinues'
      BY <2>2 DEF FollowInv, WireContinues
    <2>7. StreamKeepsUp'
      BY <2>1, <2>2, <2>3 DEF FollowInv, StreamKeepsUp
    <2>8. QED
      BY <2>4, <2>5, <2>6, <2>7 DEF FollowInv
  <1>4. QED
    BY <1>1, <1>2, <1>3, StepKinds

(* Every step keeps a runner's event single.                                *)
LEMMA LoggedStep == Typed /\ LoggedOnce /\ [Next]_vars => LoggedOnce'
  <1> SUFFICES ASSUME Typed, LoggedOnce, [Next]_vars PROVE LoggedOnce'
    OBVIOUS
  <1>1. LogGrows(log, log')
    BY StepKinds DEF LogGrows
  <1>2. CASE log' = log
    BY <1>2 DEF LoggedOnce
  <1>3. ASSUME NEW e \in Event, log' = Append(log, e),
               e.kind = "result" => ~ \E i \in DOMAIN log : log[i] = e
        PROVE  LoggedOnce'
    <2>1. /\ log \in Seq(Event) /\ Len(log) \in Nat
          /\ DOMAIN log = 1..Len(log) /\ DOMAIN log' = 1..(Len(log) + 1)
          /\ log'[Len(log) + 1] = e
          /\ \A i \in 1..Len(log) : log'[i] = log[i]
      BY <1>3 DEF Typed
    <2>2. SUFFICES ASSUME NEW i \in DOMAIN log', NEW j \in DOMAIN log',
                          log'[i].kind = "result", log'[i] = log'[j]
                   PROVE  i = j
      BY DEF LoggedOnce
    <2>3. CASE i \in 1..Len(log) /\ j \in 1..Len(log)
      BY <2>1, <2>2, <2>3 DEF LoggedOnce
    <2>4. CASE i = Len(log) + 1 /\ j \in 1..Len(log)
      <3>1. e.kind = "result" /\ log[j] = e
        BY <2>1, <2>2, <2>4
      <3>2. QED
        BY <1>3, <2>1, <2>4, <3>1
    <2>5. CASE i \in 1..Len(log) /\ j = Len(log) + 1
      <3>1. e.kind = "result" /\ log[i] = e
        BY <2>1, <2>2, <2>5
      <3>2. QED
        BY <1>3, <2>1, <2>5, <3>1
    <2>6. QED
      BY <2>1, <2>3, <2>4, <2>5
  <1>4. QED
    BY <1>1, <1>2, <1>3 DEF LogGrows
-------------------------------------------------------------------------------
(* The invariants hold of every reachable state.                            *)
THEOREM Invariant == Spec => [](FollowInv /\ LoggedOnce)
  <1>1. FollowInv /\ LoggedOnce /\ [Next]_vars => (FollowInv /\ LoggedOnce)'
    BY FollowStep, LoggedStep DEF FollowInv
  <1>2. QED
    BY InitFollows, <1>1, PTL DEF Spec

(* A runner's event is in the log once, however often post() sent it and    *)
(* whichever of its deliveries arrive (repo.ts, appendEvents).              *)
THEOREM ResultsLoggedOnce == Spec => []LoggedOnce
  BY Invariant, PTL

(* A follower - the console, a client of the public API or a parent - sees  *)
(* the log from its start, in order, without a gap or a repetition, over    *)
(* lost and stalled connections (session-sse.ts, use-session-live.ts).      *)
THEOREM FollowersSeeInOrder == Spec => []SeenInOrder
  <1>1. FollowInv => SeenInOrder
    BY DEF FollowInv
  <1>2. QED
    BY Invariant, <1>1, PTL
===============================================================================
