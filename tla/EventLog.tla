------------------------------- MODULE EventLog -------------------------------
(***************************************************************************)
(* The event log of one session and those who follow it: the runner pods   *)
(* that post events and their final status at least once, the control      *)
(* plane's own writers (message, interrupt, reconciler, lock), and one     *)
(* follower: the console's live view, a client of the public API, or the   *)
(* parent session that delegated its work to this one and polls it.        *)
(*                                                                         *)
(* appendEvents holds the session's row lock from its first read to its    *)
(* commit, so an append is one step.                                       *)
(***************************************************************************)
EXTENDS Naturals, Sequences, FiniteSets

CONSTANTS
  Follower,       \* the kinds of follower considered
  MaxTurn,        \* bound: highest turn number
  Attempts,       \* bound: deliveries of one post, by its kind (post() makes 4)
  MaxInterrupts,  \* bound: interrupts
  MaxDrops,       \* bound: connections of the follower that are lost or stall
  PollFailures    \* bound: failed polls that end a delegation (5)

ASSUME EventLogAssumption ==
  /\ Follower \subseteq {"console", "client", "parent"}
  /\ MaxTurn \in Nat /\ Attempts \in [{"result", "idle", "failed"} -> Nat \ {0}] /\ MaxInterrupts \in Nat
  /\ MaxDrops \in Nat /\ PollFailures \in Nat \ {0}

Turn == 0..MaxTurn
(* What a runner posts: its events, of which the result stands for all, and *)
(* the final status, "idle" or "failed".                                    *)
Report == {"idle", "failed"}
Post == Turn \X ({"result"} \cup Report)

VARIABLES
  log,            \* session_events by seq: [turn, kind]
  status, turns,  \* the session's row
  pod,            \* turn -> the runner pod
  copies,         \* post -> deliveries of it that may follow
  sending,        \* where a message to the session stands
  interrupting,   \* where an interrupt stands
  sweeping,       \* the reconciler found the session dead
  locking,        \* the parent's lock found the session at rest
  interrupts, drops,
  follower,       \* who follows
  stream,         \* the server's loop for the follower's connection
  wire,           \* frames under way to the follower
  view,           \* what the follower shows
  call            \* the parent's delegation

row == <<status, turns>>
writers == <<sending, interrupting, sweeping, locking, interrupts>>
following == <<stream, wire, view, drops>>
vars == <<log, status, turns, pod, copies, sending, interrupting, sweeping,
          locking, interrupts, drops, follower, stream, wire, view, call>>

Resting == {"idle", "failed"}
InFlight == {"queued", "running"}

(* What a pod posts next; "none" before it exists, "gone" after its end.    *)
Alive(t) == pod[t] \in {"result"} \cup Report

Closed == [pc |-> "off", seq |-> 0, status |-> "none"]
Frame(k, n, s) == [kind |-> k, seq |-> n, status |-> s]

(* A session at rest after its first turn, of which deliveries may follow;  *)
(* or, for a parent, one it has yet to delegate to.                         *)
Init ==
  /\ follower \in Follower
  /\ \E there \in BOOLEAN :
        /\ follower # "parent" => there
        /\ log = IF there THEN <<[turn |-> 0, kind |-> "result"]>> ELSE <<>>
        /\ status = IF there THEN "idle" ELSE "none"
        /\ pod = [t \in Turn |-> IF t = 0 /\ there THEN "gone" ELSE "none"]
        /\ copies = [p \in Post |->
             IF there /\ p \in {<<0, "result">>, <<0, "idle">>} THEN Attempts[p[2]] - 1 ELSE 0]
        /\ view = [seen |-> IF there THEN <<1>> ELSE <<>>, status |-> status,
                   open |-> FALSE, ended |-> FALSE]
        /\ call = [pc |-> IF follower = "parent" THEN "answered" ELSE "none",
                   child |-> IF there THEN "known" ELSE "none", missed |-> 0, answer |-> "none"]
  /\ turns = 0
  /\ sending = "no" /\ interrupting = "no"
  /\ sweeping = FALSE /\ locking = FALSE
  /\ interrupts = 0 /\ drops = 0
  /\ stream = Closed /\ wire = <<>>

---------------------------------------------------------------------------
(* The session's log and row.                                                *)

Logged(e) == \E i \in DOMAIN log : log[i] = e

(***************************************************************************)
(* appendEvents: an event whose uid is there already is left out; any      *)
(* event but a prompt counts as the runner reporting in.                   *)
(***************************************************************************)
AppendAgain(e) == \* mutant: the retried batch is inserted once more
  /\ log' = Append(log, e)
  /\ status' = IF e.kind # "user" /\ status = "queued" THEN "running" ELSE status
  /\ UNCHANGED turns

AppendEvent(e) ==
  /\ log' = IF e.kind = "result" /\ Logged(e) THEN log ELSE Append(log, e)
  /\ status' = IF e.kind # "user" /\ status = "queued" THEN "running" ELSE status
  /\ UNCHANGED turns

(* setSessionStatus of a runner: a report of an older turn is ignored.      *)
ApplyReport(t, s) ==
  /\ status' = IF turns <= t THEN s ELSE status
  /\ UNCHANGED <<log, turns>>

---------------------------------------------------------------------------
(* Runner pods.                                                              *)

(***************************************************************************)
(* post(): a pod that comes to a post sends it, and again while its answer *)
(* fails to come: so many deliveries may follow, at any time or never.     *)
(***************************************************************************)
Comes(t, post) ==
  /\ pod' = [pod EXCEPT ![t] = post]
  /\ copies' = [copies EXCEPT ![<<t, post>>] = Attempts[post]]

(***************************************************************************)
(* A delivery is handled; its answer reaches the pod that waits for it, or *)
(* nobody.                                                                 *)
(***************************************************************************)
Answered(p) ==
  /\ pod[p[1]] = p[2]
  /\ pod' = [pod EXCEPT ![p[1]] = IF p[2] = "result" THEN "idle" ELSE "gone"]
  /\ copies' = [q \in Post |->
       CASE q = p -> copies[q] - 1
         [] p[2] = "result" /\ q = <<p[1], "idle">> -> Attempts["idle"]
         [] OTHER -> copies[q]]

Handle(p) ==
  /\ copies[p] > 0
  /\ IF p[2] = "result" THEN AppendEvent([turn |-> p[1], kind |-> "result"])
                        ELSE ApplyReport(p[1], p[2])
  /\ \/ UNCHANGED pod /\ copies' = [copies EXCEPT ![p] = @ - 1]
     \/ Answered(p)
  /\ UNCHANGED <<writers, follower, following, call>>

(***************************************************************************)
(* The model or the loop fails the turn, or the last attempt to post its   *)
(* events failed: the pod reports the crash.                               *)
(***************************************************************************)
Crash(t) ==
  /\ pod[t] = "result"
  /\ Comes(t, "failed")
  /\ UNCHANGED <<log, row, writers, follower, following, call>>

(* The pod ends: evicted, past its deadline, or its report failed as well.  *)
Evict(t) ==
  /\ Alive(t)
  /\ pod' = [pod EXCEPT ![t] = "gone"]
  /\ UNCHANGED <<log, row, copies, writers, follower, following, call>>

---------------------------------------------------------------------------
(* The control plane's writers.                                              *)

(***************************************************************************)
(* sendMessageAction: startTurn on a session at rest, the prompt, the      *)
(* launch.  The console marks its view queued when the answer is back; a   *)
(* parent continues its child this way.                                    *)
(***************************************************************************)
StartTurn ==
  /\ status \in Resting /\ turns < MaxTurn
  /\ sending = IF follower = "parent" THEN "checked" ELSE "no"
  /\ turns' = turns + 1 /\ status' = "queued"
  /\ sending' = "begun"
  /\ UNCHANGED <<log, pod, copies, interrupting, sweeping, locking, interrupts,
                 follower, following, call>>

(* createSessionAction, of a delegation: the row, and then the same.        *)
CreateChild ==
  /\ status = "none" /\ sending = "checked"
  /\ status' = "queued"
  /\ sending' = "begun"
  /\ UNCHANGED <<log, turns, pod, copies, interrupting, sweeping, locking, interrupts,
                 follower, following, call>>

AppendPrompt ==
  /\ sending = "begun"
  /\ AppendEvent([turn |-> turns, kind |-> "user"])
  /\ sending' = "prompted"
  /\ UNCHANGED <<pod, copies, interrupting, sweeping, locking, interrupts,
                 follower, following, call>>

Launch ==
  /\ sending = "prompted"
  /\ Comes(turns, "result")
  /\ sending' = IF follower = "console" THEN "answered" ELSE "no"
  /\ call' = IF call.pc = "asked" THEN [call EXCEPT !.pc = "polling", !.child = IF @ = "none" THEN "new" ELSE @]
             ELSE call
  /\ UNCHANGED <<log, row, interrupting, sweeping, locking, interrupts,
                 follower, following>>

(* markQueued.                                                              *)
MarkQueued ==
  /\ sending = "answered"
  /\ sending' = "no"
  /\ view' = [view EXCEPT !.status = IF @ \in Resting THEN "queued" ELSE @]
  /\ UNCHANGED <<log, row, pod, copies, interrupting, sweeping, locking, interrupts,
                 follower, stream, wire, drops, call>>

(***************************************************************************)
(* The interrupt route, or interruptChildSessions for a parent's           *)
(* interrupt: the pods go, then the session is idle, then the event.       *)
(***************************************************************************)
InterruptStop ==
  /\ status # "none" /\ interrupting = "no" /\ interrupts < MaxInterrupts
  /\ interrupting' = "stopped" /\ interrupts' = interrupts + 1
  /\ pod' = [t \in Turn |-> IF Alive(t) THEN "gone" ELSE pod[t]]
  /\ UNCHANGED <<log, row, copies, sending, sweeping, locking, follower, following, call>>

InterruptIdle ==
  /\ interrupting = "stopped"
  /\ interrupting' = "idle"
  /\ status' = "idle"
  /\ UNCHANGED <<log, turns, pod, copies, sending, sweeping, locking, interrupts,
                 follower, following, call>>

InterruptTell ==
  /\ interrupting = "idle"
  /\ interrupting' = "no"
  /\ AppendEvent([turn |-> turns, kind |-> "interrupted"])
  /\ UNCHANGED <<pod, copies, sending, sweeping, locking, interrupts,
                 follower, following, call>>

(* The reconciler: no pod and no sign of life; the event, then the status.  *)
SweepNever == FALSE \* mutant: the reconciler never finds the session

SweepFind ==
  /\ ~ sweeping /\ status \in InFlight /\ ~ Alive(turns) /\ sending # "begun"
  /\ sending # "prompted"
  /\ sweeping' = TRUE
  /\ AppendEvent([turn |-> turns, kind |-> "zombie"])
  /\ UNCHANGED <<pod, copies, sending, interrupting, locking, interrupts,
                 follower, following, call>>

SweepFail ==
  /\ sweeping
  /\ sweeping' = FALSE
  /\ status' = "failed"
  /\ UNCHANGED <<log, turns, pod, copies, sending, interrupting, locking, interrupts,
                 follower, following, call>>

(* delegateCompleteAction: a child at rest, then the lock.                  *)
LockRead ==
  /\ follower = "parent" /\ call.child # "none" /\ call.pc = "answered" /\ ~ locking
  /\ status \in Resting
  /\ locking' = TRUE
  /\ UNCHANGED <<log, row, pod, copies, sending, interrupting, sweeping, interrupts,
                 follower, following, call>>

LockSet ==
  /\ locking
  /\ locking' = FALSE
  /\ status' = "completed"
  /\ UNCHANGED <<log, turns, pod, copies, sending, interrupting, sweeping, interrupts,
                 follower, following, call>>

---------------------------------------------------------------------------
(* The follower's connection.                                                *)

Last == IF view.seen = <<>> THEN 0 ELSE view.seen[Len(view.seen)]

ConnectFromStart == \* mutant: a new connection asks for the whole log again
  /\ follower \in {"console", "client"} /\ ~ view.open /\ ~ view.ended
  /\ view' = [view EXCEPT !.open = TRUE]
  /\ stream' = [Closed EXCEPT !.pc = "list"]
  /\ wire' = <<>>
  /\ UNCHANGED <<log, row, pod, copies, writers, drops, follower, call>>

(***************************************************************************)
(* A connection, the first or a new one after the last was lost, asks for  *)
(* what follows the last event seen.                                       *)
(***************************************************************************)
Connect ==
  /\ follower \in {"console", "client"} /\ ~ view.open /\ ~ view.ended
  /\ view' = [view EXCEPT !.open = TRUE]
  /\ stream' = [Closed EXCEPT !.pc = "list", !.seq = Last]
  /\ wire' = <<>>
  /\ UNCHANGED <<log, row, pod, copies, writers, drops, follower, call>>

(* The loop of streamSessionEvents: first the events ...                    *)
List ==
  /\ stream.pc = "list"
  /\ stream' = [stream EXCEPT !.pc = "status", !.seq = Len(log)]
  /\ wire' = wire \o [i \in 1..(Len(log) - stream.seq) |->
                        Frame("event", stream.seq + i, "none")]
  /\ UNCHANGED <<log, row, pod, copies, writers, drops, follower, view, call>>

Over == status = "completed" \/ (follower = "client" /\ status = "failed")

PingBare == <<>> \* mutant: the keep-alive carries no status

Ping == IF follower = "console" THEN <<Frame("ping", 0, status)>> ELSE <<>>

(* ... then the row: a status frame when it changed, and the end or a beat. *)
ReadStatus ==
  /\ stream.pc = "status"
  /\ wire' = wire
       \o (IF status = stream.status THEN <<>> ELSE <<Frame("status", 0, status)>>)
       \o (IF Over THEN <<Frame("end", 0, "none")>> ELSE Ping)
  /\ stream' = [stream EXCEPT !.pc = IF Over THEN "done" ELSE "wait", !.status = status]
  /\ UNCHANGED <<log, row, pod, copies, writers, drops, follower, view, call>>

(* A NOTIFY or the heartbeat.  (Bound: not before the frames are taken.)    *)
Wake ==
  /\ stream.pc = "wait" /\ wire = <<>>
  /\ stream' = [stream EXCEPT !.pc = "list"]
  /\ UNCHANGED <<log, row, pod, copies, writers, drops, follower, view, wire, call>>

(* The follower takes a frame; the console drops an event it has seen.      *)
Receive ==
  /\ wire # <<>>
  /\ wire' = Tail(wire)
  /\ LET f == Head(wire) IN
       CASE f.kind = "event" ->
              /\ view' = IF follower = "console" /\ f.seq <= Last THEN view
                         ELSE [view EXCEPT !.seen = Append(@, f.seq)]
              /\ UNCHANGED stream
         [] f.kind \in {"status", "ping"} ->
              /\ view' = [view EXCEPT !.status = f.status]
              /\ UNCHANGED stream
         [] f.kind = "end" ->
              /\ view' = [view EXCEPT !.open = FALSE, !.ended = TRUE]
              /\ stream' = Closed
  /\ UNCHANGED <<log, row, pod, copies, writers, drops, follower, call>>

(* The connection breaks: what was under way on it is lost.                 *)
Drop ==
  /\ view.open /\ drops < MaxDrops
  /\ drops' = drops + 1
  /\ view' = [view EXCEPT !.open = FALSE]
  /\ stream' = Closed /\ wire' = <<>>
  /\ UNCHANGED <<log, row, pod, copies, writers, follower, call>>

(* The connection goes quiet without an error.                              *)
Stall ==
  /\ follower = "console" /\ view.open /\ drops < MaxDrops
  /\ drops' = drops + 1
  /\ stream' = [Closed EXCEPT !.pc = "stalled"]
  /\ wire' = <<>>
  /\ UNCHANGED <<log, row, pod, copies, writers, follower, view, call>>

(* The console's watchdog: no beat for 45 s, a new connection.              *)
Watchdog ==
  /\ stream.pc = "stalled"
  /\ stream' = Closed
  /\ view' = [view EXCEPT !.open = FALSE]
  /\ UNCHANGED <<log, row, pod, copies, writers, drops, follower, wire, call>>

---------------------------------------------------------------------------
(* The parent's delegation: run_delegate and delegateStatusAction.           *)

(* The tool asks for a child, or for another turn of the child it has: the  *)
(* one post that is not repeated, since it is not idempotent.  (Bound: one  *)
(* child is created or continued.)                                          *)
DelegateAsk ==
  /\ follower = "parent" /\ call.pc = "answered"
  /\ status = "none" \/ (call.child = "known" /\ turns < MaxTurn)
  /\ call' = [call EXCEPT !.pc = "asking", !.answer = "none"]
  /\ UNCHANGED <<log, row, pod, copies, writers, follower, following>>

(* delegateAction: no more children than so many, and a child at rest.      *)
DelegateCheck ==
  /\ call.pc = "asking" /\ sending = "no"
  /\ IF call.child = "known" THEN status \in Resting ELSE status = "none"
  /\ call' = [call EXCEPT !.pc = "asked"]
  /\ sending' = "checked"
  /\ UNCHANGED <<log, row, pod, copies, interrupting, sweeping, locking, interrupts,
                 follower, following>>

(* A child that is no longer at rest when the turn would start.             *)
TurnRefused ==
  /\ sending = "checked" /\ status \notin Resting \cup {"none"}
  /\ sending' = "no"
  /\ call' = IF call.pc = "asked" THEN [call EXCEPT !.pc = "answered", !.answer = "error"] ELSE call
  /\ UNCHANGED <<log, row, pod, copies, interrupting, sweeping, locking, interrupts,
                 follower, following>>

(* The post is refused - the child runs or is locked, there are too many,   *)
(* the parent is not in flight, the workspace is read-only - or its answer  *)
(* is lost, and what the control plane has begun goes on.                   *)
DelegateFails ==
  /\ call.pc \in {"asking", "asked"}
  /\ call' = [call EXCEPT !.pc = "answered", !.answer = "error"]
  /\ UNCHANGED <<log, row, pod, copies, writers, follower, following>>

(* The status of the child; the poll goes on while it is in flight.         *)
PollStatus ==
  /\ call.pc = "polling"
  /\ call' = IF status \in InFlight THEN [call EXCEPT !.missed = 0]
             ELSE [call EXCEPT !.pc = "reading",
                     !.answer = IF status = "failed" THEN "failed" ELSE "clean"]
  /\ UNCHANGED <<log, row, pod, copies, writers, follower, following>>

LastOf(k) ==
  LET at == {i \in DOMAIN log : log[i].kind = k}
  IN IF at = {} THEN 0 ELSE CHOOSE i \in at : \A j \in at : j <= i

(* ... and, in later queries, what it said and whether it was interrupted.  *)
PollAnswer ==
  /\ call.pc = "reading"
  /\ call' = [call EXCEPT !.pc = "fetching", !.missed = 0,
                !.answer = IF LastOf("interrupted") > LastOf("result")
                           THEN "interrupted" ELSE @]
  /\ UNCHANGED <<log, row, pod, copies, writers, follower, following>>

(* The child's outputs, each downloaded with a few attempts.                *)
FetchOutputs ==
  /\ call.pc = "fetching"
  /\ \E answer \in {call.answer, "error"} :
       call' = [call EXCEPT !.pc = "answered", !.answer = answer]
  /\ UNCHANGED <<log, row, pod, copies, writers, follower, following>>

(* A poll fails; too many in a row end the call.                            *)
PollMiss ==
  /\ call.pc \in {"polling", "reading"}
  /\ call' = IF call.missed + 1 = PollFailures
             THEN [call EXCEPT !.pc = "answered", !.missed = 0, !.answer = "error"]
             ELSE [call EXCEPT !.pc = "polling", !.missed = @ + 1]
  /\ UNCHANGED <<log, row, pod, copies, writers, follower, following>>

---------------------------------------------------------------------------
PodNext(t) == Crash(t) \/ Evict(t)

ServerNext ==
  \/ StartTurn \/ AppendPrompt \/ Launch \/ MarkQueued
  \/ InterruptStop \/ InterruptIdle \/ InterruptTell
  \/ SweepFind \/ SweepFail \/ LockRead \/ LockSet
  \/ CreateChild \/ DelegateCheck \/ TurnRefused

StreamNext == List \/ ReadStatus \/ Wake
ParentNext == DelegateFails \/ PollStatus \/ PollAnswer \/ FetchOutputs
FollowerNext == Connect \/ Receive \/ Watchdog \/ DelegateAsk \/ ParentNext

Next ==
  \/ \E t \in Turn : PodNext(t)
  \/ \E p \in Post : Handle(p)
  \/ ServerNext \/ StreamNext \/ FollowerNext
  \/ Drop \/ Stall \/ PollMiss

Spec == Init /\ [][Next]_vars

(***************************************************************************)
(* What a coroutine has begun it goes on with; the reconciler runs every   *)
(* minute; a pod ends at the latest at its deadline; the stream's loop     *)
(* beats, and the follower takes what arrives, connects again and polls.   *)
(* Nothing is asked of users, of the network or of the runner's work.      *)
(***************************************************************************)
Fairness ==
  /\ WF_vars((sending # "no" /\ StartTurn) \/ CreateChild \/ TurnRefused \/ AppendPrompt \/ Launch \/ MarkQueued)
  /\ WF_vars(InterruptIdle \/ InterruptTell)
  /\ WF_vars(SweepFind \/ SweepFail)
  /\ WF_vars(LockSet)
  /\ \A t \in Turn : WF_vars(Evict(t))
  /\ WF_vars(StreamNext)
  /\ WF_vars(Connect \/ Receive \/ Watchdog)
  /\ WF_vars(ParentNext)

FairSpec == Spec /\ Fairness
---------------------------------------------------------------------------
(* Every variable has its type.                                             *)
TypeOK ==
  /\ log \in Seq([turn : Turn, kind : {"result", "user", "interrupted", "zombie"}])
  /\ status \in Resting \cup InFlight \cup {"none", "completed"}
  /\ turns \in Turn
  /\ pod \in [Turn -> {"none", "gone", "result"} \cup Report]
  /\ \A p \in Post : copies[p] \in 0..Attempts[p[2]]
  /\ sending \in {"no", "checked", "begun", "prompted", "answered"}
  /\ interrupting \in {"no", "stopped", "idle"}
  /\ sweeping \in BOOLEAN /\ locking \in BOOLEAN
  /\ interrupts \in 0..MaxInterrupts /\ drops \in 0..MaxDrops

(***************************************************************************)
(* A runner's event is in the log once, however often post() sent it and   *)
(* whichever of its deliveries arrive, before or after the turn was        *)
(* interrupted, failed or followed by another (appendEvents' uid).         *)
(***************************************************************************)
LoggedOnce ==
  \A i, j \in DOMAIN log : log[i].kind = "result" /\ log[i] = log[j] => i = j

(***************************************************************************)
(* A follower sees the log from its start, in order, without a gap or a    *)
(* repetition, over lost and stalled connections.                          *)
(***************************************************************************)
SeenInOrder ==
  /\ Len(view.seen) <= Len(log)
  /\ \A i \in DOMAIN view.seen : view.seen[i] = i

(***************************************************************************)
(* The console does not stay behind (use-session-live.ts, "any stuck state *)
(* self-heals on reconnect"): when the session comes to its last event and *)
(* status, its view comes to show them, whatever the user's own optimistic *)
(* "queued" overwrote and whichever connections broke or went quiet.       *)
(***************************************************************************)
ViewCatchesUp ==
  follower = "console" =>
    <>[](view.status = status /\ Len(view.seen) = Len(log))

(***************************************************************************)
(* A delegate call returns (run_delegate polls "until it finishes"): a     *)
(* child whose pod, posts or prompt are lost is failed by the reconciler,  *)
(* and the poll sees it.                                                   *)
(***************************************************************************)
DelegationReturns == call.pc = "asking" ~> call.pc = "answered"
===============================================================================
