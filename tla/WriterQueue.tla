----------------------------- MODULE WriterQueue ------------------------------
(***************************************************************************)
(* The sessions of one writer agent and the slot they compete for.  An     *)
(* agent with a write reference to a wiki is to run one session at a time; *)
(* the others park in pending_launches under wq:<agent> and are released   *)
(* oldest first, under an advisory lock.                                   *)
(*                                                                         *)
(* Nobody owns the slot: it is held when some session of the agent is in   *)
(* flight and not parked here, and every gate and every release reads that *)
(* anew.  What one session does with itself (messages that race, repeated  *)
(* posts) is the subject of SessionTurns; here a session accepts one       *)
(* message at a time, and "resting" stands for idle and failed.            *)
(***************************************************************************)
EXTENDS Integers, FiniteSets

CONSTANTS
  Session,        \* sessions of the agent, created or not
  MaxTurn,        \* bound: highest turn number of a session
  MaxRestart,     \* bound: control-plane restarts
  Interruptible   \* bound: the sessions somebody interrupts

ASSUME WriterQueueAssumption ==
  /\ MaxTurn \in Nat
  /\ MaxRestart \in Nat
  /\ Interruptible \subseteq Session

VARIABLES
  inflight,       \* sessions.status is queued or running
  turns,          \* sessions.turns, -1 before the session is created
  parked,         \* the session's row in pending_launches under wq:<agent>
  parks,          \* rows ever parked: the clock of created_at
  launch,         \* every turn's way to its Job, and the wiki it was given
  pod,            \* every turn's runner
  checked,        \* a release saw the slot free, and holds the advisory lock
  interrupting,   \* how far the interrupt of the session is
  suspect,        \* the reconciler found the session dead
  wiki,           \* version of the wiki: number of write-backs
  restarts        \* control-plane restarts so far

rowVars == <<inflight, turns, parked, parks>>
vars == <<inflight, turns, parked, parks, launch, pod, checked, interrupting,
          suspect, wiki, restarts>>

Turn == 0..MaxTurn
NoTurn == -1
NoRow == [turn |-> NoTurn, since |-> 0]

(***************************************************************************)
(* The way of a launch: through the gate ("free" or "held"), and from the  *)
(* queue ("taken", "fresh").  "lost" ones never get a Job.                 *)
(***************************************************************************)
LaunchPc == {"none", "begun", "resolved", "free", "held", "parked", "taken",
             "fresh", "launched", "released", "lost"}
InRequest == {"begun", "resolved", "free", "held"}
UnderWay == InRequest \union {"taken", "fresh"}
Alive == {"created", "staged", "saved"}

(* writerSlotHeld, for one session: a parked one does not hold the slot.    *)
Holds(s) == inflight[s] /\ parked[s] = NoRow

LaunchGoto(s, t, pc) == launch' = [launch EXCEPT ![s][t].pc = pc]
Rest(s) == inflight' = [inflight EXCEPT ![s] = FALSE]

Init ==
  /\ inflight = [s \in Session |-> FALSE]
  /\ turns = [s \in Session |-> NoTurn]
  /\ parked = [s \in Session |-> NoRow]
  /\ parks = 0
  /\ launch = [s \in Session |-> [t \in Turn |-> [pc |-> "none", wiki |-> 0]]]
  /\ pod = [s \in Session |-> [t \in Turn |-> "none"]]
  /\ checked = FALSE
  /\ interrupting = [s \in Session |-> "no"]
  /\ suspect = {}
  /\ wiki = 0
  /\ restarts = 0

(***************************************************************************)
(* A new session or a message: createSessionAction, sendMessageAction and  *)
(* the writer gate of gatedLaunch.                                         *)
(***************************************************************************)
Begin(s) ==
  /\ ~inflight[s]
  /\ turns[s] < MaxTurn
  /\ turns' = [turns EXCEPT ![s] = @ + 1]
  /\ inflight' = [inflight EXCEPT ![s] = TRUE]
  /\ LaunchGoto(s, turns[s] + 1, "begun")
  /\ UNCHANGED <<parked, parks, pod, checked, interrupting, suspect, wiki, restarts>>

(* resolveWikiMounts comes before the gate.                                 *)
Resolve(s, t) ==
  /\ launch[s][t].pc = "begun"
  /\ launch' = [launch EXCEPT ![s][t] = [pc |-> "resolved", wiki |-> wiki]]
  /\ UNCHANGED <<rowVars, pod, checked, interrupting, suspect, wiki, restarts>>

(* writerSlotHeld, without the lock that a release takes.                   *)
GateCheck(s, t) ==
  /\ launch[s][t].pc = "resolved"
  /\ LaunchGoto(s, t, IF \E u \in Session \ {s} : Holds(u) THEN "held" ELSE "free")
  /\ UNCHANGED <<rowVars, pod, checked, interrupting, suspect, wiki, restarts>>

GatePark(s, t) ==
  /\ launch[s][t].pc = "held"
  /\ parks' = parks + 1
  /\ parked' = [parked EXCEPT ![s] = [turn |-> t, since |-> parks + 1]]
  /\ LaunchGoto(s, t, "parked")
  /\ UNCHANGED <<inflight, turns, pod, checked, interrupting, suspect, wiki, restarts>>

StartPod(s, t) == pod' = [pod EXCEPT ![s][t] = "created"]

GateLaunch(s, t) ==
  /\ launch[s][t].pc = "free"
  /\ LaunchGoto(s, t, "launched")
  /\ StartPod(s, t)
  /\ UNCHANGED <<rowVars, checked, interrupting, suspect, wiki, restarts>>

(* The model gate that follows fails the session: its routing is dead.      *)
GateRefuse(s, t) ==
  /\ launch[s][t].pc = "free"
  /\ LaunchGoto(s, t, "lost")
  /\ Rest(s)
  /\ UNCHANGED <<turns, parked, parks, pod, checked, interrupting, suspect, wiki,
                 restarts>>

(* A request that throws leaves its session queued.                         *)
GateError(s, t) ==
  /\ launch[s][t].pc \in InRequest
  /\ LaunchGoto(s, t, "lost")
  /\ UNCHANGED <<rowVars, pod, checked, interrupting, suspect, wiki, restarts>>

(***************************************************************************)
(* releaseWriterQueue, when a session has come to rest, or by the sweep    *)
(* when one waits.  The advisory lock is held from the check to the end of *)
(* the deletion; a release that finds the slot held ends without a trace.  *)
(***************************************************************************)
Triggered ==
  \E s \in Session :
    \/ parked[s] # NoRow
    \/ turns[s] # NoTurn /\ ~inflight[s]

TakeCheckWaiters ==  \* mutant: sessions that wait count as holding the slot
  /\ ~checked
  /\ Triggered
  /\ \A s \in Session : ~inflight[s]
  /\ checked' = TRUE
  /\ UNCHANGED <<rowVars, launch, pod, interrupting, suspect, wiki, restarts>>

TakeCheck ==
  /\ ~checked
  /\ Triggered
  /\ \A s \in Session : ~Holds(s)
  /\ checked' = TRUE
  /\ UNCHANGED <<rowVars, launch, pod, interrupting, suspect, wiki, restarts>>

Oldest(s) ==
  /\ parked[s] # NoRow
  /\ \A u \in Session : parked[u] # NoRow => parked[s].since <= parked[u].since

TakeEach(s) ==  \* mutant: the lock is kept for a next row, as for a model
  /\ checked
  /\ Oldest(s)
  /\ parked' = [parked EXCEPT ![s] = NoRow]
  /\ LaunchGoto(s, parked[s].turn, "taken")
  /\ UNCHANGED <<inflight, turns, parks, pod, checked, interrupting, suspect, wiki,
                 restarts>>

TakeNext(s) ==
  /\ checked
  /\ Oldest(s)
  /\ parked' = [parked EXCEPT ![s] = NoRow]
  /\ LaunchGoto(s, parked[s].turn, "taken")
  /\ checked' = FALSE
  /\ UNCHANGED <<inflight, turns, parks, pod, interrupting, suspect, wiki, restarts>>

TakeNothing ==
  /\ checked
  /\ \A s \in Session : parked[s] = NoRow
  /\ checked' = FALSE
  /\ UNCHANGED <<rowVars, launch, pod, interrupting, suspect, wiki, restarts>>

(* The mounts of the payload are resolved again.                            *)
Refresh(s, t) ==
  /\ launch[s][t].pc = "taken"
  /\ launch' = [launch EXCEPT ![s][t] = [pc |-> "fresh", wiki |-> wiki]]
  /\ UNCHANGED <<rowVars, pod, checked, interrupting, suspect, wiki, restarts>>

ReleaseLaunch(s, t) ==
  /\ launch[s][t].pc = "fresh"
  /\ LaunchGoto(s, t, "released")
  /\ StartPod(s, t)
  /\ UNCHANGED <<rowVars, checked, interrupting, suspect, wiki, restarts>>

ReleaseFail(s, t) ==
  /\ launch[s][t].pc \in {"taken", "fresh"}
  /\ LaunchGoto(s, t, "lost")
  /\ Rest(s)
  /\ UNCHANGED <<turns, parked, parks, pod, checked, interrupting, suspect, wiki,
                 restarts>>

(***************************************************************************)
(* Interrupt.  The Jobs are deleted; their pods die later (PodEnd).        *)
(***************************************************************************)
InterruptStop(s) ==
  /\ s \in Interruptible
  /\ turns[s] # NoTurn
  /\ interrupting[s] = "no"
  /\ interrupting' = [interrupting EXCEPT ![s] = "stopped"]
  /\ UNCHANGED <<rowVars, launch, pod, checked, suspect, wiki, restarts>>

InterruptUnpark(s) ==
  /\ interrupting[s] = "stopped"
  /\ interrupting' = [interrupting EXCEPT ![s] = "unparked"]
  /\ parked' = [parked EXCEPT ![s] = NoRow]
  /\ UNCHANGED <<inflight, turns, parks, launch, pod, checked, suspect, wiki, restarts>>

InterruptIdle(s) ==
  /\ interrupting[s] = "unparked"
  /\ interrupting' = [interrupting EXCEPT ![s] = "no"]
  /\ Rest(s)
  /\ UNCHANGED <<turns, parked, parks, launch, pod, checked, suspect, wiki, restarts>>

(***************************************************************************)
(* The zombie reconciler: judge, then fail.  The grace window is longer    *)
(* than a request takes; but a session that waited in the queue has given  *)
(* no sign of life for as long, so it is judged although its Job has yet   *)
(* to be created, or to become active.                                     *)
(***************************************************************************)
Dead(s) ==
  /\ turns[s] # NoTurn
  /\ \/ pod[s][turns[s]] \notin Alive
     \/ pod[s][turns[s]] = "created" /\ launch[s][turns[s]].pc = "released"
  /\ \A t \in Turn : launch[s][t].pc \notin InRequest

SweepJudge(s) ==
  /\ s \notin suspect
  /\ Holds(s)
  /\ Dead(s)
  /\ suspect' = suspect \union {s}
  /\ UNCHANGED <<rowVars, launch, pod, checked, interrupting, wiki, restarts>>

SweepFail(s) ==
  /\ s \in suspect
  /\ suspect' = suspect \ {s}
  /\ Rest(s)
  /\ UNCHANGED <<turns, parked, parks, launch, pod, checked, interrupting, wiki,
                 restarts>>

(***************************************************************************)
(* The runner: stage the wiki, work, write the wiki back, report.  Its Job  *)
(* counts as active from the time it stages.                               *)
(***************************************************************************)
PodGoto(s, t, pc) == pod' = [pod EXCEPT ![s][t] = pc]

PodStage(s, t) ==
  /\ pod[s][t] = "created"
  /\ PodGoto(s, t, "staged")
  /\ UNCHANGED <<rowVars, launch, checked, interrupting, suspect, wiki, restarts>>

(* sync_wiki_back posts what changed, if anything did and the post works.   *)
PodWriteBack(s, t) ==
  /\ pod[s][t] = "staged"
  /\ PodGoto(s, t, "saved")
  /\ wiki' \in {wiki, wiki + 1}
  /\ UNCHANGED <<rowVars, launch, checked, interrupting, suspect, restarts>>

(* post_status reports of the latest turn only; stale ones change nothing.  *)
Reported(s, t) == inflight' = [inflight EXCEPT ![s] = @ /\ t < turns[s]]

(* At the end of the turn, or from the handler of a crash.                  *)
PodReport(s, t) ==
  /\ pod[s][t] \in Alive
  /\ PodGoto(s, t, "gone")
  /\ Reported(s, t)
  /\ UNCHANGED <<turns, parked, parks, launch, checked, interrupting, suspect, wiki,
                 restarts>>

PodEnd(s, t) ==
  /\ pod[s][t] \in Alive
  /\ PodGoto(s, t, "gone")
  /\ UNCHANGED <<rowVars, launch, checked, interrupting, suspect, wiki, restarts>>

(* A restart forgets the coroutines; the lock goes with the connection.     *)
Restart ==
  /\ restarts < MaxRestart
  /\ restarts' = restarts + 1
  /\ launch' = [s \in Session |-> [t \in Turn |->
       IF launch[s][t].pc \in UnderWay
       THEN [launch[s][t] EXCEPT !.pc = "lost"] ELSE launch[s][t]]]
  /\ checked' = FALSE
  /\ interrupting' = [s \in Session |-> "no"]
  /\ suspect' = {}
  /\ UNCHANGED <<rowVars, pod, wiki>>

Request(s, t) ==
  \/ Resolve(s, t) \/ GateCheck(s, t) \/ GatePark(s, t) \/ GateLaunch(s, t)
  \/ GateRefuse(s, t) \/ GateError(s, t)
Replay(s, t) == Refresh(s, t) \/ ReleaseLaunch(s, t) \/ ReleaseFail(s, t)
Take == TakeNothing \/ \E s \in Session : TakeNext(s)
Interrupt(s) == InterruptStop(s) \/ InterruptUnpark(s) \/ InterruptIdle(s)
Runner(s, t) ==
  PodStage(s, t) \/ PodWriteBack(s, t) \/ PodReport(s, t) \/ PodEnd(s, t)

Next ==
  \/ \E s \in Session :
       \/ Begin(s) \/ Interrupt(s) \/ SweepJudge(s) \/ SweepFail(s)
       \/ \E t \in Turn : Request(s, t) \/ Replay(s, t) \/ Runner(s, t)
  \/ TakeCheck \/ Take \/ Restart

Spec == Init /\ [][Next]_vars

Fairness ==
  /\ WF_vars(TakeCheck /\ \E s \in Session : parked[s] # NoRow)
  /\ WF_vars(Take)
  /\ \A s \in Session :
       /\ WF_vars(SweepJudge(s)) /\ WF_vars(SweepFail(s))
       /\ WF_vars(InterruptUnpark(s) \/ InterruptIdle(s))
       /\ \A t \in Turn :
            /\ WF_vars(Request(s, t)) /\ WF_vars(Replay(s, t)) /\ WF_vars(PodEnd(s, t))

FairSpec == Spec /\ Fairness
-------------------------------------------------------------------------------
(* Every variable has its type.                                             *)
TypeOK ==
  /\ inflight \in [Session -> BOOLEAN]
  /\ turns \in [Session -> Turn \union {NoTurn}]
  /\ parked \in [Session -> [turn : Turn \union {NoTurn}, since : Nat]]
  /\ parks \in Nat
  /\ launch \in [Session -> [Turn -> [pc : LaunchPc, wiki : Nat]]]
  /\ pod \in [Session -> [Turn -> Alive \union {"none", "gone"}]]
  /\ checked \in BOOLEAN
  /\ interrupting \in [Session -> {"no", "stopped", "unparked"}]
  /\ suspect \subseteq Session
  /\ wiki \in Nat
  /\ restarts \in 0..MaxRestart

(* A session holds the slot with a launch that came that way.               *)
HoldsBy(s, way) == Holds(s) /\ launch[s][turns[s]].pc \in way
ByQueue == {"taken", "fresh", "released"}
ByGate == {"free", "launched"}

(***************************************************************************)
(* "Concurrent release triggers ... never start two at once"               *)
(* (takeNextWriterLaunch): the sessions released from the queue have the   *)
(* slot one after the other.                                               *)
(***************************************************************************)
ReleasesNeverOverlap ==
  \A s, u \in Session : HoldsBy(s, ByQueue) /\ HoldsBy(u, ByQueue) => s = u

(***************************************************************************)
(* Of the sessions that go straight through the gate only one has the slot *)
(* at a time, although the gate takes no lock: each is in flight before it *)
(* looks, so of two the later one sees the other.                          *)
(***************************************************************************)
GateLetsOneIn ==
  \A s, u \in Session : HoldsBy(s, ByGate) /\ HoldsBy(u, ByGate) => s = u

(***************************************************************************)
(* Whoever waits for the slot is released at last, whatever happens to the *)
(* session that has it: no ring of sessions waits for each other, and no   *)
(* lost trigger leaves the queue behind (writer-queue.ts, "the             *)
(* self-healing safety net").                                              *)
(***************************************************************************)
WaitersAreServed ==
  \A s \in Session : parked[s] # NoRow ~> parked[s] = NoRow
===============================================================================
