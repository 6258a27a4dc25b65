----------------------------- MODULE SessionTurns -----------------------------
(***************************************************************************)
(* The life of one session in the control plane: its row in Postgres, the  *)
(* row that parks a launch, the checkpoint files, the Kubernetes Job and   *)
(* runner pod of every turn, and the coroutines of the control plane that  *)
(* act on them (message, interrupt, status, release, reconciler, lock).    *)
(*                                                                         *)
(* A coroutine gives way at every await, so it is a handler with a program *)
(* counter and the locals it carries over an await; each action below is   *)
(* the code from one await to the next.  A pod and its posts are as the    *)
(* runner has them: a post is sent again until it is answered, so it can   *)
(* arrive more than once and late.                                         *)
(*                                                                         *)
(* Data that no decision reads is left out.  The pod of turn t uploads at  *)
(* most one checkpoint, so that file is named by the number t.             *)
(***************************************************************************)
EXTENDS Integers, FiniteSets

CONSTANTS
  MaxTurn,        \* bound: highest turn number
  Attempts,       \* bound: times the runner sends one status post (4 in post())
  Handler,        \* bound: control-plane coroutines running at once
  MaxRestart,     \* bound: control-plane restarts
  MayInterrupt,   \* bound: whether the session may be interrupted
  MayLock         \* TRUE for a delegated child, which its parent may lock

ASSUME SessionTurnsAssumption ==
  /\ MaxTurn \in Nat
  /\ Attempts \in Nat \ {0}
  /\ MaxRestart \in Nat
  /\ MayInterrupt \in BOOLEAN
  /\ MayLock \in BOOLEAN
  /\ Handler # {}

VARIABLES
  status,         \* sessions.status
  turns,          \* sessions.turns
  checkpoint,     \* sessions.checkpoint_file_id
  parked,         \* the session's row in pending_launches
  files,          \* checkpoint files that exist
  quiet,          \* TRUE: no session event for RECONCILE_GRACE_MS
  job,            \* the turn's Kubernetes Job
  pod,            \* the turn's runner pod
  wire,           \* deliveries left of the status posts of the turn's pod
  handler,        \* control-plane coroutines
  doomed,         \* files whose best-effort deletion was started, and why
  restarts        \* control-plane restarts so far

rowVars == <<status, turns, checkpoint, parked, quiet>>
clusterVars == <<job, pod, wire>>
vars == <<status, turns, checkpoint, parked, quiet, files, job, pod, wire,
          handler, doomed, restarts>>

Turn == 0..MaxTurn
NoFile == -1
Checkpoint == Turn \union {NoFile}
Launch == [turn : Turn \union {-1}, ckpt : Checkpoint]
NoLaunch == [turn |-> -1, ckpt |-> NoFile]

Status == {"queued", "running", "idle", "failed", "completed"}
InFlight == {"queued", "running"}
Resumable == {"idle", "failed"}

(***************************************************************************)
(* Where a handler stands.  "begun", "prompted" and "taken" carry the      *)
(* right to launch their turn; "reported" has read the checkpoint that its *)
(* update will replace (in ckpt).                                          *)
(***************************************************************************)
HandlerPc ==
  {"free", "read", "begun", "prompted", "parking", "taken", "failing",
   "stopped", "unparked", "idled", "suspect", "zombie", "locking", "reported"}
LaunchPc == {"begun", "prompted", "taken"}
HandlerState == [pc : HandlerPc, turn : Turn \union {-1}, ckpt : Checkpoint]
Free == [pc |-> "free", turn |-> -1, ckpt |-> NoFile]

PodPc == {"none", "created", "starting", "lookup", "retry", "running",
          "salvaged", "reporting", "crashed", "gone"}
Alive == PodPc \ {"none", "created", "gone"}
Pod == [pc : PodPc, env : Checkpoint, saved : Checkpoint]
NoPod == [pc |-> "none", env |-> NoFile, saved |-> NoFile]
Wire == [final : 0..Attempts, crash : 0..Attempts]

JobState(t) ==
  IF job[t] = "live" /\ pod[t].pc \in Alive THEN "active"
  ELSE IF job[t] = "live" THEN "finished" ELSE "missing"

(* appendEvents: an event that the control plane did not write to announce  *)
(* a prompt or a wait counts as the runner reporting in.                    *)
RunnerEvent ==
  /\ status' = IF status = "queued" THEN "running" ELSE status
  /\ quiet' = FALSE
GateEvent ==
  /\ quiet' = FALSE
  /\ UNCHANGED status

Goto(h, pc) == handler' = [handler EXCEPT ![h].pc = pc]
Finish(h) == handler' = [handler EXCEPT ![h] = Free]

(* orchestrator.startSession: the Job is named for its turn, and carries    *)
(* the launch payload in its env.                                           *)
StartJob(l) ==
  /\ job[l.turn] # "live"
  /\ job' = [job EXCEPT ![l.turn] = "live"]
  /\ pod' = [pod EXCEPT ![l.turn] =
       [pc |-> "created", env |-> l.ckpt, saved |-> NoFile]]
-------------------------------------------------------------------------------
(* createSession has inserted the row; its request goes on as turn 0.       *)
Init ==
  /\ status = "queued" /\ turns = 0 /\ checkpoint = NoFile
  /\ parked = NoLaunch
  /\ files = {}
  /\ quiet = FALSE
  /\ job = [t \in Turn |-> "none"]
  /\ pod = [t \in Turn |-> NoPod]
  /\ wire = [t \in Turn |-> [final |-> 0, crash |-> 0]]
  /\ \E c \in Handler :
       handler = [h \in Handler |->
         IF h = c THEN [pc |-> "begun", turn |-> 0, ckpt |-> NoFile] ELSE Free]
  /\ doomed = {}
  /\ restarts = 0

(***************************************************************************)
(* A message: sendMessageAction, startTurn and gatedLaunch.                *)
(***************************************************************************)

(* startTurn reads the session and checks that it accepts a message.        *)
MessageRead(h) ==
  /\ handler[h].pc = "free"
  /\ status \in Resumable
  /\ handler' = [handler EXCEPT ![h] =
       [pc |-> "read", turn |-> -1, ckpt |-> checkpoint]]
  /\ UNCHANGED <<rowVars, files, clusterVars, doomed, restarts>>

(* startTurn's UPDATE has no condition on the status read before.           *)
MessageBegin(h) ==
  /\ handler[h].pc = "read"
  /\ turns < MaxTurn
  /\ turns' = turns + 1
  /\ status' = "queued"
  /\ handler' = [handler EXCEPT ![h].pc = "begun", ![h].turn = turns + 1]
  /\ UNCHANGED <<checkpoint, parked, quiet, files, clusterVars, doomed, restarts>>

(* startTurn throws: the request ends with 409.                             *)
MessageAbort(h) ==
  /\ handler[h].pc = "read"
  /\ Finish(h)
  /\ UNCHANGED <<rowVars, files, clusterVars, doomed, restarts>>

MessagePrompt(h) ==
  /\ handler[h].pc = "begun"
  /\ GateEvent
  /\ Goto(h, "prompted")
  /\ UNCHANGED <<turns, checkpoint, parked, files, clusterVars, doomed, restarts>>

(* The gate's verdict depends on deployments outside this module.           *)
GateLaunch(h) ==
  /\ handler[h].pc = "prompted"
  /\ StartJob(handler[h])
  /\ Finish(h)
  /\ UNCHANGED <<rowVars, files, wire, doomed, restarts>>

GatePark(h) ==
  /\ handler[h].pc = "prompted"
  /\ parked' = [turn |-> handler[h].turn, ckpt |-> handler[h].ckpt]
  /\ Goto(h, "parking")
  /\ UNCHANGED <<status, turns, checkpoint, quiet, files, clusterVars, doomed, restarts>>

GateAnnounceWait(h) ==
  /\ handler[h].pc = "parking"
  /\ GateEvent
  /\ Finish(h)
  /\ UNCHANGED <<turns, checkpoint, parked, files, clusterVars, doomed, restarts>>

GateRefuse(h) ==
  /\ handler[h].pc = "prompted"
  /\ RunnerEvent
  /\ Goto(h, "failing")
  /\ UNCHANGED <<turns, checkpoint, parked, files, clusterVars, doomed, restarts>>

(* The Job could not be created: the request ends with an error, the        *)
(* session stays queued until the reconciler finds it.                      *)
GateError(h) ==
  /\ handler[h].pc = "prompted"
  /\ Finish(h)
  /\ UNCHANGED <<rowVars, files, clusterVars, doomed, restarts>>

(* The second half of every "append session.failed, then set failed".       *)
SetFailed(h) ==
  /\ handler[h].pc = "failing"
  /\ status' = "failed"
  /\ Finish(h)
  /\ UNCHANGED <<turns, checkpoint, parked, quiet, files, clusterVars, doomed, restarts>>

Message(h) ==
  \/ MessageRead(h) \/ MessageBegin(h) \/ MessageAbort(h) \/ MessagePrompt(h)
  \/ GateLaunch(h) \/ GatePark(h) \/ GateAnnounceWait(h)
  \/ GateRefuse(h) \/ GateError(h)

(***************************************************************************)
(* Releasing a parked launch: releasePendingForModel, from the newly-      *)
(* routed hook or from the sweep, or the sweep's verdict that it fails.    *)
(***************************************************************************)

ReleaseTakeKeepsRow(h) ==  \* mutant: SELECT in place of DELETE ... RETURNING
  /\ handler[h].pc = "free"
  /\ parked # NoLaunch
  /\ handler' = [handler EXCEPT ![h] =
       [pc |-> "taken", turn |-> parked.turn, ckpt |-> parked.ckpt]]
  /\ UNCHANGED <<rowVars, files, clusterVars, doomed, restarts>>

(* takePendingLaunches: DELETE ... RETURNING.                               *)
ReleaseTake(h) ==
  /\ handler[h].pc = "free"
  /\ parked # NoLaunch
  /\ handler' = [handler EXCEPT ![h] =
       [pc |-> "taken", turn |-> parked.turn, ckpt |-> parked.ckpt]]
  /\ parked' = NoLaunch
  /\ UNCHANGED <<status, turns, checkpoint, quiet, files, clusterVars, doomed, restarts>>

ReleaseLaunch(h) ==
  /\ handler[h].pc = "taken"
  /\ StartJob(handler[h])
  /\ Finish(h)
  /\ UNCHANGED <<rowVars, files, wire, doomed, restarts>>

(* failWaiting: the launch threw, or the deployment failed or is gone.      *)
ReleaseFail(h) ==
  /\ handler[h].pc = "taken"
  /\ RunnerEvent
  /\ Goto(h, "failing")
  /\ UNCHANGED <<turns, checkpoint, parked, files, clusterVars, doomed, restarts>>

Release(h) == ReleaseTake(h) \/ ReleaseLaunch(h) \/ ReleaseFail(h)

(***************************************************************************)
(* Interrupt, by the user or by the parent of a delegated session.         *)
(***************************************************************************)

(* stopSession deletes every Job of the session; a pod outlives its Job     *)
(* until the kubelet kills it.                                              *)
InterruptStop(h) ==
  /\ MayInterrupt
  /\ handler[h].pc = "free"
  /\ job' = [t \in Turn |-> IF job[t] = "live" THEN "deleted" ELSE job[t]]
  /\ Goto(h, "stopped")
  /\ UNCHANGED <<rowVars, files, pod, wire, doomed, restarts>>

InterruptUnpark(h) ==
  /\ handler[h].pc = "stopped"
  /\ parked' = NoLaunch
  /\ Goto(h, "unparked")
  /\ UNCHANGED <<status, turns, checkpoint, quiet, files, clusterVars, doomed, restarts>>

InterruptIdle(h) ==
  /\ handler[h].pc = "unparked"
  /\ status' = "idle"
  /\ Goto(h, "idled")
  /\ UNCHANGED <<turns, checkpoint, parked, quiet, files, clusterVars, doomed, restarts>>

InterruptRecord(h) ==
  /\ handler[h].pc = "idled"
  /\ RunnerEvent
  /\ Finish(h)
  /\ UNCHANGED <<turns, checkpoint, parked, files, clusterVars, doomed, restarts>>

Interrupt(h) ==
  \/ InterruptStop(h) \/ InterruptUnpark(h)
  \/ InterruptIdle(h) \/ InterruptRecord(h)

(***************************************************************************)
(* The zombie reconciler, for this session.                                *)
(***************************************************************************)

(* listStuckSessions; a session seen alive within the grace window would    *)
(* be kept whatever its Job says, so only the quiet ones go on.             *)
SweepList(h) ==
  /\ handler[h].pc = "free"
  /\ status \in InFlight
  /\ parked = NoLaunch
  /\ quiet
  /\ handler' = [handler EXCEPT ![h] =
       [pc |-> "suspect", turn |-> turns, ckpt |-> NoFile]]
  /\ UNCHANGED <<rowVars, files, clusterVars, doomed, restarts>>

SweepJudgeFinishedLives(h) ==  \* mutant: only a missing Job is a zombie
  /\ handler[h].pc = "suspect"
  /\ IF JobState(handler[h].turn) # "missing" THEN Finish(h) ELSE Goto(h, "zombie")
  /\ UNCHANGED <<rowVars, files, clusterVars, doomed, restarts>>

(* sessionJobState of the turn the list showed, and reconcileDecision.      *)
SweepJudge(h) ==
  /\ handler[h].pc = "suspect"
  /\ IF JobState(handler[h].turn) = "active" THEN Finish(h) ELSE Goto(h, "zombie")
  /\ UNCHANGED <<rowVars, files, clusterVars, doomed, restarts>>

SweepRecord(h) ==
  /\ handler[h].pc = "zombie"
  /\ RunnerEvent
  /\ Goto(h, "failing")
  /\ UNCHANGED <<turns, checkpoint, parked, files, clusterVars, doomed, restarts>>

Sweep(h) == SweepList(h) \/ SweepJudge(h) \/ SweepRecord(h)

(***************************************************************************)
(* A parent locks this session: delegateCompleteAction.                    *)
(***************************************************************************)
LockRead(h) ==
  /\ MayLock
  /\ handler[h].pc = "free"
  /\ status \in Resumable
  /\ Goto(h, "locking")
  /\ UNCHANGED <<rowVars, files, clusterVars, doomed, restarts>>

LockSet(h) ==
  /\ handler[h].pc = "locking"
  /\ status' = "completed"
  /\ Finish(h)
  /\ UNCHANGED <<turns, checkpoint, parked, quiet, files, clusterVars, doomed, restarts>>

(***************************************************************************)
(* The status route.  A final post with a checkpoint first reads the one   *)
(* it is about to replace; the UPDATE itself carries the stale-turn guard. *)
(***************************************************************************)
AnyTurn(t) == TRUE  \* mutant: the UPDATE without "and turns <= $turn"

CurrentTurn(t) == turns <= t

(* Whether the turn ended idle or failed is decided by the turn's content.  *)
SetReported(t, results) ==
  status' \in IF CurrentTurn(t) THEN results ELSE {status}

ReportRead(h, t) ==
  /\ handler[h].pc = "free"
  /\ wire[t].final > 0
  /\ pod[t].saved # NoFile
  /\ wire' = [wire EXCEPT ![t].final = @ - 1]
  /\ handler' = [handler EXCEPT ![h] =
       [pc |-> "reported", turn |-> t, ckpt |-> checkpoint]]
  /\ UNCHANGED <<rowVars, files, job, pod, doomed, restarts>>

ReportApplyOwn(h) ==  \* mutant: a repeated post deletes what it just set
  LET t == handler[h].turn
      saved == pod[t].saved
      prev == handler[h].ckpt
  IN
  /\ handler[h].pc = "reported"
  /\ SetReported(t, Resumable)
  /\ checkpoint' = IF CurrentTurn(t) THEN saved ELSE checkpoint
  /\ doomed' = doomed \union
       (IF CurrentTurn(t)
        THEN IF prev # NoFile THEN {<<prev, "replaced">>} ELSE {}
        ELSE {<<saved, "rejected">>})
  /\ Finish(h)
  /\ UNCHANGED <<turns, parked, quiet, files, clusterVars, restarts>>

ReportApplyKeepsStale(h) ==  \* mutant: a stale post's checkpoint is left
  LET t == handler[h].turn
      saved == pod[t].saved
      prev == handler[h].ckpt
  IN
  /\ handler[h].pc = "reported"
  /\ SetReported(t, Resumable)
  /\ checkpoint' = IF CurrentTurn(t) THEN saved ELSE checkpoint
  /\ doomed' = IF CurrentTurn(t) /\ prev \notin {NoFile, saved}
               THEN doomed \union {<<prev, "replaced">>} ELSE doomed
  /\ Finish(h)
  /\ UNCHANGED <<turns, parked, quiet, files, clusterVars, restarts>>

(* Applied, the post replaces the checkpoint read before; rejected as stale *)
(* it has its own checkpoint deleted.                                       *)
ReportApply(h) ==
  LET t == handler[h].turn
      saved == pod[t].saved
      prev == handler[h].ckpt
  IN
  /\ handler[h].pc = "reported"
  /\ SetReported(t, Resumable)
  /\ checkpoint' = IF CurrentTurn(t) THEN saved ELSE checkpoint
  /\ doomed' = doomed \union
       (IF CurrentTurn(t)
        THEN IF prev \notin {NoFile, saved} THEN {<<prev, "replaced">>} ELSE {}
        ELSE {<<saved, "rejected">>})
  /\ Finish(h)
  /\ UNCHANGED <<turns, parked, quiet, files, clusterVars, restarts>>

(* Without a checkpoint there is nothing to read and nothing to delete.     *)
ReportBare(t) ==
  /\ wire[t].final > 0
  /\ pod[t].saved = NoFile
  /\ wire' = [wire EXCEPT ![t].final = @ - 1]
  /\ SetReported(t, Resumable)
  /\ UNCHANGED <<turns, checkpoint, parked, quiet, files, job, pod, handler,
                 doomed, restarts>>

ReportCrash(t) ==
  /\ wire[t].crash > 0
  /\ wire' = [wire EXCEPT ![t].crash = @ - 1]
  /\ SetReported(t, {"failed"})
  /\ UNCHANGED <<turns, checkpoint, parked, quiet, files, job, pod, handler,
                 doomed, restarts>>

(* deleteFileRecordById and files.del, started but not awaited.             *)
Reclaim ==
  \E d \in doomed :
    /\ files' = files \ {d[1]}
    /\ doomed' = doomed \ {d}
    /\ UNCHANGED <<rowVars, clusterVars, handler, restarts>>

(***************************************************************************)
(* The runner pod of turn t.                                               *)
(***************************************************************************)
PodGoto(t, pc) == pod' = [pod EXCEPT ![t].pc = pc]
PodLeave(t, pc) == pod' = [pod EXCEPT ![t].pc = pc, ![t].env = NoFile]
Restored(t) == PodLeave(t, "running")   \* the env's checkpoint is not read again

(* The Job controller starts the pod: the Job becomes active.               *)
PodStart(t) ==
  /\ pod[t].pc = "created"
  /\ job[t] = "live"
  /\ PodGoto(t, "starting")
  /\ UNCHANGED <<rowVars, files, job, wire, handler, doomed, restarts>>

(* restore_checkpoint: a 404 makes the runner ask for the current one.      *)
PodRestore(t) ==
  /\ pod[t].pc = "starting"
  /\ IF pod[t].env \in files \union {NoFile} THEN Restored(t) ELSE PodGoto(t, "lookup")
  /\ UNCHANGED <<rowVars, files, job, wire, handler, doomed, restarts>>

(* GET /resume names another checkpoint.                                    *)
PodLookup(t) ==
  /\ pod[t].pc = "lookup"
  /\ checkpoint \notin {NoFile, pod[t].env}
  /\ pod' = [pod EXCEPT ![t].pc = "retry", ![t].env = checkpoint]
  /\ RunnerEvent
  /\ UNCHANGED <<turns, checkpoint, parked, files, job, wire, handler, doomed, restarts>>

PodRestoreAgain(t) ==
  /\ pod[t].pc = "retry"
  /\ pod[t].env \in files
  /\ Restored(t)
  /\ UNCHANGED <<rowVars, files, job, wire, handler, doomed, restarts>>

(* Any event of a running turn.                                             *)
PodEmit(t) ==
  /\ pod[t].pc = "running"
  /\ RunnerEvent
  /\ UNCHANGED <<turns, checkpoint, parked, files, clusterVars, handler, doomed, restarts>>

(* run_salvage: the checkpoint upload may fail on its own.                  *)
PodSalvage(t) ==
  /\ pod[t].pc = "running"
  /\ \E saved \in {t, NoFile} :
       /\ pod' = [pod EXCEPT ![t].pc = "salvaged", ![t].saved = saved]
       /\ files' = files \union ({saved} \ {NoFile})
  /\ UNCHANGED <<rowVars, job, wire, handler, doomed, restarts>>

PodReport(t) ==
  /\ pod[t].pc = "salvaged"
  /\ PodGoto(t, "reporting")
  /\ wire' = [wire EXCEPT ![t].final = Attempts]
  /\ UNCHANGED <<rowVars, files, job, handler, doomed, restarts>>

(* The crash handler around main: an event, then a status of its own.       *)
PodCrash(t) ==
  /\ pod[t].pc \in Alive \ {"crashed"}
  /\ PodLeave(t, "crashed")
  /\ RunnerEvent
  /\ UNCHANGED <<turns, checkpoint, parked, files, job, wire, handler, doomed, restarts>>

PodReportCrash(t) ==
  /\ pod[t].pc = "crashed"
  /\ PodLeave(t, "gone")
  /\ wire' = [wire EXCEPT ![t].crash = Attempts]
  /\ UNCHANGED <<rowVars, files, job, handler, doomed, restarts>>

(* Finished, killed with its Job, evicted, or past the turn deadline.       *)
PodEnd(t) ==
  /\ pod[t].pc \in Alive \union {"created"}
  /\ PodLeave(t, "gone")
  /\ UNCHANGED <<rowVars, files, job, wire, handler, doomed, restarts>>

(***************************************************************************)
(* The environment.                                                        *)
(***************************************************************************)

(* The grace window passes without an event.  A launch on its way and the   *)
(* start of a created pod take less than the window.                        *)
Quiet ==
  /\ ~quiet
  /\ \A h \in Handler : handler[h].pc \notin LaunchPc
  /\ \A t \in Turn : ~(job[t] = "live" /\ pod[t].pc = "created")
  /\ quiet' = TRUE
  /\ UNCHANGED <<status, turns, checkpoint, parked, files, clusterVars, handler,
                 doomed, restarts>>

(* The control plane restarts: what its coroutines held is lost.            *)
Restart ==
  /\ restarts < MaxRestart
  /\ restarts' = restarts + 1
  /\ handler' = [h \in Handler |-> Free]
  /\ doomed' = {}
  /\ UNCHANGED <<rowVars, files, clusterVars>>

HandlerNext(h) ==
  \/ Message(h) \/ Release(h) \/ Interrupt(h) \/ Sweep(h) \/ SetFailed(h)
  \/ LockRead(h) \/ LockSet(h)
  \/ \E t \in Turn : ReportRead(h, t)
  \/ ReportApply(h)

PodNext(t) ==
  \/ PodStart(t) \/ PodRestore(t) \/ PodLookup(t) \/ PodRestoreAgain(t)
  \/ PodEmit(t) \/ PodSalvage(t) \/ PodReport(t) \/ PodCrash(t)
  \/ PodReportCrash(t) \/ PodEnd(t)

Next ==
  \/ \E h \in Handler : HandlerNext(h)
  \/ \E t \in Turn : PodNext(t) \/ ReportBare(t) \/ ReportCrash(t)
  \/ Reclaim \/ Quiet \/ Restart

Spec == Init /\ [][Next]_vars

(***************************************************************************)
(* A started coroutine goes on (its awaits are bounded calls that return   *)
(* or throw), the reconciler runs every minute, a pod ends at the latest   *)
(* at activeDeadlineSeconds, and time passes.  Nothing is asked of users,  *)
(* deployments or deliveries.                                              *)
(***************************************************************************)
Continue(h) == handler[h].pc # "free" /\ HandlerNext(h)

Fairness ==
  /\ \A h \in Handler : WF_vars(Continue(h))
  /\ WF_vars(\E h \in Handler : SweepList(h))
  /\ \A t \in Turn : WF_vars(PodEnd(t))
  /\ WF_vars(Quiet)

FairSpec == Spec /\ Fairness
-------------------------------------------------------------------------------
(* Every variable has its type.                                             *)
TypeOK ==
  /\ status \in Status
  /\ turns \in Turn
  /\ checkpoint \in Checkpoint
  /\ parked \in Launch
  /\ files \subseteq Turn
  /\ quiet \in BOOLEAN
  /\ job \in [Turn -> {"none", "live", "deleted"}]
  /\ pod \in [Turn -> Pod]
  /\ wire \in [Turn -> Wire]
  /\ handler \in [Handler -> HandlerState]
  /\ doomed \subseteq Turn \X {"replaced", "rejected"}
  /\ restarts \in 0..MaxRestart

(***************************************************************************)
(* A turn is launched at most once (launch-gate.ts, "so two concurrent     *)
(* triggers never double-launch"): the right to launch it is with one      *)
(* coroutine, or parked, or used up.  This holds although messages race    *)
(* each other, releases, sweeps, interrupts and restarts.                  *)
(***************************************************************************)
Holds(h, t) == handler[h].pc \in LaunchPc /\ handler[h].turn = t

LaunchOnce ==
  \A t \in Turn :
    /\ \A g, h \in Handler : Holds(g, t) /\ Holds(h, t) => g = h
    /\ \A h \in Handler : Holds(h, t) => parked.turn # t /\ job[t] = "none"
    /\ parked.turn = t => job[t] = "none"

(***************************************************************************)
(* Deleting "the checkpoint this update replaces" (setSessionStatus) never *)
(* hits the session's current one, although the id is read before the      *)
(* update and deleted after it.                                            *)
(***************************************************************************)
ReplacedIsNotCurrent == <<checkpoint, "replaced">> \notin doomed

(***************************************************************************)
(* A checkpoint whose status post was handled is never leaked: it is the   *)
(* current one, or its deletion is under way or done.  (While the control  *)
(* plane stays up: a deletion it forgets in a restart is left to           *)
(* maintenance.)                                                           *)
(***************************************************************************)
Handled(f) ==
  /\ wire[f].final \in 1..(Attempts - 1)
  /\ \A h \in Handler : handler[h].pc = "reported" => handler[h].turn # f

NoCheckpointLeaks ==
  restarts = 0 =>
    \A f \in files : Handled(f) =>
      f = checkpoint \/ \E why \in {"replaced", "rejected"} : <<f, why>> \in doomed

(***************************************************************************)
(* A resume never goes back in history: the checkpoint only ever moves to  *)
(* that of a later turn, although posts of interrupted and superseded      *)
(* turns arrive late and twice (setSessionStatus, "a runner pod that       *)
(* outlived an interrupt must not clobber the follow-up turn's state").    *)
(***************************************************************************)
CheckpointMovesForward == [][checkpoint' >= checkpoint]_vars

(* The session implements the ledger of its turns.                          *)
Ledger == INSTANCE TurnLedger WITH launched <- {t \in Turn : job[t] # "none"}
ImplementsLedger == Ledger!Spec

(***************************************************************************)
(* No session stays in flight for ever (reconciler.ts, "it would stay      *)
(* running forever and reject follow-up messages"): whatever dies or is    *)
(* lost, it comes to rest or waits for a deployment.                       *)
(***************************************************************************)
InFlightSettles ==
  status \in InFlight ~> (status \notin InFlight \/ parked # NoLaunch)
===============================================================================
