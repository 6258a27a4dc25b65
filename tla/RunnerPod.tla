------------------------------- MODULE RunnerPod -------------------------------
(***************************************************************************)
(* A runner pod around its agent loop: what it is launched with, what it   *)
(* stages before the loop, what the loop's tools change, and the salvage   *)
(* that writes it back.  The session shares a memory store with others,    *)
(* whose pods write to it at any time.                                     *)
(***************************************************************************)
EXTENDS AgentLoop, FiniteSets

CONSTANTS
  Path,       \* paths of the memory store
  MaxOther    \* bound: writes of the store by other sessions

ASSUME RunnerPodAssumption == MaxOther \in Nat

VARIABLES
  store,      \* the store's entries
  payload,    \* what the Job was created with: memory entries, prior outputs
  memory,     \* /mnt/memory
  baseline,   \* _MEMORY_BASELINE
  outbox,     \* /mnt/session/outputs
  published,  \* the session's output files: <<output, turn that published it>>
  others,     \* writes by other sessions
  touched     \* history: the paths the agent changed in this turn

podVars == <<store, payload, memory, baseline, outbox, published, others, touched>>
vars == <<loopVars, podVars>>

Nothing == <<"nothing", 0>>
Empty == [p \in Path |-> Nothing]
NoPayload == [memory |-> Empty, outputs |-> {}]
Payload == [memory |-> store, outputs |-> {x[1] : x \in published}]

PodInit ==
  /\ Init
  /\ store = Empty /\ payload = NoPayload
  /\ memory = Empty /\ baseline = Empty /\ outbox = {} /\ published = {}
  /\ others = 0 /\ touched = {}

---------------------------------------------------------------------------
(* main(), before the query: any download may fail.  An entry that another  *)
(* session has replaced since the launch may be gone.                       *)

Staged(from, to) ==
  /\ pc = from /\ pc' = to
  /\ UNCHANGED <<turn, history, chars, disk, kept, wrap, tools, budget, subtype, crashed>>

StageSkills == Staged("stageSkills", "stageMemory") /\ UNCHANGED podVars

StageMemory ==
  /\ Staged("stageMemory", "stageFiles")
  /\ memory' = payload.memory /\ baseline' = payload.memory
  /\ UNCHANGED <<store, payload, outbox, published, others, touched>>

StageFilesAsOutputs ==  \* mutant: prior outputs are staged where outputs are collected
  /\ Staged("stageFiles", "start")
  /\ outbox' = payload.outputs
  /\ UNCHANGED <<store, payload, memory, baseline, published, others, touched>>

(* Wikis, attachments, and the outputs of earlier turns, in a directory of  *)
(* their own.                                                               *)
StageFiles == Staged("stageFiles", "start") /\ UNCHANGED podVars

StageFails ==
  /\ pc \in {"boot", "stageSkills", "stageMemory", "stageFiles"}
  /\ Abort /\ UNCHANGED podVars

---------------------------------------------------------------------------
(* What tools do, when the query has any.                                    *)

EditMemory ==
  /\ \E p \in Path, c \in {Nothing, <<"own", turn>>} :
       memory' = [memory EXCEPT ![p] = c] /\ touched' = touched \cup {p}
  /\ UNCHANGED outbox

WriteOutput == outbox' = outbox \cup {turn} /\ UNCHANGED <<memory, touched>>

UseTools ==
  /\ RunTools
  /\ \/ tools /\ (EditMemory \/ WriteOutput)
     \/ UNCHANGED <<memory, touched, outbox>>
  /\ UNCHANGED <<store, payload, baseline, published, others>>

---------------------------------------------------------------------------
(* run_salvage.  Each step may fail, before or after its post took effect.   *)

StepEnds(from, to) == Staged(from, to) \/ (pc = from /\ Abort)

SyncOutputs ==
  /\ StepEnds("syncOutputs", "syncMemory")
  /\ \/ published' = published \cup {<<o, turn>> : o \in outbox}
     \/ UNCHANGED published
  /\ UNCHANGED <<store, payload, memory, baseline, outbox, others, touched>>

ChangedAll == {p \in Path : memory[p] # Nothing}  \* mutant: the whole tree is written
Changed == {p \in Path : memory[p] \notin {Nothing, baseline[p]}}
Removed == {p \in Path : memory[p] = Nothing /\ baseline[p] # Nothing}

(* POST /v1/sessions/:id/memory: one entry after the other, then the        *)
(* deletions.                                                               *)
SyncMemory ==
  /\ StepEnds("syncMemory", "saveCheckpoint")
  /\ \E done \in SUBSET Changed, gone \in {{}, Removed} :
       /\ gone # {} => done = Changed
       /\ store' = [p \in Path |-> IF p \in done THEN memory[p]
                                   ELSE IF p \in gone THEN Nothing ELSE store[p]]
  /\ UNCHANGED <<payload, memory, baseline, outbox, published, others, touched>>

(* The same, of another session's pod; or an entry deleted in the console.  *)
OtherSyncs ==
  /\ others < MaxOther /\ others' = others + 1
  /\ \E p \in Path, c \in {Nothing, <<"other", others>>} : store' = [store EXCEPT ![p] = c]
  /\ UNCHANGED <<loopVars, payload, memory, baseline, outbox, published, touched>>

(* The pod ends, and its directories.                                       *)
Ends(how) ==
  /\ how
  /\ payload' = NoPayload /\ memory' = Empty /\ baseline' = Empty
  /\ outbox' = {} /\ touched' = {}
  /\ UNCHANGED <<store, published, others>>

(* A follow-up: everything the pod is launched with is resolved anew.       *)
Launch ==
  /\ FollowUp
  /\ payload' = Payload
  /\ UNCHANGED <<store, memory, baseline, outbox, published, others, touched>>

---------------------------------------------------------------------------
Run ==
  \/ Loop /\ UNCHANGED podVars
  \/ StageSkills \/ StageMemory \/ StageFiles \/ UseTools \/ SyncOutputs \/ SyncMemory
  \/ Ends(Report)
CallStep == Call /\ UNCHANGED podVars
WindowStep == PatienceEnds /\ UNCHANGED podVars
Fails == (EmitFails \/ ServerBreaksQuery) /\ UNCHANGED podVars

Next == Run \/ CallStep \/ WindowStep \/ Fails \/ StageFails \/ Ends(Evict) \/ OtherSyncs \/ Launch

(***************************************************************************)
(* The pod's process runs, the patient window of a call passes, and an     *)
(* attempt made after it comes back in some way.                           *)
(***************************************************************************)
Fairness == WF_vars(Run) /\ WF_vars(late /\ CallStep) /\ WF_vars(WindowStep)
Spec == PodInit /\ [][Next]_vars /\ Fairness

---------------------------------------------------------------------------
(***************************************************************************)
(* "Only the paths THIS session touched are sent - no blind whole-tree     *)
(* overwrite" (sync_memory_back): what other sessions wrote meanwhile at a *)
(* path this turn's agent left alone stays, whatever the pod had staged.   *)
(***************************************************************************)
UntouchedIsKept ==
  [][others' = others => \A p \in Path : store'[p] # store[p] => p \in touched]_vars

(***************************************************************************)
(* An output is published by the turn that made it and by no later one,    *)
(* though every later pod has it staged (stage_prior_outputs: "would       *)
(* re-publish these as duplicate output files every subsequent turn").     *)
(***************************************************************************)
PublishedOnce == \A x, y \in published : x[1] = y[1] => x = y
================================================================================
