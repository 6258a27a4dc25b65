-------------------------- MODULE SessionTurnsProofs --------------------------
(***************************************************************************)
(* Proofs that the safety properties of SessionTurns hold for every number *)
(* of turns, deliveries, coroutines and restarts.  The inductive invariant *)
(* IInv adds to the properties what each coroutine and pod may rely on.    *)
(***************************************************************************)
EXTENDS SessionTurns, TLAPS

(* Whoever may launch a turn may launch one that was accepted.              *)
RightsAccepted ==
  /\ \A h \in Handler :
       handler[h].pc \in LaunchPc => handler[h].turn \in 0..turns
  /\ parked # NoLaunch => parked.turn \in 0..turns
  /\ \A t \in Turn : job[t] # "none" => t <= turns

WorkDone == {"salvaged", "reporting", "crashed", "gone"}

(* A pod has its turn's Job behind it, and a checkpoint only when it has    *)
(* done its work.                                                           *)
PodsAreLaunched ==
  \A t \in Turn :
    /\ job[t] = "none" => pod[t] = NoPod
    /\ pod[t].saved \in {t, NoFile}
    /\ pod[t].saved # NoFile =>
         pod[t].pc \in WorkDone

(* A status post being handled carries a checkpoint, and read one that was  *)
(* not newer than the current one.                                          *)
ReportsCarry ==
  \A h \in Handler : handler[h].pc = "reported" =>
    /\ handler[h].turn \in Turn
    /\ pod[handler[h].turn].saved # NoFile
    /\ handler[h].ckpt <= checkpoint

(* The current checkpoint is an accepted turn's and newer than every one it *)
(* replaced.                                                                *)
CheckpointIsNewest ==
  /\ checkpoint <= turns
  /\ \A f \in Turn : <<f, "replaced">> \in doomed => f < checkpoint

IInv ==
  /\ TypeOK
  /\ RightsAccepted
  /\ LaunchOnce
  /\ PodsAreLaunched
  /\ ReportsCarry
  /\ CheckpointIsNewest
-------------------------------------------------------------------------------
(* The inductive invariant holds of a session just created.                 *)
LEMMA InitIInv == Init => IInv
  <1> SUFFICES ASSUME Init PROVE IInv
    OBVIOUS
  <1> USE SessionTurnsAssumption
  <1>1. TypeOK
    <2>1. /\ status \in Status /\ turns \in Turn /\ checkpoint \in Checkpoint
          /\ files \subseteq Turn
          /\ restarts \in 0..MaxRestart
      BY DEF Init, Status, Turn, Checkpoint
    <2>9. quiet \in BOOLEAN
      BY DEF Init
    <2>8. doomed \subseteq Turn \X {"replaced", "rejected"}
      BY DEF Init
    <2>2. parked \in Launch
      BY DEF Init, Launch, NoLaunch, Checkpoint
    <2>3. job \in [Turn -> {"none", "live", "deleted"}]
      BY DEF Init
    <2>4. pod \in [Turn -> Pod]
      BY DEF Init, Pod, NoPod, PodPc, Checkpoint
    <2>5. wire \in [Turn -> Wire]
      BY DEF Init, Wire
    <2>6. handler \in [Handler -> HandlerState]
      <3>1. /\ Free \in HandlerState
            /\ [pc |-> "begun", turn |-> 0, ckpt |-> NoFile] \in HandlerState
        BY DEF Free, HandlerState, HandlerPc, Turn, Checkpoint
      <3>2. QED
        BY <3>1 DEF Init
    <2>7. QED
      BY <2>1, <2>2, <2>3, <2>4, <2>5, <2>6, <2>8, <2>9 DEF TypeOK
  <1>2. RightsAccepted
    BY DEF Init, RightsAccepted, LaunchPc, NoLaunch, Turn, Free
  <1>3. LaunchOnce
    BY DEF Init, LaunchOnce, Holds, LaunchPc, NoLaunch, Turn, Free, NoFile
  <1>4. PodsAreLaunched
    BY DEF Init, PodsAreLaunched, NoPod, NoFile
  <1>5. ReportsCarry
    BY DEF Init, ReportsCarry, Free
  <1>6. CheckpointIsNewest
    BY DEF Init, CheckpointIsNewest, NoFile
  <1>7. QED
    BY <1>1, <1>2, <1>3, <1>4, <1>5, <1>6 DEF IInv

(* A post starts with all its deliveries ahead (runner.py, post).           *)
LEMMA WireSent ==
  ASSUME NEW w \in [Turn -> Wire], NEW t \in Turn
  PROVE  /\ [w EXCEPT ![t].final = Attempts] \in [Turn -> Wire]
         /\ [w EXCEPT ![t].crash = Attempts] \in [Turn -> Wire]
  BY SessionTurnsAssumption DEF Wire

(* An answered delivery is one less to come.                                *)
LEMMA WireAnswered ==
  ASSUME NEW w \in [Turn -> Wire], NEW t \in Turn
  PROVE  /\ w[t].final > 0 => [w EXCEPT ![t].final = @ - 1] \in [Turn -> Wire]
         /\ w[t].crash > 0 => [w EXCEPT ![t].crash = @ - 1] \in [Turn -> Wire]
  BY SessionTurnsAssumption DEF Wire

(* A pod that leaves a phase of its turn is still a pod.                    *)
LEMMA PodMoved ==
  ASSUME NEW p \in [Turn -> Pod], NEW t \in Turn, NEW pc \in PodPc
  PROVE  /\ [p EXCEPT ![t].pc = pc] \in [Turn -> Pod]
         /\ [p EXCEPT ![t].pc = pc, ![t].env = NoFile] \in [Turn -> Pod]
         /\ \A c \in {t, NoFile} :
              [p EXCEPT ![t].pc = pc, ![t].saved = c] \in [Turn -> Pod]
  <1> DEFINE left(k) == [p[k] EXCEPT !.pc = pc, !.env = NoFile]
             filed(k, c) == [p[k] EXCEPT !.pc = pc, !.saved = c]
  <1>1. left(t) \in Pod
    BY DEF Pod, Checkpoint, NoFile
  <1>2. ASSUME NEW c \in {t, NoFile} PROVE filed(t, c) \in Pod
    BY DEF Pod, Turn, Checkpoint, NoFile
  <1>3. [p EXCEPT ![t].pc = pc, ![t].env = NoFile] = [p EXCEPT ![t] = left(t)]
    BY DEF Pod
  <1>4. ASSUME NEW c \in {t, NoFile}
        PROVE  [p EXCEPT ![t].pc = pc, ![t].saved = c] = [p EXCEPT ![t] = filed(t, c)]
    BY DEF Pod
  <1> HIDE DEF left, filed
  <1>5. [p EXCEPT ![t] = left(t)] \in [Turn -> Pod]
    BY <1>1
  <1>6. ASSUME NEW c \in {t, NoFile}
        PROVE  [p EXCEPT ![t] = filed(t, c)] \in [Turn -> Pod]
    BY <1>2
  <1>7. [p EXCEPT ![t].pc = pc] \in [Turn -> Pod]
    <2>1. [p[t] EXCEPT !.pc = pc] \in Pod
      BY DEF Pod
    <2>2. QED
      BY <2>1 DEF Pod
  <1>8. QED
    BY <1>3, <1>4, <1>5, <1>6, <1>7

(* A coroutine that moves on is still one.                                  *)
LEMMA HandlerMoved ==
  ASSUME NEW w \in [Handler -> HandlerState], NEW h \in Handler,
         NEW pc \in HandlerPc
  PROVE  /\ [w EXCEPT ![h].pc = pc] \in [Handler -> HandlerState]
         /\ \A t \in Turn :
              [w EXCEPT ![h].pc = pc, ![h].turn = t] \in [Handler -> HandlerState]
  <1> DEFINE moved == [w[h] EXCEPT !.pc = pc]
             begun(t) == [w[h] EXCEPT !.pc = pc, !.turn = t]
  <1>1. moved \in HandlerState
    BY DEF HandlerState
  <1>2. ASSUME NEW t \in Turn PROVE begun(t) \in HandlerState
    BY DEF HandlerState
  <1>3. [w EXCEPT ![h].pc = pc] = [w EXCEPT ![h] = moved]
    BY DEF HandlerState
  <1>4. ASSUME NEW t \in Turn
        PROVE  [w EXCEPT ![h].pc = pc, ![h].turn = t] = [w EXCEPT ![h] = begun(t)]
    BY DEF HandlerState
  <1> HIDE DEF moved, begun
  <1>5. [w EXCEPT ![h] = moved] \in [Handler -> HandlerState]
    BY <1>1
  <1>6. ASSUME NEW t \in Turn
        PROVE  [w EXCEPT ![h] = begun(t)] \in [Handler -> HandlerState]
    BY <1>2
  <1>7. QED
    BY <1>3, <1>4, <1>5, <1>6

(* Every step keeps the types.                                              *)
LEMMA TypeStep ==
  ASSUME TypeOK, ReportsCarry, [Next]_vars
  PROVE  TypeOK'
  <1> USE SessionTurnsAssumption DEF Turn, Checkpoint, NoFile

  <1>1. ASSUME NEW h \in Handler, MessageRead(h) PROVE TypeOK'
    BY <1>1 DEF MessageRead, TypeOK, rowVars, clusterVars, HandlerState,
      HandlerPc
  <1>2. ASSUME NEW h \in Handler, MessageBegin(h) PROVE TypeOK'
    <2>1. turns' \in Turn
      BY <1>2 DEF MessageBegin, TypeOK
    <2>2. handler' \in [Handler -> HandlerState]
      BY <1>2, <2>1, HandlerMoved DEF MessageBegin, TypeOK, HandlerPc
    <2>3. QED
      BY <1>2, <2>1, <2>2 DEF MessageBegin, TypeOK, rowVars, clusterVars, Status
  <1>3. ASSUME NEW h \in Handler, MessageAbort(h) PROVE TypeOK'
    BY <1>3 DEF MessageAbort, Finish, Free, TypeOK, rowVars, clusterVars,
      HandlerState, HandlerPc
  <1>4. ASSUME NEW h \in Handler, MessagePrompt(h) PROVE TypeOK'
    <2>1. handler' \in [Handler -> HandlerState]
      BY <1>4, HandlerMoved DEF MessagePrompt, Goto, TypeOK, HandlerPc
    <2>2. QED
      BY <1>4, <2>1 DEF MessagePrompt, GateEvent, TypeOK, rowVars, clusterVars
  <1>5. ASSUME NEW h \in Handler, GateLaunch(h) PROVE TypeOK'
    BY <1>5 DEF GateLaunch, StartJob, Finish, Free, TypeOK, rowVars,
      clusterVars, HandlerState, HandlerPc, Pod, PodPc, NoPod
  <1>6. ASSUME NEW h \in Handler, GatePark(h) PROVE TypeOK'
    BY <1>6 DEF GatePark, Goto, Launch, TypeOK, rowVars, clusterVars,
      HandlerState, HandlerPc
  <1>7. ASSUME NEW h \in Handler, GateAnnounceWait(h) PROVE TypeOK'
    BY <1>7 DEF GateAnnounceWait, GateEvent, Finish, Free, TypeOK, rowVars,
      clusterVars, HandlerState, HandlerPc
  <1>8. ASSUME NEW h \in Handler, GateRefuse(h) PROVE TypeOK'
    <2>1. handler' \in [Handler -> HandlerState]
      BY <1>8, HandlerMoved DEF GateRefuse, Goto, TypeOK, HandlerPc
    <2>2. QED
      BY <1>8, <2>1 DEF GateRefuse, RunnerEvent, Status, TypeOK, rowVars, clusterVars
  <1>9. ASSUME NEW h \in Handler, GateError(h) PROVE TypeOK'
    BY <1>9 DEF GateError, Finish, Free, TypeOK, rowVars, clusterVars,
      HandlerState, HandlerPc
  <1>10. ASSUME NEW h \in Handler, SetFailed(h) PROVE TypeOK'
    BY <1>10 DEF SetFailed, Finish, Free, Status, TypeOK, rowVars,
      clusterVars, HandlerState, HandlerPc
  <1>11. ASSUME NEW h \in Handler, ReleaseTake(h) PROVE TypeOK'
    BY <1>11 DEF ReleaseTake, Launch, NoLaunch, TypeOK, rowVars, clusterVars,
      HandlerState, HandlerPc
  <1>12. ASSUME NEW h \in Handler, ReleaseLaunch(h) PROVE TypeOK'
    BY <1>12 DEF ReleaseLaunch, StartJob, Finish, Free, TypeOK, rowVars,
      clusterVars, HandlerState, HandlerPc, Pod, PodPc, NoPod
  <1>13. ASSUME NEW h \in Handler, ReleaseFail(h) PROVE TypeOK'
    <2>1. handler' \in [Handler -> HandlerState]
      BY <1>13, HandlerMoved DEF ReleaseFail, Goto, TypeOK, HandlerPc
    <2>2. QED
      BY <1>13, <2>1 DEF ReleaseFail, RunnerEvent, Status, TypeOK, clusterVars
  <1>14. ASSUME NEW h \in Handler, InterruptStop(h) PROVE TypeOK'
    <2>1. handler' \in [Handler -> HandlerState]
      BY <1>14, HandlerMoved DEF InterruptStop, Goto, TypeOK, HandlerPc
    <2>2. QED
      BY <1>14, <2>1 DEF InterruptStop, TypeOK, rowVars, clusterVars
  <1>15. ASSUME NEW h \in Handler, InterruptUnpark(h) PROVE TypeOK'
    <2>1. handler' \in [Handler -> HandlerState]
      BY <1>15, HandlerMoved DEF InterruptUnpark, Goto, TypeOK, HandlerPc
    <2>2. QED
      BY <1>15, <2>1 DEF InterruptUnpark, Launch, NoLaunch, TypeOK, rowVars, clusterVars
  <1>16. ASSUME NEW h \in Handler, InterruptIdle(h) PROVE TypeOK'
    <2>1. handler' \in [Handler -> HandlerState]
      BY <1>16, HandlerMoved DEF InterruptIdle, Goto, TypeOK, HandlerPc
    <2>2. QED
      BY <1>16, <2>1 DEF InterruptIdle, Status, TypeOK, clusterVars
  <1>17. ASSUME NEW h \in Handler, InterruptRecord(h) PROVE TypeOK'
    BY <1>17 DEF InterruptRecord, RunnerEvent, Finish, Free, Status, TypeOK,
      rowVars, clusterVars, HandlerState, HandlerPc
  <1>18. ASSUME NEW h \in Handler, SweepList(h) PROVE TypeOK'
    BY <1>18 DEF SweepList, TypeOK, rowVars, clusterVars, HandlerState,
      HandlerPc
  <1>19. ASSUME NEW h \in Handler, SweepJudge(h) PROVE TypeOK'
    <2>1. handler' \in [Handler -> HandlerState]
      <3>1. CASE Finish(h)
        BY <3>1 DEF Finish, Free, TypeOK, HandlerState, HandlerPc
      <3>2. CASE Goto(h, "zombie")
        BY <3>2, HandlerMoved DEF Goto, TypeOK, HandlerPc
      <3>3. QED
        BY <1>19, <3>1, <3>2 DEF SweepJudge
    <2>2. QED
      BY <1>19, <2>1 DEF SweepJudge, TypeOK, rowVars, clusterVars
  <1>20. ASSUME NEW h \in Handler, SweepRecord(h) PROVE TypeOK'
    <2>1. handler' \in [Handler -> HandlerState]
      BY <1>20, HandlerMoved DEF SweepRecord, Goto, TypeOK, HandlerPc
    <2>2. QED
      BY <1>20, <2>1 DEF SweepRecord, RunnerEvent, Status, TypeOK, clusterVars
  <1>21. ASSUME NEW h \in Handler, LockRead(h) PROVE TypeOK'
    <2>1. handler' \in [Handler -> HandlerState]
      BY <1>21, HandlerMoved DEF LockRead, Goto, TypeOK, HandlerPc
    <2>2. QED
      BY <1>21, <2>1 DEF LockRead, TypeOK, rowVars, clusterVars
  <1>22. ASSUME NEW h \in Handler, LockSet(h) PROVE TypeOK'
    BY <1>22 DEF LockSet, Finish, Free, Status, TypeOK, rowVars, clusterVars,
      HandlerState, HandlerPc
  <1>23. ASSUME NEW h \in Handler, NEW t \in Turn, ReportRead(h, t) PROVE TypeOK'
    <2>1. wire' \in [Turn -> Wire]
      BY <1>23, WireAnswered DEF ReportRead, TypeOK
    <2>2. handler' \in [Handler -> HandlerState]
      BY <1>23 DEF ReportRead, TypeOK, HandlerState, HandlerPc
    <2>3. QED
      BY <1>23, <2>1, <2>2 DEF ReportRead, TypeOK, rowVars
  <1>24. ASSUME NEW h \in Handler, ReportApply(h) PROVE TypeOK'
    BY <1>24 DEF ReportApply, CurrentTurn, SetReported, Finish, Free,
      ReportsCarry,
      Pod, Status, Resumable, TypeOK, rowVars, clusterVars, HandlerState, HandlerPc
  <1>25. ASSUME NEW t \in Turn, ReportBare(t) PROVE TypeOK'
    <2>1. wire' \in [Turn -> Wire]
      BY <1>25, WireAnswered DEF ReportBare, TypeOK
    <2>2. QED
      BY <1>25, <2>1 DEF ReportBare, CurrentTurn, SetReported, Status,
        Resumable, TypeOK
  <1>26. ASSUME NEW t \in Turn, ReportCrash(t) PROVE TypeOK'
    <2>1. wire' \in [Turn -> Wire]
      BY <1>26, WireAnswered DEF ReportCrash, TypeOK
    <2>2. QED
      BY <1>26, <2>1 DEF ReportCrash, CurrentTurn, SetReported, Status, TypeOK
  <1>27. ASSUME Reclaim PROVE TypeOK'
    BY <1>27 DEF Reclaim, TypeOK, rowVars, clusterVars
  <1>28. ASSUME NEW t \in Turn, PodStart(t) PROVE TypeOK'
    <2>1. pod' \in [Turn -> Pod]
      BY <1>28, PodMoved DEF PodStart, PodGoto, TypeOK, PodPc
    <2>2. QED
      BY <1>28, <2>1 DEF PodStart, TypeOK, rowVars
  <1>29. ASSUME NEW t \in Turn, PodRestore(t) PROVE TypeOK'
    <2>1. pod' \in [Turn -> Pod]
      <3>1. CASE Restored(t)
        BY <3>1, PodMoved DEF Restored, PodLeave, TypeOK, PodPc
      <3>2. CASE PodGoto(t, "lookup")
        BY <3>2, PodMoved DEF PodGoto, TypeOK, PodPc
      <3>3. QED
        BY <1>29, <3>1, <3>2 DEF PodRestore
    <2>2. QED
      BY <1>29, <2>1 DEF PodRestore, TypeOK, rowVars
  <1>30. ASSUME NEW t \in Turn, PodLookup(t) PROVE TypeOK'
    BY <1>30 DEF PodLookup, RunnerEvent, Status, Pod, PodPc, TypeOK, rowVars,
      clusterVars
  <1>31. ASSUME NEW t \in Turn, PodRestoreAgain(t) PROVE TypeOK'
    <2>1. pod' \in [Turn -> Pod]
      BY <1>31, PodMoved DEF PodRestoreAgain, Restored, PodLeave, TypeOK, PodPc
    <2>2. QED
      BY <1>31, <2>1 DEF PodRestoreAgain, TypeOK, rowVars
  <1>32. ASSUME NEW t \in Turn, PodEmit(t) PROVE TypeOK'
    BY <1>32 DEF PodEmit, RunnerEvent, Status, TypeOK, rowVars, clusterVars
  <1>33. ASSUME NEW t \in Turn, PodSalvage(t) PROVE TypeOK'
    <2>1. PICK saved \in {t, NoFile} :
            /\ pod' = [pod EXCEPT ![t].pc = "salvaged", ![t].saved = saved]
            /\ files' = files \union ({saved} \ {NoFile})
      BY <1>33 DEF PodSalvage
    <2>2. pod' \in [Turn -> Pod]
      BY <2>1, PodMoved DEF TypeOK, PodPc
    <2>3. files' \subseteq Turn
      BY <2>1 DEF TypeOK
    <2>4. QED
      BY <1>33, <2>2, <2>3 DEF PodSalvage, TypeOK, rowVars, clusterVars
  <1>34. ASSUME NEW t \in Turn, PodReport(t) PROVE TypeOK'
    <2>1. wire' \in [Turn -> Wire]
      BY <1>34, WireSent DEF PodReport, TypeOK
    <2>2. pod' \in [Turn -> Pod]
      BY <1>34, PodMoved DEF PodReport, PodGoto, TypeOK, PodPc
    <2>3. QED
      BY <1>34, <2>1, <2>2 DEF PodReport, TypeOK, rowVars
  <1>35. ASSUME NEW t \in Turn, PodCrash(t) PROVE TypeOK'
    <2>1. pod' \in [Turn -> Pod]
      BY <1>35, PodMoved DEF PodCrash, PodLeave, TypeOK, PodPc
    <2>2. QED
      BY <1>35, <2>1 DEF PodCrash, RunnerEvent, Status, TypeOK
  <1>36. ASSUME NEW t \in Turn, PodReportCrash(t) PROVE TypeOK'
    <2>1. wire' \in [Turn -> Wire]
      BY <1>36, WireSent DEF PodReportCrash, TypeOK
    <2>2. pod' \in [Turn -> Pod]
      BY <1>36, PodMoved DEF PodReportCrash, PodLeave, TypeOK, PodPc
    <2>3. QED
      BY <1>36, <2>1, <2>2 DEF PodReportCrash, TypeOK, rowVars
  <1>37. ASSUME NEW t \in Turn, PodEnd(t) PROVE TypeOK'
    <2>1. pod' \in [Turn -> Pod]
      BY <1>37, PodMoved DEF PodEnd, PodLeave, TypeOK, PodPc
    <2>2. QED
      BY <1>37, <2>1 DEF PodEnd, TypeOK, rowVars
  <1>38. ASSUME Quiet PROVE TypeOK'
    BY <1>38 DEF Quiet, TypeOK, rowVars, clusterVars
  <1>39. ASSUME Restart PROVE TypeOK'
    BY <1>39 DEF Restart, Free, TypeOK, rowVars, clusterVars, HandlerState,
      HandlerPc
  <1>40. CASE UNCHANGED vars
    BY <1>40 DEF vars, TypeOK
  <1>41. QED
    BY <1>1, <1>2, <1>3, <1>4, <1>5, <1>6, <1>7, <1>8, <1>9, <1>10, <1>11,
      <1>12, <1>13, <1>14, <1>15, <1>16, <1>17, <1>18, <1>19, <1>20, <1>21,
      <1>22, <1>23, <1>24, <1>25, <1>26, <1>27, <1>28, <1>29, <1>30, <1>31,
      <1>32, <1>33, <1>34, <1>35, <1>36, <1>37, <1>38, <1>39, <1>40
      DEF Next, HandlerNext, Message, Release, Interrupt, Sweep, PodNext
-------------------------------------------------------------------------------
(***************************************************************************)
(* Most steps leave alone what the invariants are about: they give no one  *)
(* a turn to launch or a post to apply, and lose no saved checkpoint.      *)
(***************************************************************************)
HandlersKeep ==
  \A h \in Handler :
    /\ handler'[h].pc \in LaunchPc =>
         handler[h].pc \in LaunchPc /\ handler'[h].turn = handler[h].turn
    /\ handler'[h].pc = "reported" => handler'[h] = handler[h]

PodsKeep ==
  \A t \in Turn :
    /\ pod[t] = NoPod => pod'[t] = NoPod
    /\ pod'[t].saved = pod[t].saved
    /\ pod[t].pc \in WorkDone => pod'[t].pc \in WorkDone

FilesKeep ==
  /\ files' \subseteq files
  /\ \A t \in Turn :
       /\ wire'[t].final > 0 => wire[t].final > 0 \/ pod'[t].pc \in WorkDone
       /\ wire'[t].final \in {wire[t].final, Attempts} \/ pod[t].saved = NoFile
  /\ restarts' = 0 =>
       /\ restarts = 0
       /\ \A d \in doomed : d[1] \in files' => d \in doomed'
       /\ \A h \in Handler : handler[h].pc = "reported" => handler'[h] = handler[h]

Routine ==
  /\ UNCHANGED <<turns, checkpoint>>
  /\ parked' \in {parked, NoLaunch}
  /\ \A t \in Turn : job'[t] = "none" <=> job[t] = "none"
  /\ PodsKeep
  /\ HandlersKeep
  /\ FilesKeep
  /\ doomed' \subseteq doomed

(* Every step is routine but those of eight actions.                        *)
LEMMA StepKinds ==
  ASSUME TypeOK, [Next]_vars
  PROVE  \/ Routine
         \/ \E h \in Handler :
              \/ MessageBegin(h) \/ GateLaunch(h) \/ GatePark(h)
              \/ ReleaseTake(h) \/ ReleaseLaunch(h) \/ ReportApply(h)
              \/ \E t \in Turn : ReportRead(h, t)
         \/ \E t \in Turn : PodSalvage(t)
  <1> USE SessionTurnsAssumption DEF Routine, TypeOK, rowVars, clusterVars
  <1>1. ASSUME NEW h \in Handler, MessageRead(h) PROVE Routine
    BY <1>1 DEF MessageRead, HandlersKeep, PodsKeep, FilesKeep, LaunchPc,
      HandlerState
  <1>2. ASSUME NEW h \in Handler, MessageAbort(h) PROVE Routine
    BY <1>2 DEF MessageAbort, Finish, Free, HandlersKeep, PodsKeep, FilesKeep,
      LaunchPc, HandlerState
  <1>3. ASSUME NEW h \in Handler, MessagePrompt(h) PROVE Routine
    BY <1>3 DEF MessagePrompt, GateEvent, Goto, HandlersKeep, PodsKeep,
      FilesKeep, LaunchPc, HandlerState
  <1>4. ASSUME NEW h \in Handler, GateAnnounceWait(h) PROVE Routine
    BY <1>4 DEF GateAnnounceWait, GateEvent, Finish, Free, HandlersKeep,
      PodsKeep, FilesKeep, LaunchPc, HandlerState
  <1>5. ASSUME NEW h \in Handler, GateRefuse(h) PROVE Routine
    BY <1>5 DEF GateRefuse, RunnerEvent, Goto, HandlersKeep, PodsKeep,
      FilesKeep, LaunchPc, HandlerState
  <1>6. ASSUME NEW h \in Handler, GateError(h) PROVE Routine
    BY <1>6 DEF GateError, Finish, Free, HandlersKeep, PodsKeep, FilesKeep,
      LaunchPc, HandlerState
  <1>7. ASSUME NEW h \in Handler, SetFailed(h) PROVE Routine
    BY <1>7 DEF SetFailed, Finish, Free, HandlersKeep, PodsKeep, FilesKeep,
      LaunchPc, HandlerState
  <1>8. ASSUME NEW h \in Handler, ReleaseFail(h) PROVE Routine
    BY <1>8 DEF ReleaseFail, RunnerEvent, Goto, HandlersKeep, PodsKeep,
      FilesKeep, LaunchPc, HandlerState
  <1>9. ASSUME NEW h \in Handler, InterruptStop(h) PROVE Routine
    BY <1>9 DEF InterruptStop, Goto, HandlersKeep, PodsKeep, FilesKeep,
      LaunchPc, HandlerState
  <1>10. ASSUME NEW h \in Handler, InterruptUnpark(h) PROVE Routine
    BY <1>10 DEF InterruptUnpark, Goto, HandlersKeep, PodsKeep, FilesKeep,
      LaunchPc, HandlerState
  <1>11. ASSUME NEW h \in Handler, InterruptIdle(h) PROVE Routine
    BY <1>11 DEF InterruptIdle, Goto, HandlersKeep, PodsKeep, FilesKeep,
      LaunchPc, HandlerState
  <1>12. ASSUME NEW h \in Handler, InterruptRecord(h) PROVE Routine
    BY <1>12 DEF InterruptRecord, RunnerEvent, Finish, Free, HandlersKeep,
      PodsKeep, FilesKeep, LaunchPc, HandlerState
  <1>13. ASSUME NEW h \in Handler, SweepList(h) PROVE Routine
    BY <1>13 DEF SweepList, HandlersKeep, PodsKeep, FilesKeep, LaunchPc,
      HandlerState
  <1>14. ASSUME NEW h \in Handler, SweepJudge(h) PROVE Routine
    BY <1>14 DEF SweepJudge, Goto, Finish, Free, HandlersKeep, PodsKeep,
      FilesKeep, LaunchPc, HandlerState
  <1>15. ASSUME NEW h \in Handler, SweepRecord(h) PROVE Routine
    BY <1>15 DEF SweepRecord, RunnerEvent, Goto, HandlersKeep, PodsKeep,
      FilesKeep, LaunchPc, HandlerState
  <1>16. ASSUME NEW h \in Handler, LockRead(h) PROVE Routine
    BY <1>16 DEF LockRead, Goto, HandlersKeep, PodsKeep, FilesKeep, LaunchPc,
      HandlerState
  <1>17. ASSUME NEW h \in Handler, LockSet(h) PROVE Routine
    BY <1>17 DEF LockSet, Finish, Free, HandlersKeep, PodsKeep, FilesKeep,
      LaunchPc, HandlerState
  <1>18. ASSUME NEW t \in Turn, ReportBare(t) PROVE Routine
    BY <1>18 DEF ReportBare, HandlersKeep, PodsKeep, FilesKeep, WorkDone,
      NoPod, Pod
  <1>19. ASSUME NEW t \in Turn, ReportCrash(t) PROVE Routine
    BY <1>19 DEF ReportCrash, HandlersKeep, PodsKeep, FilesKeep, WorkDone,
      NoPod, Pod
  <1>20. ASSUME NEW t \in Turn, PodStart(t) PROVE Routine
    BY <1>20 DEF PodStart, PodGoto, HandlersKeep, PodsKeep, FilesKeep,
      WorkDone, NoPod, Pod
  <1>21. ASSUME NEW t \in Turn, PodRestore(t) PROVE Routine
    BY <1>21 DEF PodRestore, Restored, PodGoto, PodLeave, HandlersKeep,
      PodsKeep, FilesKeep, WorkDone, NoPod, Pod
  <1>22. ASSUME NEW t \in Turn, PodLookup(t) PROVE Routine
    BY <1>22 DEF PodLookup, RunnerEvent, HandlersKeep, PodsKeep, FilesKeep,
      WorkDone, NoPod, Pod
  <1>23. ASSUME NEW t \in Turn, PodRestoreAgain(t) PROVE Routine
    BY <1>23 DEF PodRestoreAgain, Restored, PodLeave, HandlersKeep, PodsKeep,
      FilesKeep, WorkDone, NoPod, Pod
  <1>24. ASSUME NEW t \in Turn, PodEmit(t) PROVE Routine
    BY <1>24 DEF PodEmit, RunnerEvent, HandlersKeep, PodsKeep, FilesKeep,
      WorkDone, NoPod, Pod
  <1>25. ASSUME NEW t \in Turn, PodReport(t) PROVE Routine
    BY <1>25 DEF PodReport, PodGoto, HandlersKeep, PodsKeep, FilesKeep,
      WorkDone, NoPod, Pod
  <1>26. ASSUME NEW t \in Turn, PodCrash(t) PROVE Routine
    BY <1>26 DEF PodCrash, PodLeave, RunnerEvent, Alive, HandlersKeep,
      PodsKeep, FilesKeep, WorkDone, NoPod, Pod
  <1>27. ASSUME NEW t \in Turn, PodReportCrash(t) PROVE Routine
    BY <1>27 DEF PodReportCrash, PodLeave, HandlersKeep, PodsKeep, FilesKeep,
      WorkDone, NoPod, Pod
  <1>28. ASSUME NEW t \in Turn, PodEnd(t) PROVE Routine
    BY <1>28 DEF PodEnd, PodLeave, Alive, HandlersKeep, PodsKeep, FilesKeep,
      WorkDone, NoPod, Pod
  <1>29. ASSUME Reclaim PROVE Routine
    BY <1>29 DEF Reclaim, HandlersKeep, PodsKeep, FilesKeep
  <1>30. ASSUME Quiet PROVE Routine
    BY <1>30 DEF Quiet, HandlersKeep, PodsKeep, FilesKeep
  <1>31. ASSUME Restart PROVE Routine
    BY <1>31 DEF Restart, HandlersKeep, PodsKeep, FilesKeep, Free, LaunchPc
  <1>32. ASSUME UNCHANGED vars PROVE Routine
    BY <1>32 DEF vars, HandlersKeep, PodsKeep, FilesKeep
  <1>33. QED
    BY <1>1, <1>2, <1>3, <1>4, <1>5, <1>6, <1>7, <1>8, <1>9, <1>10, <1>11,
      <1>12, <1>13, <1>14, <1>15, <1>16, <1>17, <1>18, <1>19, <1>20, <1>21,
      <1>22, <1>23, <1>24, <1>25, <1>26, <1>27, <1>28, <1>29, <1>30, <1>31,
      <1>32
      DEF Next, HandlerNext, Message, Release, Interrupt, Sweep, PodNext
-------------------------------------------------------------------------------
(* What the two launching steps do.                                         *)
LEMMA LaunchStep ==
  ASSUME TypeOK, RightsAccepted, LaunchOnce,
         NEW h \in Handler, GateLaunch(h) \/ ReleaseLaunch(h)
  PROVE  \E t \in 0..turns :
           /\ Holds(h, t)
           /\ job[t] = "none"
           /\ job' = [job EXCEPT ![t] = "live"]
           /\ \E c \in Checkpoint :
                pod' = [pod EXCEPT ![t] = [pc |-> "created", env |-> c, saved |-> NoFile]]
           /\ handler' = [handler EXCEPT ![h] = Free]
           /\ UNCHANGED <<status, turns, checkpoint, parked, files, wire, doomed, restarts>>
  <1>1. handler[h].turn \in 0..turns /\ Holds(h, handler[h].turn)
    BY DEF GateLaunch, ReleaseLaunch, RightsAccepted, LaunchPc, Holds
  <1>2. handler[h].ckpt \in Checkpoint
    BY DEF TypeOK, HandlerState
  <1>3. StartJob(handler[h]) /\ Finish(h)
    BY DEF GateLaunch, ReleaseLaunch
  <1>4. UNCHANGED <<status, turns, checkpoint, parked, files, wire, doomed, restarts>>
    BY DEF GateLaunch, ReleaseLaunch, rowVars
  <1>5. pod' = [pod EXCEPT ![handler[h].turn] =
                  [pc |-> "created", env |-> handler[h].ckpt, saved |-> NoFile]]
    BY <1>3 DEF StartJob
  <1>6. /\ job[handler[h].turn] = "none"
        /\ job' = [job EXCEPT ![handler[h].turn] = "live"]
        /\ handler' = [handler EXCEPT ![h] = Free]
    <2>1. handler[h].turn \in Turn
      BY <1>1, SessionTurnsAssumption DEF TypeOK, Turn
    <2>2. QED
      BY <1>1, <1>3, <2>1 DEF LaunchOnce, StartJob, Finish
  <1>7. QED
    BY <1>1, <1>2, <1>4, <1>5, <1>6

(* The right to launch a turn is created with the turn, handed on between   *)
(* coroutines and the parked row, and used up by the launch.                *)
LEMMA RightsStep ==
  ASSUME TypeOK, RightsAccepted, LaunchOnce, [Next]_vars
  PROVE  RightsAccepted' /\ LaunchOnce'
  <1> USE SessionTurnsAssumption
      DEF TypeOK, RightsAccepted, LaunchOnce, Holds, Turn, NoFile
  <1>1. ASSUME Routine
        PROVE  RightsAccepted' /\ LaunchOnce'
    <2>1. \A h \in Handler, t \in Turn : Holds(h, t)' => Holds(h, t)
      BY <1>1 DEF Routine, HandlersKeep
    <2>2. \A t \in Turn : parked'.turn = t => parked.turn = t
      BY <1>1 DEF Routine, NoLaunch
    <2>3. \A t \in Turn : job'[t] = "none" <=> job[t] = "none"
      BY <1>1 DEF Routine
    <2>4. RightsAccepted'
      BY <1>1, <2>3 DEF Routine, HandlersKeep, NoLaunch
    <2>5. LaunchOnce'
      BY <2>1, <2>2, <2>3 DEF LaunchOnce
    <2>6. QED
      BY <2>4, <2>5
  <1>2. ASSUME NEW h \in Handler, MessageBegin(h)
        PROVE  RightsAccepted' /\ LaunchOnce'
    BY <1>2 DEF MessageBegin, clusterVars, HandlerState, Launch, NoLaunch,
      LaunchPc
  <1>3. ASSUME NEW h \in Handler, GateLaunch(h) \/ ReleaseLaunch(h)
        PROVE  RightsAccepted' /\ LaunchOnce'
    <2>1. PICK t \in 0..turns :
            /\ Holds(h, t)
            /\ job' = [job EXCEPT ![t] = "live"]
            /\ handler' = [handler EXCEPT ![h] = Free]
            /\ UNCHANGED <<turns, parked>>
      BY <1>3, LaunchStep
    <2>2. \A g \in Handler, u \in Turn : Holds(g, u)' => g # h /\ u # t /\ Holds(g, u)
      BY <2>1 DEF Free, LaunchPc
    <2>3. \A u \in Turn : job'[u] = IF u = t THEN "live" ELSE job[u]
      BY <2>1
    <2>4. RightsAccepted'
      BY <2>1, <2>3 DEF Free, LaunchPc
    <2>5. LaunchOnce'
      BY <2>1, <2>2, <2>3
    <2>6. QED
      BY <2>4, <2>5
  <1>4. ASSUME NEW h \in Handler, GatePark(h)
        PROVE  RightsAccepted' /\ LaunchOnce'
    BY <1>4 DEF GatePark, Goto, clusterVars, HandlerState, Launch, NoLaunch,
      LaunchPc
  <1>5. ASSUME NEW h \in Handler, ReleaseTake(h)
        PROVE  RightsAccepted' /\ LaunchOnce'
    BY <1>5 DEF ReleaseTake, clusterVars, HandlerState, Launch, NoLaunch,
      LaunchPc
  <1>6. ASSUME NEW h \in Handler, ReportApply(h)
        PROVE  RightsAccepted' /\ LaunchOnce'
    BY <1>6 DEF ReportApply, Finish, Free, clusterVars, HandlerState, LaunchPc
  <1>7. ASSUME NEW h \in Handler, NEW t \in Turn, ReportRead(h, t)
        PROVE  RightsAccepted' /\ LaunchOnce'
    BY <1>7 DEF ReportRead, rowVars, HandlerState, LaunchPc
  <1>8. ASSUME NEW t \in Turn, PodSalvage(t)
        PROVE  RightsAccepted' /\ LaunchOnce'
    BY <1>8 DEF PodSalvage, rowVars, LaunchPc
  <1>9. QED
    BY <1>1, <1>2, <1>3, <1>4, <1>5, <1>6, <1>7, <1>8, StepKinds

(* A pod gets its checkpoint once, when its Job has long been created.      *)
LEMMA PodsStep ==
  ASSUME TypeOK, PodsAreLaunched, RightsAccepted, LaunchOnce, [Next]_vars
  PROVE  PodsAreLaunched'
  <1> USE SessionTurnsAssumption
      DEF TypeOK, PodsAreLaunched, WorkDone, NoPod, Pod, Turn, Checkpoint, NoFile
  <1>1. CASE Routine
    BY <1>1 DEF Routine, PodsKeep
  <1>2. ASSUME NEW h \in Handler, GateLaunch(h) \/ ReleaseLaunch(h)
        PROVE  PodsAreLaunched'
    <2>1. PICK t \in 0..turns :
            /\ job' = [job EXCEPT ![t] = "live"]
            /\ \E c \in Checkpoint :
                 pod' = [pod EXCEPT ![t] = [pc |-> "created", env |-> c, saved |-> NoFile]]
      BY <1>2, LaunchStep
    <2>2. PICK c \in Checkpoint :
            pod' = [pod EXCEPT ![t] = [pc |-> "created", env |-> c, saved |-> NoFile]]
      BY <2>1
    <2>3. ASSUME NEW u \in Turn
          PROVE  /\ job'[u] = "none" => pod'[u] = NoPod
                 /\ pod'[u].saved \in {u, NoFile}
                 /\ pod'[u].saved # NoFile => pod'[u].pc \in WorkDone
      <3>1. CASE u = t
        BY <2>1, <2>2, <3>1
      <3>2. CASE u # t
        BY <2>1, <2>2, <3>2
      <3>3. QED
        BY <3>1, <3>2
    <2>4. QED
      BY <2>3
  <1>3. ASSUME NEW h \in Handler,
               \/ MessageBegin(h) \/ GatePark(h) \/ ReleaseTake(h) \/ ReportApply(h)
               \/ \E t \in Turn : ReportRead(h, t)
        PROVE  PodsAreLaunched'
    BY <1>3 DEF MessageBegin, GatePark, ReleaseTake, ReportApply, ReportRead,
      clusterVars
  <1>4. ASSUME NEW t \in Turn, PodSalvage(t)
        PROVE  PodsAreLaunched'
    BY <1>4 DEF PodSalvage
  <1>5. QED
    BY <1>1, <1>2, <1>3, <1>4, StepKinds

(* A post is only handled once its pod has saved a checkpoint, and what it  *)
(* read can only become older.                                              *)
LEMMA ReportsStep ==
  ASSUME IInv, [Next]_vars
  PROVE  ReportsCarry' /\ CheckpointIsNewest'
  <1>0. /\ TypeOK /\ RightsAccepted /\ LaunchOnce /\ PodsAreLaunched
        /\ ReportsCarry /\ CheckpointIsNewest
    BY DEF IInv
  <1> USE SessionTurnsAssumption, <1>0
      DEF ReportsCarry, CheckpointIsNewest, Turn, Checkpoint, NoFile
  <1>1. ASSUME Routine
        PROVE  ReportsCarry' /\ CheckpointIsNewest'
    <2>1. ReportsCarry'
      BY <1>1 DEF Routine, PodsKeep, HandlersKeep
    <2>2. CheckpointIsNewest'
      BY <1>1 DEF Routine
    <2>3. QED
      BY <2>1, <2>2
  <1>2. ASSUME NEW h \in Handler, GateLaunch(h) \/ ReleaseLaunch(h)
        PROVE  ReportsCarry' /\ CheckpointIsNewest'
    <2>1. PICK t \in 0..turns :
            /\ job[t] = "none"
            /\ \E c \in Checkpoint :
                 pod' = [pod EXCEPT ![t] = [pc |-> "created", env |-> c, saved |-> NoFile]]
            /\ handler' = [handler EXCEPT ![h] = Free]
            /\ UNCHANGED <<turns, checkpoint, doomed>>
      BY <1>2, LaunchStep
    <2>2. t \in Turn /\ pod[t].saved = NoFile
      BY <2>1 DEF PodsAreLaunched, NoPod, TypeOK
    <2>3. \A u \in Turn : u # t => pod'[u] = pod[u]
      BY <2>1 DEF TypeOK
    <2>4. \A g \in Handler : handler'[g].pc = "reported" => handler'[g] = handler[g]
      BY <2>1 DEF TypeOK, Free
    <2>5. ReportsCarry'
      BY <2>1, <2>2, <2>3, <2>4
    <2>6. QED
      BY <2>1, <2>5
  <1>3. ASSUME NEW h \in Handler, MessageBegin(h) \/ GatePark(h) \/ ReleaseTake(h)
        PROVE  ReportsCarry' /\ CheckpointIsNewest'
    <2>1. /\ UNCHANGED <<checkpoint, doomed, pod>>
          /\ turns' \in {turns, turns + 1}
      BY <1>3 DEF MessageBegin, GatePark, ReleaseTake, clusterVars
    <2>2. \A g \in Handler : handler'[g].pc = "reported" => handler'[g] = handler[g]
      BY <1>3 DEF MessageBegin, GatePark, ReleaseTake, Goto, TypeOK,
        HandlerState
    <2>3. ReportsCarry'
      BY <2>1, <2>2
    <2>4. CheckpointIsNewest'
      BY <2>1 DEF TypeOK
    <2>5. QED
      BY <2>3, <2>4
  <1>4. ASSUME NEW h \in Handler, NEW t \in Turn, ReportRead(h, t)
        PROVE  ReportsCarry' /\ CheckpointIsNewest'
    BY <1>4 DEF ReportRead, rowVars, TypeOK, HandlerState
  <1>5. ASSUME NEW h \in Handler, ReportApply(h)
        PROVE  ReportsCarry' /\ CheckpointIsNewest'
    <2>1. PICK t \in Turn : t = handler[h].turn
      BY <1>5 DEF ReportApply
    <2>2. pod[t].saved = t
      BY <1>5, <2>1 DEF ReportApply, PodsAreLaunched
    <2>3. t <= turns
      BY <2>2 DEF PodsAreLaunched, RightsAccepted, NoPod
    <2>4. \A g \in Handler : handler'[g].pc = "reported" => handler'[g] = handler[g]
      BY <1>5 DEF ReportApply, Finish, Free, TypeOK
    <2>5. UNCHANGED <<pod, turns>>
      BY <1>5 DEF ReportApply, clusterVars
    <2>6. CASE CurrentTurn(t)
      <3>1. checkpoint' = t /\ turns = t
        BY <1>5, <2>1, <2>2, <2>3, <2>6 DEF ReportApply, CurrentTurn, TypeOK
      <3>2. handler[h].ckpt <= checkpoint
        BY <1>5 DEF ReportApply
      <3>3. doomed' = doomed \union
              (IF handler[h].ckpt \notin {NoFile, t} THEN {<<handler[h].ckpt, "replaced">>} ELSE {})
        BY <1>5, <2>1, <2>2, <2>6 DEF ReportApply
      <3>4. CheckpointIsNewest'
        BY <2>5, <3>1, <3>2, <3>3 DEF TypeOK, HandlerState
      <3>5. ReportsCarry'
        BY <2>4, <2>5, <3>1 DEF TypeOK, HandlerState
      <3>6. QED
        BY <3>4, <3>5
    <2>7. CASE ~CurrentTurn(t)
      <3>1. checkpoint' = checkpoint
        BY <1>5, <2>1, <2>7 DEF ReportApply
      <3>2. doomed' = doomed \union {<<t, "rejected">>}
        BY <1>5, <2>1, <2>2, <2>7 DEF ReportApply
      <3>3. QED
        BY <2>4, <2>5, <3>1, <3>2
    <2>8. QED
      BY <2>6, <2>7
  <1>6. ASSUME NEW t \in Turn, PodSalvage(t)
        PROVE  ReportsCarry' /\ CheckpointIsNewest'
    BY <1>6 DEF PodSalvage, rowVars, TypeOK, PodsAreLaunched, WorkDone, Pod
  <1>7. QED
    BY <1>1, <1>2, <1>3, <1>4, <1>5, <1>6, StepKinds
-------------------------------------------------------------------------------
(* The inductive invariant holds in every reachable state.                  *)
LEMMA Invariance == Spec => []IInv
  <1>1. IInv /\ [Next]_vars => IInv'
    BY TypeStep, RightsStep, PodsStep, ReportsStep DEF IInv
  <1>2. QED
    BY <1>1, InitIInv, PTL DEF Spec

(* Every variable has its type in every reachable state.                    *)
THEOREM TypeCorrect == Spec => []TypeOK
  <1>1. IInv => TypeOK
    BY DEF IInv
  <1>2. QED
    BY <1>1, Invariance, PTL

(* No turn is ever launched twice, however many messages, releases, sweeps, *)
(* interrupts and restarts there are (releasePendingForModel).              *)
THEOREM LaunchedOnce == Spec => []LaunchOnce
  <1>1. IInv => LaunchOnce
    BY DEF IInv
  <1>2. QED
    BY <1>1, Invariance, PTL

(* setSessionStatus never schedules the current checkpoint for deletion as  *)
(* one that was replaced.                                                   *)
THEOREM ReplacedNeverCurrent == Spec => []ReplacedIsNotCurrent
  <1>1. IInv => ReplacedIsNotCurrent
    BY DEF IInv, ReplacedIsNotCurrent, CheckpointIsNewest, TypeOK, Turn
  <1>2. QED
    BY <1>1, Invariance, PTL

(* Only the post of the latest accepted turn changes the checkpoint.        *)
LEMMA CheckpointStep ==
  ASSUME IInv, [Next]_vars
  PROVE  \/ UNCHANGED checkpoint
         \/ /\ checkpoint' = turns
            /\ job[turns] # "none"
            /\ UNCHANGED <<turns, job>>
  <1> USE DEF IInv, rowVars, clusterVars
  <1>1. CASE Routine
    BY <1>1 DEF Routine
  <1>2. ASSUME NEW h \in Handler,
               \/ MessageBegin(h) \/ GatePark(h) \/ ReleaseTake(h)
               \/ GateLaunch(h) \/ ReleaseLaunch(h)
               \/ \E t \in Turn : ReportRead(h, t)
        PROVE  UNCHANGED checkpoint
    BY <1>2 DEF MessageBegin, GatePark, ReleaseTake, GateLaunch,
      ReleaseLaunch, ReportRead
  <1>3. ASSUME NEW h \in Handler, ReportApply(h)
        PROVE  \/ UNCHANGED checkpoint
               \/ checkpoint' = turns /\ job[turns] # "none" /\ UNCHANGED <<turns, job>>
    <2>1. PICK t \in Turn : t = handler[h].turn
      BY <1>3 DEF ReportApply, ReportsCarry
    <2>2. pod[t].saved = t /\ job[t] # "none" /\ t <= turns
      BY <1>3, <2>1 DEF ReportApply, ReportsCarry, PodsAreLaunched,
        RightsAccepted, NoPod
    <2>3. UNCHANGED <<turns, job>>
      BY <1>3 DEF ReportApply
    <2>4. CASE CurrentTurn(t)
      <3>1. t = turns
        BY <2>2, <2>4, SessionTurnsAssumption DEF CurrentTurn, TypeOK, Turn
      <3>2. checkpoint' = t
        BY <1>3, <2>1, <2>2, <2>4 DEF ReportApply
      <3>3. QED
        BY <2>2, <2>3, <3>1, <3>2
    <2>5. CASE ~CurrentTurn(t)
      BY <1>3, <2>1, <2>5 DEF ReportApply
    <2>6. QED
      BY <2>4, <2>5
  <1>4. ASSUME NEW t \in Turn, PodSalvage(t) PROVE UNCHANGED checkpoint
    BY <1>4 DEF PodSalvage
  <1>5. QED
    BY <1>1, <1>2, <1>3, <1>4, StepKinds

(* A resume never goes back in history: late and repeated posts of earlier  *)
(* turns leave the checkpoint alone (setSessionStatus).                     *)
THEOREM CheckpointForward == Spec => CheckpointMovesForward
  <1>1. IInv /\ [Next]_vars => [checkpoint' >= checkpoint]_vars
    <2> SUFFICES ASSUME IInv, [Next]_vars PROVE checkpoint' >= checkpoint
      OBVIOUS
    <2>1. checkpoint <= turns /\ checkpoint \in Int /\ turns \in Int
      BY SessionTurnsAssumption
         DEF IInv, CheckpointIsNewest, TypeOK, Turn, Checkpoint, NoFile
    <2>2. QED
      BY <2>1, CheckpointStep
  <1>2. QED
    BY <1>1, Invariance, PTL DEF Spec, CheckpointMovesForward

(***************************************************************************)
(* No checkpoint whose post was handled is leaked.                         *)
(***************************************************************************)

(* Uploaded files are known by their pods, and posts follow the upload.     *)
FilesAreSaved ==
  /\ \A f \in files : pod[f].saved = f
  /\ \A t \in Turn : wire[t].final > 0 => pod[t].pc \in WorkDone

(* A post that will be applied knows the checkpoint it will replace.        *)
ReportsReadCurrent ==
  \A h \in Handler : handler[h].pc = "reported" /\ turns <= handler[h].turn =>
    checkpoint \in {handler[h].ckpt, handler[h].turn}

LeakInv == FilesAreSaved /\ ReportsReadCurrent /\ NoCheckpointLeaks

(* What handling a post does.                                               *)
LEMMA ApplyStep ==
  ASSUME IInv, NEW h \in Handler, ReportApply(h)
  PROVE  \E t \in Turn :
           /\ t = handler[h].turn
           /\ t <= turns
           /\ pod[t].saved = t
           /\ handler' = [handler EXCEPT ![h] = Free]
           /\ UNCHANGED <<turns, files, pod, wire, restarts>>
           /\ \/ /\ turns = t
                 /\ checkpoint' = t
                 /\ doomed' = doomed \union
                      (IF handler[h].ckpt \notin {NoFile, t}
                       THEN {<<handler[h].ckpt, "replaced">>} ELSE {})
              \/ /\ t < turns
                 /\ checkpoint' = checkpoint
                 /\ doomed' = doomed \union {<<t, "rejected">>}
  <1> USE DEF IInv, ReportApply
  <1>1. PICK t \in Turn : t = handler[h].turn
    BY DEF ReportsCarry
  <1>2. pod[t].saved = t /\ t <= turns
    BY <1>1 DEF ReportsCarry, PodsAreLaunched, RightsAccepted, NoPod
  <1>3. turns <= t <=> turns = t
    BY <1>2, SessionTurnsAssumption DEF TypeOK, Turn
  <1>4. ~(turns <= t) <=> t < turns
    BY SessionTurnsAssumption DEF TypeOK, Turn
  <1>5. handler' = [handler EXCEPT ![h] = Free] /\ UNCHANGED <<turns, files, pod, wire, restarts>>
    BY DEF Finish, clusterVars
  <1>6. CASE CurrentTurn(t)
    <2>1. checkpoint' = t
      BY <1>1, <1>2, <1>6
    <2>2. doomed' = doomed \union
             (IF handler[h].ckpt \notin {NoFile, t}
              THEN {<<handler[h].ckpt, "replaced">>} ELSE {})
      BY <1>1, <1>2, <1>6
    <2>3. QED
      BY <1>1, <1>2, <1>3, <1>5, <1>6, <2>1, <2>2 DEF CurrentTurn
  <1>7. CASE ~CurrentTurn(t)
    <2>1. checkpoint' = checkpoint /\ doomed' = doomed \union {<<t, "rejected">>}
      BY <1>1, <1>2, <1>7
    <2>2. QED
      BY <1>1, <1>2, <1>4, <1>5, <1>7, <2>1 DEF CurrentTurn
  <1>8. QED
    BY <1>6, <1>7

(* Every step keeps the leak invariant: only a handled post turns a current *)
(* checkpoint into an old one, and it schedules the deletion.               *)
LEMMA LeakStep ==
  ASSUME IInv, LeakInv, [Next]_vars
  PROVE  LeakInv'
  <1>0. /\ TypeOK /\ FilesAreSaved /\ ReportsReadCurrent /\ NoCheckpointLeaks
        /\ PodsAreLaunched /\ RightsAccepted /\ LaunchOnce
    BY DEF IInv, LeakInv
  <1> USE SessionTurnsAssumption, <1>0
      DEF FilesAreSaved, ReportsReadCurrent, NoCheckpointLeaks, Handled, NoFile, Turn
  <1>1. ASSUME Routine PROVE LeakInv'
    <2>1. FilesAreSaved'
      BY <1>1 DEF Routine, FilesKeep, PodsKeep, TypeOK
    <2>2. ReportsReadCurrent'
      BY <1>1 DEF Routine, HandlersKeep
    <2>3. NoCheckpointLeaks'
      <3> SUFFICES ASSUME restarts' = 0, NEW f \in files', Handled(f)'
                   PROVE  \/ f = checkpoint'
                          \/ \E why \in {"replaced", "rejected"} : <<f, why>> \in doomed'
        OBVIOUS
      <3>1. f \in files /\ f \in Turn /\ pod[f].saved = f
        BY <1>1 DEF Routine, FilesKeep, TypeOK
      <3>2. Handled(f)
        BY <1>1, <3>1 DEF Routine, FilesKeep
      <3>3. QED
        BY <1>1, <3>1, <3>2 DEF Routine, FilesKeep
    <2>4. QED
      BY <2>1, <2>2, <2>3 DEF LeakInv
  <1>2. ASSUME NEW h \in Handler, GateLaunch(h) \/ ReleaseLaunch(h)
        PROVE  LeakInv'
    <2>1. PICK t \in 0..turns :
            /\ job[t] = "none"
            /\ Holds(h, t)
            /\ \E c \in Checkpoint :
                 pod' = [pod EXCEPT ![t] = [pc |-> "created", env |-> c, saved |-> NoFile]]
            /\ handler' = [handler EXCEPT ![h] = Free]
            /\ UNCHANGED <<turns, checkpoint, files, wire, doomed, restarts>>
      BY <1>2, LaunchStep
    <2>2. t \in Turn /\ pod[t] = NoPod
      BY <2>1 DEF PodsAreLaunched, TypeOK
    <2>3. \A u \in Turn : u # t => pod'[u] = pod[u]
      BY <2>1 DEF TypeOK
    <2>4. \A g \in Handler :
            handler[g].pc = "reported" \/ handler'[g].pc = "reported" => handler'[g] = handler[g]
      BY <2>1 DEF TypeOK, Free, Holds, LaunchPc
    <2>5. FilesAreSaved'
      <3>1. t \notin files /\ ~(wire[t].final > 0)
        BY <2>2 DEF NoPod, WorkDone
      <3>2. QED
        BY <2>1, <2>3, <3>1 DEF TypeOK
    <2>6. ReportsReadCurrent' /\ NoCheckpointLeaks'
      BY <2>1, <2>4
    <2>7. QED
      BY <2>5, <2>6 DEF LeakInv
  <1>3. ASSUME NEW h \in Handler, MessageBegin(h) \/ GatePark(h) \/ ReleaseTake(h)
        PROVE  LeakInv'
    <2>1. /\ UNCHANGED <<checkpoint, files, pod, wire, doomed, restarts>>
          /\ turns' \in {turns, turns + 1}
      BY <1>3 DEF MessageBegin, GatePark, ReleaseTake, clusterVars
    <2>2. \A g \in Handler :
            handler[g].pc = "reported" \/ handler'[g].pc = "reported" => handler'[g] = handler[g]
      BY <1>3 DEF MessageBegin, GatePark, ReleaseTake, Goto, TypeOK,
        HandlerState
    <2>3. \A g \in Handler : handler[g].turn \in Int
      BY DEF TypeOK, HandlerState
    <2>4. ReportsReadCurrent'
      BY <2>1, <2>2, <2>3 DEF TypeOK
    <2>5. QED
      BY <2>1, <2>2, <2>4 DEF LeakInv
  <1>4. ASSUME NEW h \in Handler, NEW t \in Turn, ReportRead(h, t)
        PROVE  LeakInv'
    <2>1. /\ UNCHANGED <<turns, checkpoint, files, pod, doomed, restarts>>
          /\ wire[t].final > 0
          /\ wire' = [wire EXCEPT ![t].final = @ - 1]
          /\ handler[h].pc = "free"
          /\ handler' = [handler EXCEPT ![h] =
               [pc |-> "reported", turn |-> t, ckpt |-> checkpoint]]
      BY <1>4 DEF ReportRead, rowVars
    <2>2. /\ \A u \in Turn : u # t => wire'[u] = wire[u]
          /\ wire'[t].final = wire[t].final - 1
      BY <2>1 DEF TypeOK, Wire
    <2>3. FilesAreSaved'
      BY <2>1, <2>2 DEF TypeOK, Wire
    <2>4. ReportsReadCurrent'
      BY <2>1 DEF TypeOK
    <2>5. \A f \in Turn : Handled(f)' => f # t /\ Handled(f)
      BY <2>1, <2>2 DEF TypeOK
    <2>6. NoCheckpointLeaks'
      BY <2>1, <2>5 DEF TypeOK
    <2>7. QED
      BY <2>3, <2>4, <2>6 DEF LeakInv
  <1>5. ASSUME NEW h \in Handler, ReportApply(h)
        PROVE  LeakInv'
    <2>1. PICK t \in Turn :
            /\ t = handler[h].turn
            /\ t <= turns
            /\ pod[t].saved = t
            /\ handler' = [handler EXCEPT ![h] = Free]
            /\ UNCHANGED <<turns, files, pod, wire, restarts>>
            /\ \/ /\ turns = t
                  /\ checkpoint' = t
                  /\ doomed' = doomed \union
                       (IF handler[h].ckpt \notin {NoFile, t}
                        THEN {<<handler[h].ckpt, "replaced">>} ELSE {})
               \/ /\ t < turns
                  /\ checkpoint' = checkpoint
                  /\ doomed' = doomed \union {<<t, "rejected">>}
      BY <1>5, ApplyStep
    <2>2. \A g \in Handler : handler'[g].pc = "reported" => g # h /\ handler'[g] = handler[g]
      BY <2>1 DEF TypeOK, Free
    <2>3. FilesAreSaved'
      BY <2>1
    <2>4. ReportsReadCurrent'
      <3> SUFFICES ASSUME NEW g \in Handler, handler'[g].pc = "reported",
                          turns <= handler[g].turn
                   PROVE  checkpoint' \in {handler[g].ckpt, handler[g].turn}
        BY <2>1, <2>2
      <3>1. handler[g].turn <= turns
        BY <2>2 DEF IInv, ReportsCarry, PodsAreLaunched, RightsAccepted, NoPod
      <3>2. handler[g].turn = turns
        BY <3>1 DEF TypeOK, HandlerState
      <3>3. QED
        BY <2>1, <2>2, <3>2
    <2>5. NoCheckpointLeaks'
      <3> SUFFICES ASSUME restarts' = 0, NEW f \in files', Handled(f)'
                   PROVE  \/ f = checkpoint'
                          \/ \E why \in {"replaced", "rejected"} : <<f, why>> \in doomed'
        OBVIOUS
      <3>1. f \in files /\ f \in Turn /\ restarts = 0
        BY <2>1 DEF TypeOK
      <3>2. CASE f = t
        BY <2>1, <3>2
      <3>3. CASE f # t
        <4>1. Handled(f)
          BY <2>1, <3>3 DEF TypeOK, Free
        <4>2. f = checkpoint \/ \E why \in {"replaced", "rejected"} : <<f, why>> \in doomed
          BY <3>1, <4>1
        <4>3. ASSUME f = checkpoint, turns = t
              PROVE  handler[h].ckpt = f
          BY <1>5, <2>1, <3>3, <4>3 DEF ReportApply
        <4>4. QED
          BY <2>1, <3>1, <3>3, <4>2, <4>3
      <3>4. QED
        BY <3>2, <3>3
    <2>6. QED
      BY <2>3, <2>4, <2>5 DEF LeakInv
  <1>6. ASSUME NEW t \in Turn, PodSalvage(t)
        PROVE  LeakInv'
    <2>1. /\ pod[t].pc = "running"
          /\ UNCHANGED <<turns, checkpoint, wire, handler, doomed, restarts>>
      BY <1>6 DEF PodSalvage, rowVars
    <2>2. PICK saved \in {t, NoFile} :
            /\ pod' = [pod EXCEPT ![t].pc = "salvaged", ![t].saved = saved]
            /\ files' = files \union ({saved} \ {NoFile})
      BY <1>6 DEF PodSalvage
    <2>3. pod[t].saved = NoFile /\ t \notin files /\ ~(wire[t].final > 0)
      BY <2>1 DEF PodsAreLaunched, WorkDone
    <2>4. /\ \A u \in Turn : u # t => pod'[u] = pod[u]
          /\ pod'[t].saved = saved
      BY <2>2 DEF TypeOK, Pod
    <2>5. FilesAreSaved'
      BY <2>1, <2>2, <2>3, <2>4 DEF TypeOK
    <2>6. ReportsReadCurrent'
      BY <2>1
    <2>7. NoCheckpointLeaks'
      <3>1. \A f \in files' : Handled(f)' => f \in files /\ Handled(f)
        BY <2>1, <2>2, <2>3 DEF TypeOK, Wire
      <3>2. QED
        BY <2>1, <3>1
    <2>8. QED
      BY <2>5, <2>6, <2>7 DEF LeakInv
  <1>7. QED
    BY <1>1, <1>2, <1>3, <1>4, <1>5, <1>6, StepKinds

(* As long as the control plane stays up, a checkpoint whose status post    *)
(* was handled is the current one or on its way out: the deletions of       *)
(* setSessionStatus and of the status route leave none behind.              *)
THEOREM NothingLeaks == Spec => []NoCheckpointLeaks
  <1>1. Init => LeakInv
    BY SessionTurnsAssumption
       DEF Init, LeakInv, FilesAreSaved, ReportsReadCurrent, NoCheckpointLeaks, Free, Turn
  <1>2. IInv /\ LeakInv /\ [Next]_vars => LeakInv'
    BY LeakStep
  <1>3. LeakInv => NoCheckpointLeaks
    BY DEF LeakInv
  <1>4. QED
    BY <1>1, <1>2, <1>3, Invariance, PTL DEF Spec

(***************************************************************************)
(* The session implements the ledger of its turns.                         *)
(***************************************************************************)
Launched == {t \in Turn : job[t] # "none"}

(* A session just created maps to the empty ledger.                         *)
LEMMA LedgerInit == Init => Ledger!Init
  BY SessionTurnsAssumption DEF Init, Ledger!Init, NoFile, Ledger!NoFile, Turn

(* Accepting, launching and reporting map to the ledger's actions, every    *)
(* other step to a stutter.                                                 *)
LEMMA LedgerStep ==
  ASSUME IInv, [Next]_vars
  PROVE  [Ledger!Next]_(Ledger!ledgerVars)
  <1> USE SessionTurnsAssumption
      DEF Ledger!Next, Ledger!ledgerVars, Ledger!Accept, Ledger!Launch, Ledger!Commit
  <1>0. TypeOK /\ RightsAccepted /\ LaunchOnce
    BY DEF IInv
  <1>1. ASSUME UNCHANGED <<turns, checkpoint>>,
               \A t \in Turn : job'[t] = "none" <=> job[t] = "none"
        PROVE  UNCHANGED Ledger!ledgerVars
    BY <1>1
  <1>2. CASE Routine
    BY <1>1, <1>2 DEF Routine
  <1>3. ASSUME NEW h \in Handler, MessageBegin(h)
        PROVE  Ledger!Accept
    BY <1>3 DEF MessageBegin, clusterVars
  <1>4. ASSUME NEW h \in Handler, GateLaunch(h) \/ ReleaseLaunch(h)
        PROVE  \E t \in 0..MaxTurn : Ledger!Launch(t)
    <2>1. PICK t \in 0..turns :
            /\ job[t] = "none"
            /\ job' = [job EXCEPT ![t] = "live"]
            /\ UNCHANGED <<turns, checkpoint>>
      BY <1>0, <1>4, LaunchStep
    <2>2. t \in Turn /\ t <= turns
      BY <1>0, <2>1 DEF TypeOK, Turn
    <2>3. Launched' = Launched \union {t} /\ t \notin Launched
      BY <1>0, <2>1, <2>2 DEF TypeOK, Launched
    <2>4. QED
      BY <2>1, <2>2, <2>3 DEF Launched, Turn
  <1>5. ASSUME NEW h \in Handler, GatePark(h) \/ ReleaseTake(h)
        PROVE  UNCHANGED Ledger!ledgerVars
    BY <1>5 DEF GatePark, ReleaseTake, clusterVars
  <1>6. ASSUME NEW h \in Handler, NEW t \in Turn, ReportRead(h, t)
        PROVE  UNCHANGED Ledger!ledgerVars
    BY <1>6 DEF ReportRead, rowVars
  <1>7. ASSUME NEW h \in Handler, ReportApply(h)
        PROVE  [Ledger!Next]_(Ledger!ledgerVars)
    <2>1. UNCHANGED <<turns, job>>
      BY <1>7 DEF ReportApply, clusterVars
    <2>2. \/ UNCHANGED checkpoint
          \/ checkpoint' = turns /\ turns \in Launched
      BY <1>0, CheckpointStep DEF TypeOK, Launched
    <2>3. QED
      BY <2>1, <2>2 DEF Launched
  <1>8. ASSUME NEW t \in Turn, PodSalvage(t)
        PROVE  UNCHANGED Ledger!ledgerVars
    BY <1>8 DEF PodSalvage, rowVars
  <1>9. QED
    BY <1>0, <1>2, <1>3, <1>4, <1>5, <1>6, <1>7, <1>8, StepKinds

(* Turns are numbered in order, each is launched at most once and only      *)
(* after it was accepted, and only the latest one hands in a checkpoint.    *)
THEOREM LedgerImplemented == Spec => ImplementsLedger
  <1>1. QED
    BY LedgerInit, LedgerStep, Invariance, PTL DEF Spec, ImplementsLedger,
      Ledger!Spec
===============================================================================
