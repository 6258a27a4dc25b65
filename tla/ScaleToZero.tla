------------------------------ MODULE ScaleToZero ------------------------------
(***************************************************************************)
(* One deployment that may sleep, end to end: the operator of Operator,    *)
(* the control plane's coroutines that project its phase into the          *)
(* model_routing row and wake it, and the gateway that holds a request     *)
(* until that row says ready.  A session whose launch was parked on the    *)
(* deployment waits for the same transition.                               *)
(***************************************************************************)
EXTENDS Operator

CONSTANTS
  MaxFaults       \* restarts, lost notifications and failed wake patches

ASSUME ScaleToZeroAssumption == MaxFaults \in Nat

VARIABLES
  row,            \* model_routing.state
  wakeReq,        \* the row in wake_requests
  notify,         \* a devproof_wake notification under way
  warmed,         \* in warmedModels
  routed,         \* in routedModels
  warming,        \* warmups under way
  syncDue,        \* the operator's POST /v1/gateway/sync is under way
  bootDue,        \* the control plane's own sync after a start
  worker,         \* the control plane's coroutines
  req,            \* what each request is doing
  parked,         \* a session's launch waits for the deployment
  faults

memoryVars == <<warmed, routed, warming, bootDue>>
tableVars == <<row, wakeReq, parked>>
gatewayVars == <<req, sent>>
controlVars == <<memoryVars, tableVars, notify, syncDue, worker>>
vars == <<operatorVars, controlVars, gatewayVars, faults>>

Worker == {"notify", "project", "gate"}
Off == [pc |-> "off", phase |-> "Pending", then |-> "off"]
At(w, pc) == worker[w].pc = pc
Listed(w) ==
  worker' = [worker EXCEPT ![w] = [Off EXCEPT !.pc = "write", !.phase = phase]]
Goto(w, pc) ==
  worker' = [worker EXCEPT ![w] = IF pc = "off" THEN Off ELSE [@ EXCEPT !.pc = pc]]
Waking(w, then) ==
  worker' = [worker EXCEPT ![w] = [Off EXCEPT !.pc = "patch", !.then = then]]

(* A request or a session waits, or a warmup runs: far less than the idle   *)
(* window of minutes.                                                       *)
WakeUnderWay ==
  \/ \E r \in Request : req[r] \in {"held", "retry", "passed"}
  \/ parked
  \/ warming > 0
  \/ \E w \in Worker : At(w, "patch")

Init ==
  /\ OperatorInit
  /\ row = "none"
  /\ wakeReq = FALSE /\ notify = FALSE
  /\ warmed = FALSE /\ routed = FALSE /\ warming = 0
  /\ syncDue = FALSE /\ bootDue = TRUE
  /\ worker = [w \in Worker |-> Off]
  /\ req = [r \in Request |-> "none"] /\ sent = {}
  /\ parked = FALSE
  /\ faults = 0

(***************************************************************************)
(* The operator's steps, joined to the rest.                               *)
(***************************************************************************)
RoutingChanged(old, new) ==
  /\ old # new
  /\ {old, new} \cap {"Ready", "Idle"} # {}

OperatorReconcile ==
  /\ ~syncDue
  /\ Reconcile
  /\ syncDue' = RoutingChanged(phase, phase')
  /\ UNCHANGED <<memoryVars, tableVars, notify, worker, gatewayVars, faults>>

OperatorStep ==
  /\ \/ PodStart
     \/ PodReady
     \/ \E p \in Place : PodStop(p) \/ PoolEdit(p)
     \/ BounceCrash
     \/ TickPatch
     \/ OperatorRestart
  /\ UNCHANGED <<controlVars, gatewayVars, faults>>

(* The window outlasts a wake: it does not end while one is under way.      *)
OperatorTick ==
  /\ \E answered \in 0..ready, seen \in 0..Inflight : Tick(answered, seen)
  /\ WakeUnderWay => window'.idle < SleepTicks /\ tick'.to # 0
  /\ UNCHANGED <<controlVars, gatewayVars, faults>>

(* The rows of model_routing and wake_requests; a wake request is deleted   *)
(* as it is taken.                                                          *)
SetModelRouting(state) == row' = state
ClearWakeRequest == wakeReq' = FALSE
TakeWakeRequests == wakeReq' = FALSE

(***************************************************************************)
(* Waking: the annotation, then the row and the request for it.            *)
(***************************************************************************)
NotifyTake ==
  /\ notify
  /\ At("notify", "off")
  /\ notify' = FALSE
  /\ IF phase = "Idle" THEN Waking("notify", "off") ELSE UNCHANGED worker
  /\ UNCHANGED <<operatorVars, memoryVars, tableVars, syncDue, gatewayVars, faults>>

NotifyLost ==
  /\ notify
  /\ faults < MaxFaults
  /\ notify' = FALSE
  /\ faults' = faults + 1
  /\ UNCHANGED <<operatorVars, memoryVars, tableVars, syncDue, worker, gatewayVars>>

WakePatch(w) ==
  /\ At(w, "patch")
  /\ target' = 1
  /\ Goto(w, "mark")
  /\ UNCHANGED <<poolVars, bounce, clusterVars, phase, scalerVars, memoryVars, tableVars,
                 notify, syncDue, gatewayVars, faults>>

WakeFail(w) ==
  /\ At(w, "patch")
  /\ faults < MaxFaults
  /\ faults' = faults + 1
  /\ Goto(w, worker[w].then)
  /\ UNCHANGED <<operatorVars, memoryVars, tableVars, notify, syncDue, gatewayVars>>

WakeMark(w) ==
  /\ At(w, "mark")
  /\ SetModelRouting("waking")
  /\ ClearWakeRequest
  /\ Goto(w, worker[w].then)
  /\ UNCHANGED <<operatorVars, memoryVars, parked, notify, syncDue, gatewayVars, faults>>

(***************************************************************************)
(* The projection of phase and warmth into the row, by the sweep of every  *)
(* minute and by each sync.                                                *)
(***************************************************************************)
RoutingStateFor(p, isWarmed) ==
  IF p = "Ready" /\ isWarmed THEN "ready" ELSE IF p = "Idle" THEN "idle" ELSE "waking"

ProjectList(w) ==
  /\ At(w, "list")
  /\ Listed(w)
  /\ UNCHANGED <<operatorVars, memoryVars, tableVars, notify, syncDue, gatewayVars, faults>>

ProjectWrite(w) ==
  /\ At(w, "write")
  /\ SetModelRouting(RoutingStateFor(worker[w].phase, warmed))
  /\ TakeWakeRequests
  /\ Goto(w, IF wakeReq /\ worker[w].phase = "Idle" THEN "patch" ELSE "off")
  /\ UNCHANGED <<operatorVars, memoryVars, parked, notify, syncDue, gatewayVars, faults>>

(***************************************************************************)
(* The phase as the launch gate and the sweep of parked launches read it;  *)
(* a deployment seen away from Ready is warm no more.                      *)
(***************************************************************************)
StillWarm == warmed /\ phase = "Ready"
(* A deployment that is Ready but not warm waits, as one that is asleep.    *)
GateDecision == IF StillWarm THEN "launch" ELSE "wait"
AddPendingLaunch == parked' = TRUE

SweepOnlyWakes ==  \* mutant: only the hook releases what is parked
  /\ At("project", "off")
  /\ IF parked THEN
       /\ warmed' = StillWarm
       /\ UNCHANGED parked
       /\ IF phase = "Idle" THEN Waking("project", "list") ELSE Listed("project")
     ELSE
       /\ Listed("project")
       /\ UNCHANGED <<warmed, parked>>
  /\ UNCHANGED <<operatorVars, routed, warming, bootDue, row, wakeReq, notify, syncDue,
                 gatewayVars, faults>>

Sweep ==
  /\ At("project", "off")
  /\ IF parked THEN
       /\ warmed' = StillWarm
       /\ parked' = (GateDecision = "wait")
       /\ IF phase = "Idle" THEN Waking("project", "list") ELSE Listed("project")
     ELSE
       /\ Listed("project")
       /\ UNCHANGED <<warmed, parked>>
  /\ UNCHANGED <<operatorVars, routed, warming, bootDue, row, wakeReq, notify, syncDue,
                 gatewayVars, faults>>

GateRead ==
  /\ spec.parks
  /\ At("gate", "off")
  /\ ~parked
  /\ warmed' = StillWarm
  /\ IF GateDecision = "launch" THEN UNCHANGED worker
     ELSE IF phase = "Idle" THEN Waking("gate", "park") ELSE Goto("gate", "park")
  /\ UNCHANGED <<operatorVars, routed, warming, bootDue, tableVars, notify, syncDue,
                 gatewayVars, faults>>

GatePark ==
  /\ At("gate", "park")
  /\ AddPendingLaunch
  /\ Goto("gate", "off")
  /\ UNCHANGED <<operatorVars, memoryVars, row, wakeReq, notify, syncDue, gatewayVars, faults>>

(***************************************************************************)
(* The gateway sync: what is newly routed is warmed, and warmth opens the  *)
(* hold and releases what is parked.  The hook fires even after the last   *)
(* attempt failed.                                                         *)
(***************************************************************************)
NewlyRouted ==
  /\ warming' = IF phase = "Ready" /\ ~routed THEN warming + 1 ELSE warming
  /\ routed' = (phase = "Ready")

Sync ==
  /\ syncDue \/ bootDue
  /\ At("project", "off")
  /\ IF syncDue THEN syncDue' = FALSE /\ UNCHANGED bootDue
     ELSE bootDue' = FALSE /\ UNCHANGED syncDue
  /\ NewlyRouted
  /\ Listed("project")
  /\ UNCHANGED <<operatorVars, warmed, tableVars, notify, gatewayVars, faults>>

OnModelRouted ==
  /\ warmed' = TRUE
  /\ SetModelRouting("ready")
  /\ parked' = FALSE

WarmDone ==
  /\ warming > 0
  /\ warming' = warming - 1
  /\ OnModelRouted
  /\ UNCHANGED <<operatorVars, routed, bootDue, wakeReq, notify, syncDue, worker, gatewayVars,
                 faults>>

RestartWithoutSync ==  \* mutant: a start does not rebuild the routes
  /\ faults < MaxFaults
  /\ faults' = faults + 1
  /\ warmed' = FALSE /\ routed' = FALSE /\ warming' = 0
  /\ notify' = FALSE /\ syncDue' = FALSE
  /\ worker' = [w \in Worker |-> Off]
  /\ UNCHANGED <<operatorVars, bootDue, tableVars, gatewayVars>>

(* What is in memory goes, a notification nobody listens to goes.           *)
Restart ==
  /\ faults < MaxFaults
  /\ faults' = faults + 1
  /\ warmed' = FALSE /\ routed' = FALSE /\ warming' = 0 /\ bootDue' = TRUE
  /\ notify' = FALSE /\ syncDue' = FALSE
  /\ worker' = [w \in Worker |-> Off]
  /\ UNCHANGED <<operatorVars, tableVars, gatewayVars>>

(***************************************************************************)
(* The gateway.  Only a model that is idle is signalled; a request that is *)
(* let through finds an engine or fails, and its client asks again.        *)
(***************************************************************************)
Arrive(r) ==
  /\ ~spec.parks
  /\ req[r] \in {"none", "retry"}
  /\ req' = [req EXCEPT ![r] = IF row \in {"idle", "waking"} THEN "held" ELSE "passed"]
  /\ wakeReq' = (wakeReq \/ row = "idle")
  /\ notify' = (notify \/ row = "idle")
  /\ UNCHANGED <<operatorVars, memoryVars, row, parked, syncDue, worker, sent, faults>>

Poll(r) ==
  /\ req[r] = "held"
  /\ row = "ready"
  /\ req' = [req EXCEPT ![r] = "passed"]
  /\ UNCHANGED <<operatorVars, controlVars, sent, faults>>

(* The hold ends unanswered: its time is up, or there is no row any more.   *)
Deadline(r) ==
  /\ req[r] = "held"
  /\ req' = [req EXCEPT ![r] = "retry"]
  /\ UNCHANGED <<operatorVars, controlVars, sent, faults>>

Forward(r) ==
  /\ req[r] = "passed"
  /\ req' = [req EXCEPT ![r] = IF ready > 0 THEN "sent" ELSE "retry"]
  /\ sent' = IF ready > 0 THEN sent \cup {r} ELSE sent
  /\ UNCHANGED <<operatorVars, controlVars, faults>>

Answer(r) ==
  /\ req[r] = "sent"
  /\ sent' = sent \ {r}
  /\ req' = [req EXCEPT ![r] = IF ready > 0 THEN "none" ELSE "retry"]
  /\ UNCHANGED <<operatorVars, controlVars, faults>>

ControlStep(w) ==
  \/ WakePatch(w)
  \/ WakeMark(w)
  \/ ProjectList(w)
  \/ ProjectWrite(w)

Next ==
  \/ OperatorReconcile
  \/ OperatorStep
  \/ OperatorTick
  \/ NotifyTake
  \/ NotifyLost
  \/ \E w \in Worker : ControlStep(w) \/ WakeFail(w)
  \/ Sweep
  \/ GateRead
  \/ GatePark
  \/ Sync
  \/ WarmDone
  \/ Restart
  \/ \E r \in Request : Arrive(r) \/ Poll(r) \/ Deadline(r) \/ Forward(r) \/ Answer(r)

Spec == Init /\ [][Next]_vars

(* Each actor runs: the operator with the provider, every coroutine of the  *)
(* control plane, the gateway's handler of each request.  No fault, pool    *)
(* edit, new request or gate call has to happen, and no scaler tick.        *)
Environment == UNCHANGED <<controlVars, gatewayVars, faults>>
Cluster ==
  \/ OperatorReconcile
  \/ (PodStart \/ PodReady \/ \E p \in Place : PodStop(p)) /\ Environment
Handler(r) ==
  \/ req[r] = "retry" /\ Arrive(r)
  \/ Poll(r)
  \/ Forward(r)
  \/ Answer(r)

Fairness ==
  /\ WF_vars(Cluster)
  /\ WF_vars(NotifyTake \/ ControlStep("notify"))
  /\ WF_vars(GatePark \/ ControlStep("gate"))
  /\ WF_vars(ControlStep("project"))
  /\ WF_vars(Sweep)
  /\ SF_vars(Sync)
  /\ WF_vars(WarmDone)
  /\ \A r \in Request : WF_vars(Handler(r)) /\ WF_vars(Deadline(r))

FairSpec == Spec /\ Fairness

(***************************************************************************)
(* Properties                                                              *)
(***************************************************************************)

(* The types of the variables.                                              *)
TypeOK ==
  /\ OperatorTypeOK
  /\ row \in {"none", "idle", "waking", "ready"}
  /\ {wakeReq, notify, warmed, routed, syncDue, bootDue, parked} \subseteq BOOLEAN
  /\ warming \in Nat
  /\ worker \in [Worker -> [pc : {"off", "list", "write", "patch", "mark", "park"},
                            phase : {"Pending", "Deploying", "Ready", "Idle"},
                            then : {"off", "list", "park"}]]
  /\ req \in [Request -> {"none", "held", "retry", "passed", "sent"}]
  /\ sent = {r \in Request : req[r] = "sent"}

(* A request that is held, or that was refused and comes again, is in the   *)
(* end forwarded to a live engine: through sleep and wake, a row that lags  *)
(* behind the phase, a cache bounce, lost notifications, failed wakes and   *)
(* restarts of the control plane.                                           *)
RequestIsServed == \A r \in Request : req[r] \in {"held", "retry"} ~> req[r] = "sent"

(* A session parked on a deployment is in the end released.                 *)
ParkedIsReleased == parked ~> ~parked
===============================================================================
