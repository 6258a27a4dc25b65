-------------------------------- MODULE Operator -------------------------------
(***************************************************************************)
(* The operator's side of one ModelDeployment: the reconciler that renders *)
(* the InferenceService and mirrors its status, and the scaler that asks   *)
(* for replica counts through the target-replicas annotation.  The         *)
(* provider (LLMkube and Kubernetes) starts and stops the engine pods; the *)
(* model cache is bound to the placement of the first pod that mounts it.  *)
(***************************************************************************)
EXTENDS Scaling, Sequences, FiniteSets

CONSTANTS
  Request,        \* requests a gateway can have under way
  Place,          \* placements of a pool: node selector and tolerations
  Kinds,          \* specs of deployments, with the pool edits to expect
  Offered,        \* replica counts an administrator may send later
  MaxPatches,     \* bound: times that happens
  Quorum          \* <<numerator, denominator>> of answered to ready pods

ASSUME OperatorAssumption ==
  /\ Place # {}
  /\ \A k \in Kinds : k \in [min : Nat, max : Nat, reserve : Nat, moves : Nat, parks : BOOLEAN]
  /\ \A r \in Offered : r \in [min : Nat, max : Nat, reserve : Nat]
  /\ MaxPatches \in Nat
  /\ Quorum \in (Nat \ {0}) \X (Nat \ {0})

VARIABLES
  spec,           \* the deployment's spec.replicas
  place,          \* placement the pool asks for now
  moves,          \* pool edits so far
  patches,        \* changes of the replica counts so far
  target,         \* target-replicas annotation
  bounce,         \* cache-bounce annotation
  isvc,           \* the InferenceService: replicas, placement, its pool edit
  pods,           \* engine pods at each placement, terminating ones included
  ready,          \* those of them that are Ready
  cache,          \* what the model cache is bound to, and since which edit
  phase,          \* status.phase of the deployment
  window,         \* the scaler's History
  recent,         \* desired counts of the latest ticks, newest first
  tick,           \* a scaler tick between its scrape and its patch
  sent            \* requests forwarded to the engine and not answered

poolVars == <<spec, place, moves, patches>>
clusterVars == <<isvc, pods, ready, cache>>
scalerVars == <<window, recent, tick>>
operatorVars == <<poolVars, target, bounce, clusterVars, phase, scalerVars>>

Unbound == [place |-> "none", at |-> 0]
NoTick == [pc |-> "off", to |-> 0, busy |-> {}]
Inflight == Cardinality(sent)

OperatorInit ==
  /\ spec \in Kinds
  /\ place = CHOOSE p \in Place : TRUE
  /\ moves = 0 /\ patches = 0
  /\ target = NoTarget
  /\ bounce = FALSE
  /\ isvc = [replicas |-> 0, place |-> place, at |-> 0]
  /\ pods = [p \in Place |-> 0]
  /\ ready = 0
  /\ cache = Unbound
  /\ phase = "Pending"
  /\ window = EmptyWindow
  /\ recent = <<>>
  /\ tick = NoTick

(***************************************************************************)
(* The provider.  Old pods of a moved deployment stay as long as any       *)
(* replica is wanted, since the new ones can never become Ready.           *)
(***************************************************************************)
PodStart ==
  /\ pods[isvc.place] < isvc.replicas
  /\ pods' = [pods EXCEPT ![isvc.place] = @ + 1]
  /\ cache' = IF cache = Unbound THEN [place |-> isvc.place, at |-> isvc.at] ELSE cache
  /\ UNCHANGED <<poolVars, target, bounce, isvc, ready, phase, scalerVars>>

PodReady ==
  /\ cache # Unbound
  /\ ready < pods[cache.place]
  /\ ready' = ready + 1
  /\ UNCHANGED <<poolVars, target, bounce, isvc, pods, cache, phase, scalerVars>>

(* A terminating pod may answer to its end.                                 *)
PodStop(p) ==
  /\ pods[p] > 0
  /\ isvc.replicas = 0 \/ (p = isvc.place /\ pods[p] > isvc.replicas)
  /\ pods' = [pods EXCEPT ![p] = @ - 1]
  /\ ready' = IF p = cache.place /\ ready = pods[p] THEN ready - 1 ELSE ready
  /\ UNCHANGED <<poolVars, target, bounce, isvc, cache, phase, scalerVars>>

(* An administrator edits the pool's placement, or moves the deployment to  *)
(* another pool.                                                            *)
PoolEdit(p) ==
  /\ moves < spec.moves
  /\ p # place
  /\ moves' = moves + 1
  /\ place' = p
  /\ UNCHANGED <<spec, patches, target, bounce, clusterVars, phase, scalerVars>>

(* replicasError: what counts are accepted.                                 *)
ValidReplicas(r) == r.min <= r.max /\ 1 <= r.max /\ r.reserve <= r.max - r.min

(* An administrator sends other replica counts; the annotation stays.       *)
PatchReplicas ==
  /\ patches < MaxPatches
  /\ patches' = patches + 1
  /\ \E r \in Offered :
       /\ ValidReplicas(r)
       /\ spec' = [spec EXCEPT !.min = r.min, !.max = r.max, !.reserve = r.reserve]
  /\ UNCHANGED <<place, moves, target, bounce, clusterVars, phase, scalerVars>>

(***************************************************************************)
(* Reconcile.  A move of the placement strands the engine pods on the old  *)
(* placement's cache: it is annotated, the deployment drained, the cache   *)
(* deleted, and only then are the replicas restored.                       *)
(***************************************************************************)
Replicas == DesiredReplicas(spec, target)
Moved == isvc.place # place
Rendered(n) == [replicas |-> n, place |-> place, at |-> moves]

(* enginePodsRemain: terminating ones too.                                  *)
PodsLeft == \E p \in Place : pods[p] > 0

BounceDrain ==
  /\ Moved
  /\ bounce' = TRUE
  /\ isvc' = Rendered(0)
  /\ UNCHANGED <<poolVars, target, pods, ready, cache, phase, scalerVars>>

(* The operator dies between the annotation and the apply.                  *)
BounceCrash ==
  /\ Moved
  /\ ~bounce
  /\ bounce' = TRUE
  /\ UNCHANGED <<poolVars, target, clusterVars, phase, scalerVars>>

BounceHold ==
  /\ ~Moved
  /\ bounce
  /\ PodsLeft
  /\ isvc' = Rendered(0)
  /\ UNCHANGED <<poolVars, target, bounce, pods, ready, cache, phase, scalerVars>>

(* The status of the InferenceService, as far as it serves or not.          *)
Mirrored ==
  IF Replicas = 0 THEN "Idle" ELSE IF ready > 0 THEN "Ready" ELSE "Deploying"

BounceFinish ==
  /\ ~Moved
  /\ bounce
  /\ ~PodsLeft
  /\ bounce' = FALSE
  /\ cache' = Unbound
  /\ isvc' = Rendered(Replicas)
  /\ phase' = Mirrored
  /\ UNCHANGED <<poolVars, target, pods, ready, scalerVars>>

(* The operator dies, or its patch fails, after it deleted the cache and    *)
(* before it cleared the annotation.                                        *)
BounceCut ==
  /\ ~Moved
  /\ bounce
  /\ ~PodsLeft
  /\ cache' = Unbound
  /\ UNCHANGED <<poolVars, target, bounce, isvc, pods, ready, phase, scalerVars>>

ApplyByReplicas ==  \* mutant: zero live replicas are taken for a bounce under way
  /\ ~Moved
  /\ ~bounce
  /\ cache' = IF isvc.replicas = 0 /\ ~PodsLeft THEN Unbound ELSE cache
  /\ isvc' = Rendered(Replicas)
  /\ phase' = Mirrored
  /\ UNCHANGED <<poolVars, target, bounce, pods, ready, scalerVars>>

Apply ==
  /\ ~Moved
  /\ ~bounce
  /\ isvc' = Rendered(Replicas)
  /\ phase' = Mirrored
  /\ UNCHANGED <<poolVars, target, bounce, pods, ready, cache, scalerVars>>

Reconcile == BounceDrain \/ BounceHold \/ BounceFinish \/ Apply

(***************************************************************************)
(* A scaler tick: list and scrape, decide, then patch.  A full scrape sees *)
(* every request; of the pods that did not answer it knows nothing.        *)
(***************************************************************************)
Enough(answered) ==
  answered > 0 /\ answered * Quorum[2] >= ready * Quorum[1]

Latest(s) == IF Len(s) > DownTicks THEN SubSeq(s, 1, DownTicks) ELSE s

TickPartial(answered, seen) ==  \* mutant: a partial scrape proves idleness
  LET current == Replicas
      wanted == Desired((seen * ready) \div answered, spec)
      down == NextWindow(window, current, wanted)
      idle == IdleFor(window, seen)
      next == IF spec.min = 0 /\ current > 0 /\ idle >= SleepTicks
              THEN 0 ELSE down.next
  IN  /\ tick.pc = "off"
      /\ spec.max > spec.min
      /\ Enough(answered)
      /\ answered = ready => seen = Inflight
      /\ window' = [below |-> down.below, peak |-> down.peak, idle |-> idle]
      /\ recent' = Latest(<<wanted>> \o recent)
      /\ tick' = IF next = current THEN NoTick
                 ELSE [pc |-> "patch", to |-> next, busy |-> sent]
      /\ UNCHANGED <<poolVars, target, bounce, clusterVars, phase>>

Tick(answered, seen) ==
  LET full == answered = ready
      current == Replicas
      wanted == Desired((seen * ready) \div answered, spec)
      down == NextWindow(window, current, wanted)
      idle == IF full THEN IdleFor(window, seen) ELSE window.idle
      next == IF full /\ spec.min = 0 /\ current > 0 /\ idle >= SleepTicks
              THEN 0 ELSE down.next
  IN  /\ tick.pc = "off"
      /\ spec.max > spec.min
      /\ Enough(answered)
      /\ full => seen = Inflight
      /\ window' = [below |-> down.below, peak |-> down.peak, idle |-> idle]
      /\ recent' = Latest(<<wanted>> \o recent)
      /\ tick' = IF next = current THEN NoTick
                 ELSE [pc |-> "patch", to |-> next, busy |-> sent]
      /\ UNCHANGED <<poolVars, target, bounce, clusterVars, phase>>

(* The patch may fail; then the next tick decides anew.                     *)
TickPatch ==
  /\ tick.pc = "patch"
  /\ tick' = NoTick
  /\ \/ /\ target' = tick.to
        /\ window' = IF tick.to = 0 THEN [window EXCEPT !.idle = 0] ELSE window
     \/ UNCHANGED <<target, window>>
  /\ UNCHANGED <<poolVars, bounce, clusterVars, phase, recent>>

(* What an operator that forgets its windows does; they are in memory only. *)
OperatorRestart ==
  /\ window # EmptyWindow
  /\ window' = EmptyWindow
  /\ recent' = <<>>
  /\ tick' = NoTick
  /\ UNCHANGED <<poolVars, target, bounce, clusterVars, phase>>
(***************************************************************************)
(* The operator with plain clients: requests come while a pod is ready,    *)
(* and a deployment that sleeps is woken by the annotation.                *)
(***************************************************************************)
Send(r) ==
  /\ ready > 0
  /\ r \notin sent
  /\ sent' = sent \cup {r}
  /\ UNCHANGED operatorVars

Done(r) ==
  /\ r \in sent
  /\ sent' = sent \ {r}
  /\ UNCHANGED operatorVars

WakeUp ==
  /\ phase = "Idle"
  /\ target' = 1
  /\ UNCHANGED <<poolVars, bounce, clusterVars, phase, scalerVars, sent>>

OperatorNext ==
  \/ /\ \/ PodStart
        \/ PodReady
        \/ \E p \in Place : PodStop(p) \/ PoolEdit(p)
        \/ Reconcile
        \/ BounceCrash
        \/ BounceCut
        \/ PatchReplicas
        \/ \E answered \in 0..ready, seen \in 0..Inflight : Tick(answered, seen)
        \/ TickPatch
        \/ OperatorRestart
     /\ UNCHANGED sent
  \/ \E r \in Request : Send(r) \/ Done(r)
  \/ WakeUp

OperatorStart == OperatorInit /\ sent = {}

OperatorSpec == OperatorStart /\ [][OperatorNext]_<<operatorVars, sent>>

(***************************************************************************)
(* Properties                                                              *)
(***************************************************************************)

(* The types of the operator's variables; the replica counts stay within    *)
(* what some spec of the deployment allows.                                 *)
Replicable == 0..(CHOOSE n \in {Ceiling(k) : k \in Kinds \cup Offered} :
                    \A k \in Kinds \cup Offered : Ceiling(k) <= n)
OperatorTypeOK ==
  /\ \A f \in {"min", "max", "reserve"} : spec[f] \in Replicable
  /\ place \in Place /\ moves \in 0..spec.moves /\ patches \in 0..MaxPatches
  /\ target \in {NoTarget} \cup Replicable /\ bounce \in BOOLEAN
  /\ isvc \in [replicas : Replicable, place : Place, at : 0..spec.moves]
  /\ pods \in [Place -> Replicable] /\ ready \in Replicable
  /\ cache \in [place : Place \cup {"none"}, at : 0..spec.moves]
  /\ phase \in {"Pending", "Deploying", "Ready", "Idle"}
  /\ window \in [below : 0..DownTicks, peak : Replicable, idle : 0..SleepTicks]
  /\ recent \in Seq(Replicable) /\ Len(recent) <= DownTicks
  /\ tick \in [pc : {"off", "patch"}, to : Replicable, busy : SUBSET Request]
  /\ sent \subseteq Request

(* The scaler never decides to put a deployment to sleep on a scrape during *)
(* which a request was under way at the engine, however partial its sight.  *)
SleepOnlyIdle == tick.pc = "patch" /\ tick.to = 0 => tick.busy = {}

(* A decision to go down, short of sleep, comes only after DownTicks ticks  *)
(* that all asked for less, and lands on the most any of them asked for.    *)
ScaleDownLandsOnPeak ==
  [][LET to == tick'.to IN
     tick.pc = "off" /\ tick'.pc = "patch" /\ 0 < to /\ to < Replicas
       => /\ Len(recent') = DownTicks
          /\ \A i \in 1..DownTicks : recent'[i] <= to
          /\ \E i \in 1..DownTicks : recent'[i] = to]_<<operatorVars, sent>>

(* The model cache is deleted only after a placement move made it useless:  *)
(* not by a sleep, a wake, a scale-down or a restart of the operator.       *)
CacheLostOnlyByMove == [][cache # Unbound /\ cache' = Unbound => moves > cache.at]_<<operatorVars, sent>>
===============================================================================
