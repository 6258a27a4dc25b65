----------------------------- MODULE OperatorProofs -----------------------------
(***************************************************************************)
(* Proofs about Operator, for every set of requests, placements, specs and *)
(* replica counts and for every length of the two windows: the scaler puts *)
(* a deployment to sleep only on a scrape that saw no request, scales down *)
(* to the peak of a whole window, and the cache is lost only by a move.    *)
(***************************************************************************)
EXTENDS Operator, FiniteSetTheorems, TLAPS

allVars == <<operatorVars, sent>>

SpecRecord == [min : Nat, max : Nat, reserve : Nat, moves : Nat, parks : BOOLEAN]

(* What each variable holds, as far as the proofs need it.                  *)
Typed ==
  /\ spec \in SpecRecord
  /\ place \in Place /\ moves \in Nat
  /\ target \in Int
  /\ bounce \in BOOLEAN
  /\ isvc \in [replicas : Nat, place : Place, at : Nat]
  /\ pods \in [Place -> Nat]
  /\ ready \in Nat
  /\ window \in [below : Nat, peak : Nat, idle : Nat]
  /\ recent \in Seq(Nat)
  /\ tick.pc = "patch" => tick.to \in Nat
  /\ IsFiniteSet(sent)

(* The window's peak is the highest of the last window.below counts.        *)
WindowIsRecent ==
  /\ window.below < DownTicks
  /\ window.below <= Len(recent)
  /\ Len(recent) <= DownTicks
  /\ \A i \in 1..window.below : recent[i] <= window.peak
  /\ IF window.below = 0 THEN window.peak = 0
     ELSE \E i \in 1..window.below : recent[i] = window.peak

(* A bounce is under way only after a pool edit that the cache, and every   *)
(* engine pod that may still start, dates from before.                      *)
BouncedByMove ==
  /\ isvc.at <= moves
  /\ isvc.place # place => isvc.at < moves
  /\ cache # Unbound => cache.at \in Nat /\ cache.at <= isvc.at
  /\ bounce => /\ cache # Unbound => cache.at < moves
               /\ isvc.replicas > 0 => isvc.at < moves

IInv == Typed /\ WindowIsRecent /\ BouncedByMove /\ SleepOnlyIdle
-------------------------------------------------------------------------------
(* A clamped count is at least one: only the sleep branches yield zero      *)
(* (decide.go, clamp).                                                      *)
LEMMA ClampedIsPositive ==
  ASSUME NEW s \in SpecRecord, NEW n \in Int
  PROVE  Clamped(s, n) \in Nat \ {0}
  BY DEF SpecRecord, Clamped, Floor, Ceiling, Larger

(* The count that is rendered is a natural number.                          *)
LEMMA DesiredReplicasType ==
  ASSUME NEW s \in SpecRecord, NEW n \in Int
  PROVE  DesiredReplicas(s, n) \in Nat
  BY ClampedIsPositive DEF DesiredReplicas

(* What a tick wants is at least one replica.                               *)
LEMMA DesiredIsPositive ==
  ASSUME NEW s \in SpecRecord, NEW n \in Int
  PROVE  Desired(n, s) \in Nat \ {0}
  <1>1. n + s.reserve \in Int
    BY DEF SpecRecord
  <1>2. QED
    BY <1>1, ClampedIsPositive DEF Desired

(* The scaled sum of a partial scrape is an integer.                        *)
LEMMA ScaledType ==
  ASSUME NEW a \in Nat \ {0}, NEW b \in Nat, NEW c \in Nat
  PROVE  (b * c) \div a \in Int
  <1>1. b * c \in Int
    OBVIOUS
  <1>2. QED
    BY <1>1

(* The newest count first, the others one place further back, and no more   *)
(* than DownTicks of them.                                                  *)
LEMMA LatestShifts ==
  ASSUME NEW s \in Seq(Nat), NEW x \in Nat, Len(s) <= DownTicks
  PROVE  LET new == Latest(<<x>> \o s)
         IN  /\ new \in Seq(Nat)
             /\ Len(new) = IF Len(s) < DownTicks THEN Len(s) + 1 ELSE DownTicks
             /\ new[1] = x
             /\ \A i \in 1..(Len(new) - 1) : new[i + 1] = s[i]
  <1> DEFINE long == <<x>> \o s
  <1> USE ScalingAssumption
  <1>1. /\ long \in Seq(Nat)
        /\ Len(long) = Len(s) + 1
        /\ long[1] = x
        /\ \A i \in 1..Len(s) : long[i + 1] = s[i]
    OBVIOUS
  <1>2. Len(s) \in Nat /\ DownTicks \in Nat \ {0}
    OBVIOUS
  <1> HIDE DEF long
  <1>3. CASE Len(s) < DownTicks
    <2>1. Latest(long) = long
      BY <1>1, <1>2, <1>3 DEF Latest
    <2>2. long[1] = x /\ Len(long) - 1 = Len(s)
      BY <1>1, <1>2
    <2>3. QED
      BY <1>1, <1>2, <1>3, <2>1, <2>2 DEF long
  <1>4. CASE ~(Len(s) < DownTicks)
    <2> DEFINE cut == SubSeq(long, 1, DownTicks)
    <2>1. Latest(long) = cut
      BY <1>1, <1>2, <1>4 DEF Latest
    <2>2. /\ cut \in Seq(Nat)
          /\ Len(cut) = DownTicks
          /\ \A i \in 1..DownTicks : cut[i] = long[i]
      BY <1>1, <1>2, <1>4
    <2> HIDE DEF cut
    <2>3. Len(s) = DownTicks
      BY <1>2, <1>4
    <2>4. cut[1] = x
      BY <1>1, <1>2, <2>2
    <2>5. ASSUME NEW i \in 1..(Len(cut) - 1) PROVE cut[i + 1] = s[i]
      BY <1>1, <1>2, <2>2, <2>3
    <2>6. QED
      BY <1>2, <1>4, <2>1, <2>2, <2>4, <2>5 DEF long
  <1>5. QED
    BY <1>3, <1>4
-------------------------------------------------------------------------------
(* What the window becomes, and what a tick may ask for (decide.go, Decide):*)
(* the next count is at least one.                                          *)
LEMMA NextWindowType ==
  ASSUME NEW w \in [below : Nat, peak : Nat, idle : Nat],
         NEW current \in Nat, NEW wanted \in Nat \ {0}
  PROVE  LET down == NextWindow(w, current, wanted)
         IN  /\ down.below \in Nat /\ down.peak \in Nat /\ down.next \in Nat
             /\ down.next = 0 => current = 0
             /\ down.next # current => down.next > 0
             /\ down.below < DownTicks
             /\ down.next < current =>
                  /\ wanted < current
                  /\ w.below + 1 >= DownTicks
                  /\ down.next = Larger(w.peak, wanted)
  <1> DEFINE peak == Larger(w.peak, wanted)
  <1>1. peak \in Nat /\ peak >= wanted /\ w.below \in Nat
    BY DEF Larger
  <1>2. CASE wanted >= current
    BY <1>2, ScalingAssumption DEF NextWindow
  <1>3. CASE ~(wanted >= current) /\ w.below + 1 < DownTicks
    BY <1>1, <1>3, ScalingAssumption DEF NextWindow
  <1>4. CASE ~(wanted >= current) /\ ~(w.below + 1 < DownTicks)
    <2>1. NextWindow(w, current, wanted) = [next |-> peak, below |-> 0, peak |-> 0]
      BY <1>4 DEF NextWindow
    <2> HIDE DEF peak
    <2>2. QED
      BY <1>1, <1>4, <2>1, ScalingAssumption DEF peak
  <1>5. QED
    BY <1>2, <1>3, <1>4

(* A full scrape that saw no request saw that there is none.                *)
LEMMA SeenNone ==
  ASSUME IsFiniteSet(sent), NEW seen \in 0..Inflight, seen = Inflight,
         NEW w \in [below : Nat, peak : Nat, idle : Nat],
         IdleFor(w, seen) >= SleepTicks
  PROVE  sent = {}
  <1>1. Inflight \in Nat
    BY FS_CardinalityType DEF Inflight
  <1>2. seen = 0
    BY <1>1, ScalingAssumption DEF IdleFor
  <1>3. Cardinality(sent) = 0
    BY <1>2 DEF Inflight
  <1>4. QED
    BY <1>3, FS_EmptySet

(* A tick adds a count of at least one and decides by the window; it asks   *)
(* for zero replicas only when no request is under way (decide.go, Decide). *)
LEMMA TickOutcome ==
  ASSUME Typed, NEW answered \in 0..ready, NEW seen \in 0..Inflight,
         Tick(answered, seen)
  PROVE  \E wanted \in Nat \ {0} :
           LET down == NextWindow(window, Replicas, wanted)
           IN  /\ window'.below = down.below
               /\ window'.peak = down.peak
               /\ window' \in [below : Nat, peak : Nat, idle : Nat]
               /\ recent' = Latest(<<wanted>> \o recent)
               /\ \/ tick' = NoTick
                  \/ /\ tick'.pc = "patch" /\ tick'.busy = sent
                     /\ tick'.to \in Nat /\ tick'.to # Replicas
                     /\ tick'.to = 0 => sent = {}
                     /\ tick'.to > 0 => tick'.to = down.next
  <1> DEFINE wanted == Desired((seen * ready) \div answered, spec)
             down == NextWindow(window, Replicas, wanted)
             idle == IF answered = ready THEN IdleFor(window, seen) ELSE window.idle
             next == IF answered = ready /\ spec.min = 0 /\ Replicas > 0 /\ idle >= SleepTicks
                     THEN 0 ELSE down.next
  <1>1. seen \in Nat /\ ready \in Nat /\ answered \in Nat \ {0}
    <2>1. Inflight \in Nat
      BY FS_CardinalityType DEF Inflight, Typed
    <2>2. QED
      BY <2>1 DEF Tick, Enough, Typed
  <1>2. wanted \in Nat \ {0}
    BY <1>1, ScaledType, DesiredIsPositive DEF Typed
  <1>3. Replicas \in Nat
    BY DesiredReplicasType DEF Replicas, Typed
  <1>4. idle \in Nat
    BY <1>1, ScalingAssumption DEF Typed, IdleFor
  <1>5. /\ window' = [below |-> down.below, peak |-> down.peak, idle |-> idle]
        /\ recent' = Latest(<<wanted>> \o recent)
        /\ tick' = IF next = Replicas THEN NoTick
                   ELSE [pc |-> "patch", to |-> next, busy |-> sent]
        /\ answered = ready => seen = Inflight
    BY DEF Tick
  <1>6. window \in [below : Nat, peak : Nat, idle : Nat] /\ IsFiniteSet(sent)
    BY DEF Typed
  <1> HIDE DEF wanted
  <1>7. /\ down.below \in Nat /\ down.peak \in Nat /\ down.next \in Nat
        /\ down.next # Replicas => down.next > 0
    BY <1>2, <1>3, <1>6, NextWindowType
  <1> HIDE DEF down
  <1>8. next # Replicas /\ next = 0 => sent = {}
    BY <1>1, <1>3, <1>5, <1>6, <1>7, SeenNone
  <1>9. next # Replicas /\ next > 0 => next = down.next
    OBVIOUS
  <1>10. next \in Nat
    BY <1>7
  <1> HIDE DEF next, idle
  <1>11. window'.below = down.below /\ window'.peak = down.peak
         /\ window' \in [below : Nat, peak : Nat, idle : Nat]
    BY <1>4, <1>5, <1>7
  <1>12. \/ tick' = NoTick
         \/ /\ tick'.pc = "patch" /\ tick'.busy = sent
            /\ tick'.to \in Nat /\ tick'.to # Replicas
            /\ tick'.to = 0 => sent = {}
            /\ tick'.to > 0 => tick'.to = down.next
    BY <1>5, <1>8, <1>9, <1>10
  <1>13. QED
    BY <1>2, <1>5, <1>11, <1>12 DEF down
-------------------------------------------------------------------------------
(* A deployment just created satisfies the invariant.                       *)
LEMMA InitIInv == OperatorStart => IInv
  <1> SUFFICES ASSUME OperatorStart PROVE IInv
    OBVIOUS
  <1> USE DEF OperatorStart, OperatorInit
  <1>1. Typed
    <2>1. spec \in SpecRecord
      BY OperatorAssumption DEF SpecRecord
    <2>2. place \in Place
      BY OperatorAssumption
    <2>3. IsFiniteSet(sent)
      BY FS_EmptySet
    <2>4. /\ isvc \in [replicas : Nat, place : Place, at : Nat]
          /\ pods \in [Place -> Nat]
          /\ window \in [below : Nat, peak : Nat, idle : Nat]
      BY <2>2 DEF EmptyWindow
    <2>5. moves \in Nat /\ target \in Int /\ ready \in Nat /\ recent \in Seq(Nat)
      BY DEF NoTarget
    <2>8. bounce \in BOOLEAN
      OBVIOUS
    <2>6. tick.pc # "patch"
      BY DEF NoTick
    <2>7. QED
      BY <2>1, <2>2, <2>3, <2>4, <2>5, <2>6, <2>8 DEF Typed
  <1>2. WindowIsRecent
    BY ScalingAssumption DEF WindowIsRecent, EmptyWindow
  <1>3. BouncedByMove
    BY DEF BouncedByMove
  <1>4. SleepOnlyIdle
    BY DEF SleepOnlyIdle, NoTick
  <1>5. QED
    BY <1>1, <1>2, <1>3, <1>4 DEF IInv

(* Other replica counts leave the rest of the spec as it is.                *)
LEMMA PatchedSpec ==
  ASSUME Typed, PatchReplicas
  PROVE  spec' \in SpecRecord
  <1>1. PICK r \in Offered :
          spec' = [spec EXCEPT !.min = r.min, !.max = r.max, !.reserve = r.reserve]
    BY DEF PatchReplicas
  <1>2. r \in [min : Nat, max : Nat, reserve : Nat] /\ spec \in SpecRecord
    BY OperatorAssumption DEF Typed
  <1>3. QED
    BY <1>1, <1>2 DEF SpecRecord

(* Every step keeps the types.                                              *)
LEMMA TypedStep == Typed /\ [OperatorNext]_allVars => Typed'
  <1> SUFFICES ASSUME Typed, [OperatorNext]_allVars PROVE Typed'
    OBVIOUS
  <1> USE DEF Typed
  <1>1. DesiredReplicas(spec, target) \in Nat
    BY DesiredReplicasType
  <1>2. \A n \in Nat : Rendered(n) \in [replicas : Nat, place : Place, at : Nat]
    BY DEF Rendered
  <1>3. CASE PodStart /\ UNCHANGED sent
    <2>1. pods' \in [Place -> Nat]
      BY <1>3 DEF PodStart
    <2>2. QED
      BY <1>3, <2>1 DEF PodStart, poolVars, scalerVars
  <1>4. CASE PodReady /\ UNCHANGED sent
    BY <1>4 DEF PodReady, poolVars, scalerVars
  <1>5. ASSUME NEW p \in Place, PodStop(p), UNCHANGED sent PROVE Typed'
    <2>1. pods' \in [Place -> Nat]
      BY <1>5 DEF PodStop
    <2>2. ready' \in Nat
      BY <1>5 DEF PodStop
    <2>3. QED
      BY <1>5, <2>1, <2>2 DEF PodStop, poolVars, scalerVars
  <1>6. ASSUME NEW p \in Place, PoolEdit(p), UNCHANGED sent PROVE Typed'
    BY <1>6 DEF PoolEdit, clusterVars, scalerVars
  <1>7. CASE (Reconcile \/ BounceCrash \/ BounceCut) /\ UNCHANGED sent
    <2>1. isvc' \in [replicas : Nat, place : Place, at : Nat]
      BY <1>1, <1>2, <1>7 DEF Reconcile, BounceDrain, BounceHold, BounceFinish, Apply,
        BounceCrash, BounceCut, Replicas, clusterVars
    <2>2. bounce' \in BOOLEAN /\ UNCHANGED <<poolVars, target, pods, ready, scalerVars>>
      BY <1>7 DEF Reconcile, BounceDrain, BounceHold, BounceFinish, Apply,
        BounceCrash, BounceCut, clusterVars
    <2>3. QED
      BY <1>7, <2>1, <2>2 DEF poolVars, scalerVars
  <1>8. CASE PatchReplicas /\ UNCHANGED sent
    BY <1>8, PatchedSpec DEF PatchReplicas, clusterVars, scalerVars
  <1>9. ASSUME NEW answered \in 0..ready, NEW seen \in 0..Inflight,
               Tick(answered, seen), UNCHANGED sent
        PROVE  Typed'
    <2>1. UNCHANGED <<poolVars, target, bounce, clusterVars, phase>>
      BY <1>9 DEF Tick
    <2>2. PICK wanted \in Nat \ {0} :
            /\ window' \in [below : Nat, peak : Nat, idle : Nat]
            /\ recent' = Latest(<<wanted>> \o recent)
            /\ tick' = NoTick \/ (tick'.pc = "patch" /\ tick'.to \in Nat)
      BY <1>9, TickOutcome
    <2>3. recent' \in Seq(Nat)
      <3> DEFINE long == <<wanted>> \o recent
      <3>1. long \in Seq(Nat) /\ recent' = Latest(long)
        BY <2>2
      <3> HIDE DEF long
      <3>2. CASE Len(long) > DownTicks
        <4>1. SubSeq(long, 1, DownTicks) \in Seq(Nat)
          BY <3>1, <3>2, ScalingAssumption
        <4>2. QED
          BY <3>1, <3>2, <4>1 DEF Latest
      <3>3. CASE ~(Len(long) > DownTicks)
        BY <3>1, <3>3 DEF Latest
      <3>4. QED
        BY <3>2, <3>3
    <2>4. tick'.pc = "patch" => tick'.to \in Nat
      BY <2>2 DEF NoTick
    <2> HIDE DEF Typed
    <2>5. Typed'
      <3>1. /\ spec' = spec /\ place' = place /\ moves' = moves /\ target' = target
            /\ bounce' = bounce /\ isvc' = isvc /\ pods' = pods /\ ready' = ready
            /\ sent' = sent
        BY <1>9, <2>1 DEF poolVars, clusterVars
      <3>2. QED
        BY <2>2, <2>3, <2>4, <3>1 DEF Typed
    <2>6. QED
      BY <2>5
  <1>10. CASE TickPatch /\ UNCHANGED sent
    <2>1. window' \in [below : Nat, peak : Nat, idle : Nat] /\ target' \in Int
      <3>1. tick.to \in Nat
        BY <1>10 DEF TickPatch
      <3>2. \/ target' = tick.to /\ window' = IF tick.to = 0 THEN [window EXCEPT !.idle = 0]
                                                ELSE window
            \/ target' = target /\ window' = window
        BY <1>10 DEF TickPatch
      <3>3. [window EXCEPT !.idle = 0] \in [below : Nat, peak : Nat, idle : Nat]
        OBVIOUS
      <3>4. QED
        BY <3>1, <3>2, <3>3
    <2>2. QED
      BY <1>10, <2>1 DEF TickPatch, poolVars, clusterVars, NoTick
  <1>11. CASE OperatorRestart /\ UNCHANGED sent
    BY <1>11 DEF OperatorRestart, poolVars, clusterVars, NoTick, EmptyWindow
  <1>12. ASSUME NEW r \in Request, Send(r) \/ Done(r) PROVE Typed'
    <2>1. IsFiniteSet(sent')
      BY <1>12, FS_AddElement, FS_RemoveElement DEF Send, Done
    <2>2. QED
      BY <1>12, <2>1 DEF Send, Done, operatorVars, poolVars, clusterVars, scalerVars
  <1>13. CASE WakeUp
    BY <1>13 DEF WakeUp, poolVars, clusterVars, scalerVars
  <1>14. CASE UNCHANGED allVars
    BY <1>14 DEF allVars, operatorVars, poolVars, clusterVars, scalerVars
  <1>15. QED
    BY <1>3, <1>4, <1>5, <1>6, <1>7, <1>8, <1>9, <1>10, <1>11, <1>12, <1>13, <1>14
    DEF OperatorNext
-------------------------------------------------------------------------------
(* Only a tick, its patch and a restart touch the scaler's variables.       *)
LEMMA ScalerUntouched ==
  ASSUME [OperatorNext]_allVars
  PROVE  \/ UNCHANGED scalerVars
         \/ \E answered \in 0..ready, seen \in 0..Inflight : Tick(answered, seen)
         \/ TickPatch
         \/ OperatorRestart
  BY DEF OperatorNext, allVars, operatorVars, PodStart, PodReady, PodStop, PoolEdit,
    Reconcile, BounceDrain, BounceHold, BounceFinish, Apply, BounceCrash, BounceCut,
    PatchReplicas, Send, Done, WakeUp

(* A tick adds its count to the recent ones as it does to the window: below *)
(* is the number of lower ticks, and peak the highest of them.              *)
LEMMA WindowShifts ==
  ASSUME Typed, WindowIsRecent, NEW wanted \in Nat \ {0}, NEW current \in Nat,
         recent' = Latest(<<wanted>> \o recent),
         window'.below = NextWindow(window, current, wanted).below,
         window'.peak = NextWindow(window, current, wanted).peak
  PROVE  WindowIsRecent'
  <1> DEFINE peak == Larger(window.peak, wanted)
  <1>1. /\ window.below \in Nat /\ window.peak \in Nat /\ recent \in Seq(Nat)
        /\ Len(recent) <= DownTicks /\ window.below <= Len(recent)
        /\ window.below < DownTicks /\ DownTicks \in Nat \ {0} /\ Len(recent) \in Nat
    BY ScalingAssumption DEF Typed, WindowIsRecent
  <1>2. /\ recent' \in Seq(Nat)
        /\ Len(recent') = IF Len(recent) < DownTicks THEN Len(recent) + 1 ELSE DownTicks
        /\ recent'[1] = wanted
        /\ \A i \in 1..(Len(recent') - 1) : recent'[i + 1] = recent[i]
    BY <1>1, LatestShifts
  <1>3. peak \in Nat /\ peak >= wanted /\ peak >= window.peak
        /\ (peak = wanted \/ peak = window.peak)
    BY <1>1 DEF Larger
  <1>4. Len(recent') <= DownTicks /\ Len(recent') >= 1
    BY <1>1, <1>2
  <1>5. CASE window'.below = 0 /\ window'.peak = 0
    BY <1>1, <1>4, <1>5 DEF WindowIsRecent
  <1>6. CASE /\ window.below + 1 < DownTicks
             /\ window'.below = window.below + 1 /\ window'.peak = peak
    <2> HIDE DEF peak
    <2>1. Len(recent') >= window.below + 1
      BY <1>1, <1>2, <1>6
    <2>2. ASSUME NEW i \in 1..window.below
          PROVE  recent[i] \in Nat /\ recent'[i + 1] = recent[i]
      <3>1. Len(recent') \in Nat
        BY <1>2
      <3>2. i \in 1..Len(recent) /\ i \in 1..(Len(recent') - 1)
        BY <1>1, <2>1, <3>1
      <3>3. recent[i] \in Nat
        BY <1>1, <3>2
      <3>4. QED
        BY <1>2, <3>2, <3>3
    <2>3. ASSUME NEW i \in 1..(window.below + 1) PROVE recent'[i] <= peak
      <3>1. CASE i = 1
        BY <1>2, <1>3, <3>1
      <3>2. CASE i # 1
        <4>1. i - 1 \in 1..window.below /\ (i - 1) + 1 = i
          BY <1>1, <3>2
        <4>2. recent'[i] = recent[i - 1] /\ recent[i - 1] <= window.peak
              /\ recent[i - 1] \in Nat
          BY <4>1, <2>2 DEF WindowIsRecent
        <4>3. QED
          BY <1>1, <1>3, <4>2
      <3>3. QED
        BY <3>1, <3>2
    <2>4. \E i \in 1..(window.below + 1) : recent'[i] = peak
      <3>1. CASE peak = wanted
        BY <1>1, <1>2, <3>1
      <3>2. CASE peak = window.peak /\ window.below > 0
        <4>1. PICK i \in 1..window.below : recent[i] = window.peak
          BY <1>1, <3>2 DEF WindowIsRecent
        <4>2. recent'[i + 1] = peak
          BY <2>2, <3>2, <4>1
        <4>4. i + 1 \in 1..(window.below + 1)
          BY <1>1
        <4>5. QED
          BY <4>2, <4>4
      <3>3. CASE window.below = 0
        <4>1. peak = wanted
          BY <1>3, <3>3 DEF WindowIsRecent
        <4>2. QED
          BY <3>1, <4>1
      <3>4. QED
        BY <1>1, <1>3, <3>1, <3>2, <3>3
    <2>5. QED
      BY <1>1, <1>4, <1>6, <2>1, <2>3, <2>4 DEF WindowIsRecent
  <1>7. QED
    BY <1>1, <1>5, <1>6 DEF NextWindow

(* Every step keeps the window a summary of the recent counts.              *)
LEMMA WindowStep == Typed /\ WindowIsRecent /\ [OperatorNext]_allVars => WindowIsRecent'
  <1> SUFFICES ASSUME Typed, WindowIsRecent, [OperatorNext]_allVars
               PROVE  WindowIsRecent'
    OBVIOUS
  <1>1. CASE UNCHANGED scalerVars
    BY <1>1 DEF scalerVars, WindowIsRecent
  <1>2. ASSUME NEW answered \in 0..ready, NEW seen \in 0..Inflight, Tick(answered, seen)
        PROVE  WindowIsRecent'
    <2>1. Replicas \in Nat
      BY DesiredReplicasType DEF Replicas, Typed
    <2>2. PICK wanted \in Nat \ {0} :
            /\ window'.below = NextWindow(window, Replicas, wanted).below
            /\ window'.peak = NextWindow(window, Replicas, wanted).peak
            /\ recent' = Latest(<<wanted>> \o recent)
      BY <1>2, TickOutcome
    <2>3. QED
      BY <2>1, <2>2, WindowShifts
  <1>3. CASE TickPatch
    <2>1. window'.below = window.below /\ window'.peak = window.peak /\ recent' = recent
      BY <1>3 DEF TickPatch, Typed
    <2>2. QED
      BY <2>1 DEF WindowIsRecent
  <1>4. CASE OperatorRestart
    BY <1>4, ScalingAssumption DEF OperatorRestart, EmptyWindow, WindowIsRecent
  <1>5. QED
    BY <1>1, <1>2, <1>3, <1>4, ScalerUntouched

(* A tick's decision to sleep is remembered with the requests it was made   *)
(* under, until it is patched or forgotten.                                 *)
LEMMA SleepStep == Typed /\ SleepOnlyIdle /\ [OperatorNext]_allVars => SleepOnlyIdle'
  <1> SUFFICES ASSUME Typed, SleepOnlyIdle, [OperatorNext]_allVars
               PROVE  SleepOnlyIdle'
    OBVIOUS
  <1>1. CASE UNCHANGED scalerVars
    BY <1>1 DEF scalerVars, SleepOnlyIdle
  <1>2. ASSUME NEW answered \in 0..ready, NEW seen \in 0..Inflight, Tick(answered, seen)
        PROVE  SleepOnlyIdle'
    <2>1. \/ tick' = NoTick
          \/ tick'.busy = sent /\ (tick'.to = 0 => sent = {})
      BY <1>2, TickOutcome
    <2>2. QED
      BY <2>1 DEF SleepOnlyIdle, NoTick
  <1>3. CASE TickPatch \/ OperatorRestart
    BY <1>3 DEF TickPatch, OperatorRestart, SleepOnlyIdle, NoTick
  <1>4. QED
    BY <1>1, <1>2, <1>3, ScalerUntouched
-------------------------------------------------------------------------------
(* Every step keeps what a bounce relies on.                                *)
LEMMA BounceStep == Typed /\ BouncedByMove /\ [OperatorNext]_allVars => BouncedByMove'
  <1> SUFFICES ASSUME Typed, BouncedByMove, [OperatorNext]_allVars
               PROVE  BouncedByMove'
    OBVIOUS
  <1>1. /\ isvc.at \in Nat /\ moves \in Nat /\ isvc.replicas \in Nat
        /\ pods \in [Place -> Nat] /\ isvc.place \in Place
    BY DEF Typed
  <1>2. CASE PodStart
    <2>1. isvc.replicas > 0
      BY <1>1, <1>2 DEF PodStart
    <2>2. cache' = IF cache = Unbound THEN [place |-> isvc.place, at |-> isvc.at] ELSE cache
      BY <1>2 DEF PodStart
    <2>3. UNCHANGED <<isvc, moves, place, bounce>>
      BY <1>2 DEF PodStart, poolVars
    <2>4. QED
      BY <1>1, <2>1, <2>2, <2>3 DEF BouncedByMove
  <1>3. ASSUME NEW p \in Place, PoolEdit(p) PROVE BouncedByMove'
    <2>1. moves' = moves + 1 /\ UNCHANGED <<isvc, cache, bounce>>
      BY <1>3 DEF PoolEdit, clusterVars
    <2>2. QED
      BY <1>1, <2>1 DEF BouncedByMove
  <1>4. CASE BounceDrain \/ BounceHold
    <2>1. /\ isvc' = [replicas |-> 0, place |-> place, at |-> moves]
          /\ UNCHANGED <<cache, place, moves>>
          /\ bounce \/ Moved
      BY <1>4 DEF BounceDrain, BounceHold, Rendered, poolVars
    <2>2. QED
      BY <1>1, <2>1 DEF BouncedByMove, Moved
  <1>5. CASE BounceFinish
    <2>1. /\ isvc'.place = place /\ isvc'.at = moves /\ ~bounce'
          /\ cache' = Unbound /\ place' = place /\ moves' = moves
      BY <1>5 DEF BounceFinish, Rendered, poolVars
    <2>2. QED
      BY <1>1, <2>1 DEF BouncedByMove
  <1>6. CASE Apply
    <2>1. /\ isvc'.place = place /\ isvc'.at = moves /\ ~bounce'
          /\ UNCHANGED <<cache, place, moves>>
      BY <1>6 DEF Apply, Rendered, poolVars
    <2>2. QED
      BY <1>1, <2>1 DEF BouncedByMove
  <1>7. CASE BounceCrash
    <2>1. Moved /\ UNCHANGED <<isvc, cache, place, moves>>
      BY <1>7 DEF BounceCrash, poolVars, clusterVars
    <2>2. QED
      BY <1>1, <2>1 DEF BouncedByMove, Moved
  <1>8. CASE BounceCut
    <2>1. cache' = Unbound /\ UNCHANGED <<isvc, place, moves, bounce>>
      BY <1>8 DEF BounceCut, poolVars
    <2>2. QED
      BY <2>1 DEF BouncedByMove
  <1>9. CASE UNCHANGED <<isvc, cache, place, moves, bounce>>
    BY <1>9 DEF BouncedByMove
  <1>10. QED
    BY <1>2, <1>3, <1>4, <1>5, <1>6, <1>7, <1>8, <1>9
    DEF OperatorNext, allVars, operatorVars, poolVars, clusterVars, Reconcile, PodReady,
      PodStop, PatchReplicas, Tick, TickPatch, OperatorRestart, Send, Done, WakeUp

(* The invariant holds of every reachable state.                            *)
THEOREM Invariant == OperatorSpec => []IInv
  <1>1. IInv /\ [OperatorNext]_allVars => IInv'
    BY TypedStep, WindowStep, BounceStep, SleepStep DEF IInv
  <1>2. QED
    BY InitIInv, <1>1, PTL DEF OperatorSpec, allVars

(* The scaler never decides to put a deployment to sleep while a request is *)
(* under way at its engine, although scrapes may be partial, requests come  *)
(* and go between scrape and patch, and the operator restarts (decide.go).  *)
THEOREM SleepsOnlyIdle == OperatorSpec => []SleepOnlyIdle
  <1>1. IInv => SleepOnlyIdle
    BY DEF IInv
  <1>2. QED
    BY Invariant, <1>1, PTL

(* A scale-down short of sleep comes only after DownTicks ticks that all    *)
(* asked for less, and lands on the most that any of them asked for         *)
(* (decide.go, the peak of History).                                        *)
THEOREM ScalesDownToPeak == OperatorSpec => ScaleDownLandsOnPeak
  <1> DEFINE Lands ==
        tick.pc = "off" /\ tick'.pc = "patch" /\ 0 < tick'.to /\ tick'.to < Replicas
          => /\ Len(recent') = DownTicks
             /\ \A i \in 1..DownTicks : recent'[i] <= tick'.to
             /\ \E i \in 1..DownTicks : recent'[i] = tick'.to
  <1>1. IInv /\ [OperatorNext]_allVars => Lands
    <2> SUFFICES ASSUME IInv, [OperatorNext]_allVars, tick.pc = "off",
                        tick'.pc = "patch", 0 < tick'.to, tick'.to < Replicas
                 PROVE  /\ Len(recent') = DownTicks
                        /\ \A i \in 1..DownTicks : recent'[i] <= tick'.to
                        /\ \E i \in 1..DownTicks : recent'[i] = tick'.to
      OBVIOUS
    <2>1. PICK answered \in 0..ready, seen \in 0..Inflight : Tick(answered, seen)
      BY ScalerUntouched DEF scalerVars, TickPatch, OperatorRestart, NoTick
    <2>2. Typed /\ WindowIsRecent
      BY DEF IInv
    <2>3. Replicas \in Nat
      BY <2>2, DesiredReplicasType DEF Replicas, Typed
    <2>4. PICK wanted \in Nat \ {0} :
            /\ recent' = Latest(<<wanted>> \o recent)
            /\ tick'.to \in Nat
            /\ tick'.to = NextWindow(window, Replicas, wanted).next
      BY <2>1, <2>2, TickOutcome DEF NoTick
    <2>5. window \in [below : Nat, peak : Nat, idle : Nat]
      BY <2>2 DEF Typed
    <2>6. window.below + 1 >= DownTicks /\ tick'.to = Larger(window.peak, wanted)
      BY <2>3, <2>4, <2>5, NextWindowType
    <2>7. /\ recent \in Seq(Nat) /\ Len(recent) \in Nat /\ window.peak \in Nat
          /\ window.below = DownTicks - 1
          /\ Len(recent) >= DownTicks - 1 /\ Len(recent) <= DownTicks
          /\ DownTicks \in Nat \ {0}
      BY <2>2, <2>5, <2>6, ScalingAssumption DEF Typed, WindowIsRecent
    <2>8. /\ Len(recent') = DownTicks
          /\ recent'[1] = wanted
          /\ \A i \in 1..(DownTicks - 1) : recent'[i + 1] = recent[i]
      <3>1. /\ Len(recent') = IF Len(recent) < DownTicks THEN Len(recent) + 1 ELSE DownTicks
            /\ recent'[1] = wanted
            /\ \A i \in 1..(Len(recent') - 1) : recent'[i + 1] = recent[i]
        BY <2>4, <2>7, LatestShifts
      <3>2. Len(recent') = DownTicks
        BY <2>7, <3>1
      <3>3. QED
        BY <3>1, <3>2
    <2>9. tick'.to >= wanted /\ tick'.to >= window.peak
          /\ (tick'.to = wanted \/ tick'.to = window.peak)
      BY <2>6, <2>7 DEF Larger
    <2>10. ASSUME NEW i \in 1..DownTicks PROVE recent'[i] <= tick'.to
      <3>1. CASE i = 1
        BY <2>8, <2>9, <3>1
      <3>2. CASE i # 1
        <4>1. i - 1 \in 1..window.below /\ (i - 1) + 1 = i /\ i - 1 \in 1..Len(recent)
          BY <2>7, <3>2
        <4>2. recent'[i] = recent[i - 1]
          BY <2>7, <2>8, <4>1
        <4>3. recent[i - 1] <= window.peak /\ recent[i - 1] \in Nat
          BY <2>2, <2>7, <4>1 DEF WindowIsRecent
        <4>4. QED
          BY <2>4, <2>7, <2>9, <4>2, <4>3
      <3>3. QED
        BY <3>1, <3>2
    <2>11. \E i \in 1..DownTicks : recent'[i] = tick'.to
      <3>1. CASE tick'.to = wanted
        BY <2>7, <2>8, <3>1
      <3>2. CASE tick'.to = window.peak /\ window.below > 0
        <4>1. PICK i \in 1..window.below : recent[i] = window.peak
          BY <2>2, <2>7, <3>2 DEF WindowIsRecent
        <4>2. recent'[i + 1] = tick'.to
          BY <2>7, <2>8, <3>2, <4>1
        <4>3. i + 1 \in 1..DownTicks
          BY <2>7, <4>1
        <4>4. QED
          BY <4>2, <4>3
      <3>3. CASE window.below = 0
        <4>1. window.peak = 0
          BY <2>2, <3>3 DEF WindowIsRecent
        <4>2. tick'.to = wanted
          BY <2>7, <2>9, <4>1
        <4>3. QED
          BY <3>1, <4>2
      <3>4. QED
        BY <2>7, <2>9, <3>1, <3>2, <3>3
    <2>12. QED
      BY <2>8, <2>10, <2>11
  <1>2. QED
    BY Invariant, <1>1, PTL DEF OperatorSpec, ScaleDownLandsOnPeak, allVars

(* The model cache is deleted only after a pool edit made it useless: not   *)
(* by a sleep, a wake, a scale-down or a crash between two steps of the     *)
(* bounce (cache_bounce.go).                                                *)
THEOREM CacheOutlivesAll == OperatorSpec => CacheLostOnlyByMove
  <1>1. IInv /\ [OperatorNext]_allVars
          => (cache # Unbound /\ cache' = Unbound => moves > cache.at)
    <2> SUFFICES ASSUME BouncedByMove, [OperatorNext]_allVars, cache # Unbound,
                        cache' = Unbound
                 PROVE  moves > cache.at
      BY DEF IInv
    <2>1. BounceFinish \/ BounceCut
      BY DEF OperatorNext, allVars, operatorVars, clusterVars, PodStart, PodReady, PodStop,
        PoolEdit, Reconcile, BounceDrain, BounceHold, Apply, BounceCrash, PatchReplicas,
        Tick, TickPatch, OperatorRestart, Send, Done, WakeUp
    <2>2. QED
      BY <2>1 DEF BounceFinish, BounceCut, BouncedByMove
  <1>2. QED
    BY Invariant, <1>1, PTL DEF OperatorSpec, CacheLostOnlyByMove, allVars
===============================================================================
