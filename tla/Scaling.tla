-------------------------------- MODULE Scaling --------------------------------
(***************************************************************************)
(* The arithmetic of replica counts: what the operator makes of the        *)
(* target-replicas annotation, and what the scaler makes of one tick's     *)
(* queue depth.  A deployment's spec is a record with the fields min, max  *)
(* and reserve; a window is the scaler's History, [below, peak, idle].     *)
(***************************************************************************)
EXTENDS Integers

CONSTANTS
  DownTicks,      \* lower ticks before a scale-down
  SleepTicks      \* idle ticks before a deployment with min 0 sleeps

ASSUME ScalingAssumption ==
  /\ DownTicks \in Nat \ {0}
  /\ SleepTicks \in Nat \ {0}

NoTarget == -1    \* the annotation is missing, or is no number

Larger(a, b) == IF a < b THEN b ELSE a
Floor(spec) == Larger(spec.min, 1)
Ceiling(spec) == Larger(spec.max, Floor(spec))

Clamped(spec, n) ==
  IF n < Floor(spec) THEN Floor(spec)
  ELSE IF n > Ceiling(spec) THEN Ceiling(spec) ELSE n

(* The replicas to render: zero only when asked for and allowed.            *)
DesiredReplicas(spec, target) ==
  IF target = 0 /\ spec.min = 0 THEN 0 ELSE Clamped(spec, target)

(* Demand and reserve, within the bounds.                                   *)
Desired(inflight, spec) == Clamped(spec, inflight + spec.reserve)

EmptyWindow == [below |-> 0, peak |-> 0, idle |-> 0]

NextWindowSinks(w, current, desired) ==  \* mutant: lands on the last tick's count
  IF desired >= current THEN [next |-> desired, below |-> 0, peak |-> 0]
  ELSE IF w.below + 1 < DownTicks
  THEN [next |-> current, below |-> w.below + 1, peak |-> desired]
  ELSE [next |-> desired, below |-> 0, peak |-> 0]

(* One tick: up at once, down at the end of the window, to its peak.        *)
NextWindow(w, current, desired) ==
  LET peak == Larger(w.peak, desired)
  IN  IF desired >= current THEN [next |-> desired, below |-> 0, peak |-> 0]
      ELSE IF w.below + 1 < DownTicks
      THEN [next |-> current, below |-> w.below + 1, peak |-> peak]
      ELSE [next |-> peak, below |-> 0, peak |-> 0]

(* Idle ticks so far; counting stops where it makes no more difference.     *)
IdleFor(w, inflight) ==
  IF inflight > 0 THEN 0
  ELSE IF w.idle < SleepTicks THEN w.idle + 1 ELSE SleepTicks
===============================================================================
