---------------------------- MODULE MCSessionTurns ----------------------------
(* Model values, symmetry and a later start for the runs of SessionTurns.   *)
EXTENDS SessionTurns, TLC

CONSTANTS h1, h2, h3

TwoHandlers == {h1, h2}
HandlerSymmetry == Permutations(Handler)

(* A session at rest: turn 0 ended, and its checkpoint is the current one.  *)
Resting ==
  /\ status = "idle" /\ turns = 0 /\ checkpoint = 0
  /\ parked = NoLaunch
  /\ files = {0}
  /\ quiet = FALSE
  /\ job = [t \in Turn |-> IF t = 0 THEN "live" ELSE "none"]
  /\ pod = [t \in Turn |-> IF t = 0 THEN [pc |-> "gone", env |-> NoFile, saved |-> 0] ELSE NoPod]
  /\ wire = [t \in Turn |-> [final |-> 0, crash |-> 0]]
  /\ handler = [h \in Handler |-> Free]
  /\ doomed = {}
  /\ restarts = 0

RestingSpec == Resting /\ [][Next]_vars /\ Fairness
===============================================================================
