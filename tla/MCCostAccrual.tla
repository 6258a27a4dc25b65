----------------------------- MODULE MCCostAccrual -----------------------------
(* A small instance of CostAccrual, time in half minutes: a running session  *)
(* with a follow-up, or a deployment.                                       *)
EXTENDS CostAccrual, TLC
CONSTANTS s1, d1, w1, w2
Ledgers == {{"deployment_time", "session_time"}, {"env_pod"}}
Workers == Permutations({w1, w2})
MCInit ==
  /\ Init
  /\ \A s \in Session : IF served = {} THEN status[s] = "running" /\ turn[s] = 0
                         ELSE status[s] = "rest" /\ turn[s] = MaxTurn
MCSpec == MCInit /\ [][Next]_vars
===============================================================================
