------------------------------ MODULE MCOperator -------------------------------
(* Small instances of Operator for TLC: a deployment that sleeps, and one   *)
(* that is moved to another placement and back.                             *)
EXTENDS Operator

MCQuorum == <<1, 2>>
\* Counts to fix the size, to let it sleep and to raise it; and a pair the route refuses.
MCCounts(least, most, spare) == [min |-> least, max |-> most, reserve |-> spare]
MCOffered == {MCCounts(1, 1, 0), MCCounts(0, 1, 0), MCCounts(1, 3, 0), MCCounts(2, 1, 0)}
MCKinds == {
  [min |-> 0, max |-> 3, reserve |-> 1, moves |-> 0, parks |-> FALSE],
  [min |-> 0, max |-> 2, reserve |-> 0, moves |-> 2, parks |-> FALSE] }
===============================================================================
