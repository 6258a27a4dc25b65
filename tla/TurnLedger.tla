------------------------------ MODULE TurnLedger ------------------------------
(***************************************************************************)
(* What the control plane promises about the turns of one session,         *)
(* whatever its handlers, pods and retries do:                             *)
(*                                                                         *)
(*   - turns are numbered one after the other, a new one only ever adds 1; *)
(*   - a turn gets a pod at most once, and only after it was accepted;     *)
(*   - the resume checkpoint is only ever replaced by the one that the     *)
(*     latest turn produced, so resuming never goes back in history.       *)
(*                                                                         *)
(* SessionTurns is shown to implement this module.                         *)
(***************************************************************************)
EXTENDS Integers

CONSTANT MaxTurn            \* highest turn number the instance reaches

VARIABLES
  turns,                    \* number of the latest accepted turn
  launched,                 \* the turns that ever got a pod
  checkpoint                \* turn whose checkpoint a resume starts from

ledgerVars == <<turns, launched, checkpoint>>

NoFile == -1

Init ==
  /\ turns = 0
  /\ launched = {}
  /\ checkpoint = NoFile

(* A follow-up message is accepted as a turn of its own. *)
Accept ==
  /\ turns < MaxTurn
  /\ turns' = turns + 1
  /\ UNCHANGED <<launched, checkpoint>>

(* An accepted turn gets its pod. *)
Launch(t) ==
  /\ t <= turns
  /\ t \notin launched
  /\ launched' = launched \union {t}
  /\ UNCHANGED <<turns, checkpoint>>

(* The pod of the latest turn hands in its checkpoint. *)
Commit ==
  /\ turns \in launched
  /\ checkpoint' = turns
  /\ UNCHANGED <<turns, launched>>

Next ==
  \/ Accept
  \/ \E t \in 0..MaxTurn : Launch(t)
  \/ Commit

Spec == Init /\ [][Next]_ledgerVars
===============================================================================
