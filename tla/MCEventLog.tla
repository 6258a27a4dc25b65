------------------------------ MODULE MCEventLog ------------------------------
(* Followers for the runs of EventLog.                                      *)
EXTENDS EventLog

MCFollower == {"console", "client", "parent"}
ResultTwice == [result |-> 2, idle |-> 1, failed |-> 1]
===============================================================================
