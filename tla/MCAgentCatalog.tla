---------------------------- MODULE MCAgentCatalog ----------------------------
(* Instances of AgentCatalog for TLC.                                       *)
EXTENDS AgentCatalog

CONSTANTS e1, e2, k, w1, w2

Writing(w) == [env |-> e1, skills |-> {k}, writes |-> {w}, reads |-> {}, mcp |-> TRUE]
Reading == [env |-> e2, skills |-> {}, writes |-> {}, reads |-> {w1}, mcp |-> FALSE]
MCConfigs == {Writing(w1), Reading}
===============================================================================
