---------------------------- MODULE GatewayRouting -----------------------------
(***************************************************************************)
(* What the gateway does with a call before it reaches a model: the key is *)
(* checked, the name is looked up among the routings, the routing's rules  *)
(* are evaluated against the deployments known, the spend so far and a     *)
(* classifier's verdict, and the rollout guard looks at the configuration  *)
(* this replica has loaded.  Every lookup goes through a cache with a time *)
(* to live, and every query behind one may fail.  Beside the calls stand   *)
(* the routes that change the tables, and the sync that writes them into   *)
(* the configuration the replicas load when they are rolled.               *)
(***************************************************************************)
EXTENDS Naturals, Sequences, FiniteSets

CONSTANTS
  Request,        \* calls under way in one gateway replica
  External,       \* those sent with an API key, not the platform's own
  Name,           \* the name they call, of a routing and of a deployment
  Model,          \* deployments and external endpoints, Name among them
  Local,          \* the deployments among them
  Routings,       \* definitions an administrator may give the routing
  KeyTTL, RefusedTTL, RulesTTL, TargetsTTL, CostTTL, StateTTL,
  Budget,         \* the threshold of a cost condition
  MaxFailures,    \* bound: queries that fail
  MaxEdits        \* bound: changes of the tables and of the configuration

LongAgo == StateTTL + 1
Never == StateTTL + 2

NoRouting == [rules |-> <<>>, terminal |-> "none"]
Condition == {"cost", "available", "classify", "chance"}

ASSUME GatewayAssumption ==
  /\ Name \in Model
  /\ External \subseteq Request /\ Local \subseteq Model
  /\ \A d \in Routings :
       /\ d.terminal \in Model \cup {"reject"}
       /\ d.rules \in Seq([target : Model, conds : SUBSET Condition])
  /\ {KeyTTL, RefusedTTL, RulesTTL, TargetsTTL, CostTTL, StateTTL, Budget} \subseteq Nat \ {0}
  /\ MaxFailures \in Nat /\ MaxEdits \in Nat

VARIABLES
  active,         \* the key and its workspace are active
  routing,        \* the row of the routing, or NoRouting
  present,        \* deployments and endpoints with a row
  up,             \* those of them that are Ready, Idle or external
  spent,          \* what gateway_usage adds up to
  config,         \* litellm-config: the routes it has, and whether a blackhole
  loaded,         \* the configuration this replica started with
  keys, rules, targets, costs,      \* the caches: [left, val], val of one element at most
  states,         \* the cache of routing states, per model
  req,            \* the calls
  failures, edits,
  \* history: for how long the key is revoked and the budget spent, and how
  \* long ago each model was last away
  revokedFor, overFor, away

rows == <<active, routing, present, up, spent>>
tables == <<rows, config, loaded>>
caches == <<keys, rules, targets, costs, states>>
history == <<revokedFor, overFor, away>>
vars == <<tables, caches, req, failures, edits, history>>

Nothing == "nothing"
Empty == [left |-> 0, val |-> {}]
Cached(c) == c.left > 0
Held(c) == CHOOSE v \in c.val : TRUE
Put(val, ttl) == [left |-> ttl, val |-> {val}]

Arrived == [pc |-> "auth", def |-> NoRouting, seen |-> {}, up |-> {}, idx |-> 1, verdict |-> Nothing,
            label |-> {}, out |-> Nothing, over |-> 0, revoked |-> 0,
            away |-> Never, marked |-> FALSE]
Done == [Arrived EXCEPT !.pc = "done"]
Goto(r, pc) == req' = [req EXCEPT ![r].pc = pc]
Ended(r, out) == [Arrived EXCEPT !.pc = "end", !.def = req[r].def, !.verdict = req[r].verdict,
                                 !.out = out]
End(r, out) == req' = [req EXCEPT ![r] = Ended(r, out)]
(* A call that goes on to the model, with nothing left to remember of the   *)
(* rules that led there.                                                    *)
Resolved(def, verdict) == [Arrived EXCEPT !.pc = "guard", !.def = def, !.verdict = verdict]
Spend == failures < MaxFailures /\ failures' = failures + 1

(***************************************************************************)
(* buildGatewayConfig: deployments that are Ready or Idle and the external *)
(* endpoints are routed; a routing's name is listed with an address that   *)
(* answers nothing, unless a model has the name.                           *)
(***************************************************************************)
GatewayConfig(models, def) ==
  [routes |-> models, hole |-> def # NoRouting /\ Name \notin models]

Init ==
  /\ active = TRUE
  /\ routing \in Routings \cup {NoRouting}
  /\ present = Model \/ \E m \in Model : present = Model \ {m}
  /\ up = present
  /\ config = GatewayConfig(up, routing) /\ loaded = config
  /\ spent = 0
  /\ keys = Empty /\ rules = Empty /\ targets = Empty /\ costs = Empty
  /\ states = [m \in Model |-> Empty]
  /\ req = [r \in Request |-> Done]
  /\ failures = 0 /\ edits = 0
  /\ revokedFor = 0 /\ overFor = 0
  /\ away = [m \in Model |-> IF m \in present THEN Never ELSE 0]

Arrive(r) ==
  /\ req[r].pc = "done"
  /\ \E marked \in BOOLEAN :
       req' = [req EXCEPT ![r] = [Arrived EXCEPT !.pc = IF r \in External THEN "auth" ELSE "lookup",
                                                 !.marked = marked]]
  /\ UNCHANGED <<tables, caches, failures, edits, history>>

(***************************************************************************)
(* user_custom_auth.  No stale entry is used, so a failed query refuses.   *)
(***************************************************************************)
AuthRead(r, ok) ==
  IF ok THEN req' = [req EXCEPT ![r].pc = "lookup", ![r].revoked = revokedFor]
  ELSE End(r, "refused")

AuthStale(r) ==  \* mutant: a stale entry outlives a failed query
  /\ req[r].pc = "auth"
  /\ \/ /\ Cached(keys)
        /\ AuthRead(r, Held(keys))
        /\ UNCHANGED <<keys, failures>>
     \/ /\ ~Cached(keys)
        /\ keys' = Put(active, IF active THEN KeyTTL ELSE RefusedTTL)
        /\ AuthRead(r, active)
        /\ UNCHANGED failures
     \/ /\ ~Cached(keys)
        /\ Spend
        /\ AuthRead(r, TRUE \in keys.val)
        /\ UNCHANGED keys
  /\ UNCHANGED <<tables, rules, targets, costs, states, edits, history>>

Auth(r) ==
  /\ req[r].pc = "auth"
  /\ \/ /\ Cached(keys)
        /\ AuthRead(r, Held(keys))
        /\ UNCHANGED <<keys, failures>>
     \/ /\ ~Cached(keys)
        /\ keys' = Put(active, IF active THEN KeyTTL ELSE RefusedTTL)
        /\ AuthRead(r, active)
        /\ UNCHANGED failures
     \/ /\ ~Cached(keys)
        /\ Spend
        /\ End(r, "refused")
        /\ UNCHANGED keys
  /\ UNCHANGED <<tables, rules, targets, costs, states, edits, history>>

(***************************************************************************)
(* _get_routing, as the pre-call hook uses it.  A warmup is marked as      *)
(* direct and skips it; the marker of an external caller counts for        *)
(* nothing.  A name that is no routing is only for internal callers.       *)
(***************************************************************************)
Direct == Resolved(NoRouting, Name)

Looked(r, def) ==
  IF def # NoRouting THEN req' = [req EXCEPT ![r] = [Arrived EXCEPT !.pc = "targets", !.def = def]]
  ELSE IF r \in External THEN End(r, "notRouting")
  ELSE req' = [req EXCEPT ![r] = Direct]

Unavailable(r) ==
  IF r \in External THEN End(r, "retry") ELSE req' = [req EXCEPT ![r] = Direct]

MarkerIsTrusted(r) == req[r].marked  \* mutant: whoever sends the marker skips the routing
SkipsRouting(r) == req[r].marked /\ r \notin External

Lookup(r) ==
  /\ req[r].pc = "lookup"
  /\ \/ /\ SkipsRouting(r)
        /\ req' = [req EXCEPT ![r] = Direct]
        /\ UNCHANGED <<rules, failures>>
     \/ /\ ~SkipsRouting(r)
        /\ Cached(rules)
        /\ Looked(r, Held(rules))
        /\ UNCHANGED <<rules, failures>>
     \/ /\ ~SkipsRouting(r)
        /\ ~Cached(rules)
        /\ rules' = Put(routing, RulesTTL)
        /\ Looked(r, routing)
        /\ UNCHANGED failures
     \/ /\ ~SkipsRouting(r)
        /\ ~Cached(rules)
        /\ Spend
        /\ IF rules = Empty THEN Unavailable(r) ELSE Looked(r, Held(rules))
        /\ UNCHANGED rules
  /\ UNCHANGED <<tables, keys, targets, costs, states, edits, history>>

(***************************************************************************)
(* _targets: stale beats nothing, and nothing is not the empty world: the  *)
(* terminal is taken as it stands.                                         *)
(***************************************************************************)
SeenAs(r, world) ==
  req' = [req EXCEPT ![r].pc = "rules", ![r].seen = world.present, ![r].up = world.up,
                     ![r].label = {},
                     ![r].idx = 1]

UnknownIsEmpty(r) ==  \* mutant: no answer is taken for an empty world
  SeenAs(r, [present |-> {}, up |-> {}])

Unknown(r) ==
  IF req[r].def.terminal = "reject" THEN End(r, "rejected")
  ELSE req' = [req EXCEPT ![r] = Resolved(req[r].def, req[r].def.terminal)]

Targets(r) ==
  /\ req[r].pc = "targets"
  /\ \/ /\ Cached(targets)
        /\ SeenAs(r, Held(targets))
        /\ UNCHANGED <<targets, failures>>
     \/ /\ ~Cached(targets)
        /\ targets' = Put([present |-> present, up |-> up], TargetsTTL)
        /\ SeenAs(r, [present |-> present, up |-> up])
        /\ UNCHANGED failures
     \/ /\ ~Cached(targets)
        /\ Spend
        /\ IF targets = Empty THEN Unknown(r) ELSE SeenAs(r, Held(targets))
        /\ UNCHANGED targets
  /\ UNCHANGED <<tables, keys, rules, costs, states, edits, history>>

(***************************************************************************)
(* _evaluate_routing, one rule at a time: the first whose target exists    *)
(* and whose conditions all match.  A condition whose query fails does not *)
(* match; the classifier is asked once per call.                           *)
(***************************************************************************)
Rule(r) == req[r].def.rules[req[r].idx]
InRules(r) == req[r].pc = "rules" /\ req[r].idx <= Len(req[r].def.rules)
Matched(r) ==
  [Resolved(req[r].def, Rule(r).target) EXCEPT !.over = IF "cost" \in Rule(r).conds THEN overFor ELSE 0]
Unmatched(r) == [req[r] EXCEPT !.idx = @ + 1]

RuleMissing(r) ==
  /\ InRules(r)
  /\ Rule(r).target \notin req[r].seen
  /\ req' = [req EXCEPT ![r] = Unmatched(r)]
  /\ UNCHANGED <<tables, caches, failures, edits, history>>

(* Within the budget of money or tokens, as the cache or else the table has *)
(* it.                                                                     *)
CostStale(ok) ==  \* mutant: a failed query leaves the stale sum in place
  \/ Cached(costs) /\ ok = (Held(costs) < Budget) /\ UNCHANGED <<costs, failures>>
  \/ ~Cached(costs) /\ ok = (spent < Budget) /\ costs' = Put(spent, CostTTL) /\ UNCHANGED failures
  \/ ~Cached(costs) /\ Spend /\ ok = (\E v \in costs.val : v < Budget) /\ UNCHANGED costs

Cost(ok) ==
  \/ Cached(costs) /\ ok = (Held(costs) < Budget) /\ UNCHANGED <<costs, failures>>
  \/ ~Cached(costs) /\ ok = (spent < Budget) /\ costs' = Put(spent, CostTTL) /\ UNCHANGED failures
  \/ ~Cached(costs) /\ Spend /\ ok = FALSE /\ UNCHANGED costs

(* What the classifier said, asked once per call; {FALSE} also stands for   *)
(* one that is asleep or fails.                                            *)
Label(r, answer) == IF req[r].label # {} THEN req[r].label ELSE {answer}

RuleEvaluate(r) ==
  /\ InRules(r)
  /\ Rule(r).target \in req[r].seen
  /\ \E cost, classify, chance \in BOOLEAN :
       LET conds == Rule(r).conds
           label == Label(r, classify)
           ok == /\ "cost" \in conds => cost
                 /\ "available" \in conds => Rule(r).target \in req[r].up
                 /\ "classify" \in conds => label = {TRUE}
                 /\ "chance" \in conds => chance
       IN  /\ "classify" \notin conds => classify = TRUE
           /\ "chance" \notin conds => chance = TRUE
           /\ IF "cost" \in conds THEN Cost(cost)
              ELSE cost = TRUE /\ UNCHANGED <<costs, failures>>
           /\ req' = [req EXCEPT ![r] =
                IF ok THEN Matched(r)
                ELSE [Unmatched(r) EXCEPT !.label = IF "classify" \in conds THEN label ELSE @]]
  /\ UNCHANGED <<tables, keys, rules, targets, states, edits, history>>

Terminal(r) ==
  /\ req[r].pc = "rules"
  /\ req[r].idx > Len(req[r].def.rules)
  /\ LET last == req[r].def.terminal
     IN  IF last = "reject" THEN End(r, "rejected")
         ELSE IF last \in req[r].seen
         THEN req' = [req EXCEPT ![r] = Resolved(req[r].def, last)]
         ELSE req' = [req EXCEPT ![r] = [Ended(r, "unavailable") EXCEPT !.verdict = last]]
  /\ UNCHANGED <<tables, caches, failures, edits, history>>

(***************************************************************************)
(* The rollout guard, which lets the call on when it cannot look, then the *)
(* proxy's own choice among the entries of the model's name.               *)
(***************************************************************************)
Loads(m) == m \in loaded.routes \/ (m = Name /\ loaded.hole)

Checked(m, otherwise) ==
  IF ~Loads(m) THEN {otherwise}
  ELSE {out \in {"sent", "blackhole"} : IF out = "sent" THEN m \in loaded.routes
                                        ELSE m = Name /\ loaded.hole}

GuardAsked(r, row) ==  \* mutant: the guard looks at the name that was called
  IF row /\ ~Loads(Name) THEN {"retry"} ELSE Checked(req[r].verdict, "invalid")

Guarded(r, row) ==
  IF row /\ ~Loads(req[r].verdict) THEN {"retry"} ELSE Checked(req[r].verdict, "invalid")

Guard(r) ==
  /\ req[r].pc = "guard"
  /\ LET m == req[r].verdict
         Verdict(outs) == \E out \in outs :
           req' = [req EXCEPT ![r] = [Ended(r, out) EXCEPT !.away = away[m]]]
     IN  \/ /\ Cached(states[m])
            /\ Verdict(Guarded(r, Held(states[m])))
            /\ UNCHANGED <<states, failures>>
         \/ /\ ~Cached(states[m])
            /\ LET row == m \in present \cap Local
               IN  /\ Verdict(Guarded(r, row))
                   /\ states' = [states EXCEPT ![m] = Put(row, StateTTL)]
            /\ UNCHANGED failures
         \/ /\ ~Cached(states[m])
            /\ Spend
            /\ Verdict(Checked(m, "unguarded"))
            /\ UNCHANGED states
  /\ UNCHANGED <<tables, keys, rules, targets, costs, edits, history>>

(* A call that was answered is metered, unless that write fails.            *)
Meter(r) ==
  /\ req[r].pc = "end"
  /\ req' = [req EXCEPT ![r] = Done]
  /\ \/ /\ req[r].out = "sent"
        /\ spent < Budget
        /\ spent' = spent + 1
        /\ overFor' = 0
     \/ UNCHANGED <<spent, overFor>>
  /\ UNCHANGED <<active, routing, present, up, config, loaded, caches, failures, edits,
                 revokedFor, away>>

(***************************************************************************)
(* Time, the administrator and the rollout.                                *)
(***************************************************************************)
Older(c) == [c EXCEPT !.left = IF @ > 0 THEN @ - 1 ELSE 0]
Longer(n, ttl) == IF n > ttl THEN n ELSE n + 1

Tick ==
  /\ keys' = Older(keys) /\ rules' = Older(rules)
  /\ targets' = Older(targets) /\ costs' = Older(costs)
  /\ states' = [m \in Model |-> IF Cached(Older(states[m])) THEN Older(states[m]) ELSE Empty]
  /\ revokedFor' = IF active THEN 0 ELSE Longer(revokedFor, KeyTTL)
  /\ overFor' = IF spent < Budget THEN 0 ELSE Longer(overFor, CostTTL)
  /\ away' = [m \in Model |-> IF m \in present /\ away[m] < LongAgo THEN away[m] + 1
                              ELSE away[m]]
  /\ UNCHANGED <<tables, req, failures, edits>>

(***************************************************************************)
(* The routes of the control plane that change the tables.                 *)
(***************************************************************************)
Edit ==
  /\ edits < MaxEdits /\ edits' = edits + 1
  /\ away' = [m \in Model |-> IF m \in present \cap present' THEN away[m] ELSE 0]
  /\ revokedFor' = IF active' THEN 0 ELSE revokedFor
  /\ overFor' = IF spent' < Budget THEN 0 ELSE overFor
  /\ UNCHANGED <<loaded, caches, req, failures>>

(* syncGateway at the end of a route: the configuration is written, or one  *)
(* of its calls fails, and the route with it, after the row has changed.    *)
Synced == config' = GatewayConfig(up', routing') \/ UNCHANGED config

(* A key is revoked or enabled, or its workspace is.                        *)
SetKeyStatus ==
  /\ active' = ~active
  /\ UNCHANGED <<routing, present, up, spent, config>>

(* The window of the budget begins anew.                                    *)
WindowPasses ==
  /\ spent' = 0
  /\ UNCHANGED <<active, routing, present, up, config>>

Known(m) == m \in present

(* validateRouting: whatever the table names is a deployment or an endpoint.*)
Valid(d) ==
  /\ \A i \in DOMAIN d.rules : Known(d.rules[i].target) /\ d.rules[i].conds \subseteq Condition
  /\ d.terminal = "reject" \/ Known(d.terminal)

CreateRouting ==
  /\ routing = NoRouting
  /\ routing' \in {d \in Routings : Valid(d)}
  /\ UNCHANGED <<active, present, up, spent>>
  /\ Synced

(* No sync: the rules are read live.                                        *)
UpdateRouting ==
  /\ routing # NoRouting
  /\ routing' \in {d \in Routings : Valid(d)}
  /\ UNCHANGED <<active, present, up, spent, config>>

(* A routing no agent refers to.                                            *)
DeleteRouting ==
  /\ routing # NoRouting
  /\ routing' = NoRouting
  /\ UNCHANGED <<active, present, up, spent>>
  /\ Synced

(* The name must be free; a provider key that cannot be written takes the   *)
(* row back, which leaves nothing.                                          *)
CreateExternal ==
  /\ \E m \in Model \ Local :
       /\ ~Known(m)
       /\ present' = present \cup {m} /\ up' = up \cup {m}
  /\ UNCHANGED <<active, routing, spent>>
  /\ Synced

DeleteExternal ==
  /\ \E m \in present \ Local :
       present' = present \ {m} /\ up' = up \ {m}
  /\ UNCHANGED <<active, routing, spent>>
  /\ Synced

(* The operator asks for the sync, when the deployment turns Ready or goes. *)
CreateDeployment ==
  /\ \E m \in Local :
       /\ ~Known(m)
       /\ present' = present \cup {m}
  /\ UNCHANGED <<active, routing, up, spent, config>>

DeleteDeployment ==
  /\ \E m \in present \cap Local :
       present' = present \ {m} /\ up' = up \ {m}
  /\ UNCHANGED <<active, routing, spent, config>>

PhaseChanges ==
  /\ \E m \in present \cap Local : up' \in {up \cup {m}, up \ {m}}
  /\ UNCHANGED <<active, routing, present, spent, config>>

Administrate ==
  /\ \/ SetKeyStatus \/ WindowPasses
     \/ CreateRouting \/ UpdateRouting \/ DeleteRouting
     \/ CreateExternal \/ DeleteExternal
     \/ CreateDeployment \/ DeleteDeployment \/ PhaseChanges
  /\ Edit

(* POST /v1/gateway/sync, from the operator or the boot.                    *)
SyncGateway ==
  /\ config' = GatewayConfig(up, routing)
  /\ UNCHANGED <<rows, loaded, caches, req, failures, edits, history>>

(* The replica is replaced when its calls are done: the new one has loaded  *)
(* the configuration and has nothing cached.                                *)
RollOut ==
  /\ loaded # config /\ loaded' = config
  /\ \A r \in Request : req[r] = Done
  /\ keys' = Empty /\ rules' = Empty /\ targets' = Empty /\ costs' = Empty
  /\ states' = [m \in Model |-> Empty]
  /\ UNCHANGED <<rows, config, req, failures, edits, history>>

Step(r) ==
  \/ Arrive(r) \/ Auth(r) \/ Lookup(r) \/ Targets(r)
  \/ RuleMissing(r) \/ RuleEvaluate(r) \/ Terminal(r)
  \/ Guard(r) \/ Meter(r)

Next == (\E r \in Request : Step(r)) \/ Tick \/ Administrate \/ SyncGateway \/ RollOut

Spec == Init /\ [][Next]_vars

-------------------------------------------------------------------------------
Entry(vals, ttl) == [left : 0..ttl, val : {{}} \cup {{v} : v \in vals}]
Outcome == {"refused", "notRouting", "retry", "rejected", "unavailable",
            "sent", "blackhole", "invalid", "unguarded"}

(* What the caches, the tables and the calls may hold.                     *)
TypeOK ==
  /\ active \in BOOLEAN
  /\ routing \in Routings \cup {NoRouting}
  /\ present \subseteq Model /\ up \subseteq present 
  /\ {config, loaded} \subseteq [routes : SUBSET Model, hole : BOOLEAN]
  /\ spent \in 0..Budget
  /\ keys \in Entry(BOOLEAN, KeyTTL + RefusedTTL)
  /\ rules \in Entry(Routings \cup {NoRouting}, RulesTTL)
  /\ targets \in Entry([present : SUBSET Model, up : SUBSET Model], TargetsTTL)
  /\ costs \in Entry(0..Budget, CostTTL)
  /\ states \in [Model -> Entry(BOOLEAN, StateTTL)]
  /\ failures \in 0..MaxFailures /\ edits \in 0..MaxEdits
  /\ \A r \in Request :
       /\ req[r].pc \in {"done", "auth", "lookup", "targets", "rules", "guard", "end"}
       /\ req[r].def \in Routings \cup {NoRouting}
       /\ req[r].verdict \in Model \cup {Nothing}
       /\ req[r].out \in Outcome \cup {Nothing}

(* A call with an API key reaches a model only as a target of the routing  *)
(* it named, whatever fails and whatever it asks for: neither a deployment *)
(* of the same name nor a lookup that fails lets it around the routing's   *)
(* limits (pre_call_hook, "fail CLOSED for external callers").             *)
Targeted(def) == {def.rules[i].target : i \in DOMAIN def.rules} \cup {def.terminal}
ExternalIsRouted ==
  \A r \in External : req[r].out = "sent" =>
    req[r].def # NoRouting /\ req[r].verdict \in Targeted(req[r].def)

(* A rule with a budget sends no call once the budget has been spent for   *)
(* longer than the cache of the sums may lag ("budgets stay hard").        *)
BudgetHolds == \A r \in Request : req[r].over <= CostTTL

(* A revoked key, or one of a disabled workspace, opens nothing once it    *)
(* has been revoked for longer than its cache entry lives (CACHE_TTL,      *)
(* "also the max revocation latency").                                     *)
RevokedIsRefused == \A r \in Request : req[r].revoked <= KeyTTL

(* "unavailable" is said only of a target that has been away, and the      *)
(* blackhole of a routing's name answers only for such a target: a replica *)
(* that could not load the targets never takes that for an empty world,    *)
(* and no call of a live endpoint falls on the name of a routing beside it *)
(* ("unreachable except on a hook bug").  It holds of a routing that does  *)
(* not bear a deployment's name: see "Disagreements" in the README.        *)
UnavailableIsTrue ==
  \A r \in Request :
    req[r].out \in {"unavailable", "blackhole"} => away[req[r].verdict] # Never

(* While a replica's configuration lags, a call of a deployment the        *)
(* platform knows is told to retry: the proxy's fatal "no such model" is   *)
(* for one that has been away within the lifetime of a cache entry.        *)
RolloutIsRetryable ==
  \A r \in Request :
    req[r].out = "invalid" /\ req[r].verdict \in Local => req[r].away <= StateTTL
===============================================================================
