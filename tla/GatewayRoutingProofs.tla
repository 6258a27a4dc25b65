-------------------------- MODULE GatewayRoutingProofs ---------------------------
(***************************************************************************)
(* Proofs about GatewayRouting, for every set of calls, models and         *)
(* routings, all lifetimes of the caches and any number of failures and    *)
(* changes of the tables.                                                  *)
(***************************************************************************)
EXTENDS GatewayRouting, TLAPS

Definition == Routings \cup {NoRouting}
World == [present : SUBSET Model, up : SUBSET Model]
Age == 0..Never

CallRecord ==
  [pc : {"done", "auth", "lookup", "targets", "rules", "guard", "end"},
   def : Definition, seen : SUBSET Model, up : SUBSET Model, idx : Nat \ {0},
   verdict : Model \cup {Nothing}, label : SUBSET BOOLEAN, out : Outcome \cup {Nothing},
   over : Nat, revoked : Nat, away : Age, marked : BOOLEAN]

(* A cache whose entry lives holds a value.                                 *)
CacheOf(V) == [left : Nat, val : SUBSET V]
Filled(c) == Cached(c) => c.val # {}

Typed ==
  /\ active \in BOOLEAN
  /\ routing \in Definition
  /\ present \subseteq Model /\ up \subseteq present /\ spent \in Nat
  /\ revokedFor \in Nat /\ overFor \in Nat /\ away \in [Model -> Age]
  /\ req \in [Request -> CallRecord]
  /\ keys \in CacheOf(BOOLEAN) /\ rules \in CacheOf(Definition)
  /\ targets \in CacheOf(World) /\ costs \in CacheOf(Nat)
  /\ states \in [Model -> CacheOf(BOOLEAN)]

(* The history says how long a key is revoked, a budget spent, a model gone.*)
HistoryInv ==
  /\ active => revokedFor = 0
  /\ spent < Budget => overFor = 0
  /\ \A m \in Model : m \notin present => away[m] = 0

(* A model that was never away.                                             *)
SeesAll(S) == \A m \in Model : away[m] = Never => m \in S

(* What a cache says was true when its entry was made, and the entry does   *)
(* not outlive its time: what is held against it adds up to no more.        *)
CachesInv ==
  /\ Filled(keys) /\ Filled(rules) /\ Filled(targets) /\ Filled(costs)
  /\ \A m \in Model : Filled(states[m])
  /\ Cached(keys) /\ TRUE \in keys.val => revokedFor + keys.left <= KeyTTL
  /\ Cached(costs) => \A v \in costs.val : v < Budget => overFor + costs.left <= CostTTL
  /\ \A m \in Local : Cached(states[m]) /\ FALSE \in states[m].val =>
       away[m] + states[m].left <= StateTTL
  /\ \A w \in targets.val : SeesAll(w.present)

(* An address that answers nothing stands for a model that was away, unless *)
(* the routing has the name of a deployment.                                *)
HolesInv ==
  /\ present \ Local \subseteq up
  /\ Name \notin Local =>
       (config.hole => away[Name] # Never) /\ (loaded.hole => away[Name] # Never)

(* What is known of a call on its way.                                      *)
CallOk(r, x) ==
  /\ x.revoked <= KeyTTL /\ x.over <= CostTTL
  /\ x.pc # "end" => x.out = Nothing
  /\ x.pc \in {"targets", "rules"} => x.def \in Routings /\ x.def # NoRouting
  /\ x.pc = "guard" => x.verdict \in Model
  /\ r \in External /\ (x.pc = "guard" \/ x.out = "sent") =>
       x.def # NoRouting /\ x.verdict \in Targeted(x.def)
  /\ x.out = "invalid" /\ x.verdict \in Local => x.away <= StateTTL
  /\ x.pc = "rules" => SeesAll(x.seen)
  /\ x.out = "unavailable" => x.verdict \in Model /\ away[x.verdict] # Never
  /\ x.out = "blackhole" /\ Name \notin Local => x.verdict \in Model /\ away[x.verdict] # Never

CallsInv == \A r \in Request : CallOk(r, req[r])

IInv == Typed /\ HistoryInv /\ CachesInv /\ HolesInv /\ CallsInv
-------------------------------------------------------------------------------
(* What the routings name is a model, or nothing.                           *)
LEMMA Constants ==
  /\ KeyTTL \in Nat \ {0} /\ RefusedTTL \in Nat \ {0} /\ RulesTTL \in Nat \ {0}
  /\ TargetsTTL \in Nat \ {0} /\ CostTTL \in Nat \ {0} /\ StateTTL \in Nat \ {0}
  /\ Budget \in Nat \ {0}
  /\ Name \in Model /\ External \subseteq Request /\ Local \subseteq Model
  /\ Never \in Age /\ 0 \in Age /\ Never # 0
  BY GatewayAssumption DEF Age, Never

LEMMA RoutingTypes ==
  ASSUME NEW d \in Routings
  PROVE  /\ d.terminal # "reject" => d.terminal \in Model
         /\ \A i \in DOMAIN d.rules : d.rules[i].target \in Model
         /\ d.terminal \in Targeted(d)
         /\ \A i \in DOMAIN d.rules : d.rules[i].target \in Targeted(d)
         /\ DOMAIN d.rules = 1..Len(d.rules) /\ Len(d.rules) \in Nat
  <1>1. d.terminal \in Model \cup {"reject"}
        /\ d.rules \in Seq([target : Model, conds : SUBSET Condition])
    BY GatewayAssumption
  <1>2. \A i \in DOMAIN d.rules : d.rules[i].target \in Model
    <2> DEFINE Rules == [target : Model, conds : SUBSET Condition]
    <2>1. d.rules \in Seq(Rules)
      BY <1>1
    <2>2. \A u \in Rules : u.target \in Model
      OBVIOUS
    <2> HIDE DEF Rules
    <2>3. \A i \in DOMAIN d.rules : d.rules[i] \in Rules
      BY <2>1
    <2>4. QED
      BY <2>2, <2>3
  <1>3. /\ d.terminal \in Targeted(d)
        /\ \A i \in DOMAIN d.rules : d.rules[i].target \in Targeted(d)
    BY DEF Targeted
  <1>4. DOMAIN d.rules = 1..Len(d.rules) /\ Len(d.rules) \in Nat
    BY <1>1
  <1>5. QED
    BY <1>1, <1>2, <1>3, <1>4

(* A value that is put into a cache is held by it.                          *)
LEMMA PutHolds ==
  ASSUME NEW V, NEW v \in V, NEW n \in Nat
  PROVE  Put(v, n) \in CacheOf(V) /\ Filled(Put(v, n)) /\ Put(v, n).val = {v}
         /\ Put(v, n).left = n
  BY DEF Put, CacheOf, Filled

LEMMA HeldInCache ==
  ASSUME NEW V, NEW c \in CacheOf(V), c.val # {}
  PROVE  Held(c) \in c.val /\ Held(c) \in V
  BY DEF Held, CacheOf

(* A cache that is not the empty one holds a value.                         *)
LEMMA NotEmpty ==
  ASSUME NEW V, NEW c \in CacheOf(V), Filled(c), c # Empty
  PROVE  c.val # {}
  BY DEF CacheOf, Filled, Cached, Empty

LEMMA EmptyCache ==
  ASSUME NEW V
  PROVE  Empty \in CacheOf(V) /\ Filled(Empty) /\ ~Cached(Empty) /\ Empty.val = {}
  BY DEF Empty, CacheOf, Filled, Cached

LEMMA OlderCache ==
  ASSUME NEW V, NEW c \in CacheOf(V)
  PROVE  /\ Older(c) \in CacheOf(V)
         /\ Older(c).val = c.val
         /\ Cached(Older(c)) => Cached(c) /\ Older(c).left = c.left - 1
  BY DEF Older, CacheOf, Cached

(* The records of calls.                                                    *)
LEMMA CallTypes ==
         /\ Arrived \in CallRecord /\ Done \in CallRecord
         /\ \A pc \in {"auth", "lookup"}, b \in BOOLEAN :
              [Arrived EXCEPT !.pc = pc, !.marked = b] \in CallRecord
         /\ \A d \in Definition : [Arrived EXCEPT !.pc = "targets", !.def = d] \in CallRecord
         /\ \A d \in Definition, m \in Model : Resolved(d, m) \in CallRecord
         /\ \A x \in CallRecord, n \in Nat : [x EXCEPT !.pc = "lookup", !.revoked = n] \in CallRecord
  <1>1. 1 \in Nat /\ Never \in Age /\ 0 \in Nat
    BY Constants
  <1>2. Arrived \in CallRecord
    BY <1>1 DEF Arrived, CallRecord, Definition
  <1>3. \A y \in CallRecord :
          /\ [y EXCEPT !.pc = "done"] \in CallRecord
          /\ \A pc \in {"auth", "lookup"}, b \in BOOLEAN :
               [y EXCEPT !.pc = pc, !.marked = b] \in CallRecord
          /\ \A d \in Definition : [y EXCEPT !.pc = "targets", !.def = d] \in CallRecord
          /\ \A d \in Definition, m \in Model :
               [y EXCEPT !.pc = "guard", !.def = d, !.verdict = m] \in CallRecord
          /\ \A n \in Nat : [y EXCEPT !.pc = "lookup", !.revoked = n] \in CallRecord
    BY DEF CallRecord
  <1>4. QED
    BY <1>2, <1>3 DEF Done, Resolved

LEMMA EndedFields ==
  ASSUME Typed, NEW r \in Request, NEW out \in Outcome, NEW m \in Model, NEW a \in Age
  PROVE  /\ Ended(r, out) \in CallRecord
         /\ Ended(r, out).pc = "end" /\ Ended(r, out).out = out
         /\ Ended(r, out).over = 0 /\ Ended(r, out).revoked = 0
         /\ Ended(r, out).def = req[r].def /\ Ended(r, out).verdict = req[r].verdict
         /\ [Ended(r, out) EXCEPT !.verdict = m] \in CallRecord
         /\ [Ended(r, out) EXCEPT !.away = a] \in CallRecord
  <1>1. req[r] \in CallRecord
    BY DEF Typed
  <1>2. req[r].def \in Definition /\ req[r].verdict \in Model \cup {Nothing}
    BY <1>1 DEF CallRecord
  <1>3. Arrived \in CallRecord /\ Arrived.over = 0 /\ Arrived.revoked = 0
    BY <1>1, CallTypes DEF Arrived
  <1>4. \A d \in Definition, v \in Model \cup {Nothing}, o \in Outcome :
          [Arrived EXCEPT !.pc = "end", !.def = d, !.verdict = v, !.out = o] \in CallRecord
    BY <1>3 DEF CallRecord
  <1>5. \A y \in CallRecord : /\ [y EXCEPT !.verdict = m] \in CallRecord
                              /\ [y EXCEPT !.away = a] \in CallRecord
    BY DEF CallRecord
  <1>6. Ended(r, out) \in CallRecord
    BY <1>2, <1>4 DEF Ended
  <1>7. /\ Ended(r, out).pc = "end" /\ Ended(r, out).out = out
        /\ Ended(r, out).over = 0 /\ Ended(r, out).revoked = 0
        /\ Ended(r, out).def = req[r].def /\ Ended(r, out).verdict = req[r].verdict
    BY DEF Ended, Arrived
  <1>8. QED
    BY <1>5, <1>6, <1>7

(* A call that ends without reaching a model, or on the way to one.         *)
LEMMA EndIsOk ==
  ASSUME Typed, NEW r \in Request, NEW out \in Outcome \ {"sent", "invalid", "unavailable", "blackhole"}
  PROVE  Ended(r, out) \in CallRecord /\ CallOk(r, Ended(r, out))
  <1>1. Name \in Model /\ 0 \in Age /\ 0 <= KeyTTL /\ 0 <= CostTTL
    BY Constants
  <1>2. QED
    BY <1>1, EndedFields DEF CallOk

LEMMA ResolvedIsOk ==
  ASSUME NEW r \in Request, NEW d \in Definition, NEW m \in Model,
         r \in External => d # NoRouting /\ m \in Targeted(d)
  PROVE  Resolved(d, m) \in CallRecord /\ CallOk(r, Resolved(d, m))
  <1>1. Resolved(d, m) \in CallRecord
    BY CallTypes
  <1>2. /\ Resolved(d, m).pc = "guard" /\ Resolved(d, m).out = Nothing
        /\ Resolved(d, m).over = 0 /\ Resolved(d, m).revoked = 0
        /\ Resolved(d, m).def = d /\ Resolved(d, m).verdict = m
    BY DEF Resolved, Arrived
  <1>3. 0 <= KeyTTL /\ 0 <= CostTTL
    BY Constants
  <1>4. QED
    BY <1>1, <1>2, <1>3 DEF CallOk, Nothing

(* A step of one call.                                                      *)
LEMMA OneCall ==
  ASSUME Typed, CallsInv, NEW r \in Request, NEW x \in CallRecord, CallOk(r, x),
         req' = [req EXCEPT ![r] = x], away' = away
  PROVE  req' \in [Request -> CallRecord] /\ CallsInv'
  BY DEF Typed, CallsInv, CallOk, SeesAll

(* What a call's step leaves of the rest.                                   *)
Goes(r) == \E x \in CallRecord : CallOk(r, x) /\ req' = [req EXCEPT ![r] = x]

LEMMA ArriveGoes ==
  ASSUME IInv, NEW r \in Request, Arrive(r)
  PROVE  Goes(r)
  <1>1. PICK b \in BOOLEAN :
          req' = [req EXCEPT ![r] = [Arrived EXCEPT !.pc = IF r \in External THEN "auth" ELSE "lookup",
                                                   !.marked = b]]
    BY DEF Arrive
  <1> DEFINE pc0 == IF r \in External THEN "auth" ELSE "lookup"
             x == [Arrived EXCEPT !.pc = pc0, !.marked = b]
  <1>2. x \in CallRecord
    BY CallTypes
  <1>3. x.pc = pc0 /\ x.out = Nothing /\ x.over = 0 /\ x.revoked = 0
    BY DEF Arrived
  <1>4. CallOk(r, x)
    BY <1>3, Constants DEF CallOk, Nothing
  <1>5. QED
    BY <1>1, <1>2, <1>4 DEF Goes

(* A key that is found good was not revoked for longer than its entry lives *)
(* (user_custom_auth).                                                      *)
LEMMA AuthGoes ==
  ASSUME IInv, NEW r \in Request, Auth(r)
  PROVE  Goes(r)
  <1>1. req[r] \in CallRecord /\ req[r].pc = "auth" /\ CallOk(r, req[r]) /\ revokedFor \in Nat
    BY DEF IInv, Typed, CallsInv, Auth
  <1>2. ASSUME revokedFor <= KeyTTL, AuthRead(r, TRUE) PROVE Goes(r)
    <2> DEFINE x == [req[r] EXCEPT !.pc = "lookup", !.revoked = revokedFor]
    <2>1. x \in CallRecord
      BY <1>1, CallTypes
    <2>2. /\ x.pc = "lookup" /\ x.revoked = revokedFor /\ x.out = req[r].out
          /\ x.over = req[r].over
      BY <1>1 DEF CallRecord
    <2>3. CallOk(r, x)
      BY <1>1, <1>2, <2>2 DEF CallOk, Nothing
    <2>4. req' = [req EXCEPT ![r] = x]
      BY <1>2 DEF AuthRead
    <2>5. QED
      BY <2>1, <2>3, <2>4 DEF Goes
  <1>3. ASSUME End(r, "refused") PROVE Goes(r)
    BY <1>3, EndIsOk DEF Goes, End, IInv, Outcome
  <1>4. ASSUME Cached(keys), Held(keys) PROVE revokedFor <= KeyTTL
    <2>1. keys \in CacheOf(BOOLEAN) /\ keys.val # {} /\ keys.left \in Nat
      BY <1>4 DEF IInv, Typed, CachesInv, Filled, CacheOf
    <2>2. Held(keys) \in keys.val /\ Held(keys) \in BOOLEAN
      BY <2>1, HeldInCache
    <2>3. TRUE \in keys.val
      BY <1>4, <2>2
    <2>4. revokedFor + keys.left <= KeyTTL
      BY <1>4, <2>3 DEF IInv, CachesInv
    <2>5. QED
      BY <1>1, <2>1, <2>4, Constants
  <1>5. ASSUME active PROVE revokedFor <= KeyTTL
    BY <1>5, Constants DEF IInv, HistoryInv
  <1>6. CASE Cached(keys) /\ AuthRead(r, Held(keys))
    <2>1. CASE Held(keys)
      BY <1>2, <1>4, <1>6, <2>1 DEF AuthRead
    <2>2. CASE ~Held(keys)
      BY <1>3, <1>6, <2>2 DEF AuthRead
    <2>3. QED
      BY <2>1, <2>2
  <1>7. CASE AuthRead(r, active)
    <2>1. CASE active
      BY <1>2, <1>5, <1>7, <2>1 DEF AuthRead
    <2>2. CASE ~active
      BY <1>3, <1>7, <2>2 DEF AuthRead
    <2>3. QED
      BY <2>1, <2>2
  <1>8. QED
    BY <1>3, <1>6, <1>7 DEF Auth

(* Only an internal call goes directly to what it names (pre_call_hook).    *)
LEMMA LookupGoes ==
  ASSUME IInv, NEW r \in Request, Lookup(r)
  PROVE  Goes(r)
  <1>1. ASSUME r \notin External, req' = [req EXCEPT ![r] = Direct] PROVE Goes(r)
    <2>1. Direct \in CallRecord /\ CallOk(r, Direct)
      BY <1>1, Constants, ResolvedIsOk DEF Direct, Definition
    <2>2. QED
      BY <1>1, <2>1 DEF Goes
  <1>2. ASSUME NEW out \in {"notRouting", "retry"}, End(r, out) PROVE Goes(r)
    BY <1>2, EndIsOk DEF Goes, End, IInv, Outcome
  <1>3. ASSUME NEW def \in Definition, Looked(r, def) PROVE Goes(r)
    <2> DEFINE x == [Arrived EXCEPT !.pc = "targets", !.def = def]
    <2>1. CASE def # NoRouting
      <3>1. x \in CallRecord
        BY CallTypes
      <3>2. /\ x.pc = "targets" /\ x.def = def /\ x.out = Nothing
            /\ x.over = 0 /\ x.revoked = 0
        BY DEF Arrived
      <3>3. CallOk(r, x)
        BY <2>1, <3>2, Constants DEF CallOk, Nothing, Definition
      <3>4. req' = [req EXCEPT ![r] = x]
        BY <1>3, <2>1 DEF Looked
      <3>5. QED
        BY <3>1, <3>3, <3>4 DEF Goes
    <2>2. CASE def = NoRouting
      BY <1>1, <1>2, <1>3, <2>2 DEF Looked
    <2>3. QED
      BY <2>1, <2>2
  <1>4. rules \in CacheOf(Definition) /\ Filled(rules) /\ routing \in Definition
    BY DEF IInv, Typed, CachesInv
  <1>5. Cached(rules) \/ rules # Empty => Held(rules) \in Definition
    BY <1>4, HeldInCache, NotEmpty DEF Filled
  <1>6. QED
    BY <1>1, <1>2, <1>3, <1>4, <1>5 DEF Lookup, SkipsRouting, Unavailable

(* The world a call sees has every model that was never away, or it takes   *)
(* the terminal as it stands (_targets).                                    *)
LEMMA TargetsGoes ==
  ASSUME IInv, NEW r \in Request, Targets(r)
  PROVE  Goes(r)
  <1>1. /\ req[r] \in CallRecord /\ req[r].pc = "targets" /\ CallOk(r, req[r])
        /\ req[r].def \in Routings /\ req[r].def # NoRouting
    BY DEF IInv, Typed, CallsInv, Targets, CallOk
  <1>2. ASSUME NEW w \in World, SeesAll(w.present), SeenAs(r, w) PROVE Goes(r)
    <2> DEFINE x == [req[r] EXCEPT !.pc = "rules", !.seen = w.present, !.up = w.up, !.label = {},
                                   !.idx = 1]
    <2>1. /\ w.present \in SUBSET Model /\ w.up \in SUBSET Model /\ 1 \in Nat \ {0}
          /\ {} \in SUBSET BOOLEAN
      BY DEF World
    <2>2. x \in CallRecord
      <3>1. \A y \in CallRecord, S \in SUBSET Model, U \in SUBSET Model, l \in SUBSET BOOLEAN,
               i \in Nat \ {0} :
              [y EXCEPT !.pc = "rules", !.seen = S, !.up = U, !.label = l, !.idx = i] \in CallRecord
        BY DEF CallRecord
      <3>2. QED
        BY <1>1, <2>1, <3>1
    <2>3. /\ x.pc = "rules" /\ x.seen = w.present /\ x.out = req[r].out /\ x.def = req[r].def
          /\ x.over = req[r].over /\ x.revoked = req[r].revoked
      BY <1>1 DEF CallRecord
    <2>4. CallOk(r, x)
      BY <1>1, <1>2, <2>3 DEF CallOk, Nothing
    <2>5. req' = [req EXCEPT ![r] = x]
      BY <1>2 DEF SeenAs
    <2>6. QED
      BY <2>2, <2>4, <2>5 DEF Goes
  <1>3. ASSUME Unknown(r) PROVE Goes(r)
    <2>1. CASE req[r].def.terminal = "reject"
      BY <1>3, <2>1, EndIsOk DEF Unknown, Goes, End, IInv, Outcome
    <2>2. CASE req[r].def.terminal # "reject"
      <3>1. /\ Resolved(req[r].def, req[r].def.terminal) \in CallRecord
            /\ CallOk(r, Resolved(req[r].def, req[r].def.terminal))
        BY <1>1, <2>2, RoutingTypes, ResolvedIsOk DEF Definition
      <3>2. QED
        BY <1>3, <2>2, <3>1 DEF Unknown, Goes
    <2>3. QED
      BY <2>1, <2>2
  <1>4. [present |-> present, up |-> up] \in World /\ SeesAll(present)
    <2>1. present \in SUBSET Model /\ up \in SUBSET Model
      BY DEF IInv, Typed
    <2>2. SeesAll(present)
      BY Constants DEF IInv, HistoryInv, SeesAll
    <2>3. QED
      BY <2>1, <2>2 DEF World
  <1>5. targets \in CacheOf(World) /\ Filled(targets) /\ \A w \in targets.val : SeesAll(w.present)
    BY DEF IInv, Typed, CachesInv
  <1>6. Cached(targets) \/ targets # Empty =>
          Held(targets) \in World /\ SeesAll(Held(targets).present)
    BY <1>5, HeldInCache, NotEmpty DEF Filled
  <1>7. CASE SeenAs(r, [present |-> present, up |-> up])
    <2> DEFINE w == [present |-> present, up |-> up]
    <2>1. w \in World /\ w.present = present
      BY <1>4
    <2> HIDE DEF w
    <2>2. SeenAs(r, w)
      BY <1>7 DEF w
    <2>3. QED
      BY <1>2, <1>4, <2>1, <2>2
  <1>8. CASE (Cached(targets) \/ targets # Empty) /\ SeenAs(r, Held(targets))
    BY <1>2, <1>6, <1>8
  <1>9. QED
    BY <1>3, <1>7, <1>8 DEF Targets

(* A rule that does not match is passed over.                               *)
LEMMA UnmatchedIsOk ==
  ASSUME IInv, NEW r \in Request, InRules(r), NEW label \in SUBSET BOOLEAN
  PROVE  /\ Unmatched(r) \in CallRecord /\ CallOk(r, Unmatched(r))
         /\ [Unmatched(r) EXCEPT !.label = label] \in CallRecord
         /\ CallOk(r, [Unmatched(r) EXCEPT !.label = label])
  <1>1. req[r] \in CallRecord /\ req[r].pc = "rules" /\ CallOk(r, req[r])
    BY DEF IInv, Typed, CallsInv, InRules
  <1>2. Unmatched(r) \in CallRecord
    BY <1>1 DEF Unmatched, CallRecord
  <1>3. [Unmatched(r) EXCEPT !.label = label] \in CallRecord
    BY <1>2 DEF CallRecord
  <1>4. /\ Unmatched(r).pc = "rules" /\ Unmatched(r).seen = req[r].seen
        /\ Unmatched(r).out = req[r].out /\ Unmatched(r).def = req[r].def
        /\ Unmatched(r).over = req[r].over /\ Unmatched(r).revoked = req[r].revoked
    BY <1>1 DEF Unmatched, CallRecord
  <1>5. CallOk(r, Unmatched(r))
    BY <1>1, <1>4 DEF CallOk, Nothing
  <1> DEFINE y == [Unmatched(r) EXCEPT !.label = label]
  <1>6. /\ y.pc = "rules" /\ y.seen = req[r].seen
        /\ y.out = req[r].out /\ y.def = req[r].def
        /\ y.over = req[r].over /\ y.revoked = req[r].revoked
    BY <1>2, <1>4 DEF CallRecord
  <1>7. CallOk(r, y)
    BY <1>1, <1>6 DEF CallOk, Nothing
  <1>8. QED
    BY <1>2, <1>3, <1>5, <1>7

(* A rule with a budget matches only while the budget was not spent for     *)
(* longer than the cache of the sums lags (_evaluate_routing).              *)
LEMMA MatchedIsOk ==
  ASSUME IInv, NEW r \in Request, InRules(r),
         "cost" \in Rule(r).conds => overFor <= CostTTL
  PROVE  Matched(r) \in CallRecord /\ CallOk(r, Matched(r))
  <1>1. req[r] \in CallRecord /\ req[r].pc = "rules" /\ CallOk(r, req[r]) /\ overFor \in Nat
        /\ req[r].def \in Routings /\ req[r].def # NoRouting
    BY DEF IInv, Typed, CallsInv, InRules, CallOk
  <1>2. Rule(r).target \in Model /\ Rule(r).target \in Targeted(req[r].def)
    <2>1. req[r].idx \in Nat \ {0} /\ req[r].idx <= Len(req[r].def.rules)
      BY <1>1 DEF InRules, CallRecord
    <2>2. req[r].idx \in DOMAIN req[r].def.rules
      BY <1>1, <2>1, RoutingTypes
    <2>3. QED
      BY <1>1, <2>2, RoutingTypes DEF Rule
  <1> DEFINE m == Rule(r).target
             n == IF "cost" \in Rule(r).conds THEN overFor ELSE 0
             x == [Resolved(req[r].def, m) EXCEPT !.over = n]
  <1>3. n \in Nat /\ n <= CostTTL
    BY <1>1, Constants
  <1>4. Resolved(req[r].def, m) \in CallRecord /\ CallOk(r, Resolved(req[r].def, m))
    BY <1>1, <1>2, ResolvedIsOk DEF Definition
  <1> HIDE DEF n
  <1>5. x \in CallRecord
    BY <1>3, <1>4 DEF CallRecord
  <1>6. x.over = n /\ x.pc = "guard" /\ x.out = Nothing /\ x.revoked = 0 /\ x.def = req[r].def /\ x.verdict = m
    BY DEF Resolved, Arrived
  <1>7. CallOk(r, x)
    BY <1>1, <1>2, <1>3, <1>6, Constants DEF CallOk, Nothing
  <1>8. Matched(r) = x
    BY DEF Matched, n
  <1>9. QED
    BY <1>5, <1>7, <1>8
(* The sum of a cost condition is read from the cache or the table (Cost).  *)
LEMMA CostIsFresh ==
  ASSUME IInv, Cost(TRUE)
  PROVE  overFor <= CostTTL
  <1>1. /\ costs \in CacheOf(Nat) /\ Filled(costs) /\ overFor \in Nat /\ spent \in Nat
        /\ spent < Budget => overFor = 0
        /\ Cached(costs) => \A v \in costs.val : v < Budget => overFor + costs.left <= CostTTL
    BY DEF IInv, Typed, HistoryInv, CachesInv
  <1>2. CASE Cached(costs) /\ Held(costs) < Budget
    <2>1. Held(costs) \in costs.val /\ costs.left \in Nat
      BY <1>1, <1>2, HeldInCache DEF Filled, CacheOf
    <2>2. overFor + costs.left <= CostTTL
      BY <1>1, <1>2, <2>1
    <2>3. QED
      BY <1>1, <2>1, <2>2, Constants
  <1>3. CASE spent < Budget
    BY <1>1, <1>3, Constants
  <1>4. QED
    BY <1>2, <1>3 DEF Cost

LEMMA RulesGo ==
  ASSUME IInv, NEW r \in Request, RuleMissing(r) \/ RuleEvaluate(r)
  PROVE  Goes(r)
  <1>1. CASE RuleMissing(r)
    <2>1. InRules(r) /\ req' = [req EXCEPT ![r] = Unmatched(r)]
      BY <1>1 DEF RuleMissing
    <2>2. Unmatched(r) \in CallRecord /\ CallOk(r, Unmatched(r))
      BY <2>1, UnmatchedIsOk
    <2>3. QED
      BY <2>1, <2>2 DEF Goes
  <1>2. CASE RuleEvaluate(r)
    <2> DEFINE conds == Rule(r).conds
    <2>1. PICK cost \in BOOLEAN, classify \in BOOLEAN, chance \in BOOLEAN :
            LET label == Label(r, classify)
                ok == /\ "cost" \in conds => cost
                      /\ "available" \in conds => Rule(r).target \in req[r].up
                      /\ "classify" \in conds => label = {TRUE}
                      /\ "chance" \in conds => chance
            IN  /\ IF "cost" \in conds THEN Cost(cost)
                   ELSE cost = TRUE /\ UNCHANGED <<costs, failures>>
                /\ req' = [req EXCEPT ![r] =
                     IF ok THEN Matched(r)
                     ELSE [Unmatched(r) EXCEPT !.label = IF "classify" \in conds THEN label ELSE @]]
      BY <1>2 DEF RuleEvaluate
    <2> DEFINE ok == /\ "cost" \in conds => cost
                     /\ "available" \in conds => Rule(r).target \in req[r].up
                     /\ "classify" \in conds => Label(r, classify) = {TRUE}
                     /\ "chance" \in conds => chance
               l == IF "classify" \in conds THEN Label(r, classify) ELSE Unmatched(r).label
    <2>2. InRules(r)
      BY <1>2 DEF RuleEvaluate
    <2>3. req[r] \in CallRecord
      BY DEF IInv, Typed
    <2>4. l \in SUBSET BOOLEAN
      BY <2>3 DEF CallRecord, Label, Unmatched
    <2>5. CASE ok
      <3>1. req' = [req EXCEPT ![r] = Matched(r)]
        BY <2>1, <2>5
      <3>2. "cost" \in conds => overFor <= CostTTL
        <4>1. SUFFICES ASSUME "cost" \in conds PROVE Cost(TRUE)
          BY CostIsFresh
        <4>2. cost = TRUE
          BY <2>5, <4>1
        <4>3. QED
          BY <2>1, <4>1, <4>2
      <3>3. Matched(r) \in CallRecord /\ CallOk(r, Matched(r))
        BY <2>2, <3>2, MatchedIsOk
      <3>4. QED
        BY <3>1, <3>3 DEF Goes
    <2>6. CASE ~ok
      <3> DEFINE x == [Unmatched(r) EXCEPT !.label = l]
      <3>1. req' = [req EXCEPT ![r] = x]
        BY <2>1, <2>6
      <3>2. x \in CallRecord /\ CallOk(r, x)
        BY <2>2, <2>4, UnmatchedIsOk
      <3>3. QED
        BY <3>1, <3>2 DEF Goes
    <2>7. QED
      BY <2>5, <2>6
  <1>3. QED
    BY <1>1, <1>2

(* "unavailable" is said of a target that was not seen, so it was away.     *)
LEMMA TerminalGoes ==
  ASSUME IInv, NEW r \in Request, Terminal(r)
  PROVE  Goes(r)
  <1> DEFINE last == req[r].def.terminal
  <1>1. /\ req[r] \in CallRecord /\ req[r].pc = "rules" /\ CallOk(r, req[r]) /\ Typed
        /\ req[r].def \in Routings /\ req[r].def # NoRouting /\ SeesAll(req[r].seen)
    BY DEF IInv, Typed, CallsInv, CallOk, Terminal
  <1>2. CASE last = "reject"
    BY <1>1, <1>2, EndIsOk DEF Terminal, Goes, End, Outcome
  <1>3. CASE last # "reject"
    <2>1. last \in Model /\ last \in Targeted(req[r].def)
      BY <1>1, <1>3, RoutingTypes
    <2>2. CASE last \in req[r].seen
      <3>1. Resolved(req[r].def, last) \in CallRecord /\ CallOk(r, Resolved(req[r].def, last))
        BY <1>1, <2>1, ResolvedIsOk DEF Definition
      <3>2. QED
        BY <1>3, <2>2, <3>1 DEF Terminal, Goes
    <2>3. CASE last \notin req[r].seen
      <3> DEFINE x == [Ended(r, "unavailable") EXCEPT !.verdict = last]
      <3>1. away[last] # Never
        BY <1>1, <2>1, <2>3 DEF SeesAll
      <3>2. "unavailable" \in Outcome /\ 0 \in Age
        BY Constants DEF Outcome
      <3>3. /\ x \in CallRecord /\ Ended(r, "unavailable") \in CallRecord
            /\ Ended(r, "unavailable").pc = "end" /\ Ended(r, "unavailable").out = "unavailable"
            /\ Ended(r, "unavailable").over = 0 /\ Ended(r, "unavailable").revoked = 0
            /\ Ended(r, "unavailable").def = req[r].def
        BY <1>1, <2>1, <3>2, EndedFields
      <3>4. /\ x.pc = "end" /\ x.out = "unavailable" /\ x.over = 0 /\ x.revoked = 0
            /\ x.verdict = last
        BY <3>3 DEF CallRecord
      <3>5. CallOk(r, x)
        BY <2>1, <3>1, <3>4, Constants DEF CallOk
      <3>6. QED
        BY <1>3, <2>3, <3>3, <3>5 DEF Terminal, Goes
    <2>4. QED
      BY <2>2, <2>3
  <1>4. QED
    BY <1>2, <1>3

(* What the proxy makes of a name: one that the replica does not have is    *)
(* fatal only for a deployment that was away (_rollout_guard).              *)
LEMMA CheckedOuts ==
  ASSUME NEW m \in Model, NEW otherwise, NEW out \in Checked(m, otherwise)
  PROVE  \/ out = otherwise /\ ~Loads(m)
         \/ out = "sent"
         \/ out = "blackhole" /\ m = Name /\ loaded.hole
  BY DEF Checked

LEMMA GuardGoes ==
  ASSUME IInv, NEW r \in Request, Guard(r)
  PROVE  Goes(r)
  <1> DEFINE m == req[r].verdict
             Verdict(outs) == \E out \in outs :
               req' = [req EXCEPT ![r] = [Ended(r, out) EXCEPT !.away = away[m]]]
  <1>1. /\ req[r] \in CallRecord /\ req[r].pc = "guard" /\ CallOk(r, req[r]) /\ m \in Model /\ Typed
        /\ r \in External => req[r].def # NoRouting /\ m \in Targeted(req[r].def)
    BY DEF IInv, Typed, CallsInv, CallOk, Guard
  <1>2. away[m] \in Age /\ away[m] \in Nat
    BY <1>1 DEF Typed, Age, Never
  <1>3. ASSUME NEW out \in {"sent", "blackhole", "invalid", "unguarded", "retry"},
               out = "invalid" /\ m \in Local => away[m] <= StateTTL,
               out = "blackhole" => m = Name /\ loaded.hole,
               req' = [req EXCEPT ![r] = [Ended(r, out) EXCEPT !.away = away[m]]]
        PROVE  Goes(r)
    <2> DEFINE x == [Ended(r, out) EXCEPT !.away = away[m]]
    <2>1. out \in Outcome
      BY DEF Outcome
    <2>2. /\ x \in CallRecord /\ Ended(r, out) \in CallRecord
          /\ Ended(r, out).pc = "end" /\ Ended(r, out).out = out
          /\ Ended(r, out).over = 0 /\ Ended(r, out).revoked = 0
          /\ Ended(r, out).def = req[r].def /\ Ended(r, out).verdict = m
      BY <1>1, <1>2, <2>1, EndedFields
    <2>3. /\ x.pc = "end" /\ x.out = out /\ x.over = 0 /\ x.revoked = 0
          /\ x.def = req[r].def /\ x.verdict = m /\ x.away = away[m]
      BY <2>2 DEF CallRecord
    <2>4. out = "blackhole" /\ Name \notin Local => away[m] # Never
      BY <1>3 DEF IInv, HolesInv
    <2>5. out # "unavailable"
      OBVIOUS
    <2> HIDE DEF x, m
    <2>6. CallOk(r, x)
      BY <1>1, <1>3, <2>3, <2>4, <2>5, Constants DEF CallOk, Nothing
    <2>7. QED
      BY <1>3, <2>2, <2>6 DEF Goes, x, m
  <1>4. ASSUME NEW row \in BOOLEAN, ~row /\ m \in Local => away[m] <= StateTTL,
               Verdict(Guarded(r, row))
        PROVE  Goes(r)
    <2>1. PICK out \in Guarded(r, row) :
            req' = [req EXCEPT ![r] = [Ended(r, out) EXCEPT !.away = away[m]]]
      BY <1>4
    <2>2. CASE row /\ ~Loads(m)
      <3>1. out = "retry"
        BY <2>2 DEF Guarded
      <3>2. QED
        BY <1>3, <2>1, <3>1
    <2>3. CASE ~(row /\ ~Loads(m))
      <3>1. out \in Checked(m, "invalid")
        BY <2>3 DEF Guarded
      <3>2. \/ out = "invalid" /\ ~Loads(m)
            \/ out = "sent"
            \/ out = "blackhole" /\ m = Name /\ loaded.hole
        BY <1>1, <3>1, CheckedOuts
      <3>3. QED
        BY <1>3, <1>4, <2>1, <2>3, <3>2
    <2>4. QED
      BY <2>2, <2>3
  <1>5. ASSUME Verdict(Checked(m, "unguarded")) PROVE Goes(r)
    <2>1. PICK out \in Checked(m, "unguarded") :
            req' = [req EXCEPT ![r] = [Ended(r, out) EXCEPT !.away = away[m]]]
      BY <1>5
    <2>2. \/ out = "unguarded"
          \/ out = "sent"
          \/ out = "blackhole" /\ m = Name /\ loaded.hole
      BY <1>1, CheckedOuts
    <2>3. QED
      BY <1>3, <2>1, <2>2
  <1>6. \/ Cached(states[m]) /\ Verdict(Guarded(r, Held(states[m])))
        \/ Verdict(Guarded(r, m \in present \cap Local))
        \/ Verdict(Checked(m, "unguarded"))
    BY DEF Guard
  <1>7. CASE Cached(states[m]) /\ Verdict(Guarded(r, Held(states[m])))
    <2>1. states[m] \in CacheOf(BOOLEAN) /\ states[m].val # {} /\ states[m].left \in Nat
      BY <1>1, <1>7 DEF IInv, Typed, CachesInv, Filled, CacheOf
    <2>2. Held(states[m]) \in states[m].val /\ Held(states[m]) \in BOOLEAN
      BY <2>1, HeldInCache
    <2>3. ~Held(states[m]) /\ m \in Local => away[m] <= StateTTL
      <3>1. SUFFICES ASSUME ~Held(states[m]), m \in Local PROVE away[m] <= StateTTL
        OBVIOUS
      <3>2. FALSE \in states[m].val
        BY <2>2, <3>1
      <3>3. away[m] + states[m].left <= StateTTL
        BY <1>7, <3>1, <3>2 DEF IInv, CachesInv
      <3>4. QED
        BY <1>2, <2>1, <3>3, Constants
    <2>4. QED
      BY <1>4, <1>7, <2>2, <2>3
  <1>8. CASE Verdict(Guarded(r, m \in present \cap Local))
    <2> DEFINE row == m \in present \cap Local
    <2>1. ~row /\ m \in Local => away[m] <= StateTTL
      BY <1>1, Constants DEF IInv, HistoryInv
    <2>2. row \in BOOLEAN
      OBVIOUS
    <2>3. QED
      BY <1>4, <1>8, <2>1, <2>2
  <1>9. QED
    BY <1>5, <1>6, <1>7, <1>8

LEMMA MeterGoes ==
  ASSUME IInv, NEW r \in Request, Meter(r)
  PROVE  Goes(r)
  <1>1. Done \in CallRecord
    BY CallTypes
  <1>2. Done.pc = "done" /\ Done.out = Nothing /\ Done.over = 0 /\ Done.revoked = 0
    BY DEF Done, Arrived
  <1>3. CallOk(r, Done)
    BY <1>2, Constants DEF CallOk, Nothing
  <1>4. QED
    BY <1>1, <1>3 DEF Goes, Meter

(* Every step of a call leaves it in order, and the history of the models.  *)
LEMMA CallsGo ==
  ASSUME IInv, NEW r \in Request, Step(r)
  PROVE  req' \in [Request -> CallRecord] /\ CallsInv'
  <1>1. Goes(r)
    BY ArriveGoes, AuthGoes, LookupGoes, TargetsGoes, RulesGo, TerminalGoes, GuardGoes, MeterGoes
    DEF Step
  <1>2. away' = away
    BY DEF Step, Arrive, Auth, Lookup, Targets, RuleMissing, RuleEvaluate, Terminal, Guard, Meter,
           history
  <1>3. PICK x \in CallRecord : CallOk(r, x) /\ req' = [req EXCEPT ![r] = x]
    BY <1>1 DEF Goes
  <1>4. QED
    BY <1>2, <1>3, OneCall DEF IInv
(* What a call's step may write: an answer into one of the caches, and what *)
(* was spent.                                                               *)
LEMMA StepKinds ==
  ASSUME NEW r \in Request, Step(r)
  PROVE  /\ UNCHANGED <<active, routing, present, up, config, loaded, revokedFor, away>>
         /\ keys' = keys \/ keys' = Put(active, IF active THEN KeyTTL ELSE RefusedTTL)
         /\ rules' = rules \/ rules' = Put(routing, RulesTTL)
         /\ targets' = targets \/ targets' = Put([present |-> present, up |-> up], TargetsTTL)
         /\ costs' = costs \/ costs' = Put(spent, CostTTL)
         /\ \/ states' = states
            \/ \E m \in {req[r].verdict} :
                 states' = [states EXCEPT ![m] = Put(m \in present \cap Local, StateTTL)]
         /\ \/ UNCHANGED <<spent, overFor>>
            \/ spent < Budget /\ spent' = spent + 1 /\ overFor' = 0
  <1>1. CASE Arrive(r)
    BY <1>1 DEF Arrive, tables, rows, caches, history
  <1>2. CASE Auth(r)
    BY <1>2 DEF Auth, tables, rows, history
  <1>3. CASE Lookup(r)
    BY <1>3 DEF Lookup, tables, rows, history
  <1>4. CASE Targets(r)
    BY <1>4 DEF Targets, tables, rows, history
  <1>5. CASE RuleMissing(r)
    BY <1>5 DEF RuleMissing, tables, rows, caches, history
  <1>6. CASE RuleEvaluate(r)
    <2>1. UNCHANGED <<tables, keys, rules, targets, states, history>>
      BY <1>6 DEF RuleEvaluate
    <2>2. costs' = costs \/ costs' = Put(spent, CostTTL)
      BY <1>6 DEF RuleEvaluate, Cost
    <2>3. QED
      BY <2>1, <2>2 DEF tables, rows, history
  <1>7. CASE Terminal(r)
    BY <1>7 DEF Terminal, tables, rows, caches, history
  <1>8. CASE Guard(r)
    BY <1>8 DEF Guard, tables, rows, history
  <1>9. CASE Meter(r)
    BY <1>9 DEF Meter, caches
  <1>10. QED
    BY <1>1, <1>2, <1>3, <1>4, <1>5, <1>6, <1>7, <1>8, <1>9 DEF Step

(* What a call writes into a cache was true when it was read.               *)
LEMMA CallTables ==
  ASSUME IInv, NEW r \in Request, Step(r)
  PROVE  Typed' /\ HistoryInv' /\ CachesInv' /\ HolesInv'
  <1>1. /\ UNCHANGED <<active, routing, present, up, config, loaded, revokedFor, away>>
        /\ keys' = keys \/ keys' = Put(active, IF active THEN KeyTTL ELSE RefusedTTL)
        /\ rules' = rules \/ rules' = Put(routing, RulesTTL)
        /\ targets' = targets \/ targets' = Put([present |-> present, up |-> up], TargetsTTL)
        /\ costs' = costs \/ costs' = Put(spent, CostTTL)
        /\ \/ states' = states
           \/ \E m \in {req[r].verdict} :
                states' = [states EXCEPT ![m] = Put(m \in present \cap Local, StateTTL)]
        /\ \/ UNCHANGED <<spent, overFor>>
           \/ spent < Budget /\ spent' = spent + 1 /\ overFor' = 0
    BY StepKinds
  <1>2. Typed /\ HistoryInv /\ CachesInv /\ HolesInv
    BY DEF IInv
  <1>3. /\ KeyTTL \in Nat /\ RefusedTTL \in Nat /\ RulesTTL \in Nat /\ TargetsTTL \in Nat
        /\ CostTTL \in Nat /\ StateTTL \in Nat
    BY Constants
  <1>4. /\ keys' \in CacheOf(BOOLEAN) /\ Filled(keys)'
        /\ Cached(keys)' /\ TRUE \in keys'.val => revokedFor' + keys'.left <= KeyTTL
    <2>1. CASE keys' = keys
      BY <1>1, <1>2, <2>1 DEF Typed, CachesInv, Filled, Cached
    <2>2. CASE keys' = Put(active, IF active THEN KeyTTL ELSE RefusedTTL)
      <3> DEFINE n == IF active THEN KeyTTL ELSE RefusedTTL
      <3>1. active \in BOOLEAN /\ n \in Nat
        BY <1>2, <1>3 DEF Typed
      <3> HIDE DEF n
      <3>2. keys' \in CacheOf(BOOLEAN) /\ Filled(keys)' /\ keys'.val = {active} /\ keys'.left = n
        BY <2>2, <3>1, PutHolds DEF n, Filled, Cached
      <3>3. TRUE \in keys'.val => revokedFor' = 0 /\ n = KeyTTL
        <4>1. CASE active
          BY <1>1, <1>2, <4>1 DEF HistoryInv, n
        <4>2. CASE ~active
          <5>1. active = FALSE
            BY <3>1, <4>2
          <5>2. QED
            BY <3>2, <5>1
        <4>3. QED
          BY <4>1, <4>2
      <3>4. TRUE \in keys'.val => revokedFor' + keys'.left <= KeyTTL
        <4>1. SUFFICES ASSUME TRUE \in keys'.val PROVE revokedFor' + keys'.left <= KeyTTL
          OBVIOUS
        <4>2. revokedFor' = 0 /\ keys'.left = KeyTTL
          BY <3>2, <3>3, <4>1
        <4>3. QED
          BY <1>3, <4>2
      <3>5. QED
        BY <3>2, <3>4
    <2>3. QED
      BY <1>1, <2>1, <2>2
  <1>5. rules' \in CacheOf(Definition) /\ Filled(rules)'
    <2>1. CASE rules' = rules
      BY <1>2, <2>1 DEF Typed, CachesInv, Filled, Cached
    <2>2. CASE rules' = Put(routing, RulesTTL)
      BY <1>2, <1>3, <2>2, PutHolds DEF Typed, Filled, Cached
    <2>3. QED
      BY <1>1, <2>1, <2>2
  <1>6. /\ targets' \in CacheOf(World) /\ Filled(targets)'
        /\ \A w \in targets'.val : SeesAll(w.present)'
    <2>1. CASE targets' = targets
      BY <1>1, <1>2, <2>1 DEF Typed, CachesInv, Filled, Cached, SeesAll
    <2>2. CASE targets' = Put([present |-> present, up |-> up], TargetsTTL)
      <3> DEFINE w == [present |-> present, up |-> up]
      <3>1. w \in World
        BY <1>2 DEF Typed, World
      <3>2. w.present = present
        OBVIOUS
      <3>3. \A m \in Model : away'[m] = Never => m \in present
        BY <1>1, <1>2, Constants DEF HistoryInv
      <3>4. targets' = Put(w, TargetsTTL)
        BY <2>2
      <3> HIDE DEF w
      <3>5. targets' \in CacheOf(World) /\ Filled(targets)' /\ targets'.val = {w}
        BY <1>3, <3>1, <3>4, PutHolds DEF Filled, Cached
      <3>6. QED
        BY <3>2, <3>3, <3>5 DEF SeesAll
    <2>3. QED
      BY <1>1, <2>1, <2>2
  <1>7. /\ spent' \in Nat /\ overFor' \in Nat /\ (spent' < Budget => overFor' = 0)
        /\ overFor' = overFor \/ overFor' = 0
    BY <1>1, <1>2, Constants DEF Typed, HistoryInv
  <1>8. /\ costs' \in CacheOf(Nat) /\ Filled(costs)'
        /\ Cached(costs)' => \A v \in costs'.val : v < Budget => overFor' + costs'.left <= CostTTL
    <2>1. CASE costs' = costs
      <3>1. /\ costs' \in CacheOf(Nat) /\ Filled(costs)' /\ costs.left \in Nat /\ overFor \in Nat
            /\ Cached(costs)' => \A v \in costs.val : v < Budget => overFor + costs.left <= CostTTL
        BY <1>2, <2>1 DEF Typed, CachesInv, Filled, Cached, CacheOf
      <3>2. QED
        BY <1>3, <1>7, <2>1, <3>1
    <2>2. CASE costs' = Put(spent, CostTTL)
      <3>1. costs' \in CacheOf(Nat) /\ Filled(costs)' /\ costs'.val = {spent} /\ costs'.left = CostTTL
        BY <1>2, <1>3, <2>2, PutHolds DEF Typed, Filled, Cached
      <3>2. spent < Budget => overFor' = 0
        BY <1>1, <1>2 DEF HistoryInv
      <3>3. QED
        BY <1>3, <3>1, <3>2
    <2>3. QED
      BY <1>1, <2>1, <2>2
  <1>9. /\ states' \in [Model -> CacheOf(BOOLEAN)]
        /\ \A m \in Model : Filled(states[m])'
        /\ \A m \in Local : Cached(states[m])' /\ FALSE \in states'[m].val =>
             away'[m] + states'[m].left <= StateTTL
    <2>1. CASE states' = states
      BY <1>1, <1>2, <2>1 DEF Typed, CachesInv, Filled, Cached
    <2>2. ASSUME NEW m, states' = [states EXCEPT ![m] = Put(m \in present \cap Local, StateTTL)]
          PROVE  <1>9
      <3> DEFINE row == m \in present \cap Local
                 p == Put(row, StateTTL)
      <3>1. p \in CacheOf(BOOLEAN) /\ Filled(p) /\ p.val = {row} /\ p.left = StateTTL
        <4>1. row \in BOOLEAN
          OBVIOUS
        <4> HIDE DEF row
        <4>2. QED
          BY <1>3, <4>1, PutHolds
      <3>2. m \in Local /\ FALSE \in p.val => away[m] = 0
        BY <1>2, <3>1, Constants DEF HistoryInv
      <3> HIDE DEF p
      <3>3. states' = [states EXCEPT ![m] = p] /\ states \in [Model -> CacheOf(BOOLEAN)]
        BY <1>2, <2>2 DEF Typed, p
      <3>4. states' \in [Model -> CacheOf(BOOLEAN)]
        BY <3>1, <3>3
      <3>5. \A k \in Model : states'[k] = IF k = m THEN p ELSE states[k]
        BY <3>3
      <3>6. \A k \in Model : Filled(states[k])'
        BY <1>2, <3>1, <3>5 DEF CachesInv, Filled, Cached
      <3>7. ASSUME NEW k \in Local, Cached(states[k])', FALSE \in states'[k].val
            PROVE  away'[k] + states'[k].left <= StateTTL
        <4>1. k \in Model
          BY Constants
        <4>2. CASE k = m
          <5>1. states'[k] = p
            BY <3>5, <4>1, <4>2
          <5>2. away'[k] = 0
            BY <1>1, <3>2, <3>7, <4>2, <5>1
          <5>3. states'[k].left = StateTTL
            BY <3>1, <5>1
          <5>4. QED
            BY <1>3, <5>2, <5>3
        <4>3. CASE k # m
          BY <1>1, <1>2, <3>5, <3>7, <4>1, <4>3 DEF CachesInv, Cached
        <4>4. QED
          BY <4>2, <4>3
      <3>8. QED
        BY <3>4, <3>6, <3>7
    <2>3. QED
      BY <1>1, <2>1, <2>2
  <1>10. req' \in [Request -> CallRecord]
    BY CallsGo
  <1>11. Typed'
    BY <1>1, <1>2, <1>4, <1>5, <1>6, <1>7, <1>8, <1>9, <1>10 DEF Typed
  <1>12. HistoryInv'
    BY <1>1, <1>2, <1>7 DEF HistoryInv
  <1>13. CachesInv'
    BY <1>4, <1>5, <1>6, <1>8, <1>9 DEF CachesInv
  <1>14. HolesInv'
    BY <1>1, <1>2 DEF HolesInv
  <1>15. QED
    BY <1>11, <1>12, <1>13, <1>14

(* Whoever was away once has been away from then on, and what is known of a *)
(* call stays true.                                                         *)
Remembers == \A m \in Model : away'[m] = Never => away[m] = Never

LEMMA CallsKept ==
  ASSUME IInv, req' = req, Remembers
  PROVE  CallsInv'
  <1>1. SUFFICES ASSUME NEW r \in Request PROVE CallOk(r, req[r])'
    BY DEF CallsInv
  <1>2. CallOk(r, req[r])
    BY DEF IInv, CallsInv
  <1>3. SeesAll(req[r].seen) => SeesAll(req[r].seen)'
    BY DEF Remembers, SeesAll
  <1>4. QED
    BY <1>2, <1>3, Constants DEF CallOk, Remembers

(* The caches outlive a change of the tables, and what they may lag behind  *)
(* does not grow by it.                                                     *)
LEMMA CachesKept ==
  ASSUME IInv, UNCHANGED caches, Remembers,
         revokedFor' \in Nat, revokedFor' <= revokedFor, overFor' \in Nat, overFor' <= overFor,
         \A m \in Model : away'[m] \in Nat /\ away'[m] <= away[m]
  PROVE  CachesInv'
  <1>1. /\ CachesInv /\ revokedFor \in Nat /\ overFor \in Nat
        /\ keys.left \in Nat /\ costs.left \in Nat
        /\ \A m \in Model : states[m].left \in Nat /\ away[m] \in Nat
    BY DEF IInv, Typed, CacheOf, Age, Never
  <1>2. UNCHANGED keys /\ UNCHANGED rules /\ UNCHANGED targets /\ UNCHANGED costs /\ UNCHANGED states
    BY DEF caches
  <1>3. Filled(keys)' /\ Filled(rules)' /\ Filled(targets)' /\ Filled(costs)'
        /\ \A m \in Model : Filled(states[m])'
    BY <1>1, <1>2 DEF CachesInv, Filled, Cached
  <1>4. Cached(keys)' /\ TRUE \in keys'.val => revokedFor' + keys'.left <= KeyTTL
    <2>1. SUFFICES ASSUME Cached(keys)', TRUE \in keys'.val
                   PROVE  revokedFor' + keys'.left <= KeyTTL
      OBVIOUS
    <2>2. revokedFor + keys.left <= KeyTTL
      BY <1>1, <1>2, <2>1 DEF CachesInv, Cached
    <2>3. keys'.left = keys.left
      BY <1>2
    <2>4. QED
      BY <1>1, <2>2, <2>3, Constants
  <1>5. Cached(costs)' => \A v \in costs'.val : v < Budget => overFor' + costs'.left <= CostTTL
    <2>1. SUFFICES ASSUME Cached(costs)', NEW v \in costs'.val, v < Budget
                   PROVE  overFor' + costs'.left <= CostTTL
      OBVIOUS
    <2>2. overFor + costs.left <= CostTTL
      BY <1>1, <1>2, <2>1 DEF CachesInv, Cached
    <2>3. costs'.left = costs.left
      BY <1>2
    <2>4. QED
      BY <1>1, <2>2, <2>3, Constants
  <1>6. \A m \in Local : Cached(states[m])' /\ FALSE \in states'[m].val =>
          away'[m] + states'[m].left <= StateTTL
    <2>1. SUFFICES ASSUME NEW m \in Local, Cached(states[m])', FALSE \in states'[m].val
                   PROVE  away'[m] + states'[m].left <= StateTTL
      OBVIOUS
    <2>2. away[m] + states[m].left <= StateTTL
      BY <1>1, <1>2, <2>1 DEF CachesInv, Cached
    <2>3. m \in Model /\ states'[m].left = states[m].left
      BY <1>2, Constants
    <2>4. QED
      BY <1>1, <2>2, <2>3, Constants
  <1>7. \A w \in targets'.val : SeesAll(w.present)'
    BY <1>1, <1>2 DEF CachesInv, SeesAll, Remembers
  <1>8. QED
    BY <1>3, <1>4, <1>5, <1>6, <1>7 DEF CachesInv

(* A route of the control plane leaves an endpoint listed while it has a    *)
(* row, so its name gets no address that answers nothing (syncGateway).     *)
LEMMA AdministrateKeeps ==
  ASSUME IInv, Administrate
  PROVE  IInv'
  <1>1. /\ Typed /\ HistoryInv /\ HolesInv /\ Edit
    BY DEF IInv, Administrate
  <1>2. /\ away' = [m \in Model |-> IF m \in present \cap present' THEN away[m] ELSE 0]
        /\ revokedFor' = IF active' THEN 0 ELSE revokedFor
        /\ overFor' = IF spent' < Budget THEN 0 ELSE overFor
        /\ UNCHANGED caches /\ req' = req /\ loaded' = loaded
    BY <1>1 DEF Edit
  <1>3. \A m \in Model : /\ away[m] \in Nat /\ away'[m] \in Age /\ away'[m] \in Nat
                         /\ away'[m] <= away[m]
                         /\ (away'[m] = Never => away[m] = Never)
                         /\ (m \notin present' => away'[m] = 0)
    BY <1>1, <1>2, Constants DEF Typed, Age, Never
  <1>4. Remembers
    BY <1>3 DEF Remembers
  <1>5. /\ active' \in BOOLEAN /\ spent' \in Nat /\ routing' \in Definition
        /\ present' \subseteq Model /\ up' \subseteq present' /\ present' \ Local \subseteq up'
        /\ config' = config \/ config' = GatewayConfig(up', routing')
    <2> USE <1>1, Constants DEF Typed, HolesInv, Definition
    <2>1. CASE SetKeyStatus
      BY <2>1 DEF SetKeyStatus
    <2>2. CASE WindowPasses
      BY <2>2 DEF WindowPasses
    <2>3. CASE CreateRouting
      BY <2>3 DEF CreateRouting, Synced
    <2>4. CASE UpdateRouting
      BY <2>4 DEF UpdateRouting
    <2>5. CASE DeleteRouting
      BY <2>5 DEF DeleteRouting, Synced
    <2>6. CASE CreateExternal
      BY <2>6 DEF CreateExternal, Synced
    <2>7. CASE DeleteExternal
      BY <2>7 DEF DeleteExternal, Synced
    <2>8. CASE CreateDeployment
      BY <2>8 DEF CreateDeployment
    <2>9. CASE DeleteDeployment
      BY <2>9 DEF DeleteDeployment
    <2>10. CASE PhaseChanges
      BY <2>10 DEF PhaseChanges
    <2>11. QED
      BY <2>1, <2>2, <2>3, <2>4, <2>5, <2>6, <2>7, <2>8, <2>9, <2>10 DEF Administrate
  <1>6. /\ revokedFor' \in Nat /\ revokedFor' <= revokedFor
        /\ overFor' \in Nat /\ overFor' <= overFor
    BY <1>1, <1>2 DEF Typed
  <1>7. Typed'
    <2>1. away' \in [Model -> Age]
      BY <1>2, <1>3
    <2>2. /\ keys' \in CacheOf(BOOLEAN) /\ rules' \in CacheOf(Definition)
          /\ targets' \in CacheOf(World) /\ costs' \in CacheOf(Nat)
          /\ states' \in [Model -> CacheOf(BOOLEAN)] /\ req' \in [Request -> CallRecord]
      BY <1>1, <1>2 DEF Typed, caches
    <2>3. QED
      BY <1>5, <1>6, <2>1, <2>2 DEF Typed
  <1>8. HistoryInv'
    BY <1>2, <1>3, <1>5 DEF HistoryInv
  <1>9. CachesInv'
    BY <1>2, <1>3, <1>4, <1>6, CachesKept
  <1>10. HolesInv'
    <2>1. SUFFICES ASSUME Name \notin Local
                   PROVE  (config'.hole => away'[Name] # Never) /\ (loaded'.hole => away'[Name] # Never)
      BY <1>5 DEF HolesInv
    <2>2. loaded'.hole => away'[Name] # Never
      BY <1>1, <1>2, <1>3, <2>1, Constants DEF HolesInv
    <2>3. CASE config' = config
      BY <1>1, <1>3, <2>1, <2>2, <2>3, Constants DEF HolesInv
    <2>4. CASE config' = GatewayConfig(up', routing')
      <3>1. config'.hole => Name \notin present'
        BY <1>5, <2>1, <2>4, Constants DEF GatewayConfig
      <3>2. QED
        BY <1>3, <2>2, <3>1, Constants
    <2>5. QED
      BY <1>5, <2>3, <2>4
  <1>11. CallsInv'
    BY <1>2, <1>4, CallsKept
  <1>12. QED
    BY <1>7, <1>8, <1>9, <1>10, <1>11 DEF IInv
(* As time passes, a cache loses what the history gains (Tick).             *)
LEMMA LongerBound ==
  ASSUME NEW n \in Nat, NEW ttl \in Nat, NEW left \in Nat, left > 0, n + left <= ttl
  PROVE  Longer(n, ttl) + (left - 1) <= ttl
  BY DEF Longer

LEMMA TickKeeps ==
  ASSUME IInv, Tick
  PROVE  IInv'
  <1>1. /\ Typed /\ HistoryInv /\ CachesInv /\ HolesInv
    BY DEF IInv
  <1>2. /\ keys' = Older(keys) /\ rules' = Older(rules)
        /\ targets' = Older(targets) /\ costs' = Older(costs)
        /\ states' = [m \in Model |-> IF Cached(Older(states[m])) THEN Older(states[m]) ELSE Empty]
        /\ revokedFor' = IF active THEN 0 ELSE Longer(revokedFor, KeyTTL)
        /\ overFor' = IF spent < Budget THEN 0 ELSE Longer(overFor, CostTTL)
        /\ away' = [m \in Model |-> IF m \in present /\ away[m] < LongAgo THEN away[m] + 1
                                    ELSE away[m]]
        /\ UNCHANGED <<active, routing, present, up, spent, config, loaded, req>>
    BY DEF Tick, tables, rows
  <1>3. /\ revokedFor \in Nat /\ overFor \in Nat
        /\ keys \in CacheOf(BOOLEAN) /\ rules \in CacheOf(Definition)
        /\ targets \in CacheOf(World) /\ costs \in CacheOf(Nat)
        /\ states \in [Model -> CacheOf(BOOLEAN)] /\ away \in [Model -> Age]
        /\ KeyTTL \in Nat /\ CostTTL \in Nat /\ StateTTL \in Nat
    BY <1>1, Constants DEF Typed
  <1>4. ASSUME NEW V, NEW c \in CacheOf(V), Filled(c)
        PROVE  Filled(Older(c)) /\ Older(c) \in CacheOf(V)
    BY <1>4, OlderCache DEF Filled
  <1>5. /\ keys' \in CacheOf(BOOLEAN) /\ rules' \in CacheOf(Definition)
        /\ targets' \in CacheOf(World) /\ costs' \in CacheOf(Nat)
        /\ Filled(keys)' /\ Filled(rules)' /\ Filled(targets)' /\ Filled(costs)'
    BY <1>1, <1>2, <1>3, <1>4 DEF CachesInv, Filled, Cached
  <1>6. /\ states' \in [Model -> CacheOf(BOOLEAN)]
        /\ \A m \in Model : Filled(states[m])'
    <2>1. ASSUME NEW m \in Model
          PROVE  states'[m] \in CacheOf(BOOLEAN) /\ Filled(states'[m])
      <3>1. states[m] \in CacheOf(BOOLEAN) /\ Filled(states[m])
        BY <1>1, <1>3 DEF CachesInv
      <3>2. Older(states[m]) \in CacheOf(BOOLEAN) /\ Filled(Older(states[m]))
        BY <1>4, <3>1
      <3>3. states'[m] = IF Cached(Older(states[m])) THEN Older(states[m]) ELSE Empty
        BY <1>2
      <3>4. QED
        BY <3>2, <3>3, EmptyCache
    <2>2. states' = [m \in Model |-> states'[m]]
      BY <1>2
    <2>3. states' \in [Model -> CacheOf(BOOLEAN)]
      BY <2>1, <2>2
    <2>4. QED
      BY <2>1, <2>3 DEF Filled, Cached
  <1>7. \A m \in Model : /\ away[m] \in Nat /\ away'[m] \in Age /\ away'[m] \in Nat
                         /\ away'[m] <= away[m] + 1
                         /\ (away'[m] = Never => away[m] = Never)
                         /\ (m \notin present => away'[m] = away[m])
    <2>1. SUFFICES ASSUME NEW m \in Model
                   PROVE  /\ away[m] \in Nat /\ away'[m] \in Age /\ away'[m] \in Nat
                          /\ away'[m] <= away[m] + 1
                          /\ (away'[m] = Never => away[m] = Never)
                          /\ (m \notin present => away'[m] = away[m])
      OBVIOUS
    <2>2. away[m] \in 0..(StateTTL + 2)
      BY <1>3 DEF Age, Never
    <2>3. away'[m] = IF m \in present /\ away[m] < StateTTL + 1 THEN away[m] + 1 ELSE away[m]
      BY <1>2 DEF LongAgo
    <2>4. QED
      BY <1>3, <2>2, <2>3 DEF Age, Never
  <1>8. Remembers
    BY <1>7 DEF Remembers
  <1>9. /\ revokedFor' \in Nat /\ overFor' \in Nat
        /\ (active' => revokedFor' = 0) /\ (spent' < Budget => overFor' = 0)
    BY <1>2, <1>3 DEF Longer
  <1>10. Typed'
    <2>1. away' \in [Model -> Age]
      BY <1>2, <1>7
    <2>2. /\ active' \in BOOLEAN /\ routing' \in Definition
          /\ present' \subseteq Model /\ up' \subseteq present' /\ spent' \in Nat
          /\ req' \in [Request -> CallRecord]
      BY <1>1, <1>2 DEF Typed
    <2>3. QED
      BY <1>5, <1>6, <1>9, <2>1, <2>2 DEF Typed
  <1>11. HistoryInv'
    BY <1>1, <1>2, <1>7, <1>9 DEF HistoryInv
  <1>12. CachesInv'
    <2>1. Cached(keys)' /\ TRUE \in keys'.val => revokedFor' + keys'.left <= KeyTTL
      <3>1. SUFFICES ASSUME Cached(keys)', TRUE \in keys'.val
                     PROVE  revokedFor' + keys'.left <= KeyTTL
        OBVIOUS
      <3>2. Cached(keys) /\ keys'.val = keys.val /\ keys'.left = keys.left - 1
        BY <1>2, <1>3, <3>1, OlderCache DEF Cached
      <3>3. keys.left \in Nat /\ keys.left > 0
        BY <1>3, <3>2 DEF CacheOf, Cached
      <3>4. revokedFor + keys.left <= KeyTTL
        BY <1>1, <3>1, <3>2 DEF CachesInv
      <3>5. CASE active
        BY <1>2, <1>3, <3>2, <3>3, <3>4, <3>5
      <3>6. CASE ~active
        <4>1. revokedFor' = Longer(revokedFor, KeyTTL)
          BY <1>2, <3>6
        <4>2. QED
          BY <1>3, <3>2, <3>3, <3>4, <4>1, LongerBound
      <3>7. QED
        BY <3>5, <3>6
    <2>2. Cached(costs)' => \A v \in costs'.val : v < Budget => overFor' + costs'.left <= CostTTL
      <3>1. SUFFICES ASSUME Cached(costs)', NEW v \in costs'.val, v < Budget
                     PROVE  overFor' + costs'.left <= CostTTL
        OBVIOUS
      <3>2. Cached(costs) /\ costs'.val = costs.val /\ costs'.left = costs.left - 1
        BY <1>2, <1>3, <3>1, OlderCache DEF Cached
      <3>3. costs.left \in Nat /\ costs.left > 0
        BY <1>3, <3>2 DEF CacheOf, Cached
      <3>4. overFor + costs.left <= CostTTL
        BY <1>1, <3>1, <3>2 DEF CachesInv
      <3>5. CASE spent < Budget
        BY <1>2, <1>3, <3>2, <3>3, <3>4, <3>5
      <3>6. CASE ~(spent < Budget)
        <4>1. overFor' = Longer(overFor, CostTTL)
          BY <1>2, <3>6
        <4>2. QED
          BY <1>3, <3>2, <3>3, <3>4, <4>1, LongerBound
      <3>7. QED
        BY <3>5, <3>6
    <2>3. ASSUME NEW m \in Local, Cached(states[m])', FALSE \in states'[m].val
          PROVE  away'[m] + states'[m].left <= StateTTL
      <3>1. m \in Model /\ states[m] \in CacheOf(BOOLEAN)
        BY <1>3, Constants
      <3>2. states'[m] = IF Cached(Older(states[m])) THEN Older(states[m]) ELSE Empty
        BY <1>2, <3>1
      <3>3. states'[m] = Older(states[m]) /\ Cached(Older(states[m]))
        BY <2>3, <3>2, EmptyCache DEF Cached
      <3>4. /\ Cached(states[m]) /\ Older(states[m]).val = states[m].val
            /\ Older(states[m]).left = states[m].left - 1
        BY <3>1, <3>3, OlderCache
      <3>5. states[m].left \in Nat /\ FALSE \in states[m].val
        BY <2>3, <3>1, <3>3, <3>4 DEF CacheOf
      <3>6. away[m] + states[m].left <= StateTTL
        BY <1>1, <3>4, <3>5 DEF CachesInv
      <3>7. away[m] \in Nat /\ away'[m] \in Nat /\ away'[m] <= away[m] + 1
        BY <1>7, <3>1
      <3>8. states'[m].left = states[m].left - 1
        BY <3>3, <3>4
      <3>9. QED
        BY <1>3, <3>5, <3>6, <3>7, <3>8
    <2>4. \A w \in targets'.val : SeesAll(w.present)'
      <3>1. targets'.val = targets.val
        BY <1>2, <1>3, OlderCache
      <3>2. QED
        BY <1>1, <1>8, <3>1 DEF CachesInv, SeesAll, Remembers
    <2>5. QED
      BY <1>5, <1>6, <2>1, <2>2, <2>3, <2>4 DEF CachesInv
  <1>13. HolesInv'
    BY <1>1, <1>2, <1>7, Constants DEF HolesInv
  <1>14. CallsInv'
    BY <1>2, <1>8, CallsKept
  <1>15. QED
    BY <1>10, <1>11, <1>12, <1>13, <1>14 DEF IInv

LEMMA SyncKeeps ==
  ASSUME IInv, SyncGateway
  PROVE  IInv'
  <1>1. /\ config' = GatewayConfig(up, routing)
        /\ UNCHANGED <<rows, loaded, caches, req, history>>
    BY DEF SyncGateway
  <1>2. /\ UNCHANGED <<active, routing, present, up, spent, loaded, req, revokedFor, overFor, away>>
        /\ UNCHANGED caches
    BY <1>1 DEF rows, history
  <1>3. Remembers /\ Typed /\ HistoryInv /\ HolesInv
    BY <1>2 DEF Remembers, IInv
  <1>4. Typed'
    BY <1>2, <1>3 DEF Typed, caches
  <1>5. HistoryInv'
    BY <1>2, <1>3 DEF HistoryInv
  <1>6. CachesInv'
    <2>1. /\ revokedFor \in Nat /\ overFor \in Nat
          /\ \A m \in Model : away[m] \in Nat
      BY <1>3, Constants DEF Typed, Age, Never
    <2>2. QED
      BY <1>2, <1>3, <2>1, CachesKept
  <1>7. HolesInv'
    <2>1. Name \notin Local /\ config'.hole => Name \notin present
      BY <1>1, <1>3, Constants DEF HolesInv, GatewayConfig
    <2>2. QED
      BY <1>2, <1>3, <2>1, Constants DEF HolesInv, HistoryInv
  <1>8. CallsInv'
    BY <1>2, <1>3, CallsKept
  <1>9. QED
    BY <1>4, <1>5, <1>6, <1>7, <1>8 DEF IInv

(* A new replica has nothing cached.                                        *)
LEMMA RollOutKeeps ==
  ASSUME IInv, RollOut
  PROVE  IInv'
  <1>1. /\ loaded' = config
        /\ keys' = Empty /\ rules' = Empty /\ targets' = Empty /\ costs' = Empty
        /\ states' = [m \in Model |-> Empty]
        /\ UNCHANGED <<active, routing, present, up, spent, config, req, revokedFor, overFor, away>>
    BY DEF RollOut, rows, history
  <1>2. Remembers /\ Typed /\ HistoryInv /\ HolesInv
    BY <1>1 DEF Remembers, IInv
  <1>3. Typed'
    BY <1>1, <1>2, EmptyCache DEF Typed
  <1>4. HistoryInv'
    BY <1>1, <1>2 DEF HistoryInv
  <1>5. CachesInv'
    <2>1. \A m \in Model : states'[m] = Empty
      BY <1>1
    <2>2. \A m \in Model : Filled(states[m])' /\ ~Cached(states[m])'
      BY <2>1, EmptyCache DEF Filled, Cached
    <2>3. /\ Filled(keys)' /\ Filled(rules)' /\ Filled(targets)' /\ Filled(costs)'
          /\ ~Cached(keys)' /\ ~Cached(costs)' /\ targets'.val = {}
      BY <1>1, EmptyCache DEF Filled, Cached
    <2>4. QED
      BY <2>2, <2>3, Constants DEF CachesInv
  <1>6. HolesInv'
    BY <1>1, <1>2 DEF HolesInv
  <1>7. CallsInv'
    BY <1>1, <1>2, CallsKept
  <1>8. QED
    BY <1>3, <1>4, <1>5, <1>6, <1>7 DEF IInv

LEMMA Initially == Init => IInv
  <1> SUFFICES ASSUME Init PROVE IInv
    OBVIOUS
  <1>1. /\ active = TRUE /\ routing \in Definition /\ present \subseteq Model /\ up = present
        /\ config = GatewayConfig(up, routing) /\ loaded = config /\ spent = 0
        /\ keys = Empty /\ rules = Empty /\ targets = Empty /\ costs = Empty
        /\ states = [m \in Model |-> Empty] /\ req = [r \in Request |-> Done]
        /\ revokedFor = 0 /\ overFor = 0
        /\ away = [m \in Model |-> IF m \in present THEN Never ELSE 0]
    BY DEF Init, Definition
  <1>2. \A m \in Model : away[m] \in Age /\ (m \notin present => away[m] = 0)
    BY <1>1, Constants
  <1>3. Typed
    <2>1. Done \in CallRecord
      BY CallTypes
    <2>2. req \in [Request -> CallRecord]
      BY <1>1, <2>1
    <2>3. away \in [Model -> Age]
      BY <1>1, <1>2
    <2>4. states \in [Model -> CacheOf(BOOLEAN)]
      BY <1>1, EmptyCache
    <2>5. QED
      BY <1>1, <2>2, <2>3, <2>4, EmptyCache DEF Typed
  <1>4. HistoryInv
    BY <1>1, <1>2 DEF HistoryInv
  <1>5. CachesInv
    <2>1. \A m \in Model : Filled(states[m]) /\ ~Cached(states[m])
      BY <1>1, EmptyCache
    <2>2. QED
      BY <1>1, <2>1, EmptyCache, Constants DEF CachesInv
  <1>6. HolesInv
    <2>1. config.hole => Name \notin present
      BY <1>1 DEF GatewayConfig
    <2>2. QED
      BY <1>1, <1>2, <2>1, Constants DEF HolesInv
  <1>7. CallsInv
    <2>1. Done.pc = "done" /\ Done.out = Nothing /\ Done.over = 0 /\ Done.revoked = 0
      BY DEF Done, Arrived
    <2>2. QED
      BY <1>1, <2>1, Constants DEF CallsInv, CallOk, Nothing
  <1>8. QED
    BY <1>3, <1>4, <1>5, <1>6, <1>7 DEF IInv

(* The invariant holds in every state.                                      *)
THEOREM Invariant == Spec => []IInv
  <1>1. Init => IInv
    BY Initially
  <1>2. IInv /\ [Next]_vars => IInv'
    <2> SUFFICES ASSUME IInv, [Next]_vars PROVE IInv'
      OBVIOUS
    <2>1. ASSUME NEW r \in Request, Step(r) PROVE IInv'
      BY <2>1, CallsGo, CallTables DEF IInv
    <2>2. CASE UNCHANGED vars
      <3>1. UNCHANGED <<active, routing, present, up, spent, config, loaded, keys, rules, targets,
                        costs, states, req, revokedFor, overFor, away>>
        BY <2>2 DEF vars, tables, rows, caches, history
      <3>2. Typed' /\ HistoryInv'
        BY <3>1 DEF IInv, Typed, HistoryInv
      <3>3. CachesInv'
        BY <3>1 DEF IInv, CachesInv, Filled, Cached, SeesAll
      <3>4. HolesInv'
        BY <3>1 DEF IInv, HolesInv
      <3>5. Remembers
        BY <3>1 DEF Remembers
      <3>6. CallsInv'
        BY <3>1, <3>5, CallsKept
      <3>7. QED
        BY <3>2, <3>3, <3>4, <3>6 DEF IInv
    <2>3. QED
      BY <2>1, <2>2, TickKeeps, AdministrateKeeps, SyncKeeps, RollOutKeeps DEF Next
  <1>3. QED
    BY <1>1, <1>2, PTL DEF Spec

(* A revoked key opens nothing once it has been revoked for longer than its *)
(* cache entry lives (CACHE_TTL).                                           *)
THEOREM RevocationIsTimely == Spec => []RevokedIsRefused
  <1>1. IInv => RevokedIsRefused
    BY DEF IInv, CallsInv, CallOk, RevokedIsRefused
  <1>2. QED
    BY <1>1, Invariant, PTL

(* A rule with a budget sends nothing once the budget has been spent for    *)
(* longer than the sums are cached ("budgets stay hard").                   *)
THEOREM BudgetsStayHard == Spec => []BudgetHolds
  <1>1. IInv => BudgetHolds
    BY DEF IInv, CallsInv, CallOk, BudgetHolds
  <1>2. QED
    BY <1>1, Invariant, PTL

(* A call with an API key reaches a model only as a target of the routing   *)
(* it named, whatever fails ("fail CLOSED for external callers").           *)
THEOREM ExternalsAreRouted == Spec => []ExternalIsRouted
  <1>1. IInv => ExternalIsRouted
    BY Constants DEF IInv, CallsInv, CallOk, ExternalIsRouted
  <1>2. QED
    BY <1>1, Invariant, PTL

(* "No such model" is said only of a deployment that was away within the    *)
(* lifetime of a cache entry (_rollout_guard).                              *)
THEOREM RolloutsAreRetryable == Spec => []RolloutIsRetryable
  <1>1. IInv => RolloutIsRetryable
    BY DEF IInv, CallsInv, CallOk, RolloutIsRetryable
  <1>2. QED
    BY <1>1, Invariant, PTL

(* "unavailable" and the address that answers nothing are only for a target *)
(* that was away, for a routing that has no deployment's name.              *)
THEOREM UnavailableOnlyAway ==
  ASSUME Name \notin Local
  PROVE  Spec => []UnavailableIsTrue
  <1>1. IInv => UnavailableIsTrue
    BY DEF IInv, CallsInv, CallOk, UnavailableIsTrue
  <1>2. QED
    BY <1>1, Invariant, PTL
===============================================================================
