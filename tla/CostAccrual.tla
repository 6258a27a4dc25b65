------------------------------ MODULE CostAccrual ------------------------------
(***************************************************************************)
(* The time-cost ledger: the sampler's ticks, the settle of a turn that    *)
(* ended, the chain that serializes their accruals, and the sessions and   *)
(* deployments whose time they bill.  A subject is billed from its         *)
(* watermark, the end of its last entry, or from its pod's start.          *)
(***************************************************************************)
EXTENDS Naturals, Sequences, FiniteSetsExt

CONSTANTS
  Session, Deployment,
  Worker,        \* ticks and settles in flight at once (bound)
  Settings,      \* the sets of entry kinds the settings and prices may call for
  Minute,        \* the billing quantum, in units of time
  GapCap,        \* GAP_CAP_SEC: the longest span of one entry
  MaxTurn, MaxTime  \* bounds

DeploymentKinds == {"pool_pod", "deployment_time"}
SessionKinds == {"env_pod", "session_time"}
Kinds == DeploymentKinds \union SessionKinds

ASSUME CostAccrualAssumption ==
  /\ Session \intersect Deployment = {}
  /\ Settings # {} /\ Settings \subseteq SUBSET Kinds
  /\ Minute \in Nat \ {0} /\ GapCap \in Nat
  /\ MaxTurn \in Nat /\ MaxTime \in Nat

VARIABLES
  now,       \* the time
  served,    \* the deployments that may have ready replicas
  status,    \* sessions.status: queued, running, or at rest
  turn,      \* sessions.turns
  job,       \* the Job of each turn: its state, its pod's start and end
  ledger,    \* cost_entries
  billed,    \* sessions.billed_cost, in units of time
  work,      \* the ticks and settles in flight
  chain      \* accrualChain: those whose accrual waits or runs

cluster == <<status, turn, job>>
vars == <<now, served, cluster, ledger, billed, work, chain>>

NoJob == [state |-> "none", start |-> 0, end |-> 0]
Free == [pc |-> "free", mode |-> "tick", at |-> 0, for |-> {}, deps |-> {},
         todo |-> {}, turns |-> {}, out |-> {}, bills |-> {}]

(* The process boots; sessions are at rest or run, from this moment on.     *)
Init ==
  /\ now = 0
  /\ served \in SUBSET Deployment
  /\ status \in [Session -> {"running", "rest"}]
  /\ turn \in [Session -> 0..MaxTurn]
  /\ job = [s \in Session |-> [n \in 0..MaxTurn |->
              IF n = turn[s] /\ status[s] = "running" THEN [NoJob EXCEPT !.state = "active"] ELSE NoJob]]
  /\ ledger = <<>>
  /\ billed = [s \in Session |-> 0]
  /\ work = [w \in Worker |-> Free]
  /\ chain = <<>>

Update(w, r) == work' = [work EXCEPT ![w] = r]
---------------------------------------------------------------------------
(* computeAccruals.                                                          *)

(* costWatermarks: the end of a subject's latest entry, if it has one.      *)
Watermark(x) ==
  LET ends == {ledger[i].to : i \in {j \in DOMAIN ledger : ledger[j].subject = x}}
  IN IF ends = {} THEN {} ELSE {Max(ends)}

SpanByWatermark(at, mark, anchor) == \* mutant: the watermark wins over the anchor
  LET from == Max(IF mark # {} THEN mark ELSE anchor)
  IN [from |-> from, raw |-> Min({GapCap, IF at > from THEN at - from ELSE 0})]

(* span: from the later of the watermark and the pod's start, capped.       *)
Span(at, mark, anchor) ==
  LET from == Max(mark \union anchor)
  IN [from |-> from, raw |-> Min({GapCap, IF at > from THEN at - from ELSE 0})]

(* quantizeSec: a settle bills the started minute, a tick leaves it.        *)
Quantize(n, mode) ==
  (IF mode = "settle" THEN (n + Minute - 1) \div Minute ELSE n \div Minute) * Minute

Entry(k, x, from, to, mode) ==
  [kind |-> k, subject |-> x, from |-> from, to |-> to, mode |-> mode]

(* The entries of one subject: one of each of the kinds.                    *)
Drafts(x, kinds, at, mark, anchor, mode) ==
  LET span == Span(at, mark, anchor)
      sec  == Quantize(span.raw, mode)
      new  == {Entry(k, x, span.from, span.from + sec, mode) : k \in kinds}
  IN IF mark \union anchor = {} \/ sec = 0 THEN {} ELSE new

(* A deployment that is sighted first gets a row of no cost, as watermark.  *)
DeploymentDrafts(d, kinds, at) ==
  IF Watermark(d) = {} THEN {Entry(k, d, at, at, "tick") : k \in kinds}
  ELSE Drafts(d, kinds, at, Watermark(d), {}, "tick")

---------------------------------------------------------------------------
(* costSamplerTick and settleSession.                                        *)

(* An accrual's observations are made: it takes its place in the chain, and *)
(* waits for those before it (serialized).                                  *)
Observes(w, r) ==
  IF r.todo = {} THEN Update(w, [r EXCEPT !.pc = "queued"]) /\ chain' = Append(chain, w)
  ELSE Update(w, r) /\ UNCHANGED chain

(* The timer, or a boot.  A tick does not wait for the one before it.       *)
TickBegin(w) ==
  /\ work[w].pc = "free"
  /\ Update(w, [work[w] EXCEPT !.pc = "listing", !.mode = "tick", !.at = now])
  /\ UNCHANGED <<now, served, cluster, ledger, billed, chain>>

(* The deployments that are ready now, none if the list fails, and          *)
(* listRunningSessionsForBilling.                                           *)
TickList(w) ==
  /\ work[w].pc = "listing"
  /\ \E ds \in SUBSET served :
       Observes(w, [work[w] EXCEPT !.pc = "asking", !.deps = ds,
                                   !.todo = {[session |-> s, turn |-> turn[s]] :
                                               s \in {x \in Session : status[x] = "running"}}])
  /\ UNCHANGED <<now, served, cluster, ledger, billed>>

(* The settle hook: settleSession is called for s.                          *)
Settles(s) ==
  \E w \in Worker :
    /\ work[w].pc = "free"
    /\ Update(w, [work[w] EXCEPT !.pc = "reading", !.mode = "settle", !.for = {s}])

(* getSessionForBilling: the session's turn by now.                         *)
SettleRead(w) ==
  /\ work[w].pc = "reading"
  /\ Observes(w, [work[w] EXCEPT !.pc = "asking",
                                 !.todo = {[session |-> s, turn |-> turn[s]] : s \in work[w].for}])
  /\ UNCHANGED <<now, served, cluster, ledger, billed>>

(* sessionJobInfo: the pod's start, if the Job is there and has one.        *)
Anchor(j) == IF j.state \in {"active", "finished"} THEN {j.start} ELSE {}

(* A tick passes over a turn whose pod is not active.                       *)
Billed(mode, j) == mode = "settle" \/ j.state = "active"

Ask(w) ==
  /\ work[w].pc = "asking"
  /\ \E t \in work[w].todo :
       LET j == job[t.session][t.turn]
           obs == [session |-> t.session, anchor |-> Anchor(j)]
       IN Observes(w, [work[w] EXCEPT !.todo = @ \ {t},
                         !.turns = IF Billed(work[w].mode, j) THEN @ \union {obs} ELSE @])
  /\ UNCHANGED <<now, served, cluster, ledger, billed>>

(* sessionJobInfo fails: a tick passes over, a settle has no anchor.        *)
AskFails(w) ==
  /\ work[w].pc = "asking"
  /\ \E t \in work[w].todo :
       LET obs == [session |-> t.session, anchor |-> {}]
       IN Observes(w, [work[w] EXCEPT !.todo = @ \ {t},
                         !.turns = IF work[w].mode = "settle" THEN @ \union {obs} ELSE @])
  /\ UNCHANGED <<now, served, cluster, ledger, billed>>

RunsNow(w) == \* mutant: accruals are not serialized
  \E i \in DOMAIN chain : chain[i] = w

Runs(w) == chain # <<>> /\ Head(chain) = w

---------------------------------------------------------------------------
(* accrue: the settings, prices and watermarks are read, the entries they   *)
(* call for are inserted one by one, then the sessions' costs are added.    *)

Leave(w) ==
  /\ work' = [work EXCEPT ![w] = Free]
  /\ chain' = Tail(chain)

Proceeds(w, r) ==
  IF r.out = {} /\ r.bills = {} THEN Leave(w) ELSE Update(w, r) /\ UNCHANGED chain

(* A settle takes the time here, a tick took it when it began.              *)
Accrue(w) ==
  /\ Runs(w) /\ work[w].pc = "queued"
  /\ \E kinds \in Settings :
       LET at == IF work[w].mode = "settle" THEN now ELSE work[w].at
           ds == UNION {DeploymentDrafts(d, kinds \intersect DeploymentKinds, at) :
                          d \in work[w].deps}
           ts == UNION {Drafts(t.session, kinds \intersect SessionKinds, at,
                               Watermark(t.session), t.anchor, work[w].mode) :
                          t \in work[w].turns}
       IN Proceeds(w, [work[w] EXCEPT !.pc = "writing", !.out = ds \union ts,
                                      !.bills = {e \in ts : e.kind = "session_time"}])
  /\ UNCHANGED <<now, served, cluster, ledger, billed>>

(* The entries of the deployments come before those of the sessions, and a  *)
(* subject's real cost before what is billed for it.                        *)
Before(d, e) ==
  \/ d.kind \in DeploymentKinds /\ e.kind \in SessionKinds
  \/ d.subject = e.subject /\ d.kind \in {"pool_pod", "env_pod"} /\ d.kind # e.kind

(* insertCostEntries.                                                       *)
Insert(w) ==
  \E e \in work[w].out :
    /\ \A d \in work[w].out : ~Before(d, e)
    /\ ledger' = Append(ledger, e)
    /\ Proceeds(w, [work[w] EXCEPT !.out = @ \ {e}])
    /\ UNCHANGED billed

(* addSessionBilledCost.                                                    *)
Charge(w) ==
  \E e \in work[w].bills :
    /\ billed' = [billed EXCEPT ![e.subject] = @ + e.to - e.from]
    /\ Proceeds(w, [work[w] EXCEPT !.bills = @ \ {e}])
    /\ UNCHANGED ledger

Step(w) == IF work[w].out # {} THEN Insert(w) ELSE Charge(w)

Record(w) ==
  /\ Runs(w) /\ work[w].pc = "writing"
  /\ Step(w)
  /\ UNCHANGED <<now, served, cluster>>

(* A query of the accrual fails: it is given up, and the chain goes on.     *)
AccrueFails(w) ==
  /\ Runs(w) /\ work[w].pc \in {"queued", "writing"}
  /\ Leave(w)
  /\ UNCHANGED <<now, served, cluster, ledger, billed>>

Sampler ==
  \E w \in Worker :
    \/ TickBegin(w) \/ TickList(w) \/ SettleRead(w) \/ Ask(w) \/ AskFails(w)
    \/ Accrue(w) \/ Record(w) \/ AccrueFails(w)
---------------------------------------------------------------------------
(* The sessions: each turn has a Job, whose pod starts, reports and ends.    *)

SetJob(s, n, j) == job' = [job EXCEPT ![s][n] = j]

PodStarts(s) ==
  /\ status[s] = "queued" /\ job[s][turn[s]].state = "none"
  /\ SetJob(s, turn[s], [state |-> "active", start |-> now, end |-> 0])
  /\ UNCHANGED <<status, turn, work>>

(* appendEvents of a runner: a queued session runs.                         *)
RunnerEvents(s) ==
  /\ status[s] = "queued" /\ \E n \in 0..turn[s] : job[s][n].state = "active"
  /\ status' = [status EXCEPT ![s] = "running"]
  /\ UNCHANGED <<turn, job, work>>

PodEnds(s, n) ==
  /\ job[s][n].state = "active"
  /\ SetJob(s, n, [job[s][n] EXCEPT !.state = "finished", !.end = now])
  /\ UNCHANGED <<status, turn, work>>

(* The turn's pod posts its status, again if the answer was lost: every     *)
(* post that applies settles.                                               *)
PostStatus(s) ==
  /\ job[s][turn[s]].state = "active"
  /\ status' = [status EXCEPT ![s] = "rest"]
  /\ Settles(s)
  /\ UNCHANGED <<turn, job>>

StopJobs(s) ==
  job' = [job EXCEPT ![s] = [n \in DOMAIN @ |->
            IF @[n].state \in {"active", "finished"}
            THEN [state |-> "missing", start |-> @[n].start,
                  end |-> IF @[n].state = "active" THEN now ELSE @[n].end]
            ELSE @[n]]]

(* The interrupt: the Jobs go, and a turn that was running settles.         *)
Interrupt(s) ==
  /\ StopJobs(s)
  /\ status' = [status EXCEPT ![s] = "rest"]
  /\ IF status[s] = "running" THEN Settles(s) ELSE UNCHANGED work
  /\ UNCHANGED turn

(* The zombie sweep: the turn's Job is over and nothing was reported.       *)
FailZombie(s) ==
  /\ status[s] \in {"queued", "running"}
  /\ job[s][turn[s]].state # "active"
  /\ status' = [status EXCEPT ![s] = "rest"]
  /\ Settles(s)
  /\ UNCHANGED <<turn, job>>

FollowUp(s) ==
  /\ status[s] = "rest" /\ turn[s] < MaxTurn
  /\ status' = [status EXCEPT ![s] = "queued"]
  /\ turn' = [turn EXCEPT ![s] = @ + 1]
  /\ UNCHANGED <<job, work>>

Cluster ==
  /\ \E s \in Session :
          \/ PodStarts(s) \/ RunnerEvents(s) \/ PostStatus(s) \/ Interrupt(s)
          \/ FailZombie(s) \/ FollowUp(s)
          \/ \E n \in 0..MaxTurn : PodEnds(s, n)
  /\ UNCHANGED <<now, served, ledger, billed, chain>>

---------------------------------------------------------------------------
Pass ==
  /\ now < MaxTime
  /\ now' = now + 1
  /\ UNCHANGED <<served, cluster, ledger, billed, work, chain>>

(* The process dies, with the ticks and settles in flight.                  *)
Crash ==
  /\ work' = [w \in Worker |-> Free] /\ chain' = <<>>
  /\ UNCHANGED <<now, served, cluster, ledger, billed>>

Next == Sampler \/ Cluster \/ Pass \/ Crash

Spec == Init /\ [][Next]_vars
---------------------------------------------------------------------------
(***************************************************************************)
(* No time of a subject is billed twice: two entries of one kind never     *)
(* share a moment, although ticks overlap settles and each other (the      *)
(* chain is there "so a settle racing a tick cannot both accrue the same   *)
(* span"), and a settle bills into the future.                             *)
(***************************************************************************)
SpansNeverOverlap ==
  \A i, j \in DOMAIN ledger :
    i < j /\ ledger[i].subject = ledger[j].subject /\ ledger[i].kind = ledger[j].kind
      => ledger[i].to <= ledger[j].from

(***************************************************************************)
(* What a tick bills of a session is time one of its pods really ran       *)
(* ("a stale watermark from before an idle gap must never win over a       *)
(* fresher anchor"): whatever ends, starts or is interrupted while the     *)
(* tick asks, and however long its accrual waits in the chain.             *)
(***************************************************************************)
TickBillsRuntime ==
  \A i \in DOMAIN ledger :
    ledger[i].mode = "tick" /\ ledger[i].subject \in Session =>
      \E n \in 0..MaxTurn :
        LET j == job[ledger[i].subject][n]
        IN /\ j.state \in {"active", "finished", "missing"}
           /\ j.start <= ledger[i].from
           /\ j.state = "active" \/ ledger[i].to <= j.end

===============================================================================
