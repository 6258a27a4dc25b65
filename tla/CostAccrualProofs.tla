--------------------------- MODULE CostAccrualProofs ---------------------------
(***************************************************************************)
(* Proofs about CostAccrual, for any number of sessions, deployments,      *)
(* turns and accruals at once, all settings and every length of time.      *)
(***************************************************************************)
EXTENDS CostAccrual, WellFoundedInduction, TLAPS

Subject == Session \union Deployment
EntryRecord == [kind : Kinds, subject : Subject, from : Nat, to : Nat, mode : {"tick", "settle"}]
JobRecord == [state : {"none", "active", "finished", "missing"}, start : Nat, end : Nat]
Anchors == {{}} \union {{a} : a \in Nat}
Question == [session : Session, turn : 0..MaxTurn]
Observation == [session : Session, anchor : Anchors]
WorkRecord ==
  [pc : {"free", "listing", "reading", "asking", "queued", "writing"}, mode : {"tick", "settle"},
   at : Nat, for : SUBSET Session, deps : SUBSET Deployment, todo : SUBSET Question,
   turns : SUBSET Observation, out : SUBSET EntryRecord, bills : SUBSET EntryRecord]

Typed ==
  /\ now \in Nat /\ served \subseteq Deployment
  /\ turn \in [Session -> 0..MaxTurn]
  /\ job \in [Session -> [0..MaxTurn -> JobRecord]]
  /\ ledger \in Seq(EntryRecord)
  /\ work \in [Worker -> WorkRecord]
  /\ chain \in Seq(Worker)

(* One pod of the session ran from a to b.                                  *)
Ran(s, a, b) ==
  \E n \in 0..MaxTurn :
    /\ job[s][n].state \in {"active", "finished", "missing"}
    /\ job[s][n].start <= a
    /\ job[s][n].state = "active" \/ b <= job[s][n].end

OfTick(e) == e.mode = "tick" /\ e.subject \in Session
Same(d, e) == d.subject = e.subject /\ d.kind = e.kind
OnePerSession(S) == \A t, u \in S : t.session = u.session => t = u

(* What an accrual has seen and has yet to write: a session is asked about  *)
(* once, what a tick saw of it ran, and no entry begins before the ledger   *)
(* ends.                                                                    *)
Knows(x) ==
  /\ x.at <= now
  /\ x.pc \in {"free", "listing", "reading"} => x.turns = {}
  /\ OnePerSession(x.todo) /\ OnePerSession(x.turns)
  /\ \A t \in x.todo, u \in x.turns : t.session # u.session
  /\ x.mode = "tick" =>
       \A t \in x.turns : \E a \in Nat : t.anchor = {a} /\ Ran(t.session, a, x.at)

Owes(x) ==
  /\ x.pc # "writing" => x.out = {}
  /\ \A d, e \in x.out : Same(d, e) => d = e
  /\ \A e \in x.out : \A i \in DOMAIN ledger : Same(ledger[i], e) => ledger[i].to <= e.from
  /\ \A e \in x.out : OfTick(e) => e.to <= now /\ Ran(e.subject, e.from, e.to)

Sound(x) == Knows(x) /\ Owes(x)
WorkInv == \A w \in Worker : Sound(work[w])

(* Accruals run one by one, in the order in which they came.                *)
ChainInv ==
  /\ \A i, j \in DOMAIN chain : chain[i] = chain[j] => i = j
  /\ \A i \in DOMAIN chain : work[chain[i]].pc \in {"queued", "writing"}
  /\ \A w \in Worker : work[w].pc = "writing" => chain # <<>> /\ w = chain[1]

LedgerInv ==
  /\ \E b \in Nat : \A i \in DOMAIN ledger : ledger[i].to <= b
  /\ SpansNeverOverlap
  /\ \A i \in DOMAIN ledger :
       OfTick(ledger[i]) => /\ ledger[i].to <= now
                            /\ Ran(ledger[i].subject, ledger[i].from, ledger[i].to)

IInv == Typed /\ WorkInv /\ ChainInv /\ LedgerInv
-------------------------------------------------------------------------------
LEMMA Constants ==
  /\ Minute \in Nat /\ Minute > 0 /\ GapCap \in Nat /\ MaxTurn \in Nat
  /\ Session \intersect Deployment = {} /\ \A k \in Settings : k \subseteq Kinds
  BY CostAccrualAssumption

(* A bounded set of numbers has a greatest one.                             *)
LEMMA MaxOf ==
  ASSUME NEW S \in SUBSET Nat, S # {}, NEW b \in Nat, \A n \in S : n <= b
  PROVE  Max(S) \in S /\ \A n \in S : n <= Max(S)
  <1> DEFINE B == {n \in Nat : \A k \in S : k <= n}
             R == {x \in Nat \X Nat : x[1] < x[2]}
  <1>1. IsWellFoundedOn(R, Nat)
    BY NatLessThanWellFounded DEF OpToRel
  <1>2. b \in B
    OBVIOUS
  <1>3. PICK m \in B : \A n \in B : <<n, m>> \notin R
    <2> HIDE DEF R
    <2>1. B \subseteq Nat /\ B # {}
      BY <1>2
    <2> HIDE DEF B
    <2>2. QED
      BY <1>1, <2>1, WFMin
  <1>4. \A n \in B : ~(n < m)
    BY <1>3
  <1>5. m \in S
    <2>1. SUFFICES ASSUME m \notin S PROVE FALSE
      OBVIOUS
    <2>2. PICK k \in S : TRUE
      OBVIOUS
    <2>3. m - 1 \in Nat /\ \A n \in S : n <= m - 1
      BY <2>1, <2>2
    <2>4. QED
      BY <1>4, <2>3
  <1>6. \E x \in S : \A y \in S : x >= y
    BY <1>5
  <1>7. QED
    BY <1>6 DEF Max

LEMMA MinOf ==
  ASSUME NEW a \in Nat, NEW b \in Nat
  PROVE  Min({a, b}) \in Nat /\ Min({a, b}) <= a /\ Min({a, b}) <= b
  <1>1. \E x \in {a, b} : \A y \in {a, b} : x <= y
    OBVIOUS
  <1>2. QED
    BY <1>1 DEF Min

(* What is billed is a number of seconds, and a tick bills none that has    *)
(* not passed (quantizeSec).                                                *)
LEMMA Quantized ==
  ASSUME NEW n \in Nat, NEW mode
  PROVE  Quantize(n, mode) \in Nat /\ (mode = "tick" => Quantize(n, mode) <= n)
  <1>1. \A k \in Nat : k \div Minute \in Nat /\ (k \div Minute) * Minute \in Nat
    BY Constants
  <1>2. n + Minute - 1 \in Nat
    BY Constants
  <1>3. (n \div Minute) * Minute <= n
    BY Constants
  <1>4. QED
    BY <1>1, <1>2, <1>3 DEF Quantize
(***************************************************************************)
(* Pods start, end and are taken away; that one ran until now stays true.  *)
(***************************************************************************)
RanStays ==
  \A s \in Session, a \in Nat, b \in Nat : b <= now /\ Ran(s, a, b) => Ran(s, a, b)'

(* A pod keeps its start, and it ends now if it was active.                 *)
Ages(j, k) ==
  j.state # "none" =>
    /\ k.state \in {"active", "finished", "missing"}
    /\ k.start = j.start
    /\ \/ k.state = j.state /\ k.end = j.end
       \/ j.state = "active" /\ k.end = now
       \/ {j.state, k.state} \subseteq {"finished", "missing"} /\ k.end = j.end

LEMMA AgesKeeps ==
  ASSUME Typed, \A s \in Session, n \in 0..MaxTurn : Ages(job[s][n], job'[s][n])
  PROVE  RanStays
  <1>1. SUFFICES ASSUME NEW s \in Session, NEW a \in Nat, NEW b \in Nat, b <= now, Ran(s, a, b)
                 PROVE  Ran(s, a, b)'
    BY DEF RanStays
  <1>2. PICK n \in 0..MaxTurn :
          /\ job[s][n].state \in {"active", "finished", "missing"}
          /\ job[s][n].start <= a
          /\ job[s][n].state = "active" \/ b <= job[s][n].end
    BY <1>1 DEF Ran
  <1>3. /\ job'[s][n].state \in {"active", "finished", "missing"}
        /\ job'[s][n].start = job[s][n].start
        /\ \/ job'[s][n].state = job[s][n].state /\ job'[s][n].end = job[s][n].end
           \/ job[s][n].state = "active" /\ job'[s][n].end = now
           \/ job[s][n].state # "active" /\ job'[s][n].end = job[s][n].end
    BY <1>2 DEF Ages
  <1>4. job'[s][n].state = "active" \/ b <= job'[s][n].end
    BY <1>1, <1>2, <1>3
  <1>5. QED
    BY <1>2, <1>3, <1>4 DEF Ran
LEMMA SelfAges ==
  ASSUME NEW j \in JobRecord
  PROVE  Ages(j, j)
  BY DEF Ages, JobRecord

LEMMA SameAges ==
  ASSUME Typed, job' = job
  PROVE  RanStays
  <1>1. \A s \in Session, n \in 0..MaxTurn : Ages(job[s][n], job'[s][n])
    BY SelfAges DEF Typed
  <1>2. QED
    BY <1>1, AgesKeeps

(* One Job changes.                                                         *)
LEMMA OneJob ==
  ASSUME Typed, NEW s \in Session, NEW n \in 0..MaxTurn, NEW j \in JobRecord, SetJob(s, n, j),
         Ages(job[s][n], j)
  PROVE  job' \in [Session -> [0..MaxTurn -> JobRecord]] /\ RanStays
  <1>1. job \in [Session -> [0..MaxTurn -> JobRecord]]
    BY DEF Typed
  <1>2. job' = [job EXCEPT ![s] = [job[s] EXCEPT ![n] = j]]
    BY DEF SetJob
  <1>3. job' \in [Session -> [0..MaxTurn -> JobRecord]]
    BY <1>1, <1>2
  <1>4. \A u \in Session, k \in 0..MaxTurn : job'[u][k] = IF u = s /\ k = n THEN j ELSE job[u][k]
    BY <1>1, <1>2
  <1>5. \A u \in Session, k \in 0..MaxTurn : Ages(job[u][k], job[u][k])
    BY <1>1, SelfAges
  <1>6. \A u \in Session, k \in 0..MaxTurn : Ages(job[u][k], job'[u][k])
    BY <1>4, <1>5
  <1>7. QED
    BY <1>3, <1>6, AgesKeeps

(* All Jobs of a session are stopped (stopSession).                         *)
LEMMA StopsJobs ==
  ASSUME Typed, NEW s \in Session, StopJobs(s)
  PROVE  job' \in [Session -> [0..MaxTurn -> JobRecord]] /\ RanStays
  <1>1. job \in [Session -> [0..MaxTurn -> JobRecord]] /\ now \in Nat
    BY DEF Typed
  <1> DEFINE Gone(j) == [state |-> "missing", start |-> j.start,
                         end |-> IF j.state = "active" THEN now ELSE j.end]
             After(j) == IF j.state \in {"active", "finished"} THEN Gone(j) ELSE j
             f == [n \in 0..MaxTurn |-> After(job[s][n])]
  <1>2. \A j \in JobRecord : After(j) \in JobRecord
    BY <1>1 DEF JobRecord
  <1>3. \A j \in JobRecord : Ages(j, After(j))
    <2>1. SUFFICES ASSUME NEW j \in JobRecord PROVE Ages(j, After(j))
      OBVIOUS
    <2>2. CASE j.state \in {"active", "finished"}
      <3>1. After(j) = Gone(j)
        BY <2>2
      <3>2. /\ Gone(j).state = "missing" /\ Gone(j).start = j.start
            /\ Gone(j).end = IF j.state = "active" THEN now ELSE j.end
        OBVIOUS
      <3>3. QED
        BY <2>2, <3>1, <3>2 DEF Ages
    <2>3. CASE j.state \notin {"active", "finished"}
      BY <2>3 DEF Ages, JobRecord
    <2>4. QED
      BY <2>2, <2>3
  <1>4. DOMAIN job[s] = 0..MaxTurn
    BY <1>1
  <1>5. job' = [job EXCEPT ![s] = f]
    BY <1>4 DEF StopJobs
  <1> HIDE DEF After
  <1>6. f \in [0..MaxTurn -> JobRecord]
    BY <1>1, <1>2
  <1>7. \A u \in Session, n \in 0..MaxTurn :
          job'[u][n] = IF u = s THEN After(job[s][n]) ELSE job[u][n]
    BY <1>1, <1>5
  <1> HIDE DEF f
  <1>8. job' \in [Session -> [0..MaxTurn -> JobRecord]]
    BY <1>1, <1>5, <1>6
  <1>9. \A u \in Session, n \in 0..MaxTurn : Ages(job[u][n], job[u][n])
    BY <1>1, SelfAges
  <1>10. \A u \in Session, n \in 0..MaxTurn : Ages(job[u][n], job'[u][n])
    BY <1>1, <1>3, <1>7, <1>9
  <1>11. QED
    BY <1>8, <1>10, AgesKeeps

(* What a step does to the sessions, and to the clock.                      *)
Outside == /\ RanStays /\ now' \in Nat /\ now <= now' /\ served' = served
           /\ turn' \in [Session -> 0..MaxTurn]
           /\ job' \in [Session -> [0..MaxTurn -> JobRecord]]

LEMMA ClusterOutside ==
  ASSUME Typed, Cluster
  PROVE  Outside
  <1>1. now' = now /\ served' = served /\ now \in Nat /\ turn \in [Session -> 0..MaxTurn]
        /\ job \in [Session -> [0..MaxTurn -> JobRecord]]
    BY DEF Cluster, Typed
  <1>2. PICK s \in Session :
          \/ PodStarts(s) \/ RunnerEvents(s) \/ PostStatus(s) \/ Interrupt(s)
          \/ FailZombie(s) \/ FollowUp(s)
          \/ \E n \in 0..MaxTurn : PodEnds(s, n)
    BY DEF Cluster
  <1>3. turn' \in [Session -> 0..MaxTurn]
    <2>1. CASE FollowUp(s)
      BY <1>1, <2>1, Constants DEF FollowUp
    <2>2. CASE ~FollowUp(s)
      BY <1>1, <1>2, <2>2 DEF PodStarts, RunnerEvents, PostStatus, Interrupt, FailZombie, PodEnds
    <2>3. QED
      BY <2>1, <2>2
  <1>4. RanStays /\ job' \in [Session -> [0..MaxTurn -> JobRecord]]
    <2>1. CASE PodStarts(s)
      <3> DEFINE j == [state |-> "active", start |-> now, end |-> 0]
      <3>1. SetJob(s, turn[s], j) /\ job[s][turn[s]].state = "none" /\ turn[s] \in 0..MaxTurn
        BY <1>1, <2>1 DEF PodStarts
      <3>2. j \in JobRecord
        BY <1>1 DEF JobRecord
      <3>3. QED
        BY <3>1, <3>2, OneJob DEF Ages
    <2>2. ASSUME NEW n \in 0..MaxTurn, PodEnds(s, n) PROVE <1>4
      <3> DEFINE j == [job[s][n] EXCEPT !.state = "finished", !.end = now]
      <3>1. SetJob(s, n, j) /\ job[s][n].state = "active" /\ job[s][n] \in JobRecord
        BY <1>1, <2>2 DEF PodEnds
      <3>2. j \in JobRecord /\ j.state = "finished" /\ j.end = now /\ j.start = job[s][n].start
        BY <1>1, <3>1 DEF JobRecord
      <3> HIDE DEF j
      <3>3. QED
        BY <3>1, <3>2, OneJob DEF Ages
    <2>3. CASE Interrupt(s)
      BY <2>3, StopsJobs DEF Interrupt
    <2>4. CASE RunnerEvents(s) \/ PostStatus(s) \/ FailZombie(s) \/ FollowUp(s)
      BY <1>1, <2>4, SameAges DEF RunnerEvents, PostStatus, FailZombie, FollowUp
    <2>5. QED
      BY <1>2, <2>1, <2>2, <2>3, <2>4
  <1>5. QED
    BY <1>1, <1>3, <1>4 DEF Outside

LEMMA StepOutside ==
  ASSUME Typed, [Next]_vars
  PROVE  Outside
  <1>1. CASE Cluster
    BY <1>1, ClusterOutside
  <1>2. ASSUME job' = job, turn' = turn, served' = served, now' \in {now, now + 1} PROVE Outside
    BY <1>2, SameAges DEF Outside, Typed
  <1>3. CASE Pass \/ Crash \/ UNCHANGED vars
    BY <1>2, <1>3 DEF Pass, Crash, cluster, vars
  <1>4. CASE Sampler
    BY <1>2, <1>4 DEF Sampler, TickBegin, TickList, SettleRead, Ask, AskFails, Accrue, Record,
                      AccrueFails, cluster
  <1>5. QED
    BY <1>1, <1>3, <1>4 DEF Next
-------------------------------------------------------------------------------
(* What an accrual has seen stays sound while others go on.                 *)
LEMMA KnowsStays ==
  ASSUME Typed, Outside, NEW x \in WorkRecord, Knows(x)
  PROVE  Knows(x)'
  <1>1. x.at \in Nat /\ x.at <= now /\ now \in Nat /\ now' \in Nat /\ now <= now'
    BY DEF Knows, Outside, WorkRecord, Typed
  <1>2. x.at <= now'
    BY <1>1
  <1>3. x.mode = "tick" =>
          \A t \in x.turns : \E a \in Nat : t.anchor = {a} /\ Ran(t.session, a, x.at)'
    <2>1. SUFFICES ASSUME x.mode = "tick", NEW t \in x.turns
                   PROVE  \E a \in Nat : t.anchor = {a} /\ Ran(t.session, a, x.at)'
      OBVIOUS
    <2>2. PICK a \in Nat : t.anchor = {a} /\ Ran(t.session, a, x.at)
      BY <2>1 DEF Knows
    <2>3. t.session \in Session
      BY DEF WorkRecord, Observation
    <2>4. Ran(t.session, a, x.at)'
      BY <1>1, <2>2, <2>3 DEF Outside, RanStays
    <2>5. QED
      BY <2>2, <2>4
  <1>4. QED
    BY <1>2, <1>3 DEF Knows

LEMMA TickedStays ==
  ASSUME Typed, Outside, NEW e \in EntryRecord, OfTick(e), e.to <= now, Ran(e.subject, e.from, e.to)
  PROVE  e.to <= now' /\ Ran(e.subject, e.from, e.to)'
  <1>1. e.from \in Nat /\ e.to \in Nat /\ e.subject \in Session
    BY DEF EntryRecord, OfTick
  <1>2. Ran(e.subject, e.from, e.to)'
    BY <1>1 DEF Outside, RanStays
  <1>3. QED
    BY <1>1, <1>2 DEF Typed, Outside

LEMMA SoundStays ==
  ASSUME Typed, Outside, ledger' = ledger, NEW x \in WorkRecord, Sound(x)
  PROVE  Sound(x)'
  <1>1. x.out \subseteq EntryRecord
    BY DEF WorkRecord
  <1>2. \A e \in x.out : OfTick(e) => e.to <= now' /\ Ran(e.subject, e.from, e.to)'
    BY <1>1, TickedStays DEF Sound, Owes
  <1>3. Owes(x)'
    BY <1>2 DEF Sound, Owes
  <1>4. QED
    BY <1>3, KnowsStays DEF Sound

LEMMA LedgerStays ==
  ASSUME Typed, Outside, LedgerInv, ledger' = ledger
  PROVE  LedgerInv'
  <1>1. \A i \in DOMAIN ledger : ledger[i] \in EntryRecord
    BY DEF Typed
  <1>2. \A i \in DOMAIN ledger :
          OfTick(ledger[i]) =>
            ledger[i].to <= now' /\ Ran(ledger[i].subject, ledger[i].from, ledger[i].to)'
    BY <1>1, TickedStays DEF LedgerInv
  <1>3. QED
    BY <1>2 DEF LedgerInv, SpansNeverOverlap

(* The chain: a place in it is taken, kept and left.                        *)
Busy == {"queued", "writing"}

LEMMA ChainKeeps ==
  ASSUME Typed, ChainInv, NEW w \in Worker, NEW x \in WorkRecord,
         work' = [work EXCEPT ![w] = x], chain' = chain,
         x.pc \in Busy <=> work[w].pc \in Busy, x.pc = "writing" => Runs(w)
  PROVE  ChainInv'
  <1>1. \A v \in Worker : work'[v] = IF v = w THEN x ELSE work[v]
    BY DEF Typed
  <1>2. \A i \in DOMAIN chain : chain[i] \in Worker
    BY DEF Typed
  <1>3. Runs(w) => chain # <<>> /\ w = chain[1]
    BY DEF Runs, Typed
  <1>4. QED
    BY <1>1, <1>2, <1>3 DEF ChainInv, Busy

LEMMA ChainGrows ==
  ASSUME Typed, ChainInv, NEW w \in Worker, NEW x \in WorkRecord,
         work' = [work EXCEPT ![w] = x], chain' = Append(chain, w),
         x.pc = "queued", work[w].pc \notin Busy
  PROVE  ChainInv' /\ chain' \in Seq(Worker)
  <1>1. chain \in Seq(Worker) /\ \A v \in Worker : work'[v] = IF v = w THEN x ELSE work[v]
    BY DEF Typed
  <1>2. /\ chain' \in Seq(Worker) /\ chain' # <<>> /\ Len(chain) \in Nat
        /\ DOMAIN chain = 1..Len(chain)
        /\ DOMAIN chain' = 1..(Len(chain) + 1)
        /\ chain'[Len(chain) + 1] = w
        /\ \A i \in 1..Len(chain) : chain'[i] = chain[i]
    BY <1>1
  <1>3. \A i \in 1..Len(chain) : chain[i] # w /\ chain[i] \in Worker
    BY <1>1, <1>2 DEF ChainInv, Busy
  <1>4. \A i, j \in DOMAIN chain' : chain'[i] = chain'[j] => i = j
    BY <1>2, <1>3 DEF ChainInv
  <1>5. \A i \in DOMAIN chain' : work'[chain'[i]].pc \in {"queued", "writing"}
    BY <1>1, <1>2, <1>3 DEF ChainInv
  <1>6. \A v \in Worker : work'[v].pc = "writing" => v = chain'[1]
    <2>1. SUFFICES ASSUME NEW v \in Worker, work'[v].pc = "writing" PROVE v = chain'[1]
      OBVIOUS
    <2>2. v # w /\ work[v].pc = "writing"
      BY <1>1, <2>1
    <2>3. chain # <<>> /\ v = chain[1]
      BY <2>2 DEF ChainInv
    <2>4. 1 \in 1..Len(chain)
      BY <1>1, <1>2, <2>3
    <2>5. QED
      BY <1>2, <2>3, <2>4
  <1>7. QED
    BY <1>2, <1>4, <1>5, <1>6 DEF ChainInv

LEMMA ChainLeft ==
  ASSUME Typed, ChainInv, NEW w \in Worker, Runs(w), Leave(w)
  PROVE  ChainInv' /\ chain' \in Seq(Worker) /\ work' \in [Worker -> WorkRecord]
  <1>1. chain \in Seq(Worker) /\ chain # <<>> /\ w = Head(chain) /\ chain' = Tail(chain)
    BY DEF Typed, Runs, Leave
  <1>2. Free \in WorkRecord /\ Free.pc = "free"
    BY DEF Free, WorkRecord
  <1>3. /\ work' \in [Worker -> WorkRecord]
        /\ \A v \in Worker : work'[v] = IF v = w THEN Free ELSE work[v]
    BY <1>2 DEF Typed, Leave
  <1>4. /\ Len(chain) \in Nat /\ Len(chain) > 0 /\ w = chain[1] /\ DOMAIN chain = 1..Len(chain)
        /\ chain' \in Seq(Worker) /\ DOMAIN chain' = 1..(Len(chain) - 1)
        /\ \A i \in 1..(Len(chain) - 1) : chain'[i] = chain[i + 1]
    BY <1>1
  <1>5. \A i \in 1..(Len(chain) - 1) : i + 1 \in DOMAIN chain /\ chain[i + 1] \in Worker /\ chain[i + 1] # w
    <2>1. SUFFICES ASSUME NEW i \in 1..(Len(chain) - 1)
                   PROVE  i + 1 \in DOMAIN chain /\ chain[i + 1] \in Worker /\ chain[i + 1] # w
      OBVIOUS
    <2>2. i + 1 \in DOMAIN chain /\ 1 \in DOMAIN chain /\ i + 1 # 1
      BY <1>4
    <2>3. QED
      BY <1>1, <1>4, <2>2 DEF ChainInv
  <1>6. \A i, j \in DOMAIN chain' : chain'[i] = chain'[j] => i = j
    <2>1. SUFFICES ASSUME NEW i \in 1..(Len(chain) - 1), NEW j \in 1..(Len(chain) - 1),
                          chain'[i] = chain'[j]
                   PROVE  i = j
      BY <1>4
    <2>2. chain[i + 1] = chain[j + 1]
      BY <1>4, <2>1
    <2>3. i + 1 = j + 1
      BY <1>5, <2>2 DEF ChainInv
    <2>4. QED
      BY <2>3
  <1>7. \A i \in DOMAIN chain' : work'[chain'[i]].pc \in {"queued", "writing"}
    BY <1>3, <1>4, <1>5 DEF ChainInv
  <1>8. \A v \in Worker : work'[v].pc # "writing"
    BY <1>2, <1>3, <1>4 DEF ChainInv
  <1>9. QED
    BY <1>3, <1>4, <1>6, <1>7, <1>8 DEF ChainInv
-------------------------------------------------------------------------------
(***************************************************************************)
(* What an accrual drafts: entries of one subject, one of a kind, none of  *)
(* which begins before the subject's ledger ends.                          *)
(***************************************************************************)
Drafted(S, x) ==
  /\ \A e \in S : /\ e \in EntryRecord /\ e.subject = x
                  /\ \A i \in DOMAIN ledger : ledger[i].subject = x => ledger[i].to <= e.from
  /\ \A d, e \in S : d.kind = e.kind => d = e

LEMMA Marks ==
  ASSUME Typed, LedgerInv, NEW x
  PROVE  /\ Watermark(x) \in Anchors
         /\ \A m \in Watermark(x), i \in DOMAIN ledger : ledger[i].subject = x => ledger[i].to <= m
         /\ Watermark(x) = {} => \A i \in DOMAIN ledger : ledger[i].subject # x
  <1> DEFINE ends == {ledger[i].to : i \in {j \in DOMAIN ledger : ledger[j].subject = x}}
  <1>1. \A i \in DOMAIN ledger : ledger[i] \in EntryRecord
    BY DEF Typed
  <1>2. \A i \in DOMAIN ledger : ledger[i].to \in Nat
    BY <1>1 DEF EntryRecord
  <1>3. PICK b \in Nat : \A i \in DOMAIN ledger : ledger[i].to <= b
    BY DEF LedgerInv
  <1>4. ends \in SUBSET Nat /\ \A n \in ends : n <= b
    BY <1>2, <1>3
  <1>5. Watermark(x) = IF ends = {} THEN {} ELSE {Max(ends)}
    BY DEF Watermark
  <1>6. \A i \in DOMAIN ledger : ledger[i].subject = x => ledger[i].to \in ends
    OBVIOUS
  <1> HIDE DEF ends
  <1>7. CASE ends = {}
    BY <1>5, <1>6, <1>7 DEF Anchors
  <1>8. CASE ends # {}
    <2>1. Max(ends) \in ends /\ \A n \in ends : n <= Max(ends)
      BY <1>4, <1>8, MaxOf
    <2>2. Watermark(x) = {Max(ends)} /\ Max(ends) \in Nat
      BY <1>4, <1>5, <1>8, <2>1
    <2>3. QED
      BY <1>6, <2>1, <2>2 DEF Anchors
  <1>9. QED
    BY <1>7, <1>8

(* A span begins after its watermark and its anchor, and ends by now.       *)
LEMMA Spans ==
  ASSUME NEW at \in Nat, NEW mark \in Anchors, NEW anchor \in Anchors, mark \union anchor # {}
  PROVE  LET span == Span(at, mark, anchor)
         IN /\ span.from \in Nat /\ span.raw \in Nat
            /\ \A a \in mark \union anchor : a <= span.from
            /\ span.raw = 0 \/ span.from + span.raw <= at
  <1> DEFINE S == mark \union anchor
             from == Max(S)
             past == IF at > from THEN at - from ELSE 0
  <1>1. S \in SUBSET Nat
    BY DEF Anchors
  <1>2. \E b \in Nat : \A n \in S : n <= b
    <2>1. PICK m \in Nat : \A n \in mark : n = m
      BY DEF Anchors
    <2>2. PICK k \in Nat : \A n \in anchor : n = k
      BY DEF Anchors
    <2>3. m + k \in Nat /\ \A n \in S : n <= m + k
      BY <2>1, <2>2
    <2>4. QED
      BY <2>3
  <1>3. from \in S /\ \A n \in S : n <= from
    <2> HIDE DEF S
    <2>1. S # {}
      BY DEF S
    <2>2. PICK b \in Nat : \A n \in S : n <= b
      BY <1>2
    <2>3. QED
      BY <1>1, <2>1, <2>2, MaxOf
  <1>4. from \in Nat
    BY <1>1, <1>3
  <1>5. Span(at, mark, anchor) = [from |-> from, raw |-> Min({GapCap, past})]
    BY DEF Span
  <1> HIDE DEF from
  <1>6. past \in Nat /\ (past = 0 \/ from + past = at)
    BY <1>4
  <1> HIDE DEF past
  <1>7. Min({GapCap, past}) \in Nat /\ Min({GapCap, past}) <= past
    BY <1>6, Constants, MinOf
  <1>8. Min({GapCap, past}) = 0 \/ from + Min({GapCap, past}) <= at
    BY <1>4, <1>6, <1>7
  <1>9. Span(at, mark, anchor).from = from /\ Span(at, mark, anchor).raw = Min({GapCap, past})
    BY <1>5
  <1>10. QED
    BY <1>3, <1>4, <1>7, <1>8, <1>9

LEMMA SubjectDrafts ==
  ASSUME Typed, LedgerInv, NEW x \in Subject, NEW K \in SUBSET Kinds, NEW at \in Nat,
         NEW anchor \in Anchors, NEW mode \in {"tick", "settle"}
  PROVE  LET S == Drafts(x, K, at, Watermark(x), anchor, mode)
         IN /\ Drafted(S, x)
            /\ \A e \in S : e.kind \in K /\ e.mode = mode
            /\ mode = "tick" => \A e \in S : e.to <= at /\ \A a \in anchor : a <= e.from
  <1> DEFINE S == Drafts(x, K, at, Watermark(x), anchor, mode)
             span == Span(at, Watermark(x), anchor)
             sec == Quantize(span.raw, mode)
  <1>1. CASE Watermark(x) \union anchor = {} \/ sec = 0
    <2>1. S = {}
      BY <1>1 DEF Drafts
    <2>2. QED
      BY <2>1 DEF Drafted
  <1>2. CASE Watermark(x) \union anchor # {} /\ sec # 0
    <2>1. S = {Entry(k, x, span.from, span.from + sec, mode) : k \in K}
      BY <1>2 DEF Drafts
    <2>2. Watermark(x) \in Anchors
      BY Marks
    <2>3. /\ span.from \in Nat /\ span.raw \in Nat
          /\ \A a \in Watermark(x) \union anchor : a <= span.from
          /\ span.raw = 0 \/ span.from + span.raw <= at
      BY <1>2, <2>2, Spans
    <2> DEFINE from == span.from
               raw == span.raw
    <2>4. sec \in Nat /\ (mode = "tick" => sec <= raw)
      BY <2>3, Quantized
    <2>5. from \in Nat /\ raw \in Nat /\ sec \in Nat /\ sec # 0
          /\ (raw = 0 \/ from + raw <= at)
      BY <1>2, <2>3, <2>4
    <2>6. \A a \in Watermark(x) \union anchor : a <= from
      BY <2>3
    <2>7. S = {Entry(k, x, from, from + sec, mode) : k \in K}
      BY <2>1
    <2>8. \A i \in DOMAIN ledger : ledger[i].subject = x => ledger[i].to <= from
      <3>1. SUFFICES ASSUME NEW i \in DOMAIN ledger, ledger[i].subject = x
                     PROVE  ledger[i].to <= from
        OBVIOUS
      <3>2. PICK m \in Watermark(x) : m \in Nat
        BY <2>2, <3>1, Marks DEF Anchors
      <3>3. ledger[i].to <= m
        BY <3>1, <3>2, Marks
      <3>4. m <= from /\ ledger[i] \in EntryRecord
        BY <2>6, <3>2 DEF Typed
      <3>5. ledger[i].to \in Nat
        BY <3>4 DEF EntryRecord
      <3>6. QED
        BY <2>5, <3>2, <3>3, <3>4, <3>5
    <2> HIDE DEF S, sec, from, raw, span
    <2>9. \A e \in S : e.from = from /\ e.to = from + sec /\ e.subject = x /\ e.mode = mode /\ e.kind \in K
      BY <2>7 DEF Entry
    <2>10. \A d, e \in S : d.kind = e.kind => d = e
      BY <2>7 DEF Entry
    <2>11. \A e \in S : e \in EntryRecord
      <3>1. from + sec \in Nat
        BY <2>5
      <3>2. QED
        BY <2>5, <2>7, <3>1 DEF Entry, EntryRecord
    <2>12. mode = "tick" => from + sec <= at
      BY <2>4, <2>5
    <2>13. Drafted(S, x)
      BY <2>8, <2>9, <2>10, <2>11 DEF Drafted
    <2>14. QED
      BY <2>6, <2>9, <2>12, <2>13 DEF S
  <1>3. QED
    BY <1>1, <1>2

LEMMA PoolDrafts ==
  ASSUME Typed, LedgerInv, NEW d \in Deployment, NEW K \in SUBSET Kinds, NEW at \in Nat
  PROVE  /\ Drafted(DeploymentDrafts(d, K, at), d)
         /\ \A e \in DeploymentDrafts(d, K, at) : e.kind \in K
  <1>1. d \in Subject /\ {} \in Anchors
    BY DEF Subject, Anchors
  <1>2. CASE Watermark(d) = {}
    <2> DEFINE S == {Entry(k, d, at, at, "tick") : k \in K}
    <2>1. DeploymentDrafts(d, K, at) = S
      BY <1>2 DEF DeploymentDrafts
    <2>2. \A i \in DOMAIN ledger : ledger[i].subject # d
      BY <1>2, Marks
    <2>3. \A e \in S : e \in EntryRecord /\ e.subject = d /\ e.kind \in K
      BY <1>1 DEF Entry, EntryRecord
    <2>4. \A c, e \in S : c.kind = e.kind => c = e
      BY DEF Entry
    <2>5. QED
      BY <2>1, <2>2, <2>3, <2>4 DEF Drafted
  <1>3. CASE Watermark(d) # {}
    BY <1>1, <1>3, SubjectDrafts DEF DeploymentDrafts
  <1>4. QED
    BY <1>2, <1>3

LEMMA RanWithin ==
  ASSUME Typed, NEW s \in Session, NEW a \in Nat, NEW b \in Nat, NEW c \in Nat, NEW d \in Nat,
         Ran(s, a, b), a <= c, d <= b
  PROVE  Ran(s, c, d)
  <1>1. PICK n \in 0..MaxTurn :
          /\ job[s][n].state \in {"active", "finished", "missing"}
          /\ job[s][n].start <= a
          /\ job[s][n].state = "active" \/ b <= job[s][n].end
    BY DEF Ran
  <1>2. job[s][n] \in JobRecord
    BY DEF Typed
  <1>3. job[s][n].start \in Nat /\ job[s][n].end \in Nat
    BY <1>2 DEF JobRecord
  <1>4. job[s][n].start <= c
    BY <1>1, <1>3
  <1>5. job[s][n].state = "active" \/ d <= job[s][n].end
    BY <1>1, <1>3
  <1>6. QED
    BY <1>1, <1>4, <1>5 DEF Ran
-------------------------------------------------------------------------------
(* A step that writes the record of one accrual, and no entry.              *)
LEMMA Writes ==
  ASSUME IInv, Outside, ledger' = ledger, NEW w \in Worker, NEW x \in WorkRecord,
         work' = [work EXCEPT ![w] = x], Sound(x), ChainInv', chain' \in Seq(Worker)
  PROVE  IInv'
  <1>1. /\ work' \in [Worker -> WorkRecord]
        /\ \A v \in Worker : work'[v] = IF v = w THEN x ELSE work[v]
    BY DEF IInv, Typed
  <1>2. Typed'
    BY <1>1 DEF IInv, Typed, Outside
  <1>3. ASSUME NEW v \in Worker PROVE Sound(work[v])'
    <2>1. work'[v] \in WorkRecord /\ Sound(work'[v])
      BY <1>1 DEF IInv, WorkInv
    <2>2. PICK y \in WorkRecord : y = work'[v]
      BY <2>1
    <2>3. Sound(y)'
      BY <2>1, <2>2, SoundStays DEF IInv
    <2>4. QED
      BY <2>2, <2>3 DEF Sound, Knows, Owes
  <1>4. WorkInv'
    BY <1>3 DEF WorkInv
  <1>5. LedgerInv'
    BY LedgerStays DEF IInv
  <1>6. QED
    BY <1>2, <1>4, <1>5 DEF IInv

(* The first of the chain writes its record or leaves it.                   *)
LEMMA FreeIsSound ==
  ASSUME Typed
  PROVE  Free \in WorkRecord /\ Sound(Free)
  BY DEF Free, WorkRecord, Sound, Knows, Owes, OnePerSession, Typed

LEMMA Goes ==
  ASSUME IInv, Outside, ledger' = ledger, NEW w \in Worker, Runs(w), Leave(w)
  PROVE  IInv'
  <1>1. ChainInv' /\ chain' \in Seq(Worker)
    BY ChainLeft DEF IInv
  <1>2. Free \in WorkRecord /\ Sound(Free) /\ work' = [work EXCEPT ![w] = Free]
    BY FreeIsSound DEF IInv, Leave
  <1>3. QED
    BY <1>1, <1>2, Writes

LEMMA Continues ==
  ASSUME IInv, Outside, ledger' = ledger, NEW w \in Worker, Runs(w), work[w].pc \in Busy,
         NEW x \in WorkRecord, Proceeds(w, x), Sound(x), x.pc = "writing"
  PROVE  IInv'
  <1>1. CASE Leave(w)
    BY <1>1, Goes
  <1>2. CASE Update(w, x) /\ chain' = chain
    <2>1. work' = [work EXCEPT ![w] = x] /\ chain' = chain
      BY <1>2 DEF Update
    <2>2. ChainInv'
      BY <2>1, ChainKeeps DEF IInv, Busy
    <2>3. QED
      BY <2>1, <2>2, Writes DEF IInv, Typed
  <1>3. QED
    BY <1>1, <1>2 DEF Proceeds

(* An accrual that has not joined the chain writes its record, and joins    *)
(* when it has nothing left to ask.                                         *)
LEMMA Observed ==
  ASSUME IInv, Outside, ledger' = ledger, NEW w \in Worker, work[w].pc \notin Busy,
         NEW x \in WorkRecord, Observes(w, x), Sound(x), x.pc = "asking"
  PROVE  IInv'
  <1>1. CASE x.todo = {}
    <2> DEFINE y == [x EXCEPT !.pc = "queued"]
    <2>1. work' = [work EXCEPT ![w] = y] /\ chain' = Append(chain, w)
      BY <1>1 DEF Observes, Update
    <2>2. /\ y \in WorkRecord /\ y.pc = "queued" /\ y.mode = x.mode /\ y.at = x.at
          /\ y.todo = x.todo /\ y.turns = x.turns /\ y.out = x.out
      BY DEF WorkRecord
    <2> HIDE DEF y
    <2>3. Sound(y)
      BY <2>2 DEF Sound, Knows, Owes
    <2>4. ChainInv' /\ chain' \in Seq(Worker)
      BY <2>1, <2>2, ChainGrows DEF IInv
    <2>5. QED
      BY <2>1, <2>2, <2>3, <2>4, Writes
  <1>2. CASE x.todo # {}
    <2>1. work' = [work EXCEPT ![w] = x] /\ chain' = chain
      BY <1>2 DEF Observes, Update
    <2>2. ChainInv'
      BY <2>1, ChainKeeps DEF IInv, Busy
    <2>3. QED
      BY <2>1, <2>2, Writes DEF IInv, Typed
  <1>3. QED
    BY <1>1, <1>2

(* Nothing is on record of an accrual that has not begun to ask.            *)
LEMMA Fresh ==
  ASSUME IInv, NEW w \in Worker, work[w].pc \in {"free", "listing", "reading"}, NEW x \in WorkRecord,
         x.at <= now, x.turns = work[w].turns, x.out = work[w].out, OnePerSession(x.todo)
  PROVE  Sound(x)
  <1>1. x.turns = {} /\ x.out = {}
    BY DEF IInv, WorkInv, Sound, Knows, Owes
  <1>2. QED
    BY <1>1 DEF Sound, Knows, Owes, OnePerSession

LEMMA TickBeginStep ==
  ASSUME IInv, Outside, NEW w \in Worker, TickBegin(w)
  PROVE  IInv'
  <1> DEFINE x == [work[w] EXCEPT !.pc = "listing", !.mode = "tick", !.at = now]
  <1>1. /\ work[w].pc = "free" /\ work' = [work EXCEPT ![w] = x]
        /\ ledger' = ledger /\ chain' = chain
    BY DEF TickBegin, Update
  <1>2. work[w] \in WorkRecord /\ now \in Nat /\ Sound(work[w]) /\ chain \in Seq(Worker)
    BY DEF IInv, Typed, WorkInv
  <1>3. /\ x \in WorkRecord /\ x.pc = "listing" /\ x.at = now
        /\ x.todo = work[w].todo /\ x.turns = work[w].turns /\ x.out = work[w].out
    BY <1>2 DEF WorkRecord
  <1> HIDE DEF x
  <1>4. OnePerSession(x.todo) /\ x.at <= now
    BY <1>2, <1>3 DEF Sound, Knows, Owes
  <1>5. Sound(x)
    BY <1>1, <1>3, <1>4, Fresh
  <1>6. ChainInv'
    BY <1>1, <1>3, ChainKeeps DEF IInv, Busy
  <1>7. QED
    BY <1>1, <1>2, <1>3, <1>5, <1>6, Writes

LEMMA TickListStep ==
  ASSUME IInv, Outside, NEW w \in Worker, TickList(w)
  PROVE  IInv'
  <1> DEFINE qs == {[session |-> s, turn |-> turn[s]] : s \in {x \in Session : status[x] = "running"}}
  <1>1. /\ work[w] \in WorkRecord /\ served \subseteq Deployment /\ Sound(work[w])
        /\ turn \in [Session -> 0..MaxTurn]
    BY DEF IInv, Typed, WorkInv
  <1>2. qs \in SUBSET Question /\ OnePerSession(qs)
    BY <1>1 DEF Question, OnePerSession
  <1> HIDE DEF qs
  <1>3. /\ work[w].pc = "listing" /\ ledger' = ledger
        /\ \E ds \in SUBSET served :
             Observes(w, [work[w] EXCEPT !.pc = "asking", !.deps = ds, !.todo = qs])
    BY DEF TickList, qs
  <1>4. PICK ds \in SUBSET served :
          Observes(w, [work[w] EXCEPT !.pc = "asking", !.deps = ds, !.todo = qs])
    BY <1>3
  <1> DEFINE x == [work[w] EXCEPT !.pc = "asking", !.deps = ds, !.todo = qs]
  <1>5. /\ x \in WorkRecord /\ x.pc = "asking" /\ x.at = work[w].at
        /\ x.todo = qs /\ x.turns = work[w].turns /\ x.out = work[w].out
    BY <1>1, <1>2 DEF WorkRecord
  <1>6. Observes(w, x)
    BY <1>4
  <1> HIDE DEF x
  <1>7. Sound(x)
    BY <1>1, <1>2, <1>3, <1>5, Fresh DEF Sound, Knows, Owes
  <1>8. QED
    BY <1>3, <1>5, <1>6, <1>7, Observed DEF Busy

LEMMA SettleReadStep ==
  ASSUME IInv, Outside, NEW w \in Worker, SettleRead(w)
  PROVE  IInv'
  <1> DEFINE qs == {[session |-> s, turn |-> turn[s]] : s \in work[w].for}
             x == [work[w] EXCEPT !.pc = "asking", !.todo = qs]
  <1>1. work[w] \in WorkRecord /\ Sound(work[w]) /\ turn \in [Session -> 0..MaxTurn]
    BY DEF IInv, Typed, WorkInv
  <1>2. work[w].for \subseteq Session
    BY <1>1 DEF WorkRecord
  <1>3. qs \in SUBSET Question /\ OnePerSession(qs)
    BY <1>1, <1>2 DEF Question, OnePerSession
  <1>4. work[w].pc = "reading" /\ ledger' = ledger /\ Observes(w, x)
    BY DEF SettleRead
  <1> HIDE DEF qs
  <1>5. /\ x \in WorkRecord /\ x.pc = "asking" /\ x.at = work[w].at
        /\ x.todo = qs /\ x.turns = work[w].turns /\ x.out = work[w].out
    BY <1>1, <1>3 DEF WorkRecord
  <1> HIDE DEF x
  <1>6. Sound(x)
    BY <1>1, <1>3, <1>4, <1>5, Fresh DEF Sound, Knows, Owes
  <1>7. QED
    BY <1>4, <1>5, <1>6, Observed DEF Busy

(* What has been seen of a session is added once, and what a tick adds ran. *)
LEMMA Seen ==
  ASSUME IInv, Outside, ledger' = ledger, NEW w \in Worker, work[w].pc = "asking",
         NEW t \in work[w].todo, NEW S \in SUBSET Observation,
         \A u \in S : u.session = t.session,
         \A u, v \in S : u = v,
         work[w].mode = "tick" =>
           \A u \in S : \E a \in Nat : u.anchor = {a} /\ Ran(u.session, a, work[w].at),
         Observes(w, [work[w] EXCEPT !.todo = @ \ {t}, !.turns = @ \union S])
  PROVE  IInv'
  <1> DEFINE x == [work[w] EXCEPT !.todo = @ \ {t}, !.turns = @ \union S]
  <1>1. work[w] \in WorkRecord /\ Sound(work[w])
    BY DEF IInv, Typed, WorkInv
  <1>2. /\ x \in WorkRecord /\ x.pc = "asking" /\ x.at = work[w].at /\ x.mode = work[w].mode
        /\ x.todo = work[w].todo \ {t} /\ x.turns = work[w].turns \union S
        /\ x.out = work[w].out
    BY <1>1 DEF WorkRecord
  <1>3. Observes(w, x)
    OBVIOUS
  <1> HIDE DEF x
  <1>4. x.at <= now /\ x.out = {}
    BY <1>1, <1>2 DEF Sound, Knows, Owes
  <1>5. \A u \in x.todo : u.session # t.session
    BY <1>1, <1>2 DEF Sound, Knows, Owes, OnePerSession
  <1>6. \A u \in work[w].turns : u.session # t.session
    BY <1>1 DEF Sound, Knows, Owes
  <1>7. OnePerSession(x.todo) /\ OnePerSession(x.turns)
    BY <1>1, <1>2, <1>6 DEF Sound, Knows, Owes, OnePerSession
  <1>8. \A u \in x.todo, v \in x.turns : u.session # v.session
    BY <1>1, <1>2, <1>5 DEF Sound, Knows, Owes
  <1>9. x.mode = "tick" =>
          \A u \in x.turns : \E a \in Nat : u.anchor = {a} /\ Ran(u.session, a, x.at)
    BY <1>1, <1>2 DEF Sound, Knows, Owes
  <1>10. Sound(x)
    BY <1>2, <1>4, <1>7, <1>8, <1>9 DEF Sound, Knows, Owes
  <1>11. QED
    BY <1>2, <1>3, <1>10, Observed DEF Busy

LEMMA AskStep ==
  ASSUME IInv, Outside, NEW w \in Worker, Ask(w)
  PROVE  IInv'
  <1> DEFINE Obs(t) == [session |-> t.session, anchor |-> Anchor(job[t.session][t.turn])]
             New(t) == IF Billed(work[w].mode, job[t.session][t.turn]) THEN {Obs(t)} ELSE {}
  <1>1. work[w] \in WorkRecord /\ work[w].pc = "asking" /\ ledger' = ledger /\ Sound(work[w])
        /\ now \in Nat /\ job \in [Session -> [0..MaxTurn -> JobRecord]]
    BY DEF IInv, Typed, WorkInv, Ask
  <1>2. PICK t \in work[w].todo :
          Observes(w, [work[w] EXCEPT !.todo = @ \ {t},
                         !.turns = IF Billed(work[w].mode, job[t.session][t.turn])
                                   THEN @ \union {Obs(t)} ELSE @])
    BY DEF Ask
  <1>3. Observes(w, [work[w] EXCEPT !.todo = @ \ {t}, !.turns = @ \union New(t)])
    <2>1. \A T : (IF Billed(work[w].mode, job[t.session][t.turn]) THEN T \union {Obs(t)} ELSE T)
                   = T \union New(t)
      OBVIOUS
    <2>2. QED
      BY <1>2, <2>1
  <1>4. t.session \in Session /\ t.turn \in 0..MaxTurn /\ job[t.session][t.turn] \in JobRecord
    BY <1>1 DEF WorkRecord, Question
  <1> DEFINE j == job[t.session][t.turn]
  <1>5. Anchor(j) \in Anchors /\ (j.state = "active" => Anchor(j) = {j.start} /\ j.start \in Nat)
    BY <1>4 DEF Anchor, Anchors, JobRecord
  <1>6. New(t) \in SUBSET Observation
    BY <1>4, <1>5 DEF Observation
  <1>7. \A u \in New(t) : u.session = t.session /\ u.anchor = Anchor(j)
    OBVIOUS
  <1>8. \A u, v \in New(t) : u = v
    OBVIOUS
  <1>9. work[w].mode = "tick" =>
          \A u \in New(t) : \E a \in Nat : u.anchor = {a} /\ Ran(u.session, a, work[w].at)
    <2>1. SUFFICES ASSUME work[w].mode = "tick", NEW u \in New(t)
                   PROVE  \E a \in Nat : u.anchor = {a} /\ Ran(u.session, a, work[w].at)
      OBVIOUS
    <2>2. j.state = "active"
      BY <2>1 DEF Billed
    <2>3. u.session = t.session /\ u.anchor = {j.start} /\ j.start \in Nat
      BY <1>5, <1>7, <2>2
    <2>4. Ran(t.session, j.start, work[w].at)
      BY <1>4, <1>5, <2>2 DEF Ran
    <2>5. QED
      BY <2>3, <2>4
  <1> HIDE DEF New
  <1>10. QED
    BY <1>1, <1>3, <1>6, <1>7, <1>8, <1>9, Seen

LEMMA AskFailsStep ==
  ASSUME IInv, Outside, NEW w \in Worker, AskFails(w)
  PROVE  IInv'
  <1> DEFINE Obs(t) == [session |-> t.session, anchor |-> {}]
             New(t) == IF work[w].mode = "settle" THEN {Obs(t)} ELSE {}
  <1>1. work[w] \in WorkRecord /\ work[w].pc = "asking" /\ ledger' = ledger
    BY DEF IInv, Typed, AskFails
  <1>2. PICK t \in work[w].todo :
          Observes(w, [work[w] EXCEPT !.todo = @ \ {t},
                         !.turns = IF work[w].mode = "settle" THEN @ \union {Obs(t)} ELSE @])
    BY DEF AskFails
  <1>3. Observes(w, [work[w] EXCEPT !.todo = @ \ {t}, !.turns = @ \union New(t)])
    <2>1. \A T : (IF work[w].mode = "settle" THEN T \union {Obs(t)} ELSE T) = T \union New(t)
      OBVIOUS
    <2>2. QED
      BY <1>2, <2>1
  <1>4. t.session \in Session
    BY <1>1 DEF WorkRecord, Question
  <1>5. New(t) \in SUBSET Observation
    BY <1>4 DEF Observation, Anchors
  <1>6. /\ \A u \in New(t) : u.session = t.session
        /\ \A u, v \in New(t) : u = v
        /\ work[w].mode = "tick" => New(t) = {}
    OBVIOUS
  <1> HIDE DEF New
  <1>7. QED
    BY <1>1, <1>3, <1>5, <1>6, Seen
-------------------------------------------------------------------------------
(* accrue reads the watermarks when it is its turn in the chain, so what it *)
(* drafts is sound, and stays so as no other accrual writes.                *)
LEMMA AccrueStep ==
  ASSUME IInv, Outside, NEW w \in Worker, Accrue(w)
  PROVE  IInv'
  <1>1. /\ Typed /\ LedgerInv /\ work[w] \in WorkRecord /\ Sound(work[w]) /\ now \in Nat
        /\ Runs(w) /\ work[w].pc = "queued" /\ ledger' = ledger
    BY DEF IInv, Typed, WorkInv, Accrue
  <1> DEFINE at == IF work[w].mode = "settle" THEN now ELSE work[w].at
             mode == work[w].mode
             P(kinds, d) == DeploymentDrafts(d, kinds \intersect DeploymentKinds, at)
             T(kinds, t) == Drafts(t.session, kinds \intersect SessionKinds, at,
                                   Watermark(t.session), t.anchor, mode)
             D(kinds) == UNION {P(kinds, d) : d \in work[w].deps}
             E(kinds) == UNION {T(kinds, t) : t \in work[w].turns}
             B(kinds) == {e \in E(kinds) : e.kind = "session_time"}
  <1>2. PICK kinds \in Settings :
          Proceeds(w, [work[w] EXCEPT !.pc = "writing", !.out = D(kinds) \union E(kinds),
                                      !.bills = B(kinds)])
    BY DEF Accrue
  <1>3. /\ work[w].deps \subseteq Deployment /\ work[w].turns \subseteq Observation
        /\ at \in Nat /\ mode \in {"tick", "settle"} /\ at <= now
        /\ mode = "tick" => at = work[w].at
    BY <1>1 DEF WorkRecord, Sound, Knows, Owes
  <1> HIDE DEF at, mode
  <1>4. \A d \in work[w].deps : Drafted(P(kinds, d), d)
    <2>1. kinds \intersect DeploymentKinds \in SUBSET Kinds
      BY DEF Kinds
    <2>2. QED
      BY <1>1, <1>3, <2>1, PoolDrafts
  <1>5. \A t \in work[w].turns :
          /\ t.session \in Session /\ Drafted(T(kinds, t), t.session)
          /\ \A e \in T(kinds, t) : e.mode = mode
          /\ mode = "tick" => \A e \in T(kinds, t) : e.to <= at /\ \A a \in t.anchor : a <= e.from
    <2>1. kinds \intersect SessionKinds \in SUBSET Kinds
      BY DEF Kinds
    <2>2. \A t \in work[w].turns : t.session \in Subject /\ t.session \in Session /\ t.anchor \in Anchors
      BY <1>3 DEF Observation, Subject
    <2>3. QED
      BY <1>1, <1>3, <2>1, <2>2, SubjectDrafts
  <1> HIDE DEF P, T
  <1>6. \A e \in D(kinds) : \E d \in work[w].deps : e \in P(kinds, d)
    OBVIOUS
  <1>7. \A e \in E(kinds) : \E t \in work[w].turns : e \in T(kinds, t)
    OBVIOUS
  <1>8. D(kinds) \in SUBSET EntryRecord /\ E(kinds) \in SUBSET EntryRecord
    BY <1>4, <1>5 DEF Drafted
  <1>9. B(kinds) \in SUBSET EntryRecord
    BY <1>8
  <1> HIDE DEF D, E, B
  <1> DEFINE x == [work[w] EXCEPT !.pc = "writing", !.out = D(kinds) \union E(kinds),
                                  !.bills = B(kinds)]
  <1>10. Proceeds(w, x)
    BY <1>2
  <1>11. /\ x \in WorkRecord /\ x.pc = "writing" /\ x.mode = mode /\ x.at = work[w].at
         /\ x.todo = work[w].todo /\ x.turns = work[w].turns /\ x.out = D(kinds) \union E(kinds)
    BY <1>1, <1>8, <1>9 DEF WorkRecord, mode
  <1> HIDE DEF x
  <1>12. \A d \in D(kinds) : d.subject \in Deployment
    BY <1>3, <1>4, <1>6 DEF Drafted
  <1>13. \A e \in E(kinds) : e.subject \in Session
    BY <1>5, <1>7 DEF Drafted
  <1>14. \A d, e \in x.out : Same(d, e) => d = e
    <2>1. SUFFICES ASSUME NEW d \in x.out, NEW e \in x.out, Same(d, e) PROVE d = e
      OBVIOUS
    <2>2. d.subject = e.subject /\ d.kind = e.kind
      BY <2>1 DEF Same
    <2>3. CASE d \in D(kinds) /\ e \in D(kinds)
      <3>1. PICK c \in work[w].deps : d \in P(kinds, c)
        BY <1>6, <2>3
      <3>2. PICK b \in work[w].deps : e \in P(kinds, b)
        BY <1>6, <2>3
      <3>3. b = c
        BY <1>4, <2>2, <3>1, <3>2 DEF Drafted
      <3>4. QED
        BY <1>4, <2>2, <3>1, <3>2, <3>3 DEF Drafted
    <2>4. CASE d \in E(kinds) /\ e \in E(kinds)
      <3>1. PICK t \in work[w].turns : d \in T(kinds, t)
        BY <1>7, <2>4
      <3>2. PICK u \in work[w].turns : e \in T(kinds, u)
        BY <1>7, <2>4
      <3>3. t.session = u.session
        BY <1>5, <2>2, <3>1, <3>2 DEF Drafted
      <3>4. t = u
        BY <1>1, <3>3 DEF Sound, Knows, Owes, OnePerSession
      <3>5. QED
        BY <1>5, <2>2, <3>1, <3>2, <3>4 DEF Drafted
    <2>5. CASE ~(d \in D(kinds) /\ e \in D(kinds)) /\ ~(d \in E(kinds) /\ e \in E(kinds))
      BY <1>11, <1>12, <1>13, <2>2, <2>5, Constants
    <2>6. QED
      BY <2>3, <2>4, <2>5
  <1>15. \A e \in x.out : \A i \in DOMAIN ledger : Same(ledger[i], e) => ledger[i].to <= e.from
    BY <1>4, <1>5, <1>6, <1>7, <1>11 DEF Drafted, Same
  <1>16. \A e \in x.out : OfTick(e) => e.to <= now /\ Ran(e.subject, e.from, e.to)
    <2>1. SUFFICES ASSUME NEW e \in x.out, OfTick(e)
                   PROVE  e.to <= now /\ Ran(e.subject, e.from, e.to)
      OBVIOUS
    <2>2. e \in E(kinds)
      BY <1>11, <1>12, <2>1, Constants DEF OfTick
    <2>3. PICK t \in work[w].turns : e \in T(kinds, t)
      BY <1>7, <2>2
    <2>4. e.mode = mode /\ e.subject = t.session /\ e \in EntryRecord /\ t.session \in Session
      BY <1>5, <2>3 DEF Drafted
    <2>5. mode = "tick" /\ at = work[w].at
      BY <1>3, <2>1, <2>4 DEF OfTick
    <2>6. e.to <= at /\ \A a \in t.anchor : a <= e.from
      BY <1>5, <2>3, <2>5
    <2>7. PICK a \in Nat : t.anchor = {a} /\ Ran(t.session, a, at)
      BY <1>1, <2>5 DEF Sound, Knows, Owes, mode
    <2>8. a <= e.from /\ e.from \in Nat /\ e.to \in Nat
      BY <2>4, <2>6, <2>7 DEF EntryRecord
    <2>9. Ran(t.session, e.from, e.to)
      BY <1>1, <1>3, <2>4, <2>6, <2>7, <2>8, RanWithin
    <2>10. e.to <= now
      BY <1>1, <1>3, <2>6, <2>8
    <2>11. QED
      BY <2>4, <2>9, <2>10
  <1>17. /\ x.at <= now /\ OnePerSession(x.todo) /\ OnePerSession(x.turns)
         /\ \A t \in x.todo, u \in x.turns : t.session # u.session
         /\ x.mode = "tick" =>
              \A t \in x.turns : \E a \in Nat : t.anchor = {a} /\ Ran(t.session, a, x.at)
    BY <1>1, <1>11 DEF Sound, Knows, Owes, mode
  <1>18. Sound(x)
    BY <1>11, <1>14, <1>15, <1>16, <1>17 DEF Sound, Knows, Owes
  <1>19. QED
    BY <1>1, <1>10, <1>11, <1>18, Continues DEF Busy
-------------------------------------------------------------------------------
(* The head of the chain alone writes.                                      *)
LEMMA OthersWait ==
  ASSUME IInv, NEW w \in Worker, Runs(w), NEW v \in Worker, v # w
  PROVE  work[v].out = {} /\ work[v].pc # "writing"
  <1>1. chain # <<>> /\ w = chain[1]
    BY DEF IInv, Typed, Runs
  <1>2. work[v].pc # "writing"
    BY <1>1 DEF IInv, ChainInv
  <1>3. QED
    BY <1>2 DEF IInv, WorkInv, Sound, Knows, Owes

(* The ledger takes an entry that begins where its subject's others end.    *)
LEMMA LedgerGrows ==
  ASSUME Typed, Outside, LedgerInv, NEW e \in EntryRecord, ledger' = Append(ledger, e),
         \A i \in DOMAIN ledger : Same(ledger[i], e) => ledger[i].to <= e.from,
         OfTick(e) => e.to <= now /\ Ran(e.subject, e.from, e.to)
  PROVE  LedgerInv' /\ ledger' \in Seq(EntryRecord)
  <1> DEFINE n == Len(ledger) + 1
  <1>1. /\ ledger \in Seq(EntryRecord) /\ DOMAIN ledger = 1..Len(ledger) /\ Len(ledger) \in Nat
        /\ now \in Nat /\ now' \in Nat /\ now <= now'
    BY DEF Typed, Outside
  <1>2. /\ ledger' \in Seq(EntryRecord) /\ DOMAIN ledger' = 1..n /\ ledger'[n] = e
        /\ \A i \in DOMAIN ledger : ledger'[i] = ledger[i]
    BY <1>1
  <1>3. \A i \in DOMAIN ledger' : i = n \/ i \in DOMAIN ledger
    BY <1>1, <1>2
  <1>4. \A i \in DOMAIN ledger : ledger[i] \in EntryRecord
    BY <1>1
  <1>5. \A i \in DOMAIN ledger : ledger[i].to \in Nat
    BY <1>4 DEF EntryRecord
  <1>6. \E b \in Nat : \A i \in DOMAIN ledger' : ledger'[i].to <= b
    <2>1. PICK b \in Nat : \A i \in DOMAIN ledger : ledger[i].to <= b
      BY DEF LedgerInv
    <2>2. e.to \in Nat
      BY DEF EntryRecord
    <2>3. e.to + b \in Nat /\ \A i \in DOMAIN ledger : ledger[i].to <= e.to + b
      BY <1>5, <2>1, <2>2
    <2>4. e.to <= e.to + b
      BY <2>2
    <2>5. \A i \in DOMAIN ledger' : ledger'[i].to <= e.to + b
      BY <1>2, <1>3, <2>3, <2>4
    <2>6. QED
      BY <2>3, <2>5
  <1>7. SpansNeverOverlap'
    <2>1. SUFFICES ASSUME NEW i \in DOMAIN ledger', NEW j \in DOMAIN ledger', i < j,
                          ledger'[i].subject = ledger'[j].subject, ledger'[i].kind = ledger'[j].kind
                   PROVE  ledger'[i].to <= ledger'[j].from
      BY DEF SpansNeverOverlap
    <2>2. i \in DOMAIN ledger
      BY <1>1, <1>2, <2>1
    <2>3. CASE j = n
      <3>1. Same(ledger[i], e)
        BY <1>2, <2>1, <2>2, <2>3 DEF Same
      <3>2. QED
        BY <1>2, <2>2, <2>3, <3>1
    <2>4. CASE j \in DOMAIN ledger
      BY <1>2, <2>1, <2>2, <2>4 DEF LedgerInv, SpansNeverOverlap
    <2>5. QED
      BY <1>3, <2>3, <2>4
  <1>8. \A i \in DOMAIN ledger' : ledger'[i] \in EntryRecord
    BY <1>2, <1>3, <1>4
  <1>9. \A i \in DOMAIN ledger' :
          OfTick(ledger'[i]) =>
            ledger'[i].to <= now /\ Ran(ledger'[i].subject, ledger'[i].from, ledger'[i].to)
    BY <1>2, <1>3 DEF LedgerInv
  <1>10. ASSUME NEW i \in DOMAIN ledger', OfTick(ledger'[i])
         PROVE  ledger'[i].to <= now' /\ Ran(ledger[i].subject, ledger[i].from, ledger[i].to)'
    <2>1. PICK d \in EntryRecord : d = ledger'[i]
      BY <1>8
    <2>2. d.to <= now' /\ Ran(d.subject, d.from, d.to)'
      BY <1>9, <1>10, <2>1, TickedStays
    <2>3. QED
      BY <2>1, <2>2 DEF Ran
  <1>11. QED
    BY <1>2, <1>6, <1>7, <1>10 DEF LedgerInv

(* insertCostEntries: each entry is written once, and those that wait with  *)
(* it are of other kinds or subjects.                                       *)
LEMMA InsertStep ==
  ASSUME IInv, Outside, NEW w \in Worker, Runs(w), work[w].pc = "writing", Insert(w)
  PROVE  IInv'
  <1>1. PICK e \in work[w].out :
          /\ ledger' = Append(ledger, e)
          /\ Proceeds(w, [work[w] EXCEPT !.out = @ \ {e}])
    BY DEF Insert
  <1>2. work[w] \in WorkRecord /\ Sound(work[w]) /\ Typed /\ LedgerInv
    BY DEF IInv, Typed, WorkInv
  <1>3. PICK x \in WorkRecord :
          /\ x.pc = "writing" /\ x.at = work[w].at /\ x.mode = work[w].mode
          /\ x.todo = work[w].todo /\ x.turns = work[w].turns /\ x.out = work[w].out \ {e}
          /\ x = [work[w] EXCEPT !.out = @ \ {e}]
    BY <1>2 DEF WorkRecord
  <1>4. Leave(w) \/ (work' = [work EXCEPT ![w] = x] /\ chain' = chain)
    BY <1>1, <1>3 DEF Proceeds, Update
  <1>5. e \in EntryRecord
    BY <1>2 DEF WorkRecord
  <1>6. LedgerInv' /\ ledger' \in Seq(EntryRecord)
    <2>1. \A i \in DOMAIN ledger : Same(ledger[i], e) => ledger[i].to <= e.from
      BY <1>2 DEF Sound, Knows, Owes
    <2>2. OfTick(e) => e.to <= now /\ Ran(e.subject, e.from, e.to)
      BY <1>2 DEF Sound, Knows, Owes
    <2>3. QED
      BY <1>1, <1>2, <1>5, <2>1, <2>2, LedgerGrows
  <1>7. Owes(x)'
    <2>1. \A d \in x.out : d \in EntryRecord /\ d \in work[w].out /\ ~Same(e, d)
      <3>1. \A d \in x.out : d \in EntryRecord /\ d \in work[w].out /\ d # e
        BY <1>3 DEF WorkRecord
      <3>2. \A d \in work[w].out : Same(e, d) => e = d
        BY <1>2 DEF Sound, Owes
      <3>3. QED
        BY <3>1, <3>2
    <2>2. \A d, c \in x.out : Same(d, c) => d = c
      BY <1>2, <2>1 DEF Sound, Owes
    <2>3. \A d \in x.out : \A i \in DOMAIN ledger' : Same(ledger'[i], d) => ledger'[i].to <= d.from
      <3>1. SUFFICES ASSUME NEW d \in x.out, NEW i \in DOMAIN ledger', Same(ledger'[i], d)
                     PROVE  ledger'[i].to <= d.from
        OBVIOUS
      <3>2. (i \in DOMAIN ledger /\ ledger'[i] = ledger[i]) \/ ledger'[i] = e
        BY <1>1, <1>2 DEF Typed
      <3>3. i \in DOMAIN ledger /\ ledger'[i] = ledger[i]
        BY <2>1, <3>1, <3>2
      <3>4. QED
        BY <1>2, <2>1, <3>1, <3>3 DEF Sound, Owes
    <2>4. \A d \in x.out : OfTick(d) => d.to <= now' /\ Ran(d.subject, d.from, d.to)'
      BY <1>2, <2>1, TickedStays DEF Sound, Owes
    <2>5. QED
      BY <1>3, <2>2, <2>3, <2>4 DEF Owes
  <1>8. Sound(x)'
    <2>1. Knows(x)
      BY <1>2, <1>3 DEF Sound, Knows
    <2>2. QED
      BY <1>2, <1>3, <1>7, <2>1, KnowsStays DEF Sound
  <1>9. ASSUME NEW v \in Worker, v # w PROVE Sound(work[v]) /\ work[v] \in WorkRecord /\ work[v].out = {}
    BY <1>9, OthersWait DEF IInv, WorkInv, Typed
  <1>10. ASSUME NEW y \in WorkRecord, Sound(y), y.out = {} PROVE Sound(y)'
    <2>1. Owes(y)'
      BY <1>10 DEF Owes
    <2>2. QED
      BY <1>2, <1>10, <2>1, KnowsStays DEF Sound
  <1>11. Free \in WorkRecord /\ Sound(Free) /\ Free.out = {}
    BY <1>2, FreeIsSound DEF Free
  <1>12. \A v \in Worker : v # w => work'[v] = work[v]
    BY <1>2, <1>4 DEF Typed, Leave
  <1>13. work'[w] = Free \/ work'[w] = x
    BY <1>2, <1>4 DEF Typed, Leave
  <1>14. ASSUME NEW v \in Worker PROVE Sound(work[v])'
    <2>1. PICK y \in WorkRecord : y = work'[v] /\ Sound(y)'
      BY <1>3, <1>8, <1>9, <1>10, <1>11, <1>12, <1>13
    <2>2. QED
      BY <2>1 DEF Sound, Knows, Owes
  <1>15. WorkInv'
    BY <1>14 DEF WorkInv
  <1>16. ChainInv' /\ chain' \in Seq(Worker) /\ work' \in [Worker -> WorkRecord]
    <2>1. CASE Leave(w)
      BY <2>1, ChainLeft DEF IInv
    <2>2. CASE work' = [work EXCEPT ![w] = x] /\ chain' = chain
      BY <1>2, <1>3, <2>2, ChainKeeps DEF IInv, Typed, Busy
    <2>3. QED
      BY <1>4, <2>1, <2>2
  <1>17. Typed'
    BY <1>2, <1>6, <1>16 DEF Typed, Outside
  <1>18. QED
    BY <1>6, <1>15, <1>16, <1>17 DEF IInv

LEMMA ChargeStep ==
  ASSUME IInv, Outside, NEW w \in Worker, Runs(w), work[w].pc = "writing", Charge(w)
  PROVE  IInv'
  <1>1. PICK e \in work[w].bills :
          ledger' = ledger /\ Proceeds(w, [work[w] EXCEPT !.bills = @ \ {e}])
    BY DEF Charge
  <1> DEFINE x == [work[w] EXCEPT !.bills = @ \ {e}]
  <1>2. work[w] \in WorkRecord /\ Sound(work[w])
    BY DEF IInv, Typed, WorkInv
  <1>3. /\ x \in WorkRecord /\ x.pc = "writing" /\ x.at = work[w].at /\ x.mode = work[w].mode
        /\ x.todo = work[w].todo /\ x.turns = work[w].turns /\ x.out = work[w].out
    BY <1>2 DEF WorkRecord
  <1>4. Proceeds(w, x)
    BY <1>1
  <1> HIDE DEF x
  <1>5. Sound(x)
    BY <1>2, <1>3 DEF Sound, Knows, Owes
  <1>6. QED
    BY <1>1, <1>3, <1>4, <1>5, Continues DEF Busy
-------------------------------------------------------------------------------
(* A settle is called for (settleSession).                                  *)
LEMMA SettlesStep ==
  ASSUME IInv, Outside, NEW s \in Session, Settles(s), ledger' = ledger, chain' = chain
  PROVE  IInv'
  <1>1. PICK w \in Worker :
          /\ work[w].pc = "free"
          /\ Update(w, [work[w] EXCEPT !.pc = "reading", !.mode = "settle", !.for = {s}])
    BY DEF Settles
  <1> DEFINE x == [work[w] EXCEPT !.pc = "reading", !.mode = "settle", !.for = {s}]
  <1>2. work[w] \in WorkRecord /\ Sound(work[w]) /\ chain \in Seq(Worker)
    BY DEF IInv, Typed, WorkInv
  <1>3. /\ x \in WorkRecord /\ x.pc = "reading" /\ x.at = work[w].at
        /\ x.todo = work[w].todo /\ x.turns = work[w].turns /\ x.out = work[w].out
    BY <1>2 DEF WorkRecord
  <1>4. work' = [work EXCEPT ![w] = x]
    BY <1>1 DEF Update
  <1> HIDE DEF x
  <1>5. Sound(x)
    BY <1>1, <1>2, <1>3, Fresh DEF Sound, Knows
  <1>6. ChainInv'
    BY <1>1, <1>3, <1>4, ChainKeeps DEF IInv, Busy
  <1>7. QED
    BY <1>2, <1>3, <1>4, <1>5, <1>6, Writes

(* A step that writes no record.                                            *)
LEMMA WorkStays ==
  ASSUME IInv, Outside, ledger' = ledger, work' = work, chain' = chain
  PROVE  IInv'
  <1>1. \A x \in WorkRecord : Sound(x) => Sound(x)'
    BY SoundStays DEF IInv
  <1>2. ASSUME NEW v \in Worker PROVE Sound(work[v])'
    <2>1. PICK y \in WorkRecord : y = work[v] /\ Sound(y)'
      BY <1>1 DEF IInv, WorkInv, Typed
    <2>2. QED
      BY <2>1 DEF Sound, Knows, Owes
  <1>3. WorkInv' /\ LedgerInv' /\ ChainInv'
    BY <1>2, LedgerStays DEF WorkInv, IInv, ChainInv
  <1>4. QED
    BY <1>3 DEF IInv, Typed, Outside

LEMMA CrashStep ==
  ASSUME IInv, Outside, Crash
  PROVE  IInv'
  <1>1. Free \in WorkRecord /\ Sound(Free) /\ Free.pc = "free"
    BY FreeIsSound DEF IInv, Free
  <1>2. /\ ledger' = ledger /\ chain' = <<>> /\ work' \in [Worker -> WorkRecord]
        /\ \A v \in Worker : work'[v] = Free
    BY <1>1 DEF Crash
  <1>3. ASSUME NEW v \in Worker PROVE Sound(work[v])'
    <2>1. PICK y \in WorkRecord : y = work'[v] /\ Sound(y)'
      BY <1>1, <1>2, SoundStays DEF IInv
    <2>2. QED
      BY <2>1 DEF Sound, Knows, Owes
  <1>4. WorkInv' /\ LedgerInv'
    BY <1>2, <1>3, LedgerStays DEF WorkInv, IInv
  <1>5. ChainInv'
    BY <1>1, <1>2 DEF ChainInv
  <1>6. Typed'
    BY <1>2 DEF IInv, Typed, Outside
  <1>7. QED
    BY <1>4, <1>5, <1>6 DEF IInv
-------------------------------------------------------------------------------
LEMMA Initially ==
  ASSUME Init
  PROVE  IInv
  <1>1. /\ now = 0 /\ served \subseteq Deployment /\ ledger = <<>> /\ chain = <<>>
        /\ turn \in [Session -> 0..MaxTurn] /\ work = [w \in Worker |-> Free]
        /\ job = [s \in Session |-> [n \in 0..MaxTurn |->
                    IF n = turn[s] /\ status[s] = "running"
                    THEN [NoJob EXCEPT !.state = "active"] ELSE NoJob]]
    BY DEF Init
  <1>2. Free \in WorkRecord /\ Free.pc = "free"
    BY DEF Free, WorkRecord
  <1>3. NoJob \in JobRecord /\ [NoJob EXCEPT !.state = "active"] \in JobRecord
    BY DEF NoJob, JobRecord
  <1>4. Typed
    BY <1>1, <1>2, <1>3 DEF Typed
  <1>5. WorkInv
    BY <1>1, <1>4, FreeIsSound DEF WorkInv
  <1>6. ChainInv
    BY <1>1, <1>2 DEF ChainInv
  <1>7. LedgerInv
    BY <1>1 DEF LedgerInv, SpansNeverOverlap
  <1>8. QED
    BY <1>4, <1>5, <1>6, <1>7 DEF IInv

LEMMA Steps ==
  ASSUME IInv, [Next]_vars
  PROVE  IInv'
  <1>1. Outside
    BY StepOutside DEF IInv
  <1>2. CASE Sampler
    <2>1. PICK w \in Worker :
            \/ TickBegin(w) \/ TickList(w) \/ SettleRead(w) \/ Ask(w) \/ AskFails(w)
            \/ Accrue(w) \/ Record(w) \/ AccrueFails(w)
      BY <1>2 DEF Sampler
    <2>2. CASE TickBegin(w)
      BY <1>1, <2>2, TickBeginStep
    <2>3. CASE TickList(w)
      BY <1>1, <2>3, TickListStep
    <2>4. CASE SettleRead(w)
      BY <1>1, <2>4, SettleReadStep
    <2>5. CASE Ask(w)
      BY <1>1, <2>5, AskStep
    <2>6. CASE AskFails(w)
      BY <1>1, <2>6, AskFailsStep
    <2>7. CASE Accrue(w)
      BY <1>1, <2>7, AccrueStep
    <2>8. CASE Record(w)
      <3>1. Runs(w) /\ work[w].pc = "writing" /\ (Insert(w) \/ Charge(w))
        BY <2>8 DEF Record, Step
      <3>2. QED
        BY <1>1, <3>1, InsertStep, ChargeStep
    <2>9. CASE AccrueFails(w)
      BY <1>1, <2>9, Goes DEF AccrueFails
    <2>10. QED
      BY <2>1, <2>2, <2>3, <2>4, <2>5, <2>6, <2>7, <2>8, <2>9
  <1>3. CASE Cluster
    <2>1. /\ ledger' = ledger /\ chain' = chain
          /\ work' = work \/ \E s \in Session : Settles(s)
      BY <1>3 DEF Cluster, PodStarts, RunnerEvents, PostStatus, Interrupt, FailZombie, FollowUp,
                  PodEnds
    <2>2. QED
      BY <1>1, <2>1, WorkStays, SettlesStep
  <1>4. CASE Pass \/ UNCHANGED vars
    BY <1>1, <1>4, WorkStays DEF Pass, vars
  <1>5. CASE Crash
    BY <1>1, <1>5, CrashStep
  <1>6. QED
    BY <1>2, <1>3, <1>4, <1>5 DEF Next

(* The invariant holds of every state of the accruals.                      *)
THEOREM Invariant == Spec => []IInv
  BY Initially, Steps, PTL DEF Spec

(***************************************************************************)
(* No time of a subject is billed twice, however many ticks and settles    *)
(* overlap: the watermarks an accrual reads at the head of the chain stay  *)
(* those of the ledger until it has written (cost-sampler.ts, serialized). *)
(***************************************************************************)
THEOREM NoTimeBilledTwice == Spec => []SpansNeverOverlap
  <1>1. IInv => SpansNeverOverlap
    BY DEF IInv, LedgerInv
  <1>2. QED
    BY <1>1, Invariant, PTL

(***************************************************************************)
(* A tick bills a session for time in which one of its pods ran: what was  *)
(* active when it asked, which was after its time was taken, ran from the  *)
(* anchor until then, whatever has ended or been interrupted since.        *)
(***************************************************************************)
THEOREM TicksBillRuntime == Spec => []TickBillsRuntime
  <1>1. IInv => TickBillsRuntime
    BY DEF IInv, LedgerInv, Typed, EntryRecord, OfTick, Ran, TickBillsRuntime
  <1>2. QED
    BY <1>1, Invariant, PTL
===============================================================================
