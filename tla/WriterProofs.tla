----------------------------- MODULE WriterProofs ------------------------------
(***************************************************************************)
(* Proofs about WriterQueue, for any number of sessions, turns, restarts   *)
(* and interrupts, and about AgentCatalog, for any number of clients,      *)
(* agents, wikis, skills, environments and requests: who may write a wiki. *)
(***************************************************************************)
EXTENDS WriterQueue, AgentCatalog, TLAPS, FiniteSetTheorems, SequenceTheorems

(***************************************************************************)
(* The writer queue.                                                       *)
(***************************************************************************)

Launch == [pc : LaunchPc, wiki : Nat]
Row == [turn : Turn, since : Nat]

Typed ==
  /\ inflight \in [Session -> BOOLEAN]
  /\ turns \in [Session -> Turn \union {NoTurn}]
  /\ parked \in [Session -> Row \union {NoRow}]
  /\ parks \in Nat /\ wiki \in Nat
  /\ launch \in [Session -> [Turn -> Launch]]

(* Only a turn that began has a launch, and only a launch that is parked    *)
(* has a row.                                                              *)
BegunInv ==
  \A s \in Session : \A t \in Turn : launch[s][t].pc # "none" => t <= turns[s]
RowsInv ==
  \A s \in Session : parked[s] # NoRow => launch[s][parked[s].turn].pc = "parked"

(* A release that holds the lock has seen that nobody has the slot through  *)
(* the queue, and only a release gives it that way.                        *)
LockInv == checked => \A s \in Session : ~HoldsBy(s, ByQueue)

(* Whoever is in flight has begun.                                          *)
FlightInv == \A s \in Session : inflight[s] => turns[s] \in Turn

IInv == Typed /\ BegunInv /\ FlightInv /\ RowsInv
SlotInv == LockInv /\ ReleasesNeverOverlap /\ GateLetsOneIn

(* No row of the queue is of a turn its session has left behind.           *)
RowsAreCurrent == \A s \in Session : parked[s] # NoRow => parked[s].turn = turns[s]
-------------------------------------------------------------------------------
(* A launch goes from one point of its way to another.                      *)
Moves(s, t, new) ==
  \A u \in Session, v \in Turn :
    launch'[u][v].pc = IF u = s /\ v = t THEN new ELSE launch[u][v].pc
Stays == \A u \in Session, v \in Turn : launch'[u][v].pc = launch[u][v].pc

LEMMA GotoMoves ==
  ASSUME Typed, NEW s \in Session, NEW t \in Turn, NEW new \in LaunchPc, LaunchGoto(s, t, new)
  PROVE  Moves(s, t, new) /\ launch' \in [Session -> [Turn -> Launch]]
  <1>1. launch \in [Session -> [Turn -> Launch]]
    BY DEF Typed
  <1>2. launch' = [launch EXCEPT ![s] = [launch[s] EXCEPT ![t] = [launch[s][t] EXCEPT !.pc = new]]]
    BY DEF LaunchGoto
  <1> DEFINE x == [launch[s][t] EXCEPT !.pc = new]
  <1>3. launch[s][t] \in Launch
    BY <1>1
  <1>4. x \in Launch /\ x.pc = new
    BY <1>3 DEF Launch
  <1> HIDE DEF x
  <1>5. launch' = [launch EXCEPT ![s] = [launch[s] EXCEPT ![t] = x]]
    BY <1>2 DEF x
  <1>6. launch' \in [Session -> [Turn -> Launch]]
    BY <1>1, <1>4, <1>5
  <1>7. \A u \in Session, v \in Turn : launch'[u][v] = IF u = s /\ v = t THEN x ELSE launch[u][v]
    BY <1>1, <1>5
  <1>8. QED
    BY <1>4, <1>6, <1>7 DEF Moves

(* The mounts are resolved as of now.                                       *)
LEMMA ResolveMoves ==
  ASSUME Typed, NEW s \in Session, NEW t \in Turn, NEW new \in LaunchPc,
         launch' = [launch EXCEPT ![s][t] = [pc |-> new, wiki |-> wiki]]
  PROVE  Moves(s, t, new) /\ launch' \in [Session -> [Turn -> Launch]]
  <1>1. launch \in [Session -> [Turn -> Launch]] /\ wiki \in Nat
    BY DEF Typed
  <1> DEFINE x == [pc |-> new, wiki |-> wiki]
  <1>2. x \in Launch /\ x.pc = new
    BY <1>1 DEF Launch
  <1> HIDE DEF x
  <1>3. launch' = [launch EXCEPT ![s] = [launch[s] EXCEPT ![t] = x]]
    BY DEF x
  <1>4. launch' \in [Session -> [Turn -> Launch]]
    BY <1>1, <1>2, <1>3
  <1>5. \A u \in Session, v \in Turn : launch'[u][v] = IF u = s /\ v = t THEN x ELSE launch[u][v]
    BY <1>1, <1>3
  <1>6. QED
    BY <1>2, <1>4, <1>5 DEF Moves

LEMMA SameStays == launch' = launch => Stays
  BY DEF Stays

LEMMA RestartMoves ==
  ASSUME Typed, Restart
  PROVE  /\ launch' \in [Session -> [Turn -> Launch]]
         /\ \A u \in Session, v \in Turn :
              \/ launch'[u][v].pc = launch[u][v].pc
              \/ launch[u][v].pc \in UnderWay /\ launch'[u][v].pc = "lost"
  <1>1. launch \in [Session -> [Turn -> Launch]]
    BY DEF Typed
  <1>2. launch' = [s \in Session |-> [t \in Turn |->
          IF launch[s][t].pc \in UnderWay
          THEN [launch[s][t] EXCEPT !.pc = "lost"] ELSE launch[s][t]]]
    BY DEF Restart
  <1>3. \A x \in Launch : [x EXCEPT !.pc = "lost"] \in Launch /\ [x EXCEPT !.pc = "lost"].pc = "lost"
    BY DEF Launch, LaunchPc
  <1>4. \A u \in Session, v \in Turn :
          launch'[u][v] = IF launch[u][v].pc \in UnderWay
                          THEN [launch[u][v] EXCEPT !.pc = "lost"] ELSE launch[u][v]
    BY <1>2
  <1>5. \A u \in Session, v \in Turn : launch[u][v] \in Launch
    BY <1>1
  <1>6. \A u \in Session, v \in Turn : launch'[u][v] \in Launch
    BY <1>3, <1>4, <1>5
  <1>7. launch' \in [Session -> [Turn -> Launch]]
    <2> DEFINE f(u, v) == IF launch[u][v].pc \in UnderWay
                          THEN [launch[u][v] EXCEPT !.pc = "lost"] ELSE launch[u][v]
    <2>1. \A u \in Session, v \in Turn : f(u, v) \in Launch
      BY <1>3, <1>5
    <2>2. launch' = [u \in Session |-> [v \in Turn |-> f(u, v)]]
      BY <1>2
    <2> HIDE DEF f
    <2>3. QED
      BY <2>1, <2>2
  <1>8. ASSUME NEW u \in Session, NEW v \in Turn
        PROVE  \/ launch'[u][v].pc = launch[u][v].pc
               \/ launch[u][v].pc \in UnderWay /\ launch'[u][v].pc = "lost"
    <2>1. CASE launch[u][v].pc \in UnderWay
      <3>1. launch'[u][v] = [launch[u][v] EXCEPT !.pc = "lost"]
        BY <1>4, <2>1
      <3>2. QED
        BY <1>3, <1>5, <2>1, <3>1
    <2>2. CASE launch[u][v].pc \notin UnderWay
      BY <1>4, <2>2
    <2>3. QED
      BY <2>1, <2>2
  <1>9. QED
    BY <1>7, <1>8

(* A row has a turn.                                                        *)
LEMMA RowsHaveTurns == NoTurn \notin Turn /\ \A x \in Row : x # NoRow /\ x.turn \in Turn
  BY DEF NoTurn, Turn, Row, NoRow

(***************************************************************************)
(* What a step may do to a session: how it comes to be in flight, to leave *)
(* the queue, and to get further on either way.                            *)
(***************************************************************************)
Effects ==
  \A s \in Session :
    /\ inflight'[s] => inflight[s] \/ Begin(s)
    /\ turns'[s] = turns[s] \/ Begin(s)
    /\ Begin(s) => /\ turns'[s] = turns[s] + 1 /\ turns'[s] \in Turn
                   /\ launch'[s][turns'[s]].pc = "begun"
    /\ \/ parked'[s] = parked[s]
       \/ parked'[s] = NoRow /\ TakeNext(s)
       \/ parked'[s] = NoRow /\ UNCHANGED <<inflight, turns, launch>>
       \/ \E t \in Turn : /\ parked'[s].turn = t /\ launch'[s][t].pc = "parked"
                          /\ launch[s][t].pc = "held" /\ parked'[s] \in Row
    /\ \A t \in Turn :
         /\ launch'[s][t].pc \in ByQueue =>
              launch[s][t].pc \in ByQueue \/ (TakeNext(s) /\ t = parked[s].turn)
         /\ launch'[s][t].pc \in ByGate =>
              \/ launch[s][t].pc \in ByGate
              \/ GateCheck(s, t) /\ \A u \in Session \ {s} : ~Holds(u)
         /\ launch'[s][t].pc # "none" => launch[s][t].pc # "none" \/ (Begin(s) /\ t = turns'[s])
         /\ launch[s][t].pc = "parked" =>
              \/ launch'[s][t].pc = "parked"
              \/ TakeNext(s)
              \/ Begin(s) /\ t = turns'[s]

(* Steps that move one launch and leave the queue and the turns.            *)
LEMMA MoveEffects ==
  ASSUME Typed, NEW s \in Session, NEW t \in Turn, NEW new, Moves(s, t, new),
         UNCHANGED <<turns, parked>>, \A u \in Session : inflight'[u] => inflight[u],
         launch[s][t].pc \notin {"none", "parked"}, new # "none",
         new \in ByQueue => launch[s][t].pc \in ByQueue,
         new \in ByGate => \/ launch[s][t].pc \in ByGate
                           \/ GateCheck(s, t) /\ \A u \in Session \ {s} : ~Holds(u),
         \A u \in Session : ~Begin(u)
  PROVE  Effects
  BY DEF Effects, Moves

LEMMA StayEffects ==
  ASSUME Typed, Stays, UNCHANGED <<turns, parked>>, \A u \in Session : inflight'[u] => inflight[u],
         \A u \in Session : ~Begin(u)
  PROVE  Effects
  BY DEF Effects, Stays

(* A session begins only where its turn count grows.                        *)
LEMMA BeginGrows ==
  ASSUME Typed, NEW u \in Session, Begin(u)
  PROVE  turns' # turns
  <1>1. turns \in [Session -> Turn \union {NoTurn}] /\ turns' = [turns EXCEPT ![u] = @ + 1]
    BY DEF Typed, Begin
  <1>2. turns'[u] = turns[u] + 1 /\ turns[u] \in Int
    BY <1>1 DEF Turn, NoTurn
  <1>3. QED
    BY <1>2
LEMMA RestFalls ==
  ASSUME Typed, NEW s \in Session, Rest(s)
  PROVE  inflight' \in [Session -> BOOLEAN] /\ \A u \in Session : inflight'[u] => inflight[u]
  BY DEF Typed, Rest

LEMMA RequestEffects ==
  ASSUME Typed, NEW s \in Session, NEW t \in Turn, Request(s, t) \/ Replay(s, t)
  PROVE  Effects /\ Typed'
  <1> USE DEF ByQueue, ByGate
  <1>1. ASSUME Resolve(s, t) PROVE Effects /\ Typed'
    <2>1. Moves(s, t, "resolved") /\ launch' \in [Session -> [Turn -> Launch]]
      BY <1>1, ResolveMoves DEF Resolve, LaunchPc
    <2>2. UNCHANGED <<inflight, turns, parked, parks, wiki>> /\ launch[s][t].pc = "begun"
      BY <1>1 DEF Resolve, rowVars
    <2>3. QED
      BY <2>1, <2>2, MoveEffects, BeginGrows DEF Typed
  <1>2. ASSUME GateCheck(s, t) PROVE Effects /\ Typed'
    <2> DEFINE new == IF \E u \in Session \ {s} : Holds(u) THEN "held" ELSE "free"
    <2>1. LaunchGoto(s, t, new) /\ new \in LaunchPc
      BY <1>2 DEF GateCheck, LaunchPc
    <2>2. UNCHANGED <<inflight, turns, parked, parks, wiki>> /\ launch[s][t].pc = "resolved"
      BY <1>2 DEF GateCheck, rowVars
    <2>3. new # "none" /\ new \notin ByQueue
          /\ (new \in ByGate => \A u \in Session \ {s} : ~Holds(u))
      OBVIOUS
    <2> HIDE DEF new
    <2>4. Moves(s, t, new) /\ launch' \in [Session -> [Turn -> Launch]]
      BY <2>1, GotoMoves
    <2>5. QED
      BY <1>2, <2>2, <2>3, <2>4, MoveEffects, BeginGrows DEF Typed
  <1>3. ASSUME GatePark(s, t) PROVE Effects /\ Typed'
    <2> DEFINE row == [turn |-> t, since |-> parks + 1]
    <2>1. Moves(s, t, "parked") /\ launch' \in [Session -> [Turn -> Launch]]
      BY <1>3, GotoMoves DEF GatePark, LaunchPc
    <2>2. /\ UNCHANGED <<inflight, turns, wiki>> /\ launch[s][t].pc = "held"
          /\ parked' = [parked EXCEPT ![s] = row] /\ parks' = parks + 1
      BY <1>3 DEF GatePark
    <2>3. row \in Row /\ row.turn = t /\ parks' \in Nat
      BY <2>2 DEF Typed, Row
    <2>4. Typed'
      BY <2>1, <2>2, <2>3 DEF Typed
    <2> HIDE DEF row
    <2>5. /\ parked'[s] = row
          /\ \A u \in Session : u # s => parked'[u] = parked[u]
      BY <2>2 DEF Typed
    <2>6. \A u \in Session : ~Begin(u)
      BY <2>2, BeginGrows
    <2>7. Effects
      BY <2>1, <2>2, <2>3, <2>5, <2>6 DEF Effects, Moves
    <2>8. QED
      BY <2>4, <2>7
  <1>4. ASSUME GateLaunch(s, t) PROVE Effects /\ Typed'
    <2>1. Moves(s, t, "launched") /\ launch' \in [Session -> [Turn -> Launch]]
      BY <1>4, GotoMoves DEF GateLaunch, LaunchPc
    <2>2. UNCHANGED <<inflight, turns, parked, parks, wiki>> /\ launch[s][t].pc = "free"
      BY <1>4 DEF GateLaunch, rowVars
    <2>3. QED
      BY <2>1, <2>2, MoveEffects, BeginGrows DEF Typed
  <1>5. ASSUME GateRefuse(s, t) \/ ReleaseFail(s, t) PROVE Effects /\ Typed'
    <2>1. Moves(s, t, "lost") /\ launch' \in [Session -> [Turn -> Launch]]
      BY <1>5, GotoMoves DEF GateRefuse, ReleaseFail, LaunchPc
    <2>2. UNCHANGED <<turns, parked, parks, wiki>> /\ launch[s][t].pc \in {"free", "taken", "fresh"}
      BY <1>5 DEF GateRefuse, ReleaseFail
    <2>3. inflight' \in [Session -> BOOLEAN] /\ \A u \in Session : inflight'[u] => inflight[u]
      BY <1>5, RestFalls DEF GateRefuse, ReleaseFail
    <2>4. QED
      BY <2>1, <2>2, <2>3, MoveEffects, BeginGrows DEF Typed
  <1>6. ASSUME GateError(s, t) PROVE Effects /\ Typed'
    <2>1. Moves(s, t, "lost") /\ launch' \in [Session -> [Turn -> Launch]]
      BY <1>6, GotoMoves DEF GateError, LaunchPc
    <2>2. UNCHANGED <<inflight, turns, parked, parks, wiki>> /\ launch[s][t].pc \in InRequest
      BY <1>6 DEF GateError, rowVars
    <2>3. QED
      BY <2>1, <2>2, MoveEffects, BeginGrows DEF Typed, InRequest
  <1>7. ASSUME Refresh(s, t) PROVE Effects /\ Typed'
    <2>1. Moves(s, t, "fresh") /\ launch' \in [Session -> [Turn -> Launch]]
      BY <1>7, ResolveMoves DEF Refresh, LaunchPc
    <2>2. UNCHANGED <<inflight, turns, parked, parks, wiki>> /\ launch[s][t].pc = "taken"
      BY <1>7 DEF Refresh, rowVars
    <2>3. QED
      BY <2>1, <2>2, MoveEffects, BeginGrows DEF Typed
  <1>8. ASSUME ReleaseLaunch(s, t) PROVE Effects /\ Typed'
    <2>1. Moves(s, t, "released") /\ launch' \in [Session -> [Turn -> Launch]]
      BY <1>8, GotoMoves DEF ReleaseLaunch, LaunchPc
    <2>2. UNCHANGED <<inflight, turns, parked, parks, wiki>> /\ launch[s][t].pc = "fresh"
      BY <1>8 DEF ReleaseLaunch, rowVars
    <2>3. QED
      BY <2>1, <2>2, MoveEffects, BeginGrows DEF Typed
  <1>9. QED
    BY <1>1, <1>2, <1>3, <1>4, <1>5, <1>6, <1>7, <1>8 DEF Request, Replay

LEMMA BeginEffects ==
  ASSUME Typed, BegunInv, NEW s \in Session, Begin(s)
  PROVE  Effects /\ Typed'
  <1>1. /\ turns \in [Session -> Turn \union {NoTurn}] /\ turns' = [turns EXCEPT ![s] = @ + 1]
        /\ turns[s] < MaxTurn
        /\ inflight' = [inflight EXCEPT ![s] = TRUE] /\ inflight \in [Session -> BOOLEAN]
        /\ LaunchGoto(s, turns[s] + 1, "begun") /\ UNCHANGED <<parked, parks, wiki>>
    BY DEF Typed, Begin
  <1> DEFINE t == turns[s] + 1
  <1>2. t \in Turn /\ turns[s] \in Int /\ t > turns[s]
    BY <1>1, WriterQueueAssumption DEF Turn, NoTurn
  <1>3. turns'[s] = t /\ \A u \in Session : u # s => turns'[u] = turns[u]
    BY <1>1
  <1>4. Moves(s, t, "begun") /\ launch' \in [Session -> [Turn -> Launch]]
    BY <1>1, <1>2, GotoMoves DEF LaunchPc
  <1>5. launch[s][t].pc = "none"
    BY <1>2 DEF BegunInv, Turn
  <1>6. Typed'
    BY <1>1, <1>2, <1>3, <1>4 DEF Typed
  <1>7. \A u \in Session : u # s => /\ inflight'[u] = inflight[u]
                                    /\ ~Begin(u)
    <2>1. SUFFICES ASSUME NEW u \in Session, u # s PROVE inflight'[u] = inflight[u] /\ ~Begin(u)
      OBVIOUS
    <2>2. turns'[u] = turns[u] /\ turns[u] \in Int
      BY <1>1, <1>3, <2>1 DEF Turn, NoTurn
    <2>3. Begin(u) => turns'[u] = turns[u] + 1
      BY <1>1 DEF Begin
    <2>4. QED
      BY <1>1, <2>1, <2>2, <2>3
  <1> HIDE DEF t
  <1>8. turns'[s] = turns[s] + 1
    BY <1>3 DEF t
  <1>9. Effects
    BY <1>1, <1>2, <1>3, <1>4, <1>5, <1>7, <1>8 DEF Effects, Moves, ByQueue, ByGate
  <1>10. QED
    BY <1>6, <1>9

LEMMA TakeEffects ==
  ASSUME Typed, RowsInv, NEW s \in Session, TakeNext(s)
  PROVE  Effects /\ Typed'
  <1>1. /\ parked[s] # NoRow /\ parked' = [parked EXCEPT ![s] = NoRow]
        /\ LaunchGoto(s, parked[s].turn, "taken")
        /\ UNCHANGED <<inflight, turns, parks, wiki>>
        /\ parked \in [Session -> Row \union {NoRow}]
    BY DEF TakeNext, Oldest, Typed
  <1> DEFINE t == parked[s].turn
  <1>2. t \in Turn
    BY <1>1, RowsHaveTurns
  <1>3. Moves(s, t, "taken") /\ launch' \in [Session -> [Turn -> Launch]]
    BY <1>1, <1>2, GotoMoves DEF LaunchPc
  <1>4. parked'[s] = NoRow /\ \A u \in Session : u # s => parked'[u] = parked[u]
    BY <1>1
  <1>5. Typed'
    BY <1>1, <1>3 DEF Typed
  <1>6. \A u \in Session : ~Begin(u)
    BY <1>1, BeginGrows
  <1> HIDE DEF t
  <1>7. /\ launch'[s][t].pc = "taken" /\ \A v \in Turn : v # t => launch'[s][v].pc = launch[s][v].pc
        /\ \A u \in Session, v \in Turn : u # s => launch'[u][v].pc = launch[u][v].pc
    BY <1>2, <1>3 DEF Moves
  <1>8. TakeNext(s) /\ t = parked[s].turn
    BY DEF t
  <1>9. Effects
    <2> DEFINE Way(u, v) ==
          /\ launch'[u][v].pc \in ByQueue =>
               launch[u][v].pc \in ByQueue \/ (TakeNext(u) /\ v = parked[u].turn)
          /\ launch'[u][v].pc \in ByGate => launch[u][v].pc \in ByGate
          /\ launch'[u][v].pc # "none" => launch[u][v].pc # "none" \/ v = t
          /\ launch[u][v].pc = "parked" => launch'[u][v].pc = "parked" \/ TakeNext(u)
    <2>1. launch[s][t].pc = "parked"
      BY <1>1, <1>8 DEF RowsInv
    <2>2. \A v \in Turn : Way(s, v)
      BY <1>7, <1>8, <2>1 DEF ByGate
    <2>3. \A u \in Session, v \in Turn : u # s => Way(u, v)
      BY <1>7
    <2>4. \A u \in Session : parked'[u] = parked[u] \/ (parked'[u] = NoRow /\ TakeNext(u))
      BY <1>4, <1>8
    <2>5. QED
      BY <1>1, <1>6, <1>7, <2>1, <2>2, <2>3, <2>4 DEF Effects
  <1>10. QED
    BY <1>5, <1>9

LEMMA OtherEffects ==
  ASSUME Typed,
         \/ TakeCheck \/ TakeNothing \/ Restart \/ UNCHANGED vars
         \/ \E s \in Session : \/ Interrupt(s) \/ SweepJudge(s) \/ SweepFail(s)
                               \/ \E t \in Turn : Runner(s, t)
  PROVE  Effects /\ Typed'
  <1>1. ASSUME UNCHANGED <<turns, parked, launch, parks>>, wiki' \in Nat,
               inflight' \in [Session -> BOOLEAN], \A u \in Session : inflight'[u] => inflight[u]
        PROVE  Effects /\ Typed'
    BY <1>1, SameStays, StayEffects, BeginGrows DEF Typed
  <1>2. CASE TakeCheck \/ TakeNothing \/ UNCHANGED vars
    BY <1>1, <1>2 DEF TakeCheck, TakeNothing, vars, rowVars, Typed
  <1>3. CASE Restart
    <2>1. UNCHANGED <<inflight, turns, parked, parks, wiki>>
      BY <1>3 DEF Restart, rowVars
    <2>2. /\ launch' \in [Session -> [Turn -> Launch]]
          /\ \A u \in Session, v \in Turn :
               \/ launch'[u][v].pc = launch[u][v].pc
               \/ launch[u][v].pc \in UnderWay /\ launch'[u][v].pc = "lost"
      BY <1>3, RestartMoves
    <2>3. \A u \in Session : ~Begin(u)
      BY <2>1, BeginGrows
    <2>4. Effects
      BY <2>1, <2>2, <2>3 DEF Effects, ByQueue, ByGate, UnderWay, InRequest
    <2>5. QED
      BY <2>1, <2>2, <2>4 DEF Typed
  <1>4. ASSUME NEW s \in Session, Interrupt(s) \/ SweepJudge(s) \/ SweepFail(s)
        PROVE  Effects /\ Typed'
    <2>1. CASE InterruptStop(s) \/ SweepJudge(s)
      BY <1>1, <2>1 DEF InterruptStop, SweepJudge, rowVars, Typed
    <2>2. CASE InterruptIdle(s) \/ SweepFail(s)
      <3>1. Rest(s) /\ UNCHANGED <<turns, parked, launch, parks, wiki>>
        BY <2>2 DEF InterruptIdle, SweepFail
      <3>2. QED
        BY <1>1, <3>1, RestFalls DEF Typed
    <2>3. CASE InterruptUnpark(s)
      <3>1. /\ parked' = [parked EXCEPT ![s] = NoRow]
            /\ UNCHANGED <<inflight, turns, launch, parks, wiki>>
        BY <2>3 DEF InterruptUnpark
      <3>2. parked'[s] = NoRow /\ \A u \in Session : u # s => parked'[u] = parked[u]
        BY <3>1 DEF Typed
      <3>3. \A u \in Session : ~Begin(u)
        BY <3>1, BeginGrows
      <3>4. Effects
        BY <3>1, <3>2, <3>3 DEF Effects
      <3>5. QED
        BY <3>1, <3>4 DEF Typed
    <2>4. QED
      BY <1>4, <2>1, <2>2, <2>3 DEF Interrupt
  <1>5. ASSUME NEW s \in Session, NEW t \in Turn, Runner(s, t)
        PROVE  Effects /\ Typed'
    <2>1. CASE PodStage(s, t) \/ PodWriteBack(s, t) \/ PodEnd(s, t)
      <3>1. UNCHANGED <<inflight, turns, parked, launch, parks>> /\ wiki' \in Nat
        BY <2>1 DEF PodStage, PodWriteBack, PodEnd, rowVars, Typed
      <3>2. QED
        BY <1>1, <3>1 DEF Typed
    <2>2. CASE PodReport(s, t)
      <3>1. UNCHANGED <<turns, parked, launch, parks, wiki>> /\ Reported(s, t)
        BY <2>2 DEF PodReport
      <3>2. inflight' \in [Session -> BOOLEAN] /\ \A u \in Session : inflight'[u] => inflight[u]
        BY <3>1 DEF Typed, Reported
      <3>3. QED
        BY <1>1, <3>1, <3>2 DEF Typed
    <2>3. QED
      BY <1>5, <2>1, <2>2 DEF Runner
  <1>6. QED
    BY <1>2, <1>3, <1>4, <1>5

LEMMA StepEffects ==
  ASSUME IInv, [Next]_vars
  PROVE  Effects /\ Typed'
  BY RequestEffects, BeginEffects, TakeEffects, OtherEffects DEF IInv, Next, Take

(* The launches begin with their turns, and rows are of launches that park. *)
THEOREM Invariant == Spec => []IInv
  <1>1. Init => IInv
    <2> SUFFICES ASSUME Init PROVE IInv
      OBVIOUS
    <2>1. [pc |-> "none", wiki |-> 0] \in Launch
      BY DEF Launch, LaunchPc
    <2>2. Typed
      BY <2>1 DEF Init, Typed
    <2>3. BegunInv /\ FlightInv /\ RowsInv
      BY DEF Init, BegunInv, FlightInv, RowsInv
    <2>4. QED
      BY <2>2, <2>3 DEF IInv
  <1>2. IInv /\ [Next]_vars => IInv'
    <2> SUFFICES ASSUME IInv, [Next]_vars PROVE IInv'
      OBVIOUS
    <2>1. Effects /\ Typed' /\ Typed /\ BegunInv /\ FlightInv /\ RowsInv
      BY StepEffects DEF IInv
    <2>2. BegunInv'
      <3>1. SUFFICES ASSUME NEW s \in Session, NEW t \in Turn, launch'[s][t].pc # "none"
                     PROVE  t <= turns'[s]
        BY DEF BegunInv
      <3>2. turns[s] \in Int /\ turns'[s] \in Int /\ t \in Int
        BY <2>1 DEF Typed, Turn, NoTurn
      <3>3. turns'[s] = turns[s] \/ turns'[s] = turns[s] + 1
        BY <2>1 DEF Effects
      <3>4. launch[s][t].pc # "none" \/ t = turns'[s]
        BY <2>1, <3>1 DEF Effects
      <3>5. launch[s][t].pc # "none" => t <= turns[s]
        BY <2>1 DEF BegunInv
      <3>6. QED
        BY <3>2, <3>3, <3>4, <3>5
    <2>3. RowsInv'
      <3>1. SUFFICES ASSUME NEW s \in Session, parked'[s] # NoRow
                     PROVE  launch'[s][parked'[s].turn].pc = "parked"
        BY DEF RowsInv
      <3>2. \/ parked'[s] = parked[s]
            \/ \E t \in Turn : parked'[s].turn = t /\ launch'[s][t].pc = "parked"
        BY <2>1, <3>1 DEF Effects
      <3>3. CASE parked'[s] = parked[s]
        <4> DEFINE t == parked[s].turn
        <4>1. t \in Turn /\ launch[s][t].pc = "parked"
          BY <2>1, <3>1, <3>3, RowsHaveTurns DEF RowsInv, Typed
        <4>2. ~TakeNext(s)
          BY <2>1, <3>1, <3>3 DEF TakeNext, Typed
        <4>3. ~(Begin(s) /\ t = turns'[s])
          <5>1. SUFFICES ASSUME Begin(s), t = turns'[s] PROVE FALSE
            OBVIOUS
          <5>2. turns'[s] = turns[s] + 1 /\ turns[s] \in Int
            BY <2>1, <5>1 DEF Effects, Typed, Turn, NoTurn
          <5>3. t <= turns[s]
            BY <2>1, <4>1 DEF BegunInv
          <5>4. QED
            BY <5>1, <5>2, <5>3
        <4>4. launch'[s][t].pc = "parked"
          BY <2>1, <4>1, <4>2, <4>3 DEF Effects
        <4>5. QED
          BY <3>3, <4>4
      <3>4. QED
        BY <3>2, <3>3
    <2>4. FlightInv'
      BY <2>1 DEF FlightInv, Effects
    <2>5. QED
      BY <2>1, <2>2, <2>3, <2>4 DEF IInv
  <1>3. QED
    BY <1>1, <1>2, PTL DEF Spec

(***************************************************************************)
(* A row that is of the session's latest turn stands for that turn's wait: *)
(* while the turn is on a way past the queue there is none.                *)
(***************************************************************************)
LEMMA OnTheWay ==
  ASSUME IInv, RowsAreCurrent, NEW s \in Session,
         launch[s][turns[s]].pc \in ByQueue \union ByGate
  PROVE  parked[s] = NoRow
  BY DEF IInv, RowsInv, RowsAreCurrent, ByQueue, ByGate

(* Who has the slot through the queue had it, or was just released.         *)
LEMMA QueueKeeps ==
  ASSUME IInv, RowsAreCurrent, Effects, FlightInv',
         NEW s \in Session, HoldsBy(s, ByQueue)'
  PROVE  HoldsBy(s, ByQueue) \/ TakeNext(s)
  <1>1. SUFFICES ASSUME ~TakeNext(s) PROVE HoldsBy(s, ByQueue)
    OBVIOUS
  <1>2. inflight'[s] /\ launch'[s][turns'[s]].pc \in ByQueue /\ turns'[s] \in Turn
    BY DEF HoldsBy, Holds, FlightInv
  <1>3. ~Begin(s)
    BY <1>2 DEF Effects, ByQueue
  <1>4. turns'[s] = turns[s] /\ inflight[s]
    BY <1>2, <1>3 DEF Effects
  <1>5. launch[s][turns[s]].pc \in ByQueue
    BY <1>1, <1>2, <1>4 DEF Effects
  <1>6. parked[s] = NoRow
    BY <1>5, OnTheWay
  <1>7. QED
    BY <1>4, <1>5, <1>6 DEF HoldsBy, Holds

(* Who has it through the gate had it, or just saw that no other has it.    *)
LEMMA GateKeeps ==
  ASSUME IInv, RowsAreCurrent, Effects, FlightInv',
         NEW s \in Session, HoldsBy(s, ByGate)'
  PROVE  Holds(s) /\ (HoldsBy(s, ByGate) \/ \A u \in Session \ {s} : ~Holds(u))
  <1>1. inflight'[s] /\ launch'[s][turns'[s]].pc \in ByGate /\ turns'[s] \in Turn /\ parked'[s] = NoRow
    BY DEF HoldsBy, Holds, FlightInv
  <1>2. ~Begin(s)
    BY <1>1 DEF Effects, ByGate
  <1>3. turns'[s] = turns[s] /\ inflight[s]
    BY <1>1, <1>2 DEF Effects
  <1>4. \/ launch[s][turns[s]].pc \in ByGate
        \/ GateCheck(s, turns[s]) /\ \A u \in Session \ {s} : ~Holds(u)
    BY <1>1, <1>3 DEF Effects
  <1>5. CASE launch[s][turns[s]].pc \in ByGate
    BY <1>3, <1>5, OnTheWay DEF HoldsBy, Holds
  <1>6. CASE GateCheck(s, turns[s]) /\ \A u \in Session \ {s} : ~Holds(u)
    <2>1. parked[s] = NoRow
      BY <1>1, <1>6 DEF GateCheck, rowVars
    <2>2. QED
      BY <1>3, <1>6, <2>1 DEF Holds
  <1>7. QED
    BY <1>4, <1>5, <1>6

(* The lock is taken by a release that sees the slot free, and given back   *)
(* when it has taken a row.                                                 *)
LEMMA LockSteps ==
  ASSUME [Next]_vars, checked'
  PROVE  /\ checked \/ \A s \in Session : ~Holds(s)
         /\ \A s \in Session : ~TakeNext(s)
  <1>1. \A s \in Session : ~TakeNext(s)
    BY DEF TakeNext
  <1>2. CASE TakeCheck
    BY <1>1, <1>2 DEF TakeCheck
  <1>3. CASE TakeNothing \/ Restart
    BY <1>1, <1>3 DEF TakeNothing, Restart
  <1>4. CASE UNCHANGED vars
    BY <1>1, <1>4 DEF vars
  <1>5. ASSUME NEW s \in Session, Begin(s) \/ Interrupt(s) \/ SweepJudge(s) \/ SweepFail(s)
        PROVE  checked
    BY <1>5 DEF Begin, Interrupt, InterruptStop, InterruptUnpark, InterruptIdle, SweepJudge,
                SweepFail
  <1>6. ASSUME NEW s \in Session, NEW t \in Turn, Request(s, t) \/ Replay(s, t) \/ Runner(s, t)
        PROVE  checked
    BY <1>6 DEF Request, Resolve, GateCheck, GatePark, GateLaunch, GateRefuse, GateError,
                Replay, Refresh, ReleaseLaunch, ReleaseFail,
                Runner, PodStage, PodWriteBack, PodReport, PodEnd
  <1>7. QED
    BY <1>1, <1>2, <1>3, <1>4, <1>5, <1>6 DEF Next, Take

(* No two releases at once.                                                 *)
LEMMA TakesOne ==
  ASSUME Typed, NEW s \in Session, NEW u \in Session, TakeNext(s), TakeNext(u)
  PROVE  s = u
  <1>1. SUFFICES ASSUME s # u PROVE FALSE
    OBVIOUS
  <1>2. parked' = [parked EXCEPT ![s] = NoRow] /\ parked' = [parked EXCEPT ![u] = NoRow]
        /\ parked[u] # NoRow
    BY DEF TakeNext, Oldest
  <1>3. parked'[u] = parked[u] /\ parked'[u] = NoRow
    BY <1>1, <1>2 DEF Typed
  <1>4. QED
    BY <1>2, <1>3

LEMMA SlotKeeps ==
  ASSUME IInv, IInv', RowsAreCurrent, SlotInv, [Next]_vars
  PROVE  SlotInv'
  <1>1. Effects /\ Typed /\ FlightInv' /\ LockInv /\ ReleasesNeverOverlap /\ GateLetsOneIn
    BY StepEffects DEF IInv, SlotInv
  <1>2. LockInv'
    <2>1. SUFFICES ASSUME checked', NEW s \in Session, HoldsBy(s, ByQueue)' PROVE FALSE
      BY DEF LockInv
    <2>2. HoldsBy(s, ByQueue)
      BY <1>1, <2>1, QueueKeeps, LockSteps
    <2>3. QED
      BY <1>1, <2>1, <2>2, LockSteps DEF LockInv, HoldsBy
  <1>3. ReleasesNeverOverlap'
    <2>1. SUFFICES ASSUME NEW s \in Session, NEW u \in Session,
                          HoldsBy(s, ByQueue)', HoldsBy(u, ByQueue)'
                   PROVE  s = u
      BY DEF ReleasesNeverOverlap
    <2>2. HoldsBy(s, ByQueue) \/ TakeNext(s)
      BY <1>1, <2>1, QueueKeeps
    <2>3. HoldsBy(u, ByQueue) \/ TakeNext(u)
      BY <1>1, <2>1, QueueKeeps
    <2>4. TakeNext(s) => ~HoldsBy(u, ByQueue)
      BY <1>1 DEF TakeNext, LockInv
    <2>5. TakeNext(u) => ~HoldsBy(s, ByQueue)
      BY <1>1 DEF TakeNext, LockInv
    <2>6. CASE TakeNext(s) /\ TakeNext(u)
      BY <1>1, <2>6, TakesOne
    <2>7. CASE HoldsBy(s, ByQueue) /\ HoldsBy(u, ByQueue)
      BY <1>1, <2>7 DEF ReleasesNeverOverlap
    <2>8. QED
      BY <2>2, <2>3, <2>4, <2>5, <2>6, <2>7
  <1>4. GateLetsOneIn'
    <2>1. SUFFICES ASSUME NEW s \in Session, NEW u \in Session,
                          HoldsBy(s, ByGate)', HoldsBy(u, ByGate)', s # u
                   PROVE  FALSE
      BY DEF GateLetsOneIn
    <2>2. Holds(s) /\ (HoldsBy(s, ByGate) \/ \A v \in Session \ {s} : ~Holds(v))
      BY <1>1, <2>1, GateKeeps
    <2>3. Holds(u) /\ (HoldsBy(u, ByGate) \/ \A v \in Session \ {u} : ~Holds(v))
      BY <1>1, <2>1, GateKeeps
    <2>4. HoldsBy(s, ByGate) /\ HoldsBy(u, ByGate)
      BY <2>1, <2>2, <2>3
    <2>5. QED
      BY <1>1, <2>1, <2>4 DEF GateLetsOneIn
  <1>5. QED
    BY <1>2, <1>3, <1>4 DEF SlotInv

(***************************************************************************)
(* As long as no row is of a turn that its session has left behind, the    *)
(* sessions that the queue releases have the slot one after the other      *)
(* (takeNextWriterLaunch), and so have those that the gate lets in.  A row *)
(* is left behind only by an interrupt or a verdict that comes between a   *)
(* turn and its parking.                                                   *)
(***************************************************************************)
THEOREM OneRelease == Spec /\ []RowsAreCurrent => []ReleasesNeverOverlap
  <1>1. Init => SlotInv
    BY DEF Init, SlotInv, LockInv, ReleasesNeverOverlap, GateLetsOneIn, HoldsBy, Holds
  <1>2. IInv /\ IInv' /\ RowsAreCurrent /\ SlotInv /\ [Next]_vars => SlotInv'
    BY SlotKeeps
  <1>3. SlotInv => ReleasesNeverOverlap
    BY DEF SlotInv
  <1>4. QED
    BY <1>1, <1>2, <1>3, Invariant, PTL DEF Spec

(* Two requests cannot both find the gate open, although it takes no lock:  *)
(* each session is in flight before it looks (writerSlotHeld).              *)
THEOREM OneThroughTheGate == Spec /\ []RowsAreCurrent => []GateLetsOneIn
  <1>1. Init => SlotInv
    BY DEF Init, SlotInv, LockInv, ReleasesNeverOverlap, GateLetsOneIn, HoldsBy, Holds
  <1>2. IInv /\ IInv' /\ RowsAreCurrent /\ SlotInv /\ [Next]_vars => SlotInv'
    BY SlotKeeps
  <1>3. SlotInv => GateLetsOneIn
    BY DEF SlotInv
  <1>4. QED
    BY <1>1, <1>2, <1>3, Invariant, PTL DEF Spec

(* Sessions of one turn leave no row behind, so with them both hold without *)
(* condition, under every interrupt and restart.                            *)
THEOREM OneTurn ==
  ASSUME MaxTurn = 0
  PROVE  Spec => [](ReleasesNeverOverlap /\ GateLetsOneIn)
  <1>1. IInv => RowsAreCurrent
    <2>1. SUFFICES ASSUME IInv, NEW s \in Session, parked[s] # NoRow
                   PROVE  parked[s].turn = turns[s]
      BY DEF RowsAreCurrent
    <2>2. parked[s].turn \in Turn /\ turns[s] \in Turn \union {NoTurn}
      BY <2>1, RowsHaveTurns DEF IInv, Typed
    <2>3. parked[s].turn <= turns[s]
      BY <2>1, <2>2 DEF IInv, RowsInv, BegunInv
    <2>4. QED
      BY <2>2, <2>3 DEF Turn, NoTurn
  <1>2. QED
    BY <1>1, Invariant, OneRelease, OneThroughTheGate, PTL

(***************************************************************************)
(* The catalog: saves, environment updates and deletions, each of many     *)
(* statements, with all others in between.                                 *)
(***************************************************************************)

(* Where a request of the catalog can be, and the types of its record.      *)
Saves == {"skills", "connect", "lock", "refs", "agent", "prev", "number", "insert"}
Early == {"skills", "connect", "lock", "refs", "agent"}
Checked == {"agent", "prev", "number", "insert"}
Syncs == {"hosts", "ensure", "prevEnv"}
Going == {"skillGone", "wikiGone", "envTear", "envGone"}
Pcs == Saves \cup Syncs \cup Going \cup {"idle", "release"}
MaybeEnv == Env \cup {None}
Target == Env \cup Skill \cup Wiki
RequestRecord == [pc : Pcs, agent : Agent \cup {None}, create : BOOLEAN, config : Config \cup {NoConfig},
            on : Target \cup {None}, mcp : BOOLEAN, prev : MaybeEnv,
            version : Nat, sync : Seq(Env), hosts : SUBSET Agent, conn : BOOLEAN]

CatalogTyped ==
  /\ agents \in [Agent -> {"new", "live", "gone"}]
  /\ versions \in [Agent -> Seq(Config)]
  /\ envs \in [Env -> EnvRow]
  /\ proxy \in [Env -> SUBSET Agent]
  /\ lock \in [Wiki -> Client \cup {None}]
  /\ request \in [Client -> RequestRecord]

(* What a request has read by the point it has reached.                     *)
Shape(r) ==
  /\ r.pc \in Saves => r.agent \in Agent /\ r.config \in Config /\ r.sync = <<>> /\ r.on = None
  /\ r.pc = "release" => r.config \in Config
  /\ r.pc = "release" /\ r.sync # <<>> => Head(r.sync) = r.config.env
  /\ r.pc \in Syncs => r.sync # <<>>
  /\ r.pc = "prevEnv" => Len(r.sync) = 1
  /\ Len(r.sync) <= 2
  /\ r.pc \in Going => r.sync = <<>> /\ r.config = NoConfig /\ r.prev = None
  /\ r.pc \in {"envTear", "envGone"} => r.on \in Env
  /\ r.pc = "insert" /\ r.create => r.version = 1
  /\ r.pc = "agent" => r.create
  /\ r.pc \in {"prev", "number"} => ~ r.create
  /\ r.pc = "idle" => r = Idle
Shapes == \A c \in Client : Shape(request[c])

LEMMA ConfigType ==
  ASSUME NEW g \in Config
  PROVE  g.env \in Env /\ g.mcp \in BOOLEAN /\ g.writes \subseteq Wiki /\ IsFiniteSet(g.writes)
  BY AgentCatalogAssumption

(* A queue of proxies to refresh is its head and the rest.                   *)
LEMMA QueueParts ==
  ASSUME NEW s \in Seq(Env), s # <<>>
  PROVE  /\ Tail(s) \in Seq(Env) /\ Len(Tail(s)) = Len(s) - 1 /\ Head(s) \in Env
         /\ Len(s) \in Nat \ {0} /\ ToSet(s) = {Head(s)} \cup ToSet(Tail(s))
  <1>1. /\ Head(s) \in Env /\ Tail(s) \in Seq(Env) /\ Len(Tail(s)) = Len(s) - 1
        /\ \A i \in 1..Len(Tail(s)) : Tail(s)[i] = s[i + 1]
    BY HeadTailProperties
  <1>2. Len(s) \in Nat \ {0} /\ s[1] = Head(s) /\ DOMAIN s = 1..Len(s)
    BY EmptySeq, LenProperties
  <1>3. DOMAIN Tail(s) = 1..Len(s) - 1
    BY <1>1, LenProperties
  <1>4. ASSUME NEW i \in 1..Len(s)
        PROVE  s[i] \in {Head(s)} \cup ToSet(Tail(s))
    <2>1. CASE i = 1
      BY <2>1, <1>2
    <2>2. CASE i # 1
      <3>1. i - 1 \in 1..Len(s) - 1 /\ (i - 1) + 1 = i
        BY <1>2, <2>2
      <3>2. Tail(s)[i - 1] = s[i]
        BY <3>1, <1>1
      <3> QED
        BY <3>1, <3>2, <1>3 DEF ToSet
    <2> QED
      BY <2>1, <2>2
  <1>5. ASSUME NEW i \in 1..Len(s) - 1
        PROVE  Tail(s)[i] \in ToSet(s)
    <2>1. i + 1 \in 1..Len(s) /\ Tail(s)[i] = s[i + 1]
      BY <1>1, <1>2
    <2> QED
      BY <2>1, <1>2 DEF ToSet
  <1> QED
    BY <1>1, <1>2, <1>3, <1>4, <1>5 DEF ToSet

(* The queues a save makes: one proxy or two.                               *)
LEMMA QueueSets ==
  ASSUME NEW e \in Env, NEW f \in Env
  PROVE  /\ ToSet(<<>>) = {} /\ ToSet(<<e>>) = {e} /\ ToSet(<<e>> \o <<f>>) = {e, f}
         /\ <<>> \in Seq(Env) /\ <<e>> \in Seq(Env) /\ <<e>> \o <<f>> \in Seq(Env)
         /\ Len(<<>>) = 0 /\ Len(<<e>>) = 1 /\ Len(<<e>> \o <<f>>) = 2
         /\ Head(<<e>>) = e /\ Head(<<e>> \o <<f>>) = e
         /\ <<e>> # <<>> /\ <<e>> \o <<f>> # <<>>
  <1> PICK t : t = <<e>> \o <<f>>
    OBVIOUS
  <1>1. <<>> \in Seq(Env) /\ <<e>> \in Seq(Env) /\ <<f>> \in Seq(Env) /\ Len(<<>>) = 0
    BY EmptySeq
  <1>2. Len(<<e>>) = 1 /\ Len(<<f>>) = 1 /\ <<e>>[1] = e /\ <<f>>[1] = f /\ Head(<<e>>) = e /\ <<e>> # <<>>
    OBVIOUS
  <1>3. t \in Seq(Env) /\ Len(t) = 2 /\ t[1] = e /\ t[2] = f
    BY <1>1, <1>2, ConcatProperties
  <1>4. DOMAIN t = 1..2 /\ t # <<>>
    BY <1>1, <1>3, LenProperties
  <1>7. Head(t) = e
    BY <1>3
  <1>5. ToSet(t) = {e, f}
    <2>1. \A i \in 1..2 : t[i] \in {e, f}
      BY <1>3
    <2>2. 1 \in 1..2 /\ 2 \in 1..2
      OBVIOUS
    <2> QED
      BY <1>3, <1>4, <2>1, <2>2 DEF ToSet
  <1>6. ToSet(<<e>>) = {e}
    <2>1. DOMAIN <<e>> = 1..1 /\ 1 \in 1..1 /\ \A i \in 1..1 : i = 1
      OBVIOUS
    <2> QED
      BY <1>2, <2>1 DEF ToSet
  <1>8. ToSet(<<>>) = {}
    <2>1. DOMAIN <<>> = {}
      OBVIOUS
    <2> QED
      BY <2>1 DEF ToSet
  <1> QED
    BY <1>1, <1>2, <1>3, <1>4, <1>5, <1>6, <1>7, <1>8

LEMMA NoQueue == <<>> \in Seq(Env) /\ Len(<<>>) = 0 /\ ToSet(<<>>) = {}
  <1>1. DOMAIN <<>> = {}
    OBVIOUS
  <1> QED
    BY <1>1, EmptySeq DEF ToSet

LEMMA IdleType == Idle \in RequestRecord /\ Shape(Idle)
  <1>1. <<>> \in Seq(Env)
    BY EmptySeq
  <1> QED
    BY <1>1 DEF Idle, RequestRecord, MaybeEnv, Target, Pcs, Shape, Saves, Syncs, Going

LEMMA LatestType ==
  ASSUME CatalogTyped, NEW a \in Current
  PROVE  a \in Agent /\ Latest(a) \in Config /\ Latest(a).env \in Env
  <1>1. a \in Agent /\ versions[a] \in Seq(Config) /\ versions[a] # <<>>
    BY DEF CatalogTyped, Current, Live
  <1>2. Latest(a) \in Config
    BY <1>1 DEF Latest, Last
  <1> QED
    BY <1>1, <1>2, ConfigType

(* What one request becomes.                                                *)
Becomes(c, x) == x \in RequestRecord /\ Shape(x) /\ request' = [request EXCEPT ![c] = x]

(* A request that goes on keeps what it asked for.                          *)
Keeps(x, r) ==
  /\ x.agent = r.agent /\ x.create = r.create /\ x.config = r.config /\ x.on = r.on

(* Each step of a request leaves a record of the right type and shape.      *)
LEMMA GotoBecomes ==
  ASSUME CatalogTyped, Shapes, NEW c \in Client, NEW pc \in Saves, Goto(c, pc), request[c].pc \in Saves,
         pc = "agent" => request[c].create, pc = "prev" => ~ request[c].create, pc \notin {"number", "insert"}
  PROVE  \E x : /\ Becomes(c, x) /\ Keeps(x, request[c]) /\ x.pc = pc
                /\ x.sync = <<>> /\ x.prev = request[c].prev /\ x.mcp = request[c].mcp
  <1> DEFINE r == request[c]
  <1> PICK x : x = [request[c] EXCEPT !.pc = pc]
    OBVIOUS
  <1>1. r \in RequestRecord /\ Shape(r)
    BY DEF CatalogTyped, Shapes
  <1>2. x \in RequestRecord /\ x.pc = pc
    BY <1>1 DEF RequestRecord, MaybeEnv, Target, Pcs
  <1>3. /\ Keeps(x, r) /\ x.sync = r.sync /\ x.prev = r.prev /\ x.mcp = r.mcp
    BY <1>1 DEF RequestRecord, Keeps
  <1>4. Shape(x)
    BY <1>1, <1>2, <1>3 DEF Shape, Saves, Syncs, Going, Keeps
  <1>5. r.sync = <<>>
    BY <1>1 DEF Shape
  <1> QED
    BY <1>2, <1>3, <1>4, <1>5 DEF Becomes, Goto, Move

LEMMA FinishBecomes ==
  ASSUME NEW c \in Client, Finish(c)
  PROVE  Becomes(c, Idle)
  BY IdleType DEF Becomes, Finish

(* The request a new one starts from is blank.                              *)
LEMMA IdleFields ==
  /\ Idle.agent = None /\ Idle.config = NoConfig /\ Idle.on = None /\ Idle.prev = None
  /\ Idle.sync = <<>> /\ Idle.pc = "idle" /\ Idle.create = FALSE /\ Idle.hosts = {}
  /\ NoConfig.env = None
  BY DEF Idle, NoConfig

LEMMA SaveBecomes ==
  ASSUME CatalogTyped, NEW c \in Client, NEW a \in Agent, NEW g \in Config, Save(c, a, g)
  PROVE  \E x : /\ Becomes(c, x) /\ x.pc = "skills" /\ x.agent = a /\ x.config = g
                /\ x.create = (agents[a] = "new") /\ x.on = None /\ x.prev = None /\ x.sync = <<>>
                /\ x.mcp = envs[g.env].mcp
  <1>1. envs[g.env].mcp \in BOOLEAN
    BY ConfigType DEF CatalogTyped, EnvRow
  <1>2. PICK b \in BOOLEAN : b = (agents[a] = "new")
    BY Zenon
  <1> PICK x : x = [Idle EXCEPT !.pc = "skills", !.agent = a, !.config = g,
                      !.create = b, !.mcp = envs[g.env].mcp]
    OBVIOUS
  <1>3. Idle \in RequestRecord
    BY IdleType
  <1>4. /\ x.pc = "skills" /\ x.agent = a /\ x.config = g /\ x.mcp = envs[g.env].mcp
        /\ x.on = None /\ x.prev = None /\ x.sync = <<>> /\ x.version = 0 /\ x.hosts = {}
        /\ x.conn = FALSE
    BY DEF Idle
  <1>5. x.create = (agents[a] = "new")
    BY <1>2, Zenon DEF Idle
  <1>6. x \in RequestRecord
    BY <1>1, <1>3 DEF RequestRecord, MaybeEnv, Target, Pcs, Saves
  <1>7. Shape(x)
    BY <1>4 DEF Shape, Saves, Syncs, Going
  <1>8. request' = [request EXCEPT ![c] = x]
    BY <1>2 DEF Save, Arrive, Move
  <1> QED
    BY <1>4, <1>5, <1>6, <1>7, <1>8 DEF Becomes

LEMMA PatchBecomes ==
  ASSUME CatalogTyped, NEW c \in Client, NEW e \in Env, PatchEnv(c, e)
  PROVE  \E x : /\ Becomes(c, x) /\ x.pc = "hosts" /\ x.agent = None /\ x.config = NoConfig
                /\ x.create = FALSE /\ x.on = e /\ x.prev = None /\ x.sync = <<e>>
                /\ x.mcp = ~ envs[e].mcp
  <1> PICK x : x = [Idle EXCEPT !.pc = "hosts", !.on = e, !.mcp = ~ envs[e].mcp, !.sync = <<e>>]
    OBVIOUS
  <1>1. (~ envs[e].mcp) \in BOOLEAN
    OBVIOUS
  <1>2. <<e>> \in Seq(Env)
    OBVIOUS
  <1>3. Idle \in RequestRecord
    BY IdleType
  <1>4. /\ x.pc = "hosts" /\ x.agent = None /\ x.config = NoConfig
        /\ x.create = FALSE /\ x.on = e /\ x.prev = None /\ x.sync = <<e>>
    BY DEF Idle
  <1>5. x.mcp = ~ envs[e].mcp
    BY Zenon DEF Idle
  <1>6. x \in RequestRecord
    BY <1>1, <1>2, <1>3 DEF RequestRecord, MaybeEnv, Target, Pcs, Syncs
  <1>7. <<e>> # <<>> /\ Len(<<e>>) = 1
    OBVIOUS
  <1>8. Shape(x)
    BY <1>4, <1>7 DEF Shape, Saves, Syncs, Going
  <1>9. request' = [request EXCEPT ![c] = x]
    BY DEF PatchEnv, Arrive, Move
  <1> QED
    BY <1>4, <1>5, <1>6, <1>8, <1>9 DEF Becomes

LEMMA DeleteBecomes ==
  ASSUME CatalogTyped, NEW c \in Client, NEW o \in Target, NEW pc \in Going,
         pc = "envTear" => o \in Env, pc # "envGone", DeleteArrives(c, o, pc)
  PROVE  \E x : /\ Becomes(c, x) /\ x.pc = pc /\ x.agent = None /\ x.config = NoConfig
                /\ x.on = o /\ x.prev = None /\ x.sync = <<>>
  <1> PICK x : x = [Idle EXCEPT !.pc = pc, !.on = o]
    OBVIOUS
  <1>3. Idle \in RequestRecord
    BY IdleType
  <1>4. /\ x.pc = pc /\ x.agent = None /\ x.config = NoConfig
        /\ x.on = o /\ x.prev = None /\ x.sync = <<>>
    BY DEF Idle
  <1>6. x \in RequestRecord
    BY <1>3 DEF RequestRecord, MaybeEnv, Target, Pcs
  <1>7. Len(x.sync) = 0
    BY <1>4
  <1>8. Shape(x)
    BY <1>4, <1>7 DEF Shape, Saves, Syncs, Going
  <1>9. request' = [request EXCEPT ![c] = x]
    BY DEF DeleteArrives, Arrive, Move
  <1> QED
    BY <1>4, <1>6, <1>8, <1>9 DEF Becomes

LEMMA ConnectBecomes ==
  ASSUME CatalogTyped, Shapes, NEW c \in Client,
         request[c].pc = "connect", Move(c, [request[c] EXCEPT !.pc = "lock", !.conn = TRUE])
  PROVE  \E x : /\ Becomes(c, x) /\ x.pc = "lock" /\ Keeps(x, request[c])
                /\ x.mcp = request[c].mcp /\ x.prev = request[c].prev /\ x.sync = request[c].sync
                /\ x.hosts = request[c].hosts
  <1> PICK x : x = [request[c] EXCEPT !.pc = "lock", !.conn = TRUE]
    OBVIOUS
  <1>1. request[c] \in RequestRecord /\ Shape(request[c])
    BY DEF CatalogTyped, Shapes
  <1>2. x \in RequestRecord /\ x.pc = "lock"
    BY <1>1 DEF RequestRecord, MaybeEnv, Target, Pcs, Saves, Syncs, Going
  <1>3. /\ x.agent = request[c].agent /\ x.create = request[c].create
        /\ x.config = request[c].config /\ x.on = request[c].on /\ x.mcp = request[c].mcp
        /\ x.prev = request[c].prev /\ x.version = request[c].version /\ x.sync = request[c].sync
        /\ x.hosts = request[c].hosts
        /\ x.conn = TRUE
    BY <1>1 DEF RequestRecord
  <1>4. Shape(x)
    BY <1>1, <1>2, <1>3 DEF Shape, Saves, Syncs, Going
  <1> QED
    BY <1>2, <1>3, <1>4 DEF Becomes, Move, Keeps

LEMMA RefuseBecomes ==
  ASSUME CatalogTyped, Shapes, NEW c \in Client,
         request[c].pc \in Saves, Move(c, [request[c] EXCEPT !.pc = "release", !.sync = <<>>])
  PROVE  \E x : /\ Becomes(c, x) /\ x.pc = "release" /\ Keeps(x, request[c])
                /\ x.mcp = request[c].mcp /\ x.prev = request[c].prev /\ x.sync = <<>>
                /\ x.hosts = request[c].hosts
  <1> PICK x : x = [request[c] EXCEPT !.pc = "release", !.sync = <<>>]
    OBVIOUS
  <1>1. request[c] \in RequestRecord /\ Shape(request[c])
    BY DEF CatalogTyped, Shapes
  <1>2. <<>> \in Seq(Env) /\ Len(<<>>) = 0
    BY EmptySeq
  <1>3. x \in RequestRecord /\ x.pc = "release"
    BY <1>1, <1>2 DEF RequestRecord, MaybeEnv, Target, Pcs, Saves, Syncs, Going
  <1>4. /\ x.agent = request[c].agent /\ x.create = request[c].create
        /\ x.config = request[c].config /\ x.on = request[c].on /\ x.mcp = request[c].mcp
        /\ x.prev = request[c].prev /\ x.version = request[c].version
        /\ x.hosts = request[c].hosts /\ x.conn = request[c].conn
        /\ x.sync = <<>>
    BY <1>1 DEF RequestRecord
  <1>5. Shape(x)
    BY <1>1, <1>2, <1>3, <1>4 DEF Shape, Saves, Syncs, Going
  <1> QED
    BY <1>3, <1>4, <1>5 DEF Becomes, Move, Keeps

LEMMA InsertAgentBecomes ==
  ASSUME CatalogTyped, Shapes, NEW c \in Client,
         request[c].pc = "agent", Move(c, [request[c] EXCEPT !.pc = "insert", !.version = 1])
  PROVE  \E x : /\ Becomes(c, x) /\ x.pc = "insert" /\ Keeps(x, request[c])
                /\ x.mcp = request[c].mcp /\ x.prev = request[c].prev /\ x.sync = request[c].sync
                /\ x.hosts = request[c].hosts
  <1> PICK x : x = [request[c] EXCEPT !.pc = "insert", !.version = 1]
    OBVIOUS
  <1>1. request[c] \in RequestRecord /\ Shape(request[c])
    BY DEF CatalogTyped, Shapes
  <1>2. x \in RequestRecord /\ x.pc = "insert"
    BY <1>1 DEF RequestRecord, MaybeEnv, Target, Pcs, Saves, Syncs, Going
  <1>3. /\ x.agent = request[c].agent /\ x.create = request[c].create
        /\ x.config = request[c].config /\ x.on = request[c].on /\ x.mcp = request[c].mcp
        /\ x.prev = request[c].prev /\ x.sync = request[c].sync /\ x.hosts = request[c].hosts
        /\ x.conn = request[c].conn
        /\ x.version = 1
    BY <1>1 DEF RequestRecord
  <1>4. Shape(x)
    BY <1>1, <1>2, <1>3 DEF Shape, Saves, Syncs, Going
  <1> QED
    BY <1>2, <1>3, <1>4 DEF Becomes, Move, Keeps

LEMMA ReadPrevBecomes ==
  ASSUME CatalogTyped, Shapes, NEW c \in Client, NEW e \in MaybeEnv,
         request[c].pc = "prev", Move(c, [request[c] EXCEPT !.pc = "number", !.prev = e])
  PROVE  \E x : /\ Becomes(c, x) /\ x.pc = "number" /\ Keeps(x, request[c])
                /\ x.mcp = request[c].mcp /\ x.prev = e /\ x.sync = request[c].sync
                /\ x.hosts = request[c].hosts
  <1> PICK x : x = [request[c] EXCEPT !.pc = "number", !.prev = e]
    OBVIOUS
  <1>1. request[c] \in RequestRecord /\ Shape(request[c])
    BY DEF CatalogTyped, Shapes
  <1>2. x \in RequestRecord /\ x.pc = "number"
    BY <1>1 DEF RequestRecord, MaybeEnv, Target, Pcs, Saves, Syncs, Going
  <1>3. /\ x.agent = request[c].agent /\ x.create = request[c].create
        /\ x.config = request[c].config /\ x.on = request[c].on /\ x.mcp = request[c].mcp
        /\ x.version = request[c].version /\ x.sync = request[c].sync
        /\ x.hosts = request[c].hosts /\ x.conn = request[c].conn
        /\ x.prev = e
    BY <1>1 DEF RequestRecord
  <1>4. Shape(x)
    BY <1>1, <1>2, <1>3 DEF Shape, Saves, Syncs, Going
  <1> QED
    BY <1>2, <1>3, <1>4 DEF Becomes, Move, Keeps

LEMMA NumberBecomes ==
  ASSUME CatalogTyped, Shapes, NEW c \in Client, NEW n \in Nat, ~ request[c].create,
         request[c].pc = "number", Move(c, [request[c] EXCEPT !.pc = "insert", !.version = n])
  PROVE  \E x : /\ Becomes(c, x) /\ x.pc = "insert" /\ Keeps(x, request[c])
                /\ x.mcp = request[c].mcp /\ x.prev = request[c].prev /\ x.sync = request[c].sync
                /\ x.hosts = request[c].hosts
  <1> PICK x : x = [request[c] EXCEPT !.pc = "insert", !.version = n]
    OBVIOUS
  <1>1. request[c] \in RequestRecord /\ Shape(request[c])
    BY DEF CatalogTyped, Shapes
  <1>2. x \in RequestRecord /\ x.pc = "insert"
    BY <1>1 DEF RequestRecord, MaybeEnv, Target, Pcs, Saves, Syncs, Going
  <1>3. /\ x.agent = request[c].agent /\ x.create = request[c].create
        /\ x.config = request[c].config /\ x.on = request[c].on /\ x.mcp = request[c].mcp
        /\ x.prev = request[c].prev /\ x.sync = request[c].sync /\ x.hosts = request[c].hosts
        /\ x.conn = request[c].conn
        /\ x.version = n
    BY <1>1 DEF RequestRecord
  <1>4. Shape(x)
    BY <1>1, <1>2, <1>3 DEF Shape, Saves, Syncs, Going
  <1> QED
    BY <1>2, <1>3, <1>4 DEF Becomes, Move, Keeps

LEMMA InsertBecomes ==
  ASSUME CatalogTyped, Shapes, NEW c \in Client, NEW q \in Seq(Env),
         Len(q) <= 2, q # <<>> => Head(q) = request[c].config.env,
         request[c].pc = "insert", Move(c, [request[c] EXCEPT !.pc = "release", !.sync = q])
  PROVE  \E x : /\ Becomes(c, x) /\ x.pc = "release" /\ Keeps(x, request[c])
                /\ x.mcp = request[c].mcp /\ x.prev = request[c].prev /\ x.sync = q
                /\ x.hosts = request[c].hosts
  <1> PICK x : x = [request[c] EXCEPT !.pc = "release", !.sync = q]
    OBVIOUS
  <1>1. request[c] \in RequestRecord /\ Shape(request[c])
    BY DEF CatalogTyped, Shapes
  <1>2. x \in RequestRecord /\ x.pc = "release"
    BY <1>1 DEF RequestRecord, MaybeEnv, Target, Pcs, Saves, Syncs, Going
  <1>3. /\ x.agent = request[c].agent /\ x.create = request[c].create
        /\ x.config = request[c].config /\ x.on = request[c].on /\ x.mcp = request[c].mcp
        /\ x.prev = request[c].prev /\ x.version = request[c].version
        /\ x.hosts = request[c].hosts /\ x.conn = request[c].conn
        /\ x.sync = q
    BY <1>1 DEF RequestRecord
  <1>4. Shape(x)
    BY <1>1, <1>2, <1>3 DEF Shape, Saves, Syncs, Going
  <1> QED
    BY <1>2, <1>3, <1>4 DEF Becomes, Move, Keeps

LEMMA SyncBecomes ==
  ASSUME CatalogTyped, Shapes, NEW c \in Client, request[c].sync # <<>>,
         request[c].pc = "release", Move(c, [request[c] EXCEPT !.pc = "hosts", !.conn = FALSE])
  PROVE  \E x : /\ Becomes(c, x) /\ x.pc = "hosts" /\ Keeps(x, request[c])
                /\ x.mcp = request[c].mcp /\ x.prev = request[c].prev /\ x.sync = request[c].sync
                /\ x.hosts = request[c].hosts
  <1> PICK x : x = [request[c] EXCEPT !.pc = "hosts", !.conn = FALSE]
    OBVIOUS
  <1>1. request[c] \in RequestRecord /\ Shape(request[c])
    BY DEF CatalogTyped, Shapes
  <1>2. x \in RequestRecord /\ x.pc = "hosts"
    BY <1>1 DEF RequestRecord, MaybeEnv, Target, Pcs, Saves, Syncs, Going
  <1>3. /\ x.agent = request[c].agent /\ x.create = request[c].create
        /\ x.config = request[c].config /\ x.on = request[c].on /\ x.mcp = request[c].mcp
        /\ x.prev = request[c].prev /\ x.version = request[c].version /\ x.sync = request[c].sync
        /\ x.hosts = request[c].hosts
        /\ x.conn = FALSE
    BY <1>1 DEF RequestRecord
  <1>4. Shape(x)
    BY <1>1, <1>2, <1>3 DEF Shape, Saves, Syncs, Going
  <1> QED
    BY <1>2, <1>3, <1>4 DEF Becomes, Move, Keeps

LEMMA HostsBecomes ==
  ASSUME CatalogTyped, Shapes, NEW c \in Client, NEW H \in SUBSET Agent,
         request[c].pc = "hosts", Move(c, [request[c] EXCEPT !.pc = "ensure", !.hosts = H])
  PROVE  \E x : /\ Becomes(c, x) /\ x.pc = "ensure" /\ Keeps(x, request[c])
                /\ x.mcp = request[c].mcp /\ x.prev = request[c].prev /\ x.sync = request[c].sync
                /\ x.hosts = H
  <1> PICK x : x = [request[c] EXCEPT !.pc = "ensure", !.hosts = H]
    OBVIOUS
  <1>1. request[c] \in RequestRecord /\ Shape(request[c])
    BY DEF CatalogTyped, Shapes
  <1>2. x \in RequestRecord /\ x.pc = "ensure"
    BY <1>1 DEF RequestRecord, MaybeEnv, Target, Pcs, Saves, Syncs, Going
  <1>3. /\ x.agent = request[c].agent /\ x.create = request[c].create
        /\ x.config = request[c].config /\ x.on = request[c].on /\ x.mcp = request[c].mcp
        /\ x.prev = request[c].prev /\ x.version = request[c].version /\ x.sync = request[c].sync
        /\ x.conn = request[c].conn
        /\ x.hosts = H
    BY <1>1 DEF RequestRecord
  <1>4. Shape(x)
    BY <1>1, <1>2, <1>3 DEF Shape, Saves, Syncs, Going
  <1> QED
    BY <1>2, <1>3, <1>4 DEF Becomes, Move, Keeps

LEMMA NextEnvBecomes ==
  ASSUME CatalogTyped, Shapes, NEW c \in Client, Len(request[c].sync) # 1,
         request[c].pc = "ensure", Move(c, [request[c] EXCEPT !.pc = "prevEnv", !.sync = Tail(request[c].sync), !.hosts = {}])
  PROVE  \E x : /\ Becomes(c, x) /\ x.pc = "prevEnv" /\ Keeps(x, request[c])
                /\ x.mcp = request[c].mcp /\ x.prev = request[c].prev
                /\ x.sync = Tail(request[c].sync) /\ x.hosts = {}
  <1> PICK x : x = [request[c] EXCEPT !.pc = "prevEnv", !.sync = Tail(request[c].sync), !.hosts = {}]
    OBVIOUS
  <1>1. request[c] \in RequestRecord /\ Shape(request[c])
    BY DEF CatalogTyped, Shapes
  <1>2. PICK q : q = request[c].sync
    OBVIOUS
  <1>3. q \in Seq(Env) /\ q # <<>> /\ Len(q) <= 2 /\ Len(q) # 1
    BY <1>1, <1>2 DEF RequestRecord, Shape, Syncs
  <1>4. PICK t : t = Tail(q)
    OBVIOUS
  <1>5. t \in Seq(Env) /\ Len(t) = Len(q) - 1 /\ Len(q) \in Nat \ {0}
    BY <1>3, <1>4, QueueParts
  <1>6. Len(q) = 2
    BY <1>3, <1>5
  <1>7. Len(t) = 1 /\ t # <<>>
    BY <1>5, <1>6, NoQueue
  <1>8. x \in RequestRecord /\ x.pc = "prevEnv"
    BY <1>1, <1>2, <1>3, <1>4, <1>5, <1>6, <1>7 DEF RequestRecord, MaybeEnv, Target, Pcs, Saves, Syncs,
       Going
  <1>9. /\ x.agent = request[c].agent /\ x.create = request[c].create
        /\ x.config = request[c].config /\ x.on = request[c].on /\ x.mcp = request[c].mcp
        /\ x.prev = request[c].prev /\ x.version = request[c].version /\ x.conn = request[c].conn
        /\ x.sync = Tail(request[c].sync)
        /\ x.hosts = {}
    BY <1>1 DEF RequestRecord
  <1>10. Shape(x)
    BY <1>1, <1>2, <1>3, <1>4, <1>5, <1>6, <1>7, <1>8, <1>9 DEF Shape, Saves, Syncs, Going
  <1> QED
    BY <1>8, <1>9, <1>10 DEF Becomes, Move, Keeps

LEMMA PrevEnvBecomes ==
  ASSUME CatalogTyped, Shapes, NEW c \in Client, NEW m \in BOOLEAN,
         request[c].pc = "prevEnv", Move(c, [request[c] EXCEPT !.pc = "hosts", !.mcp = m])
  PROVE  \E x : /\ Becomes(c, x) /\ x.pc = "hosts" /\ Keeps(x, request[c]) /\ x.mcp = m
                /\ x.prev = request[c].prev /\ x.sync = request[c].sync
                /\ x.hosts = request[c].hosts
  <1> PICK x : x = [request[c] EXCEPT !.pc = "hosts", !.mcp = m]
    OBVIOUS
  <1>1. request[c] \in RequestRecord /\ Shape(request[c])
    BY DEF CatalogTyped, Shapes
  <1>2. x \in RequestRecord /\ x.pc = "hosts"
    BY <1>1 DEF RequestRecord, MaybeEnv, Target, Pcs, Saves, Syncs, Going
  <1>3. /\ x.agent = request[c].agent /\ x.create = request[c].create
        /\ x.config = request[c].config /\ x.on = request[c].on /\ x.prev = request[c].prev
        /\ x.version = request[c].version /\ x.sync = request[c].sync
        /\ x.hosts = request[c].hosts /\ x.conn = request[c].conn
        /\ x.mcp = m
    BY <1>1 DEF RequestRecord
  <1>4. Shape(x)
    BY <1>1, <1>2, <1>3 DEF Shape, Saves, Syncs, Going
  <1> QED
    BY <1>2, <1>3, <1>4 DEF Becomes, Move, Keeps

LEMMA EnvTearBecomes ==
  ASSUME CatalogTyped, Shapes, NEW c \in Client,
         request[c].pc = "envTear", Move(c, [request[c] EXCEPT !.pc = "envGone"])
  PROVE  \E x : /\ Becomes(c, x) /\ x.pc = "envGone" /\ Keeps(x, request[c])
                /\ x.mcp = request[c].mcp /\ x.prev = request[c].prev /\ x.sync = request[c].sync
                /\ x.hosts = request[c].hosts
  <1> PICK x : x = [request[c] EXCEPT !.pc = "envGone"]
    OBVIOUS
  <1>1. request[c] \in RequestRecord /\ Shape(request[c])
    BY DEF CatalogTyped, Shapes
  <1>2. x \in RequestRecord /\ x.pc = "envGone"
    BY <1>1 DEF RequestRecord, MaybeEnv, Target, Pcs, Saves, Syncs, Going
  <1>3. /\ x.agent = request[c].agent /\ x.create = request[c].create
        /\ x.config = request[c].config /\ x.on = request[c].on /\ x.mcp = request[c].mcp
        /\ x.prev = request[c].prev /\ x.version = request[c].version /\ x.sync = request[c].sync
        /\ x.hosts = request[c].hosts /\ x.conn = request[c].conn
    BY <1>1 DEF RequestRecord
  <1>4. Shape(x)
    BY <1>1, <1>2, <1>3 DEF Shape, Saves, Syncs, Going
  <1> QED
    BY <1>2, <1>3, <1>4 DEF Becomes, Move, Keeps

-------------------------------------------------------------------------------
(* An agent has versions only while it is there; one that is being created *)
(* is still to come, and nobody else's request is about it.                 *)
Creating ==
  /\ \A a \in Agent : agents[a] # "live" => versions[a] = <<>>
  /\ \A c \in Client : request[c].pc \in Early /\ request[c].create =>
       /\ agents[request[c].agent] = "new"
       /\ \A d \in Client \ {c} : request[d].agent # request[c].agent

(* A save that has passed the locks holds those of the wikis it writes, and *)
(* one that has passed the check found no other writer of them.             *)
KeepsLocks(r, c) == r.pc \in Checked \cup {"refs"} => \A w \in r.config.writes : lock[w] = c
NoOther(r) == r.pc \in Checked => \A w \in r.config.writes : ~ WriterOtherThan(w, r.agent)
Unique == \A a, b \in Current : \A w \in Latest(a).writes \cap Latest(b).writes : a = b
Writers ==
  /\ \A c \in Client : KeepsLocks(request[c], c) /\ NoOther(request[c])
  /\ Unique

(* What a proxy is to let through, and what it may.                         *)
Due(e) == IF envs[e].mcp THEN HostsOf(e) ELSE {}
Gone == {a \in Agent : agents[a] = "gone"}
Follows(s, e) == Due(e) \subseteq s /\ s \subseteq Due(e) \cup Gone

(* What a request knows of an environment that no other request is about.   *)
Knows(r, e) ==
  /\ e \in {r.config.env, r.prev} \cup ToSet(r.sync) => envs[e].row
  /\ r.pc \in {"envTear", "envGone"} /\ r.on = e => \A a \in Current : Latest(a).env # e
  /\ r.pc \in Saves \cup {"release"} /\ r.config.env = e => r.mcp = envs[e].mcp
  /\ r.pc \in {"hosts", "ensure"} /\ Head(r.sync) = e => r.mcp = envs[e].mcp
  /\ r.pc \in {"number", "insert"} /\ ~ r.create /\ r.agent \in Current
       /\ Latest(r.agent).env = e => r.prev = e
  /\ r.pc = "ensure" /\ Head(r.sync) = e => Follows(r.hosts, e)
Bound(e) == \A a \in Current : Latest(a).env = e => envs[e].row
UpToDate(e) == Follows(proxy[e], e) \/ \E c \in Client : e \in ToSet(request[c].sync)
Alone(e) == \A c, d \in Client : e \in Syncing(c) /\ e \in Syncing(d) => c = d
Proxies ==
  \A e \in Env \ mixed : Alone(e) /\ Bound(e) /\ UpToDate(e) /\ \A c \in Client : Knows(request[c], e)

(* The inductive invariant.                                                 *)
CatalogInv == CatalogTyped /\ Shapes /\ Creating /\ Writers /\ Proxies

-------------------------------------------------------------------------------
(* Two members make a cardinality above one.                                *)
LEMMA TwoAreMany ==
  ASSUME NEW S \in SUBSET Client, NEW c \in S, NEW d \in S, c # d
  PROVE  Cardinality(S) > 1
  <1>1. IsFiniteSet(S) /\ IsFiniteSet({c})
    BY AgentCatalogAssumption, FS_Subset, FS_Singleton
  <1>2. Cardinality({c}) = 1 /\ {c} \in SUBSET S
    BY FS_Singleton
  <1>3. Cardinality({c}) <= Cardinality(S) /\ (Cardinality({c}) = Cardinality(S) => S = {c})
    BY <1>1, <1>2, FS_Subset
  <1>4. Cardinality(S) \in Nat
    BY <1>1, FS_CardinalityType
  <1>5. S # {c}
    OBVIOUS
  <1> QED
    BY <1>2, <1>3, <1>4, <1>5

(* An environment that is not recorded as mixed is nobody else's.           *)
LEMMA FollowAlone ==
  ASSUME Follow, NEW e \in Env \ mixed'
  PROVE  Alone(e)' /\ e \notin mixed
  <1>1. e \notin Mixing' /\ e \notin mixed
    BY DEF Follow
  <1>2. ASSUME NEW c \in Client, NEW d \in Client, e \in Syncing(c)', e \in Syncing(d)'
        PROVE  c = d
    <2>1. SUFFICES ASSUME c # d PROVE FALSE
      OBVIOUS
    <2> DEFINE S == {b \in Client : e \in Syncing(b)'}
    <2>2. S \in SUBSET Client /\ c \in S /\ d \in S
      BY <1>2
    <2>3. Cardinality(S) > 1
      BY <2>1, <2>2, TwoAreMany
    <2>4. e \in Mixing'
      BY <2>3 DEF Mixing
    <2> QED
      BY <2>4, <1>1
  <1> QED
    BY <1>1, <1>2 DEF Alone

LEMMA BecomesRequest ==
  ASSUME CatalogTyped, Shapes, NEW c \in Client, NEW x, Becomes(c, x)
  PROVE  /\ request' \in [Client -> RequestRecord] /\ Shapes' /\ request'[c] = x
         /\ \A d \in Client \ {c} : request'[d] = request[d]
  <1>1. request \in [Client -> RequestRecord]
    BY DEF CatalogTyped
  <1>2. request' \in [Client -> RequestRecord] /\ request'[c] = x
        /\ \A d \in Client \ {c} : request'[d] = request[d]
    BY <1>1 DEF Becomes
  <1>3. ASSUME NEW d \in Client PROVE Shape(request'[d])
    BY <1>2 DEF Becomes, Shapes
  <1>4. ASSUME NEW d \in Client PROVE Shape(request[d])'
    BY <1>3 DEF Shape, Idle
  <1> QED
    BY <1>2, <1>4 DEF Shapes

(* A step that only moves one request on.                                   *)
Quiet == UNCHANGED <<agents, versions, envs, proxy>>
LockStep(c) ==
  /\ lock' \in [Wiki -> Client \cup {None}]
  /\ \A w \in Wiki : \A d \in Client \ {c} : lock[w] = d => lock'[w] = d
MayCreate(x, c) ==
  /\ x.pc \in Early /\ x.create =>
       /\ agents[x.agent] = "new"
       /\ \A d \in Client \ {c} : request[d].agent # x.agent
  /\ \A d \in Client \ {c} : request[d].pc \in Early /\ request[d].create => request[d].agent # x.agent
MayWrite(x, c) ==
  /\ x.pc \in Checked \cup {"refs"} => \A w \in x.config.writes : lock'[w] = c
  /\ NoOther(x)
MaySync(x, c) ==
  \A e \in Env \ mixed' :
    /\ Knows(x, e)
    /\ e \in ToSet(request[c].sync) /\ e \notin ToSet(x.sync) => Follows(proxy[e], e)
MayRefresh(x, c) ==
  \A e \in Env \ mixed' :
    /\ Knows(x, e)
    /\ Follows(proxy[e], e) => Follows(proxy'[e], e)
    /\ e \in ToSet(request[c].sync) /\ e \notin ToSet(x.sync) => Follows(proxy'[e], e)

(* What the invariant says of the agents, seen from the saves: the same.     *)
SameAgents == Current' = Current /\ versions' = versions
SameView == SameAgents /\ Gone' = Gone /\ envs' = envs

LEMMA QuietView ==
  ASSUME agents' = agents, versions' = versions
  PROVE  SameAgents /\ Gone' = Gone
  <1>1. agents' = agents /\ versions' = versions
    OBVIOUS
  <1>2. Live' = Live /\ Gone' = Gone
    BY <1>1 DEF Live, Gone
  <1>3. Current' = Current
    BY <1>1, <1>2 DEF Current
  <1> QED
    BY <1>1, <1>2, <1>3 DEF SameAgents

LEMMA ViewWrites ==
  ASSUME SameAgents, NEW r
  PROVE  (NoOther(r)' <=> NoOther(r)) /\ (Unique' <=> Unique)
  <1>1. \A a : Latest(a)' = Latest(a)
    BY DEF Latest, SameAgents
  <1> QED
    BY <1>1 DEF NoOther, WriterOtherThan, Unique, SameAgents

LEMMA ViewKnows ==
  ASSUME SameView, NEW r, NEW e
  PROVE  /\ (Knows(r, e)' <=> Knows(r, e)) /\ (Bound(e)' <=> Bound(e))
         /\ \A q : Follows(q, e)' <=> Follows(q, e)
  <1>1. versions' = versions /\ envs' = envs /\ Current' = Current /\ Gone' = Gone
    BY DEF SameView, SameAgents
  <1>2. \A a : Latest(a)' = Latest(a)
    BY <1>1 DEF Latest
  <1>3. \A f : HostsOf(f)' = HostsOf(f)
    BY <1>1, <1>2 DEF HostsOf
  <1>4. \A f : Due(f)' = Due(f)
    BY <1>1, <1>3 DEF Due
  <1>5. \A q, f : Follows(q, f)' <=> Follows(q, f)
    BY <1>1, <1>4 DEF Follows
  <1>6. Knows(r, e)' <=> Knows(r, e)
    BY <1>1, <1>2, <1>5 DEF Knows
  <1>7. Bound(e)' <=> Bound(e)
    BY <1>1, <1>2 DEF Bound
  <1> QED
    BY <1>5, <1>6, <1>7

(* A step that changes no version keeps Writers and Proxies when the record *)
(* of its request may be what it becomes.                                   *)
LEMMA WritersKept ==
  ASSUME CatalogInv, NEW c \in Client, NEW x, Becomes(c, x), SameAgents, LockStep(c), MayWrite(x, c)
  PROVE  Writers'
  <1>0. /\ request' \in [Client -> RequestRecord] /\ Shapes' /\ request'[c] = x
        /\ \A d \in Client \ {c} : request'[d] = request[d]
    BY BecomesRequest DEF CatalogInv
  <1>1. ASSUME NEW d \in Client PROVE KeepsLocks(request[d], d)'
    <2>1. CASE d = c
      BY <1>0, <2>1 DEF KeepsLocks, MayWrite
    <2>2. CASE d # c
      <3>1. request'[d] = request[d] /\ KeepsLocks(request[d], d)
        BY <1>0, <2>2 DEF CatalogInv, Writers
      <3>2. ASSUME request[d].pc \in Checked \cup {"refs"}, NEW w \in request[d].config.writes
            PROVE  lock'[w] = d
        <4>1. request[d].config \in Config
          BY <3>2 DEF CatalogInv, Shapes, Shape, Checked, Saves
        <4> QED
          BY <3>1, <3>2, <4>1, <2>2, ConfigType DEF KeepsLocks, LockStep
      <3> QED
        BY <3>1, <3>2 DEF KeepsLocks
    <2> QED
      BY <2>1, <2>2
  <1>2. ASSUME NEW d \in Client PROVE NoOther(request[d])'
    <2>1. PICK r : r = request'[d]
      OBVIOUS
    <2>2. NoOther(r)
      BY <1>0, <2>1 DEF CatalogInv, Writers, MayWrite
    <2>3. NoOther(r)'
      BY <2>2, ViewWrites
    <2> QED
      BY <2>1, <2>3 DEF NoOther, WriterOtherThan
  <1>3. Unique'
    BY ViewWrites DEF CatalogInv, Writers
  <1> QED
    BY <1>1, <1>2, <1>3 DEF Writers

LEMMA ProxiesKept ==
  ASSUME CatalogInv, Follow, NEW c \in Client, NEW x, Becomes(c, x), SameView, MayRefresh(x, c)
  PROVE  Proxies'
  <1>0. /\ request' \in [Client -> RequestRecord] /\ Shapes' /\ request'[c] = x
        /\ \A d \in Client \ {c} : request'[d] = request[d]
    BY BecomesRequest DEF CatalogInv
  <1> SUFFICES ASSUME NEW e \in Env \ mixed'
      PROVE  Alone(e)' /\ Bound(e)' /\ UpToDate(e)' /\ \A d \in Client : Knows(request[d], e)'
    BY DEF Proxies
  <1>1. Alone(e)' /\ e \notin mixed
    BY FollowAlone
  <1>2. Bound(e) /\ UpToDate(e) /\ \A d \in Client : Knows(request[d], e)
    BY <1>1 DEF CatalogInv, Proxies
  <1>3. Bound(e)'
    BY <1>2, ViewKnows
  <1>4. UpToDate(e)'
    <2>1. CASE Follows(proxy'[e], e)
      <3>1. PICK q : q = proxy'[e]
        OBVIOUS
      <3>2. Follows(q, e)'
        BY <2>1, <3>1, ViewKnows
      <3> QED
        BY <3>1, <3>2 DEF UpToDate, Follows
    <2>2. CASE ~ Follows(proxy'[e], e)
      <3>1. PICK d \in Client : e \in ToSet(request[d].sync)
        BY <1>2, <2>2 DEF UpToDate, MayRefresh
      <3>2. e \in ToSet(request'[d].sync)
        BY <1>0, <3>1, <2>2 DEF MayRefresh
      <3> QED
        BY <3>2 DEF UpToDate
    <2> QED
      BY <2>1, <2>2
  <1>5. ASSUME NEW d \in Client PROVE Knows(request[d], e)'
    <2>1. PICK r : r = request'[d]
      OBVIOUS
    <2>2. Knows(r, e)
      BY <1>0, <1>2, <2>1 DEF MayRefresh
    <2>3. Knows(r, e)'
      BY <2>2, ViewKnows
    <2> QED
      BY <2>1, <2>3 DEF Knows, Follows
  <1> QED
    BY <1>1, <1>3, <1>4, <1>5

LEMMA CreatingKept ==
  ASSUME CatalogInv, NEW c \in Client, NEW x, Becomes(c, x), agents' = agents, versions' = versions,
         MayCreate(x, c)
  PROVE  Creating'
  <1>1. /\ request' \in [Client -> RequestRecord] /\ Shapes' /\ request'[c] = x
        /\ \A d \in Client \ {c} : request'[d] = request[d]
    BY BecomesRequest DEF CatalogInv
  <1>2. ASSUME NEW a \in Agent, agents'[a] # "live" PROVE versions'[a] = <<>>
    BY <1>2 DEF CatalogInv, Creating
  <1>3. ASSUME NEW d \in Client, request'[d].pc \in Early, request'[d].create
        PROVE  agents'[request'[d].agent] = "new"
    BY <1>1, <1>3 DEF CatalogInv, Creating, MayCreate
  <1>4. ASSUME NEW d \in Client, request'[d].pc \in Early, request'[d].create, NEW b \in Client \ {d}
        PROVE  request'[b].agent # request'[d].agent
    <2>1. CASE d = c
      BY <1>1, <1>4, <2>1 DEF MayCreate
    <2>2. CASE d # c /\ b = c
      BY <1>1, <1>4, <2>2 DEF MayCreate
    <2>3. CASE d # c /\ b # c
      BY <1>1, <1>4, <2>3 DEF CatalogInv, Creating
    <2> QED
      BY <2>1, <2>2, <2>3
  <1> QED
    BY <1>2, <1>3, <1>4 DEF Creating

(* A step that moves one request on and may restart a proxy.                *)
LEMMA ProxyStep ==
  ASSUME CatalogInv, Follow, NEW c \in Client, NEW x, Becomes(c, x), LockStep(c),
         agents' = agents, versions' = versions, envs' = envs, proxy' \in [Env -> SUBSET Agent],
         MayCreate(x, c), MayWrite(x, c), MayRefresh(x, c)
  PROVE  CatalogInv'
  <1>1. request' \in [Client -> RequestRecord] /\ Shapes'
    BY BecomesRequest DEF CatalogInv
  <1>2. CatalogTyped'
    BY <1>1 DEF CatalogInv, CatalogTyped, LockStep
  <1>3. Creating'
    BY CreatingKept
  <1>4. SameView /\ SameAgents
    BY QuietView DEF SameView
  <1>5. Writers'
    BY <1>4, WritersKept
  <1>6. Proxies'
    BY <1>4, ProxiesKept
  <1> QED
    BY <1>1, <1>2, <1>3, <1>5, <1>6 DEF CatalogInv

LEMMA QuietStep ==
  ASSUME CatalogInv, Follow, NEW c \in Client, NEW x, Becomes(c, x), Quiet, LockStep(c),
         MayCreate(x, c), MayWrite(x, c), MaySync(x, c)
  PROVE  CatalogInv'
  <1>1. agents' = agents /\ versions' = versions /\ envs' = envs /\ proxy' = proxy
    BY DEF Quiet
  <1>2. proxy' \in [Env -> SUBSET Agent]
    BY <1>1 DEF CatalogInv, CatalogTyped
  <1>3. MayRefresh(x, c)
    BY <1>1 DEF MaySync, MayRefresh
  <1> QED
    BY <1>1, <1>2, <1>3, ProxyStep

LEMMA LockSame ==
  ASSUME CatalogTyped, NEW c \in Client, lock' = lock \/ lock' = Unlocked(c)
  PROVE  LockStep(c)
  BY DEF CatalogTyped, LockStep, Unlocked

LEMMA AgentsOf ==
  ASSUME CatalogInv, NEW d \in Client, request[d].pc \in Saves
  PROVE  request[d].agent \in Agent /\ request[d].agent # None /\ request[d].config \in Config
  BY AgentCatalogAssumption DEF CatalogInv, Shapes, Shape

(* A request that asks nothing of an environment knows all there is to know.*)
LEMMA BlankKnows ==
  ASSUME NEW x, NEW e \in Env, x.config = NoConfig, x.prev = None, ToSet(x.sync) = {},
         x.pc \notin Saves, x.pc \notin Syncs, x.pc \notin {"envTear", "envGone"}
  PROVE  Knows(x, e)
  <1>1. x.config.env = None /\ None # e
    BY AgentCatalogAssumption, IdleFields
  <1> QED
    BY <1>1 DEF Knows, Syncs, Saves

LEMMA BlankMay ==
  ASSUME CatalogInv, NEW c \in Client, NEW x, x.agent = None, x.pc \notin Saves
  PROVE  MayCreate(x, c) /\ MayWrite(x, c)
  <1>1. x.pc \notin Early /\ x.pc \notin Checked \cup {"refs"}
    BY DEF Early, Checked, Saves
  <1>2. ASSUME NEW d \in Client, request[d].pc \in Early PROVE request[d].agent # x.agent
    BY <1>2, AgentsOf DEF Early, Saves
  <1> QED
    BY <1>1, <1>2 DEF MayCreate, MayWrite, NoOther

LEMMA FinishStep ==
  ASSUME CatalogInv, Follow, NEW c \in Client, Finish(c), Quiet, LockStep(c),
         \A e \in Env \ mixed' : e \in ToSet(request[c].sync) => Follows(proxy[e], e)
  PROVE  CatalogInv'
  <1>1. Becomes(c, Idle)
    BY FinishBecomes
  <1>2. Idle.agent = None /\ Idle.pc \notin Saves /\ Idle.pc \notin Syncs /\ ToSet(Idle.sync) = {}
        /\ Idle.config = NoConfig /\ Idle.prev = None /\ Idle.pc \notin {"envTear", "envGone"}
    BY IdleFields, NoQueue DEF Saves, Syncs
  <1>3. MaySync(Idle, c)
    BY <1>2, BlankKnows DEF MaySync
  <1>4. MayCreate(Idle, c) /\ MayWrite(Idle, c)
    BY <1>2, BlankMay
  <1> QED
    BY <1>1, <1>3, <1>4, QuietStep

(* A save that goes on, and knows no more than it did.                      *)
LEMMA SaveGoesOn ==
  ASSUME CatalogInv, Follow, NEW c \in Client, NEW x, Becomes(c, x), Keeps(x, request[c]),
         x.sync = <<>>, x.prev = request[c].prev, x.mcp = request[c].mcp,
         request[c].pc \in Saves, x.pc \in Saves \cup {"release"},
         Quiet, LockStep(c), MayWrite(x, c), x.pc \in Early => request[c].pc \in Early,
         x.pc \in {"number", "insert"} => request[c].pc \in {"number", "insert"}
  PROVE  CatalogInv'
  <1>1. Shape(request[c]) /\ request[c].sync = <<>>
    BY DEF CatalogInv, Shapes, Shape
  <1>2. MayCreate(x, c)
    BY DEF CatalogInv, Creating, MayCreate, Keeps
  <1>3. ASSUME NEW e \in Env \ mixed'
        PROVE  Knows(x, e) /\ ~ e \in ToSet(request[c].sync)
    <2>1. e \notin mixed
      BY FollowAlone
    <2>2. Knows(request[c], e)
      BY <2>1 DEF CatalogInv, Proxies
    <2>3. x.pc \notin Syncs /\ x.pc \notin {"envTear", "envGone"} /\ ToSet(x.sync) = {}
      BY NoQueue DEF Saves, Syncs
    <2> QED
      BY <1>1, <2>2, <2>3, NoQueue DEF Knows, Keeps, Syncs, Saves
  <1>4. MaySync(x, c)
    BY <1>3 DEF MaySync
  <1> QED
    BY <1>2, <1>4, QuietStep

LEMMA SaveStep ==
  ASSUME CatalogInv, Follow, NEW c \in Client, NEW a \in Agent, NEW g \in Config, Save(c, a, g),
         agents[a] = "live" \/ (agents[a] = "new" /\ \A d \in Client : request[d].agent # a)
  PROVE  CatalogInv'
  <1>0. CatalogTyped /\ Shapes
    BY DEF CatalogInv
  <1>1. PICK x : /\ Becomes(c, x) /\ x.pc = "skills" /\ x.agent = a /\ x.config = g
                 /\ x.create = (agents[a] = "new") /\ x.on = None /\ x.prev = None /\ x.sync = <<>>
                 /\ x.mcp = envs[g.env].mcp
    BY <1>0, SaveBecomes
  <1>2. Quiet /\ lock' = lock /\ envs[g.env].row
    BY DEF Save, Rows, Quiet
  <1>3. LockStep(c)
    BY <1>0, <1>2, LockSame
  <1>4. request[c] = Idle
    BY <1>0 DEF Save, Arrive, Shapes, Shape
  <1>5. MayCreate(x, c)
    <2>1. ASSUME NEW d \in Client, request[d].pc \in Early, request[d].create
          PROVE  request[d].agent # a
      <3>1. agents[request[d].agent] = "new"
        BY <2>1 DEF CatalogInv, Creating
      <3> QED
        BY <3>1
    <2> QED
      BY <1>1, <2>1 DEF MayCreate
  <1>6. MayWrite(x, c)
    BY <1>1 DEF MayWrite, NoOther, Checked
  <1>7. ASSUME NEW e \in Env \ mixed' PROVE Knows(x, e) /\ ~ e \in ToSet(request[c].sync)
    <2>1. ToSet(x.sync) = {} /\ ToSet(request[c].sync) = {} /\ None # e
      BY <1>1, <1>4, NoQueue, IdleFields, AgentCatalogAssumption
    <2> QED
      BY <1>1, <1>2, <2>1 DEF Knows
  <1>8. MaySync(x, c)
    BY <1>7 DEF MaySync
  <1> QED
    BY <1>1, <1>2, <1>3, <1>5, <1>6, <1>8, QuietStep

LEMMA CheckSkillsStep ==
  ASSUME CatalogInv, Follow, NEW c \in Client, CheckSkills(c)
  PROVE  CatalogInv'
  <1>0. CatalogTyped /\ Shapes /\ request[c].pc \in Saves /\ request[c].pc = "skills"
    BY DEF CatalogInv, CheckSkills, Saves
  <1>1. Quiet /\ LockStep(c) /\ lock' = lock
    BY <1>0, LockSame DEF CheckSkills, Rows, Quiet
  <1>2. request[c].sync = <<>>
    BY <1>0 DEF Shapes, Shape
  <1>3. CASE Finish(c)
    BY <1>1, <1>2, <1>3, FinishStep, NoQueue
  <1>4. CASE \E pc \in {"refs", "connect"} :
               Goto(c, pc) /\ (pc = "refs" => request[c].config.writes = {})
    <2>1. PICK pc \in {"refs", "connect"} :
               Goto(c, pc) /\ (pc = "refs" => request[c].config.writes = {})
      BY <1>4
    <2>2. PICK x : /\ Becomes(c, x) /\ Keeps(x, request[c]) /\ x.pc = pc
                   /\ x.sync = <<>> /\ x.prev = request[c].prev /\ x.mcp = request[c].mcp
      BY <1>0, <2>1, GotoBecomes DEF Saves
    <2>3. MayWrite(x, c)
      BY <2>1, <2>2 DEF MayWrite, NoOther, Checked, Keeps
    <2> QED
      BY <1>0, <1>1, <2>2, <2>3, SaveGoesOn DEF Saves, Early
  <1> QED
    BY <1>3, <1>4 DEF CheckSkills

LEMMA ConnectStep ==
  ASSUME CatalogInv, Follow, NEW c \in Client, Connect(c)
  PROVE  CatalogInv'
  <1>0. CatalogTyped /\ Shapes /\ request[c].pc = "connect" /\ request[c].pc \in Saves
    BY DEF CatalogInv, Connect, Saves
  <1>1. Quiet /\ LockStep(c) /\ lock' = lock
    BY <1>0, LockSame DEF Connect, Rows, Quiet
  <1>2. request[c].sync = <<>>
    BY <1>0 DEF Shapes, Shape
  <1>3. PICK x : Becomes(c, x) /\ x.pc = "lock" /\ Keeps(x, request[c]) /\ x.mcp = request[c].mcp
                 /\ x.prev = request[c].prev /\ x.sync = request[c].sync
    BY <1>0, ConnectBecomes DEF Connect
  <1>4. MayWrite(x, c)
    BY <1>3 DEF MayWrite, NoOther, Checked
  <1> QED
    BY <1>0, <1>1, <1>2, <1>3, <1>4, SaveGoesOn DEF Saves, Early

LEMMA LockActionStep ==
  ASSUME CatalogInv, Follow, NEW c \in Client, Lock(c)
  PROVE  CatalogInv'
  <1>0. CatalogTyped /\ Shapes /\ request[c].pc = "lock" /\ request[c].pc \in Saves
    BY DEF CatalogInv, Lock, Saves
  <1> DEFINE W == Wanted(c)
  <1>1. request[c].config \in Config /\ request[c].config.writes \subseteq Wiki
        /\ IsFiniteSet(request[c].config.writes)
    BY <1>0, AgentsOf, ConfigType
  <1>2. W \subseteq request[c].config.writes /\ IsFiniteSet(W)
    <2>1. W \in SUBSET request[c].config.writes
      BY DEF Wanted
    <2> QED
      BY <1>1, <2>1, FS_Subset
  <1>3. PICK v : v = NextWiki(c)
    OBVIOUS
  <1>4. lock[v] = None /\ lock' = [lock EXCEPT ![v] = c]
    BY <1>3 DEF Lock
  <1>5. Quiet
    BY DEF Lock, Rows, Quiet
  <1>6. LockStep(c)
    <2>1. c # None /\ \A d \in Client : d # None
      BY AgentCatalogAssumption
    <2> QED
      BY <1>0, <1>4, <2>1 DEF LockStep, CatalogTyped
  <1>7. PICK pc \in {"refs", "lock"} : Goto(c, pc) /\ (pc = "refs" => Cardinality(W) = 1)
    BY DEF Lock
  <1>8. PICK x : /\ Becomes(c, x) /\ Keeps(x, request[c]) /\ x.pc = pc
                 /\ x.sync = <<>> /\ x.prev = request[c].prev /\ x.mcp = request[c].mcp
    BY <1>0, <1>7, GotoBecomes DEF Saves
  <1>9. ASSUME pc = "refs", NEW w \in request[c].config.writes PROVE lock'[w] = c
    <2>1. PICK u : W = {u}
      BY <1>2, <1>7, <1>9, FS_Singleton
    <2>2. v = u
      BY <1>3, <2>1 DEF NextWiki
    <2>3. w \in Wiki /\ lock \in [Wiki -> Client \cup {None}]
      BY <1>0, <1>1 DEF CatalogTyped
    <2> QED
      BY <1>4, <2>1, <2>2, <2>3 DEF Wanted
  <1>10. MayWrite(x, c)
    BY <1>8, <1>9 DEF MayWrite, NoOther, Checked, Keeps
  <1> QED
    BY <1>0, <1>5, <1>6, <1>8, <1>10, SaveGoesOn DEF Saves, Early

LEMMA TimeOutStep ==
  ASSUME CatalogInv, Follow, NEW c \in Client, TimeOut(c)
  PROVE  CatalogInv'
  <1>0. CatalogTyped /\ Shapes /\ request[c].pc = "lock" /\ request[c].pc \in Saves
    BY DEF CatalogInv, TimeOut, Saves
  <1>1. Quiet /\ LockStep(c) /\ Finish(c)
    BY <1>0, LockSame DEF TimeOut, Rows, Quiet
  <1>2. request[c].sync = <<>>
    BY <1>0 DEF Shapes, Shape
  <1> QED
    BY <1>1, <1>2, FinishStep, NoQueue

(* A save that is refused under its locks.                                  *)
LEMMA RefuseStep ==
  ASSUME CatalogInv, Follow, NEW c \in Client, request[c].pc \in Saves, Refuse(c), Quiet, lock' = lock
  PROVE  CatalogInv'
  <1>0. CatalogTyped /\ Shapes /\ LockStep(c)
    BY LockSame DEF CatalogInv
  <1>1. PICK x : Becomes(c, x) /\ x.pc = "release" /\ Keeps(x, request[c]) /\ x.mcp = request[c].mcp
                 /\ x.prev = request[c].prev /\ x.sync = <<>>
    BY <1>0, RefuseBecomes DEF Refuse
  <1>2. MayWrite(x, c)
    BY <1>1 DEF MayWrite, NoOther, Checked
  <1> QED
    BY <1>0, <1>1, <1>2, SaveGoesOn DEF Saves, Early

LEMMA CheckRefsStep ==
  ASSUME CatalogInv, Follow, NEW c \in Client, CheckRefs(c)
  PROVE  CatalogInv'
  <1>0. CatalogTyped /\ Shapes /\ request[c].pc = "refs" /\ request[c].pc \in Saves
    BY DEF CatalogInv, CheckRefs, Saves
  <1>1. Quiet /\ LockStep(c) /\ lock' = lock
    BY <1>0, LockSame DEF CheckRefs, Rows, Quiet
  <1>2. CASE Refuse(c)
    BY <1>0, <1>1, <1>2, RefuseStep
  <1>3. CASE \E pc \in {"agent", "prev"} : /\ Goto(c, pc) /\ (pc = "agent" <=> request[c].create)
                /\ \A w \in request[c].config.writes : ~ WriterOtherThan(w, request[c].agent)
    <2>1. PICK pc \in {"agent", "prev"} : /\ Goto(c, pc) /\ (pc = "agent" <=> request[c].create)
                /\ \A w \in request[c].config.writes : ~ WriterOtherThan(w, request[c].agent)
      BY <1>3
    <2>2. PICK x : /\ Becomes(c, x) /\ Keeps(x, request[c]) /\ x.pc = pc
                   /\ x.sync = <<>> /\ x.prev = request[c].prev /\ x.mcp = request[c].mcp
      BY <1>0, <2>1, GotoBecomes DEF Saves
    <2>3. \A w \in request[c].config.writes : lock[w] = c
      BY <1>0 DEF CatalogInv, Writers, KeepsLocks
    <2>4. MayWrite(x, c)
      BY <1>1, <2>1, <2>2, <2>3 DEF MayWrite, NoOther, Checked, Keeps
    <2> QED
      BY <1>0, <1>1, <2>2, <2>4, SaveGoesOn DEF Saves, Early
  <1> QED
    BY <1>2, <1>3 DEF CheckRefs

LEMMA ReadPrevStep ==
  ASSUME CatalogInv, Follow, NEW c \in Client, ReadPrev(c)
  PROVE  CatalogInv'
  <1>0. CatalogTyped /\ Shapes /\ request[c].pc = "prev" /\ request[c].pc \in Saves
    BY DEF CatalogInv, ReadPrev, Saves
  <1>1. Quiet /\ LockStep(c) /\ lock' = lock
    BY <1>0, LockSame DEF ReadPrev, Rows, Quiet
  <1> DEFINE a == request[c].agent
  <1>2. PICK p : p = IF a \in Current THEN Latest(a).env ELSE None
    OBVIOUS
  <1>3. p \in MaybeEnv /\ (a \in Current => p = Latest(a).env)
    BY <1>0, <1>2, LatestType DEF MaybeEnv
  <1>3a. Move(c, [request[c] EXCEPT !.pc = "number", !.prev = p])
    BY <1>2 DEF ReadPrev
  <1>4. PICK x : /\ Becomes(c, x) /\ x.pc = "number" /\ Keeps(x, request[c])
                 /\ x.mcp = request[c].mcp /\ x.prev = p /\ x.sync = request[c].sync
                 /\ x.hosts = request[c].hosts
    BY <1>0, <1>3, <1>3a, ReadPrevBecomes
  <1>5. request[c].sync = <<>> /\ NoOther(request[c]) /\ KeepsLocks(request[c], c)
    BY <1>0 DEF Shapes, Shape, CatalogInv, Writers
  <1>6. MayCreate(x, c)
    BY <1>4 DEF CatalogInv, Creating, MayCreate, Keeps, Early
  <1>7. MayWrite(x, c)
    BY <1>0, <1>1, <1>4, <1>5 DEF MayWrite, NoOther, KeepsLocks, Keeps, Checked
  <1>8. ASSUME NEW e \in Env \ mixed' PROVE Knows(x, e) /\ ~ e \in ToSet(request[c].sync)
    <2>1. e \notin mixed
      BY FollowAlone
    <2>2. Knows(request[c], e) /\ Bound(e)
      BY <2>1 DEF CatalogInv, Proxies
    <2>3. p = e => envs[e].row
      BY <1>2, <2>2, AgentCatalogAssumption DEF Bound
    <2>4. ToSet(x.sync) = {} /\ ~ e \in ToSet(request[c].sync)
      BY <1>4, <1>5, NoQueue
    <2>5. e \in {x.config.env, x.prev} \cup ToSet(x.sync) => envs[e].row
      BY <1>4, <2>2, <2>3, <2>4 DEF Knows, Keeps
    <2>6. x.config.env = e => x.mcp = envs[e].mcp
      BY <1>0, <1>4, <2>2 DEF Knows, Keeps, Saves
    <2>7. x.agent \in Current /\ Latest(x.agent).env = e => x.prev = e
      BY <1>3, <1>4 DEF Keeps
    <2> QED
      BY <1>4, <2>4, <2>5, <2>6, <2>7 DEF Knows
  <1>9. MaySync(x, c)
    BY <1>8 DEF MaySync
  <1> QED
    BY <1>1, <1>4, <1>6, <1>7, <1>9, QuietStep

LEMMA NumberVersionStep ==
  ASSUME CatalogInv, Follow, NEW c \in Client, NumberVersion(c)
  PROVE  CatalogInv'
  <1>0. /\ CatalogTyped /\ Shapes /\ request[c].pc = "number" /\ request[c].pc \in Saves
        /\ ~ request[c].create
    BY DEF CatalogInv, NumberVersion, Saves, Shapes, Shape
  <1>1. Quiet /\ LockStep(c) /\ lock' = lock
    BY <1>0, LockSame DEF NumberVersion, Rows, Quiet
  <1>2. PICK n : n = Len(versions[request[c].agent]) + 1
    OBVIOUS
  <1>3. n \in Nat
    BY <1>0, <1>2, AgentsOf, LenProperties DEF CatalogTyped
  <1>4. PICK x : Becomes(c, x) /\ x.pc = "insert" /\ Keeps(x, request[c]) /\ x.mcp = request[c].mcp
                 /\ x.prev = request[c].prev /\ x.sync = request[c].sync
    BY <1>0, <1>2, <1>3, NumberBecomes DEF NumberVersion
  <1>5. request[c].sync = <<>> /\ NoOther(request[c]) /\ KeepsLocks(request[c], c)
    BY <1>0 DEF Shapes, Shape, CatalogInv, Writers
  <1>7. MayWrite(x, c)
    BY <1>0, <1>1, <1>4, <1>5 DEF MayWrite, NoOther, KeepsLocks, Keeps, Checked
  <1> QED
    BY <1>0, <1>1, <1>4, <1>5, <1>7, SaveGoesOn DEF Early, Saves

LEMMA ReleaseStep ==
  ASSUME CatalogInv, Follow, NEW c \in Client, Release(c)
  PROVE  CatalogInv'
  <1>0. CatalogTyped /\ Shapes /\ request[c].pc = "release"
    BY DEF CatalogInv, Release
  <1>1. Quiet /\ LockStep(c)
    BY <1>0, LockSame DEF Release, Rows, Quiet
  <1>2. CASE request[c].sync = <<>>
    <2>1. Finish(c)
      BY <1>2 DEF Release
    <2> QED
      BY <1>1, <1>2, <2>1, FinishStep, NoQueue
  <1>3. CASE request[c].sync # <<>>
    <2>1. PICK x : Becomes(c, x) /\ x.pc = "hosts" /\ Keeps(x, request[c]) /\ x.mcp = request[c].mcp
                   /\ x.prev = request[c].prev /\ x.sync = request[c].sync
      BY <1>0, <1>3, SyncBecomes DEF Release
    <2>2. MayCreate(x, c)
      BY <2>1 DEF CatalogInv, Creating, MayCreate, Keeps, Early
    <2>3. MayWrite(x, c)
      BY <2>1 DEF MayWrite, NoOther, Checked
    <2>4. ASSUME NEW e \in Env \ mixed' PROVE Knows(x, e)
      <3>1. e \notin mixed
        BY FollowAlone
      <3>2. Knows(request[c], e)
        BY <3>1 DEF CatalogInv, Proxies
      <3>3. Head(x.sync) = x.config.env
        BY <1>0, <1>3, <2>1 DEF Shapes, Shape, Keeps
      <3> QED
        BY <1>0, <2>1, <3>2, <3>3 DEF Knows, Keeps, Saves
    <2>5. MaySync(x, c)
      BY <2>1, <2>4 DEF MaySync
    <2> QED
      BY <1>1, <2>1, <2>2, <2>3, <2>5, QuietStep
  <1> QED
    BY <1>2, <1>3

LEMMA ReadHostsStep ==
  ASSUME CatalogInv, Follow, NEW c \in Client, ReadHosts(c)
  PROVE  CatalogInv'
  <1>0. CatalogTyped /\ Shapes /\ request[c].pc = "hosts"
    BY DEF CatalogInv, ReadHosts
  <1>1. Quiet /\ LockStep(c)
    BY <1>0, LockSame DEF ReadHosts, Rows, Quiet
  <1>2. PICK H : H = IF request[c].mcp THEN HostsOf(Head(request[c].sync)) ELSE {}
    OBVIOUS
  <1>3. H \in SUBSET Agent
    BY <1>2 DEF HostsOf, Current, Live
  <1>4. PICK x : /\ Becomes(c, x) /\ x.pc = "ensure" /\ Keeps(x, request[c])
                 /\ x.mcp = request[c].mcp /\ x.prev = request[c].prev /\ x.sync = request[c].sync
                 /\ x.hosts = H
    BY <1>0, <1>2, <1>3, HostsBecomes DEF ReadHosts
  <1>5. MayCreate(x, c)
    BY <1>4 DEF CatalogInv, Creating, MayCreate, Keeps, Early
  <1>6. MayWrite(x, c)
    BY <1>4 DEF MayWrite, NoOther, Checked
  <1>7. ASSUME NEW e \in Env \ mixed' PROVE Knows(x, e)
    <2>1. e \notin mixed
      BY FollowAlone
    <2>2. Knows(request[c], e)
      BY <2>1 DEF CatalogInv, Proxies
    <2>3. Head(x.sync) = e => x.mcp = envs[e].mcp
      BY <1>0, <1>4, <2>2 DEF Knows
    <2>4. Head(x.sync) = e => x.hosts = Due(e)
      <3> SUFFICES ASSUME Head(x.sync) = e PROVE x.hosts = Due(e)
        OBVIOUS
      <3>1. CASE request[c].mcp
        BY <1>2, <1>4, <2>3, <3>1 DEF Due
      <3>2. CASE ~ request[c].mcp
        BY <1>2, <1>4, <2>3, <3>2 DEF Due
      <3> QED
        BY <3>1, <3>2
    <2>5. Head(x.sync) = e => Follows(x.hosts, e)
      BY <2>4 DEF Follows
    <2>6. e \in {x.config.env, x.prev} \cup ToSet(x.sync) => envs[e].row
      BY <1>4, <2>2 DEF Knows, Keeps
    <2> QED
      BY <1>4, <2>3, <2>5, <2>6 DEF Knows, Saves
  <1>8. MaySync(x, c)
    BY <1>4, <1>7 DEF MaySync
  <1> QED
    BY <1>1, <1>4, <1>5, <1>6, <1>8, QuietStep

(* The one environment left of a queue of one.                              *)
LEMMA LastOfQueue ==
  ASSUME NEW s \in Seq(Env), Len(s) = 1
  PROVE  ToSet(s) = {Head(s)} /\ Head(s) \in Env /\ s # <<>>
  <1>1. s # <<>>
    <2>1. SUFFICES ASSUME s = <<>> PROVE FALSE
      OBVIOUS
    <2>2. Len(s) = 0
      BY <2>1, NoQueue
    <2> QED
      BY <2>2
  <1>2. Tail(s) \in Seq(Env) /\ Len(Tail(s)) = 0 /\ Head(s) \in Env
        /\ ToSet(s) = {Head(s)} \cup ToSet(Tail(s))
    BY <1>1, QueueParts
  <1> PICK t : t = Tail(s)
    OBVIOUS
  <1>3. t \in Seq(Env) /\ Len(t) = 0
    BY <1>2
  <1>4. t = <<>>
    BY <1>3, EmptySeq
  <1> QED
    BY <1>1, <1>2, <1>4, NoQueue

LEMMA ReadPrevEnvStep ==
  ASSUME CatalogInv, Follow, NEW c \in Client, ReadPrevEnv(c)
  PROVE  CatalogInv'
  <1>0. CatalogTyped /\ Shapes /\ request[c].pc = "prevEnv"
    BY DEF CatalogInv, ReadPrevEnv
  <1>1. Quiet /\ LockStep(c)
    BY <1>0, LockSame DEF ReadPrevEnv, Rows, Quiet
  <1>2. PICK f : f = Head(request[c].sync)
    OBVIOUS
  <1>3. request[c].sync \in Seq(Env) /\ Len(request[c].sync) = 1
    BY <1>0 DEF CatalogTyped, RequestRecord, Shapes, Shape
  <1>4. ToSet(request[c].sync) = {f} /\ f \in Env
    BY <1>2, <1>3, LastOfQueue
  <1>5. CASE ~ envs[f].row
    <2>1. Finish(c)
      BY <1>2, <1>5 DEF ReadPrevEnv
    <2>2. ASSUME NEW e \in Env \ mixed', e \in ToSet(request[c].sync) PROVE FALSE
      <3>1. e \notin mixed
        BY FollowAlone
      <3>2. Knows(request[c], e)
        BY <3>1 DEF CatalogInv, Proxies
      <3> QED
        BY <1>4, <1>5, <2>2, <3>2 DEF Knows
    <2> QED
      BY <1>1, <2>1, <2>2, FinishStep
  <1>6. CASE envs[f].row
    <2>1. envs[f].mcp \in BOOLEAN
      BY <1>0, <1>4 DEF CatalogTyped, EnvRow
    <2>2. PICK x : Becomes(c, x) /\ x.pc = "hosts" /\ Keeps(x, request[c]) /\ x.mcp = envs[f].mcp
                   /\ x.prev = request[c].prev /\ x.sync = request[c].sync
      BY <1>0, <1>2, <1>6, <2>1, PrevEnvBecomes DEF ReadPrevEnv
    <2>3. MayCreate(x, c)
      BY <2>2 DEF CatalogInv, Creating, MayCreate, Keeps, Early
    <2>4. MayWrite(x, c)
      BY <2>2 DEF MayWrite, NoOther, Checked
    <2>5. ASSUME NEW e \in Env \ mixed' PROVE Knows(x, e)
      <3>1. e \notin mixed
        BY FollowAlone
      <3>2. Knows(request[c], e)
        BY <3>1 DEF CatalogInv, Proxies
      <3> QED
        BY <1>2, <2>2, <3>2 DEF Knows, Keeps, Saves
    <2>6. MaySync(x, c)
      BY <2>2, <2>5 DEF MaySync
    <2> QED
      BY <1>1, <2>2, <2>3, <2>4, <2>6, QuietStep
  <1> QED
    BY <1>5, <1>6

LEMMA GoneStep ==
  ASSUME CatalogInv, Follow, NEW c \in Client, SkillGone(c) \/ WikiGone(c)
  PROVE  CatalogInv'
  <1>0. CatalogTyped /\ Shapes /\ request[c].pc \in Going /\ Finish(c)
    BY DEF CatalogInv, SkillGone, WikiGone, Going
  <1>1. Quiet /\ LockStep(c)
    BY <1>0, LockSame DEF SkillGone, WikiGone, Quiet
  <1>2. request[c].sync = <<>>
    BY <1>0 DEF Shapes, Shape
  <1> QED
    BY <1>0, <1>1, <1>2, FinishStep, NoQueue

LEMMA DeleteStep ==
  ASSUME CatalogInv, Follow, NEW c \in Client, NEW o \in Target,
         NEW pc \in {"skillGone", "wikiGone", "envTear"}, DeleteArrives(c, o, pc),
         pc = "envTear" => o \in Env /\ ~ EnvInUse(o)
  PROVE  CatalogInv'
  <1>0. CatalogTyped /\ Shapes
    BY DEF CatalogInv
  <1>1. Quiet /\ LockStep(c)
    BY <1>0, LockSame DEF DeleteArrives, Rows, Quiet
  <1>2. request[c] = Idle
    BY <1>0 DEF DeleteArrives, Arrive, Shapes, Shape
  <1>3. PICK x : /\ Becomes(c, x) /\ x.pc = pc /\ x.agent = None /\ x.config = NoConfig
                 /\ x.on = o /\ x.prev = None /\ x.sync = <<>>
    <2>1. pc \in Going /\ (pc = "envTear" => o \in Env) /\ pc # "envGone"
      BY DEF Going
    <2> QED
      BY <1>0, <2>1, DeleteBecomes
  <1>4. MayCreate(x, c) /\ MayWrite(x, c)
    BY <1>3, BlankMay DEF Saves
  <1>5. ASSUME NEW e \in Env \ mixed' PROVE Knows(x, e) /\ ~ e \in ToSet(request[c].sync)
    <2>1. ToSet(x.sync) = {} /\ ToSet(request[c].sync) = {} /\ None # e /\ x.config.env = None
      BY <1>2, <1>3, NoQueue, IdleFields, AgentCatalogAssumption
    <2>2. ASSUME pc = "envTear", o = e, NEW a \in Current PROVE Latest(a).env # e
      <3>1. versions[a] \in Seq(Config) /\ versions[a] # <<>> /\ a \in Live /\ a \in Agent
        BY <1>0 DEF Current, Live, CatalogTyped
      <3>2. Latest(a) \in ToSet(versions[a])
        BY <3>1, LenProperties, EmptySeq DEF Latest, Last, ToSet
      <3>3. Latest(a) \in VersionRows
        BY <3>1, <3>2 DEF VersionRows
      <3> QED
        BY <2>2, <3>3 DEF EnvInUse
    <2> QED
      BY <1>3, <2>1, <2>2 DEF Knows, Saves
  <1>6. MaySync(x, c)
    BY <1>5 DEF MaySync
  <1> QED
    BY <1>1, <1>3, <1>4, <1>6, QuietStep

(* The steps that change a row: agents, environments, versions.             *)
LEMMA InsertAgentStep ==
  ASSUME CatalogInv, Follow, NEW c \in Client, InsertAgent(c)
  PROVE  CatalogInv'
  <1>0. CatalogTyped /\ Shapes /\ request[c].pc = "agent" /\ request[c].pc \in Saves
    BY DEF CatalogInv, InsertAgent, Saves
  <1>1. PICK a : a = request[c].agent
    OBVIOUS
  <1>2. a \in Agent /\ request[c].create /\ request[c].sync = <<>>
    BY <1>0, <1>1, AgentsOf DEF Shapes, Shape
  <1>3. agents[a] = "new" /\ \A d \in Client \ {c} : request[d].agent # a
    BY <1>0, <1>1, <1>2 DEF CatalogInv, Creating, Early
  <1>4. versions[a] = <<>>
    BY <1>2, <1>3 DEF CatalogInv, Creating
  <1>5. /\ agents' = [agents EXCEPT ![a] = "live"] /\ versions' = versions
        /\ envs' = envs /\ proxy' = proxy /\ lock' = lock
    BY <1>1 DEF InsertAgent
  <1>6. \A b \in Agent : agents'[b] = IF b = a THEN "live" ELSE agents[b]
    BY <1>0, <1>5 DEF CatalogTyped
  <1>7. SameView
    <2>1. Live' = Live \cup {a}
      BY <1>2, <1>6 DEF Live
    <2>2. Current' = Current
      BY <1>4, <1>5, <2>1 DEF Current
    <2>3. Gone' = Gone
      BY <1>3, <1>6 DEF Gone
    <2> QED
      BY <1>5, <2>2, <2>3 DEF SameView, SameAgents
  <1>8. PICK x : /\ Becomes(c, x) /\ x.pc = "insert" /\ Keeps(x, request[c])
                 /\ x.mcp = request[c].mcp /\ x.prev = request[c].prev /\ x.sync = request[c].sync
                 /\ x.hosts = request[c].hosts
    BY <1>0, InsertAgentBecomes DEF InsertAgent
  <1>9. LockStep(c)
    BY <1>0, <1>5, LockSame
  <1>10. NoOther(request[c]) /\ KeepsLocks(request[c], c)
    BY DEF CatalogInv, Writers
  <1>11. MayWrite(x, c)
    BY <1>0, <1>5, <1>8, <1>10 DEF MayWrite, NoOther, KeepsLocks, Keeps, Checked
  <1>12. ASSUME NEW e \in Env \ mixed' PROVE Knows(x, e)
    <2>1. e \notin mixed
      BY FollowAlone
    <2>2. Knows(request[c], e)
      BY <2>1 DEF CatalogInv, Proxies
    <2> QED
      BY <1>0, <1>2, <1>8, <2>2 DEF Knows, Keeps, Saves
  <1>13. MayRefresh(x, c)
    BY <1>5, <1>8, <1>12 DEF MayRefresh
  <1>14. Writers' /\ Proxies'
    BY <1>7, <1>8, <1>9, <1>11, <1>13, WritersKept, ProxiesKept DEF SameView
  <1>15. /\ request' \in [Client -> RequestRecord] /\ Shapes' /\ request'[c] = x
         /\ \A d \in Client \ {c} : request'[d] = request[d]
    BY <1>8, BecomesRequest DEF CatalogInv
  <1>16. CatalogTyped'
    BY <1>0, <1>5, <1>15 DEF CatalogTyped
  <1>17. Creating'
    <2>1. ASSUME NEW b \in Agent, agents'[b] # "live" PROVE versions'[b] = <<>>
      BY <1>5, <1>6, <2>1 DEF CatalogInv, Creating
    <2>2. x.pc \notin Early
      BY <1>8 DEF Early
    <2>3. ASSUME NEW d \in Client, request'[d].pc \in Early, request'[d].create
          PROVE  /\ agents'[request'[d].agent] = "new"
                 /\ \A b \in Client \ {d} : request'[b].agent # request'[d].agent
      <3>1. d # c /\ request'[d] = request[d]
        BY <1>15, <2>2, <2>3
      <3>2. request[d].agent \in Agent /\ request[d].agent # a
        BY <1>3, <2>3, <3>1, AgentsOf DEF Early, Saves
      <3>3. agents[request[d].agent] = "new" /\ \A b \in Client \ {d} : request[b].agent # request[d].agent
        BY <2>3, <3>1 DEF CatalogInv, Creating
      <3>4. \A b \in Client \ {d} : request'[b].agent = request[b].agent
        BY <1>8, <1>15 DEF Keeps
      <3> QED
        BY <1>6, <3>1, <3>2, <3>3, <3>4
    <2> QED
      BY <2>1, <2>3 DEF Creating
  <1> QED
    BY <1>14, <1>15, <1>16, <1>17 DEF CatalogInv

(* An agent's deletion shortens what the proxies owe, and lengthens what    *)
(* they may still let through.                                              *)
LEMMA DeleteAgentStep ==
  ASSUME CatalogInv, Follow, NEW c \in Client, NEW a \in Agent, DeleteAgent(c, a)
  PROVE  CatalogInv'
  <1>0. CatalogTyped /\ Shapes
    BY DEF CatalogInv
  <1>1. /\ agents' = [agents EXCEPT ![a] = "gone"] /\ versions' = [versions EXCEPT ![a] = <<>>]
        /\ envs' = envs /\ proxy' = proxy /\ lock' = lock /\ request' = request
        /\ agents[a] = "live"
    BY DEF DeleteAgent
  <1>2. \A b \in Agent : /\ agents'[b] = IF b = a THEN "gone" ELSE agents[b]
                         /\ versions'[b] = IF b = a THEN <<>> ELSE versions[b]
    BY <1>0, <1>1 DEF CatalogTyped
  <1>3. Current' = Current \ {a}
    BY <1>2 DEF Current, Live
  <1>4. \A b \in Current' : b \in Current /\ b # a /\ Latest(b)' = Latest(b)
    <2>1. \A b \in Current' : b \in Agent /\ b # a /\ b \in Current
      BY <1>3 DEF Current, Live
    <2> QED
      BY <1>2, <2>1 DEF Latest
  <1>5. \A e : HostsOf(e)' = HostsOf(e) \ {a}
    BY <1>3, <1>4 DEF HostsOf
  <1>6. Gone' = Gone \cup {a}
    BY <1>2 DEF Gone
  <1>7. \A e \in Env : Due(e)' = Due(e) \ {a}
    BY <1>1, <1>5 DEF Due
  <1>8. \A q : \A e \in Env : Follows(q, e) => Due(e)' \subseteq q /\ q \subseteq Due(e)' \cup Gone'
    BY <1>6, <1>7 DEF Follows
  <1>9. CatalogTyped'
    <2>1. <<>> \in Seq(Config)
      BY EmptySeq
    <2>2. versions' \in [Agent -> Seq(Config)] /\ agents' \in [Agent -> {"new", "live", "gone"}]
      BY <1>0, <1>1, <2>1 DEF CatalogTyped
    <2> QED
      BY <1>0, <1>1, <2>2 DEF CatalogTyped
  <1>10. Shapes'
    BY <1>0, <1>1 DEF Shapes, Shape, Idle
  <1>11. Creating'
    <2>1. ASSUME NEW d \in Client, request[d].pc \in Early, request[d].create
          PROVE  agents'[request[d].agent] = "new" /\ \A b \in Client \ {d} : request[b].agent # request[d].agent
      <3>1. request[d].agent \in Agent /\ agents[request[d].agent] = "new"
            /\ \A b \in Client \ {d} : request[b].agent # request[d].agent
        BY <2>1, AgentsOf DEF CatalogInv, Creating, Early, Saves
      <3> QED
        BY <1>1, <1>2, <3>1
    <2>2. ASSUME NEW b \in Agent, agents'[b] # "live" PROVE versions'[b] = <<>>
      BY <1>2, <2>2 DEF CatalogInv, Creating
    <2> QED
      BY <1>1, <2>1, <2>2 DEF Creating
  <1>12. Writers'
    <2>1. ASSUME NEW d \in Client PROVE KeepsLocks(request[d], d)' /\ NoOther(request[d])'
      <3>1. KeepsLocks(request[d], d) /\ NoOther(request[d])
        BY DEF CatalogInv, Writers
      <3> QED
        BY <1>1, <1>4, <3>1 DEF KeepsLocks, NoOther, WriterOtherThan
    <2>2. Unique'
      BY <1>4 DEF Unique, CatalogInv, Writers
    <2> QED
      BY <2>1, <2>2 DEF Writers
  <1>13. Proxies'
    <2> SUFFICES ASSUME NEW e \in Env \ mixed'
        PROVE  Alone(e)' /\ Bound(e)' /\ UpToDate(e)' /\ \A d \in Client : Knows(request[d], e)'
      BY DEF Proxies
    <2>1. Alone(e)' /\ e \notin mixed
      BY FollowAlone
    <2>2. Bound(e) /\ UpToDate(e) /\ \A d \in Client : Knows(request[d], e)
      BY <2>1 DEF CatalogInv, Proxies
    <2>3. Bound(e)'
      BY <1>1, <1>4, <2>2 DEF Bound
    <2>4. UpToDate(e)'
      <3>1. Follows(proxy[e], e) => Follows(proxy[e], e)'
        BY <1>1, <1>8 DEF Follows
      <3> QED
        BY <1>1, <2>2, <3>1 DEF UpToDate
    <2>5. ASSUME NEW d \in Client PROVE Knows(request[d], e)'
      <3>1. Knows(request[d], e)
        BY <2>2
      <3>2. Follows(request[d].hosts, e) => Follows(request[d].hosts, e)'
        BY <1>1, <1>8 DEF Follows
      <3> QED
        BY <1>1, <1>4, <3>1, <3>2 DEF Knows
    <2> QED
      BY <2>1, <2>3, <2>4, <2>5
  <1> QED
    BY <1>9, <1>10, <1>11, <1>12, <1>13 DEF CatalogInv

(* The proxy of the head of the queue is restarted with the hosts read.     *)
LEMMA EnsureStep ==
  ASSUME CatalogInv, Follow, NEW c \in Client, Ensure(c)
  PROVE  CatalogInv'
  <1>0. CatalogTyped /\ Shapes /\ request[c].pc = "ensure"
    BY DEF CatalogInv, Ensure
  <1>1. PICK f : f = Head(request[c].sync)
    OBVIOUS
  <1>2. PICK H : H = request[c].hosts
    OBVIOUS
  <1>3. request[c].sync \in Seq(Env) /\ request[c].sync # <<>> /\ H \in SUBSET Agent
    BY <1>0, <1>2 DEF CatalogTyped, RequestRecord, Shapes, Shape, Syncs
  <1>4. f \in Env /\ ToSet(request[c].sync) = {f} \cup ToSet(Tail(request[c].sync))
    BY <1>1, <1>3, QueueParts
  <1>5. /\ agents' = agents /\ versions' = versions /\ envs' = envs /\ lock' = lock
        /\ proxy' = [proxy EXCEPT ![f] = H]
    BY <1>1, <1>2 DEF Ensure, Rows
  <1>6. LockStep(c)
    BY <1>0, <1>5, LockSame
  <1>7. /\ proxy' \in [Env -> SUBSET Agent] /\ proxy'[f] = H
        /\ \A e \in Env \ {f} : proxy'[e] = proxy[e]
    BY <1>0, <1>3, <1>4, <1>5 DEF CatalogTyped
  <1>8. ASSUME NEW e \in Env \ mixed'
        PROVE  /\ Knows(request[c], e)
               /\ Follows(proxy[e], e) => Follows(proxy'[e], e)
               /\ e = f => Follows(proxy'[e], e)
    <2>1. e \notin mixed
      BY FollowAlone
    <2>2. Knows(request[c], e)
      BY <2>1 DEF CatalogInv, Proxies
    <2>3. e = f => Follows(H, e)
      BY <1>0, <1>1, <1>2, <2>2 DEF Knows
    <2> QED
      BY <1>7, <2>2, <2>3
  <1>9. CASE Len(request[c].sync) = 1
    <2>1. Finish(c)
      BY <1>9 DEF Ensure
    <2>2. Becomes(c, Idle)
      BY <2>1, FinishBecomes
    <2>3. Idle.agent = None /\ Idle.pc \notin Saves /\ Idle.pc \notin Syncs /\ ToSet(Idle.sync) = {}
          /\ Idle.config = NoConfig /\ Idle.prev = None /\ Idle.pc \notin {"envTear", "envGone"}
      BY IdleFields, NoQueue DEF Saves, Syncs
    <2>4. ToSet(request[c].sync) = {f}
      BY <1>1, <1>3, <1>9, LastOfQueue
    <2>5. MayRefresh(Idle, c)
      BY <1>8, <2>3, <2>4, BlankKnows DEF MayRefresh
    <2>6. MayCreate(Idle, c) /\ MayWrite(Idle, c)
      BY <2>3, BlankMay
    <2> QED
      BY <1>5, <1>6, <1>7, <2>2, <2>5, <2>6, ProxyStep
  <1>10. CASE Len(request[c].sync) # 1
    <2>1. PICK t : t = Tail(request[c].sync)
      OBVIOUS
    <2>2. PICK x : /\ Becomes(c, x) /\ x.pc = "prevEnv" /\ Keeps(x, request[c])
                   /\ x.mcp = request[c].mcp /\ x.prev = request[c].prev
                   /\ x.sync = t /\ x.hosts = {}
      <3>1. Move(c, [request[c] EXCEPT !.pc = "prevEnv", !.sync = Tail(request[c].sync), !.hosts = {}])
        BY <1>10 DEF Ensure
      <3> QED
        BY <1>0, <1>10, <2>1, <3>1, NextEnvBecomes
    <2>3. MayCreate(x, c)
      BY <2>2 DEF CatalogInv, Creating, MayCreate, Keeps, Early
    <2>4. MayWrite(x, c)
      BY <2>2 DEF MayWrite, NoOther, Checked
    <2>5. ASSUME NEW e \in Env \ mixed' PROVE Knows(x, e)
      <3>1. e \in {x.config.env, x.prev} \cup ToSet(x.sync) => envs[e].row
        BY <1>4, <1>8, <2>1, <2>2 DEF Knows, Keeps
      <3> QED
        BY <2>2, <3>1 DEF Knows, Saves
    <2>6. MayRefresh(x, c)
      BY <1>4, <1>8, <2>1, <2>2, <2>5 DEF MayRefresh
    <2> QED
      BY <1>5, <1>6, <1>7, <2>2, <2>3, <2>4, <2>6, ProxyStep
  <1> QED
    BY <1>9, <1>10

(* The proxy of an environment on its way out lets nothing through, and no  *)
(* latest version is bound to it any more.                                  *)
LEMMA EnvTearStep ==
  ASSUME CatalogInv, Follow, NEW c \in Client, EnvTear(c)
  PROVE  CatalogInv'
  <1>0. CatalogTyped /\ Shapes /\ request[c].pc = "envTear"
    BY DEF CatalogInv, EnvTear
  <1>1. PICK f : f = request[c].on
    OBVIOUS
  <1>2. f \in Env /\ request[c].sync = <<>> /\ request[c].config = NoConfig /\ request[c].prev = None
    BY <1>0, <1>1 DEF Shapes, Shape, Going
  <1>3. /\ agents' = agents /\ versions' = versions /\ envs' = envs /\ lock' = lock
        /\ proxy' = [proxy EXCEPT ![f] = {}]
    BY <1>1 DEF EnvTear, Rows
  <1>4. LockStep(c)
    BY <1>0, <1>3, LockSame
  <1>5. /\ proxy' \in [Env -> SUBSET Agent] /\ proxy'[f] = {}
        /\ \A e \in Env \ {f} : proxy'[e] = proxy[e]
    BY <1>0, <1>2, <1>3 DEF CatalogTyped
  <1>6. PICK x : Becomes(c, x) /\ x.pc = "envGone" /\ Keeps(x, request[c]) /\ x.mcp = request[c].mcp
                 /\ x.prev = request[c].prev /\ x.sync = request[c].sync
    BY <1>0, EnvTearBecomes DEF EnvTear, Goto
  <1>7. MayCreate(x, c)
    BY <1>6 DEF CatalogInv, Creating, MayCreate, Keeps, Early
  <1>8. MayWrite(x, c)
    BY <1>6 DEF MayWrite, NoOther, Checked
  <1>9. ASSUME NEW e \in Env \ mixed'
        PROVE  Knows(x, e) /\ (Follows(proxy[e], e) => Follows(proxy'[e], e))
               /\ e \notin ToSet(request[c].sync)
    <2>1. e \notin mixed
      BY FollowAlone
    <2>2. Knows(request[c], e)
      BY <2>1 DEF CatalogInv, Proxies
    <2>3. e = f => \A a \in Current : Latest(a).env # e
      BY <1>0, <1>1, <2>2 DEF Knows
    <2>4. e = f => Follows(proxy'[e], e)
      BY <1>5, <2>3 DEF Follows, Due, HostsOf
    <2>5. Follows(proxy[e], e) => Follows(proxy'[e], e)
      BY <1>5, <2>4
    <2>6. ToSet(x.sync) = {} /\ ToSet(request[c].sync) = {} /\ x.config.env = None /\ None # e
      BY <1>2, <1>6, NoQueue, IdleFields, AgentCatalogAssumption DEF Keeps
    <2>7. Knows(x, e)
      BY <1>0, <1>2, <1>6, <2>2, <2>3, <2>6, <1>1 DEF Knows, Keeps, Saves
    <2> QED
      BY <2>5, <2>6, <2>7
  <1>10. MayRefresh(x, c)
    BY <1>9 DEF MayRefresh
  <1> QED
    BY <1>3, <1>4, <1>5, <1>6, <1>7, <1>8, <1>10, ProxyStep

(* A request that no proxy of an environment hangs on knows nothing wrong   *)
(* of it.                                                                   *)
StrangersKnow == \A d \in Client, e \in Env : e \notin Syncing(d) => Knows(request[d], e)
LEMMA Stranger == CatalogTyped /\ Shapes => StrangersKnow
  <1> SUFFICES ASSUME CatalogTyped, Shapes, NEW d \in Client, NEW e \in Env, e \notin Syncing(d)
      PROVE  Knows(request[d], e)
    BY DEF StrangersKnow
  <1>1. /\ e \notin {request[d].config.env, request[d].prev, request[d].on} \cup ToSet(request[d].sync)
        /\ request[d].agent \in Current => Latest(request[d].agent).env # e
    BY DEF Syncing
  <1>2. request[d].pc \in Syncs => Head(request[d].sync) # e
    <2>1. request[d].sync \in Seq(Env) /\ Shape(request[d])
      BY DEF CatalogTyped, RequestRecord, Shapes
    <2>2. request[d].pc \in Syncs => Head(request[d].sync) \in ToSet(request[d].sync)
      BY <2>1, QueueParts DEF Shape
    <2> QED
      BY <1>1, <2>2
  <1> QED
    BY <1>1, <1>2 DEF Knows, Syncs

(* A step that changes one environment's row, when no other request is      *)
(* about that environment.                                                  *)
LEMMA EnvStep ==
  ASSUME CatalogInv, Follow, NEW c \in Client, NEW x, Becomes(c, x), NEW f \in Env,
         agents' = agents, versions' = versions, proxy' = proxy, lock' = lock,
         envs' \in [Env -> EnvRow], \A e \in Env \ {f} : envs'[e] = envs[e],
         MayCreate(x, c), MayWrite(x, c), ToSet(request[c].sync) = {},
         \A e \in Env \ (mixed' \cup {f}) : Knows(x, e),
         f \notin mixed' => /\ Bound(f)' /\ UpToDate(f)' /\ Knows(request[c], f)'
                            /\ \A d \in Client \ {c} : f \notin Syncing(d)'
  PROVE  CatalogInv'
  <1>1. /\ request' \in [Client -> RequestRecord] /\ Shapes' /\ request'[c] = x
        /\ \A d \in Client \ {c} : request'[d] = request[d]
    BY BecomesRequest DEF CatalogInv
  <1>2. CatalogTyped'
    BY <1>1 DEF CatalogInv, CatalogTyped
  <1>3. Creating'
    BY CreatingKept
  <1>4. SameAgents /\ Gone' = Gone
    BY QuietView
  <1>5. LockStep(c)
    BY LockSame DEF CatalogInv
  <1>6. Writers'
    BY <1>4, <1>5, WritersKept
  <1>7. Proxies'
    <2> SUFFICES ASSUME NEW e \in Env \ mixed'
        PROVE  Alone(e)' /\ Bound(e)' /\ UpToDate(e)' /\ \A d \in Client : Knows(request[d], e)'
      BY DEF Proxies
    <2>1. Alone(e)' /\ e \notin mixed
      BY FollowAlone
    <2>2. Bound(e) /\ UpToDate(e) /\ \A d \in Client : Knows(request[d], e)
      BY <2>1 DEF CatalogInv, Proxies
    <2>3. CASE e = f
      <3>1. \A d \in Client, h \in Env : h \notin Syncing(d)' => Knows(request[d], h)'
        <4>1. (CatalogTyped /\ Shapes => StrangersKnow)'
          BY Stranger, PTL
        <4> QED
          BY <1>1, <1>2, <4>1 DEF StrangersKnow
      <3> QED
        BY <2>1, <2>3, <3>1
    <2>4. CASE e # f
      <3>1. envs'[e] = envs[e] /\ Current' = Current /\ versions' = versions /\ Gone' = Gone
        BY <1>4, <2>4 DEF SameAgents
      <3>2. \A a : Latest(a)' = Latest(a)
        BY <3>1 DEF Latest
      <3>3. HostsOf(e)' = HostsOf(e)
        BY <3>1, <3>2 DEF HostsOf
      <3>4. Due(e)' = Due(e)
        BY <3>1, <3>3 DEF Due
      <3>5. \A q : Follows(q, e)' <=> Follows(q, e)
        BY <3>1, <3>4 DEF Follows
      <3>6. Bound(e)'
        BY <2>2, <3>1, <3>2 DEF Bound
      <3>7. UpToDate(e)'
        <4>1. Follows(proxy[e], e) => Follows(proxy[e], e)'
          BY <3>1, <3>4 DEF Follows
        <4>2. \A d \in Client : e \in ToSet(request[d].sync) => e \in ToSet(request'[d].sync)
          BY <1>1
        <4> QED
          BY <2>2, <4>1, <4>2 DEF UpToDate
      <3>8. ASSUME NEW d \in Client PROVE Knows(request[d], e)'
        <4>1. PICK r : r = request'[d]
          OBVIOUS
        <4>2. Knows(r, e)
          BY <1>1, <2>2, <2>4, <4>1
        <4>3. Knows(r, e)'
          BY <3>1, <3>2, <3>5, <4>2 DEF Knows
        <4> QED
          BY <4>1, <4>3 DEF Knows, Follows
      <3> QED
        BY <2>1, <3>6, <3>7, <3>8
    <2> QED
      BY <2>3, <2>4
  <1> QED
    BY <1>1, <1>2, <1>3, <1>6, <1>7 DEF CatalogInv

LEMMA PatchEnvStep ==
  ASSUME CatalogInv, Follow, NEW c \in Client, NEW f \in Env, PatchEnv(c, f)
  PROVE  CatalogInv'
  <1>0. CatalogTyped /\ Shapes
    BY DEF CatalogInv
  <1>1. request[c] = Idle
    BY <1>0 DEF PatchEnv, Arrive, Shapes, Shape
  <1>2. PICK x : /\ Becomes(c, x) /\ x.pc = "hosts" /\ x.agent = None /\ x.config = NoConfig
                 /\ x.create = FALSE /\ x.on = f /\ x.prev = None /\ x.sync = <<f>>
                 /\ x.mcp = ~ envs[f].mcp
    BY <1>0, PatchBecomes
  <1>3. PICK m \in BOOLEAN : m = ~ envs[f].mcp
    BY Zenon
  <1>4. envs' = [envs EXCEPT ![f] = [envs[f] EXCEPT !.mcp = m]]
    BY <1>3 DEF PatchEnv
  <1>5. envs[f].row /\ envs[f] \in EnvRow
    BY <1>0 DEF PatchEnv, CatalogTyped
  <1>6. PICK v : v = [envs[f] EXCEPT !.mcp = m]
    OBVIOUS
  <1>7. v \in EnvRow /\ v.row = envs[f].row /\ v.mcp = m
    BY <1>5, <1>6 DEF EnvRow
  <1>8. envs' \in [Env -> EnvRow] /\ envs'[f] = v /\ \A e \in Env \ {f} : envs'[e] = envs[e]
    BY <1>0, <1>4, <1>6, <1>7 DEF CatalogTyped
  <1>9. agents' = agents /\ versions' = versions /\ proxy' = proxy /\ lock' = lock
    BY DEF PatchEnv
  <1>10. MayCreate(x, c) /\ MayWrite(x, c)
    BY <1>2, BlankMay DEF Saves
  <1>11. ToSet(request[c].sync) = {}
    BY <1>1, IdleFields, NoQueue
  <1>12. ToSet(<<f>>) = {f} /\ Head(<<f>>) = f
    BY QueueSets
  <1>13. /\ request' \in [Client -> RequestRecord] /\ Shapes' /\ request'[c] = x
         /\ \A d \in Client \ {c} : request'[d] = request[d]
    BY <1>0, <1>2, BecomesRequest
  <1>14. ASSUME NEW e \in Env \ (mixed' \cup {f}) PROVE Knows(x, e)
    <2>1. None # e /\ x.config.env = None /\ e # f
      BY <1>2, IdleFields, AgentCatalogAssumption
    <2> QED
      BY <1>2, <1>12, <2>1 DEF Knows, Saves
  <1>15. ASSUME f \notin mixed'
         PROVE  /\ Bound(f)' /\ UpToDate(f)' /\ Knows(request[c], f)'
                /\ \A d \in Client \ {c} : f \notin Syncing(d)'
    <2>1. Bound(f)'
      BY <1>5, <1>7, <1>8 DEF Bound
    <2>2. UpToDate(f)'
      BY <1>2, <1>12, <1>13 DEF UpToDate
    <2>3. Knows(x, f)'
      <3>1. None # f /\ x.config.env = None
        BY <1>2, IdleFields, AgentCatalogAssumption
      <3>2. x.mcp = envs'[f].mcp
        <4>1. x.mcp = m
          BY <1>2, <1>3, Zenon
        <4> QED
          BY <1>7, <1>8, <4>1
      <3> QED
        BY <1>2, <1>5, <1>7, <1>8, <1>12, <3>1, <3>2 DEF Knows, Saves
    <2>4. Knows(request[c], f)'
      BY <1>13, <2>3 DEF Knows, Follows
    <2>5. Alone(f)'
      BY <1>15, FollowAlone
    <2>6. f \in Syncing(c)'
      BY <1>2, <1>13 DEF Syncing
    <2> QED
      BY <2>1, <2>2, <2>4, <2>5, <2>6 DEF Alone
  <1> QED
    BY <1>2, <1>8, <1>9, <1>10, <1>11, <1>14, <1>15, EnvStep

LEMMA EnvGoneStep ==
  ASSUME CatalogInv, Follow, NEW c \in Client, EnvGone(c)
  PROVE  CatalogInv'
  <1>0. CatalogTyped /\ Shapes /\ request[c].pc = "envGone"
    BY DEF CatalogInv, EnvGone
  <1>1. PICK f : f = request[c].on
    OBVIOUS
  <1>2. f \in Env /\ request[c].sync = <<>>
    BY <1>0, <1>1 DEF Shapes, Shape, Going
  <1>3. /\ agents' = agents /\ versions' = versions /\ proxy' = proxy /\ lock' = lock
        /\ envs' = [envs EXCEPT ![f] = NoEnv] /\ Finish(c)
    BY <1>1 DEF EnvGone
  <1>4. Becomes(c, Idle)
    BY <1>3, FinishBecomes
  <1>5. Idle.agent = None /\ Idle.pc \notin Saves /\ Idle.pc \notin Syncs /\ ToSet(Idle.sync) = {}
        /\ Idle.config = NoConfig /\ Idle.prev = None /\ Idle.pc \notin {"envTear", "envGone"}
    BY IdleFields, NoQueue DEF Saves, Syncs
  <1>6. MayCreate(Idle, c) /\ MayWrite(Idle, c)
    BY <1>5, BlankMay
  <1>7. NoEnv \in EnvRow /\ ~ NoEnv.mcp
    BY DEF NoEnv, EnvRow
  <1>8. envs' \in [Env -> EnvRow] /\ envs'[f] = NoEnv /\ \A e \in Env \ {f} : envs'[e] = envs[e]
    BY <1>0, <1>2, <1>3, <1>7 DEF CatalogTyped
  <1>9. \A e \in Env : Knows(Idle, e)
    BY <1>5, BlankKnows
  <1>10. ToSet(request[c].sync) = {}
    BY <1>2, NoQueue
  <1>11. /\ request' \in [Client -> RequestRecord] /\ Shapes' /\ request'[c] = Idle
         /\ \A d \in Client \ {c} : request'[d] = request[d]
    BY <1>0, <1>4, BecomesRequest
  <1>12. Current' = Current /\ Gone' = Gone /\ \A a : Latest(a)' = Latest(a)
    BY <1>3, QuietView DEF SameAgents, Latest
  <1>13. ASSUME f \notin mixed'
         PROVE  /\ Bound(f)' /\ UpToDate(f)' /\ Knows(request[c], f)'
                /\ \A d \in Client \ {c} : f \notin Syncing(d)'
    <2>1. f \notin mixed
      BY <1>2, <1>13, FollowAlone
    <2>2. Alone(f) /\ UpToDate(f) /\ Knows(request[c], f)
      BY <1>2, <2>1 DEF CatalogInv, Proxies
    <2>3. \A a \in Current : Latest(a).env # f
      BY <1>0, <1>1, <2>2 DEF Knows
    <2>4. f \in Syncing(c)
      BY <1>1 DEF Syncing
    <2>5. ASSUME NEW d \in Client \ {c} PROVE f \notin Syncing(d) /\ f \notin Syncing(d)'
      <3>1. f \notin Syncing(d)
        BY <2>2, <2>4 DEF Alone
      <3> QED
        BY <1>11, <1>12, <3>1 DEF Syncing
    <2>6. Follows(proxy[f], f)
      BY <1>10, <2>2, <2>5 DEF UpToDate, Syncing
    <2>7. UpToDate(f)'
      BY <1>3, <1>7, <1>8, <1>12, <2>3, <2>6 DEF UpToDate, Follows, Due, HostsOf
    <2>8. Bound(f)'
      BY <1>12, <2>3 DEF Bound
    <2>9. Knows(request[c], f)'
      <3>1. None # f
        BY <1>2, AgentCatalogAssumption
      <3> QED
        BY <1>5, <1>11, <3>1, IdleFields DEF Knows, Syncs, Saves
    <2> QED
      BY <2>5, <2>7, <2>8, <2>9
  <1> QED
    BY <1>2, <1>3, <1>4, <1>6, <1>8, <1>9, <1>10, <1>13, EnvStep

(* The proxies an inserted version has refreshed.                           *)
LEMMA QueueOf ==
  ASSUME NEW r \in RequestRecord, r.config \in Config
  PROVE  /\ ToSync(r) \in Seq(Env) /\ Len(ToSync(r)) <= 2
         /\ ToSync(r) # <<>> => Head(ToSync(r)) = r.config.env
         /\ ToSet(ToSync(r)) \subseteq {r.config.env, r.prev}
         /\ (r.create /\ ~ r.config.mcp) \/ r.config.env \in ToSet(ToSync(r))
         /\ ~ r.create /\ r.prev \in Env => r.prev \in ToSet(ToSync(r))
  <1>1. PICK e \in Env : e = r.config.env
    BY ConfigType
  <1>2. r.prev \in MaybeEnv
    BY DEF RequestRecord
  <1>3. None \notin Env
    BY AgentCatalogAssumption
  <1>4. PICK q : q = ToSync(r)
    OBVIOUS
  <1>5. CASE r.create /\ ~ r.config.mcp
    <2>1. q = <<>>
      BY <1>4, <1>5 DEF ToSync
    <2>2. q \in Seq(Env) /\ Len(q) = 0 /\ ToSet(q) = {}
      BY <2>1, NoQueue
    <2> QED
      BY <1>4, <1>5, <2>1, <2>2
  <1>6. CASE (r.create /\ r.config.mcp) \/ (~ r.create /\ r.prev \in {None, r.config.env})
    <2>2. q = <<e>>
      <3>1. CASE r.create
        BY <1>1, <1>4, <1>6, <3>1 DEF ToSync
      <3>2. CASE ~ r.create
        <4>1. q = <<e>> \o <<>>
          BY <1>1, <1>4, <1>6, <3>2 DEF ToSync
        <4>2. <<e>> \in Seq(Env)
          OBVIOUS
        <4> QED
          BY <4>1, <4>2, ConcatEmptySeq
      <3> QED
        BY <3>1, <3>2
    <2>3. q \in Seq(Env) /\ Len(q) = 1 /\ ToSet(q) = {e} /\ Head(q) = e
      BY <2>2, QueueSets
    <2>4. ~ r.create /\ r.prev \in Env => r.prev \in ToSet(q)
      <3>1. r.prev \in Env /\ ~ r.create => r.prev = e
        BY <1>1, <1>3, <1>6
      <3> QED
        BY <2>3, <3>1
    <2>5. e \in ToSet(q) /\ ToSet(q) \subseteq {e, r.prev} /\ Len(q) <= 2
      BY <2>3
    <2> QED
      BY <1>1, <1>4, <2>3, <2>4, <2>5
  <1>7. CASE ~ r.create /\ r.prev \notin {None, r.config.env}
    <2>1. PICK f \in Env : f = r.prev
      BY <1>2, <1>7 DEF MaybeEnv
    <2>2. q = <<e>> \o <<f>>
      BY <1>1, <1>4, <1>7, <2>1 DEF ToSync
    <2>3. q \in Seq(Env) /\ Len(q) = 2 /\ ToSet(q) = {e, f} /\ Head(q) = e
      BY <2>2, QueueSets
    <2> QED
      BY <1>1, <1>4, <1>7, <2>1, <2>3
  <1>8. \/ r.create /\ ~ r.config.mcp
        \/ (r.create /\ r.config.mcp) \/ (~ r.create /\ r.prev \in {None, r.config.env})
        \/ ~ r.create /\ r.prev \notin {None, r.config.env}
    OBVIOUS
  <1> QED
    BY <1>5, <1>6, <1>7, <1>8, Zenon

(* What the latest versions are once one is inserted.                       *)
LEMMA InsertView ==
  ASSUME CatalogTyped, NEW a \in Live, NEW g \in Config, agents' = agents,
         versions' = [versions EXCEPT ![a] = Append(versions[a], g)]
  PROVE  /\ versions' \in [Agent -> Seq(Config)]
         /\ \A b \in Agent \ {a} : versions'[b] = versions[b]
         /\ Current' = Current \cup {a} /\ Gone' = Gone
         /\ Latest(a)' = g /\ \A b \in Agent \ {a} : Latest(b)' = Latest(b)
  <1>1. a \in Agent /\ versions[a] \in Seq(Config)
    BY DEF Live, CatalogTyped
  <1>2. PICK s : s = Append(versions[a], g)
    OBVIOUS
  <1>3. s \in Seq(Config) /\ Len(s) = Len(versions[a]) + 1 /\ s[Len(versions[a]) + 1] = g
    BY <1>1, <1>2, AppendProperties
  <1>4. Len(versions[a]) \in Nat
    BY <1>1, LenProperties
  <1>5. s # <<>> /\ Last(s) = g
    <2>1. Len(s) # 0
      BY <1>3, <1>4
    <2> QED
      BY <1>3, <2>1, EmptySeq DEF Last
  <1>6. /\ versions' \in [Agent -> Seq(Config)] /\ versions'[a] = s
        /\ \A b \in Agent \ {a} : versions'[b] = versions[b]
    BY <1>1, <1>2, <1>3 DEF CatalogTyped
  <1>7. Live' = Live /\ Gone' = Gone
    BY DEF Live, Gone
  <1>8. Current' = Current \cup {a}
    BY <1>1, <1>5, <1>6, <1>7 DEF Current, Live
  <1> QED
    BY <1>5, <1>6, <1>7, <1>8 DEF Latest

LEMMA InsertVersionStep ==
  ASSUME CatalogInv, Follow, NEW c \in Client, InsertVersion(c)
  PROVE  CatalogInv'
  <1>0. CatalogTyped /\ Shapes /\ request[c].pc = "insert" /\ request[c].pc \in Saves
    BY DEF CatalogInv, InsertVersion, Saves
  <1>1. PICK r : r = request[c]
    OBVIOUS
  <1>2. PICK a : a = r.agent
    OBVIOUS
  <1>3. PICK g : g = r.config
    OBVIOUS
  <1>4. r \in RequestRecord /\ a \in Agent /\ g \in Config /\ r.sync = <<>> /\ (r.create => r.version = 1)
    BY <1>0, <1>1, <1>2, <1>3 DEF CatalogTyped, Shapes, Shape
  <1>5. agents' = agents /\ envs' = envs /\ proxy' = proxy /\ lock' = lock
    BY DEF InsertVersion
  <1>6. CASE Refuse(c) /\ versions' = versions
    BY <1>0, <1>5, <1>6, RefuseStep DEF Quiet
  <1>7. CASE /\ a \in Live /\ envs[g.env].row /\ r.version = Len(versions[a]) + 1
             /\ versions' = [versions EXCEPT ![a] = Append(versions[a], g)]
             /\ Move(c, [r EXCEPT !.pc = "release", !.sync = ToSync(r)])
    <2>1. PICK q : q = ToSync(r)
      OBVIOUS
    <2>2. /\ q \in Seq(Env) /\ Len(q) <= 2 /\ (q # <<>> => Head(q) = g.env)
          /\ ToSet(q) \subseteq {g.env, r.prev}
          /\ (r.create /\ ~ g.mcp) \/ g.env \in ToSet(q)
          /\ ~ r.create /\ r.prev \in Env => r.prev \in ToSet(q)
      BY <1>3, <1>4, <2>1, QueueOf
    <2>3. Move(c, [request[c] EXCEPT !.pc = "release", !.sync = q])
      BY <1>1, <1>7, <2>1
    <2>4. PICK x : /\ Becomes(c, x) /\ x.pc = "release" /\ Keeps(x, request[c])
                   /\ x.mcp = request[c].mcp /\ x.prev = request[c].prev /\ x.sync = q
                   /\ x.hosts = request[c].hosts
      BY <1>0, <1>1, <1>3, <2>2, <2>3, InsertBecomes
    <2>5. x.agent = a /\ x.config = g /\ x.mcp = r.mcp /\ x.prev = r.prev
      BY <1>1, <1>2, <1>3, <2>4 DEF Keeps
    <2>6. /\ request' \in [Client -> RequestRecord] /\ Shapes' /\ request'[c] = x
          /\ \A d \in Client \ {c} : request'[d] = request[d]
      BY <1>0, <2>4, BecomesRequest
    <2>7. /\ versions' \in [Agent -> Seq(Config)]
          /\ \A b \in Agent \ {a} : versions'[b] = versions[b]
          /\ Current' = Current \cup {a} /\ Gone' = Gone
          /\ Latest(a)' = g /\ \A b \in Agent \ {a} : Latest(b)' = Latest(b)
      BY <1>0, <1>4, <1>5, <1>7, InsertView
    <2>8. Current \subseteq Agent
      BY DEF Current, Live
    <2>9. r.create => a \notin Current
      <3>1. SUFFICES ASSUME r.create PROVE versions[a] = <<>>
        BY DEF Current
      <3>2. versions[a] \in Seq(Config) /\ Len(versions[a]) \in Nat
        BY <1>0, <1>4, LenProperties DEF CatalogTyped
      <3>3. Len(versions[a]) = 0
        BY <1>4, <1>7, <3>1, <3>2
      <3> QED
        BY <3>2, <3>3, EmptySeq
    <2>10. CatalogTyped'
      BY <1>0, <1>5, <2>6, <2>7 DEF CatalogTyped
    <2>11. Creating'
      <3>1. ASSUME NEW b \in Agent, agents'[b] # "live" PROVE versions'[b] = <<>>
        BY <1>5, <1>7, <2>7, <3>1 DEF CatalogInv, Creating, Live
      <3>2. ASSUME NEW d \in Client, request'[d].pc \in Early, request'[d].create
            PROVE  /\ agents'[request'[d].agent] = "new"
                   /\ \A b \in Client \ {d} : request'[b].agent # request'[d].agent
        <4>1. d # c /\ request'[d] = request[d]
          BY <2>4, <2>6, <3>2 DEF Early
        <4>2. agents[request[d].agent] = "new" /\ \A b \in Client \ {d} : request[b].agent # request[d].agent
          BY <3>2, <4>1 DEF CatalogInv, Creating
        <4>3. \A b \in Client \ {d} : request'[b].agent = request[b].agent
          BY <2>4, <2>6 DEF Keeps
        <4> QED
          BY <1>5, <4>1, <4>2, <4>3
      <3> QED
        BY <3>1, <3>2 DEF Creating
    <2>12. Writers'
      <3>1. NoOther(r) /\ KeepsLocks(r, c) /\ r.pc \in Checked
        BY <1>0, <1>1 DEF CatalogInv, Writers, Checked
      <3>2. ASSUME NEW d \in Client PROVE KeepsLocks(request[d], d)'
        <4>1. CASE d = c
          BY <2>4, <2>6, <4>1 DEF KeepsLocks, Checked
        <4>2. CASE d # c
          <5>1. request'[d] = request[d] /\ KeepsLocks(request[d], d)
            BY <2>6, <4>2 DEF CatalogInv, Writers
          <5> QED
            BY <1>5, <5>1 DEF KeepsLocks
        <4> QED
          BY <4>1, <4>2
      <3>3. ASSUME NEW d \in Client PROVE NoOther(request[d])'
        <4>1. CASE d = c
          BY <2>4, <2>6, <4>1 DEF NoOther, Checked
        <4>2. CASE d # c
          <5>1. request'[d] = request[d] /\ KeepsLocks(request[d], d) /\ NoOther(request[d])
            BY <2>6, <4>2 DEF CatalogInv, Writers
          <5>2. ASSUME request[d].pc \in Checked, NEW w \in request[d].config.writes,
                       NEW b \in Current' \ {request[d].agent}, w \in Latest(b)'.writes
                PROVE  FALSE
            <6>1. lock[w] = d
              BY <5>1, <5>2 DEF KeepsLocks
            <6>2. CASE b = a
              BY <1>3, <2>7, <3>1, <4>2, <5>2, <6>1, <6>2 DEF KeepsLocks
            <6>3. CASE b # a
              BY <2>7, <2>8, <5>1, <5>2, <6>3 DEF NoOther, WriterOtherThan
            <6> QED
              BY <6>2, <6>3
          <5> QED
            BY <5>1, <5>2 DEF NoOther, WriterOtherThan
        <4> QED
          BY <4>1, <4>2
      <3>4. ASSUME NEW b \in Current', NEW d \in Current', NEW w \in Latest(b)'.writes \cap Latest(d)'.writes
            PROVE  b = d
        <4>1. \A h \in Current \ {a} : w \notin g.writes \/ w \notin Latest(h).writes
          BY <1>2, <1>3, <3>1 DEF NoOther, WriterOtherThan
        <4>2. CASE b = a \/ d = a
          BY <2>7, <2>8, <3>4, <4>1, <4>2
        <4>3. CASE b # a /\ d # a
          BY <2>7, <2>8, <3>4, <4>3 DEF CatalogInv, Writers, Unique
        <4> QED
          BY <4>2, <4>3
      <3>5. Unique'
        BY <3>4 DEF Unique
      <3> QED
        BY <3>2, <3>3, <3>5 DEF Writers
    <2>13. Proxies'
      <3> SUFFICES ASSUME NEW e \in Env \ mixed'
          PROVE  Alone(e)' /\ Bound(e)' /\ UpToDate(e)' /\ \A d \in Client : Knows(request[d], e)'
        BY DEF Proxies
      <3>1. Alone(e)' /\ e \notin mixed
        BY FollowAlone
      <3>2. Bound(e) /\ UpToDate(e) /\ \A d \in Client : Knows(request[d], e)
        BY <3>1 DEF CatalogInv, Proxies
      <3>3. Knows(r, e) /\ g.env \in Env /\ None # e
        BY <1>1, <1>4, <3>2, ConfigType, AgentCatalogAssumption
      <3>4. ASSUME e \in Syncing(c)', NEW d \in Client \ {c}
            PROVE  Knows(request[d], e)' /\ e \notin ToSet(request[d].sync)
        <4>1. e \notin Syncing(d)'
          BY <3>1, <3>4 DEF Alone
        <4>2. (CatalogTyped /\ Shapes => StrangersKnow)'
          BY Stranger, PTL
        <4>3. Knows(request[d], e)'
          BY <2>6, <2>10, <4>1, <4>2 DEF StrangersKnow
        <4>4. e \notin ToSet(request'[d].sync)
          BY <4>1 DEF Syncing
        <4> QED
          BY <2>6, <4>3, <4>4
      <3>5. ToSet(request[c].sync) = {}
        BY <1>1, <1>4, NoQueue
      <3>6. e \in ToSet(q) => UpToDate(e)'
        BY <2>4, <2>6 DEF UpToDate
      <3>7. ASSUME Due(e)' = Due(e), e \in Syncing(c)' => Follows(proxy[e], e)
            PROVE  UpToDate(e)'
        <4>1. CASE Follows(proxy[e], e)
          BY <1>5, <2>7, <3>7, <4>1 DEF UpToDate, Follows
        <4>2. CASE ~ Follows(proxy[e], e)
          <5>1. PICK d \in Client : e \in ToSet(request[d].sync)
            BY <3>2, <4>2 DEF UpToDate
          <5>2. e \in ToSet(request'[d].sync)
            BY <2>6, <3>5, <5>1
          <5> QED
            BY <5>2 DEF UpToDate
        <4> QED
          BY <4>1, <4>2
      <3>8. CASE e = g.env
        <4>1. e \in Syncing(c)'
          BY <2>5, <2>6, <3>8 DEF Syncing
        <4>2. Bound(e)'
          BY <1>5, <1>7, <3>8 DEF Bound
        <4>3. Knows(x, e)'
          <5>1. r.mcp = envs[e].mcp
            BY <1>0, <1>1, <1>3, <3>3, <3>8 DEF Knows
          <5> QED
            BY <1>5, <1>7, <2>4, <2>5, <3>8, <5>1 DEF Knows, Saves, Checked
        <4>4. Knows(request[c], e)'
          BY <2>6, <4>3 DEF Knows, Follows
        <4>5. CASE r.create /\ ~ g.mcp
          <5>1. HostsOf(e)' = HostsOf(e)
            BY <2>7, <2>8, <2>9, <4>5 DEF HostsOf
          <5>2. Due(e)' = Due(e)
            BY <1>5, <5>1 DEF Due
          <5>3. Follows(proxy[e], e)
            BY <3>2, <3>4, <3>5, <4>1 DEF UpToDate
          <5> QED
            BY <3>1, <3>4, <3>7, <4>1, <4>2, <4>4, <5>2, <5>3
        <4>6. CASE ~ (r.create /\ ~ g.mcp)
          BY <2>2, <3>1, <3>4, <3>6, <3>8, <4>1, <4>2, <4>4, <4>6
        <4> QED
          BY <4>5, <4>6
      <3>9. CASE e # g.env
        <4>1. \A b \in Current' : Latest(b)'.env = e => b # a /\ b \in Current /\ Latest(b)' = Latest(b)
          BY <2>7, <2>8, <3>9
        <4>2. Bound(e)'
          BY <1>5, <3>2, <4>1 DEF Bound
        <4>3. Knows(x, e)'
          <5>1. e \in {x.config.env, x.prev} \cup ToSet(x.sync) => envs[e].row
            BY <2>2, <2>4, <2>5, <3>3, <3>9 DEF Knows
          <5> QED
            BY <1>5, <2>4, <2>5, <3>9, <5>1 DEF Knows
        <4>4. Knows(request[c], e)'
          BY <2>6, <4>3 DEF Knows, Follows
        <4>5. CASE a \in Current /\ Latest(a).env = e
          <5>1. r.prev = e /\ ~ r.create
            BY <1>0, <1>1, <1>2, <2>9, <3>3, <4>5 DEF Knows
          <5>2. e \in ToSet(q) /\ e \in Syncing(c)'
            BY <2>2, <2>5, <2>6, <5>1 DEF Syncing
          <5> QED
            BY <3>1, <3>4, <3>6, <4>2, <4>4, <5>2
        <4>6. CASE ~ (a \in Current /\ Latest(a).env = e)
          <5>1. HostsOf(e)' = HostsOf(e)
            BY <2>7, <2>8, <3>9, <4>1, <4>6 DEF HostsOf
          <5>2. Due(e)' = Due(e)
            BY <1>5, <5>1 DEF Due
          <5>3. UpToDate(e)'
            <6>1. CASE Follows(proxy[e], e)
              BY <3>7, <5>2, <6>1
            <6>2. CASE ~ Follows(proxy[e], e)
              <7>1. PICK d \in Client : e \in ToSet(request[d].sync)
                BY <3>2, <6>2 DEF UpToDate
              <7>2. e \in ToSet(request'[d].sync)
                BY <2>6, <3>5, <7>1
              <7> QED
                BY <7>2 DEF UpToDate
            <6> QED
              BY <6>1, <6>2
          <5>4. ASSUME NEW d \in Client \ {c} PROVE Knows(request[d], e)'
            <6>1. PICK h : h = request'[d]
              OBVIOUS
            <6>2. Knows(h, e)
              BY <2>6, <3>2, <6>1
            <6>3. \A p : Follows(p, e)' <=> Follows(p, e)
              BY <2>7, <5>2 DEF Follows
            <6>4. Knows(h, e)'
              BY <1>5, <4>1, <6>2, <6>3 DEF Knows
            <6> QED
              BY <6>1, <6>4 DEF Knows, Follows
          <5> QED
            BY <3>1, <4>2, <4>4, <5>3, <5>4
        <4> QED
          BY <4>5, <4>6
      <3> QED
        BY <3>8, <3>9
    <2> QED
      BY <2>6, <2>10, <2>11, <2>12, <2>13 DEF CatalogInv
  <1> QED
    BY <1>1, <1>2, <1>3, <1>6, <1>7 DEF InsertVersion

(* The first state, and every step.                                         *)
LEMMA InitInvariant == CatalogInit => CatalogInv
  <1> SUFFICES ASSUME CatalogInit PROVE CatalogInv
    OBVIOUS
  <1>1. /\ \A a \in Agent : agents[a] = "new" /\ versions[a] = <<>>
        /\ \A c \in Client : request[c] = Idle
        /\ \A e \in Env : envs[e] = [row |-> TRUE, mcp |-> TRUE] /\ proxy[e] = {}
    BY DEF CatalogInit
  <1>2. Current = {}
    BY <1>1 DEF Current, Live
  <1>3. CatalogTyped
    <2>1. <<>> \in Seq(Config) /\ Idle \in RequestRecord /\ [row |-> TRUE, mcp |-> TRUE] \in EnvRow
      BY EmptySeq, IdleType DEF EnvRow
    <2> QED
      BY <2>1 DEF CatalogInit, CatalogTyped
  <1>4. Shapes
    BY <1>1, IdleType DEF Shapes
  <1>5. Creating
    BY <1>1, IdleFields DEF Creating, Early
  <1>6. Writers
    BY <1>1, <1>2, IdleFields DEF Writers, KeepsLocks, NoOther, Unique, Checked
  <1>7. Proxies
    <2> SUFFICES ASSUME NEW e \in Env
        PROVE  Alone(e) /\ Bound(e) /\ UpToDate(e) /\ \A c \in Client : Knows(request[c], e)
      BY DEF Proxies
    <2>1. Idle.pc \notin Saves /\ Idle.pc \notin Syncs /\ ToSet(Idle.sync) = {}
          /\ Idle.config = NoConfig /\ Idle.prev = None /\ Idle.pc \notin {"envTear", "envGone"}
      BY IdleFields, NoQueue DEF Saves, Syncs
    <2>2. \A c \in Client : Knows(request[c], e)
      BY <1>1, <2>1, BlankKnows
    <2>3. \A c \in Client : e \notin Syncing(c)
      BY <1>1, <1>2, <2>1, IdleFields, AgentCatalogAssumption DEF Syncing
    <2>4. Follows(proxy[e], e)
      BY <1>1, <1>2 DEF Follows, Due, HostsOf
    <2> QED
      BY <1>2, <2>2, <2>3, <2>4 DEF Alone, Bound, UpToDate
  <1> QED
    BY <1>3, <1>4, <1>5, <1>6, <1>7 DEF CatalogInv

LEMMA AskedStep ==
  ASSUME CatalogInv, Follow, NEW c \in Client, Asked(c)
  PROVE  CatalogInv'
  <1>1. ASSUME NEW a \in Agent, NEW g \in Config, CreateAgent(c, a, g) PROVE CatalogInv'
    BY <1>1, SaveStep DEF CreateAgent
  <1>2. ASSUME NEW a \in Agent, NEW g \in Config, CreateVersion(c, a, g) PROVE CatalogInv'
    BY <1>2, SaveStep DEF CreateVersion
  <1>3. ASSUME NEW e \in Env, PatchEnv(c, e) PROVE CatalogInv'
    BY <1>3, PatchEnvStep
  <1>4. ASSUME NEW e \in Env, DeleteEnv(c, e) PROVE CatalogInv'
    <2>1. e \in Target /\ "envTear" \in {"skillGone", "wikiGone", "envTear"}
      BY DEF Target
    <2> QED
      BY <1>4, <2>1, DeleteStep DEF DeleteEnv
  <1>5. ASSUME NEW k \in Skill, DeleteSkill(c, k) PROVE CatalogInv'
    <2>1. k \in Target /\ "skillGone" \in {"skillGone", "wikiGone", "envTear"}
      BY DEF Target
    <2> QED
      BY <1>5, <2>1, DeleteStep DEF DeleteSkill
  <1>6. ASSUME NEW w \in Wiki, DeleteWiki(c, w) PROVE CatalogInv'
    <2>1. w \in Target /\ "wikiGone" \in {"skillGone", "wikiGone", "envTear"}
      BY DEF Target
    <2> QED
      BY <1>6, <2>1, DeleteStep DEF DeleteWiki
  <1>7. ASSUME NEW a \in Agent, DeleteAgent(c, a) PROVE CatalogInv'
    BY <1>7, DeleteAgentStep
  <1> QED
    BY <1>1, <1>2, <1>3, <1>4, <1>5, <1>6, <1>7 DEF Asked

LEMMA ServeStep ==
  ASSUME CatalogInv, Follow, NEW c \in Client, Serve(c)
  PROVE  CatalogInv'
  <1>1. CASE CheckSkills(c) \/ Connect(c) \/ Lock(c) \/ TimeOut(c) \/ CheckRefs(c)
    BY <1>1, CheckSkillsStep, ConnectStep, LockActionStep, TimeOutStep, CheckRefsStep
  <1>2. CASE InsertAgent(c) \/ ReadPrev(c) \/ NumberVersion(c) \/ InsertVersion(c)
    BY <1>2, InsertAgentStep, ReadPrevStep, NumberVersionStep, InsertVersionStep
  <1>3. CASE Release(c) \/ ReadHosts(c) \/ Ensure(c) \/ ReadPrevEnv(c)
    BY <1>3, ReleaseStep, ReadHostsStep, EnsureStep, ReadPrevEnvStep
  <1>4. CASE SkillGone(c) \/ WikiGone(c) \/ EnvTear(c) \/ EnvGone(c)
    BY <1>4, GoneStep, EnvTearStep, EnvGoneStep
  <1> QED
    BY <1>1, <1>2, <1>3, <1>4 DEF Serve

LEMMA StutterInvariant ==
  ASSUME CatalogInv, UNCHANGED catalogVars
  PROVE  CatalogInv'
  <1> USE DEF catalogVars
  <1>1. CatalogTyped' /\ Shapes'
    BY DEF CatalogInv, CatalogTyped, Shapes, Shape, Idle
  <1>2. Creating'
    BY DEF CatalogInv, Creating
  <1>3. Current' = Current /\ Gone' = Gone /\ \A a : Latest(a)' = Latest(a)
    BY DEF Current, Live, Gone, Latest
  <1>4. Writers'
    BY <1>3 DEF CatalogInv, Writers, KeepsLocks, NoOther, WriterOtherThan, Unique
  <1>5. \A e : HostsOf(e)' = HostsOf(e)
    BY <1>3 DEF HostsOf
  <1>6. \A e : Due(e)' = Due(e)
    BY <1>5 DEF Due
  <1>7. Proxies'
    <2> SUFFICES ASSUME NEW e \in Env \ mixed
        PROVE  Alone(e)' /\ Bound(e)' /\ UpToDate(e)' /\ \A c \in Client : Knows(request[c], e)'
      BY DEF Proxies
    <2>1. Alone(e) /\ Bound(e) /\ UpToDate(e) /\ \A c \in Client : Knows(request[c], e)
      BY DEF CatalogInv, Proxies
    <2>2. \A q : Follows(q, e)' <=> Follows(q, e)
      BY <1>3, <1>6 DEF Follows
    <2>3. Alone(e)'
      BY <1>3, <2>1 DEF Alone, Syncing
    <2>4. Bound(e)'
      BY <1>3, <2>1 DEF Bound
    <2>5. UpToDate(e)'
      BY <1>3, <1>6, <2>1 DEF UpToDate, Follows
    <2>6. ASSUME NEW c \in Client PROVE Knows(request[c], e)'
      <3>1. PICK r : r = request[c]
        OBVIOUS
      <3>2. Knows(r, e)
        BY <2>1, <3>1
      <3>3. Knows(r, e)'
        BY <1>3, <2>2, <3>2 DEF Knows
      <3> QED
        BY <3>1, <3>3 DEF Knows, Follows
    <2> QED
      BY <2>3, <2>4, <2>5, <2>6
  <1> QED
    BY <1>1, <1>2, <1>4, <1>7 DEF CatalogInv

(* The inductive invariant holds always: locks are held from the check to   *)
(* the new version, and proxies are up to date or still to be refreshed.    *)
THEOREM CatalogInvariant == CatalogSpec => []CatalogInv
  <1>1. CatalogInv /\ [CatalogNext]_catalogVars => CatalogInv'
    BY AskedStep, ServeStep, StutterInvariant DEF CatalogNext
  <1> QED
    BY <1>1, InitInvariant, PTL DEF CatalogSpec

(* A wiki has at most one agent whose current version may write it          *)
(* (SingleWriter), for any number of saves of any agents at once: a save    *)
(* looks for another writer under an advisory lock per wiki that it holds   *)
(* until the version is in (agents-api.ts, repo.ts acquireWikiWriteLock).   *)
THEOREM SingleWriterAlways == CatalogSpec => []SingleWriter
  <1>1. CatalogInv => SingleWriter
    <2> SUFFICES ASSUME CatalogInv, NEW w \in Wiki
        PROVE  Cardinality({a \in Current : w \in Latest(a).writes}) <= 1
      BY DEF SingleWriter
    <2> DEFINE S == {a \in Current : w \in Latest(a).writes}
    <2>1. \A a, b \in S : a = b
      BY DEF CatalogInv, Writers, Unique
    <2>2. CASE S = {}
      <3>1. Cardinality(S) = 0
        BY <2>2, FS_EmptySet
      <3> QED
        BY <3>1
    <2>3. CASE S # {}
      <3>1. PICK a \in S : TRUE
        BY <2>3
      <3>2. S = {a}
        BY <2>1, <3>1
      <3>3. Cardinality(S) = 1
        BY <3>2, FS_Singleton
      <3> QED
        BY <3>3
    <2> QED
      BY <2>2, <2>3
  <1> QED
    BY <1>1, CatalogInvariant, PTL

(* When no request is under way, the proxy of an environment lets through   *)
(* the MCP hosts of exactly the agents whose current version is bound to    *)
(* it, and beyond them at most those of deleted agents                      *)
(* (ProxyFollowsVersions): a save refreshes the environment it leaves and   *)
(* the one it enters after the version is in. Environments that two         *)
(* overlapping requests were about are set aside (mixed): the code does not *)
(* order them.                                                              *)
THEOREM ProxiesFollow == CatalogSpec => []ProxyFollowsVersions
  <1>1. CatalogInv => ProxyFollowsVersions
    <2> SUFFICES ASSUME CatalogInv, \A c \in Client : request[c].pc = "idle", NEW e \in Env \ mixed
        PROVE  Follows(proxy[e], e)
      BY DEF ProxyFollowsVersions, Follows, Due, Gone
    <2>1. ASSUME NEW c \in Client PROVE e \notin ToSet(request[c].sync)
      BY IdleFields, NoQueue DEF CatalogInv, Shapes, Shape
    <2> QED
      BY <2>1 DEF CatalogInv, Proxies, UpToDate
  <1> QED
    BY <1>1, CatalogInvariant, PTL
================================================================================
