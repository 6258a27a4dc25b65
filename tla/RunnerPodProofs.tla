----------------------------- MODULE RunnerPodProofs ----------------------------
(***************************************************************************)
(* Proofs about RunnerPod, for every number of turns and calls, all sizes  *)
(* and limits, and any memory store: what is saved and what is sent to the *)
(* model is a valid transcript, an output is published once, and salvage   *)
(* leaves alone what the agent did not touch.                              *)
(***************************************************************************)
EXTENDS RunnerPod, WellFoundedInduction, TLAPS

MessageKind == {"prompt", "note", "summary", "answer", "use", "results"}
MessageType == [kind : MessageKind, size : Nat]

(* A transcript that may be sent, saved or resumed.                         *)
WellFormed(h) == h # <<>> /\ Valid(h)

Typed ==
  history \in Seq(MessageType) /\ disk \in Seq(MessageType) /\ kept \in Seq(MessageType)

Resumable(h) == h # <<>> => Valid(h)

(* While the query runs its history is a transcript that may be sent, but   *)
(* for tool uses that wait for their results.                               *)
InQuery == {"top", "summarise", "drop", "ask", "answering", "using", "telling"}

QueryHolds ==
  /\ pc \in InQuery => WellFormed(history)
  /\ pc = "running" => \E h \in Seq(MessageType) :
       WellFormed(h) /\ history = Append(h, Message("use", 1))

TranscriptInv == Typed /\ SavedIsValid /\ QueryHolds

(* The pod's outputs are of its own turn, and none is left between pods; so *)
(* every output bears the turn that published it.                           *)
OutputsOfTurn ==
  /\ turn \in Nat
  /\ outbox \subseteq {turn}
  /\ pc = "rest" => outbox = {}
  /\ \A x \in published : \E n \in Nat : x = <<n, n>>

(* The agent touched whatever differs from the baseline.                    *)
TouchedInv ==
  /\ others \in Nat
  /\ DOMAIN memory = Path /\ DOMAIN payload.memory = Path /\ DOMAIN store = Path
  /\ \A p \in Path : memory[p] # baseline[p] => p \in touched
-------------------------------------------------------------------------------
(* Messages appended to a transcript (query.py).                            *)
LEMMA MessageTypes ==
  ASSUME NEW k \in MessageKind, NEW n \in Nat
  PROVE  Message(k, n) \in MessageType
  BY DEF Message, MessageType

LEMMA Appended ==
  ASSUME NEW h \in Seq(MessageType), NEW m \in MessageType
  PROVE  /\ Append(h, m) \in Seq(MessageType)
         /\ Append(h, m) # <<>>
         /\ Len(Append(h, m)) = Len(h) + 1
         /\ Append(h, m)[Len(h) + 1] = m
         /\ \A i \in 1..Len(h) : Append(h, m)[i] = h[i]
         /\ Head(Append(h, m)) = IF h = <<>> THEN m ELSE Head(h)
  OBVIOUS

(* A prompt or an answer after a valid transcript, or as its first message. *)
LEMMA AppendAnswer ==
  ASSUME NEW h \in Seq(MessageType), WellFormed(h), NEW m \in MessageType,
         m.kind \notin {"use", "results"}
  PROVE  WellFormed(Append(h, m))
  <1> DEFINE a == Append(h, m)
  <1>1. /\ a # <<>> /\ Len(a) = Len(h) + 1 /\ a[Len(h) + 1] = m
        /\ \A i \in 1..Len(h) : a[i] = h[i]
        /\ Head(a) = Head(h) /\ Len(h) \in Nat \ {0}
    BY Appended DEF WellFormed
  <1>2. Plain(Head(h)) /\ h[Len(h)].kind # "use"
        /\ \A i \in 1..(Len(h) - 1) : h[i].kind = "use" <=> h[i + 1].kind = "results"
    BY DEF WellFormed, Valid
  <1> HIDE DEF a
  <1>3. ASSUME NEW i \in 1..(Len(a) - 1)
        PROVE  a[i].kind = "use" <=> a[i + 1].kind = "results"
    <2>1. CASE i = Len(h)
      BY <1>1, <1>2, <2>1
    <2>2. CASE i # Len(h)
      <3>1. i \in 1..(Len(h) - 1) /\ i \in 1..Len(h) /\ i + 1 \in 1..Len(h)
        BY <1>1, <2>2
      <3>2. QED
        BY <1>1, <1>2, <3>1
    <2>3. QED
      BY <2>1, <2>2
  <1>4. QED
    BY <1>1, <1>2, <1>3 DEF WellFormed, Valid, a

(* Tool uses with their results.                                            *)
LEMMA AppendPair ==
  ASSUME NEW h \in Seq(MessageType), WellFormed(h), NEW n \in Nat
  PROVE  WellFormed(Append(Append(h, Message("use", 1)), Message("results", n)))
  <1> DEFINE u == Message("use", 1)
             m == Message("results", n)
             a == Append(h, u)
             b == Append(a, m)
  <1>1. u \in MessageType /\ m \in MessageType /\ u.kind = "use" /\ m.kind = "results"
    BY MessageTypes DEF MessageKind, Message
  <1> HIDE DEF u, m
  <1>2. /\ a \in Seq(MessageType) /\ Len(a) = Len(h) + 1 /\ a[Len(h) + 1] = u
        /\ \A i \in 1..Len(h) : a[i] = h[i]
        /\ a # <<>> /\ Head(a) = Head(h) /\ Len(h) \in Nat \ {0}
    BY <1>1, Appended DEF WellFormed
  <1> HIDE DEF a
  <1>3. /\ b # <<>> /\ Len(b) = Len(h) + 2 /\ b[Len(h) + 2] = m /\ b[Len(h) + 1] = u
        /\ \A i \in 1..Len(h) : b[i] = h[i]
        /\ Head(b) = Head(h)
    <2>1. /\ b # <<>> /\ Len(b) = Len(a) + 1 /\ b[Len(a) + 1] = m /\ Head(b) = Head(a)
          /\ \A i \in 1..Len(a) : b[i] = a[i]
      BY <1>1, <1>2, Appended
    <2> HIDE DEF b
    <2>2. QED
      BY <1>2, <2>1
  <1> HIDE DEF b
  <1>4. Plain(Head(h)) /\ h[Len(h)].kind # "use"
        /\ \A i \in 1..(Len(h) - 1) : h[i].kind = "use" <=> h[i + 1].kind = "results"
    BY DEF WellFormed, Valid
  <1>5. ASSUME NEW i \in 1..(Len(b) - 1)
        PROVE  b[i].kind = "use" <=> b[i + 1].kind = "results"
    <2>1. CASE i = Len(h)
      BY <1>1, <1>2, <1>3, <1>4, <2>1
    <2>2. CASE i = Len(h) + 1
      BY <1>1, <1>2, <1>3, <2>2
    <2>3. CASE i < Len(h)
      <3>1. i \in 1..(Len(h) - 1) /\ i \in 1..Len(h) /\ i + 1 \in 1..Len(h)
        BY <1>2, <2>3
      <3>2. QED
        BY <1>3, <1>4, <3>1
    <2>4. QED
      BY <1>2, <1>3, <2>1, <2>2, <2>3
  <1>6. b[Len(b)].kind # "use"
    BY <1>1, <1>2, <1>3
  <1>7. QED
    BY <1>3, <1>4, <1>5, <1>6 DEF WellFormed, Valid, b, a, u, m

(* A single plain message is a transcript.                                  *)
LEMMA AloneIsValid ==
  ASSUME NEW m \in MessageType, Plain(m)
  PROVE  <<m>> \in Seq(MessageType) /\ WellFormed(<<m>>)
  <1>1. Len(<<m>>) = 1 /\ Head(<<m>>) = m /\ <<m>>[1] = m
    OBVIOUS
  <1>2. m.kind # "use"
    BY DEF Plain
  <1>3. QED
    BY <1>1, <1>2 DEF WellFormed, Valid

(* A set of indexes has a least one.                                        *)
LEMMA LeastIndex ==
  ASSUME NEW T \in SUBSET Nat, T # {}
  PROVE  \E i \in T : \A j \in T : i <= j
  <1> DEFINE R == {x \in Nat \X Nat : x[1] < x[2]}
  <1>1. IsWellFoundedOn(R, Nat)
    BY NatLessThanWellFounded DEF OpToRel
  <1>2. PICK i \in T : \A j \in T : <<j, i>> \notin R
    <2> HIDE DEF R
    <2>1. QED
      BY <1>1, WFMin
  <1>3. \A j \in T : ~(j < i)
    BY <1>2
  <1>4. QED
    BY <1>3

(* What is left of a transcript that is cut where a plain message begins.   *)
LEMMA CutIsValid ==
  ASSUME NEW h \in Seq(MessageType), WellFormed(h), NEW k \in 1..Len(h), Plain(h[k]),
         NEW m \in MessageType, Plain(m)
  PROVE  /\ <<m>> \o SubSeq(h, k, Len(h)) \in Seq(MessageType)
         /\ WellFormed(<<m>> \o SubSeq(h, k, Len(h)))
  <1> DEFINE c == SubSeq(h, k, Len(h))
             d == <<m>> \o c
  <1>1. Len(h) \in Nat /\ k \in Nat /\ k <= Len(h) /\ 1 <= k
    OBVIOUS
  <1>2. /\ c \in Seq(MessageType) /\ Len(c) = Len(h) - k + 1
        /\ \A i \in 1..(Len(h) - k + 1) : c[i] = h[k + i - 1]
    BY <1>1
  <1> HIDE DEF c
  <1>3. /\ d \in Seq(MessageType) /\ Len(d) = Len(c) + 1 /\ Head(d) = m /\ d # <<>> /\ d[1] = m
        /\ \A i \in 2..(Len(c) + 1) : d[i] = c[i - 1]
    <2>1. <<m>> \in Seq(MessageType) /\ Len(<<m>>) = 1 /\ <<m>>[1] = m
      OBVIOUS
    <2>2. /\ d \in Seq(MessageType) /\ Len(d) = Len(c) + 1
          /\ \A i \in 1..Len(d) : d[i] = IF i <= 1 THEN <<m>>[i] ELSE c[i - 1]
      BY <1>2, <2>1
    <2> HIDE DEF d
    <2>3. Len(d) \in Nat \ {0} /\ d[1] = m
      BY <1>1, <1>2, <2>1, <2>2
    <2>4. d # <<>> /\ Head(d) = d[1]
      BY <2>2, <2>3
    <2>5. ASSUME NEW i \in 2..(Len(c) + 1) PROVE d[i] = c[i - 1]
      BY <2>2, <1>2, <1>1
    <2>6. QED
      BY <2>2, <2>3, <2>4, <2>5
  <1> HIDE DEF d
  <1>4. \A i \in 2..Len(d) : d[i] = h[k + i - 2]
    BY <1>1, <1>2, <1>3
  <1>5. h[Len(h)].kind # "use"
        /\ \A i \in 1..(Len(h) - 1) : h[i].kind = "use" <=> h[i + 1].kind = "results"
    BY DEF WellFormed, Valid
  <1>6. ASSUME NEW i \in 1..(Len(d) - 1)
        PROVE  d[i].kind = "use" <=> d[i + 1].kind = "results"
    <2>1. CASE i = 1
      <3>1. d[2] = h[k]
        BY <1>1, <1>2, <1>3, <1>4
      <3>2. QED
        BY <1>3, <2>1, <3>1 DEF Plain
    <2>2. CASE i # 1
      <3>1. /\ i \in 2..Len(d) /\ i + 1 \in 2..Len(d)
            /\ k + i - 2 \in 1..(Len(h) - 1) /\ k + (i + 1) - 2 = (k + i - 2) + 1
        BY <1>1, <1>2, <1>3, <2>2
      <3>2. d[i] = h[k + i - 2] /\ d[i + 1] = h[k + (i + 1) - 2]
        BY <1>4, <3>1
      <3>3. QED
        BY <1>5, <3>1, <3>2
    <2>3. QED
      BY <2>1, <2>2
  <1>7. d[Len(d)] = h[Len(h)]
    BY <1>1, <1>2, <1>3, <1>4
  <1>8. QED
    BY <1>3, <1>5, <1>6, <1>7 DEF WellFormed, Valid, d, c

(* Dropping the older half leaves a valid transcript (compact.py,           *)
(* drop_oldest).                                                            *)
LEMMA DropKeepsValid ==
  ASSUME NEW h \in Seq(MessageType), WellFormed(h)
  PROVE  DropOldest(h) \in Seq(MessageType) /\ WellFormed(DropOldest(h))
  <1> DEFINE from == {i \in DOMAIN h : i > Len(h) \div 2 /\ Plain(h[i])}
             k == CHOOSE i \in from : \A j \in from : i <= j
  <1>1. Message("note", 1) \in MessageType /\ Plain(Message("note", 1))
    BY MessageTypes DEF MessageKind, Message, Plain
  <1>2. CASE from = {}
    <2>1. DropOldest(h) = <<Message("note", 1)>> \o <<>>
      BY <1>2 DEF DropOldest
    <2>2. <<Message("note", 1)>> \o <<>> = <<Message("note", 1)>>
      OBVIOUS
    <2>3. QED
      BY <1>1, <2>1, <2>2, AloneIsValid
  <1>3. CASE from # {}
    <2>1. from \in SUBSET Nat
      OBVIOUS
    <2>2. k \in from
      <3> HIDE DEF from
      <3>1. QED
        BY <1>3, <2>1, LeastIndex
    <2>3. k \in 1..Len(h) /\ Plain(h[k])
      BY <2>2
    <2>4. DropOldest(h) = <<Message("note", 1)>> \o SubSeq(h, k, Len(h))
      BY <1>3 DEF DropOldest
    <2> HIDE DEF k, from
    <2>5. QED
      BY <1>1, <2>3, <2>4, CutIsValid
  <1>4. QED
    BY <1>2, <1>3

(* A transcript as text has no tool blocks (query.py, _textified).          *)
LEMMA TextIsValid ==
  ASSUME NEW h \in Seq(MessageType), WellFormed(h)
  PROVE  WellFormed(Textified(h)) /\ ~ToolBlocks(Textified(h))
  <1> DEFINE t == Textified(h)
  <1>1. Len(h) \in Nat \ {0} /\ DOMAIN h = 1..Len(h)
    BY DEF WellFormed
  <1>2. DOMAIN t = 1..Len(h)
    BY <1>1 DEF Textified
  <1>3. \A i \in 1..Len(h) : t[i].kind = CASE h[i].kind = "use" -> "answer"
                                           [] h[i].kind = "results" -> "prompt"
                                           [] OTHER -> h[i].kind
    BY <1>1 DEF Textified, Message
  <1>4. \A i \in 1..Len(h) : t[i].kind \notin {"use", "results"}
    BY <1>3
  <1>5. t \in Seq(MessageType)
    <2>1. \A i \in 1..Len(h) : h[i] \in MessageType
      BY <1>1
    <2>2. \A i \in 1..Len(h) : t[i] \in MessageType
      BY <1>1, <2>1 DEF Textified, Message, MessageType, MessageKind
    <2>3. t = [i \in 1..Len(h) |-> t[i]]
      BY <1>1 DEF Textified
    <2> HIDE DEF t
    <2>4. QED
      BY <1>1, <1>2, <2>2, <2>3
  <1>6. Plain(Head(t))
    <2>1. Head(t) = t[1] /\ Head(h) = h[1]
      BY <1>1, <1>5, <1>2
    <2>2. Plain(h[1])
      BY <2>1 DEF WellFormed, Valid
    <2>3. QED
      BY <1>1, <1>3, <2>1, <2>2 DEF Plain
  <1> HIDE DEF t
  <1>7. Len(t) = Len(h) /\ t # <<>>
    BY <1>1, <1>2, <1>5
  <1>8. QED
    BY <1>1, <1>2, <1>4, <1>6, <1>7 DEF WellFormed, Valid, ToolBlocks, t
-------------------------------------------------------------------------------
(* What a step does to the transcripts.                                     *)
Passes ==
  /\ UNCHANGED <<history, disk, kept>>
  /\ pc' \in InQuery => pc \in InQuery
  /\ pc' = "running" => pc = "running"
Forgets ==
  /\ history' = <<>> /\ disk' \in {disk, <<>>} /\ kept' \in {kept, disk}
  /\ pc' \notin InQuery \cup {"running"}
Begins(n) ==
  /\ history' = Append(disk, Message("prompt", n)) /\ disk' = history'
  /\ pc' = "top"
Says(k, n) == history' = Append(history, Message(k, n))

LEMMA StepKinds ==
  ASSUME [Next]_vars
  PROVE  \/ Passes
         \/ Forgets
         \/ /\ kept' = kept
            /\ \/ Restore
               \/ \E n \in Nat : Begins(n)
               \/ Answer \/ Use \/ Summarise \/ Drop \/ Dropped
               \/ pc = "running" /\ pc' = "telling" /\ disk' = history'
                  /\ \E n \in Nat : Says("results", n)
  <1> DEFINE Kinds == \/ Passes
                      \/ Forgets
                      \/ /\ kept' = kept
                         /\ \/ Restore
                            \/ \E n \in Nat : Begins(n)
                            \/ Answer \/ Use \/ Summarise \/ Drop \/ Dropped
                            \/ pc = "running" /\ pc' = "telling" /\ disk' = history'
                               /\ \E n \in Nat : Says("results", n)
  <1>1. CASE Restore \/ Answer \/ Use \/ Summarise \/ Drop \/ Dropped
    BY <1>1 DEF Restore, Answer, Use, Summarise, Drop, Dropped
  <1>2. CASE Start \/ WrapUp
    <2>1. PromptSizes \subseteq Nat
      BY AgentLoopAssumption
    <2>2. kept' = kept /\ \E n \in Nat : Begin(disk, n)
      BY <1>2, <2>1 DEF Start, WrapUp
    <2>3. QED
      BY <2>2 DEF Begin, Begins
  <1>3. CASE SpendBudget \/ Iterate \/ Tell \/ SaveCheckpoint \/ PatienceEnds \/ Abort \/ FollowUp
    BY <1>3 DEF SpendBudget, Iterate, Tell, SaveCheckpoint, PatienceEnds, Abort, FollowUp, Passes,
      InQuery
  <1>4. CASE Finish \/ EmitFails \/ ServerBreaksQuery \/ Report \/ Evict
    BY <1>4 DEF Finish, EmitFails, ServerBreaksQuery, QueryRaises, QueryOver, Report, Evict,
      PodGone, Forgets, InQuery
  <1>5. CASE CallRefused \/ RetryPatiently \/ RetryBounded \/ Respond
    BY <1>5 DEF CallRefused, RetryPatiently, RetryBounded, Respond, CallRaises, Calling, Passes,
      InQuery
  <1>6. CASE UseTools
    <2>1. PICK n \in Results : Append1(Message("results", n))
      BY <1>6 DEF UseTools, RunTools
    <2>2. n \in Nat
      BY AgentLoopAssumption DEF Results, Capped
    <2>3. QED
      BY <1>6, <2>1, <2>2 DEF UseTools, RunTools, Append1, Says
  <1>7. ASSUME NEW from, NEW to, Staged(from, to), to \notin InQuery \cup {"running"} PROVE Kinds
    BY <1>7 DEF Staged, Passes
  <1>8. CASE StageSkills \/ StageMemory \/ StageFiles \/ SyncOutputs \/ SyncMemory
    <2>1. \/ Abort
          \/ \E from, to : Staged(from, to) /\ to \notin InQuery \cup {"running"}
      BY <1>8 DEF StageSkills, StageMemory, StageFiles, SyncOutputs, SyncMemory, StepEnds, InQuery
    <2>2. QED
      BY <1>3, <1>7, <2>1
  <1>9. CASE OtherSyncs \/ UNCHANGED vars
    BY <1>9 DEF OtherSyncs, vars, loopVars, Passes
  <1>10. CASE Launch \/ StageFails \/ Ends(Report) \/ Ends(Evict)
    BY <1>3, <1>4, <1>10 DEF Launch, StageFails, Ends
  <1>11. QED
    BY <1>1, <1>2, <1>3, <1>4, <1>5, <1>6, <1>8, <1>9, <1>10
      DEF Next, Run, Loop, CallStep, Call, WindowStep, Fails

(* Every step keeps the transcripts valid (query.py, compact.py).           *)
LEMMA TranscriptStep == TranscriptInv /\ [Next]_vars => TranscriptInv'
  <1> SUFFICES ASSUME TranscriptInv, [Next]_vars PROVE TranscriptInv'
    OBVIOUS
  <1> DEFINE M == Seq(MessageType)
  <1>1. /\ history \in M /\ disk \in M /\ kept \in M
        /\ Resumable(disk) /\ Resumable(kept)
        /\ pc \in InQuery => WellFormed(history)
        /\ pc = "running" => \E h \in M : WellFormed(h) /\ history = Append(h, Message("use", 1))
    BY DEF TranscriptInv, Typed, SavedIsValid, QueryHolds, Resumable
  <1>3. SUFFICES /\ history' \in M /\ disk' \in M /\ kept' \in M
                 /\ Resumable(disk') /\ Resumable(kept')
                 /\ pc' \in InQuery => WellFormed(history')
                 /\ pc' = "running" => \E h \in M : WellFormed(h) /\ history' = Append(h, Message("use", 1))
    BY <1>3 DEF TranscriptInv, Typed, SavedIsValid, QueryHolds, Resumable
  <1>4. \A h \in M : WellFormed(h) => Resumable(h)
    BY DEF WellFormed, Resumable
  <1>5. <<>> \in M /\ Resumable(<<>>)
    BY DEF Resumable
  <1>6. CASE Passes
    BY <1>1, <1>6 DEF Passes
  <1>7. CASE Forgets
    BY <1>1, <1>5, <1>7 DEF Forgets
  <1>8. CASE kept' = kept /\ Restore
    BY <1>1, <1>8 DEF Restore, InQuery
  <1>9. ASSUME kept' = kept, NEW n \in Nat, Begins(n)
        PROVE  /\ history' \in M /\ disk' = history' /\ kept' \in M
               /\ WellFormed(history') /\ pc' = "top"
    <2>1. Message("prompt", n) \in MessageType /\ Plain(Message("prompt", n))
          /\ Message("prompt", n).kind \notin {"use", "results"}
      BY MessageTypes DEF MessageKind, Message, Plain
    <2>2. history' \in M
      BY <1>1, <1>9, <2>1, Appended DEF Begins
    <2>3. CASE disk = <<>>
      <3>1. history' = <<Message("prompt", n)>>
        BY <1>9, <2>3 DEF Begins
      <3>2. QED
        BY <1>1, <1>9, <2>1, <2>2, <3>1, AloneIsValid DEF Begins
    <2>4. CASE disk # <<>>
      BY <1>1, <1>9, <2>1, <2>2, <2>4, AppendAnswer DEF Begins, Resumable, WellFormed
    <2>5. QED
      BY <2>3, <2>4
  <1>10. CASE kept' = kept /\ Answer
    <2>1. Message("answer", 1) \in MessageType /\ Message("answer", 1).kind \notin {"use", "results"}
      BY MessageTypes DEF MessageKind, Message
    <2>2. WellFormed(history)
      BY <1>1, <1>10 DEF Answer, InQuery
    <2>3. history' = Append(history, Message("answer", 1)) /\ disk' = history' /\ pc' = "ended"
      BY <1>10 DEF Answer, Append1
    <2>4. QED
      BY <1>1, <1>4, <1>10, <2>1, <2>2, <2>3, Appended, AppendAnswer DEF InQuery
  <1>11. CASE kept' = kept /\ Use
    <2>1. Message("use", 1) \in MessageType
      BY MessageTypes DEF MessageKind
    <2>2. WellFormed(history)
      BY <1>1, <1>11 DEF Use, InQuery
    <2>3. history' = Append(history, Message("use", 1)) /\ disk' = disk /\ pc' = "running"
      BY <1>11 DEF Use, Append1
    <2>4. QED
      BY <1>1, <1>11, <2>1, <2>2, <2>3, Appended DEF InQuery
  <1>12. CASE kept' = kept /\ Summarise
    <2>1. Message("summary", 1) \in MessageType /\ Plain(Message("summary", 1))
      BY MessageTypes DEF MessageKind, Message, Plain
    <2>2. history' = <<Message("summary", 1)>> /\ disk' = history' /\ pc' = "ask"
      BY <1>12 DEF Summarise, Compacted
    <2>3. QED
      BY <1>1, <1>4, <1>12, <2>1, <2>2, AloneIsValid
  <1>13. CASE kept' = kept /\ Drop
    <2>1. WellFormed(history)
      BY <1>1, <1>13 DEF Drop, InQuery
    <2>2. history' = DropOldest(history) /\ disk' = disk /\ pc' = "drop"
      BY <1>13 DEF Drop
    <2>3. QED
      BY <1>1, <1>13, <2>1, <2>2, DropKeepsValid
  <1>14. CASE kept' = kept /\ Dropped
    <2>1. WellFormed(history)
      BY <1>1, <1>14 DEF Dropped, InQuery
    <2>2. history' = history /\ disk' = history /\ pc' = "ask"
      BY <1>14 DEF Dropped, Compacted
    <2>3. QED
      BY <1>1, <1>4, <1>14, <2>1, <2>2
  <1>15. ASSUME kept' = kept, pc = "running", pc' = "telling", disk' = history',
                NEW n \in Nat, Says("results", n)
         PROVE  history' \in M /\ WellFormed(history')
    <2>1. PICK h \in M : WellFormed(h) /\ history = Append(h, Message("use", 1))
      BY <1>1, <1>15
    <2>2. Message("results", n) \in MessageType
      BY MessageTypes DEF MessageKind
    <2>3. QED
      BY <1>1, <1>15, <2>1, <2>2, Appended, AppendPair DEF Says
  <1>16. QED
    BY <1>1, <1>4, <1>6, <1>7, <1>8, <1>9, <1>10, <1>11, <1>12, <1>13, <1>14, <1>15, StepKinds
      DEF InQuery
-------------------------------------------------------------------------------
(* What a step does to the outputs: only a tool writes one, only salvage    *)
(* publishes them, and the directory goes with the pod.                     *)
LEMMA OutputSteps ==
  ASSUME [Next]_vars
  PROVE  \/ UNCHANGED <<turn, outbox, published>> /\ (pc' = "rest" => pc = "rest")
         \/ /\ outbox' = outbox \cup {turn} /\ UNCHANGED <<turn, published>>
            /\ pc' # "rest"
         \/ /\ published' = published \cup {<<o, turn>> : o \in outbox} /\ UNCHANGED <<turn, outbox>>
            /\ pc' # "rest"
         \/ outbox' = {} /\ UNCHANGED <<turn, published>>
         \/ pc = "rest" /\ pc' # "rest" /\ turn' = turn + 1 /\ UNCHANGED <<outbox, published>>
  <1>1. CASE Loop /\ UNCHANGED podVars
    BY <1>1 DEF Loop, podVars, Restore, Start, Begin, SpendBudget, Iterate, Drop, Dropped, Compacted,
      Answer, Use, Tell, WrapUp, Finish, SaveCheckpoint, Abort
  <1>2. CASE (CallStep \/ WindowStep \/ Fails \/ StageFails)
    BY <1>2 DEF CallStep, Call, CallRefused, RetryPatiently, RetryBounded, CallRaises, Summarise,
      Compacted, Respond, WindowStep, PatienceEnds, Fails, EmitFails, ServerBreaksQuery, QueryRaises,
      StageFails, Abort, podVars
  <1>3. CASE StageSkills \/ StageMemory \/ StageFiles \/ SyncMemory
    BY <1>3 DEF StageSkills, StageMemory, StageFiles, SyncMemory, StepEnds, Staged, Abort, podVars
  <1>4. CASE UseTools
    BY <1>4 DEF UseTools, RunTools, EditMemory, WriteOutput
  <1>5. CASE SyncOutputs
    BY <1>5 DEF SyncOutputs, StepEnds, Staged, Abort
  <1>6. CASE Ends(Report) \/ Ends(Evict)
    BY <1>6 DEF Ends, Report, Evict, PodGone
  <1>7. CASE OtherSyncs \/ UNCHANGED vars
    BY <1>7 DEF OtherSyncs, vars, loopVars, podVars
  <1>8. CASE Launch
    BY <1>8 DEF Launch, FollowUp
  <1>9. QED
    BY <1>1, <1>2, <1>3, <1>4, <1>5, <1>6, <1>7, <1>8 DEF Next, Run

LEMMA OutputsStep == OutputsOfTurn /\ [Next]_vars => OutputsOfTurn'
  BY OutputSteps DEF OutputsOfTurn

(* What a step does to the agent's memory and its baseline.                 *)
LEMMA MemorySteps ==
  ASSUME [Next]_vars
  PROVE  /\ others' = others \/ others' = others + 1
         /\ \/ UNCHANGED <<memory, baseline, touched>>
            \/ /\ memory' = baseline' /\ touched' \in {touched, {}}
               /\ memory' \in {Empty, payload.memory}
            \/ \E p \in Path, c \in {Nothing, <<"own", turn>>} :
                 /\ memory' = [memory EXCEPT ![p] = c]
                 /\ touched' = touched \cup {p} /\ baseline' = baseline
  <1>1. CASE Loop /\ UNCHANGED podVars
    BY <1>1 DEF podVars
  <1>2. CASE (CallStep \/ WindowStep \/ Fails \/ StageFails)
    BY <1>2 DEF CallStep, WindowStep, Fails, StageFails, podVars
  <1>3. CASE StageSkills \/ StageMemory \/ StageFiles \/ SyncMemory
    BY <1>3 DEF StageSkills, StageMemory, StageFiles, SyncMemory, podVars
  <1>4. CASE UseTools
    BY <1>4 DEF UseTools, EditMemory, WriteOutput
  <1>5. CASE SyncOutputs \/ OtherSyncs \/ Launch \/ UNCHANGED vars
    BY <1>5 DEF SyncOutputs, OtherSyncs, Launch, vars, podVars
  <1>6. CASE Ends(Report) \/ Ends(Evict)
    BY <1>6 DEF Ends
  <1>7. QED
    BY <1>1, <1>2, <1>3, <1>4, <1>5, <1>6 DEF Next, Run

(* What it does to the store and to what the next pod is launched with.     *)
LEMMA StoreSteps ==
  ASSUME [Next]_vars
  PROVE  /\ \/ store' = store
            \/ others' = others + 1 /\ \E p \in Path : \E c : store' = [store EXCEPT ![p] = c]
            \/ SyncMemory
         /\ payload' \in {payload, NoPayload, Payload}
  <1>1. CASE Loop /\ UNCHANGED podVars
    BY <1>1 DEF podVars
  <1>2. CASE (CallStep \/ WindowStep \/ Fails \/ StageFails)
    BY <1>2 DEF CallStep, WindowStep, Fails, StageFails, podVars
  <1>3. CASE StageSkills \/ StageMemory \/ StageFiles \/ SyncMemory
    BY <1>3 DEF StageSkills, StageMemory, StageFiles, SyncMemory, podVars
  <1>4. CASE UseTools \/ SyncOutputs \/ OtherSyncs \/ Launch \/ UNCHANGED vars
    BY <1>4 DEF UseTools, SyncOutputs, OtherSyncs, Launch, vars, podVars
  <1>5. CASE Ends(Report) \/ Ends(Evict)
    BY <1>5 DEF Ends
  <1>6. QED
    BY <1>1, <1>2, <1>3, <1>4, <1>5 DEF Next, Run

LEMMA TouchedStep == TouchedInv /\ [Next]_vars => TouchedInv'
  <1> SUFFICES ASSUME TouchedInv, [Next]_vars PROVE TouchedInv'
    OBVIOUS
  <1>1. DOMAIN store' = Path
    BY StoreSteps DEF TouchedInv, SyncMemory
  <1>2. DOMAIN payload'.memory = Path
    <2>1. DOMAIN NoPayload.memory = Path /\ DOMAIN Payload.memory = Path
      BY DEF NoPayload, Payload, Empty, TouchedInv
    <2>2. QED
      BY <2>1, StoreSteps DEF TouchedInv
  <1>3. others' \in Nat
    BY MemorySteps DEF TouchedInv
  <1>4. DOMAIN memory' = Path /\ \A p \in Path : memory'[p] # baseline'[p] => p \in touched'
    <2>1. CASE UNCHANGED <<memory, baseline, touched>>
      BY <2>1 DEF TouchedInv
    <2>2. CASE memory' = baseline' /\ memory' \in {Empty, payload.memory}
      BY <2>2 DEF TouchedInv, Empty
    <2>3. ASSUME NEW p \in Path, NEW c, memory' = [memory EXCEPT ![p] = c],
                 touched' = touched \cup {p}, baseline' = baseline
          PROVE  DOMAIN memory' = Path /\ \A q \in Path : memory'[q] # baseline'[q] => q \in touched'
      BY <2>3 DEF TouchedInv
    <2>4. QED
      BY <2>1, <2>2, <2>3, MemorySteps
  <1>5. QED
    BY <1>1, <1>2, <1>3, <1>4 DEF TouchedInv

(* Salvage writes what the agent touched (sync_memory_back).                *)
LEMMA TouchedOnly ==
  ASSUME TouchedInv, [Next]_vars, others' = others, NEW p \in Path, store'[p] # store[p]
  PROVE  p \in touched
  <1>1. SyncMemory
    BY StoreSteps DEF TouchedInv
  <1>2. PICK done \in SUBSET Changed, gone \in {{}, Removed} :
          store' = [q \in Path |-> IF q \in done THEN memory[q]
                                   ELSE IF q \in gone THEN Nothing ELSE store[q]]
    BY <1>1 DEF SyncMemory
  <1>3. p \in done \/ p \in gone
    BY <1>2
  <1>4. memory[p] # baseline[p]
    BY <1>2, <1>3 DEF Changed, Removed
  <1>5. QED
    BY <1>4 DEF TouchedInv
-------------------------------------------------------------------------------
(* A session's first pod starts from nothing.                               *)
LEMMA InitInv == PodInit => TranscriptInv /\ OutputsOfTurn /\ TouchedInv
  BY DEF PodInit, Init, TranscriptInv, Typed, SavedIsValid, QueryHolds, InQuery, OutputsOfTurn,
    TouchedInv, Empty, NoPayload

(* The inductive invariant of a session's pods (runner, query.py,           *)
(* compact.py).                                                             *)
THEOREM Invariant == Spec => [](TranscriptInv /\ OutputsOfTurn /\ TouchedInv)
  BY InitInv, TranscriptStep, OutputsStep, TouchedStep, PTL DEF Spec

(* What is on the disk and in the checkpoint can be resumed from, wherever  *)
(* a pod dies.                                                              *)
THEOREM SavedIsResumable == Spec => []SavedIsValid
  BY Invariant, PTL DEF TranscriptInv

(* Every request carries a transcript a strict backend takes, and tool      *)
(* blocks only when it defines tools.                                       *)
THEOREM RequestsAccepted == Spec => []RequestsAreValid
  <1>1. TranscriptInv => RequestsAreValid
    <2> SUFFICES ASSUME TranscriptInv, Calling
                 PROVE  Valid(Request) /\ (ToolBlocks(Request) => pc = "ask" /\ tools)
      BY DEF RequestsAreValid
    <2>1. history \in Seq(MessageType) /\ WellFormed(history)
      BY DEF TranscriptInv, Typed, QueryHolds, Calling, InQuery
    <2>2. CASE pc = "ask" /\ tools
      BY <2>1, <2>2 DEF Request, WellFormed
    <2>3. CASE ~(pc = "ask" /\ tools)
      BY <2>1, <2>3, TextIsValid DEF Request, WellFormed
    <2>4. QED
      BY <2>2, <2>3
  <1>2. QED
    BY <1>1, Invariant, PTL

(* No output is published by two turns.                                     *)
THEOREM OutputsPublishedOnce == Spec => []PublishedOnce
  <1>1. OutputsOfTurn => PublishedOnce
    BY DEF OutputsOfTurn, PublishedOnce
  <1>2. QED
    BY <1>1, Invariant, PTL

(* Salvage writes no path the agent left alone.                             *)
THEOREM SalvageWritesTouched == Spec => UntouchedIsKept
  <1>1. TouchedInv /\ [Next]_vars =>
          [others' = others => \A p \in Path : store'[p] # store[p] => p \in touched]_vars
    BY TouchedOnly
  <1>2. QED
    BY <1>1, Invariant, PTL DEF Spec, UntouchedIsKept
===============================================================================
