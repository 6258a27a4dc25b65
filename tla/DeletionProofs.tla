---------------------------- MODULE DeletionProofs -----------------------------
(***************************************************************************)
(* Proofs about WorkspaceDeletion, for every number of writes, requests,   *)
(* drains and restarts and every lifetime of the guard's cache, and about  *)
(* ObjectStore, for every number of files, paths, requests, failed deletes *)
(* and restarts: what a deletion leaves behind, and what it must not take. *)
(***************************************************************************)
EXTENDS WorkspaceDeletion, ObjectStore, TLAPS

(***************************************************************************)
(* The drain of a workspace: one at a time, nothing left behind by a       *)
(* tombstone but what came in late, and no drain that fails but over such  *)
(* a row.                                                                  *)
(***************************************************************************)

Row == (Table \cup {"none"}) \X Nat
WriteRecord == [pc : {"idle", "file", "insert", "create", "free", "row"},
                table : Table \cup {"none"}, id : Nat]
RunRecord == [pc : {"idle", "list", "free", "row", "count", "tombstone", "failed"},
              pass : Nat, at : 1..6, batch : SUBSET Row]

(* What the rows, the writes and the drains are.                            *)
Typed ==
  /\ rows \subseteq Row
  /\ given \in Nat
  /\ write \in [Writer -> WriteRecord]
  /\ runner \in [Runner -> RunRecord]

(* A drain is under way only of a workspace that is being deleted.          *)
DrainOfDeletion ==
  raced \/ \A r \in Runner : runner[r].pc # "idle" => status = "deleting"

(* A drain that has rows to delete has them of the table it has come to.    *)
BatchOfTable ==
  \A r \in Runner :
    /\ runner[r].pc \in {"free", "row"} <=> runner[r].batch # {}
    /\ \A x \in runner[r].batch : x[1] = Order[runner[r].at]

(* A drain that has come to the files has deleted the skills that were      *)
(* there at the flip: those that are there came in later.                   *)
SkillsDrained ==
  raced \/ \A r \in Runner : runner[r].pc # "idle" /\ runner[r].at >= 3 =>
    \A x \in rows : x[1] = "skills" => x \in late

(* A drain that is about to leave the tombstone has found no row, or what   *)
(* it has not found came in since.                                          *)
CountedEmpty ==
  raced \/ gaveUp \/ \A r \in Runner : runner[r].pc = "tombstone" => rows \subseteq sinceCount

DrainInv ==
  /\ DrainOfDeletion /\ OneDrain /\ BatchOfTable /\ SkillsDrained /\ CountedEmpty
  /\ LeftRowsAreLate /\ FailsOnlyByLateRow
-------------------------------------------------------------------------------
(* The order of the tables: files after the skills that refer to them       *)
(* (workspace-delete.ts).                                                   *)
LEMMA OrderOfTables ==
  /\ Len(Order) = 6
  /\ \A i \in 1..6 : Order[i] = "files" => i = 3
  /\ Order[2] = "skills"
  BY DEF Order

(* A drain with new values of its fields is a drain.                        *)
LEMMA RunTypes ==
  ASSUME NEW x \in RunRecord, NEW b \in SUBSET Row, NEW n \in Nat,
         NEW pc \in {"idle", "list", "free", "row", "count", "tombstone", "failed"}
  PROVE  /\ [x EXCEPT !.pc = pc] \in RunRecord
         /\ [x EXCEPT !.pc = pc, !.batch = b] \in RunRecord
         /\ NoRun \in RunRecord
         /\ [NoRun EXCEPT !.pc = pc] \in RunRecord
         /\ [NoRun EXCEPT !.pc = pc, !.pass = n] \in RunRecord
         /\ x.at + 1 \in 1..6 => [x EXCEPT !.at = @ + 1] \in RunRecord
  <1>1. [x EXCEPT !.pc = pc] \in RunRecord /\ [x EXCEPT !.pc = pc, !.batch = b] \in RunRecord
    BY DEF RunRecord
  <1>2. NoRun \in RunRecord
    BY DEF RunRecord, NoRun
  <1>3. [NoRun EXCEPT !.pc = pc] \in RunRecord
    BY DEF RunRecord, NoRun
  <1>4. [NoRun EXCEPT !.pc = pc, !.pass = n] \in RunRecord
    <2>1. [NoRun EXCEPT !.pc = pc] \in RunRecord
      BY <1>3
    <2>2. \A y \in RunRecord : [y EXCEPT !.pass = n] \in RunRecord
      BY DEF RunRecord
    <2>3. [NoRun EXCEPT !.pc = pc, !.pass = n] = [[NoRun EXCEPT !.pc = pc] EXCEPT !.pass = n]
      OBVIOUS
    <2>4. QED
      BY <2>1, <2>2, <2>3
  <1>5. ASSUME x.at + 1 \in 1..6 PROVE [x EXCEPT !.at = @ + 1] \in RunRecord
    BY <1>5 DEF RunRecord
  <1>6. QED
    BY <1>1, <1>2, <1>3, <1>4, <1>5

(* What a write step and a drain step do to the rows, and to what the       *)
(* others may rely on: either rows only go, or one comes in.                *)
RowsShrink == rows' \subseteq rows /\ late' = late /\ sinceCount' = sinceCount

RowComes(x) ==
  /\ rows' = rows \cup {x}
  /\ late' = IF Closing THEN late \cup {x} ELSE late
  /\ sinceCount' = sinceCount \cup {x}

(* Every step is one of a drain, one that flips or overwrites the status, a *)
(* restart, or one of a write or of the sweep, which touch only rows.       *)
LEMMA StepKinds ==
  ASSUME Typed, [Next]_vars
  PROVE  \/ \E r \in Runner : Drain(r)
         \/ BeginWorkspaceDelete
         \/ SetStatus
         \/ Restart
         \/ /\ UNCHANGED <<status, runner, raced, gaveUp>>
            /\ RowsShrink \/ \E x \in Row : RowComes(x)
  <1> DEFINE Writes == /\ UNCHANGED <<status, runner, raced, gaveUp>>
                       /\ RowsShrink \/ \E x \in Row : RowComes(x)
  <1>1. ASSUME NEW w \in Writer, NEW t \in Route, Guard(w, t) PROVE Writes
    BY <1>1 DEF Guard, RowsShrink, history, cluster
  <1>2. ASSUME NEW w \in Writer, Callback(w) PROVE Writes
    BY <1>2 DEF Callback, RowsShrink, history, cluster
  <1>3. ASSUME NEW w \in Writer, InsertFile(w) PROVE Writes
    <2>1. <<"files", write[w].id>> \in Row
      BY DEF Typed, WriteRecord, Row, Table
    <2>2. QED
      BY <1>3, <2>1 DEF InsertFile, Insert, RowComes
  <1>4. ASSUME NEW w \in Writer, InsertRow(w) PROVE Writes
    <2>1. <<write[w].table, write[w].id>> \in Row
      BY DEF Typed, WriteRecord, Row
    <2>2. \/ UNCHANGED <<rows, late, sinceCount>>
          \/ Insert(<<write[w].table, write[w].id>>)
      BY <1>4 DEF InsertRow
    <2>3. UNCHANGED <<status, runner, raced, gaveUp>>
      BY <1>4 DEF InsertRow
    <2>4. QED
      BY <2>1, <2>2, <2>3 DEF Insert, RowComes, RowsShrink
  <1>5. ASSUME NEW w \in Writer,
               CreateClaim(w) \/ PutVaultSecretKey(w) \/ FreeVault(w) \/ DropVault(w)
        PROVE  Writes
    BY <1>5 DEF CreateClaim, PutVaultSecretKey, Create, FreeVault, DropVault, RowsShrink, history
  <1>6. ASSUME NEW kind \in {"status", "delete"}, Ask(kind) PROVE Writes
    BY <1>6 DEF Ask, RowsShrink, history
  <1>7. CASE SweepIds \/ SweepDelete \/ Tick \/ Hour
    BY <1>7 DEF SweepIds, SweepDelete, Tick, Hour, RowsShrink, history, cluster
  <1>8. CASE UNCHANGED vars
    BY <1>8 DEF vars, RowsShrink, history
  <1>9. QED
    BY <1>1, <1>2, <1>3, <1>4, <1>5, <1>6, <1>7, <1>8 DEF Next, WriteStep

(* The first state satisfies the invariant.                                 *)
LEMMA InitInv == Init => Typed /\ DrainInv
  <1> SUFFICES ASSUME Init PROVE Typed /\ DrainInv
    OBVIOUS
  <1>1. Typed
    <2>1. rows \subseteq Row
      BY DEF Init, Row
    <2>2. NoRun \in RunRecord
      BY DEF NoRun, RunRecord
    <2>3. NoWrite \in WriteRecord
      BY DEF NoWrite, WriteRecord
    <2>4. QED
      BY <2>1, <2>2, <2>3 DEF Init, Typed
  <1>2. \A r \in Runner : runner[r].pc = "idle" /\ runner[r].at = 1 /\ runner[r].batch = {}
    BY DEF Init, NoRun
  <1>3. status = "active"
    BY DEF Init
  <1>4. QED
    BY <1>1, <1>2, <1>3 DEF DrainInv, DrainOfDeletion, OneDrain, BatchOfTable, SkillsDrained,
      CountedEmpty, LeftRowsAreLate, FailsOnlyByLateRow
(* Every step keeps the types.                                              *)
LEMMA TypedStep == Typed /\ [Next]_vars => Typed'
  <1> SUFFICES ASSUME Typed, [Next]_vars PROVE Typed'
    OBVIOUS
  <1>1. /\ rows \subseteq Row /\ given \in Nat
        /\ write \in [Writer -> WriteRecord] /\ runner \in [Runner -> RunRecord]
    BY DEF Typed
  <1>2. /\ \A t \in Table : Creation(t) \in WriteRecord
        /\ Credential \in WriteRecord /\ VaultDelete \in WriteRecord /\ NoWrite \in WriteRecord
    <2>1. NoWrite \in WriteRecord
      BY DEF WriteRecord, NoWrite
    <2>2. ASSUME NEW t \in Table PROVE Creation(t) \in WriteRecord
      BY <1>1 DEF WriteRecord, Creation
    <2>3. Credential \in WriteRecord
      BY <2>1 DEF WriteRecord, Credential, Table
    <2>4. VaultDelete \in WriteRecord
      BY <2>1 DEF WriteRecord, VaultDelete, Table
    <2>5. QED
      BY <2>1, <2>2, <2>3, <2>4
  <1>3. rows' \subseteq Row
    <2>1. ASSUME NEW r \in Runner, Drain(r) PROVE rows' \subseteq rows
      BY <2>1 DEF Drain, DrainList, DrainFree, DrainRow, Count, Tombstone
    <2>2. CASE BeginWorkspaceDelete \/ SetStatus \/ Restart
      BY <1>1, <2>2 DEF BeginWorkspaceDelete, SetStatus, Restart
    <2>3. QED
      BY <1>1, <2>1, <2>2, StepKinds DEF RowsShrink, RowComes
  <1>4. given' \in Nat
    <2>1. ASSUME NEW w \in Writer, (\E t \in Route : Guard(w, t)) \/ Callback(w)
          PROVE  given' = given + 1
      BY <2>1 DEF Guard, Callback, Accept
    <2>2. ASSUME NEW w \in Writer, WriteStep(w) PROVE given' = given
      BY <2>2 DEF WriteStep, InsertFile, InsertRow, CreateClaim, PutVaultSecretKey, Create,
        FreeVault, DropVault, bounds
    <2>3. ASSUME NEW r \in Runner, Drain(r) PROVE given' = given
      BY <2>3 DEF Drain, DrainList, DrainFree, DrainRow, Count, Tombstone, bounds
    <2>4. \/ (\E kind \in {"status", "delete"} : Ask(kind)) \/ SetStatus \/ BeginWorkspaceDelete
          \/ Restart \/ SweepIds \/ SweepDelete \/ Tick \/ Hour \/ UNCHANGED vars
          => given' = given
      BY DEF Ask, SetStatus, BeginWorkspaceDelete, Restart, SweepIds, SweepDelete, Tick, Hour,
        vars, bounds
    <2>5. given' = given \/ given' = given + 1
      BY <2>1, <2>2, <2>3, <2>4 DEF Next
    <2>6. QED
      BY <1>1, <2>5
  <1>5. write' \in [Writer -> WriteRecord]
    <2>1. ASSUME NEW w \in Writer, NEW t \in Table, Accept(w, t) PROVE write' \in [Writer -> WriteRecord]
      BY <1>1, <1>2, <2>1 DEF Accept, Accepted
    <2>2. ASSUME NEW w \in Writer, NEW t \in Route, Guard(w, t)
          PROVE  write' \in [Writer -> WriteRecord]
      <3>1. CASE UNCHANGED write
        BY <1>1, <3>1
      <3>2. CASE Accept(w, t)
        <4>1. Accepted(t) \in WriteRecord
          BY <1>2 DEF Accepted, Route, Table
        <4>2. QED
          BY <1>1, <3>2, <4>1 DEF Accept
      <3>3. QED
        BY <2>2, <3>1, <3>2 DEF Guard
    <2>3. ASSUME NEW w \in Writer, Callback(w) PROVE write' \in [Writer -> WriteRecord]
      BY <2>1, <2>3 DEF Callback, Table
    <2>4. ASSUME NEW w \in Writer, WriteStep(w) PROVE write' \in [Writer -> WriteRecord]
      <3>1. \A pc \in {"insert", "create", "row"} : [write[w] EXCEPT !.pc = pc] \in WriteRecord
        BY <1>1 DEF WriteRecord
      <3>2. \E x \in WriteRecord : write' = [write EXCEPT ![w] = x]
        BY <1>1, <1>2, <2>4, <3>1 DEF WriteStep, InsertFile, InsertRow, CreateClaim,
          PutVaultSecretKey, Create, FreeVault, DropVault
      <3>3. QED
        BY <1>1, <3>2
    <2>5. CASE Restart
      BY <1>2, <2>5 DEF Restart
    <2>6. CASE UNCHANGED write
      BY <1>1, <2>6
    <2>7. QED
      BY <2>2, <2>3, <2>4, <2>5, <2>6 DEF Next, vars, Ask, SetStatus, BeginWorkspaceDelete,
        Drain, DrainList, DrainFree, DrainRow, Count, Tombstone, SweepIds, SweepDelete, Tick, Hour
  <1>6. runner' \in [Runner -> RunRecord]
    <2>1. ASSUME NEW r \in Runner, Drain(r) PROVE runner' \in [Runner -> RunRecord]
      <3>1. runner[r] \in RunRecord /\ runner[r].batch \in SUBSET Row /\ runner[r].pass \in Nat
            /\ runner[r].at \in 1..6
        BY <1>1 DEF RunRecord
      <3>2. CASE DrainList(r)
        <4> DEFINE batch == {x \in rows : x[1] = Order[runner[r].at]}
        <4>1. batch \in SUBSET Row
          BY <1>1
        <4>2. /\ [runner[r] EXCEPT !.pc = "free", !.batch = batch] \in RunRecord
              /\ [runner[r] EXCEPT !.pc = "count"] \in RunRecord
          BY <3>1, <4>1, RunTypes
        <4>3. runner[r].at < 6 => [runner[r] EXCEPT !.at = @ + 1] \in RunRecord
          <5>1. runner[r].at < 6 => runner[r].at + 1 \in 1..6
            BY <3>1
          <5>2. QED
            BY <3>1, <5>1, RunTypes
        <4> HIDE DEF batch
        <4>4. \E x \in RunRecord : runner' = [runner EXCEPT ![r] = x]
          BY <3>2, <4>2, <4>3, OrderOfTables DEF DrainList, Run, batch
        <4>5. QED
          BY <1>1, <4>4
      <3>3. CASE DrainFree(r)
        BY <1>1, <3>1, <3>3, RunTypes DEF DrainFree, Run
      <3>4. CASE DrainRow(r)
        <4> DEFINE rest == runner[r].batch \ {Freed(r)}
        <4>1. rest \in SUBSET Row
          BY <3>1
        <4>2. /\ [runner[r] EXCEPT !.pc = "list", !.batch = rest] \in RunRecord
              /\ [runner[r] EXCEPT !.pc = "free", !.batch = rest] \in RunRecord
              /\ [NoRun EXCEPT !.pc = "failed"] \in RunRecord
          BY <3>1, <4>1, RunTypes
        <4>3. \E x \in RunRecord : runner' = [runner EXCEPT ![r] = x]
          BY <3>4, <4>2 DEF DrainRow, Run
        <4>4. QED
          BY <1>1, <4>3
      <3>5. CASE Count(r)
        <4>1. runner[r].pass + 1 \in Nat
          BY <3>1
        <4>2. /\ [runner[r] EXCEPT !.pc = "tombstone"] \in RunRecord
              /\ [NoRun EXCEPT !.pc = "list", !.pass = runner[r].pass + 1] \in RunRecord
          BY <3>1, <4>1, RunTypes
        <4>3. \E x \in RunRecord : runner' = [runner EXCEPT ![r] = x]
          BY <3>5, <4>2 DEF Count, Run
        <4>4. QED
          BY <1>1, <4>3
      <3>6. CASE Tombstone(r)
        BY <1>1, <3>1, <3>6, RunTypes DEF Tombstone, Run
      <3>7. QED
        BY <2>1, <3>2, <3>3, <3>4, <3>5, <3>6 DEF Drain
    <2>2. NoRun \in RunRecord /\ [NoRun EXCEPT !.pc = "list"] \in RunRecord
      BY DEF NoRun, RunRecord
    <2>3. CASE BeginWorkspaceDelete
      BY <1>1, <2>2, <2>3 DEF BeginWorkspaceDelete
    <2>4. CASE Restart
      BY <2>2, <2>4 DEF Restart
    <2>5. CASE SetStatus
      BY <1>1, <2>5 DEF SetStatus
    <2>6. QED
      BY <1>1, <2>1, <2>3, <2>4, <2>5, StepKinds
  <1>7. QED
    BY <1>3, <1>4, <1>5, <1>6 DEF Typed
-------------------------------------------------------------------------------
(* What the drain that runs does keeps the invariant.                       *)
LEMMA DrainKeeps ==
  ASSUME Typed, DrainInv, NEW r \in Runner, Drain(r)
  PROVE  DrainInv'
  <1>1. /\ runner \in [Runner -> RunRecord] /\ runner[r] \in RunRecord
        /\ runner[r].at \in 1..6 /\ rows \subseteq Row
    BY DEF Typed, RunRecord
  <1>2. /\ DrainOfDeletion /\ OneDrain /\ BatchOfTable /\ SkillsDrained /\ CountedEmpty
        /\ LeftRowsAreLate /\ FailsOnlyByLateRow
    BY DEF DrainInv
  <1>3. /\ rows' \subseteq rows /\ late' = late /\ raced' = raced
        /\ runner[r].pc # "idle"
        /\ \E x : runner' = [runner EXCEPT ![r] = x]
    BY DEF Drain, DrainList, DrainFree, DrainRow, Count, Tombstone, Run, history
  <1>4. \A q \in Runner : q # r => runner'[q] = runner[q]
    BY <1>1, <1>3
  <1>5. ~raced => status = "deleting" /\ \A q \in Runner : q # r => runner[q].pc = "idle"
    BY <1>2, <1>3 DEF DrainOfDeletion, OneDrain
  <1>6. OneDrain'
    BY <1>3, <1>4, <1>5 DEF OneDrain
  <1>7. DrainOfDeletion'
    <2>1. CASE Tombstone(r)
      <3>1. runner'[r] = NoRun
        BY <1>1, <2>1 DEF Tombstone, Run
      <3>2. QED
        BY <1>3, <1>4, <1>5, <3>1 DEF DrainOfDeletion, NoRun
    <2>2. CASE ~Tombstone(r)
      <3>1. status' = status
        BY <2>2 DEF Drain, DrainList, DrainFree, DrainRow, Count
      <3>2. QED
        BY <1>3, <1>5, <3>1 DEF DrainOfDeletion
    <2>3. QED
      BY <2>1, <2>2
  <1>8. BatchOfTable'
    <2>1. ASSUME NEW q \in Runner, q # r
          PROVE  /\ runner'[q].pc \in {"free", "row"} <=> runner'[q].batch # {}
                 /\ \A x \in runner'[q].batch : x[1] = Order[runner'[q].at]
      BY <1>2, <1>4, <2>1 DEF BatchOfTable
    <2>2. /\ runner[r].pc \in {"free", "row"} <=> runner[r].batch # {}
          /\ \A x \in runner[r].batch : x[1] = Order[runner[r].at]
      BY <1>2 DEF BatchOfTable
    <2>3. /\ runner'[r].pc \in {"free", "row"} <=> runner'[r].batch # {}
          /\ \A x \in runner'[r].batch : x[1] = Order[runner'[r].at]
      <3>1. CASE DrainList(r)
        <4> DEFINE batch == {x \in rows : x[1] = Order[runner[r].at]}
        <4>1. CASE batch # {}
          <5>1. runner'[r] = [runner[r] EXCEPT !.pc = "free", !.batch = batch]
            BY <1>1, <3>1, <4>1 DEF DrainList, Run
          <5>2. runner'[r].batch = batch /\ runner'[r].at = runner[r].at /\ runner'[r].pc = "free"
            BY <1>1, <5>1 DEF RunRecord
          <5>3. QED
            BY <4>1, <5>2
        <4>2. CASE batch = {}
          <5>1. \/ runner'[r] = [runner[r] EXCEPT !.at = @ + 1]
                \/ runner'[r] = [runner[r] EXCEPT !.pc = "count"]
            BY <1>1, <3>1, <4>2 DEF DrainList, Run
          <5>2. runner[r].pc = "list" /\ runner[r].batch = {}
            BY <2>2, <3>1 DEF DrainList
          <5>3. /\ runner'[r].pc \in {"list", "count"} /\ runner'[r].batch = {}
            BY <1>1, <5>1, <5>2 DEF RunRecord
          <5>4. QED
            BY <5>3
        <4>3. QED
          BY <4>1, <4>2
      <3>2. CASE DrainFree(r)
        <4>1. runner[r].pc = "free" /\ runner'[r] = [runner[r] EXCEPT !.pc = "row"]
          BY <1>1, <3>2 DEF DrainFree, Run
        <4>2. QED
          BY <1>1, <2>2, <4>1 DEF RunRecord
      <3>3. CASE DrainRow(r)
        <4> DEFINE rest == runner[r].batch \ {Freed(r)}
        <4>1. \/ runner'[r] = [NoRun EXCEPT !.pc = "failed"]
              \/ /\ rest = {} /\ runner'[r] = [runner[r] EXCEPT !.pc = "list", !.batch = rest]
              \/ /\ rest # {} /\ runner'[r] = [runner[r] EXCEPT !.pc = "free", !.batch = rest]
          BY <1>1, <3>3 DEF DrainRow, Run
        <4>2. CASE runner'[r] = [NoRun EXCEPT !.pc = "failed"]
          BY <4>2 DEF NoRun
        <4>3. CASE runner'[r] # [NoRun EXCEPT !.pc = "failed"]
          <5>1. /\ runner'[r].at = runner[r].at /\ runner'[r].batch = rest
                /\ runner'[r].pc = IF rest = {} THEN "list" ELSE "free"
            BY <1>1, <4>1, <4>3 DEF RunRecord
          <5>2. QED
            BY <2>2, <5>1
        <4>4. QED
          BY <4>2, <4>3
      <3>4. CASE Count(r)
        <4>1. \/ runner'[r] = [runner[r] EXCEPT !.pc = "tombstone"]
              \/ runner'[r] = [NoRun EXCEPT !.pc = "list", !.pass = runner[r].pass + 1]
          BY <1>1, <3>4 DEF Count, Run
        <4>2. CASE runner'[r] = [runner[r] EXCEPT !.pc = "tombstone"]
          <5>1. runner[r].pc = "count"
            BY <3>4 DEF Count
          <5>2. QED
            BY <1>1, <2>2, <4>2, <5>1 DEF RunRecord
        <4>3. CASE runner'[r] = [NoRun EXCEPT !.pc = "list", !.pass = runner[r].pass + 1]
          BY <4>3 DEF NoRun
        <4>4. QED
          BY <4>1, <4>2, <4>3
      <3>5. CASE Tombstone(r)
        <4>1. runner'[r] = NoRun
          BY <1>1, <3>5 DEF Tombstone, Run
        <4>2. QED
          BY <4>1 DEF NoRun
      <3>6. QED
        BY <3>1, <3>2, <3>3, <3>4, <3>5 DEF Drain
    <2>4. QED
      BY <2>1, <2>3 DEF BatchOfTable
  <1>9. SkillsDrained'
    <2>1. ASSUME ~raced, runner'[r].pc # "idle", runner'[r].at >= 3,
                 NEW x \in rows, x[1] = "skills"
          PROVE  x \in late
      <3>1. CASE runner[r].at >= 3
        BY <1>2, <1>3, <2>1, <3>1 DEF SkillsDrained
      <3>2. CASE ~(runner[r].at >= 3)
        <4>1. DrainList(r)
          <5>1. CASE DrainFree(r)
            BY <1>1, <2>1, <3>2, <5>1 DEF DrainFree, Run, RunRecord
          <5>2. CASE DrainRow(r)
            <6>1. ASSUME runner'[r] # [NoRun EXCEPT !.pc = "failed"]
                  PROVE  \E pc \in {"list", "free"} : \E b :
                           runner'[r] = [runner[r] EXCEPT !.pc = pc, !.batch = b]
              BY <1>1, <5>2, <6>1 DEF DrainRow, Run
            <6>2. runner'[r].at = 1 \/ runner'[r].at = runner[r].at
              <7>1. CASE runner'[r] = [NoRun EXCEPT !.pc = "failed"]
                BY <7>1 DEF NoRun
              <7>2. QED
                BY <1>1, <6>1, <7>1 DEF RunRecord
            <6>3. QED
              BY <2>1, <3>2, <6>2
          <5>3. CASE Count(r)
            BY <1>1, <2>1, <3>2, <5>3 DEF Count, Run, RunRecord, NoRun
          <5>4. CASE Tombstone(r)
            BY <1>1, <2>1, <3>2, <5>4 DEF Tombstone, Run, NoRun
          <5>5. QED
            BY <5>1, <5>2, <5>3, <5>4 DEF Drain
        <4>2. /\ {y \in rows : y[1] = Order[runner[r].at]} = {}
              /\ runner'[r] = [runner[r] EXCEPT !.at = @ + 1]
          BY <1>1, <2>1, <3>2, <4>1 DEF DrainList, Run, RunRecord
        <4>3. runner[r].at = 2
          <5>1. runner'[r].at = runner[r].at + 1
            BY <1>1, <4>2 DEF RunRecord
          <5>2. QED
            BY <1>1, <2>1, <3>2, <5>1
        <4>4. QED
          BY <2>1, <4>2, <4>3, OrderOfTables
      <3>3. QED
        BY <3>1, <3>2
    <2>2. QED
      BY <1>2, <1>3, <1>4, <2>1 DEF SkillsDrained
  <1>10. CountedEmpty'
    <2>1. CASE Count(r)
      <3>1. ASSUME ~raced, ~gaveUp', runner'[r].pc = "tombstone"
            PROVE  rows = {}
        <4>1. CASE rows # {} /\ runner[r].pass + 1 # Passes
          <5>1. runner'[r] = [NoRun EXCEPT !.pc = "list", !.pass = runner[r].pass + 1]
            BY <1>1, <2>1, <4>1 DEF Count, Run
          <5>2. QED
            BY <3>1, <5>1 DEF NoRun
        <4>2. QED
          BY <2>1, <3>1, <4>1 DEF Count
      <3>2. rows' = rows
        BY <2>1 DEF Count
      <3>3. ~raced => \A q \in Runner : q # r => runner'[q].pc # "tombstone"
        BY <1>4, <1>5
      <3>4. QED
        BY <1>3, <3>1, <3>2, <3>3 DEF CountedEmpty
    <2>2. CASE ~Count(r)
      <3>1. runner'[r].pc # "tombstone"
        <4>1. CASE DrainList(r)
          BY <1>1, <4>1 DEF DrainList, Run, RunRecord
        <4>2. CASE DrainFree(r)
          BY <1>1, <4>2 DEF DrainFree, Run, RunRecord
        <4>3. CASE DrainRow(r)
          <5>1. \/ runner'[r] = [NoRun EXCEPT !.pc = "failed"]
                \/ \E pc \in {"list", "free"} : \E b : runner'[r] = [runner[r] EXCEPT !.pc = pc, !.batch = b]
            BY <1>1, <4>3 DEF DrainRow, Run
          <5>2. QED
            BY <1>1, <5>1 DEF RunRecord, NoRun
        <4>4. CASE Tombstone(r)
          BY <1>1, <4>4 DEF Tombstone, Run, NoRun
        <4>5. QED
          BY <2>2, <4>1, <4>2, <4>3, <4>4 DEF Drain
      <3>2. ~raced => \A q \in Runner : q # r => runner'[q].pc # "tombstone"
        BY <1>4, <1>5
      <3>3. QED
        BY <1>3, <3>1, <3>2 DEF CountedEmpty
    <2>3. QED
      BY <2>1, <2>2
  <1>11. LeftRowsAreLate'
    <2>1. CASE Tombstone(r)
      <3>1. runner[r].pc = "tombstone" /\ UNCHANGED <<rows, sinceCount, raced, gaveUp>>
        BY <2>1 DEF Tombstone, history
      <3>2. QED
        BY <1>2, <3>1 DEF CountedEmpty, LeftRowsAreLate
    <2>2. CASE ~Tombstone(r)
      <3>1. status' = status
        BY <2>2 DEF Drain, DrainList, DrainFree, DrainRow, Count
      <3>2. QED
        BY <1>3, <1>5, <3>1 DEF LeftRowsAreLate
    <2>3. QED
      BY <2>1, <2>2
  <1>12. FailsOnlyByLateRow'
    <2>1. ASSUME ~raced, runner'[r].pc = "failed" PROVE \E x \in late : x[1] = "skills"
      <3>1. DrainRow(r)
        <4>1. CASE DrainList(r)
          BY <1>1, <2>1, <4>1 DEF DrainList, Run, RunRecord
        <4>2. CASE DrainFree(r)
          BY <1>1, <2>1, <4>2 DEF DrainFree, Run, RunRecord
        <4>3. CASE Count(r)
          BY <1>1, <2>1, <4>3 DEF Count, Run, RunRecord, NoRun
        <4>4. CASE Tombstone(r)
          BY <1>1, <2>1, <4>4 DEF Tombstone, Run, NoRun
        <4>5. QED
          BY <4>1, <4>2, <4>3, <4>4 DEF Drain
      <3>2. Freed(r)[1] = "files" /\ <<"skills", Freed(r)[2]>> \in rows
        <4>1. CASE ~(Freed(r)[1] = "files" /\ <<"skills", Freed(r)[2]>> \in rows)
          <5>1. \E pc \in {"list", "free"} : \E b : runner'[r] = [runner[r] EXCEPT !.pc = pc, !.batch = b]
            BY <1>1, <3>1, <4>1 DEF DrainRow, Run
          <5>2. QED
            BY <1>1, <2>1, <5>1 DEF RunRecord
        <4>2. QED
          BY <4>1
      <3>3. Freed(r) \in runner[r].batch
        BY <1>2, <3>1 DEF Freed, BatchOfTable, DrainRow
      <3>4. runner[r].at = 3
        BY <1>1, <1>2, <3>2, <3>3, OrderOfTables DEF BatchOfTable
      <3>5. <<"skills", Freed(r)[2]>> \in late
        BY <1>2, <1>3, <2>1, <3>2, <3>4 DEF SkillsDrained
      <3>6. QED
        BY <3>5
    <2>2. QED
      BY <1>2, <1>3, <1>4, <2>1 DEF FailsOnlyByLateRow
  <1>13. QED
    BY <1>6, <1>7, <1>8, <1>9, <1>10, <1>11, <1>12 DEF DrainInv

(* The flip to deleting starts one drain, where none is under way.          *)
LEMMA BeginKeeps ==
  ASSUME Typed, DrainInv, BeginWorkspaceDelete
  PROVE  DrainInv'
  <1>1. /\ DrainOfDeletion /\ OneDrain /\ BatchOfTable /\ SkillsDrained /\ CountedEmpty
        /\ LeftRowsAreLate /\ FailsOnlyByLateRow
    BY DEF DrainInv
  <1>2. UNCHANGED <<rows, late, sinceCount, raced, gaveUp>>
    BY DEF BeginWorkspaceDelete, history
  <1>3. CASE Closing
    <2>1. UNCHANGED <<status, runner>>
      BY <1>3 DEF BeginWorkspaceDelete
    <2>2. QED
      BY <1>1, <1>2, <2>1 DEF DrainInv, DrainOfDeletion, OneDrain, BatchOfTable, SkillsDrained,
        CountedEmpty, LeftRowsAreLate, FailsOnlyByLateRow
  <1>4. CASE ~Closing
    <2>1. PICK r \in Runner :
            runner[r].pc = "idle" /\ runner' = [runner EXCEPT ![r] = [NoRun EXCEPT !.pc = "list"]]
      BY <1>4 DEF BeginWorkspaceDelete
    <2>2. status' = "deleting"
      BY <1>4 DEF BeginWorkspaceDelete
    <2>3. /\ runner'[r].pc = "list" /\ runner'[r].at = 1 /\ runner'[r].batch = {}
          /\ \A q \in Runner : q # r => runner'[q] = runner[q]
      BY <2>1 DEF Typed, NoRun
    <2>4. ~raced => \A q \in Runner : runner[q].pc = "idle"
      BY <1>1, <1>4 DEF DrainOfDeletion, Closing
    <2>5. DrainOfDeletion' /\ OneDrain' /\ LeftRowsAreLate'
      BY <1>2, <2>2, <2>3, <2>4 DEF DrainOfDeletion, OneDrain, LeftRowsAreLate
    <2>6. BatchOfTable'
      BY <1>1, <2>3 DEF BatchOfTable
    <2>7. SkillsDrained' /\ CountedEmpty' /\ FailsOnlyByLateRow'
      BY <1>2, <2>3, <2>4 DEF SkillsDrained, CountedEmpty, FailsOnlyByLateRow
    <2>8. QED
      BY <2>5, <2>6, <2>7 DEF DrainInv
  <1>5. QED
    BY <1>3, <1>4

(* A status written over a deletion is on the record; before, no drain was  *)
(* under way.                                                               *)
LEMMA SetStatusKeeps ==
  ASSUME Typed, DrainInv, SetStatus
  PROVE  DrainInv'
  <1>1. /\ DrainOfDeletion /\ OneDrain /\ BatchOfTable /\ SkillsDrained /\ CountedEmpty
        /\ LeftRowsAreLate /\ FailsOnlyByLateRow
    BY DEF DrainInv
  <1>2. /\ UNCHANGED <<rows, runner, late, sinceCount, gaveUp>>
        /\ status' \in {"active", "disabled"} /\ raced' = (raced \/ Closing)
    BY DEF SetStatus
  <1>3. ~raced' => \A r \in Runner : runner[r].pc = "idle"
    BY <1>1, <1>2 DEF DrainOfDeletion, Closing
  <1>4. DrainOfDeletion' /\ OneDrain' /\ LeftRowsAreLate'
    BY <1>2, <1>3 DEF DrainOfDeletion, OneDrain, LeftRowsAreLate
  <1>5. BatchOfTable'
    BY <1>1, <1>2 DEF BatchOfTable
  <1>6. SkillsDrained' /\ CountedEmpty' /\ FailsOnlyByLateRow'
    BY <1>2, <1>3 DEF SkillsDrained, CountedEmpty, FailsOnlyByLateRow
  <1>7. QED
    BY <1>4, <1>5, <1>6 DEF DrainInv

(* The boot sweep starts one drain, of a deletion only.                     *)
LEMMA RestartKeeps ==
  ASSUME Typed, DrainInv, Restart
  PROVE  DrainInv'
  <1>1. LeftRowsAreLate
    BY DEF DrainInv
  <1>2. UNCHANGED <<status, rows, late, sinceCount, raced, gaveUp>>
    BY DEF Restart, history
  <1>3. \A r \in Runner :
          /\ runner'[r].pc = IF r = (CHOOSE q \in Runner : TRUE) /\ status = "deleting"
                             THEN "list" ELSE "idle"
          /\ runner'[r].at = 1 /\ runner'[r].batch = {}
    BY DEF Restart, NoRun
  <1>4. DrainOfDeletion' /\ OneDrain' /\ LeftRowsAreLate'
    BY <1>1, <1>2, <1>3 DEF DrainOfDeletion, OneDrain, LeftRowsAreLate
  <1>5. BatchOfTable'
    BY <1>3 DEF BatchOfTable
  <1>6. SkillsDrained' /\ CountedEmpty' /\ FailsOnlyByLateRow'
    BY <1>3 DEF SkillsDrained, CountedEmpty, FailsOnlyByLateRow
  <1>7. QED
    BY <1>4, <1>5, <1>6 DEF DrainInv

(* Rows that go disturb nothing; a row that comes in is a late one while a  *)
(* drain is under way.                                                      *)
LEMMA RowsKeep ==
  ASSUME Typed, DrainInv, UNCHANGED <<status, runner, raced, gaveUp>>,
         RowsShrink \/ \E x \in Row : RowComes(x)
  PROVE  DrainInv'
  <1>1. /\ DrainOfDeletion /\ OneDrain /\ BatchOfTable /\ SkillsDrained /\ CountedEmpty
        /\ LeftRowsAreLate /\ FailsOnlyByLateRow
    BY DEF DrainInv
  <1>2. DrainOfDeletion' /\ OneDrain' /\ BatchOfTable'
    BY <1>1 DEF DrainOfDeletion, OneDrain, BatchOfTable
  <1>3. CASE RowsShrink
    BY <1>1, <1>2, <1>3 DEF RowsShrink, DrainInv, SkillsDrained, CountedEmpty, LeftRowsAreLate,
      FailsOnlyByLateRow
  <1>4. ASSUME NEW x \in Row, RowComes(x) PROVE DrainInv'
    <2>1. late \subseteq late'
      BY <1>4 DEF RowComes
    <2>2. SkillsDrained'
      <3>1. ASSUME ~raced, NEW r \in Runner, runner[r].pc # "idle", runner[r].at >= 3,
                   NEW y \in rows', y[1] = "skills"
            PROVE  y \in late'
        <4>1. Closing
          BY <1>1, <3>1 DEF DrainOfDeletion, Closing
        <4>2. QED
          BY <1>1, <1>4, <2>1, <3>1, <4>1 DEF SkillsDrained, RowComes
      <3>2. QED
        BY <3>1 DEF SkillsDrained
    <2>3. CountedEmpty' /\ LeftRowsAreLate'
      BY <1>1, <1>4 DEF CountedEmpty, LeftRowsAreLate, RowComes
    <2>4. FailsOnlyByLateRow'
      BY <1>1, <2>1 DEF FailsOnlyByLateRow
    <2>5. QED
      BY <1>2, <2>2, <2>3, <2>4 DEF DrainInv
  <1>5. QED
    BY <1>3, <1>4
-------------------------------------------------------------------------------
(* The inductive invariant of a workspace's deletion (workspace-delete.ts,  *)
(* repo.ts beginWorkspaceDelete, boot sweep).                               *)
THEOREM Invariant == Spec => [](Typed /\ DrainInv)
  <1>1. Typed /\ DrainInv /\ [Next]_vars => (Typed /\ DrainInv)'
    BY TypedStep, StepKinds, DrainKeeps, BeginKeeps, SetStatusKeeps, RestartKeeps, RowsKeep
  <1>2. QED
    BY <1>1, InitInv, PTL DEF Spec

(* However many deletes and restarts: one drain at a time, until a status   *)
(* is written over the deletion.                                            *)
THEOREM DrainsAreAlone == Spec => []OneDrain
  BY Invariant, PTL DEF DrainInv

(* What a tombstone leaves behind came in after the last count, unless the  *)
(* last pass still found rows.                                              *)
THEOREM TombstoneLeavesLateRows == Spec => []LeftRowsAreLate
  BY Invariant, PTL DEF DrainInv

(* A drain throws only over a skill that came in after the flip.            *)
THEOREM DrainFailsOnlyLate == Spec => []FailsOnlyByLateRow
  BY Invariant, PTL DEF DrainInv

(***************************************************************************)
(* Files and their objects.                                                *)
(***************************************************************************)

(* What a record of a request, of the maintenance run or of a row may hold: *)
(* typing of the model, for the provers.                                    *)
Want == Path \cup {"own"}
MaybeFile == File \cup {NoFile}
MaybeKey == Key \cup {NoFile, "own"}
Pcs == {"idle", "put", "row", "prior", "commit", "insert", "dropPrior", "drop", "gone", "goneRow",
        "register", "part", "record", "complete", "abort", "unregister",
        "purge", "files", "orphans", "scan", "exists", "done"}
Kinds == {"none", "upload", "output", "checkpoint", "entry", "skill", "chunked", "store", "session"}
Thens == {"idle", "files", "orphans", "scan"}
Mades == SUBSET (Want \X File)
Wants == SUBSET Want
Drops == SUBSET EntryPath
Files == SUBSET File
Keys == SUBSET Key
Hand == [pc : Pcs, kind : Kinds, want : Wants, made : Mades, drop : Drops, file : MaybeFile,
         key : MaybeKey, todo : Files, keys : Keys, seen : Keys, then : Thens]
RowKinds == {"none", "upload", "output", "checkpoint", "entry", "skill"}
FileRecord == [kind : RowKinds, key : MaybeKey, owned : BOOLEAN, old : BOOLEAN]

StoreTyped ==
  /\ fresh \in SUBSET File
  /\ files \in [File -> FileRecord]
  /\ object \in [Key -> {"none", "young", "old"}]
  /\ ref \in [Path -> MaybeFile]
  /\ checkpoint \in MaybeFile
  /\ upload \in [File -> {"none", "open", "ready"}]
  /\ part \in [File -> {"none", "empty", "filled"}]
  /\ h \in [Proc -> Hand]

(* What a request has in its hands.                                         *)
Held(r) == {r.file} \cup {m[2] : m \in r.made}
Offered(r) == {m[2] : m \in r.made} \cup (IF r.pc = "commit" /\ r.kind = "entry" THEN {r.file} ELSE {})
Uploads == {"register", "part", "record", "complete", "abort", "unregister"}
HandShape(r) ==
  /\ r.pc = "put" => r.want # {}
  /\ r.pc = "row" => r.file \in File /\ r.key \in {r.file} \cup Path
  /\ r.pc \in Uploads => r.file \in File
  /\ r.pc = "idle" => r.made = {} /\ r.file = NoFile
  /\ r.kind = "entry" => r.want \subseteq Path /\ r.made \subseteq Path \X File
  /\ r.pc \in {"prior", "commit"} /\ r.kind = "checkpoint" => r.file \in File
  /\ r.pc \in {"put", "row"} => r.kind = "chunked" \/ r.kind \in RowKinds
  /\ r.then = "idle"
HandShapes == \A w \in Worker : HandShape(h[w])

(* An id that has not been given out is nobody's.                           *)
Unused(f) == ~ Present(f) /\ ~ files[f].old /\ object[f] = "none" /\ part[f] = "none" /\ upload[f] = "none"
FreshUnused == \A f \in fresh : Unused(f) /\ \A w \in Worker : f \notin Held(h[w])

(* Parts in the store: not with a row or an object of the same file, and    *)
(* nothing is left of them when the upload's row goes.                      *)
PartsAlone ==
  \A f \in File : /\ part[f] # "none" => ~ Present(f) /\ object[f] = "none"
                  /\ part[f] = "filled" => upload[f] # "none"
Parting(r) ==
  /\ r.pc = "part" => upload[r.file] # "none" \/ part[r.file] = "none"
  /\ r.pc = "unregister" => part[r.file] = "none"
Partings == \A w \in Worker : Parting(h[w])

(* Between an object and its row: the row is still to come, the file is     *)
(* nobody else's, and its object is there, young, or contested.             *)
Uploaded(r) ==
  r.pc = "row" =>
    /\ ~ Present(r.file) /\ part[r.file] = "none" /\ object[r.key] # "old"
    /\ r.key \in File => object[r.key] = "young"
    /\ object[r.key] = "none" => r.key \in contested
Alone == \A v, w \in Worker : h[v].pc = "row" /\ h[w].pc = "row" /\ h[v].file = h[w].file => v = w
UploadsInv == (\A w \in Worker : Uploaded(h[w])) /\ Alone

(* A key is deleted after its last row; a file's own key for good.          *)
Lost(k) == k \notin fresh /\ part[k] = "none" /\ ~ Uploading(k)
Deletable(k) ==
  /\ (RowsOf(k) # {} \/ Uploading(k)) => k \in Path \cap contested
  /\ k \in File => Lost(k)
Deletions ==
  /\ \A p \in Proc : \A k \in h[p].keys : Deletable(k)
  /\ h[Maint].pc = "exists" => h[Maint].key \in Key /\ (h[Maint].key \in File => Lost(h[Maint].key))

(* A row's key is its own id or a path, and its object is there unless the  *)
(* path is contested.                                                       *)
Content(f) == files[f].key \in {f} \cup Path
              /\ (object[files[f].key] # "none" \/ files[f].key \in Path \cap contested)
Contents == \A f \in File : Present(f) => Content(f)

(* What the maintenance run has still to free, and where.                   *)
Reclaiming(m, k) ==
  /\ m.pc \in {"purge", "scan", "exists", "done"} /\ (m.pc = "purge" => m.then = "scan")
  /\ m.pc = "done" => object[k] = "none"
  /\ \A f \in RowsOf(k) : m.pc = "purge" /\ f \in m.todo
  /\ object[k] = "old" /\ k \in m.seen =>
       (m.pc = "purge" /\ k \in m.keys) \/ (m.pc = "exists" /\ k = m.key)
Abandoned(k) ==
  /\ ~ Uploading(k) /\ k \notin fresh /\ (k \in File => part[k] = "none")
  /\ object[k] # "young"
  /\ \A f \in RowsOf(k) : files[f].old /\ \A p \in Path : ref[p] # f
Reclaims ==
  /\ garbage \subseteq Key
  /\ \A w \in Worker : \A f \in Offered(h[w]) \cap File : ~ files[f].old
  /\ \A k \in garbage : Reclaiming(h[Maint], k) /\ Abandoned(k)

(* The inductive invariant.                                                 *)
StoreInv ==
  /\ StoreTyped /\ HandShapes /\ FreshUnused /\ PartsAlone /\ Partings /\ UploadsInv
  /\ Deletions /\ Contents /\ Reclaims

(* What a process may turn its record into without touching a row, an       *)
(* object or a reference it was not offered.                                *)
MayHold(x, p) ==
  /\ x \in Hand /\ x.keys \subseteq h[p].keys
  /\ p \in Worker =>
       /\ HandShape(x) /\ Parting(x) /\ x.pc # "row"
       /\ \A f \in Held(x) : f \in Held(h[p]) \/ f \notin fresh
       /\ Offered(x) \subseteq Offered(h[p])
  /\ p = Maint =>
       /\ x.pc = "exists" => x.key \in Key /\ (x.key \in File => Lost(x.key))
       /\ \A k \in garbage' : Reclaiming(x, k)

(* No row comes, goes, ages or moves; the owner may change.                 *)
SameRows ==
  /\ files' \in [File -> FileRecord]
  /\ \A f \in File : /\ files'[f].kind = files[f].kind /\ files'[f].key = files[f].key
                     /\ files'[f].old = files[f].old
(* A reference only changes to nothing or to a file in the hands of p.      *)
SameRefs(p) ==
  /\ ref' \in [Path -> MaybeFile] /\ checkpoint' \in MaybeFile
  /\ \A x \in Path : ref'[x] \in {ref[x], NoFile} \cup (IF p \in Worker THEN Offered(h[p]) ELSE {})

(* The sets the model is built from do not meet where they must not.        *)
LEMMA Sorts ==
  /\ Maint \notin Worker /\ Maint \in Proc /\ Worker \subseteq Proc
  /\ NoFile \notin File /\ File \subseteq Key /\ Path \subseteq Key /\ File \cap Path = {}
  /\ EntryPath \subseteq Path /\ SkillPath \subseteq Path /\ Constrained \subseteq Path
  BY StoreAssumption DEF Proc, Key, Path, Constrained

LEMMA Becoming ==
  ASSUME StoreTyped, NEW p \in Proc, NEW x \in Hand, h' = [h EXCEPT ![p] = x]
  PROVE  h' \in [Proc -> Hand] /\ h'[p] = x /\ \A q \in Proc \ {p} : h'[q] = h[q]
  BY DEF StoreTyped

LEMMA SameRowsOf ==
  ASSUME SameRows
  PROVE  (\A f \in File : Present(f)' <=> Present(f)) /\ \A k : RowsOf(k)' = RowsOf(k)
  <1>1. \A f \in File : Present(f)' <=> Present(f)
    BY DEF SameRows, Present
  <1> QED
    BY <1>1 DEF SameRows, RowsOf

(* A step that only changes what one process has in its hands, or what the  *)
(* references name.                                                         *)
LEMMA CalmStep ==
  ASSUME StoreInv, NEW p \in Proc, NEW x, MayHold(x, p), h' = [h EXCEPT ![p] = x],
         fresh' = fresh, object' = object, part' = part, upload' = upload,
         contested' = contested,
         \A k \in garbage' : k \in garbage \/ (p = Maint /\ k \in Key /\ Abandoned(k)),
         SameRows, SameRefs(p)
  PROVE  StoreInv'
  <1>1. /\ h' \in [Proc -> Hand] /\ h'[p] = x /\ \A q \in Proc \ {p} : h'[q] = h[q]
    BY Becoming DEF MayHold, StoreInv
  <1>2. (\A f \in File : Present(f)' <=> Present(f)) /\ \A k : RowsOf(k)' = RowsOf(k)
    BY SameRowsOf
  <1>3. ASSUME NEW w \in Worker, w = p
        PROVE  /\ HandShape(x) /\ Parting(x) /\ x.pc # "row"
               /\ \A f \in Held(x) : f \in Held(h[w]) \/ f \notin fresh
               /\ Offered(x) \subseteq Offered(h[w])
    BY <1>3 DEF MayHold
  <1>4. \A w \in Worker : h'[w].pc = "row" => h'[w] = h[w]
    BY <1>1, <1>3, Sorts
  <1>5. \A k : Uploading(k)' => Uploading(k)
    BY <1>4 DEF Uploading
  <1>6. StoreTyped'
    BY <1>1 DEF StoreInv, StoreTyped, SameRows, SameRefs
  <1>7. HandShapes' /\ Partings'
    <2>1. \A w \in Worker : HandShape(h'[w]) /\ Parting(h'[w])
      BY <1>1, <1>3, Sorts DEF StoreInv, HandShapes, Partings
    <2> QED
      BY <2>1 DEF HandShapes, HandShape, Partings, Parting
  <1>8. FreshUnused'
    <2>1. ASSUME NEW f \in fresh PROVE Unused(f)'
      <3>1. Unused(f) /\ f \in File
        BY DEF StoreInv, StoreTyped, FreshUnused
      <3> QED
        BY <1>2, <3>1 DEF Unused, SameRows
    <2>2. ASSUME NEW f \in fresh, NEW w \in Worker PROVE f \notin Held(h'[w])
      BY <1>1, <1>3, Sorts DEF StoreInv, FreshUnused
    <2>3. \A f \in fresh : \A w \in Worker : f \notin Held(h[w])'
      BY <2>2 DEF Held
    <2> QED
      BY <2>1, <2>3 DEF FreshUnused
  <1>9. PartsAlone'
    BY <1>2 DEF StoreInv, PartsAlone
  <1>10. UploadsInv'
    <2>1. ASSUME NEW w \in Worker, h'[w].pc = "row" PROVE Uploaded(h[w])'
      <3>1. h'[w] = h[w] /\ Uploaded(h[w]) /\ HandShape(h[w])
        BY <1>4, <2>1 DEF StoreInv, UploadsInv, HandShapes
      <3> QED
        BY <1>2, <2>1, <3>1 DEF Uploaded, HandShape
    <2>2. ASSUME NEW w \in Worker PROVE Uploaded(h[w])'
      BY <2>1 DEF Uploaded
    <2>3. Alone'
      BY <1>4 DEF StoreInv, UploadsInv, Alone
    <2> QED
      BY <2>2, <2>3 DEF UploadsInv
  <1>11. \A k : Lost(k) => Lost(k)'
    BY <1>5 DEF Lost
  <1>12. Deletions'
    <2>1. ASSUME NEW q \in Proc, NEW k \in h'[q].keys PROVE Deletable(k)'
      <3>1. k \in h[q].keys
        BY <1>1, <2>1 DEF MayHold
      <3>2. Deletable(k)
        BY <3>1 DEF StoreInv, Deletions
      <3> QED
        BY <1>2, <1>5, <1>11, <3>2 DEF Deletable
    <2>2. h'[Maint].pc = "exists" => h'[Maint].key \in Key /\ (h'[Maint].key \in File => Lost(h'[Maint].key))
      BY <1>1, Sorts DEF MayHold, StoreInv, Deletions
    <2>3. h'[Maint].pc = "exists" => h'[Maint].key \in Key /\ (h'[Maint].key \in File => Lost(h[Maint].key)')
      BY <1>11, <2>2, <1>5 DEF Lost
    <2> QED
      BY <2>1, <2>3 DEF Deletions
  <1>13. Contents'
    BY <1>2 DEF StoreInv, Contents, Content, SameRows
  <1>14. Reclaims'
    <2>1. ASSUME NEW w \in Worker, NEW f \in Offered(h'[w]) \cap File PROVE ~ files'[f].old
      <3>1. f \in Offered(h[w])
        BY <1>1, <1>3, <2>1
      <3> QED
        BY <2>1, <3>1 DEF StoreInv, Reclaims, SameRows
    <2>2. ASSUME NEW k \in garbage' PROVE Abandoned(k)'
      <3>1. Abandoned(k)
        BY <2>2 DEF StoreInv, Reclaims
      <3>2. ASSUME NEW f \in RowsOf(k)' PROVE files'[f].old /\ \A y \in Path : ref'[y] # f
        <4>1. f \in RowsOf(k) /\ f \in File
          BY <1>2, <3>2 DEF RowsOf
        <4>2. files[f].old /\ \A y \in Path : ref[y] # f
          BY <3>1, <4>1 DEF Abandoned
        <4>3. \A w \in Worker : f \notin Offered(h[w])
          BY <4>1, <4>2 DEF StoreInv, Reclaims
        <4> QED
          BY <4>1, <4>2, <4>3, Sorts DEF SameRows, SameRefs
      <3> QED
        BY <1>5, <3>1, <3>2 DEF Abandoned
    <2>3. ASSUME NEW k \in garbage' PROVE Reclaiming(h[Maint], k)'
      <3>1. Reclaiming(h'[Maint], k)
        BY <1>1, <2>3, Sorts DEF MayHold, StoreInv, Reclaims
      <3> QED
        BY <1>2, <3>1 DEF Reclaiming
    <2>4. \A w \in Worker : \A f \in Offered(h[w])' \cap File : ~ files'[f].old
      BY <2>1 DEF Offered
    <2>5. garbage' \subseteq Key
      BY DEF StoreInv, Reclaims
    <2> QED
      BY <2>2, <2>3, <2>4, <2>5 DEF Reclaims
  <1> QED
    BY <1>6, <1>7, <1>8, <1>9, <1>10, <1>12, <1>13, <1>14 DEF StoreInv

(* Types of a record and of its changes.                                    *)
LEMMA HandType ==
  ASSUME StoreInv, NEW w \in Worker
  PROVE  h[w] \in Hand /\ HandShape(h[w]) /\ Parting(h[w]) /\ w \in Proc /\ w # Maint
  BY Sorts DEF StoreInv, StoreTyped, HandShapes, Partings

LEMMA Names ==
  /\ \A n \in {"idle", "put", "row", "prior", "commit", "insert", "dropPrior", "drop", "gone", "goneRow",
              "register", "part", "record", "complete", "abort", "unregister"} : n \in Pcs
  /\ \A n \in {"purge", "files", "orphans", "scan", "exists", "done"} : n \in Pcs
  /\ \A n \in {"none", "upload", "output", "checkpoint", "entry", "skill", "chunked", "store", "session"} :
       n \in Kinds
  /\ \A n \in {"idle", "files", "orphans", "scan"} : n \in Thens /\ n \in Pcs
  BY DEF Pcs, Kinds, Thens

LEMMA Sets ==
  /\ \A s : s \subseteq Want <=> s \in Wants
  /\ \A s : s \subseteq EntryPath <=> s \in Drops
  /\ \A s : s \subseteq File <=> s \in Files
  /\ \A s : s \subseteq Key <=> s \in Keys
  /\ \A f \in File : f \in MaybeFile /\ f \in MaybeKey
  /\ \A k \in Key : k \in MaybeKey
  /\ NoFile \in MaybeFile /\ NoFile \in MaybeKey
  /\ \A p \in Path : p \in Want
  /\ "own" \in Want
  BY Sorts DEF Wants, Drops, Files, Keys, MaybeFile, MaybeKey, Want

LEMMA IdleHand == Idle \in Hand
  <1>1. /\ "idle" \in Pcs /\ "none" \in Kinds /\ "idle" \in Thens /\ {} \in Wants /\ {} \in Mades
        /\ {} \in Drops /\ {} \in Files /\ {} \in Keys /\ NoFile \in MaybeFile
        /\ NoFile \in MaybeKey
    BY DEF Pcs, Kinds, Thens, Wants, Mades, Drops, Files, Keys, MaybeFile, MaybeKey
  <1> QED
    BY <1>1 DEF Idle, Hand

LEMMA IdleFields ==
  /\ Idle.pc = "idle" /\ Idle.kind = "none" /\ Idle.want = {} /\ Idle.made = {} /\ Idle.drop = {}
  /\ Idle.file = NoFile /\ Idle.key = NoFile /\ Idle.todo = {} /\ Idle.keys = {} /\ Idle.seen = {}
  /\ Idle.then = "idle"
  BY DEF Idle

LEMMA Nothing == {} \in Files /\ {} \in Keys /\ "idle" \in Thens
  BY Names DEF Files, Keys

LEMMA PurgeHand ==
  ASSUME NEW todo \in Files, NEW keys \in Keys, NEW then \in Thens, NEW x,
         x = Purge(todo, keys, then)
  PROVE  /\ x \in Hand /\ x.pc = "purge" /\ x.kind = "none" /\ x.want = {} /\ x.made = {}
         /\ x.file = NoFile
         /\ x.key = NoFile /\ x.todo = todo /\ x.keys = keys /\ x.seen = {} /\ x.then = then
  <1>1. x = [Idle EXCEPT !.pc = "purge", !.todo = todo, !.keys = keys, !.then = then]
    BY DEF Purge
  <1>2. x \in Hand
    <2>1. "purge" \in Pcs
      BY Names
    <2> QED
      BY <1>1, <2>1, IdleHand DEF Hand
  <1>3. /\ x.pc = "purge" /\ x.kind = "none" /\ x.want = {} /\ x.made = {} /\ x.file = NoFile
        /\ x.key = NoFile /\ x.todo = todo /\ x.keys = keys /\ x.seen = {} /\ x.then = then
    BY <1>1 DEF Idle
  <1> QED
    BY <1>2, <1>3

(* A request that holds nothing may be anywhere but at an upload's steps.   *)
LEMMA BlankHold ==
  ASSUME StoreInv, NEW w \in Worker, NEW x \in Hand, x.made = {}, x.file = NoFile, x.keys = {},
         x.pc \notin Uploads, x.pc \notin {"row", "commit", "prior"}, x.then = "idle",
         x.pc = "put" => x.want # {} /\ x.kind \in RowKinds, x.kind = "entry" => x.want \subseteq Path
  PROVE  MayHold(x, w)
  <1>1. HandShape(x) /\ Parting(x)
    BY DEF HandShape, Parting, Uploads
  <1>2. Held(x) = {NoFile} /\ Offered(x) = {}
    BY DEF Held, Offered
  <1>3. NoFile \notin fresh
    BY Sorts DEF StoreInv, StoreTyped
  <1> QED
    BY <1>1, <1>2, <1>3, Sorts DEF MayHold

Same == UNCHANGED <<fresh, object, part, upload, contested, garbage>>

LEMMA RowsSame ==
  ASSUME StoreInv, files' = files
  PROVE  SameRows
  BY DEF StoreInv, StoreTyped, SameRows

LEMMA RefsSame ==
  ASSUME StoreInv, ref' = ref, checkpoint' = checkpoint, NEW p \in Proc
  PROVE  SameRefs(p)
  BY DEF StoreInv, StoreTyped, SameRefs

(* A request of one step that changes nothing but its own state.            *)
LEMMA QuietRequest ==
  ASSUME StoreInv, NEW w \in Worker, NEW x, MayHold(x, w), Set(w, x), Same,
         files' = files, ref' = ref, checkpoint' = checkpoint
  PROVE  StoreInv'
  <1>1. w \in Proc /\ SameRows /\ SameRefs(w)
    BY RowsSame, RefsSame, Sorts
  <1> QED
    BY <1>1, CalmStep DEF Set, Same

(* Requests that begin with a new id, or with a row that is there.          *)
LEMMA NewFileStep ==
  ASSUME StoreInv, NEW w \in Worker, UploadFile(w) \/ UploadRaw(w)
  PROVE  StoreInv'
  <1>1. PICK kind \in {"upload", "output", "checkpoint"} : NewFile(w, kind)
    BY DEF UploadFile, UploadRaw
  <1>2. PICK x : x = [Idle EXCEPT !.pc = "put", !.kind = kind, !.want = {"own"}]
    OBVIOUS
  <1>3. x \in Hand
    <2>1. "put" \in Pcs /\ kind \in Kinds /\ {"own"} \in Wants
      BY Names, Sets
    <2> QED
      BY <1>2, <2>1, IdleHand DEF Hand
  <1>4. /\ x.pc = "put" /\ x.kind = kind /\ x.want # {} /\ x.made = {} /\ x.file = NoFile
        /\ x.keys = {}
        /\ x.then = "idle"
    BY <1>2 DEF Idle
  <1>5. MayHold(x, w)
    BY <1>3, <1>4, BlankHold DEF Uploads, RowKinds
  <1>6. Set(w, x) /\ Same /\ files' = files /\ ref' = ref /\ checkpoint' = checkpoint
    BY <1>1, <1>2 DEF NewFile, Start, tables, stores, storeHistory, Same
  <1> QED
    BY <1>5, <1>6, QuietRequest

LEMMA EntriesStep ==
  ASSUME StoreInv, NEW w \in Worker, NEW P \in SUBSET EntryPath, NEW D \in SUBSET EntryPath,
         Entries(w, P, D)
  PROVE  StoreInv'
  <1>1. PICK pc \in {"dropPrior", "put"} : pc = (IF P = {} THEN "dropPrior" ELSE "put")
    OBVIOUS
  <1>2. PICK x : x = [Idle EXCEPT !.pc = pc, !.kind = "entry", !.want = P, !.drop = D]
    OBVIOUS
  <1>3. x \in Hand
    <2>1. pc \in Pcs /\ "entry" \in Kinds /\ P \in Wants /\ D \in Drops
      BY <1>1, Names, Sets, Sorts
    <2> QED
      BY <1>2, <2>1, IdleHand DEF Hand
  <1>4. /\ x.pc = pc /\ x.kind = "entry" /\ x.want = P /\ x.made = {} /\ x.file = NoFile
        /\ x.keys = {}
        /\ x.then = "idle"
    BY <1>2 DEF Idle
  <1>5. MayHold(x, w)
    BY <1>1, <1>3, <1>4, BlankHold, Sorts DEF Uploads, RowKinds
  <1>6. Set(w, x) /\ Same /\ files' = files /\ ref' = ref /\ checkpoint' = checkpoint
    BY <1>1, <1>2 DEF Entries, Start, tables, stores, storeHistory, Same
  <1> QED
    BY <1>5, <1>6, QuietRequest

LEMMA WriteSkillStep ==
  ASSUME StoreInv, NEW w \in Worker, NEW P \in SUBSET SkillPath, WriteSkill(w, P)
  PROVE  StoreInv'
  <1>1. PICK x : x = [Idle EXCEPT !.pc = "put", !.kind = "skill", !.want = P]
    OBVIOUS
  <1>2. x \in Hand
    <2>1. "put" \in Pcs /\ "skill" \in Kinds /\ P \in Wants
      BY Names, Sets, Sorts
    <2> QED
      BY <1>1, <2>1, IdleHand DEF Hand
  <1>3. /\ x.pc = "put" /\ x.kind = "skill" /\ x.want = P /\ x.made = {} /\ x.file = NoFile
        /\ x.keys = {}
        /\ x.then = "idle"
    BY <1>1 DEF Idle
  <1>4. P # {}
    BY DEF WriteSkill
  <1>5. MayHold(x, w)
    BY <1>2, <1>3, <1>4, BlankHold DEF Uploads, RowKinds
  <1>6. Set(w, x) /\ Same /\ files' = files /\ ref' = ref /\ checkpoint' = checkpoint
    BY <1>1 DEF WriteSkill, Start, tables, stores, storeHistory, Same
  <1> QED
    BY <1>5, <1>6, QuietRequest

LEMMA DeleteFileStep ==
  ASSUME StoreInv, NEW w \in Worker, NEW f \in File, DeleteFile(w, f)
  PROVE  StoreInv'
  <1>0. PICK T : T = {f}
    OBVIOUS
  <1>1. PICK x : x = Purge(T, {}, "idle")
    OBVIOUS
  <1>2. /\ x \in Hand /\ x.pc = "purge" /\ x.kind = "none" /\ x.made = {} /\ x.file = NoFile
        /\ x.keys = {} /\ x.then = "idle"
    <2>1. T \in Files
      BY <1>0 DEF Files
    <2> QED
      BY <1>1, <2>1, Nothing, PurgeHand
  <1>3. MayHold(x, w)
    BY <1>2, BlankHold DEF Uploads
  <1>4. Set(w, x) /\ Same /\ files' = files /\ ref' = ref /\ checkpoint' = checkpoint
    BY <1>0, <1>1 DEF DeleteFile, Start, tables, stores, storeHistory, Same
  <1> QED
    BY <1>3, <1>4, QuietRequest

LEMMA FilesOfType ==
  ASSUME StoreInv, NEW o \in {"store", "skill", "session"}
  PROVE  FilesOf(o) \in SUBSET File
  <1>1. PathsOf(o) \subseteq Path
    BY Sorts DEF PathsOf
  <1> QED
    BY <1>1 DEF FilesOf, StoreInv, StoreTyped, MaybeFile

LEMMA DeleteOwnerStep ==
  ASSUME StoreInv, NEW w \in Worker, DeleteStore(w) \/ DeleteSkill(w) \/ DeleteSession(w)
  PROVE  StoreInv'
  <1>1. PICK o \in {"store", "skill", "session"} : DeleteOwner(w, o)
    BY DEF DeleteStore, DeleteSkill, DeleteSession
  <1>2. PICK T : T = FilesOf(o)
    OBVIOUS
  <1>3. T \in SUBSET File
    BY <1>2, FilesOfType
  <1>4. PICK x : x = [Idle EXCEPT !.pc = "gone", !.kind = o, !.todo = T]
    OBVIOUS
  <1>5. x \in Hand
    <2>1. "gone" \in Pcs /\ o \in Kinds /\ T \in Files
      BY <1>3, Names, Sets
    <2> QED
      BY <1>4, <2>1, IdleHand DEF Hand
  <1>6. /\ x.pc = "gone" /\ x.kind = o /\ x.made = {} /\ x.file = NoFile /\ x.keys = {}
        /\ x.then = "idle"
    BY <1>4 DEF Idle
  <1>7. MayHold(x, w)
    BY <1>5, <1>6, BlankHold DEF Uploads
  <1>8. Set(w, x) /\ Same /\ files' = files /\ ref' = ref /\ checkpoint' = checkpoint
    BY <1>1, <1>2, <1>4 DEF DeleteOwner, Start, tables, stores, storeHistory, Same
  <1> QED
    BY <1>7, <1>8, QuietRequest

LEMMA UploadRequestStep ==
  ASSUME StoreInv, NEW w \in Worker, NEW f \in File, NEW step \in {"part", "complete", "abort"},
         UploadRequest(w, f, step)
  PROVE  StoreInv'
  <1>1. PICK x : x = [Idle EXCEPT !.pc = step, !.file = f]
    OBVIOUS
  <1>2. x \in Hand
    <2>1. step \in Pcs /\ f \in MaybeFile
      BY Names, Sets
    <2> QED
      BY <1>1, <2>1, IdleHand DEF Hand
  <1>3. /\ x.pc = step /\ x.kind = "none" /\ x.made = {} /\ x.file = f /\ x.keys = {}
        /\ x.then = "idle"
    BY <1>1 DEF Idle
  <1>4. upload[f] # "none"
    BY DEF UploadRequest
  <1>5. f \notin fresh
    BY <1>4 DEF StoreInv, FreshUnused, Unused
  <1>6. HandShape(x) /\ Parting(x) /\ Held(x) = {f} /\ Offered(x) = {} /\ x.pc # "row"
    BY <1>3, <1>4 DEF HandShape, Parting, Held, Offered
  <1>7. MayHold(x, w)
    BY <1>2, <1>3, <1>5, <1>6, Sorts DEF MayHold
  <1>8. Set(w, x) /\ Same /\ files' = files /\ ref' = ref /\ checkpoint' = checkpoint
    BY <1>1 DEF UploadRequest, tables, stores, storeHistory, Same
  <1> QED
    BY <1>7, <1>8, QuietRequest

LEMMA IdleHold ==
  ASSUME StoreInv, NEW w \in Worker
  PROVE  MayHold(Idle, w)
  BY IdleHand, IdleFields, BlankHold DEF Uploads

LEMMA PurgeHold ==
  ASSUME StoreInv, NEW w \in Worker, NEW todo \in SUBSET File
  PROVE  MayHold(Purge(todo, {}, "idle"), w)
  <1>1. PICK x : x = Purge(todo, {}, "idle")
    OBVIOUS
  <1>2. /\ x \in Hand /\ x.pc = "purge" /\ x.kind = "none" /\ x.made = {} /\ x.file = NoFile
        /\ x.keys = {} /\ x.then = "idle"
    <2>1. todo \in Files
      BY DEF Files
    <2> QED
      BY <1>1, <2>1, Nothing, PurgeHand
  <1>3. MayHold(x, w)
    BY <1>2, BlankHold DEF Uploads
  <1> QED
    BY <1>1, <1>3

(* A step of a request that changes what the references name.               *)
LEMMA NamingStep ==
  ASSUME StoreInv, NEW w \in Worker, NEW x, MayHold(x, w), Set(w, x), Same, files' = files,
         SameRefs(w)
  PROVE  StoreInv'
  <1>1. w \in Proc /\ SameRows
    BY RowsSame, Sorts
  <1> QED
    BY <1>1, CalmStep DEF Set, Same

(* A request that goes on with no more in its hands than it had.            *)
LEMMA LessHold ==
  ASSUME StoreInv, NEW w \in Worker, NEW x \in Hand, x.made \subseteq h[w].made,
         x.file \in Held(h[w]) \/ x.file = NoFile, x.keys = h[w].keys, x.kind = h[w].kind,
         x.pc \notin Uploads, x.pc \notin {"row", "put", "idle"}, x.then = h[w].then,
         x.want \subseteq h[w].want,
         x.pc = "commit" /\ x.kind = "entry" => x.file \in Offered(h[w]),
         x.pc \in {"prior", "commit"} /\ x.kind = "checkpoint" => x.file \in File
  PROVE  MayHold(x, w)
  <1>1. HandShape(h[w]) /\ w # Maint
    BY HandType
  <1>2. HandShape(x) /\ Parting(x)
    BY <1>1 DEF HandShape, Parting, Uploads
  <1>3. NoFile \notin fresh
    BY Sorts DEF StoreInv, StoreTyped
  <1>4. \A f \in Held(x) : f \in Held(h[w]) \/ f \notin fresh
    BY <1>3 DEF Held
  <1>5. Offered(x) \subseteq Offered(h[w])
    BY DEF Offered
  <1> QED
    BY <1>1, <1>2, <1>4, <1>5 DEF MayHold

(* The transactions that change a reference: entries, skills, checkpoints.  *)
LEMMA EntryPriorStep ==
  ASSUME StoreInv, NEW w \in Worker, EntryPrior(w)
  PROVE  StoreInv'
  <1>0. h[w] \in Hand /\ HandShape(h[w]) /\ h[w].pc = "prior" /\ h[w].kind = "entry"
    BY HandType DEF EntryPrior
  <1>1. PICK m \in h[w].made :
          Set(w, [h[w] EXCEPT !.pc = "commit", !.key = m[1], !.file = m[2], !.made = @ \ {m},
                              !.todo = @ \cup Replaced(m[1], m[2])])
    BY DEF EntryPrior
  <1>2. m \in Path \X File
    BY <1>0, <1>1 DEF HandShape
  <1>3. PICK g, T, D : g = m[2] /\ T = h[w].todo \cup Replaced(m[1], m[2]) /\ D = h[w].made \ {m}
    OBVIOUS
  <1>4. m[1] \in Path /\ g \in File
    BY <1>2, <1>3
  <1>5. T \in Files /\ D \in Mades /\ m[1] \in MaybeKey /\ g \in MaybeFile /\ "commit" \in Pcs
    <2>1. Replaced(m[1], m[2]) \subseteq File
      BY <1>4 DEF Replaced, StoreInv, StoreTyped, MaybeFile
    <2>2. h[w].todo \in Files /\ h[w].made \in Mades
      BY <1>0 DEF Hand
    <2>3. D \in Mades
      BY <1>3, <2>2 DEF Mades
    <2>4. T \in Files
      BY <1>3, <2>1, <2>2 DEF Files
    <2> QED
      BY <2>3, <2>4, <1>4, Sets, Names, Sorts
  <1>6. PICK x : x = [h[w] EXCEPT !.pc = "commit", !.key = m[1], !.file = g, !.made = D, !.todo = T]
    OBVIOUS
  <1>7. x \in Hand
    BY <1>0, <1>5, <1>6 DEF Hand
  <1>8. /\ x.pc = "commit" /\ x.kind = "entry" /\ x.made = D /\ x.file = g /\ x.want = h[w].want
        /\ x.keys = h[w].keys /\ x.then = h[w].then
    BY <1>0, <1>6 DEF Hand
  <1>9. g \in Held(h[w]) /\ g \in Offered(h[w]) /\ D \subseteq h[w].made
    BY <1>1, <1>3 DEF Held, Offered
  <1>10. MayHold(x, w)
    BY <1>0, <1>7, <1>8, <1>9, LessHold DEF Uploads
  <1>11. Set(w, x) /\ Same /\ files' = files /\ ref' = ref /\ checkpoint' = checkpoint
    BY <1>1, <1>3, <1>6 DEF EntryPrior, tables, stores, storeHistory, Same
  <1> QED
    BY <1>10, <1>11, QuietRequest

LEMMA EntryCommitStep ==
  ASSUME StoreInv, NEW w \in Worker, EntryCommit(w)
  PROVE  StoreInv'
  <1>0. h[w] \in Hand /\ HandShape(h[w]) /\ h[w].pc = "commit" /\ h[w].kind = "entry"
    BY HandType DEF EntryCommit
  <1>1. Same /\ files' = files /\ checkpoint' = checkpoint
    BY DEF EntryCommit, stores, storeHistory, Same
  <1>2. h[w].file \in Offered(h[w]) /\ h[w].file \in MaybeFile
    BY <1>0 DEF Offered, Hand
  <1>3. CASE ~ ("store" \in live /\ Present(h[w].file))
    <2>1. Set(w, Idle) /\ ref' = ref
      BY <1>3 DEF EntryCommit
    <2> QED
      BY <1>1, <2>1, IdleHold, QuietRequest
  <1>4. CASE "store" \in live /\ Present(h[w].file)
    <2>1. /\ ref' = [ref EXCEPT ![h[w].key] = h[w].file]
          /\ Set(w, NextOf([h[w] EXCEPT !.key = NoFile, !.file = NoFile]))
      BY <1>4 DEF EntryCommit
    <2>2. SameRefs(w)
      BY <1>1, <1>2, <2>1 DEF SameRefs, StoreInv, StoreTyped
    <2>3. PICK r : r = [h[w] EXCEPT !.key = NoFile, !.file = NoFile]
      OBVIOUS
    <2>4. r \in Hand
      BY <1>0, <2>3, Sets DEF Hand
    <2>5. /\ r.kind = "entry" /\ r.made = h[w].made /\ r.file = NoFile /\ r.want = h[w].want
          /\ r.keys = h[w].keys /\ r.then = h[w].then
      BY <1>0, <2>3 DEF Hand
    <2>6. ASSUME NEW n \in {"prior", "dropPrior"}, NextOf(r) = [r EXCEPT !.pc = n] PROVE StoreInv'
      <3>1. PICK x : x = [r EXCEPT !.pc = n]
        OBVIOUS
      <3>2. x \in Hand
        BY <2>4, <3>1, Names DEF Hand
      <3>3. /\ x.pc = n /\ x.kind = "entry" /\ x.made = h[w].made /\ x.file = NoFile
            /\ x.want = h[w].want
            /\ x.keys = h[w].keys /\ x.then = h[w].then
        BY <2>4, <2>5, <3>1 DEF Hand
      <3>4. MayHold(x, w)
        BY <1>0, <3>2, <3>3, LessHold DEF Uploads
      <3>5. Set(w, x)
        BY <2>1, <2>3, <2>6, <3>1
      <3> QED
        BY <1>1, <2>2, <3>4, <3>5, NamingStep
    <2>7. ASSUME NextOf(r) = Purge(r.todo, {}, "idle") PROVE StoreInv'
      <3>1. r.todo \in SUBSET File
        BY <2>4 DEF Hand, Files
      <3>2. MayHold(Purge(r.todo, {}, "idle"), w)
        BY <3>1, PurgeHold
      <3> QED
        BY <1>1, <2>1, <2>2, <2>3, <2>7, <3>2, NamingStep
    <2>8. \/ NextOf(r) = [r EXCEPT !.pc = "prior"]
          \/ NextOf(r) = [r EXCEPT !.pc = "dropPrior"]
          \/ NextOf(r) = Purge(r.todo, {}, "idle")
      BY DEF NextOf
    <2> QED
      BY <2>6, <2>7, <2>8
  <1> QED
    BY <1>3, <1>4

LEMMA DropPriorStep ==
  ASSUME StoreInv, NEW w \in Worker, DropPrior(w)
  PROVE  StoreInv'
  <1>0. h[w] \in Hand /\ HandShape(h[w]) /\ h[w].pc = "dropPrior"
    BY HandType DEF DropPrior
  <1>1. PICK T : T = h[w].todo \cup ({ref[y] : y \in h[w].drop} \ {NoFile})
    OBVIOUS
  <1>2. T \in Files
    <2>1. h[w].todo \subseteq File /\ h[w].drop \subseteq Path
      BY <1>0, Sorts DEF Hand, Files, Drops
    <2> QED
      BY <1>1, <2>1 DEF StoreInv, StoreTyped, MaybeFile, Files
  <1>3. PICK x : x = [h[w] EXCEPT !.pc = "drop", !.todo = T]
    OBVIOUS
  <1>4. x \in Hand
    BY <1>0, <1>2, <1>3, Names DEF Hand
  <1>5. /\ x.pc = "drop" /\ x.kind = h[w].kind /\ x.made = h[w].made /\ x.file = h[w].file
        /\ x.want = h[w].want /\ x.keys = h[w].keys /\ x.then = h[w].then
    BY <1>0, <1>3 DEF Hand
  <1>6. h[w].file \in Held(h[w])
    BY DEF Held
  <1>7. MayHold(x, w)
    BY <1>4, <1>5, <1>6, LessHold DEF Uploads
  <1>8. Set(w, x) /\ Same /\ files' = files /\ ref' = ref /\ checkpoint' = checkpoint
    BY <1>1, <1>3 DEF DropPrior, tables, stores, storeHistory, Same
  <1> QED
    BY <1>7, <1>8, QuietRequest

(* Names that go.                                                           *)
LEMMA FewerRefs ==
  ASSUME StoreInv, NEW w \in Worker, NEW P,
         ref' = [y \in Path |-> IF y \in P THEN NoFile ELSE ref[y]],
         checkpoint' = checkpoint
  PROVE  SameRefs(w)
  BY Sets DEF SameRefs, StoreInv, StoreTyped

LEMMA DropStep ==
  ASSUME StoreInv, NEW w \in Worker, Drop(w) \/ OwnerGone(w)
  PROVE  StoreInv'
  <1>1. /\ Set(w, Purge(h[w].todo, {}, "idle")) /\ checkpoint' = checkpoint
        /\ \E P : ref' = [y \in Path |-> IF y \in P THEN NoFile ELSE ref[y]]
        /\ Same /\ files' = files
    BY DEF Drop, OwnerGone, stores, storeHistory, Same
  <1>2. h[w].todo \in SUBSET File
    BY HandType DEF Hand, Files
  <1> QED
    BY <1>1, <1>2, PurgeHold, FewerRefs, NamingStep

LEMMA SkillPriorStep ==
  ASSUME StoreInv, NEW w \in Worker, SkillPrior(w)
  PROVE  StoreInv'
  <1>0. h[w] \in Hand /\ HandShape(h[w]) /\ h[w].pc = "prior" /\ h[w].kind = "skill"
    BY HandType DEF SkillPrior
  <1>1. PICK n \in {"commit", "insert"} : n = (IF "skill" \in live THEN "commit" ELSE "insert")
    OBVIOUS
  <1>2. PICK T : T = FilesOf("skill")
    OBVIOUS
  <1>3. T \in Files
    BY <1>2, FilesOfType DEF Files
  <1>4. PICK x : x = [h[w] EXCEPT !.pc = n, !.todo = T]
    OBVIOUS
  <1>5. x \in Hand
    BY <1>0, <1>3, <1>4, Names DEF Hand
  <1>6. /\ x.pc = n /\ x.kind = "skill" /\ x.made = h[w].made /\ x.file = h[w].file
        /\ x.want = h[w].want /\ x.keys = h[w].keys /\ x.then = h[w].then
    BY <1>0, <1>4 DEF Hand
  <1>7. h[w].file \in Held(h[w])
    BY DEF Held
  <1>8. MayHold(x, w)
    BY <1>0, <1>5, <1>6, <1>7, LessHold DEF Uploads
  <1>9. Set(w, x) /\ Same /\ files' = files /\ ref' = ref /\ checkpoint' = checkpoint
    BY <1>1, <1>2, <1>4 DEF SkillPrior, tables, stores, storeHistory, Same
  <1> QED
    BY <1>8, <1>9, QuietRequest

(* A manifest names what a request offers.                                  *)
LEMMA ManifestRefs ==
  ASSUME StoreInv, NEW w \in Worker, ref' = Manifest(h[w].made), checkpoint' = checkpoint
  PROVE  SameRefs(w)
  <1>1. h[w].made \subseteq Want \X File
    BY HandType DEF Hand, Mades
  <1>2. ASSUME NEW y \in Path
        PROVE  /\ ref'[y] \in MaybeFile
               /\ ref'[y] \in {ref[y], NoFile} \cup Offered(h[w])
    <2>1. CASE y \in EntryPath
      BY <1>2, <2>1 DEF Manifest, StoreInv, StoreTyped
    <2>2. CASE y \notin EntryPath /\ \E m \in h[w].made : m[1] = y
      <3>1. PICK m \in h[w].made : m[1] = y /\ m = (CHOOSE n \in h[w].made : n[1] = y)
        BY <2>2
      <3>2. ref'[y] = m[2]
        BY <1>2, <2>2, <3>1 DEF Manifest
      <3>3. m[2] \in File /\ m[2] \in Offered(h[w])
        BY <1>1, <3>1 DEF Offered
      <3> QED
        BY <3>2, <3>3, Sets
    <2>3. CASE y \notin EntryPath /\ ~ \E m \in h[w].made : m[1] = y
      <3>1. ref'[y] = NoFile
        BY <1>2, <2>3 DEF Manifest
      <3> QED
        BY <3>1, Sets
    <2> QED
      BY <2>1, <2>2, <2>3
  <1>3. ref' = [y \in Path |-> ref'[y]]
    BY DEF Manifest
  <1> QED
    BY <1>2, <1>3 DEF SameRefs, StoreInv, StoreTyped

LEMMA SkillCommitStep ==
  ASSUME StoreInv, NEW w \in Worker, SkillCommit(w)
  PROVE  StoreInv'
  <1>1. \/ Set(w, Purge(h[w].todo, {}, "idle"))
        \/ Set(w, Idle)
    BY DEF SkillCommit
  <1>2. ref' = Manifest(h[w].made) \/ ref' = ref
    BY DEF SkillCommit
  <1>3. Same /\ files' = files /\ checkpoint' = checkpoint
    BY DEF SkillCommit, stores, storeHistory, Same
  <1>4. SameRefs(w)
    BY <1>2, <1>3, ManifestRefs, RefsSame, Sorts
  <1>5. h[w].todo \in SUBSET File
    BY HandType DEF Hand, Files
  <1> QED
    BY <1>1, <1>3, <1>4, <1>5, PurgeHold, IdleHold, NamingStep

LEMMA CheckpointPriorStep ==
  ASSUME StoreInv, NEW w \in Worker, CheckpointPrior(w)
  PROVE  StoreInv'
  <1>0. h[w] \in Hand /\ HandShape(h[w]) /\ h[w].pc = "prior" /\ h[w].kind = "checkpoint"
    BY HandType DEF CheckpointPrior
  <1>1. PICK T : T = {checkpoint} \ {NoFile}
    OBVIOUS
  <1>2. T \in Files
    BY <1>1 DEF StoreInv, StoreTyped, MaybeFile, Files
  <1>3. PICK x : x = [h[w] EXCEPT !.pc = "commit", !.todo = T]
    OBVIOUS
  <1>4. x \in Hand
    BY <1>0, <1>2, <1>3, Names DEF Hand
  <1>5. /\ x.pc = "commit" /\ x.kind = "checkpoint" /\ x.made = h[w].made /\ x.file = h[w].file
        /\ x.want = h[w].want /\ x.keys = h[w].keys /\ x.then = h[w].then
    BY <1>0, <1>3 DEF Hand
  <1>6. h[w].file \in Held(h[w]) /\ h[w].file \in File
    BY <1>0 DEF Held, HandShape
  <1>7. MayHold(x, w)
    BY <1>0, <1>4, <1>5, <1>6, LessHold DEF Uploads
  <1>8. Set(w, x) /\ Same /\ files' = files /\ ref' = ref /\ checkpoint' = checkpoint
    BY <1>1, <1>3 DEF CheckpointPrior, tables, stores, storeHistory, Same
  <1> QED
    BY <1>7, <1>8, QuietRequest

LEMMA CheckpointCommitStep ==
  ASSUME StoreInv, NEW w \in Worker, CheckpointCommit(w)
  PROVE  StoreInv'
  <1>0. h[w] \in Hand /\ h[w].file \in File /\ h[w].todo \in SUBSET File
    BY HandType DEF CheckpointCommit, HandShape, Hand, Files
  <1>1. /\ checkpoint' \in {checkpoint, h[w].file}
        /\ \/ Set(w, Purge(h[w].todo, {}, "idle"))
           \/ Set(w, Purge({h[w].file}, {}, "idle"))
    BY DEF CheckpointCommit
  <1>2. Same /\ files' = files /\ ref' = ref
    BY DEF CheckpointCommit, stores, storeHistory, Same
  <1>3. SameRefs(w)
    BY <1>0, <1>1, <1>2 DEF SameRefs, StoreInv, StoreTyped, MaybeFile
  <1>4. {h[w].file} \in SUBSET File
    BY <1>0
  <1> QED
    BY <1>0, <1>1, <1>2, <1>3, <1>4, PurgeHold, NamingStep

(* A step of any process that only changes what it has in its hands.        *)
LEMMA OwnStep ==
  ASSUME StoreInv, NEW p \in Proc, NEW x, MayHold(x, p), Set(p, x), Same, files' = files,
         ref' = ref, checkpoint' = checkpoint
  PROVE  StoreInv'
  <1>1. SameRows /\ SameRefs(p)
    BY RowsSame, RefsSame
  <1> QED
    BY <1>1, CalmStep DEF Set, Same

(* The maintenance run holds nothing but its lists.                         *)
LEMMA MaintHold ==
  ASSUME NEW x \in Hand, x.keys \subseteq h[Maint].keys, x.pc # "exists",
         \A k \in garbage' : Reclaiming(x, k)
  PROVE  MayHold(x, Maint)
  BY Sorts DEF MayHold

(* A step of the maintenance run that leaves the stores alone.              *)
LEMMA MaintReclaims ==
  ASSUME StoreInv
  PROVE  /\ h[Maint] \in Hand
         /\ \A k \in garbage : Reclaiming(h[Maint], k) /\ Abandoned(k)
         /\ h[Maint].pc \notin {"purge", "scan", "exists", "done"} => garbage = {}
  BY Sorts DEF StoreInv, StoreTyped, Reclaims, Reclaiming

LEMMA SessionGoneStep ==
  ASSUME StoreInv, NEW p \in Proc, SessionGone(p)
  PROVE  StoreInv'
  <1>0. h[p] \in Hand /\ h[p].keys \in Keys /\ h[p].then \in Thens
    BY DEF StoreInv, StoreTyped, Hand
  <1>1. PICK x : x = Purge({}, h[p].keys, h[p].then)
    OBVIOUS
  <1>2. /\ x \in Hand /\ x.pc = "purge" /\ x.kind = "none" /\ x.made = {} /\ x.file = NoFile
        /\ x.keys = h[p].keys /\ x.then = h[p].then
    BY <1>0, <1>1, Nothing, PurgeHand
  <1>3. Set(p, x) /\ Same /\ ref' = ref /\ checkpoint' = NoFile
    BY <1>1 DEF SessionGone, stores, storeHistory, Same
  <1>4. SameRows
    <2>1. files' = [f \in File |-> [files[f] EXCEPT !.owned = FALSE]] /\ files \in [File -> FileRecord]
      BY DEF SessionGone, StoreInv, StoreTyped
    <2>2. \A f \in File : /\ [files[f] EXCEPT !.owned = FALSE] \in FileRecord
                          /\ [files[f] EXCEPT !.owned = FALSE].kind = files[f].kind
                          /\ [files[f] EXCEPT !.owned = FALSE].key = files[f].key
                          /\ [files[f] EXCEPT !.owned = FALSE].old = files[f].old
      BY <2>1 DEF FileRecord
    <2> QED
      BY <2>1, <2>2 DEF SameRows
  <1>5. SameRefs(p)
    BY <1>3, Sets DEF SameRefs, StoreInv, StoreTyped
  <1>6. MayHold(x, p)
    <2>1. CASE p \in Worker
      <3>1. HandShape(h[p]) /\ p # Maint
        BY <2>1, HandType
      <3>2. HandShape(x) /\ Parting(x)
        BY <1>2, <3>1 DEF HandShape, Parting, Uploads
      <3>3. Held(x) = {NoFile} /\ Offered(x) = {}
        BY <1>2 DEF Held, Offered
      <3>4. NoFile \notin fresh
        BY Sorts DEF StoreInv, StoreTyped
      <3> QED
        BY <1>2, <3>1, <3>2, <3>3, <3>4 DEF MayHold
    <2>2. CASE p = Maint
      <3>1. garbage' = {}
        BY <1>3, <2>2, MaintReclaims DEF SessionGone, Same
      <3> QED
        BY <1>2, <2>2, <3>1, MaintHold
    <2> QED
      BY <2>1, <2>2 DEF Proc
  <1> QED
    BY <1>3, <1>4, <1>5, <1>6, CalmStep DEF Set, Same

LEMMA PurgeEndStep ==
  ASSUME StoreInv, NEW p \in Proc, PurgeEnd(p)
  PROVE  StoreInv'
  <1>0. /\ h[p] \in Hand /\ h[p].pc = "purge" /\ h[p].keys = {} /\ h[p].todo = {}
        /\ h[p].then \in Thens /\ h[p].seen \in Keys
    BY DEF StoreInv, StoreTyped, PurgeEnd, Hand
  <1>1. PICK x : x = [Idle EXCEPT !.pc = h[p].then, !.seen = h[p].seen]
    OBVIOUS
  <1>2. x \in Hand
    BY <1>0, <1>1, IdleHand, Names DEF Hand, Thens
  <1>3. /\ x.pc = h[p].then /\ x.kind = "none" /\ x.made = {} /\ x.file = NoFile /\ x.keys = {}
        /\ x.then = "idle" /\ x.seen = h[p].seen
    BY <1>1 DEF Idle
  <1>4. MayHold(x, p)
    <2>1. CASE p \in Worker
      <3>1. h[p].then = "idle"
        BY <2>1, HandType DEF HandShape
      <3> QED
        BY <1>2, <1>3, <2>1, <3>1, BlankHold DEF Uploads
    <2>2. CASE p = Maint
      <3>1. ASSUME NEW k \in garbage PROVE Reclaiming(x, k)
        <4>1. Reclaiming(h[Maint], k)
          BY MaintReclaims
        <4>2. h[Maint].then = "scan" /\ RowsOf(k) = {} /\ ~ (object[k] = "old" /\ k \in h[Maint].seen)
          BY <1>0, <2>2, <4>1 DEF Reclaiming
        <4> QED
          BY <1>3, <2>2, <4>2 DEF Reclaiming
      <3>2. garbage' = garbage
        BY DEF PurgeEnd, storeHistory
      <3>3. x.pc # "exists"
        BY <1>0, <1>3 DEF Thens
      <3> QED
        BY <1>2, <1>3, <2>2, <3>1, <3>2, <3>3, MaintHold
    <2> QED
      BY <2>1, <2>2 DEF Proc
  <1>5. Set(p, x) /\ Same /\ files' = files /\ ref' = ref /\ checkpoint' = checkpoint
    BY <1>1 DEF PurgeEnd, tables, stores, storeHistory, Same
  <1> QED
    BY <1>4, <1>5, OwnStep

LEMMA AttachStep ==
  ASSUME StoreInv, UNCHANGED <<fresh, files, object, part, upload, ref, checkpoint, h, contested, garbage>>
  PROVE  StoreInv'
  <1>1. h[Maint] \in Hand /\ \A k \in garbage' : Reclaiming(h[Maint], k)
    BY MaintReclaims
  <1>2. MayHold(h[Maint], Maint)
    BY <1>1, Sorts DEF MayHold, StoreInv, Deletions
  <1>3. h' = [h EXCEPT ![Maint] = h[Maint]]
    BY Sorts DEF StoreInv, StoreTyped
  <1> QED
    BY <1>2, <1>3, OwnStep, Sorts DEF Set, Same

(* The maintenance run starts a section with nothing in its hands.          *)
LEMMA SectionStep ==
  ASSUME StoreInv, NEW x, x \in Hand, x.keys = {}, x.pc # "exists", Set(Maint, x), Same,
         files' = files, ref' = ref, checkpoint' = checkpoint,
         h[Maint].pc \notin {"purge", "scan", "exists", "done"}
  PROVE  StoreInv'
  <1>1. garbage' = {}
    BY MaintReclaims DEF Same
  <1>2. MayHold(x, Maint)
    BY <1>1, MaintHold
  <1> QED
    BY <1>2, OwnStep, Sorts

LEMMA MaintSessionsStep ==
  ASSUME StoreInv, MaintSessions
  PROVE  StoreInv'
  <1>1. /\ h[Maint].pc \notin {"purge", "scan", "exists", "done"} /\ Same
        /\ files' = files /\ ref' = ref /\ checkpoint' = checkpoint
    BY DEF MaintSessions, tables, stores, storeHistory, Same
  <1>2. CASE Set(Maint, [Idle EXCEPT !.pc = "files"])
    <2>1. PICK x : x = [Idle EXCEPT !.pc = "files"]
      OBVIOUS
    <2>2. x \in Hand
      BY <2>1, IdleHand, Names DEF Hand
    <2>3. x.keys = {} /\ x.pc = "files"
      BY <2>1 DEF Idle
    <2> QED
      BY <1>1, <1>2, <2>1, <2>2, <2>3, SectionStep
  <1>3. CASE Set(Maint, [Idle EXCEPT !.pc = "gone", !.kind = "session", !.then = "files"])
    <2>1. PICK x : x = [Idle EXCEPT !.pc = "gone", !.kind = "session", !.then = "files"]
      OBVIOUS
    <2>2. x \in Hand
      BY <2>1, IdleHand, Names DEF Hand
    <2>3. x.keys = {} /\ x.pc = "gone"
      BY <2>1 DEF Idle
    <2> QED
      BY <1>1, <1>3, <2>1, <2>2, <2>3, SectionStep
  <1> QED
    BY <1>2, <1>3 DEF MaintSessions

LEMMA MaintFilesStep ==
  ASSUME StoreInv, MaintFiles
  PROVE  StoreInv'
  <1>1. /\ h[Maint].pc \notin {"purge", "scan", "exists", "done"} /\ Same
        /\ files' = files /\ ref' = ref /\ checkpoint' = checkpoint
    BY DEF MaintFiles, tables, stores, storeHistory, Same
  <1>2. CASE Set(Maint, [Idle EXCEPT !.pc = "orphans"])
    <2>1. PICK x : x = [Idle EXCEPT !.pc = "orphans"]
      OBVIOUS
    <2>2. x \in Hand
      BY <2>1, IdleHand, Names DEF Hand
    <2>3. x.keys = {} /\ x.pc = "orphans"
      BY <2>1 DEF Idle
    <2> QED
      BY <1>1, <1>2, <2>1, <2>2, <2>3, SectionStep
  <1>3. CASE Set(Maint, Purge(Expired, {}, "orphans"))
    <2>1. PICK T : T = Expired
      OBVIOUS
    <2>2. T \in Files
      BY <2>1 DEF Expired, Files
    <2>3. "orphans" \in Thens
      BY Names
    <2>4. PICK x : x = Purge(T, {}, "orphans")
      OBVIOUS
    <2>5. x \in Hand /\ x.keys = {} /\ x.pc = "purge"
      BY <2>2, <2>3, <2>4, Nothing, PurgeHand
    <2> QED
      BY <1>1, <1>3, <2>1, <2>4, <2>5, SectionStep
  <1> QED
    BY <1>2, <1>3 DEF MaintFiles

(* An object an hour old is of no file given out, and of none uploaded.     *)
LEMMA OldLost ==
  ASSUME StoreInv, NEW k \in Key, object[k] = "old"
  PROVE  ~ Uploading(k) /\ k \notin fresh /\ (k \in File => part[k] = "none")
  <1>1. k \notin fresh
    BY DEF StoreInv, FreshUnused, Unused
  <1>2. k \in File => part[k] = "none"
    BY DEF StoreInv, PartsAlone
  <1>3. ~ Uploading(k)
    BY DEF Uploading, StoreInv, UploadsInv, Uploaded
  <1> QED
    BY <1>1, <1>2, <1>3

LEMMA MaintScanStep ==
  ASSUME StoreInv, MaintScan
  PROVE  StoreInv'
  <1>1. PICK k : k = (CHOOSE l \in Listed : TRUE)
    OBVIOUS
  <1>2. k \in Key /\ object[k] = "old" /\ k \notin h[Maint].seen
    BY <1>1 DEF MaintScan, Listed
  <1>3. h[Maint] \in Hand /\ h[Maint].pc = "scan"
    BY MaintReclaims DEF MaintScan
  <1>4. PICK s : s = h[Maint].seen \cup {k}
    OBVIOUS
  <1>5. s \in Keys /\ k \in MaybeKey
    BY <1>2, <1>3, <1>4, Sets DEF Hand, Keys
  <1>6. PICK x : x = [h[Maint] EXCEPT !.pc = "exists", !.key = k, !.seen = s]
    OBVIOUS
  <1>7. x \in Hand
    BY <1>3, <1>5, <1>6, Names DEF Hand
  <1>8. x.pc = "exists" /\ x.key = k /\ x.seen = s /\ x.keys = h[Maint].keys
    BY <1>3, <1>6 DEF Hand
  <1>9. ASSUME NEW j \in garbage PROVE Reclaiming(x, j)
    <2>1. Reclaiming(h[Maint], j)
      BY MaintReclaims
    <2> QED
      BY <1>3, <1>4, <1>8, <2>1 DEF Reclaiming
  <1>10. k \in File => Lost(k)
    BY <1>2, OldLost DEF Lost
  <1>11. Set(Maint, x) /\ Same /\ files' = files /\ ref' = ref /\ checkpoint' = checkpoint
    BY <1>1, <1>4, <1>6 DEF MaintScan, tables, stores, storeHistory, Same
  <1>12. MayHold(x, Maint)
    BY <1>2, <1>7, <1>8, <1>9, <1>10, <1>11, Sorts DEF MayHold, Same
  <1> QED
    BY <1>11, <1>12, OwnStep, Sorts

LEMMA MaintDoneStep ==
  ASSUME StoreInv, MaintDone
  PROVE  StoreInv'
  <1>1. /\ fresh' = fresh /\ object' = object /\ part' = part /\ upload' = upload
        /\ contested' = contested /\ files' = files /\ ref' = ref /\ checkpoint' = checkpoint
    BY DEF MaintDone, tables, stores
  <1>2. SameRows /\ SameRefs(Maint)
    BY <1>1, RowsSame, RefsSame, Sorts
  <1>3. CASE h[Maint].pc = "scan" /\ Listed = {} /\ Set(Maint, [Idle EXCEPT !.pc = "done"]) /\ garbage' = garbage
    <2>1. PICK x : x = [Idle EXCEPT !.pc = "done"]
      OBVIOUS
    <2>2. x \in Hand
      BY <2>1, IdleHand, Names DEF Hand
    <2>3. x.keys = {} /\ x.pc = "done" /\ x.seen = {}
      BY <2>1 DEF Idle
    <2>4. ASSUME NEW k \in garbage PROVE Reclaiming(x, k)
      <3>1. Reclaiming(h[Maint], k) /\ Abandoned(k) /\ k \in Key
        BY MaintReclaims DEF StoreInv, Reclaims
      <3>2. RowsOf(k) = {} /\ ~ (object[k] = "old" /\ k \in h[Maint].seen)
        BY <1>3, <3>1 DEF Reclaiming
      <3>3. object[k] # "old"
        BY <1>3, <3>1, <3>2 DEF Listed
      <3>4. object[k] = "none"
        BY <3>1, <3>3 DEF Abandoned, StoreInv, StoreTyped
      <3> QED
        BY <2>3, <3>2, <3>4 DEF Reclaiming
    <2>5. MayHold(x, Maint)
      BY <1>3, <2>2, <2>3, <2>4, MaintHold
    <2> QED
      BY <1>1, <1>2, <1>3, <2>1, <2>5, CalmStep, Sorts DEF Set
  <1>4. CASE h[Maint].pc = "done" /\ Set(Maint, Idle) /\ garbage' = {}
    <2>1. MayHold(Idle, Maint)
      BY <1>4, IdleHand, IdleFields, MaintHold
    <2> QED
      BY <1>1, <1>2, <1>4, <2>1, CalmStep, Sorts DEF Set
  <1> QED
    BY <1>3, <1>4 DEF MaintDone

LEMMA MaintOrphansStep ==
  ASSUME StoreInv, MaintOrphans
  PROVE  StoreInv'
  <1>1. PICK T : T = OrphanRows
    OBVIOUS
  <1>2. T \in Files
    BY <1>1 DEF OrphanRows, Files
  <1>3. PICK x : x = Purge(T, {}, "scan")
    OBVIOUS
  <1>4. /\ x \in Hand /\ x.pc = "purge" /\ x.keys = {} /\ x.seen = {} /\ x.then = "scan"
        /\ x.todo = T
    <2>1. "scan" \in Thens
      BY Names
    <2> QED
      BY <1>2, <1>3, <2>1, Nothing, PurgeHand
  <1>5. /\ Set(Maint, x) /\ fresh' = fresh /\ object' = object /\ part' = part /\ upload' = upload
        /\ contested' = contested /\ files' = files /\ ref' = ref /\ checkpoint' = checkpoint
        /\ garbage' = {k \in Key : object[k] = "old" /\ \A f \in RowsOf(k) : files[f].old /\ ~ Wanted(f)}
    BY <1>1, <1>3 DEF MaintOrphans, tables, stores
  <1>6. ASSUME NEW k \in garbage'
        PROVE  k \in Key /\ Abandoned(k) /\ Reclaiming(x, k)
    <2>1. k \in Key /\ object[k] = "old" /\ \A f \in RowsOf(k) : files[f].old /\ ~ Wanted(f)
      BY <1>5, <1>6
    <2>2. Abandoned(k)
      BY <2>1, OldLost DEF Abandoned, Wanted
    <2>3. ASSUME NEW f \in RowsOf(k) PROVE f \in T
      <3>1. f \in File /\ files[f].kind # "none" /\ files[f].kind \in RowKinds
        BY <2>3 DEF RowsOf, Present, StoreInv, StoreTyped, FileRecord
      <3>2. files[f].old /\ ~ Wanted(f)
        BY <2>1, <2>3
      <3>3. files[f].kind \in {"checkpoint", "entry", "skill"}
        BY <3>1, <3>2 DEF Wanted, RowKinds
      <3>4. checkpoint # f /\ \A y \in Path : ref[y] # f
        BY <3>2 DEF Wanted
      <3>5. OrphanRow(f)
        BY <3>3, <3>4, Sorts DEF OrphanRow
      <3> QED
        BY <1>1, <3>1, <3>2, <3>5 DEF OrphanRows
    <2>4. Reclaiming(x, k)
      BY <1>4, <2>3 DEF Reclaiming
    <2> QED
      BY <2>1, <2>2, <2>4
  <1>7. MayHold(x, Maint)
    BY <1>4, <1>6, Sorts DEF MayHold
  <1>8. SameRows /\ SameRefs(Maint)
    BY <1>5, RowsSame, RefsSame, Sorts
  <1> QED
    BY <1>5, <1>6, <1>7, <1>8, CalmStep, Sorts DEF Set

(* A step on one chunked upload: its row or its parts change, or both.      *)
LEMMA PartingStep ==
  ASSUME StoreInv, NEW w \in Worker, NEW x \in Hand, NEW f \in File, f \in Held(h[w]), Set(w, x),
         h[w].pc # "row", x.pc # "row", HandShape(x), Held(x) \subseteq Held(h[w]) \cup {NoFile},
         Offered(x) \subseteq Offered(h[w]), x.keys \subseteq h[w].keys,
         UNCHANGED <<fresh, object, files, ref, checkpoint, contested, garbage>>,
         NEW u \in {"none", "open", "ready"}, NEW q \in {"none", "empty", "filled"},
         upload' = [upload EXCEPT ![f] = u], part' = [part EXCEPT ![f] = q],
         q # "none" => part[f] # "none",
         q = "filled" => u # "none",
         u = "none" => q = "none" \/ upload[f] = "none",
         Parting(x)'
  PROVE  StoreInv'
  <1>1. /\ h' \in [Proc -> Hand] /\ h'[w] = x /\ \A v \in Proc \ {w} : h'[v] = h[v]
    BY Becoming, Sorts DEF Set, StoreInv
  <1>2. w \in Proc /\ w # Maint
    BY Sorts
  <1>3. /\ upload'[f] = u /\ part'[f] = q
        /\ \A g \in File \ {f} : upload'[g] = upload[g] /\ part'[g] = part[g]
    BY DEF StoreInv, StoreTyped
  <1>4. (\A g : Present(g)' <=> Present(g)) /\ \A k : RowsOf(k)' = RowsOf(k)
    BY DEF Present, RowsOf
  <1>5. \A v \in Worker : h'[v].pc = "row" => h'[v] = h[v]
    BY <1>1, Sorts
  <1>6. \A k : Uploading(k)' => Uploading(k)
    BY <1>5 DEF Uploading
  <1>7. \A g \in File : part[g] = "none" => part'[g] = "none"
    BY <1>3
  <1>8. StoreTyped'
    BY <1>1 DEF StoreInv, StoreTyped
  <1>9. HandShapes'
    <2>1. \A v \in Worker : HandShape(h'[v])
      BY <1>1, Sorts DEF StoreInv, HandShapes
    <2> QED
      BY <2>1 DEF HandShapes, HandShape
  <1>10. Partings'
    <2>1. ASSUME NEW v \in Worker PROVE Parting(h[v])'
      <3>1. CASE v = w
        BY <1>1, <3>1, <1>2 DEF Parting
      <3>2. CASE v # w
        <4>1. h'[v] = h[v] /\ Parting(h[v]) /\ HandShape(h[v])
          BY <1>1, <3>2, Sorts DEF StoreInv, Partings, HandShapes
        <4>2. CASE h[v].pc = "part"
          <5>1. h[v].file \in File
            BY <4>1, <4>2 DEF HandShape, Uploads
          <5> QED
            BY <1>3, <4>1, <4>2, <5>1 DEF Parting
        <4>3. CASE h[v].pc = "unregister"
          <5>1. h[v].file \in File
            BY <4>1, <4>3 DEF HandShape, Uploads
          <5> QED
            BY <1>7, <4>1, <4>3, <5>1 DEF Parting
        <4> QED
          BY <4>1, <4>2, <4>3 DEF Parting
      <3> QED
        BY <3>1, <3>2
    <2> QED
      BY <2>1 DEF Partings
  <1>11. FreshUnused'
    <2>1. f \notin fresh
      BY DEF StoreInv, FreshUnused
    <2>2. ASSUME NEW g \in fresh PROVE Unused(g)'
      <3>1. Unused(g) /\ g \in File /\ g # f
        BY <2>1 DEF StoreInv, StoreTyped, FreshUnused
      <3> QED
        BY <1>3, <1>4, <3>1 DEF Unused
    <2>3. NoFile \notin fresh
      BY Sorts DEF StoreInv, StoreTyped
    <2>4. ASSUME NEW g \in fresh, NEW v \in Worker PROVE g \notin Held(h'[v])
      BY <1>1, <1>2, <2>3, Sorts DEF StoreInv, FreshUnused
    <2>5. \A g \in fresh : \A v \in Worker : g \notin Held(h[v])'
      BY <2>4 DEF Held
    <2> QED
      BY <2>2, <2>5 DEF FreshUnused
  <1>12. PartsAlone'
    BY <1>3, <1>4 DEF StoreInv, PartsAlone
  <1>13. UploadsInv'
    <2>1. ASSUME NEW v \in Worker, h'[v].pc = "row" PROVE Uploaded(h[v])'
      <3>1. h'[v] = h[v] /\ Uploaded(h[v]) /\ HandShape(h[v])
        BY <1>5, <2>1 DEF StoreInv, UploadsInv, HandShapes
      <3> QED
        BY <1>4, <1>7, <2>1, <3>1 DEF Uploaded, HandShape
    <2>2. ASSUME NEW v \in Worker PROVE Uploaded(h[v])'
      BY <2>1 DEF Uploaded
    <2>3. Alone'
      BY <1>5 DEF StoreInv, UploadsInv, Alone
    <2> QED
      BY <2>2, <2>3 DEF UploadsInv
  <1>14. \A k \in File : Lost(k) => Lost(k)'
    BY <1>6, <1>7 DEF Lost
  <1>15. Deletions'
    <2>1. ASSUME NEW p \in Proc, NEW k \in h'[p].keys PROVE Deletable(k)'
      <3>1. k \in h[p].keys
        BY <1>1, <2>1
      <3>2. Deletable(k)
        BY <3>1 DEF StoreInv, Deletions
      <3> QED
        BY <1>4, <1>6, <1>14, <3>2 DEF Deletable
    <2>2. h'[Maint] = h[Maint]
      BY <1>1, <1>2, Sorts
    <2>3. h[Maint].pc = "exists" => h[Maint].key \in Key /\ (h[Maint].key \in File => Lost(h[Maint].key))
      BY DEF StoreInv, Deletions
    <2>4. PICK k : k = h[Maint].key
      OBVIOUS
    <2>5. h'[Maint].key = k /\ (k \in File /\ Lost(k) => Lost(k)')
      BY <1>14, <2>2, <2>4
    <2>6. k \in File /\ h[Maint].pc = "exists" => Lost(k)'
      BY <2>3, <2>4, <2>5
    <2>7. k \in File /\ h[Maint].pc = "exists" => Lost(h[Maint].key)'
      BY <2>5, <2>6 DEF Lost, Uploading
    <2> QED
      BY <2>1, <2>2, <2>3, <2>4, <2>7 DEF Deletions
  <1>16. Contents'
    BY <1>4 DEF StoreInv, Contents, Content
  <1>17. Reclaims'
    <2>1. ASSUME NEW v \in Worker, NEW g \in Offered(h'[v]) \cap File PROVE ~ files'[g].old
      <3>1. g \in Offered(h[v])
        BY <1>1, <2>1, Sorts
      <3> QED
        BY <2>1, <3>1 DEF StoreInv, Reclaims
    <2>2. ASSUME NEW k \in garbage PROVE Abandoned(k)'
      <3>1. Abandoned(k)
        BY <2>2 DEF StoreInv, Reclaims
      <3> QED
        BY <1>4, <1>6, <1>7, <3>1 DEF Abandoned
    <2>3. ASSUME NEW k \in garbage PROVE Reclaiming(h[Maint], k)'
      <3>1. Reclaiming(h[Maint], k)
        BY <2>3 DEF StoreInv, Reclaims
      <3>2. h'[Maint] = h[Maint]
        BY <1>1, <1>2, Sorts
      <3> QED
        BY <1>4, <3>1, <3>2 DEF Reclaiming
    <2>4. \A v \in Worker : \A g \in Offered(h[v])' \cap File : ~ files'[g].old
      BY <2>1 DEF Offered
    <2> QED
      BY <2>2, <2>3, <2>4 DEF StoreInv, Reclaims
  <1> QED
    BY <1>8, <1>9, <1>10, <1>11, <1>12, <1>13, <1>15, <1>16, <1>17 DEF StoreInv

(* A step that leaves a request idle, in the middle of an upload.           *)
LEMMA RegisterStep ==
  ASSUME StoreInv, NEW w \in Worker, Register(w)
  PROVE  StoreInv'
  <1>1. PICK f : f = h[w].file
    OBVIOUS
  <1>2. f \in File /\ f \in Held(h[w]) /\ h[w].pc = "register"
    BY <1>1, HandType DEF Register, HandShape, Uploads, Held
  <1>3. /\ upload' = [upload EXCEPT ![f] = "open"] /\ Set(w, Idle)
        /\ UNCHANGED <<fresh, object, files, ref, checkpoint, contested, garbage>> /\ part' = part
    BY <1>1 DEF Register, stores, storeHistory
  <1>4. PICK q \in {"none", "empty", "filled"} : q = part[f]
    BY <1>2 DEF StoreInv, StoreTyped
  <1>5. part' = [part EXCEPT ![f] = q]
    BY <1>2, <1>3, <1>4 DEF StoreInv, StoreTyped
  <1>6. MayHold(Idle, w) /\ Idle \in Hand /\ Held(Idle) = {NoFile} /\ Offered(Idle) = {}
    BY IdleHold, IdleHand, IdleFields DEF Held, Offered
  <1>7. HandShape(Idle) /\ Idle.pc # "row" /\ Idle.keys \subseteq h[w].keys
    BY <1>6 DEF MayHold
  <1>8. Parting(Idle)'
    BY IdleFields DEF Parting
  <1> QED
    BY <1>2, <1>3, <1>4, <1>5, <1>6, <1>7, <1>8, PartingStep

LEMMA RecordPartStep ==
  ASSUME StoreInv, NEW w \in Worker, RecordPart(w)
  PROVE  StoreInv'
  <1>1. PICK f : f = h[w].file
    OBVIOUS
  <1>2. f \in File /\ f \in Held(h[w]) /\ h[w].pc = "record"
    BY <1>1, HandType DEF RecordPart, HandShape, Uploads, Held
  <1>3. PICK u \in {"none", "open", "ready"} : u = (IF upload[f] = "none" THEN "none" ELSE "ready")
    OBVIOUS
  <1>4. /\ upload' = [upload EXCEPT ![f] = u] /\ Set(w, Idle)
        /\ UNCHANGED <<fresh, object, files, ref, checkpoint, contested, garbage>> /\ part' = part
    BY <1>1, <1>2, <1>3 DEF RecordPart, stores, storeHistory, StoreInv, StoreTyped
  <1>5. PICK q \in {"none", "empty", "filled"} : q = part[f]
    BY <1>2 DEF StoreInv, StoreTyped
  <1>6. part' = [part EXCEPT ![f] = q]
    BY <1>2, <1>4, <1>5 DEF StoreInv, StoreTyped
  <1>7. q = "filled" => u # "none"
    BY <1>2, <1>3, <1>5 DEF StoreInv, PartsAlone
  <1>8. MayHold(Idle, w) /\ Idle \in Hand /\ Held(Idle) = {NoFile} /\ Offered(Idle) = {}
    BY IdleHold, IdleHand, IdleFields DEF Held, Offered
  <1>9. HandShape(Idle) /\ Idle.pc # "row" /\ Idle.keys \subseteq h[w].keys
    BY <1>8 DEF MayHold
  <1>10. Parting(Idle)'
    BY IdleFields DEF Parting
  <1>11. u = "none" => upload[f] = "none"
    BY <1>3
  <1>12. q # "none" => part[f] # "none"
    BY <1>5
  <1> QED
    BY <1>2, <1>4, <1>6, <1>7, <1>8, <1>9, <1>10, <1>11, <1>12, PartingStep

LEMMA UnregisterStep ==
  ASSUME StoreInv, NEW w \in Worker, Unregister(w)
  PROVE  StoreInv'
  <1>1. PICK f : f = h[w].file
    OBVIOUS
  <1>2. f \in File /\ f \in Held(h[w]) /\ h[w].pc = "unregister" /\ part[f] = "none"
    BY <1>1, HandType DEF Unregister, HandShape, Uploads, Held, Parting
  <1>3. /\ upload' = [upload EXCEPT ![f] = "none"] /\ Set(w, Idle)
        /\ UNCHANGED <<fresh, object, files, ref, checkpoint, contested, garbage>> /\ part' = part
    BY <1>1 DEF Unregister, stores, storeHistory
  <1>4. part' = [part EXCEPT ![f] = "none"]
    BY <1>2, <1>3 DEF StoreInv, StoreTyped
  <1>5. MayHold(Idle, w) /\ Idle \in Hand /\ Held(Idle) = {NoFile} /\ Offered(Idle) = {}
    BY IdleHold, IdleHand, IdleFields DEF Held, Offered
  <1>6. HandShape(Idle) /\ Idle.pc # "row" /\ Idle.keys \subseteq h[w].keys
    BY <1>5 DEF MayHold
  <1>7. Parting(Idle)'
    BY IdleFields DEF Parting
  <1> QED
    BY <1>2, <1>3, <1>4, <1>5, <1>6, <1>7, PartingStep

LEMMA AbortUploadStep ==
  ASSUME StoreInv, NEW w \in Worker, AbortUpload(w)
  PROVE  StoreInv'
  <1>1. PICK f : f = h[w].file
    OBVIOUS
  <1>2. /\ f \in File /\ f \in Held(h[w]) /\ h[w].pc = "abort" /\ h[w] \in Hand
        /\ HandShape(h[w])
    BY <1>1, HandType DEF AbortUpload, HandShape, Uploads, Held
  <1>3. PICK x : x = [h[w] EXCEPT !.pc = "unregister"]
    OBVIOUS
  <1>4. /\ part' = [part EXCEPT ![f] = "none"] /\ Set(w, x) /\ upload' = upload
        /\ UNCHANGED <<fresh, object, files, ref, checkpoint, contested, garbage>>
    BY <1>1, <1>3 DEF AbortUpload, tables, storeHistory
  <1>5. PICK u \in {"none", "open", "ready"} : u = upload[f]
    BY <1>2 DEF StoreInv, StoreTyped
  <1>6. upload' = [upload EXCEPT ![f] = u]
    BY <1>2, <1>4, <1>5 DEF StoreInv, StoreTyped
  <1>7. x \in Hand
    BY <1>2, <1>3, Names DEF Hand
  <1>8. /\ x.pc = "unregister" /\ x.file = f /\ x.made = h[w].made /\ x.keys = h[w].keys
        /\ x.kind = h[w].kind /\ x.want = h[w].want /\ x.then = h[w].then
    BY <1>1, <1>2, <1>3 DEF Hand
  <1>9. HandShape(x)
    BY <1>2, <1>8 DEF HandShape
  <1>10. Held(x) \subseteq Held(h[w]) /\ Offered(x) \subseteq Offered(h[w])
    BY <1>1, <1>8 DEF Held, Offered
  <1>11. Parting(x)'
    BY <1>2, <1>4, <1>8 DEF Parting, StoreInv, StoreTyped
  <1>12. u = "none" => upload[f] = "none"
    BY <1>5
  <1> QED
    BY <1>2, <1>4, <1>6, <1>7, <1>8, <1>9, <1>10, <1>11, <1>12, PartingStep

LEMMA UploadPartStep ==
  ASSUME StoreInv, NEW w \in Worker, UploadPart(w)
  PROVE  StoreInv'
  <1>1. PICK f : f = h[w].file
    OBVIOUS
  <1>2. /\ f \in File /\ f \in Held(h[w]) /\ h[w].pc = "part" /\ h[w] \in Hand
        /\ HandShape(h[w]) /\ Parting(h[w])
    BY <1>1, HandType DEF UploadPart, HandShape, Uploads, Held
  <1>3. /\ upload' = upload
        /\ UNCHANGED <<fresh, object, files, ref, checkpoint, contested, garbage>>
    BY DEF UploadPart, tables, storeHistory
  <1>4. CASE part[f] = "none"
    <2>1. Set(w, Idle) /\ part' = part
      BY <1>1, <1>4 DEF UploadPart
    <2> QED
      BY <1>3, <2>1, IdleHold, QuietRequest DEF Same
  <1>5. CASE part[f] # "none"
    <2>1. PICK x : x = [h[w] EXCEPT !.pc = "record"]
      OBVIOUS
    <2>2. part' = [part EXCEPT ![f] = "filled"] /\ Set(w, x)
      BY <1>1, <1>5, <2>1 DEF UploadPart
    <2>3. PICK u \in {"none", "open", "ready"} : u = upload[f]
      BY <1>2 DEF StoreInv, StoreTyped
    <2>4. upload' = [upload EXCEPT ![f] = u]
      BY <1>2, <1>3, <2>3 DEF StoreInv, StoreTyped
    <2>5. u # "none"
      BY <1>1, <1>2, <1>5, <2>3 DEF Parting
    <2>6. x \in Hand
      BY <1>2, <2>1, Names DEF Hand
    <2>7. /\ x.pc = "record" /\ x.file = f /\ x.made = h[w].made /\ x.keys = h[w].keys
          /\ x.kind = h[w].kind /\ x.want = h[w].want /\ x.then = h[w].then
      BY <1>1, <1>2, <2>1 DEF Hand
    <2>8. HandShape(x)
      BY <1>2, <2>7 DEF HandShape
    <2>9. Held(x) \subseteq Held(h[w]) /\ Offered(x) \subseteq Offered(h[w])
      BY <1>1, <2>7 DEF Held, Offered
    <2>10. Parting(x)'
      BY <2>7 DEF Parting
    <2> QED
      BY <1>2, <1>3, <1>5, <2>2, <2>4, <2>5, <2>6, <2>7, <2>8, <2>9, <2>10, PartingStep
  <1> QED
    BY <1>4, <1>5

(* The key of a file that has a row is lost once that row is gone.          *)
LEMMA RowLost ==
  ASSUME StoreInv, NEW k \in File, RowsOf(k) # {}
  PROVE  Lost(k)
  <1>1. PICK f \in File : Present(f) /\ files[f].key = k
    BY DEF RowsOf
  <1>2. f = k
    BY <1>1, Sorts DEF StoreInv, Contents, Content
  <1>3. k \notin fresh /\ part[k] = "none"
    BY <1>1, <1>2 DEF StoreInv, FreshUnused, Unused, PartsAlone
  <1>4. ~ Uploading(k)
    BY <1>1, <1>2, Sorts DEF Uploading, StoreInv, UploadsInv, Uploaded, HandShapes, HandShape
  <1> QED
    BY <1>3, <1>4 DEF Lost

(* A step that removes rows and goes on to delete keys that had one.        *)
LEMMA RemovalStep ==
  ASSUME StoreInv, NEW p \in Proc, NEW x \in Hand, Set(p, x), NEW D, Contend(D),
         UNCHANGED <<fresh, object, part, upload, ref, checkpoint, garbage>>,
         files' \in [File -> FileRecord],
         \A f \in File : files'[f] = files[f] \/ files'[f] = NoRow,
         \A k \in x.keys : k \in h[p].keys \/ (k \in D /\ k \in Key /\ RowsOf(k)' = {} /\ (k \in File => Lost(k))),
         h[p].pc # "row", x.pc # "row", x.pc # "exists",
         p \in Worker => /\ HandShape(x) /\ Parting(x) /\ Held(x) \subseteq Held(h[p]) \cup {NoFile}
                         /\ Offered(x) \subseteq Offered(h[p]),
         p = Maint => \A k \in garbage : Reclaiming(x, k)'
  PROVE  StoreInv'
  <1>1. h' \in [Proc -> Hand] /\ h'[p] = x /\ \A q \in Proc \ {p} : h'[q] = h[q]
    BY Becoming DEF Set, StoreInv
  <1>2. /\ \A f \in File : Present(f)' => Present(f) /\ files'[f] = files[f]
        /\ \A f \in File : files'[f].old => files[f].old
        /\ \A k : RowsOf(k)' \subseteq RowsOf(k)
    BY DEF Present, NoRow, RowsOf
  <1>3. \A w \in Worker : h'[w].pc = "row" <=> h[w].pc = "row"
    BY <1>1, Sorts
  <1>4. \A w \in Worker : h'[w].pc = "row" => h'[w] = h[w]
    BY <1>1, Sorts
  <1>5. \A k : Uploading(k)' <=> Uploading(k)
    BY <1>3, <1>4 DEF Uploading
  <1>6. contested \subseteq contested' /\ \A k \in D : Uploading(k) => k \in contested'
    BY DEF Contend
  <1>7. StoreTyped'
    BY <1>1 DEF StoreInv, StoreTyped
  <1>8. HandShapes' /\ Partings'
    <2>1. \A w \in Worker : HandShape(h'[w]) /\ Parting(h'[w])
      BY <1>1, Sorts DEF StoreInv, HandShapes, Partings
    <2> QED
      BY <2>1 DEF HandShapes, HandShape, Partings, Parting
  <1>9. FreshUnused'
    <2>1. ASSUME NEW f \in fresh PROVE Unused(f)'
      <3>1. Unused(f) /\ f \in File
        BY DEF StoreInv, StoreTyped, FreshUnused
      <3> QED
        BY <1>2, <3>1 DEF Unused
    <2>2. NoFile \notin fresh
      BY Sorts DEF StoreInv, StoreTyped
    <2>3. ASSUME NEW f \in fresh, NEW w \in Worker PROVE f \notin Held(h'[w])
      BY <1>1, <2>2, Sorts DEF StoreInv, FreshUnused
    <2>4. \A f \in fresh : \A w \in Worker : f \notin Held(h[w])'
      BY <2>3 DEF Held
    <2> QED
      BY <2>1, <2>4 DEF FreshUnused
  <1>10. PartsAlone'
    BY <1>2 DEF StoreInv, PartsAlone
  <1>11. UploadsInv'
    <2>1. ASSUME NEW w \in Worker, h'[w].pc = "row" PROVE Uploaded(h[w])'
      <3>1. h'[w] = h[w] /\ Uploaded(h[w]) /\ HandShape(h[w])
        BY <1>4, <2>1 DEF StoreInv, UploadsInv, HandShapes
      <3> QED
        BY <1>2, <1>6, <2>1, <3>1 DEF Uploaded, HandShape
    <2>2. ASSUME NEW w \in Worker PROVE Uploaded(h[w])'
      BY <2>1 DEF Uploaded
    <2>3. Alone'
      BY <1>4 DEF StoreInv, UploadsInv, Alone
    <2> QED
      BY <2>2, <2>3 DEF UploadsInv
  <1>12. \A k : Lost(k) <=> Lost(k)'
    BY <1>5 DEF Lost
  <1>13. Deletions'
    <2>1. ASSUME NEW q \in Proc, NEW k \in h'[q].keys PROVE Deletable(k)'
      <3>1. CASE k \in h[q].keys
        <4>1. Deletable(k)
          BY <3>1 DEF StoreInv, Deletions
        <4> QED
          BY <1>2, <1>5, <1>6, <1>12, <4>1 DEF Deletable
      <3>2. CASE k \notin h[q].keys
        <4>1. q = p /\ k \in D /\ k \in Key /\ RowsOf(k)' = {} /\ (k \in File => Lost(k))
          BY <1>1, <2>1, <3>2
        <4>2. Uploading(k) => k \in Path
          BY <4>1 DEF Lost, Key
        <4> QED
          BY <1>5, <1>6, <1>12, <4>1, <4>2 DEF Deletable
      <3> QED
        BY <3>1, <3>2
    <2>2. PICK k : k = h'[Maint].key
      OBVIOUS
    <2>3. h'[Maint].pc = "exists" => k \in Key /\ (k \in File => Lost(k))
      BY <1>1, <2>2, Sorts DEF StoreInv, Deletions
    <2>4. h'[Maint].pc = "exists" => k \in Key /\ (k \in File => Lost(k)')
      BY <1>12, <2>3
    <2>5. h'[Maint].pc = "exists" => h'[Maint].key \in Key /\ (h'[Maint].key \in File => Lost(h[Maint].key)')
      BY <2>2, <2>4 DEF Lost, Uploading
    <2> QED
      BY <2>1, <2>5 DEF Deletions
  <1>14. Contents'
    BY <1>2, <1>6 DEF StoreInv, Contents, Content
  <1>15. Reclaims'
    <2>1. ASSUME NEW w \in Worker, NEW f \in Offered(h'[w]) \cap File PROVE ~ files'[f].old
      <3>1. f \in Offered(h[w])
        BY <1>1, <2>1, Sorts
      <3> QED
        BY <1>2, <2>1, <3>1 DEF StoreInv, Reclaims
    <2>2. ASSUME NEW k \in garbage PROVE Abandoned(k)'
      <3>1. Abandoned(k)
        BY <2>2 DEF StoreInv, Reclaims
      <3>2. ASSUME NEW f \in RowsOf(k)' PROVE files'[f].old /\ \A y \in Path : ref'[y] # f
        <4>1. f \in RowsOf(k) /\ f \in File /\ Present(f)'
          BY <1>2, <3>2 DEF RowsOf
        <4> QED
          BY <1>2, <3>1, <4>1 DEF Abandoned
      <3> QED
        BY <1>5, <3>1, <3>2 DEF Abandoned
    <2>3. ASSUME NEW k \in garbage PROVE Reclaiming(h[Maint], k)'
      <3>1. CASE p = Maint
        BY <1>1, <3>1 DEF Reclaiming
      <3>2. CASE p # Maint
        <4>1. Reclaiming(h[Maint], k)
          BY <2>3 DEF StoreInv, Reclaims
        <4>2. h'[Maint] = h[Maint]
          BY <1>1, <3>2, Sorts
        <4> QED
          BY <1>2, <4>1, <4>2 DEF Reclaiming
      <3> QED
        BY <3>1, <3>2
    <2>4. \A w \in Worker : \A f \in Offered(h[w])' \cap File : ~ files'[f].old
      BY <2>1 DEF Offered
    <2> QED
      BY <2>2, <2>3, <2>4 DEF StoreInv, Reclaims
  <1> QED
    BY <1>7, <1>8, <1>9, <1>10, <1>11, <1>13, <1>14, <1>15 DEF StoreInv

LEMMA NoRowType == NoRow \in FileRecord /\ NoRow.kind = "none" /\ ~ NoRow.old
  BY Sets DEF NoRow, FileRecord, RowKinds

LEMMA PurgeRowStep ==
  ASSUME StoreInv, NEW p \in Proc, PurgeRow(p)
  PROVE  StoreInv'
  <1>0. h[p] \in Hand /\ h[p].pc = "purge" /\ h[p].keys = {}
    BY DEF StoreInv, StoreTyped, PurgeRow
  <1>1. PICK f \in h[p].todo :
          /\ files' = [files EXCEPT ![f] = IF Pinned(f) THEN @ ELSE NoRow]
          /\ LET keys == IF Present(f) /\ ~Pinned(f) /\ RowsOf(files[f].key) = {f} THEN {files[f].key}
                         ELSE {}
             IN Set(p, [h[p] EXCEPT !.todo = @ \ {f}, !.keys = keys]) /\ Contend(keys)
    BY DEF PurgeRow
  <1>2. PICK D : D = IF Present(f) /\ ~Pinned(f) /\ RowsOf(files[f].key) = {f} THEN {files[f].key} ELSE {}
    OBVIOUS
  <1>3. f \in File
    BY <1>0, <1>1 DEF Hand, Files
  <1>4. PICK T : T = h[p].todo \ {f}
    OBVIOUS
  <1>5. PICK x : x = [h[p] EXCEPT !.todo = T, !.keys = D]
    OBVIOUS
  <1>6. Set(p, x) /\ Contend(D)
    BY <1>1, <1>2, <1>4, <1>5
  <1>7. /\ files' \in [File -> FileRecord]
        /\ \A g \in File : files'[g] = files[g] \/ files'[g] = NoRow
        /\ Pinned(f) \/ files'[f] = NoRow
    BY <1>1, <1>3, NoRowType DEF StoreInv, StoreTyped
  <1>8. ASSUME NEW k \in D
        PROVE  k \in Key /\ RowsOf(k)' = {} /\ (k \in File => Lost(k))
    <2>1. Present(f) /\ ~ Pinned(f) /\ RowsOf(k) = {f} /\ k = files[f].key
      BY <1>2, <1>8
    <2>2. k \in Key
      BY <1>3, <2>1, Sorts DEF StoreInv, Contents, Content
    <2>3. RowsOf(k)' \subseteq RowsOf(k) /\ f \notin RowsOf(k)'
      BY <1>7, <2>1, NoRowType DEF RowsOf, Present
    <2> QED
      BY <2>1, <2>2, <2>3, RowLost
  <1>9. D \in Keys /\ T \in Files
    BY <1>0, <1>4, <1>8 DEF Keys, Files, Hand
  <1>10. x \in Hand
    BY <1>0, <1>5, <1>9 DEF Hand
  <1>11. /\ x.pc = "purge" /\ x.keys = D /\ x.todo = T /\ x.file = h[p].file /\ x.made = h[p].made
         /\ x.kind = h[p].kind /\ x.want = h[p].want /\ x.then = h[p].then /\ x.seen = h[p].seen
    BY <1>0, <1>5 DEF Hand
  <1>12. ASSUME p \in Worker
         PROVE  /\ HandShape(x) /\ Parting(x) /\ Held(x) \subseteq Held(h[p]) \cup {NoFile}
                /\ Offered(x) \subseteq Offered(h[p])
    <2>1. HandShape(h[p])
      BY <1>12, HandType
    <2> QED
      BY <1>0, <1>11, <2>1 DEF HandShape, Parting, Held, Offered, Uploads
  <1>13. ASSUME p = Maint, NEW k \in garbage
         PROVE  Reclaiming(x, k)'
    <2>1. Reclaiming(h[p], k) /\ Abandoned(k)
      BY <1>13, MaintReclaims
    <2>2. ASSUME NEW g \in RowsOf(k)' PROVE g \in T
      <3>1. g \in File /\ files'[g].kind # "none" /\ files'[g].key = k
        BY <2>2 DEF RowsOf, Present
      <3>2. files'[g] = files[g]
        BY <1>7, <3>1, NoRowType
      <3>3. g \in RowsOf(k)
        BY <3>1, <3>2 DEF RowsOf, Present
      <3>4. g \in h[p].todo
        BY <2>1, <3>3 DEF Reclaiming
      <3>5. ~ Pinned(g)
        BY <2>1, <3>3, Sorts DEF Abandoned, Pinned
      <3>6. g # f
        BY <1>7, <3>1, <3>5, NoRowType
      <3> QED
        BY <1>4, <3>4, <3>6
    <2>3. object' = object
      BY DEF PurgeRow, stores
    <2> QED
      BY <1>0, <1>11, <2>1, <2>2, <2>3 DEF Reclaiming
  <1>14. UNCHANGED <<fresh, object, part, upload, ref, checkpoint, garbage>>
    BY DEF PurgeRow, stores
  <1> QED
    BY <1>0, <1>6, <1>7, <1>8, <1>10, <1>11, <1>12, <1>13, <1>14, RemovalStep

LEMMA SessionRowsStep ==
  ASSUME StoreInv, NEW p \in Proc, SessionRows(p)
  PROVE  StoreInv'
  <1>0. h[p] \in Hand /\ h[p].pc = "gone"
    BY DEF StoreInv, StoreTyped, SessionRows
  <1>1. PICK mine : mine = {f \in File : Present(f) /\ files[f].owned}
    OBVIOUS
  <1>2. PICK D : D = {k \in Key : RowsOf(k) # {} /\ RowsOf(k) \subseteq mine}
    OBVIOUS
  <1>3. PICK x : x = [h[p] EXCEPT !.pc = "goneRow", !.keys = D]
    OBVIOUS
  <1>4. /\ files' = [f \in File |-> IF f \in mine THEN NoRow ELSE files[f]]
        /\ Set(p, x) /\ Contend(D)
        /\ UNCHANGED <<fresh, object, part, upload, ref, checkpoint, garbage>>
    BY <1>1, <1>2, <1>3 DEF SessionRows, stores
  <1>5. /\ files' \in [File -> FileRecord]
        /\ \A f \in File : files'[f] = files[f] \/ files'[f] = NoRow
    BY <1>4, NoRowType DEF StoreInv, StoreTyped
  <1>6. ASSUME NEW k \in D
        PROVE  k \in Key /\ RowsOf(k)' = {} /\ (k \in File => Lost(k))
    <2>1. k \in Key /\ RowsOf(k) # {} /\ RowsOf(k) \subseteq mine
      BY <1>2, <1>6
    <2>2. ASSUME NEW f \in RowsOf(k)' PROVE FALSE
      <3>1. f \in File /\ files'[f].kind # "none" /\ files'[f].key = k
        BY <2>2 DEF RowsOf, Present
      <3>2. files'[f] = files[f] /\ f \notin mine
        BY <1>4, <3>1, NoRowType
      <3>3. f \in RowsOf(k)
        BY <3>1, <3>2 DEF RowsOf, Present
      <3> QED
        BY <2>1, <3>2, <3>3
    <2> QED
      BY <2>1, <2>2, RowLost
  <1>7. D \in Keys
    BY <1>2 DEF Keys
  <1>8. x \in Hand
    BY <1>0, <1>3, <1>7, Names DEF Hand
  <1>9. /\ x.pc = "goneRow" /\ x.keys = D /\ x.file = h[p].file /\ x.made = h[p].made
        /\ x.kind = h[p].kind /\ x.want = h[p].want /\ x.then = h[p].then
    BY <1>0, <1>3 DEF Hand
  <1>10. ASSUME p \in Worker
         PROVE  /\ HandShape(x) /\ Parting(x) /\ Held(x) \subseteq Held(h[p]) \cup {NoFile}
                /\ Offered(x) \subseteq Offered(h[p])
    <2>1. HandShape(h[p])
      BY <1>10, HandType
    <2> QED
      BY <1>0, <1>9, <2>1 DEF HandShape, Parting, Held, Offered, Uploads
  <1>11. p = Maint => garbage = {}
    BY <1>0, MaintReclaims
  <1> QED
    BY <1>0, <1>4, <1>5, <1>6, <1>8, <1>9, <1>10, <1>11, RemovalStep

LEMMA MaintExistsStep ==
  ASSUME StoreInv, MaintExists
  PROVE  StoreInv'
  <1>0. h[Maint] \in Hand /\ h[Maint].pc = "exists"
    BY MaintReclaims DEF MaintExists
  <1>1. PICK D : D = IF RowsOf(h[Maint].key) = {} THEN {h[Maint].key} ELSE {}
    OBVIOUS
  <1>2. h[Maint].key \in Key /\ (h[Maint].key \in File => Lost(h[Maint].key))
    BY <1>0 DEF StoreInv, Deletions
  <1>3. D \in Keys /\ h[Maint].seen \in Keys /\ "scan" \in Thens
    BY <1>0, <1>1, <1>2, Names DEF Keys, Hand
  <1>4. PICK y : y = Purge({}, D, "scan")
    OBVIOUS
  <1>5. /\ y \in Hand /\ y.pc = "purge" /\ y.kind = "none" /\ y.made = {} /\ y.file = NoFile
        /\ y.todo = {} /\ y.keys = D /\ y.then = "scan"
    BY <1>3, <1>4, Nothing, PurgeHand
  <1>6. PICK x : x = [y EXCEPT !.seen = h[Maint].seen]
    OBVIOUS
  <1>7. x \in Hand
    BY <1>3, <1>5, <1>6 DEF Hand
  <1>8. x.pc = "purge" /\ x.todo = {} /\ x.keys = D /\ x.then = "scan" /\ x.seen = h[Maint].seen
    BY <1>5, <1>6 DEF Hand
  <1>9. /\ Set(Maint, x) /\ Contend(D) /\ files' = files
        /\ UNCHANGED <<fresh, object, part, upload, ref, checkpoint, garbage>>
    BY <1>1, <1>4, <1>6 DEF MaintExists, tables, stores
  <1>10. RowsOf(h[Maint].key)' = RowsOf(h[Maint].key)' /\ \A k : RowsOf(k)' = RowsOf(k)
    BY <1>9 DEF RowsOf, Present
  <1>11. ASSUME NEW k \in D
         PROVE  k \in Key /\ RowsOf(k)' = {} /\ (k \in File => Lost(k))
    <2>1. k = h[Maint].key /\ RowsOf(k) = {}
      BY <1>1, <1>11
    <2> QED
      BY <1>2, <1>10, <2>1
  <1>12. ASSUME NEW k \in garbage PROVE Reclaiming(x, k)'
    <2>1. Reclaiming(h[Maint], k)
      BY MaintReclaims
    <2>2. RowsOf(k) = {} /\ (object[k] = "old" /\ k \in h[Maint].seen => k = h[Maint].key)
      BY <1>0, <2>1 DEF Reclaiming
    <2>3. object[k] = "old" /\ k \in h[Maint].seen => k \in D
      BY <1>1, <2>2
    <2> QED
      BY <1>8, <1>9, <1>10, <2>2, <2>3 DEF Reclaiming
  <1>13. files' \in [File -> FileRecord] /\ \A f \in File : files'[f] = files[f]
    BY <1>9 DEF StoreInv, StoreTyped
  <1> QED
    BY <1>0, <1>7, <1>8, <1>9, <1>11, <1>12, <1>13, RemovalStep, Sorts

(* A key that is to be deleted is deleted.                                  *)
LEMMA ObjectGoneStep ==
  ASSUME StoreInv, NEW p \in Proc, NEW x \in Hand, Set(p, x), NEW k \in Key, k \in h[p].keys,
         object' = [object EXCEPT ![k] = "none"], x.keys = h[p].keys \ {k},
         UNCHANGED <<fresh, files, part, upload, ref, checkpoint, contested, garbage>>,
         h[p].pc = "purge", x.pc = "purge",
         p \in Worker => /\ HandShape(x) /\ Held(x) \subseteq Held(h[p])
                         /\ Offered(x) \subseteq Offered(h[p]),
         x.then = h[p].then, x.todo = h[p].todo, x.seen = h[p].seen
  PROVE  StoreInv'
  <1>1. h' \in [Proc -> Hand] /\ h'[p] = x /\ \A q \in Proc \ {p} : h'[q] = h[q]
    BY Becoming DEF Set, StoreInv
  <1>2. (\A f : Present(f)' <=> Present(f)) /\ \A j : RowsOf(j)' = RowsOf(j)
    BY DEF Present, RowsOf
  <1>3. \A w \in Worker : h'[w].pc = "row" <=> h[w].pc = "row"
    BY <1>1, Sorts
  <1>4. \A w \in Worker : h'[w].pc = "row" => h'[w] = h[w]
    BY <1>1, Sorts
  <1>5. \A j : Uploading(j)' <=> Uploading(j)
    BY <1>3, <1>4 DEF Uploading
  <1>6. /\ object'[k] = "none" /\ \A j \in Key \ {k} : object'[j] = object[j]
        /\ object' \in [Key -> {"none", "young", "old"}]
    BY DEF StoreInv, StoreTyped
  <1>7. Deletable(k)
    BY DEF StoreInv, Deletions
  <1>8. StoreTyped'
    BY <1>1, <1>6 DEF StoreInv, StoreTyped
  <1>9. HandShapes' /\ Partings'
    <2>1. \A w \in Worker : HandShape(h'[w]) /\ Parting(h'[w])
      BY <1>1, Sorts DEF StoreInv, HandShapes, Partings, Parting
    <2> QED
      BY <2>1 DEF HandShapes, HandShape, Partings, Parting
  <1>10. FreshUnused'
    <2>1. ASSUME NEW f \in fresh PROVE Unused(f)'
      <3>1. Unused(f) /\ f \in File /\ f \in Key
        BY Sorts DEF StoreInv, StoreTyped, FreshUnused
      <3> QED
        BY <1>2, <1>6, <3>1 DEF Unused
    <2>2. ASSUME NEW f \in fresh, NEW w \in Worker PROVE f \notin Held(h'[w])
      BY <1>1, Sorts DEF StoreInv, FreshUnused
    <2>3. \A f \in fresh : \A w \in Worker : f \notin Held(h[w])'
      BY <2>2 DEF Held
    <2> QED
      BY <2>1, <2>3 DEF FreshUnused
  <1>11. PartsAlone'
    BY <1>2, <1>6, Sorts DEF StoreInv, PartsAlone
  <1>12. UploadsInv'
    <2>1. ASSUME NEW w \in Worker, h'[w].pc = "row" PROVE Uploaded(h[w])'
      <3>1. h'[w] = h[w] /\ Uploaded(h[w]) /\ HandShape(h[w]) /\ h[w].pc = "row"
        BY <1>4, <2>1 DEF StoreInv, UploadsInv, HandShapes
      <3>2. h[w].key \in Key
        BY <3>1, Sorts DEF HandShape
      <3>3. CASE h[w].key = k
        <4>1. k \in Path \cap contested
          BY <1>7, <3>1, <3>3 DEF Deletable, Uploading
        <4> QED
          BY <1>2, <1>6, <3>1, <3>3, <4>1, Sorts DEF Uploaded
      <3>4. CASE h[w].key # k
        BY <1>2, <1>6, <3>1, <3>2, <3>4 DEF Uploaded
      <3> QED
        BY <3>3, <3>4
    <2>2. ASSUME NEW w \in Worker PROVE Uploaded(h[w])'
      BY <2>1 DEF Uploaded
    <2>3. Alone'
      BY <1>4 DEF StoreInv, UploadsInv, Alone
    <2> QED
      BY <2>2, <2>3 DEF UploadsInv
  <1>13. \A j : Lost(j) <=> Lost(j)'
    BY <1>5 DEF Lost
  <1>14. Deletions'
    <2>1. ASSUME NEW q \in Proc, NEW j \in h'[q].keys PROVE Deletable(j)'
      <3>1. j \in h[q].keys
        BY <1>1, <2>1
      <3>2. Deletable(j)
        BY <3>1 DEF StoreInv, Deletions
      <3> QED
        BY <1>2, <1>5, <1>13, <3>2 DEF Deletable
    <2>2. PICK j : j = h'[Maint].key
      OBVIOUS
    <2>3. h'[Maint].pc = "exists" => j \in Key /\ (j \in File => Lost(j))
      BY <1>1, <2>2, Sorts DEF StoreInv, Deletions
    <2>4. h'[Maint].pc = "exists" => j \in Key /\ (j \in File => Lost(j)')
      BY <1>13, <2>3
    <2>5. h'[Maint].pc = "exists" => h'[Maint].key \in Key /\ (h'[Maint].key \in File => Lost(h[Maint].key)')
      BY <2>2, <2>4 DEF Lost, Uploading
    <2> QED
      BY <2>1, <2>5 DEF Deletions
  <1>15. Contents'
    <2>1. ASSUME NEW f \in File, Present(f) PROVE Content(f)'
      <3>1. Content(f)
        BY <2>1 DEF StoreInv, Contents
      <3>2. CASE files[f].key = k
        <4>1. f \in RowsOf(k)
          BY <2>1, <3>2 DEF RowsOf
        <4>2. k \in Path \cap contested
          BY <1>7, <4>1 DEF Deletable
        <4> QED
          BY <3>1, <3>2, <4>2 DEF Content
      <3>3. CASE files[f].key # k
        <4>1. files[f].key \in Key
          BY <3>1, Sorts DEF Content
        <4> QED
          BY <1>6, <3>1, <3>3, <4>1 DEF Content
      <3> QED
        BY <3>2, <3>3
    <2> QED
      BY <1>2, <2>1 DEF Contents
  <1>16. Reclaims'
    <2>1. ASSUME NEW w \in Worker, NEW f \in Offered(h'[w]) \cap File PROVE ~ files'[f].old
      <3>1. f \in Offered(h[w])
        BY <1>1, <2>1, Sorts
      <3> QED
        BY <2>1, <3>1 DEF StoreInv, Reclaims
    <2>2. ASSUME NEW j \in garbage PROVE Abandoned(j)'
      <3>1. Abandoned(j) /\ j \in Key
        BY <2>2 DEF StoreInv, Reclaims
      <3> QED
        BY <1>2, <1>5, <1>6, <3>1 DEF Abandoned
    <2>3. ASSUME NEW j \in garbage PROVE Reclaiming(h[Maint], j)'
      <3>1. Reclaiming(h[Maint], j) /\ j \in Key
        BY <2>3 DEF StoreInv, Reclaims
      <3>2. object'[j] = object[j] \/ (j = k /\ object'[j] = "none")
        BY <1>6, <3>1
      <3>3. CASE p = Maint
        <4>1. h'[Maint] = x /\ x.then = "scan" /\ \A f \in RowsOf(j)' : f \in x.todo
          BY <1>1, <1>2, <3>1, <3>3 DEF Reclaiming
        <4>2. ASSUME object'[j] = "old", j \in x.seen PROVE j \in x.keys
          <5>1. j # k /\ object[j] = "old"
            BY <1>6, <3>1, <4>2
          <5>2. j \in h[p].keys
            BY <3>1, <3>3, <4>2, <5>1 DEF Reclaiming
          <5> QED
            BY <5>1, <5>2
        <4> QED
          BY <4>1, <4>2 DEF Reclaiming
      <3>4. CASE p # Maint
        <4>1. h'[Maint] = h[Maint]
          BY <1>1, <3>4, Sorts
        <4> QED
          BY <1>2, <3>1, <3>2, <4>1 DEF Reclaiming
      <3> QED
        BY <3>3, <3>4
    <2>4. \A w \in Worker : \A f \in Offered(h[w])' \cap File : ~ files'[f].old
      BY <2>1 DEF Offered
    <2> QED
      BY <2>2, <2>3, <2>4 DEF StoreInv, Reclaims
  <1> QED
    BY <1>8, <1>9, <1>10, <1>11, <1>12, <1>14, <1>15, <1>16 DEF StoreInv

(* The deletion of an object, by a purge or by the scan.                    *)
LEMMA PurgeObjectStep ==
  ASSUME StoreInv, NEW p \in Proc, PurgeObject(p)
  PROVE  StoreInv'
  <1>0. h[p] \in Hand /\ h[p].pc = "purge"
    BY DEF StoreInv, StoreTyped, PurgeObject
  <1>1. PICK k \in h[p].keys :
          /\ Set(p, [h[p] EXCEPT !.keys = @ \ {k}])
          /\ \/ /\ object' = [object EXCEPT ![k] = "none"]
                /\ UNCHANGED <<failures, garbage>>
             \/ /\ garbage' = garbage \ {k}
                /\ UNCHANGED object
    BY DEF PurgeObject
  <1>2. PICK D : D = h[p].keys \ {k}
    OBVIOUS
  <1>3. D \in Keys /\ k \in Key
    BY <1>0, <1>1, <1>2 DEF Keys, Hand
  <1>4. PICK x : x = [h[p] EXCEPT !.keys = D]
    OBVIOUS
  <1>5. x \in Hand
    BY <1>0, <1>3, <1>4 DEF Hand
  <1>6. /\ x.pc = "purge" /\ x.keys = D /\ x.todo = h[p].todo /\ x.file = h[p].file
        /\ x.made = h[p].made
        /\ x.kind = h[p].kind /\ x.want = h[p].want /\ x.then = h[p].then /\ x.seen = h[p].seen
    BY <1>0, <1>4 DEF Hand
  <1>7. ASSUME p \in Worker
        PROVE  /\ HandShape(x) /\ Parting(x) /\ Held(x) \subseteq Held(h[p])
               /\ Offered(x) \subseteq Offered(h[p])
    <2>1. HandShape(h[p])
      BY <1>7, HandType
    <2> QED
      BY <1>0, <1>6, <2>1 DEF HandShape, Parting, Held, Offered, Uploads
  <1>8. /\ UNCHANGED <<fresh, files, part, upload, ref, checkpoint, contested>>
        /\ Set(p, x)
    BY <1>1, <1>2, <1>4 DEF PurgeObject, tables
  <1>9. CASE object' = [object EXCEPT ![k] = "none"] /\ garbage' = garbage
    BY <1>0, <1>1, <1>2, <1>3, <1>5, <1>6, <1>7, <1>8, <1>9, ObjectGoneStep
  <1>10. CASE garbage' = garbage \ {k} /\ object' = object
    <2>1. p = Maint => \A j \in garbage' : Reclaiming(x, j)
      <3>1. ASSUME p = Maint, NEW j \in garbage' PROVE Reclaiming(x, j)
        <4>1. j \in garbage /\ j # k
          BY <1>10, <3>1
        <4>2. Reclaiming(h[p], j)
          BY <3>1, <4>1, MaintReclaims
        <4> QED
          BY <1>0, <1>2, <1>6, <4>1, <4>2 DEF Reclaiming
      <3> QED
        BY <3>1
    <2>2. MayHold(x, p)
      BY <1>2, <1>5, <1>6, <1>7, <2>1, Sorts DEF MayHold
    <2>3. SameRows /\ SameRefs(p)
      BY <1>8, RowsSame, RefsSame
    <2> QED
      BY <1>8, <1>10, <2>2, <2>3, CalmStep DEF Set
  <1> QED
    BY <1>1, <1>9, <1>10

(* A row and its object come in two steps, the object first.                *)
LEMMA AfterRowHand ==
  ASSUME StoreInv, NEW w \in Worker, h[w].pc = "row", NEW x, x = AfterRow(h[w])
  PROVE  /\ x \in Hand /\ HandShape(x) /\ x.pc # "row" /\ Held(x) \subseteq Held(h[w]) \cup {NoFile}
         /\ Offered(x) \subseteq Offered(h[w]) /\ x.keys \subseteq h[w].keys
         /\ x.pc # "part" /\ (x.pc = "unregister" => x.file = h[w].file)
  <1>0. /\ h[w] \in Hand /\ HandShape(h[w]) /\ h[w].file \in File /\ h[w].file \in MaybeFile
    BY Sets, HandType DEF HandShape
  <1>1. CASE x = [h[w] EXCEPT !.pc = "put", !.file = NoFile, !.key = NoFile] /\ h[w].want # {}
    <2>1. x \in Hand
      <3>1. "put" \in Pcs /\ NoFile \in MaybeFile /\ NoFile \in MaybeKey
        BY Names, Sets
      <3> QED
        BY <1>0, <1>1, <3>1 DEF Hand
    <2>2. /\ x.pc = "put" /\ x.file = NoFile /\ x.made = h[w].made /\ x.keys = h[w].keys
          /\ x.kind = h[w].kind /\ x.want = h[w].want /\ x.then = h[w].then
      BY <1>0, <1>1 DEF Hand
    <2>3. HandShape(x)
      BY <1>0, <1>1, <2>2 DEF HandShape, Uploads
    <2> QED
      BY <2>1, <2>2, <2>3 DEF Held, Offered
  <1>2. CASE x = [h[w] EXCEPT !.pc = "prior", !.key = NoFile]
    <2>1. x \in Hand
      <3>1. "prior" \in Pcs /\ NoFile \in MaybeKey
        BY Names, Sets
      <3> QED
        BY <1>0, <1>2, <3>1 DEF Hand
    <2>2. /\ x.pc = "prior" /\ x.file = h[w].file /\ x.made = h[w].made /\ x.keys = h[w].keys
          /\ x.kind = h[w].kind /\ x.want = h[w].want /\ x.then = h[w].then
      BY <1>0, <1>2 DEF Hand
    <2>3. HandShape(x)
      BY <1>0, <2>2 DEF HandShape, Uploads
    <2> QED
      BY <2>1, <2>2, <2>3 DEF Held, Offered
  <1>3. CASE x = [Idle EXCEPT !.pc = "unregister", !.file = h[w].file]
    <2>1. x \in Hand
      BY <1>0, <1>3, IdleHand, Names DEF Hand
    <2>2. /\ x.pc = "unregister" /\ x.file = h[w].file /\ x.made = {} /\ x.keys = {}
          /\ x.kind = "none" /\ x.want = {} /\ x.then = "idle"
      BY <1>3 DEF Idle
    <2>3. HandShape(x)
      BY <1>0, <2>2 DEF HandShape, Uploads
    <2> QED
      BY <2>1, <2>2, <2>3 DEF Held, Offered
  <1>4. CASE x = Idle
    <2>1. MayHold(x, w)
      BY <1>4, IdleHold
    <2> QED
      BY <1>4, <2>1, IdleHand, IdleFields, HandType DEF MayHold, Held, Offered
  <1> QED
    BY <1>1, <1>2, <1>3, <1>4 DEF AfterRow

LEMMA RecordFileStep ==
  ASSUME StoreInv, NEW w \in Worker, RecordFile(w)
  PROVE  StoreInv'
  <1>0. /\ h[w] \in Hand /\ HandShape(h[w]) /\ h[w].pc = "row" /\ w \in Proc /\ w # Maint
        /\ Uploaded(h[w])
    BY HandType DEF RecordFile, StoreInv, UploadsInv
  <1>1. UNCHANGED <<fresh, ref, checkpoint, upload, object, part, contested, garbage>>
    BY DEF RecordFile, stores, storeHistory
  <1>2. CASE h[w].kind \in {"output", "checkpoint"} /\ "session" \notin live
    <2>1. Set(w, Idle) /\ files' = files
      BY <1>2 DEF RecordFile
    <2> QED
      BY <1>1, <2>1, IdleHold, QuietRequest DEF Same
  <1>3. CASE ~ (h[w].kind \in {"output", "checkpoint"} /\ "session" \notin live)
    <2>1. PICK f, k, kind, own : /\ f = h[w].file /\ k = h[w].key
                                 /\ kind = (IF h[w].kind = "chunked" THEN "upload" ELSE h[w].kind)
                                 /\ own = (h[w].kind \in {"output", "checkpoint"})
      OBVIOUS
    <2>2. PICK row : row = [kind |-> kind, key |-> k, owned |-> own, old |-> FALSE]
      OBVIOUS
    <2>3. PICK x : x = AfterRow(h[w])
      OBVIOUS
    <2>4. files' = [files EXCEPT ![f] = row] /\ Set(w, x)
      BY <1>3, <2>1, <2>2, <2>3 DEF RecordFile
    <2>5. /\ x \in Hand /\ HandShape(x) /\ x.pc # "row"
          /\ Held(x) \subseteq Held(h[w]) \cup {NoFile}
          /\ Offered(x) \subseteq Offered(h[w]) /\ x.keys \subseteq h[w].keys
          /\ x.pc # "part" /\ (x.pc = "unregister" => x.file = h[w].file)
      BY <1>0, <2>3, AfterRowHand
    <2>6. /\ f \in File /\ k \in {f} \cup Path /\ k \in Key /\ f \in Held(h[w])
      BY <1>0, <2>1, Sorts DEF HandShape, Held
    <2>7. /\ ~ Present(f) /\ part[f] = "none" /\ object[k] # "old"
          /\ (k \in File => object[k] = "young")
          /\ (object[k] = "none" => k \in contested)
      BY <1>0, <2>1 DEF Uploaded
    <2>8. row \in FileRecord /\ row.key = k /\ row.old = FALSE
      <3>1. kind \in RowKinds
        BY <1>0, <2>1 DEF HandShape, RowKinds
      <3>2. k \in MaybeKey
        BY <2>6, Sets
      <3>3. own \in BOOLEAN
        BY <2>1
      <3> QED
        BY <2>2, <3>1, <3>2, <3>3 DEF FileRecord
    <2>9. /\ h' \in [Proc -> Hand] /\ h'[w] = x /\ \A q \in Proc \ {w} : h'[q] = h[q]
      BY <1>0, <2>4, <2>5, Becoming DEF Set, StoreInv
    <2>10. /\ files' \in [File -> FileRecord] /\ files'[f] = row
           /\ \A g \in File \ {f} : files'[g] = files[g]
      BY <2>4, <2>6, <2>8 DEF StoreInv, StoreTyped
    <2>11. \A v \in Worker : h'[v].pc = "row" => h'[v] = h[v] /\ v # w
      BY <2>5, <2>9, Sorts
    <2>12. \A j : Uploading(j)' => Uploading(j)
      BY <2>11 DEF Uploading
    <2>13. /\ \A g \in File \ {f} : Present(g)' <=> Present(g)
           /\ \A j : RowsOf(j)' \subseteq RowsOf(j) \cup {f}
           /\ \A j : j # k => RowsOf(j)' = RowsOf(j)
      <3>1. \A g \in File \ {f} : Present(g)' <=> Present(g)
        BY <2>10 DEF Present
      <3>2. ASSUME NEW j PROVE RowsOf(j)' \subseteq RowsOf(j) \cup {f}
        BY <2>10, <3>1 DEF RowsOf
      <3>3. ASSUME NEW j, j # k PROVE RowsOf(j)' = RowsOf(j)
        BY <2>7, <2>8, <2>10, <3>1, <3>3 DEF RowsOf
      <3> QED
        BY <3>1, <3>2, <3>3
    <2>14. Uploading(k)
      BY <1>0, <2>1 DEF Uploading
    <2>15. f \notin fresh
      BY <2>6 DEF StoreInv, FreshUnused
    <2>16. StoreTyped'
      BY <1>1, <2>9, <2>10 DEF StoreInv, StoreTyped
    <2>17. HandShapes' /\ Partings'
      <3>1. Parting(x)
        BY <2>1, <2>5, <2>7 DEF Parting
      <3>2. \A v \in Worker : HandShape(h'[v]) /\ Parting(h'[v])
        BY <2>5, <2>9, <3>1, Sorts DEF StoreInv, HandShapes, Partings
      <3> QED
        BY <1>1, <3>2 DEF HandShapes, HandShape, Partings, Parting
    <2>18. FreshUnused'
      <3>1. ASSUME NEW g \in fresh PROVE Unused(g)'
        <4>1. Unused(g) /\ g \in File /\ g # f
          BY <2>15 DEF StoreInv, StoreTyped, FreshUnused
        <4> QED
          BY <1>1, <2>10, <2>13, <4>1 DEF Unused
      <3>2. NoFile \notin fresh
        BY Sorts DEF StoreInv, StoreTyped
      <3>3. ASSUME NEW g \in fresh, NEW v \in Worker PROVE g \notin Held(h'[v])
        BY <2>5, <2>9, <3>2, Sorts DEF StoreInv, FreshUnused
      <3>4. \A g \in fresh : \A v \in Worker : g \notin Held(h[v])'
        BY <3>3 DEF Held
      <3> QED
        BY <1>1, <3>1, <3>4 DEF FreshUnused
    <2>19. PartsAlone'
      BY <1>1, <2>7, <2>13 DEF StoreInv, PartsAlone
    <2>20. UploadsInv'
      <3>1. ASSUME NEW v \in Worker, h'[v].pc = "row" PROVE Uploaded(h[v])'
        <4>1. h'[v] = h[v] /\ v # w /\ Uploaded(h[v]) /\ HandShape(h[v]) /\ h[v].pc = "row"
          BY <2>11, <3>1 DEF StoreInv, UploadsInv, HandShapes
        <4>2. h[v].file # f /\ h[v].file \in File
          BY <1>0, <2>1, <4>1 DEF StoreInv, UploadsInv, Alone, HandShape
        <4> QED
          BY <1>1, <2>13, <4>1, <4>2 DEF Uploaded
      <3>2. ASSUME NEW v \in Worker PROVE Uploaded(h[v])'
        BY <3>1 DEF Uploaded
      <3>3. Alone'
        BY <2>11 DEF StoreInv, UploadsInv, Alone
      <3> QED
        BY <3>2, <3>3 DEF UploadsInv
    <2>21. \A j : Lost(j) => Lost(j)'
      BY <1>1, <2>12 DEF Lost
    <2>22. Deletions'
      <3>1. ASSUME NEW q \in Proc, NEW j \in h'[q].keys PROVE Deletable(j)'
        <4>1. j \in h[q].keys
          BY <2>5, <2>9
        <4>2. Deletable(j)
          BY <4>1 DEF StoreInv, Deletions
        <4>3. RowsOf(j)' # {} => RowsOf(j) # {} \/ Uploading(j)
          BY <2>13, <2>14
        <4> QED
          BY <1>1, <2>12, <2>21, <4>2, <4>3 DEF Deletable
      <3>2. PICK j : j = h'[Maint].key
        OBVIOUS
      <3>3. h'[Maint].pc = "exists" => j \in Key /\ (j \in File => Lost(j))
        BY <1>0, <2>9, <3>2, Sorts DEF StoreInv, Deletions
      <3>4. h'[Maint].pc = "exists" => j \in Key /\ (j \in File => Lost(j)')
        BY <2>21, <3>3
      <3>5. h'[Maint].pc = "exists" => h'[Maint].key \in Key /\ (h'[Maint].key \in File => Lost(h[Maint].key)')
        BY <3>2, <3>4 DEF Lost, Uploading
      <3> QED
        BY <3>1, <3>5 DEF Deletions
    <2>23. Contents'
      <3>1. ASSUME NEW g \in File, Present(g)' PROVE Content(g)'
        <4>1. CASE g = f
          BY <1>1, <2>6, <2>7, <2>8, <2>10, <4>1, Sorts DEF Content, StoreInv, StoreTyped, Key
        <4>2. CASE g # f
          BY <1>1, <2>10, <2>13, <3>1, <4>2 DEF Content, StoreInv, Contents
        <4> QED
          BY <4>1, <4>2
      <3> QED
        BY <3>1 DEF Contents
    <2>24. Reclaims'
      <3>1. ASSUME NEW v \in Worker, NEW g \in Offered(h'[v]) \cap File PROVE ~ files'[g].old
        <4>1. g \in Offered(h[v])
          BY <2>5, <2>9, <3>1, Sorts
        <4> QED
          BY <2>8, <2>10, <3>1, <4>1 DEF StoreInv, Reclaims
      <3>2. ASSUME NEW j \in garbage PROVE Abandoned(j)'
        <4>1. Abandoned(j)
          BY <3>2 DEF StoreInv, Reclaims
        <4>2. j # k
          BY <2>14, <4>1 DEF Abandoned
        <4>3. RowsOf(j)' = RowsOf(j) /\ \A g \in RowsOf(j) : g \in File /\ files'[g] = files[g]
          BY <2>7, <2>10, <2>13, <4>2 DEF RowsOf
        <4> QED
          BY <1>1, <2>12, <4>1, <4>3 DEF Abandoned
      <3>3. ASSUME NEW j \in garbage PROVE Reclaiming(h[Maint], j)'
        <4>1. Reclaiming(h[Maint], j) /\ Abandoned(j)
          BY <3>3 DEF StoreInv, Reclaims
        <4>2. j # k
          BY <2>14, <4>1 DEF Abandoned
        <4>3. h'[Maint] = h[Maint]
          BY <1>0, <2>9, Sorts
        <4> QED
          BY <1>1, <2>13, <4>1, <4>2, <4>3 DEF Reclaiming
      <3>4. \A v \in Worker : \A g \in Offered(h[v])' \cap File : ~ files'[g].old
        BY <3>1 DEF Offered
      <3> QED
        BY <1>1, <3>2, <3>3, <3>4 DEF StoreInv, Reclaims
    <2> QED
      BY <2>16, <2>17, <2>18, <2>19, <2>20, <2>22, <2>23, <2>24 DEF StoreInv
  <1> QED
    BY <1>2, <1>3

(* A request takes an id for its own: the object it puts is of the id or of *)
(* a path, and the row is to follow.                                        *)
LEMMA PutStep ==
  ASSUME StoreInv, NEW w \in Worker, Put(w)
  PROVE  StoreInv'
  <1>0. /\ h[w] \in Hand /\ HandShape(h[w]) /\ h[w].pc = "put" /\ w \in Proc /\ w # Maint
        /\ h[w].want # {}
    BY HandType DEF Put, HandShape
  <1>1. PICK f, y, k : f = (CHOOSE g \in fresh : TRUE) /\ y = (CHOOSE z \in h[w].want : TRUE) /\ k = KeyOf(f, y)
    OBVIOUS
  <1>2. PICK W, M : W = h[w].want \ {y} /\ M = h[w].made \cup {<<y, f>>}
    OBVIOUS
  <1>3. PICK x : x = [h[w] EXCEPT !.pc = "row", !.file = f, !.key = k, !.want = W, !.made = M]
    OBVIOUS
  <1>4. /\ fresh' = fresh \ {f} /\ object' = [object EXCEPT ![k] = "young"] /\ Set(w, x)
        /\ contested' = (IF Deleting(k) THEN contested \cup {k} ELSE contested \ {k})
        /\ garbage' = garbage \ {k}
        /\ UNCHANGED <<files, ref, checkpoint, upload, part>>
    BY <1>1, <1>2, <1>3 DEF Put, tables
  <1>5. f \in fresh /\ f \in File /\ y \in h[w].want /\ y \in Want
    BY <1>0, <1>1 DEF Put, StoreInv, StoreTyped, Hand, Wants
  <1>6. k \in {f} \cup Path /\ k \in Key /\ (k \in File => k = f)
    <2>1. y = "own" => k = f
      BY <1>1 DEF KeyOf
    <2>2. y # "own" => k = y /\ y \in Path
      BY <1>1, <1>5 DEF KeyOf, Want
    <2> QED
      BY <1>5, <2>1, <2>2, Sorts
  <1>7. /\ ~ Present(f) /\ ~ files[f].old /\ part[f] = "none"
        /\ \A v \in Worker : f \notin Held(h[v])
    BY <1>5 DEF StoreInv, FreshUnused, Unused
  <1>8. x \in Hand
    <2>1. W \in Wants
      BY <1>0, <1>2 DEF Hand, Wants
    <2>2. M \in Mades
      <3>1. <<y, f>> \in Want \X File /\ h[w].made \subseteq Want \X File
        BY <1>0, <1>5 DEF Hand, Mades
      <3> QED
        BY <1>2, <3>1 DEF Mades
    <2>3. "row" \in Pcs /\ f \in MaybeFile /\ k \in MaybeKey
      BY <1>5, <1>6, Names, Sets
    <2> QED
      BY <1>0, <1>3, <2>1, <2>2, <2>3 DEF Hand
  <1>9. /\ x.pc = "row" /\ x.file = f /\ x.key = k /\ x.want = W /\ x.made = M
        /\ x.kind = h[w].kind /\ x.keys = h[w].keys /\ x.then = h[w].then
    BY <1>0, <1>3 DEF Hand
  <1>10. HandShape(x)
    <2>1. ASSUME x.kind = "entry" PROVE x.want \subseteq Path /\ x.made \subseteq Path \X File
      <3>1. h[w].want \subseteq Path /\ h[w].made \subseteq Path \X File
        BY <1>0, <1>9, <2>1 DEF HandShape
      <3>2. <<y, f>> \in Path \X File
        BY <1>5, <3>1
      <3> QED
        BY <1>2, <1>9, <3>1, <3>2
    <2> QED
      BY <1>0, <1>5, <1>6, <1>9, <2>1 DEF HandShape, Uploads
  <1>11. Held(x) \subseteq Held(h[w]) \cup {f} /\ Offered(x) \subseteq Offered(h[w]) \cup {f}
    BY <1>2, <1>9 DEF Held, Offered
  <1>12. /\ h' \in [Proc -> Hand] /\ h'[w] = x /\ \A q \in Proc \ {w} : h'[q] = h[q]
    BY <1>0, <1>4, <1>8, Becoming DEF Set, StoreInv
  <1>13. (\A g : Present(g)' <=> Present(g)) /\ \A j : RowsOf(j)' = RowsOf(j)
    BY <1>4 DEF Present, RowsOf
  <1>14. /\ object'[k] = "young" /\ \A j \in Key \ {k} : object'[j] = object[j]
         /\ object' \in [Key -> {"none", "young", "old"}]
    BY <1>4, <1>6 DEF StoreInv, StoreTyped
  <1>15. \A v \in Worker \ {w} : h'[v] = h[v]
    BY <1>12, Sorts
  <1>16. \A j : Uploading(j)' => Uploading(j) \/ j = k
    BY <1>9, <1>12, <1>15 DEF Uploading
  <1>17. \A j : j # k => (j \in contested' <=> j \in contested)
    BY <1>4
  <1>18. StoreTyped'
    BY <1>4, <1>12, <1>14 DEF StoreInv, StoreTyped
  <1>19. HandShapes' /\ Partings'
    <2>1. Parting(x)
      BY <1>9 DEF Parting
    <2>2. \A v \in Worker : HandShape(h'[v]) /\ Parting(h'[v])
      BY <1>10, <1>12, <1>15, <2>1 DEF StoreInv, HandShapes, Partings
    <2> QED
      BY <1>4, <2>2 DEF HandShapes, HandShape, Partings, Parting
  <1>20. FreshUnused'
    <2>1. ASSUME NEW g \in fresh' PROVE Unused(g)'
      <3>1. Unused(g) /\ g \in File /\ g # f /\ g \in Key
        BY <1>4, <2>1, Sorts DEF StoreInv, StoreTyped, FreshUnused
      <3>2. g # k
        BY <1>6, <3>1
      <3> QED
        BY <1>4, <1>13, <1>14, <3>1, <3>2 DEF Unused
    <2>2. ASSUME NEW g \in fresh', NEW v \in Worker PROVE g \notin Held(h'[v])
      <3>1. g \in fresh /\ g # f
        BY <1>4, <2>2
      <3> QED
        BY <1>11, <1>12, <1>15, <3>1 DEF StoreInv, FreshUnused
    <2>3. \A g \in fresh' : \A v \in Worker : g \notin Held(h[v])'
      BY <2>2 DEF Held
    <2> QED
      BY <2>1, <2>3 DEF FreshUnused
  <1>21. PartsAlone'
    BY <1>4, <1>6, <1>7, <1>13, <1>14, Sorts DEF StoreInv, PartsAlone
  <1>22. UploadsInv'
    <2>1. ASSUME NEW v \in Worker, h'[v].pc = "row" PROVE Uploaded(h[v])'
      <3>1. CASE v = w
        BY <1>4, <1>7, <1>9, <1>12, <1>13, <1>14, <3>1 DEF Uploaded
      <3>2. CASE v # w
        <4>1. h'[v] = h[v] /\ Uploaded(h[v]) /\ HandShape(h[v]) /\ h[v].pc = "row"
          BY <1>15, <2>1, <3>2 DEF StoreInv, UploadsInv, HandShapes
        <4>2. h[v].key \in Key
          BY <4>1, Sorts DEF HandShape
        <4>3. CASE h[v].key = k
          BY <1>4, <1>13, <1>14, <4>1, <4>3 DEF Uploaded
        <4>4. CASE h[v].key # k
          BY <1>4, <1>13, <1>14, <1>17, <4>1, <4>2, <4>4 DEF Uploaded
        <4> QED
          BY <4>3, <4>4
      <3> QED
        BY <3>1, <3>2
    <2>2. ASSUME NEW v \in Worker PROVE Uploaded(h[v])'
      BY <2>1 DEF Uploaded
    <2>3. Alone'
      <3>1. ASSUME NEW v \in Worker \ {w}, h'[v].pc = "row" PROVE h'[v].file # f
        BY <1>7, <1>15, <3>1 DEF Held
      <3>2. h'[w].file = f
        BY <1>9, <1>12
      <3>3. ASSUME NEW u \in Worker, NEW v \in Worker, h'[u].pc = "row", h'[v].pc = "row",
                   h'[u].file = h'[v].file
            PROVE  u = v
        <4>1. CASE u # w /\ v # w
          BY <1>15, <3>3, <4>1 DEF StoreInv, UploadsInv, Alone
        <4>2. CASE u = w \/ v = w
          BY <3>1, <3>2, <3>3, <4>2
        <4> QED
          BY <4>1, <4>2
      <3> QED
        BY <3>3 DEF Alone
    <2> QED
      BY <2>2, <2>3 DEF UploadsInv
  <1>23. \A j \in File : Lost(j) => Lost(j)' /\ j # k
    <2>1. ASSUME NEW j \in File, Lost(j) PROVE Lost(j)' /\ j # k
      <3>1. j # k
        BY <1>5, <1>6, <2>1 DEF Lost
      <3> QED
        BY <1>4, <1>16, <2>1, <3>1 DEF Lost
    <2> QED
      BY <2>1
  <1>24. Deletions'
    <2>1. ASSUME NEW q \in Proc, NEW j \in h'[q].keys PROVE Deletable(j)'
      <3>1. j \in h[q].keys
        BY <1>9, <1>12, <2>1
      <3>2. Deletable(j)
        BY <3>1 DEF StoreInv, Deletions
      <3>3. j \in File => Lost(j)' /\ j # k
        BY <1>23, <3>2 DEF Deletable
      <3>4. CASE j = k
        <4>1. Deleting(k)
          BY <3>1, <3>4 DEF Deleting
        <4>2. k \in Path /\ k \in contested'
          BY <1>4, <1>6, <1>5, <3>3, <3>4, <4>1
        <4> QED
          BY <3>3, <3>4, <4>2 DEF Deletable
      <3>5. CASE j # k
        BY <1>13, <1>16, <1>17, <3>2, <3>3, <3>5 DEF Deletable
      <3> QED
        BY <3>4, <3>5
    <2>2. PICK j : j = h'[Maint].key
      OBVIOUS
    <2>3. h'[Maint].pc = "exists" => j \in Key /\ (j \in File => Lost(j))
      BY <1>0, <1>12, <2>2, Sorts DEF StoreInv, Deletions
    <2>4. h'[Maint].pc = "exists" => j \in Key /\ (j \in File => Lost(j)')
      BY <1>23, <2>3
    <2>5. h'[Maint].pc = "exists" => h'[Maint].key \in Key /\ (h'[Maint].key \in File => Lost(h[Maint].key)')
      BY <2>2, <2>4 DEF Lost, Uploading
    <2> QED
      BY <2>1, <2>5 DEF Deletions
  <1>25. Contents'
    <2>1. ASSUME NEW g \in File, Present(g) PROVE Content(g)'
      <3>1. Content(g) /\ files'[g] = files[g]
        BY <1>4, <2>1 DEF StoreInv, Contents
      <3>2. files[g].key \in Key
        BY <3>1, Sorts DEF Content
      <3>3. CASE files[g].key = k
        BY <1>14, <3>1, <3>3 DEF Content
      <3>4. CASE files[g].key # k
        BY <1>14, <1>17, <3>1, <3>2, <3>4 DEF Content
      <3> QED
        BY <3>3, <3>4
    <2> QED
      BY <1>13, <2>1 DEF Contents
  <1>26. Reclaims'
    <2>1. ASSUME NEW v \in Worker, NEW g \in Offered(h'[v]) \cap File PROVE ~ files'[g].old
      <3>1. g \in Offered(h[v]) \/ g = f
        BY <1>11, <1>12, <1>15, <2>1
      <3> QED
        BY <1>4, <1>7, <2>1, <3>1 DEF StoreInv, Reclaims
    <2>2. ASSUME NEW j \in garbage' PROVE Abandoned(j)'
      <3>1. Abandoned(j) /\ j # k /\ j \in Key
        BY <1>4, <2>2 DEF StoreInv, Reclaims
      <3> QED
        BY <1>4, <1>13, <1>14, <1>16, <3>1 DEF Abandoned
    <2>3. ASSUME NEW j \in garbage' PROVE Reclaiming(h[Maint], j)'
      <3>1. Reclaiming(h[Maint], j) /\ j # k /\ j \in Key
        BY <1>4, <2>3 DEF StoreInv, Reclaims
      <3>2. h'[Maint] = h[Maint]
        BY <1>0, <1>12, Sorts
      <3> QED
        BY <1>13, <1>14, <3>1, <3>2 DEF Reclaiming
    <2>4. \A v \in Worker : \A g \in Offered(h[v])' \cap File : ~ files'[g].old
      BY <2>1 DEF Offered
    <2> QED
      BY <1>4, <2>2, <2>3, <2>4 DEF StoreInv, Reclaims
  <1> QED
    BY <1>18, <1>19, <1>20, <1>21, <1>22, <1>24, <1>25, <1>26 DEF StoreInv

LEMMA CreateUploadStep ==
  ASSUME StoreInv, NEW w \in Worker, CreateUpload(w)
  PROVE  StoreInv'
  <1>0. w \in Proc /\ w # Maint
    BY Sorts
  <1>1. PICK f : f = (CHOOSE g \in fresh : TRUE)
    OBVIOUS
  <1>2. PICK x : x = [Idle EXCEPT !.pc = "register", !.file = f]
    OBVIOUS
  <1>3. /\ fresh' = fresh \ {f} /\ part' = [part EXCEPT ![f] = "empty"] /\ Set(w, x)
        /\ UNCHANGED <<files, ref, checkpoint, upload, object, contested, garbage>>
    BY <1>1, <1>2 DEF CreateUpload, tables, storeHistory
  <1>4. f \in fresh /\ f \in File
    BY <1>1 DEF CreateUpload, StoreInv, StoreTyped
  <1>5. /\ ~ Present(f) /\ object[f] = "none"
        /\ \A v \in Worker : f \notin Held(h[v])
    BY <1>4 DEF StoreInv, FreshUnused, Unused
  <1>6. x \in Hand
    <2>1. "register" \in Pcs /\ f \in MaybeFile
      BY <1>4, Names, Sets
    <2> QED
      BY <1>2, <2>1, IdleHand DEF Hand
  <1>7. /\ x.pc = "register" /\ x.file = f /\ x.made = {} /\ x.kind = "none" /\ x.keys = {}
        /\ x.then = "idle"
    BY <1>2 DEF Idle
  <1>8. HandShape(x) /\ Parting(x)' /\ Held(x) = {f} /\ Offered(x) = {}
    BY <1>4, <1>7 DEF HandShape, Parting, Held, Offered, Uploads
  <1>9. /\ h' \in [Proc -> Hand] /\ h'[w] = x /\ \A q \in Proc \ {w} : h'[q] = h[q]
    BY <1>0, <1>3, <1>6, Becoming DEF Set, StoreInv
  <1>10. (\A g : Present(g)' <=> Present(g)) /\ \A j : RowsOf(j)' = RowsOf(j)
    BY <1>3 DEF Present, RowsOf
  <1>11. \A v \in Worker \ {w} : h'[v] = h[v]
    BY <1>9, Sorts
  <1>12. \A v \in Worker : h'[v].pc = "row" => h'[v] = h[v] /\ v # w
    BY <1>7, <1>9, <1>11
  <1>13. \A j : Uploading(j)' => Uploading(j)
    BY <1>12 DEF Uploading
  <1>14. \A g \in File \ {f} : part'[g] = part[g]
    BY <1>3 DEF StoreInv, StoreTyped
  <1>15. part'[f] = "empty"
    BY <1>3, <1>4 DEF StoreInv, StoreTyped
  <1>16. StoreTyped'
    BY <1>3, <1>9 DEF StoreInv, StoreTyped
  <1>17. HandShapes' /\ Partings'
    <2>1. ASSUME NEW v \in Worker PROVE HandShape(h'[v]) /\ Parting(h[v])'
      <3>1. CASE v = w
        BY <1>8, <1>9, <3>1 DEF Parting
      <3>2. CASE v # w
        <4>1. h'[v] = h[v] /\ Parting(h[v]) /\ HandShape(h[v]) /\ h[v].file # f
          BY <1>5, <1>11, <3>2 DEF StoreInv, Partings, HandShapes, Held
        <4>2. h[v].pc \in {"part", "unregister"} => part'[h[v].file] = part[h[v].file]
          BY <1>14, <4>1 DEF HandShape, Uploads
        <4> QED
          BY <1>3, <4>1, <4>2 DEF Parting
      <3> QED
        BY <3>1, <3>2
    <2>2. \A v \in Worker : HandShape(h'[v])
      BY <2>1
    <2>3. HandShapes'
      BY <2>2 DEF HandShapes, HandShape
    <2>4. Partings'
      BY <2>1 DEF Partings
    <2> QED
      BY <2>3, <2>4
  <1>18. FreshUnused'
    <2>1. ASSUME NEW g \in fresh' PROVE Unused(g)'
      <3>1. Unused(g) /\ g \in File /\ g # f
        BY <1>3, <2>1 DEF StoreInv, StoreTyped, FreshUnused
      <3> QED
        BY <1>3, <1>10, <1>14, <3>1 DEF Unused
    <2>2. ASSUME NEW g \in fresh', NEW v \in Worker PROVE g \notin Held(h'[v])
      <3>1. g \in fresh /\ g # f
        BY <1>3, <2>2
      <3> QED
        BY <1>8, <1>9, <1>11, <3>1 DEF StoreInv, FreshUnused
    <2>3. \A g \in fresh' : \A v \in Worker : g \notin Held(h[v])'
      BY <2>2 DEF Held
    <2> QED
      BY <2>1, <2>3 DEF FreshUnused
  <1>19. PartsAlone'
    BY <1>3, <1>5, <1>10, <1>14, <1>15 DEF StoreInv, PartsAlone
  <1>20. UploadsInv'
    <2>1. ASSUME NEW v \in Worker, h'[v].pc = "row" PROVE Uploaded(h[v])'
      <3>1. h'[v] = h[v] /\ Uploaded(h[v]) /\ HandShape(h[v]) /\ h[v].pc = "row" /\ h[v].file # f
        BY <1>5, <1>12, <2>1 DEF StoreInv, UploadsInv, HandShapes, Held
      <3>2. part'[h[v].file] = part[h[v].file]
        BY <1>14, <3>1 DEF HandShape
      <3> QED
        BY <1>3, <1>10, <3>1, <3>2 DEF Uploaded
    <2>2. ASSUME NEW v \in Worker PROVE Uploaded(h[v])'
      BY <2>1 DEF Uploaded
    <2>3. Alone'
      BY <1>12 DEF StoreInv, UploadsInv, Alone
    <2> QED
      BY <2>2, <2>3 DEF UploadsInv
  <1>21. \A j \in File : Lost(j) => Lost(j)'
    <2>1. ASSUME NEW j \in File, Lost(j) PROVE Lost(j)'
      <3>1. j # f
        BY <1>4, <2>1 DEF Lost
      <3> QED
        BY <1>3, <1>13, <1>14, <2>1, <3>1 DEF Lost
    <2> QED
      BY <2>1
  <1>22. Deletions'
    <2>1. ASSUME NEW q \in Proc, NEW j \in h'[q].keys PROVE Deletable(j)'
      <3>1. j \in h[q].keys
        BY <1>7, <1>9, <2>1
      <3>2. Deletable(j)
        BY <3>1 DEF StoreInv, Deletions
      <3> QED
        BY <1>3, <1>10, <1>13, <1>21, <3>2 DEF Deletable
    <2>2. PICK j : j = h'[Maint].key
      OBVIOUS
    <2>3. h'[Maint].pc = "exists" => j \in Key /\ (j \in File => Lost(j))
      BY <1>0, <1>9, <2>2, Sorts DEF StoreInv, Deletions
    <2>4. h'[Maint].pc = "exists" => j \in Key /\ (j \in File => Lost(j)')
      BY <1>21, <2>3
    <2>5. h'[Maint].pc = "exists" => h'[Maint].key \in Key /\ (h'[Maint].key \in File => Lost(h[Maint].key)')
      BY <2>2, <2>4 DEF Lost, Uploading
    <2> QED
      BY <2>1, <2>5 DEF Deletions
  <1>23. Contents'
    BY <1>3, <1>10 DEF StoreInv, Contents, Content
  <1>24. Reclaims'
    <2>1. ASSUME NEW v \in Worker, NEW g \in Offered(h'[v]) \cap File PROVE ~ files'[g].old
      <3>1. g \in Offered(h[v])
        BY <1>8, <1>9, <1>11, <2>1
      <3> QED
        BY <1>3, <2>1, <3>1 DEF StoreInv, Reclaims
    <2>2. ASSUME NEW j \in garbage PROVE Abandoned(j)'
      <3>1. Abandoned(j) /\ j # f
        BY <1>4, <2>2 DEF StoreInv, Reclaims, Abandoned
      <3> QED
        BY <1>3, <1>10, <1>13, <1>14, <3>1 DEF Abandoned
    <2>3. ASSUME NEW j \in garbage PROVE Reclaiming(h[Maint], j)'
      <3>1. Reclaiming(h[Maint], j)
        BY <2>3 DEF StoreInv, Reclaims
      <3>2. h'[Maint] = h[Maint]
        BY <1>0, <1>9, Sorts
      <3> QED
        BY <1>3, <1>10, <3>1, <3>2 DEF Reclaiming
    <2>4. \A v \in Worker : \A g \in Offered(h[v])' \cap File : ~ files'[g].old
      BY <2>1 DEF Offered
    <2> QED
      BY <1>3, <2>2, <2>3, <2>4 DEF StoreInv, Reclaims
  <1> QED
    BY <1>16, <1>17, <1>18, <1>19, <1>20, <1>22, <1>23, <1>24 DEF StoreInv

LEMMA CompleteUploadStep ==
  ASSUME StoreInv, NEW w \in Worker, CompleteUpload(w)
  PROVE  StoreInv'
  <1>0. /\ w \in Proc /\ w # Maint /\ h[w].file \in File /\ h[w].pc = "complete"
        /\ UNCHANGED <<fresh, files, ref, checkpoint, upload, contested, garbage>>
    BY HandType DEF CompleteUpload, HandShape, Uploads, tables, storeHistory
  <1>1. PICK f : f = h[w].file
    OBVIOUS
  <1>2. CASE part[f] = "none"
    <2>1. Set(w, Idle) /\ object' = object /\ part' = part
      BY <1>1, <1>2 DEF CompleteUpload, stores
    <2> QED
      BY <1>0, <2>1, IdleHold, QuietRequest DEF Same
  <1>3. CASE part[f] # "none"
    <2>1. PICK x : x = [Idle EXCEPT !.pc = "row", !.kind = "chunked", !.file = f, !.key = f]
      OBVIOUS
    <2>2. /\ part' = [part EXCEPT ![f] = "none"] /\ object' = [object EXCEPT ![f] = "young"]
          /\ Set(w, x)
      BY <1>1, <1>3, <2>1 DEF CompleteUpload
    <2>3. f \in File /\ f \in Key /\ f \in Held(h[w]) /\ f \notin fresh
      BY <1>0, <1>1, Sorts DEF Held, StoreInv, FreshUnused
    <2>4. ~ Present(f) /\ object[f] = "none"
      BY <1>3, <2>3 DEF StoreInv, PartsAlone
    <2>5. x \in Hand
      <3>1. "row" \in Pcs /\ "chunked" \in Kinds /\ f \in MaybeFile /\ f \in MaybeKey
        BY <2>3, Names, Sets
      <3> QED
        BY <2>1, <3>1, IdleHand DEF Hand
    <2>6. /\ x.pc = "row" /\ x.kind = "chunked" /\ x.file = f /\ x.key = f /\ x.made = {}
          /\ x.keys = {}
          /\ x.then = "idle"
      BY <2>1 DEF Idle
    <2>7. HandShape(x) /\ Held(x) = {f} /\ Offered(x) = {}
      BY <2>3, <2>6 DEF HandShape, Held, Offered, Uploads
    <2>8. /\ h' \in [Proc -> Hand] /\ h'[w] = x /\ \A q \in Proc \ {w} : h'[q] = h[q]
      BY <1>0, <2>2, <2>5, Becoming DEF Set, StoreInv
    <2>9. (\A g : Present(g)' <=> Present(g)) /\ \A j : RowsOf(j)' = RowsOf(j)
      BY <1>0 DEF Present, RowsOf
    <2>10. \A v \in Worker \ {w} : h'[v] = h[v]
      BY <2>8, Sorts
    <2>11. \A j : Uploading(j)' => Uploading(j) \/ j = f
      BY <2>6, <2>8, <2>10 DEF Uploading
    <2>12. /\ part'[f] = "none" /\ \A g \in File \ {f} : part'[g] = part[g]
           /\ part' \in [File -> {"none", "empty", "filled"}]
      BY <2>2, <2>3 DEF StoreInv, StoreTyped
    <2>13. /\ object'[f] = "young" /\ \A j \in Key \ {f} : object'[j] = object[j]
           /\ object' \in [Key -> {"none", "young", "old"}]
      BY <2>2, <2>3 DEF StoreInv, StoreTyped
    <2>14. StoreTyped'
      BY <1>0, <2>8, <2>12, <2>13 DEF StoreInv, StoreTyped
    <2>15. HandShapes' /\ Partings'
      <3>1. ASSUME NEW v \in Worker PROVE HandShape(h'[v]) /\ Parting(h[v])'
        <4>1. CASE v = w
          BY <2>6, <2>7, <2>8, <4>1 DEF Parting
        <4>2. CASE v # w
          <5>1. h'[v] = h[v] /\ Parting(h[v]) /\ HandShape(h[v])
            BY <2>10, <4>2 DEF StoreInv, Partings, HandShapes
          <5>2. h[v].pc \in {"part", "unregister"} =>
                  part'[h[v].file] = part[h[v].file] \/ part'[h[v].file] = "none"
            BY <2>12, <5>1 DEF HandShape, Uploads
          <5> QED
            BY <1>0, <5>1, <5>2 DEF Parting
        <4> QED
          BY <4>1, <4>2
      <3>2. \A v \in Worker : HandShape(h'[v])
        BY <3>1
      <3>3. HandShapes'
        BY <3>2 DEF HandShapes, HandShape
      <3>4. Partings'
        BY <3>1 DEF Partings
      <3> QED
        BY <3>3, <3>4
    <2>16. FreshUnused'
      <3>1. ASSUME NEW g \in fresh PROVE Unused(g)'
        <4>1. Unused(g) /\ g \in File /\ g # f /\ g \in Key
          BY <2>3, Sorts DEF StoreInv, StoreTyped, FreshUnused
        <4> QED
          BY <1>0, <2>9, <2>12, <2>13, <4>1 DEF Unused
      <3>2. ASSUME NEW g \in fresh, NEW v \in Worker PROVE g \notin Held(h'[v])
        BY <2>3, <2>7, <2>8, <2>10 DEF StoreInv, FreshUnused
      <3>3. \A g \in fresh : \A v \in Worker : g \notin Held(h[v])'
        BY <3>2 DEF Held
      <3> QED
        BY <1>0, <3>1, <3>3 DEF FreshUnused
    <2>17. PartsAlone'
      BY <1>0, <2>4, <2>9, <2>12, <2>13, Sorts DEF StoreInv, PartsAlone
    <2>18. \A v \in Worker \ {w} : h[v].pc = "row" => h[v].file # f
      BY <1>3 DEF StoreInv, UploadsInv, Uploaded
    <2>19. UploadsInv'
      <3>1. ASSUME NEW v \in Worker, h'[v].pc = "row" PROVE Uploaded(h[v])'
        <4>1. CASE v = w
          BY <2>4, <2>6, <2>8, <2>9, <2>12, <2>13, <4>1 DEF Uploaded
        <4>2. CASE v # w
          <5>1. /\ h'[v] = h[v] /\ Uploaded(h[v]) /\ HandShape(h[v]) /\ h[v].pc = "row"
                /\ h[v].file # f
            BY <2>10, <2>18, <3>1, <4>2 DEF StoreInv, UploadsInv, HandShapes
          <5>2. h[v].file \in File /\ h[v].key \in Key /\ h[v].key # f
            BY <2>3, <5>1, Sorts DEF HandShape
          <5> QED
            BY <1>0, <2>9, <2>12, <2>13, <5>1, <5>2 DEF Uploaded
        <4> QED
          BY <4>1, <4>2
      <3>2. ASSUME NEW v \in Worker PROVE Uploaded(h[v])'
        BY <3>1 DEF Uploaded
      <3>3. Alone'
        <4>1. ASSUME NEW u \in Worker, NEW v \in Worker, h'[u].pc = "row", h'[v].pc = "row",
                     h'[u].file = h'[v].file
              PROVE  u = v
          <5>1. CASE u # w /\ v # w
            BY <2>10, <4>1, <5>1 DEF StoreInv, UploadsInv, Alone
          <5>2. CASE u = w \/ v = w
            BY <2>6, <2>8, <2>10, <2>18, <4>1, <5>2
          <5> QED
            BY <5>1, <5>2
        <4> QED
          BY <4>1 DEF Alone
      <3> QED
        BY <3>2, <3>3 DEF UploadsInv
    <2>20. \A j \in File : Lost(j) => Lost(j)' /\ j # f
      <3>1. ASSUME NEW j \in File, Lost(j) PROVE Lost(j)' /\ j # f
        <4>1. j # f
          BY <1>3, <3>1 DEF Lost
        <4> QED
          BY <1>0, <2>11, <2>12, <3>1, <4>1 DEF Lost
      <3> QED
        BY <3>1
    <2>21. Deletions'
      <3>1. ASSUME NEW q \in Proc, NEW j \in h'[q].keys PROVE Deletable(j)'
        <4>1. j \in h[q].keys
          BY <2>6, <2>8, <3>1
        <4>2. Deletable(j)
          BY <4>1 DEF StoreInv, Deletions
        <4>3. j # f
          BY <2>3, <2>20, <4>2 DEF Deletable
        <4> QED
          BY <1>0, <2>9, <2>11, <2>20, <4>2, <4>3 DEF Deletable
      <3>2. PICK j : j = h'[Maint].key
        OBVIOUS
      <3>3. h'[Maint].pc = "exists" => j \in Key /\ (j \in File => Lost(j))
        BY <1>0, <2>8, <3>2, Sorts DEF StoreInv, Deletions
      <3>4. h'[Maint].pc = "exists" => j \in Key /\ (j \in File => Lost(j)')
        BY <2>20, <3>3
      <3>5. h'[Maint].pc = "exists" => h'[Maint].key \in Key /\ (h'[Maint].key \in File => Lost(h[Maint].key)')
        BY <3>2, <3>4 DEF Lost, Uploading
      <3> QED
        BY <3>1, <3>5 DEF Deletions
    <2>22. Contents'
      <3>1. ASSUME NEW g \in File, Present(g) PROVE Content(g)'
        <4>1. Content(g) /\ files'[g] = files[g] /\ g # f
          BY <1>0, <2>4, <3>1 DEF StoreInv, Contents
        <4>2. files[g].key \in Key /\ files[g].key # f
          BY <2>3, <4>1, Sorts DEF Content
        <4> QED
          BY <1>0, <2>13, <4>1, <4>2 DEF Content
      <3> QED
        BY <2>9, <3>1 DEF Contents
    <2>23. Reclaims'
      <3>1. ASSUME NEW v \in Worker, NEW g \in Offered(h'[v]) \cap File PROVE ~ files'[g].old
        <4>1. g \in Offered(h[v])
          BY <2>7, <2>8, <2>10, <3>1
        <4> QED
          BY <1>0, <3>1, <4>1 DEF StoreInv, Reclaims
      <3>2. ASSUME NEW j \in garbage PROVE Abandoned(j)' /\ j # f /\ j \in Key
        <4>1. Abandoned(j) /\ j # f /\ j \in Key
          BY <1>3, <2>3, <3>2 DEF StoreInv, Reclaims, Abandoned
        <4> QED
          BY <1>0, <2>9, <2>11, <2>12, <2>13, <4>1 DEF Abandoned
      <3>3. ASSUME NEW j \in garbage PROVE Reclaiming(h[Maint], j)'
        <4>1. Reclaiming(h[Maint], j)
          BY <3>3 DEF StoreInv, Reclaims
        <4>2. h'[Maint] = h[Maint] /\ object'[j] = object[j]
          BY <1>0, <2>8, <2>13, <3>2, <3>3, Sorts
        <4> QED
          BY <1>0, <2>9, <4>1, <4>2 DEF Reclaiming
      <3>4. \A v \in Worker : \A g \in Offered(h[v])' \cap File : ~ files'[g].old
        BY <3>1 DEF Offered
      <3> QED
        BY <1>0, <3>2, <3>3, <3>4 DEF StoreInv, Reclaims
    <2> QED
      BY <2>14, <2>15, <2>16, <2>17, <2>19, <2>21, <2>22, <2>23 DEF StoreInv
  <1> QED
    BY <1>2, <1>3

(* An hour passes when no request is under way: nothing is uploaded.        *)
LEMMA HourStep ==
  ASSUME StoreInv, HourPasses
  PROVE  StoreInv'
  <1>1. /\ object' = [k \in Key |-> IF object[k] = "young" THEN "old" ELSE object[k]]
        /\ files' = [f \in File |-> IF Present(f) THEN [files[f] EXCEPT !.old = TRUE] ELSE NoRow]
        /\ UNCHANGED <<fresh, ref, checkpoint, upload, part, h, contested, garbage>>
    BY DEF HourPasses, storeHistory
  <1>2. \A w \in Worker : h[w].pc = "idle" /\ h[w].made = {} /\ h[w].file = NoFile
    BY HandType DEF HourPasses, HandShape
  <1>3. /\ files' \in [File -> FileRecord]
        /\ \A f \in File : /\ Present(f) => files'[f].kind = files[f].kind /\ files'[f].key = files[f].key
                           /\ Present(f) => files'[f].old
                           /\ ~ Present(f) => files'[f] = NoRow
    <2>1. \A f \in File : /\ [files[f] EXCEPT !.old = TRUE] \in FileRecord
                          /\ [files[f] EXCEPT !.old = TRUE].kind = files[f].kind
                          /\ [files[f] EXCEPT !.old = TRUE].key = files[f].key
                          /\ [files[f] EXCEPT !.old = TRUE].old
      BY DEF FileRecord, StoreInv, StoreTyped
    <2> QED
      BY <1>1, <2>1, NoRowType
  <1>4. \A f \in File : Present(f)' <=> Present(f)
    BY <1>3, NoRowType DEF Present
  <1>5. \A k : RowsOf(k)' = RowsOf(k)
    BY <1>3, <1>4 DEF RowsOf
  <1>6. /\ object' \in [Key -> {"none", "young", "old"}]
        /\ \A k \in Key : /\ object'[k] # "young"
                          /\ object'[k] = "none" <=> object[k] = "none"
                          /\ object[k] # "young" => object'[k] = object[k]
    BY <1>1 DEF StoreInv, StoreTyped
  <1>7. (\A k : ~ Uploading(k)') /\ \A k : Lost(k) => Lost(k)'
    BY <1>1, <1>2 DEF Uploading, Lost
  <1>8. StoreTyped' /\ HandShapes' /\ Partings'
    BY <1>1, <1>3, <1>6 DEF StoreInv, StoreTyped, HandShapes, HandShape, Partings, Parting
  <1>9. FreshUnused'
    <2>1. ASSUME NEW f \in fresh PROVE Unused(f)'
      <3>1. Unused(f) /\ f \in File /\ f \in Key
        BY Sorts DEF StoreInv, StoreTyped, FreshUnused
      <3> QED
        BY <1>1, <1>3, <1>4, <1>6, <3>1, NoRowType DEF Unused
    <2> QED
      BY <1>1, <2>1 DEF FreshUnused, StoreInv, Held
  <1>10. PartsAlone'
    BY <1>1, <1>4, <1>6, Sorts DEF StoreInv, PartsAlone
  <1>11. UploadsInv'
    BY <1>1, <1>2 DEF UploadsInv, Uploaded, Alone
  <1>12. Deletions'
    <2>1. ASSUME NEW p \in Proc, NEW k \in h[p].keys PROVE Deletable(k)'
      <3>1. Deletable(k)
        BY <2>1 DEF StoreInv, Deletions
      <3> QED
        BY <1>1, <1>5, <1>7, <3>1 DEF Deletable
    <2>2. h[Maint].pc = "exists" => h[Maint].key \in Key /\ (h[Maint].key \in File => Lost(h[Maint].key)')
      BY <1>1, <1>7 DEF StoreInv, Deletions, Lost, Uploading
    <2> QED
      BY <1>1, <2>1, <2>2 DEF Deletions
  <1>13. Contents'
    <2>1. ASSUME NEW f \in File, Present(f) PROVE Content(f)'
      <3>1. Content(f) /\ files'[f].key = files[f].key /\ files[f].key \in Key
        BY <1>3, <2>1, Sorts DEF StoreInv, Contents, Content
      <3> QED
        BY <1>1, <1>6, <3>1 DEF Content
    <2> QED
      BY <1>4, <2>1 DEF Contents
  <1>14. Reclaims'
    <2>1. \A w \in Worker : Offered(h[w])' = {}
      BY <1>1, <1>2 DEF Offered
    <2>2. ASSUME NEW k \in garbage PROVE Abandoned(k)'
      <3>1. Abandoned(k) /\ k \in Key
        BY <2>2 DEF StoreInv, Reclaims
      <3>2. \A f \in RowsOf(k) : files'[f].old
        BY <1>3 DEF RowsOf
      <3> QED
        BY <1>1, <1>5, <1>6, <1>7, <3>1, <3>2 DEF Abandoned
    <2>3. ASSUME NEW k \in garbage PROVE Reclaiming(h[Maint], k)'
      <3>1. Reclaiming(h[Maint], k) /\ k \in Key /\ object'[k] = object[k]
        BY <1>6, <2>3 DEF StoreInv, Reclaims, Abandoned
      <3> QED
        BY <1>1, <1>5, <3>1 DEF Reclaiming
    <2> QED
      BY <1>1, <2>1, <2>2, <2>3 DEF StoreInv, Reclaims
  <1> QED
    BY <1>8, <1>9, <1>10, <1>11, <1>12, <1>13, <1>14 DEF StoreInv

(* What an idle request and an idle maintenance run have is nothing.        *)
LEMMA IdleShapes ==
  HandShape(Idle) /\ Held(Idle) = {NoFile} /\ Offered(Idle) = {}
  BY IdleFields DEF HandShape, Held, Offered, Uploads

LEMMA RestartStep ==
  ASSUME StoreInv, ProcessRestarts
  PROVE  StoreInv'
  <1>1. /\ \A p \in Proc : h'[p] = Idle
        /\ h' \in [Proc -> Hand] /\ garbage' = {}
        /\ UNCHANGED <<fresh, files, object, ref, checkpoint, upload, part, contested>>
    BY IdleHand DEF ProcessRestarts, tables, stores
  <1>2. \A w \in Worker : h'[w] = Idle
    BY <1>1, Sorts
  <1>3. StoreTyped'
    BY <1>1 DEF StoreInv, StoreTyped
  <1>4. HandShapes'
    <2>1. \A w \in Worker : HandShape(h'[w])
      BY <1>2, IdleShapes
    <2> QED
      BY <2>1 DEF HandShapes, HandShape
  <1>5. Partings' /\ UploadsInv'
    BY <1>2, IdleFields DEF Partings, Parting, UploadsInv, Uploaded, Alone
  <1>6. FreshUnused'
    <2>1. \A f \in fresh : Unused(f)'
      BY <1>1 DEF StoreInv, FreshUnused, Unused, Present
    <2>2. NoFile \notin fresh
      BY Sorts DEF StoreInv, StoreTyped
    <2>3. \A w \in Worker : Held(h[w])' = {NoFile}
      <3>1. \A w \in Worker : Held(h'[w]) = {NoFile}
        BY <1>2, IdleShapes
      <3> QED
        BY <3>1 DEF Held
    <2> QED
      BY <1>1, <2>1, <2>2, <2>3 DEF FreshUnused
  <1>7. PartsAlone' /\ Contents'
    BY <1>1 DEF StoreInv, PartsAlone, Contents, Content, Present
  <1>8. Deletions'
    BY <1>1, IdleFields, Sorts DEF Deletions
  <1>9. Reclaims'
    <2>1. \A w \in Worker : Offered(h'[w]) = {}
      BY <1>2, IdleShapes
    <2>2. \A w \in Worker : Offered(h[w])' = {}
      BY <2>1 DEF Offered
    <2> QED
      BY <1>1, <2>2 DEF Reclaims
  <1> QED
    BY <1>3, <1>4, <1>5, <1>6, <1>7, <1>8, <1>9 DEF StoreInv

(* The first state, and every step.                                         *)
LEMMA StartInv == StoreInit => StoreInv
  <1> SUFFICES ASSUME StoreInit PROVE StoreInv
    OBVIOUS
  <1>1. SeedFile \in File /\ SkillMd \in Path /\ SkillMd \in Key /\ SkillMd \notin File
    BY Sorts, StoreAssumption
  <1>2. PICK seed : seed = [kind |-> "skill", key |-> SkillMd, owned |-> FALSE, old |-> TRUE]
    OBVIOUS
  <1>3. seed \in FileRecord /\ seed.kind = "skill" /\ seed.key = SkillMd
    <2>1. "skill" \in RowKinds /\ SkillMd \in MaybeKey
      BY <1>1, Sets DEF RowKinds
    <2> QED
      BY <1>2, <2>1 DEF FileRecord
  <1>4. /\ files \in [File -> FileRecord] /\ files[SeedFile] = seed
        /\ \A f \in File \ {SeedFile} : files[f] = NoRow
    BY <1>1, <1>2, <1>3, NoRowType DEF StoreInit
  <1>5. /\ \A p \in Proc : h[p] = Idle
        /\ h \in [Proc -> Hand] /\ garbage = {} /\ fresh = File \ {SeedFile}
    BY IdleHand DEF StoreInit
  <1>6. /\ object \in [Key -> {"none", "young", "old"}] /\ object[SkillMd] = "old"
        /\ \A k \in Key \ {SkillMd} : object[k] = "none"
    BY <1>1 DEF StoreInit
  <1>7. ref \in [Path -> MaybeFile] /\ checkpoint \in MaybeFile
    BY <1>1, Sets DEF StoreInit
  <1>8. \A f \in File : upload[f] = "none" /\ part[f] = "none"
    BY DEF StoreInit
  <1>9. /\ upload \in [File -> {"none", "open", "ready"}]
        /\ part \in [File -> {"none", "empty", "filled"}]
    BY DEF StoreInit
  <1>10. \A f \in File : Present(f) <=> f = SeedFile
    BY <1>3, <1>4, NoRowType DEF Present
  <1>11. \A w \in Worker : h[w] = Idle
    BY <1>5, Sorts
  <1>12. StoreTyped
    BY <1>4, <1>5, <1>6, <1>7, <1>9 DEF StoreTyped
  <1>13. HandShapes
    BY <1>11, IdleShapes DEF HandShapes
  <1>14. Partings /\ UploadsInv
    BY <1>11, IdleFields DEF Partings, Parting, UploadsInv, Uploaded, Alone
  <1>15. FreshUnused
    <2>1. ASSUME NEW f \in fresh PROVE Unused(f)
      <3>1. f \in File /\ f # SeedFile /\ f \in Key /\ f # SkillMd
        BY <1>1, <1>5, Sorts
      <3> QED
        BY <1>4, <1>6, <1>8, <1>10, <3>1, NoRowType DEF Unused
    <2>2. NoFile \notin fresh
      BY <1>5, Sorts
    <2> QED
      BY <1>11, <2>1, <2>2, IdleShapes DEF FreshUnused
  <1>16. PartsAlone
    BY <1>8 DEF PartsAlone
  <1>17. Deletions
    BY <1>5, IdleFields, Sorts DEF Deletions
  <1>18. Contents
    BY <1>1, <1>3, <1>4, <1>6, <1>10 DEF Contents, Content
  <1>19. Reclaims
    BY <1>5, <1>11, IdleShapes DEF Reclaims
  <1> QED
    BY <1>12, <1>13, <1>14, <1>15, <1>16, <1>17, <1>18, <1>19 DEF StoreInv

LEMMA RequestStep ==
  ASSUME StoreInv, NEW w \in Worker, Request(w)
  PROVE  StoreInv'
  <1>1. CASE ConsoleEntry(w)
    <2>1. PICK y \in EntryPath : Entries(w, {y}, {})
      BY <1>1 DEF ConsoleEntry
    <2>2. {y} \in SUBSET EntryPath /\ {} \in SUBSET EntryPath
      OBVIOUS
    <2> QED
      BY <2>1, <2>2, EntriesStep
  <1>2. CASE RemoveEntry(w)
    <2>1. PICK y \in EntryPath : Entries(w, {}, {y})
      BY <1>2 DEF RemoveEntry
    <2>2. {y} \in SUBSET EntryPath /\ {} \in SUBSET EntryPath
      OBVIOUS
    <2> QED
      BY <2>1, <2>2, EntriesStep
  <1>3. CASE TurnEntries(w)
    BY <1>3, EntriesStep DEF TurnEntries
  <1>4. CASE UploadFile(w) \/ UploadRaw(w)
    BY <1>4, NewFileStep
  <1>5. CASE \E P \in SUBSET SkillPath : WriteSkill(w, P)
    BY <1>5, WriteSkillStep
  <1>6. CASE \E f \in File : DeleteFile(w, f)
    BY <1>6, DeleteFileStep
  <1>7. CASE DeleteStore(w) \/ DeleteSkill(w) \/ DeleteSession(w)
    BY <1>7, DeleteOwnerStep
  <1>8. CASE CreateUpload(w)
    BY <1>8, CreateUploadStep
  <1>9. CASE SweepStaleUploads(w)
    BY <1>9, UploadRequestStep DEF SweepStaleUploads
  <1>10. CASE \E f \in File, step \in {"part", "complete", "abort"} : UploadRequest(w, f, step)
    BY <1>10, UploadRequestStep
  <1> QED
    BY <1>1, <1>2, <1>3, <1>4, <1>5, <1>6, <1>7, <1>8, <1>9, <1>10 DEF Request

LEMMA StepStep ==
  ASSUME StoreInv, NEW w \in Worker, Step(w)
  PROVE  StoreInv'
  <1>1. CASE Put(w) \/ RecordFile(w)
    BY <1>1, PutStep, RecordFileStep
  <1>2. CASE EntryPrior(w) \/ EntryCommit(w) \/ DropPrior(w) \/ Drop(w) \/ OwnerGone(w)
    BY <1>2, EntryPriorStep, EntryCommitStep, DropPriorStep, DropStep
  <1>3. CASE SkillPrior(w) \/ SkillCommit(w) \/ CheckpointPrior(w) \/ CheckpointCommit(w)
    BY <1>3, SkillPriorStep, SkillCommitStep, CheckpointPriorStep, CheckpointCommitStep
  <1>4. CASE Register(w) \/ UploadPart(w) \/ RecordPart(w)
    BY <1>4, RegisterStep, UploadPartStep, RecordPartStep
  <1>5. CASE CompleteUpload(w) \/ AbortUpload(w) \/ Unregister(w)
    BY <1>5, CompleteUploadStep, AbortUploadStep, UnregisterStep
  <1> QED
    BY <1>1, <1>2, <1>3, <1>4, <1>5 DEF Step

LEMMA NextInv == StoreInv /\ [StoreNext]_storeVars => StoreInv'
  <1> SUFFICES ASSUME StoreInv, [StoreNext]_storeVars PROVE StoreInv'
    OBVIOUS
  <1>1. CASE \E w \in Worker : Request(w) \/ Step(w)
    BY <1>1, RequestStep, StepStep
  <1>2. CASE \E p \in Proc : SessionRows(p) \/ SessionGone(p) \/ PurgeRow(p) \/ PurgeObject(p) \/ PurgeEnd(p)
    BY <1>2, SessionRowsStep, SessionGoneStep, PurgeRowStep, PurgeObjectStep, PurgeEndStep
  <1>3. CASE (\E f \in File : Attach(f)) \/ UNCHANGED storeVars
    <2>1. UNCHANGED <<fresh, files, object, part, upload, ref, checkpoint, h, contested, garbage>>
      BY <1>3 DEF Attach, storeVars, tables, stores, storeHistory
    <2> QED
      BY <2>1, AttachStep
  <1>4. CASE MaintSessions \/ MaintFiles \/ MaintOrphans
    BY <1>4, MaintSessionsStep, MaintFilesStep, MaintOrphansStep
  <1>5. CASE MaintScan \/ MaintExists \/ MaintDone
    BY <1>5, MaintScanStep, MaintExistsStep, MaintDoneStep
  <1>6. CASE HourPasses \/ ProcessRestarts
    BY <1>6, HourStep, RestartStep
  <1> QED
    BY <1>1, <1>2, <1>3, <1>4, <1>5, <1>6 DEF StoreNext

(* The inductive invariant holds always: what is between an object and its  *)
(* row is nobody else's, and what is about to be deleted has no row left.   *)
THEOREM StoreInvariant == StoreSpec => []StoreInv
  BY StartInv, NextInv, PTL DEF StoreSpec

(* A row always has its object (RowsHaveContent), unless its key is a path  *)
(* that a deletion and the next upload of that path contested. Uploads put  *)
(* the object before the row (agents-api.ts), deletions take the row before *)
(* the object (repo.ts deleteFileRecordById), and a key that a row still    *)
(* names is not deleted.                                                    *)
THEOREM ContentIsThere == StoreSpec => []RowsHaveContent
  <1>1. StoreInv => RowsHaveContent
    BY DEF StoreInv, Contents, Content, RowsHaveContent
  <1> QED
    BY <1>1, StoreInvariant, PTL

(* When the maintenance run ends, every object that was an hour old and     *)
(* that only unreferenced rows had when it listed the orphans is gone,      *)
(* unless it was uploaded anew or its deletion failed (GcReclaims): the run *)
(* purges the orphaned rows with their objects, and its scan of the store   *)
(* takes what no row names (maintenance.ts runGc).                          *)
THEOREM GarbageIsGone == StoreSpec => []GcReclaims
  <1>1. StoreInv => GcReclaims
    BY DEF StoreInv, Reclaims, Reclaiming, GcReclaims
  <1> QED
    BY <1>1, StoreInvariant, PTL

(* Parts of an upload in the store always have the row of their upload,     *)
(* which the sweep of stale uploads finds them by (PartsAreFound): the row  *)
(* is written before the first part and deleted after the parts are.        *)
THEOREM PartsHaveTheirRow == StoreSpec => []PartsAreFound
  <1>1. StoreInv => PartsAreFound
    BY DEF StoreInv, PartsAlone, PartsAreFound
  <1> QED
    BY <1>1, StoreInvariant, PTL
================================================================================
