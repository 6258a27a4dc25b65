--------------------------- MODULE WorkspaceDeletion ---------------------------
(***************************************************************************)
(* Deleting a workspace.  The row flips to deleting, one runner drains the *)
(* tables in the order of their foreign keys, passing over them again when *)
(* rows have come in meanwhile, and leaves a tombstone.  Writes go on for  *)
(* a while: a guard refuses them by a cached status, and the callbacks of  *)
(* running turns are exempt.  Rows of sessions, environments and vaults    *)
(* have resources in the cluster, dropped before the row; the maintenance  *)
(* run sweeps what was left there.                                         *)
(***************************************************************************)
EXTENDS Integers, Sequences, FiniteSets

CONSTANTS
  Writer,           \* write requests under way
  Runner,           \* drains that may run at once
  TTL,              \* lifetime of the guard's cached status
  MaxWrites,        \* bound: write requests
  MaxRequests,      \* bound: status and delete requests
  MaxRestarts       \* bound: restarts of the control plane

ASSUME WorkspaceAssumption ==
  /\ TTL \in Nat \ {0}
  /\ {MaxWrites, MaxRequests, MaxRestarts} \subseteq Nat

FilesFirst == <<"sessions", "files", "skills", "environments", "vaults", "agents">>  \* mutant: files before what refers to them
Order == <<"sessions", "skills", "files", "environments", "vaults", "agents">>
Table == {"sessions", "skills", "files", "environments", "vaults", "agents"}
Clustered == {"sessions", "environments", "vaults"}
Passes == 3

VARIABLES
  status,           \* workspaces.status
  rows,             \* rows of the workspace, <<table, id>>
  claims, oldClaims,\* rows with resources in the cluster, and those an hour old
  guard,            \* the guard's cache: [left, val]
  write, requests,  \* write requests; status and delete requests
  runner,           \* the drains
  sweep,            \* the sweep of the cluster: what it has listed
  given, asked, restarts,
  \* history: for how long the workspace is not active; rows that came in after
  \* the flip and after the last count; a status written over a deletion; rows
  \* were still coming in at the last pass
  late, sinceCount, raced, gaveUp

cluster == <<claims, oldClaims, sweep>>
bounds == <<given, asked, restarts>>
history == <<late, sinceCount, raced, gaveUp>>
vars == <<status, rows, cluster, guard, write, requests, runner, bounds, history>>

NoWrite == [pc |-> "idle", table |-> "none", id |-> 0]
NoRun == [pc |-> "idle", pass |-> 0, at |-> 1, batch |-> {}]
NoSweep == [pc |-> "idle", known |-> {}]
NoGuard == [left |-> 0, val |-> "none"]
Closing == status \in {"deleting", "deleted"}

Init ==
  /\ status = "active"
  /\ rows = {<<t, 1>> : t \in Table}
  /\ claims = {<<t, 1>> : t \in Clustered} /\ oldClaims = claims
  /\ guard = NoGuard
  /\ write = [w \in Writer |-> NoWrite]
  /\ requests = {}
  /\ runner = [r \in Runner |-> NoRun]
  /\ sweep = NoSweep
  /\ given = 0 /\ asked = 0 /\ restarts = 0
  /\ late = {} /\ sinceCount = {} /\ raced = FALSE /\ gaveUp = FALSE

(***************************************************************************)
(* workspaceGuard, and the routes behind it.                               *)
(***************************************************************************)
Route == {"sessions", "skills", "environments", "vaults", "credential", "vault"}

(* The first step of a handler: a skill's file, or the row.                *)
Creation(table) ==
  [pc |-> IF table = "skills" THEN "file" ELSE "insert", table |-> table, id |-> given + 2]

(* A credential is a key in the Secret of a vault that is there (else 404). *)
Credential == IF <<"vaults", 1>> \in rows
              THEN [pc |-> "create", table |-> "vaults", id |-> 1] ELSE NoWrite

(* The Secret of a vault that is there goes before its row.                 *)
VaultDelete == IF <<"vaults", 1>> \in rows
               THEN [pc |-> "free", table |-> "vaults", id |-> 1] ELSE NoWrite

Accepted(route) ==
  CASE route = "credential" -> Credential
    [] route = "vault"      -> VaultDelete
    [] OTHER                -> Creation(route)

Accept(w, route) ==
  /\ write' = [write EXCEPT ![w] = Accepted(route)]
  /\ given' = given + 1

Guard(w, route) ==
  /\ write[w].pc = "idle" /\ given < MaxWrites
  /\ LET seen == IF guard.left > 0 THEN guard.val ELSE status
     IN /\ guard' = IF guard.left > 0 THEN guard ELSE [left |-> TTL, val |-> status]
        /\ IF seen = "active" THEN Accept(w, route)
           ELSE given' = given + 1 /\ UNCHANGED write        \* 409, 404
  /\ UNCHANGED <<status, rows, cluster, requests, runner, asked, restarts, history>>

(* A running turn's upload: exempt, but of a session that is there.         *)
Callback(w) ==
  /\ write[w].pc = "idle" /\ given < MaxWrites
  /\ \E s \in rows : s[1] = "sessions"
  /\ Accept(w, "files")
  /\ UNCHANGED <<status, rows, cluster, guard, requests, runner, asked, restarts, history>>

Insert(row) ==
  /\ rows' = rows \cup {row}
  /\ late' = IF Closing THEN late \cup {row} ELSE late
  /\ sinceCount' = sinceCount \cup {row}

(* A skill's file comes first; a session's row needs its agent's, and an    *)
(* upload's its session's.                                                  *)
InsertFile(w) ==
  /\ write[w].pc = "file"
  /\ Insert(<<"files", write[w].id>>)
  /\ write' = [write EXCEPT ![w].pc = "insert"]
  /\ UNCHANGED <<status, cluster, guard, requests, runner, bounds, raced, gaveUp>>

Refused(t) ==
  \/ t = "sessions" /\ \A a \in rows : a[1] # "agents"
  \/ t = "files" /\ \A s \in rows : s[1] # "sessions"
InsertRow(w) ==
  /\ write[w].pc = "insert"
  /\ LET t == write[w].table
         fails == Refused(t) \/ (t = "skills" /\ <<"files", write[w].id>> \notin rows)
     IN /\ IF fails THEN UNCHANGED <<rows, late, sinceCount>> ELSE Insert(<<t, write[w].id>>)
        /\ write' = [write EXCEPT ![w] = IF ~fails /\ t \in Clustered THEN [@ EXCEPT !.pc = "create"]
                                         ELSE NoWrite]
  /\ UNCHANGED <<status, cluster, guard, requests, runner, bounds, raced, gaveUp>>

(* startSession and ensureEnvironmentPolicy do not ask whether the row is   *)
(* still there.                                                             *)
Create(w) ==
  /\ claims' = claims \cup {<<write[w].table, write[w].id>>}
  /\ write' = [write EXCEPT ![w] = NoWrite]
  /\ UNCHANGED <<status, rows, oldClaims, sweep, guard, requests, runner, bounds, history>>

CreateClaim(w) == write[w].pc = "create" /\ write[w].table # "vaults" /\ Create(w)

(* The Secret of a vault that is gone is created again.                     *)
PutVaultSecretKey(w) == write[w].pc = "create" /\ write[w].table = "vaults" /\ Create(w)

(* What the cluster does not have counts as deleted.                        *)
DeleteResources(x) == claims' = claims \ {x} /\ oldClaims' = oldClaims \ {x}

FreeVault(w) ==
  /\ write[w].pc = "free"
  /\ DeleteResources(<<"vaults", write[w].id>>)
  /\ write' = [write EXCEPT ![w].pc = "row"]
  /\ UNCHANGED <<status, rows, sweep, guard, requests, runner, bounds, history>>

DropVault(w) ==
  /\ write[w].pc = "row"
  /\ rows' = rows \ {<<"vaults", write[w].id>>}
  /\ write' = [write EXCEPT ![w] = NoWrite]
  /\ UNCHANGED <<status, cluster, guard, requests, runner, bounds, history>>

(***************************************************************************)
(* POST /v1/workspaces/:id/status and DELETE /v1/workspaces/:id: the status*)
(* is read, and then written, the deletion by a conditional update.        *)
(***************************************************************************)
Ask(kind) ==
  /\ asked < MaxRequests /\ asked' = asked + 1
  /\ ~Closing \/ (kind = "delete" /\ status = "deleting")
  /\ \E n \in 1..MaxRequests :
       /\ n = asked + 1
       /\ requests' = requests \cup {<<kind, n>>}
  /\ UNCHANGED <<status, rows, cluster, guard, write, runner, given, restarts, history>>

SetStatus ==
  \E q \in requests, s \in {"active", "disabled"} :
    /\ q[1] = "status"
    /\ requests' = requests \ {q}
    /\ status' = s
    /\ raced' = (raced \/ Closing)
    /\ UNCHANGED <<rows, cluster, guard, write, runner, bounds, late, sinceCount, gaveUp>>

BeginUnguarded ==  \* mutant: the flip does not look at the status it flips
  \E q \in requests :
    /\ q[1] = "delete"
    /\ requests' = requests \ {q}
    /\ status' = "deleting"
    /\ \E r \in Runner : runner[r].pc = "idle" /\ runner' = [runner EXCEPT ![r] = [NoRun EXCEPT !.pc = "list"]]
    /\ UNCHANGED <<rows, cluster, guard, write, bounds, history>>
BeginWorkspaceDelete ==
  \E q \in requests :
    /\ q[1] = "delete"
    /\ requests' = requests \ {q}
    /\ IF Closing THEN UNCHANGED <<status, runner>>
       ELSE /\ status' = "deleting"
            /\ \E r \in Runner :
                 /\ runner[r].pc = "idle"
                 /\ runner' = [runner EXCEPT ![r] = [NoRun EXCEPT !.pc = "list"]]
    /\ UNCHANGED <<rows, cluster, guard, write, bounds, history>>

(***************************************************************************)
(* runWorkspaceDelete.                                                     *)
(***************************************************************************)
Run(r, rec) == runner' = [runner EXCEPT ![r] = rec]

DrainList(r) ==
  /\ runner[r].pc = "list"
  /\ LET batch == {x \in rows : x[1] = Order[runner[r].at]}
     IN Run(r, IF batch # {} THEN [runner[r] EXCEPT !.pc = "free", !.batch = batch]
               ELSE IF runner[r].at < Len(Order) THEN [runner[r] EXCEPT !.at = @ + 1]
               ELSE [runner[r] EXCEPT !.pc = "count"])
  /\ UNCHANGED <<status, rows, cluster, guard, write, requests, bounds, history>>

Freed(r) == CHOOSE x \in runner[r].batch : TRUE
(* A session's Jobs and volume, an environment's proxy: before the row.     *)
DrainFree(r) ==
  /\ runner[r].pc = "free"
  /\ DeleteResources(Freed(r))
  /\ Run(r, [runner[r] EXCEPT !.pc = "row"])
  /\ UNCHANGED <<status, rows, sweep, guard, write, requests, bounds, history>>

(* A file a skill refers to cannot go: the drain throws, and the next boot  *)
(* takes it up.  An agent takes its sessions' rows along.                   *)
DrainRow(r) ==
  /\ runner[r].pc = "row"
  /\ LET x == Freed(r)
         rest == runner[r].batch \ {x}
     IN IF x[1] = "files" /\ <<"skills", x[2]>> \in rows
        THEN /\ Run(r, [NoRun EXCEPT !.pc = "failed"])
             /\ UNCHANGED rows
        ELSE /\ rows' = {y \in rows \ {x} : x[1] = "agents" => y[1] # "sessions"}
             /\ Run(r, [runner[r] EXCEPT !.pc = IF rest = {} THEN "list" ELSE "free", !.batch = rest])
  /\ UNCHANGED <<status, cluster, guard, write, requests, bounds, history>>

CountNever(r) ==  \* mutant: the tables are passed over once
  /\ runner[r].pc = "count"
  /\ Run(r, [runner[r] EXCEPT !.pc = "tombstone"])
  /\ sinceCount' = {}
  /\ UNCHANGED <<status, rows, cluster, guard, write, requests, bounds, late, raced, gaveUp>>
Count(r) ==
  /\ runner[r].pc = "count"
  /\ Run(r, IF rows = {} \/ runner[r].pass + 1 = Passes
            THEN [runner[r] EXCEPT !.pc = "tombstone"]
            ELSE [NoRun EXCEPT !.pc = "list", !.pass = runner[r].pass + 1])
  /\ sinceCount' = {}
  /\ gaveUp' = (gaveUp \/ (rows # {} /\ runner[r].pass + 1 = Passes))
  /\ UNCHANGED <<status, rows, cluster, guard, write, requests, bounds, late, raced>>

Tombstone(r) ==
  /\ runner[r].pc = "tombstone"
  /\ status' = "deleted"
  /\ Run(r, NoRun)
  /\ UNCHANGED <<rows, cluster, guard, write, requests, bounds, history>>

(***************************************************************************)
(* A restart loses what is under way; the boot sweep resumes a deletion.   *)
(***************************************************************************)
RestartOnly ==  \* mutant: no boot sweep
  /\ restarts < MaxRestarts /\ restarts' = restarts + 1
  /\ write' = [w \in Writer |-> NoWrite] /\ requests' = {}
  /\ sweep' = NoSweep /\ guard' = NoGuard
  /\ runner' = [r \in Runner |-> NoRun]
  /\ UNCHANGED <<status, rows, claims, oldClaims, given, asked, history>>
Restart ==
  /\ restarts < MaxRestarts /\ restarts' = restarts + 1
  /\ write' = [w \in Writer |-> NoWrite] /\ requests' = {}
  /\ sweep' = NoSweep /\ guard' = NoGuard
  /\ LET first == CHOOSE r \in Runner : TRUE
     IN runner' = [r \in Runner |-> IF r = first /\ status = "deleting" THEN [NoRun EXCEPT !.pc = "list"]
                                    ELSE NoRun]
  /\ UNCHANGED <<status, rows, claims, oldClaims, given, asked, history>>

(***************************************************************************)
(* sweepOrphanedK8s: the ids are read first, then the cluster is listed,   *)
(* and what no id claims and is an hour old goes.                          *)
(***************************************************************************)
SweepIds ==
  /\ sweep.pc = "idle"
  /\ sweep' = [pc |-> "list", known |-> {x \in rows : x[1] \in Clustered}]
  /\ UNCHANGED <<status, rows, claims, oldClaims, guard, write, requests, runner, bounds, history>>

SweptUnnamed == {x \in oldClaims \ sweep.known : x[1] # "vaults"}  \* mutant: Secrets are not swept
Swept == oldClaims \ sweep.known
SweepDelete ==
  /\ sweep.pc = "list"
  /\ claims' = claims \ Swept /\ oldClaims' = oldClaims \ Swept
  /\ sweep' = NoSweep
  /\ UNCHANGED <<status, rows, guard, write, requests, runner, bounds, history>>

(***************************************************************************)
(* Time.  A tick ages the guard's cache; an hour, in which every request   *)
(* and sweep under way ends, ages the cluster's resources.                 *)
(***************************************************************************)
Tick ==
  /\ guard.left > 0
  /\ guard' = IF guard.left > 1 THEN [guard EXCEPT !.left = @ - 1] ELSE NoGuard
  /\ UNCHANGED <<status, rows, cluster, write, requests, runner, bounds, history>>

Hour ==
  /\ sweep.pc = "idle" /\ \A w \in Writer : write[w].pc = "idle"
  /\ oldClaims # claims
  /\ oldClaims' = claims
  /\ UNCHANGED <<status, rows, claims, sweep, guard, write, requests, runner, bounds, history>>

WriteStep(w) == InsertFile(w) \/ InsertRow(w) \/ CreateClaim(w) \/ PutVaultSecretKey(w)
                \/ FreeVault(w) \/ DropVault(w)
Drain(r) == DrainList(r) \/ DrainFree(r) \/ DrainRow(r) \/ Count(r) \/ Tombstone(r)

Next ==
  \/ \E w \in Writer : (\E t \in Route : Guard(w, t)) \/ Callback(w) \/ WriteStep(w)
  \/ \E kind \in {"status", "delete"} : Ask(kind)
  \/ SetStatus \/ BeginWorkspaceDelete
  \/ \E r \in Runner : Drain(r)
  \/ Restart
  \/ SweepIds \/ SweepDelete
  \/ Tick \/ Hour

(* A drain under way is a promise of the process that runs it; so is the    *)
(* boot sweep of the process that replaces it, and the end of a request.    *)
(* The maintenance run comes back every day, and finds what is an hour old. *)
Fairness ==
  /\ \A r \in Runner : WF_vars(Drain(r))
  /\ \A w \in Writer : WF_vars(WriteStep(w))
  /\ SF_vars(Hour) /\ SF_vars(SweepIds) /\ WF_vars(SweepDelete)
Spec == Init /\ [][Next]_vars /\ Fairness

(***************************************************************************)
(* Properties.                                                             *)
(***************************************************************************)
TypeOK ==
  /\ status \in {"active", "disabled", "deleting", "deleted"}
  /\ rows \subseteq Table \X (1..MaxWrites + 1) /\ oldClaims \subseteq claims
  /\ claims \subseteq Clustered \X (1..MaxWrites + 1)
  /\ \A r \in Runner : /\ runner[r].pass \in 0..Passes /\ runner[r].at \in 1..Len(Order)
                       /\ \A x \in runner[r].batch : x[1] = Order[runner[r].at]
  /\ \A k \in rows : k[1] = "skills" => <<"files", k[2]>> \in rows

(* However many deletes are asked for, and however the process restarts,    *)
(* one drain runs at a time, unless a status was written over the deletion  *)
(* (the atomic flip of beginWorkspaceDelete).                               *)
OneDrain == raced \/ \A r, q \in Runner : runner[r].pc # "idle" /\ runner[q].pc # "idle" => r = q

(* What a tombstone leaves behind came in after the last count of the rows, *)
(* unless three passes were not enough (runWorkspaceDelete).                *)
LeftRowsAreLate ==
  status = "deleted" /\ ~raced /\ ~gaveUp => rows \subseteq sinceCount

(* A drain throws only over a row that came in after the flip: in the order *)
(* of the tables nothing is deleted before what refers to it.               *)
FailsOnlyByLateRow ==
  (\E r \in Runner : runner[r].pc = "failed") /\ ~raced => \E x \in late : x[1] = "skills"

(* Whatever a deletion, a failed or a cut request leaves in the cluster     *)
(* without its row - a vault's Secret that a late credential created again -*)
(* goes in the end (sweepOrphanedK8s).                                      *)
Orphans == claims \ rows
OrphansAreSwept == Orphans # {} ~> Orphans = {}

(* A deletion ends, with a tombstone or over a row that came in late.       *)
DeletionEnds == status = "deleting" ~> status # "deleting" \/ \E r \in Runner : runner[r].pc = "failed"
================================================================================
