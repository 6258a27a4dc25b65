------------------------------ MODULE ObjectStore ------------------------------
(***************************************************************************)
(* Files: a row in Postgres and an object in the file store.  Every route  *)
(* writes the object before the row and deletes the row before the object, *)
(* one statement at a time, with other routes and the maintenance run in   *)
(* between.  An upload, an output and a checkpoint have a key of their     *)
(* own; the entries of a memory store, a wiki or a skill have the key of   *)
(* their path, which successive rows share.                                *)
(***************************************************************************)
EXTENDS Naturals, FiniteSets

CONSTANTS
  File,             \* file ids
  SeedFile,         \* the file of the skill's first version
  NoFile,
  EntryPath,        \* paths of one memory store or wiki
  SkillPath,        \* paths of one skill
  SkillMd,          \* the path skills.file_id points at
  Worker,           \* requests under way
  Maint,            \* the maintenance run
  MaxOps,           \* bound: requests
  MaxFailures,      \* bound: object deletes that fail
  MaxCrashes        \* bound: restarts of the control plane

Path == EntryPath \cup SkillPath
Key == File \cup Path
Proc == Worker \cup {Maint}

ASSUME StoreAssumption ==
  /\ SeedFile \in File /\ NoFile \notin Key /\ Maint \notin Worker
  /\ SkillMd \in SkillPath
  /\ File \cap Path = {} /\ EntryPath \cap SkillPath = {}
  /\ {MaxOps, MaxFailures, MaxCrashes} \subseteq Nat

VARIABLES
  fresh,            \* ids not given out yet
  files,            \* the table files
  object,           \* the file store: "none", "young" or "old", per key
  ref,              \* memory_entries, wiki_entries and the skill's manifest
  live,             \* the store's, the skill's and the session's row
  checkpoint,       \* sessions.checkpoint_file_id
  attached,         \* session_files
  upload,           \* file_uploads, by the file id reserved
  part,             \* multipart uploads in the store, by file id
  h,                \* where each request and the maintenance run is
  ops, failures, crashes,
  \* history: keys deleted while their next upload was between object and row,
  \* and keys the maintenance run must have freed when it ends
  contested, garbage

tables == <<files, ref, live, checkpoint, attached, upload>>
stores == <<object, part>>
storeBounds == <<ops, failures, crashes>>
storeHistory == <<contested, garbage>>
storeVars == <<fresh, tables, stores, h, storeBounds, storeHistory>>

NoRow == [kind |-> "none", key |-> NoFile, owned |-> FALSE, old |-> FALSE]
Idle == [pc |-> "idle", kind |-> "none", want |-> {}, made |-> {}, drop |-> {}, file |-> NoFile,
         key |-> NoFile, todo |-> {}, keys |-> {}, seen |-> {}, then |-> "idle"]

Present(f) == files[f].kind # "none"
RowsOf(k) == {f \in File : Present(f) /\ files[f].key = k}
Constrained == EntryPath \cup {SkillMd}      \* the columns that are foreign keys
Pinned(f) == \E p \in Constrained : ref[p] = f
PathsOf(o) == CASE o = "store" -> EntryPath [] o = "skill" -> SkillPath [] o = "session" -> {}
FilesOf(o) == {ref[p] : p \in PathsOf(o)} \ {NoFile}

(* An object is being deleted once its last row is gone; it is being        *)
(* uploaded until its row is there.                                         *)
Deleting(k) == \E p \in Proc : k \in h[p].keys
Uploading(k) == \E w \in Worker : h[w].pc = "row" /\ h[w].key = k
Contend(ks) == contested' = contested \cup {k \in ks : Uploading(k)}

StoreInit ==
  /\ fresh = File \ {SeedFile}
  /\ files = [f \in File |->
               IF f = SeedFile
               THEN [kind |-> "skill", key |-> SkillMd, owned |-> FALSE, old |-> TRUE]
               ELSE NoRow]
  /\ object = [k \in Key |-> IF k = SkillMd THEN "old" ELSE "none"]
  /\ ref = [p \in Path |-> IF p = SkillMd THEN SeedFile ELSE NoFile]
  /\ live = {"store", "skill", "session"}
  /\ checkpoint = NoFile /\ attached = {}
  /\ upload = [f \in File |-> "none"] /\ part = [f \in File |-> "none"]
  /\ h = [p \in Proc |-> Idle]
  /\ ops = 0 /\ failures = 0 /\ crashes = 0
  /\ contested = {} /\ garbage = {}

Set(p, r) == h' = [h EXCEPT ![p] = r]
Start(w, r) ==
  /\ h[w].pc = "idle" /\ ops < MaxOps
  /\ ops' = ops + 1
  /\ Set(w, r)
  /\ UNCHANGED <<fresh, stores, failures, crashes, storeHistory>>
Purge(todo, keys, then) == [Idle EXCEPT !.pc = "purge", !.todo = todo, !.keys = keys, !.then = then]

(***************************************************************************)
(* The requests.                                                           *)
(***************************************************************************)
NewFile(w, kind) == Start(w, [Idle EXCEPT !.pc = "put", !.kind = kind, !.want = {"own"}])
                    /\ UNCHANGED tables

UploadFile(w) == NewFile(w, "upload")

(* What a runner posts; a checkpoint is keyed by its session.               *)
UploadRaw(w) ==
  \/ NewFile(w, "output")
  \/ "session" \in live /\ NewFile(w, "checkpoint")

(* Entries of a store or wiki: P is written, then D removed.                *)
Entries(w, P, D) ==
  /\ "store" \in live
  /\ Start(w, [Idle EXCEPT !.pc = IF P = {} THEN "dropPrior" ELSE "put", !.kind = "entry",
                           !.want = P, !.drop = D])
  /\ UNCHANGED tables

ConsoleEntry(w) == \E x \in EntryPath : Entries(w, {x}, {})
RemoveEntry(w) == \E x \in EntryPath : Entries(w, {}, {x})

(* The diff of a turn: uploads, then one post with their ids.               *)
TurnEntries(w) ==
  \E P, D \in SUBSET EntryPath : P \cup D # {} /\ P \cap D = {} /\ Entries(w, P, D)

WriteSkill(w, P) ==
  /\ "skill" \in live /\ SkillMd \in P
  /\ Start(w, [Idle EXCEPT !.pc = "put", !.kind = "skill", !.want = P])
  /\ UNCHANGED tables

DeleteFile(w, f) ==
  /\ Present(f)
  /\ Start(w, Purge({f}, {}, "idle"))
  /\ UNCHANGED tables

DeleteOwner(w, o) ==
  /\ o \in live
  /\ Start(w, [Idle EXCEPT !.pc = "gone", !.kind = o, !.todo = FilesOf(o)])
  /\ UNCHANGED tables

DeleteStore(w) == DeleteOwner(w, "store")
DeleteSkill(w) == DeleteOwner(w, "skill")
DeleteSession(w) == DeleteOwner(w, "session")

Attach(f) ==
  /\ Present(f) /\ files[f].kind = "upload" /\ "session" \in live
  /\ f \notin attached
  /\ attached' = attached \cup {f}
  /\ UNCHANGED <<fresh, files, ref, live, checkpoint, upload, stores, h, storeBounds, storeHistory>>

(***************************************************************************)
(* files.put, then createFileRecord.                                       *)
(***************************************************************************)
KeyOf(f, x) == IF x = "own" THEN f ELSE x

Put(w) ==
  /\ h[w].pc = "put" /\ fresh # {}
  /\ LET f == CHOOSE f \in fresh : TRUE
         x == CHOOSE x \in h[w].want : TRUE
     IN   /\ fresh' = fresh \ {f}
          /\ object' = [object EXCEPT ![KeyOf(f, x)] = "young"]
          /\ Set(w, [h[w] EXCEPT !.pc = "row", !.file = f, !.key = KeyOf(f, x), !.want = @ \ {x},
                                 !.made = @ \cup {<<x, f>>}])
          /\ contested' = IF Deleting(KeyOf(f, x)) THEN contested \cup {KeyOf(f, x)}
                          ELSE contested \ {KeyOf(f, x)}
          /\ garbage' = garbage \ {KeyOf(f, x)}
  /\ UNCHANGED <<tables, part, storeBounds>>

AfterRow(r) ==
  CASE r.want # {} -> [r EXCEPT !.pc = "put", !.file = NoFile, !.key = NoFile]
    [] r.want = {} /\ r.kind \in {"entry", "skill", "checkpoint"} ->
         [r EXCEPT !.pc = "prior", !.key = NoFile]
    [] r.want = {} /\ r.kind = "chunked" -> [Idle EXCEPT !.pc = "unregister", !.file = r.file]
    [] OTHER -> Idle

(* A session-scoped row needs its session: without it the insert fails.     *)
RecordFile(w) ==
  /\ h[w].pc = "row"
  /\ IF h[w].kind \in {"output", "checkpoint"} /\ "session" \notin live
     THEN /\ Set(w, Idle)
          /\ UNCHANGED files
     ELSE /\ files' = [files EXCEPT ![h[w].file] =
                        [kind |-> IF h[w].kind = "chunked" THEN "upload" ELSE h[w].kind,
                         key |-> h[w].key, owned |-> h[w].kind \in {"output", "checkpoint"},
                         old |-> FALSE]]
          /\ Set(w, AfterRow(h[w]))
  /\ UNCHANGED <<fresh, ref, live, checkpoint, attached, upload, stores, storeBounds, storeHistory>>

(***************************************************************************)
(* upsertMemoryEntries, upsertWikiEntries: per path, the row it replaces   *)
(* is read and then the entry written; then the removals, the same way.    *)
(***************************************************************************)
NextOf(r) ==
  CASE r.made # {} -> [r EXCEPT !.pc = "prior"]
    [] r.made = {} /\ r.drop # {} -> [r EXCEPT !.pc = "dropPrior"]
    [] OTHER -> Purge(r.todo, {}, "idle")

Replaced(x, f) == {ref[x]} \ {NoFile, f}
EntryPrior(w) ==
  /\ h[w].pc = "prior" /\ h[w].kind = "entry"
  /\ \E m \in h[w].made :
       Set(w, [h[w] EXCEPT !.pc = "commit", !.key = m[1], !.file = m[2], !.made = @ \ {m},
                           !.todo = @ \cup Replaced(m[1], m[2])])
  /\ UNCHANGED <<fresh, tables, stores, storeBounds, storeHistory>>

EntryCommit(w) ==
  /\ h[w].pc = "commit" /\ h[w].kind = "entry"
  /\ IF "store" \in live /\ Present(h[w].file)
     THEN /\ ref' = [ref EXCEPT ![h[w].key] = h[w].file]
          /\ Set(w, NextOf([h[w] EXCEPT !.key = NoFile, !.file = NoFile]))
     ELSE /\ Set(w, Idle)                  \* a foreign key refuses: the request fails
          /\ UNCHANGED ref
  /\ UNCHANGED <<fresh, files, live, checkpoint, attached, upload, stores>>
  /\ UNCHANGED <<storeBounds, storeHistory>>

DropPrior(w) ==
  /\ h[w].pc = "dropPrior"
  /\ Set(w, [h[w] EXCEPT !.pc = "drop", !.todo = @ \cup ({ref[x] : x \in h[w].drop} \ {NoFile})])
  /\ UNCHANGED <<fresh, tables, stores, storeBounds, storeHistory>>

Drop(w) ==
  /\ h[w].pc = "drop"
  /\ ref' = [x \in Path |-> IF x \in h[w].drop THEN NoFile ELSE ref[x]]
  /\ Set(w, Purge(h[w].todo, {}, "idle"))
  /\ UNCHANGED <<fresh, files, live, checkpoint, attached, upload, stores>>
  /\ UNCHANGED <<storeBounds, storeHistory>>

(***************************************************************************)
(* createSkill: the manifest is read and replaced whole; the row is        *)
(* inserted anew if it has been deleted.                                   *)
(***************************************************************************)
Manifest(made) ==
  [x \in Path |-> IF x \in EntryPath THEN ref[x]
                  ELSE IF \E m \in made : m[1] = x THEN (CHOOSE m \in made : m[1] = x)[2]
                  ELSE NoFile]

Storable(made) == Present(Manifest(made)[SkillMd])    \* the foreign key of skills.file_id

SkillPrior(w) ==
  /\ h[w].pc = "prior" /\ h[w].kind = "skill"
  /\ Set(w, [h[w] EXCEPT !.pc = IF "skill" \in live THEN "commit" ELSE "insert",
                     !.todo = FilesOf("skill")])
  /\ UNCHANGED <<fresh, tables, stores, storeBounds, storeHistory>>

SkillCommit(w) ==
  /\ h[w].kind = "skill"
  /\ \/ /\ h[w].pc = "commit" /\ "skill" \in live
        /\ Storable(h[w].made)
        /\ ref' = Manifest(h[w].made)
        /\ Set(w, Purge(h[w].todo, {}, "idle"))
        /\ UNCHANGED live
     \/ /\ h[w].pc = "commit" /\ "skill" \in live
        /\ ~Storable(h[w].made)
        /\ Set(w, Idle)
        /\ UNCHANGED <<ref, live>>
     \/ /\ h[w].pc = "commit" /\ "skill" \notin live       \* the update finds no row
        /\ Set(w, Purge(h[w].todo, {}, "idle"))
        /\ UNCHANGED <<ref, live>>
     \/ /\ h[w].pc = "insert"
        /\ IF "skill" \in live \/ ~Storable(h[w].made)     \* the name is taken
           THEN UNCHANGED <<ref, live>>
           ELSE ref' = Manifest(h[w].made) /\ live' = live \cup {"skill"}
        /\ Set(w, Idle)
  /\ UNCHANGED <<fresh, files, checkpoint, attached, upload, stores, storeBounds, storeHistory>>

(***************************************************************************)
(* setSessionStatus and the reclaim after it: a report of a turn that is   *)
(* no longer the current one is not applied, and its checkpoint reclaimed. *)
(***************************************************************************)
CheckpointPrior(w) ==
  /\ h[w].pc = "prior" /\ h[w].kind = "checkpoint"
  /\ Set(w, [h[w] EXCEPT !.pc = "commit", !.todo = {checkpoint} \ {NoFile}])
  /\ UNCHANGED <<fresh, tables, stores, storeBounds, storeHistory>>

CheckpointCommit(w) ==
  /\ h[w].pc = "commit" /\ h[w].kind = "checkpoint"
  /\ \E applied \in IF "session" \in live THEN BOOLEAN ELSE {FALSE} :
       /\ checkpoint' = IF applied THEN h[w].file ELSE checkpoint
       /\ Set(w, Purge(IF applied THEN h[w].todo ELSE {h[w].file}, {}, "idle"))
  /\ UNCHANGED <<fresh, files, ref, live, attached, upload, stores, storeBounds, storeHistory>>

(***************************************************************************)
(* deleteMemoryStore, deleteWiki, deleteSkill: the row goes, its entries   *)
(* with it, and the files listed before are purged.                        *)
(***************************************************************************)
OwnerGone(w) ==
  /\ h[w].pc = "gone" /\ h[w].kind \in {"store", "skill"}
  /\ live' = live \ {h[w].kind}
  /\ ref' = [x \in Path |-> IF x \in PathsOf(h[w].kind) THEN NoFile ELSE ref[x]]
  /\ Set(w, Purge(h[w].todo, {}, "idle"))
  /\ UNCHANGED <<fresh, files, checkpoint, attached, upload, stores, storeBounds, storeHistory>>

(***************************************************************************)
(* deleteSession: its files' rows in one statement, then its own row, then *)
(* the objects of the keys no other row has.                               *)
(***************************************************************************)
SessionRows(w) ==
  /\ h[w].pc = "gone" /\ h[w].kind = "session"
  /\ LET mine == {f \in File : Present(f) /\ files[f].owned}
         keys == {k \in Key : RowsOf(k) # {} /\ RowsOf(k) \subseteq mine}
     IN /\ files' = [f \in File |-> IF f \in mine THEN NoRow ELSE files[f]]
        /\ attached' = attached \ mine
        /\ Set(w, [h[w] EXCEPT !.pc = "goneRow", !.keys = keys])
        /\ Contend(keys)
  /\ UNCHANGED <<fresh, ref, live, checkpoint, upload, stores, storeBounds, garbage>>

SessionGone(w) ==
  /\ h[w].pc = "goneRow"
  /\ live' = live \ {"session"} /\ checkpoint' = NoFile /\ attached' = {}
  /\ files' = [f \in File |-> [files[f] EXCEPT !.owned = FALSE]]     \* ON DELETE SET NULL
  /\ Set(w, Purge({}, h[w].keys, h[w].then))
  /\ UNCHANGED <<fresh, ref, upload, stores, storeBounds, storeHistory>>

(***************************************************************************)
(* Chunked uploads: the multipart upload in the store, then its row; parts *)
(* while the row is there; completed into an object and a file row, or     *)
(* aborted by the client or by the hourly sweep, the row last.             *)
(***************************************************************************)
CreateUpload(w) ==
  /\ h[w].pc = "idle" /\ ops < MaxOps /\ fresh # {}
  /\ ops' = ops + 1
  /\ LET f == CHOOSE f \in fresh : TRUE
     IN /\ fresh' = fresh \ {f}
        /\ part' = [part EXCEPT ![f] = "empty"]
        /\ Set(w, [Idle EXCEPT !.pc = "register", !.file = f])
  /\ UNCHANGED <<tables, object, failures, crashes, storeHistory>>

Register(w) ==
  /\ h[w].pc = "register"
  /\ upload' = [upload EXCEPT ![h[w].file] = "open"]
  /\ Set(w, Idle)
  /\ UNCHANGED <<fresh, files, ref, live, checkpoint, attached, stores, storeBounds, storeHistory>>

(* Each request reads the upload's row first.                               *)
UploadRequest(w, f, step) ==
  /\ upload[f] # "none"
  /\ step = "complete" => upload[f] = "ready"
  /\ h[w].pc = "idle"
  /\ ops < MaxOps /\ ops' = ops + 1
  /\ Set(w, [Idle EXCEPT !.pc = step, !.file = f])
  /\ UNCHANGED <<fresh, tables, stores, failures, crashes, storeHistory>>

(* The hourly sweep aborts what the client has left lying for a day.        *)
SweepStaleUploads(w) == \E f \in File : UploadRequest(w, f, "abort")

UploadPart(w) ==
  /\ h[w].pc = "part"
  /\ IF part[h[w].file] = "none"
     THEN /\ Set(w, Idle)                  \* NoSuchUpload
          /\ UNCHANGED part
     ELSE /\ part' = [part EXCEPT ![h[w].file] = "filled"]
          /\ Set(w, [h[w] EXCEPT !.pc = "record"])
  /\ UNCHANGED <<fresh, tables, object, storeBounds, storeHistory>>

RecordPart(w) ==
  /\ h[w].pc = "record"
  /\ upload' = [upload EXCEPT ![h[w].file] = IF @ = "none" THEN "none" ELSE "ready"]
  /\ Set(w, Idle)
  /\ UNCHANGED <<fresh, files, ref, live, checkpoint, attached, stores, storeBounds, storeHistory>>

CompleteUpload(w) ==
  /\ h[w].pc = "complete"
  /\ IF part[h[w].file] = "none"
     THEN /\ Set(w, Idle)
          /\ UNCHANGED <<stores>>
     ELSE /\ part' = [part EXCEPT ![h[w].file] = "none"]
          /\ object' = [object EXCEPT ![h[w].file] = "young"]
          /\ Set(w, [Idle EXCEPT !.pc = "row", !.kind = "chunked",
                            !.file = h[w].file, !.key = h[w].file])
  /\ UNCHANGED <<fresh, tables, storeBounds, storeHistory>>

AbortUpload(w) ==
  /\ h[w].pc = "abort"
  /\ part' = [part EXCEPT ![h[w].file] = "none"]
  /\ Set(w, [h[w] EXCEPT !.pc = "unregister"])
  /\ UNCHANGED <<fresh, tables, object, storeBounds, storeHistory>>

UnregisterFirst(w) ==  \* mutant: the upload's row goes before its parts
  /\ h[w].pc \in {"unregister", "abort"}
  /\ upload' = [upload EXCEPT ![h[w].file] = "none"]
  /\ Set(w, Idle)
  /\ UNCHANGED <<fresh, files, ref, live, checkpoint, attached, stores, storeBounds, storeHistory>>
Unregister(w) ==
  /\ h[w].pc = "unregister"
  /\ upload' = [upload EXCEPT ![h[w].file] = "none"]
  /\ Set(w, Idle)
  /\ UNCHANGED <<fresh, files, ref, live, checkpoint, attached, stores, storeBounds, storeHistory>>

(***************************************************************************)
(* deleteFileRecordById and files.del, for one file after another: the     *)
(* object goes only when no other row has its key.                         *)
(***************************************************************************)
PurgeRowAlways(p) ==  \* mutant: the object goes with any of its rows
  /\ h[p].pc = "purge" /\ h[p].keys = {}
  /\ \E f \in h[p].todo :
       /\ files' = [files EXCEPT ![f] = IF Pinned(f) THEN @ ELSE NoRow]
       /\ attached' = IF Pinned(f) THEN attached ELSE attached \ {f}
       /\ LET keys == IF Present(f) /\ ~Pinned(f) THEN {files[f].key} ELSE {}
          IN Set(p, [h[p] EXCEPT !.todo = @ \ {f}, !.keys = keys]) /\ Contend(keys)
  /\ UNCHANGED <<fresh, ref, live, checkpoint, upload, stores, storeBounds, garbage>>
PurgeRow(p) ==
  /\ h[p].pc = "purge" /\ h[p].keys = {}
  /\ \E f \in h[p].todo :
       /\ files' = [files EXCEPT ![f] = IF Pinned(f) THEN @ ELSE NoRow]
       /\ attached' = IF Pinned(f) THEN attached ELSE attached \ {f}
       /\ LET keys == IF Present(f) /\ ~Pinned(f) /\ RowsOf(files[f].key) = {f} THEN {files[f].key}
                      ELSE {}
          IN Set(p, [h[p] EXCEPT !.todo = @ \ {f}, !.keys = keys]) /\ Contend(keys)
  /\ UNCHANGED <<fresh, ref, live, checkpoint, upload, stores, storeBounds, garbage>>

PurgeObject(p) ==
  /\ h[p].pc = "purge"
  /\ \E k \in h[p].keys :
       /\ Set(p, [h[p] EXCEPT !.keys = @ \ {k}])
       /\ \/ /\ object' = [object EXCEPT ![k] = "none"]
             /\ UNCHANGED <<failures, garbage>>
          \/ /\ failures < MaxFailures /\ failures' = failures + 1   \* best effort
             /\ garbage' = garbage \ {k}
             /\ UNCHANGED object
  /\ UNCHANGED <<fresh, tables, part, ops, crashes, contested>>

PurgeEnd(p) ==
  /\ h[p].pc = "purge" /\ h[p].keys = {} /\ h[p].todo = {}
  /\ Set(p, [Idle EXCEPT !.pc = h[p].then, !.seen = h[p].seen])
  /\ UNCHANGED <<fresh, tables, stores, storeBounds, storeHistory>>

(***************************************************************************)
(* The maintenance run: expired sessions, expired files, orphan rows and   *)
(* then orphan objects.  Any section may be switched off.                  *)
(***************************************************************************)
MaintSessions ==
  /\ h[Maint].pc = "idle"
  /\ \/ Set(Maint, [Idle EXCEPT !.pc = "files"])
     \/ /\ "session" \in live
        /\ Set(Maint, [Idle EXCEPT !.pc = "gone", !.kind = "session", !.then = "files"])
  /\ UNCHANGED <<fresh, tables, stores, storeBounds, storeHistory>>

Expired == {f \in File : /\ files[f].kind \in {"upload", "output"} /\ files[f].old
                         /\ ~files[f].owned /\ f \notin attached}
MaintFiles ==
  /\ h[Maint].pc = "files"
  /\ \/ Set(Maint, [Idle EXCEPT !.pc = "orphans"])
     \/ /\ Expired # {}
        /\ Set(Maint, Purge(Expired, {}, "orphans"))
  /\ UNCHANGED <<fresh, tables, stores, storeBounds, storeHistory>>

OrphanAttached(f) ==  \* mutant: a checkpoint whose session is gone is kept
  \/ files[f].kind = "checkpoint" /\ files[f].owned /\ checkpoint # f
  \/ files[f].kind = "skill" /\ \A p \in SkillPath : ref[p] # f
  \/ files[f].kind = "entry" /\ \A p \in EntryPath : ref[p] # f
OrphanRow(f) ==
  \/ files[f].kind = "checkpoint" /\ (~files[f].owned \/ checkpoint # f)
  \/ files[f].kind = "skill" /\ \A p \in SkillPath : ref[p] # f
  \/ files[f].kind = "entry" /\ \A p \in EntryPath : ref[p] # f
Wanted(f) == \/ files[f].kind \in {"upload", "output"} \/ f = checkpoint
             \/ \E p \in Path : ref[p] = f
OrphanRows == {f \in File : files[f].old /\ OrphanRow(f)}
MaintOrphans ==
  /\ h[Maint].pc = "orphans"
  /\ Set(Maint, Purge(OrphanRows, {}, "scan"))
  /\ garbage' = {k \in Key : object[k] = "old" /\ \A f \in RowsOf(k) : files[f].old /\ ~Wanted(f)}
  /\ UNCHANGED <<fresh, tables, stores, storeBounds, contested>>

Listed == {k \in Key \ h[Maint].seen : object[k] = "old"}
MaintScan ==
  /\ h[Maint].pc = "scan" /\ Listed # {}
  /\ LET k == CHOOSE k \in Listed : TRUE
     IN Set(Maint, [h[Maint] EXCEPT !.pc = "exists", !.key = k, !.seen = @ \cup {k}])
  /\ UNCHANGED <<fresh, tables, stores, storeBounds, storeHistory>>

MaintExists ==
  /\ h[Maint].pc = "exists"
  /\ LET keys == IF RowsOf(h[Maint].key) = {} THEN {h[Maint].key} ELSE {}
     IN /\ Set(Maint, [Purge({}, keys, "scan") EXCEPT !.seen = h[Maint].seen])
        /\ Contend(keys)
  /\ UNCHANGED <<fresh, tables, stores, storeBounds, garbage>>

MaintDone ==
  /\ \/ /\ h[Maint].pc = "scan"
        /\ Listed = {}
        /\ Set(Maint, [Idle EXCEPT !.pc = "done"])
        /\ UNCHANGED garbage
     \/ /\ h[Maint].pc = "done"
        /\ Set(Maint, Idle)
        /\ garbage' = {}
  /\ UNCHANGED <<fresh, tables, stores, storeBounds, contested>>

(***************************************************************************)
(* An hour passes, in which every request under way ends; a restart, in    *)
(* which every one is lost.                                                *)
(***************************************************************************)
HourPasses ==
  /\ \A w \in Worker : h[w].pc = "idle"
  /\ object' = [k \in Key |-> IF object[k] = "young" THEN "old" ELSE object[k]]
  /\ files' = [f \in File |-> IF Present(f) THEN [files[f] EXCEPT !.old = TRUE] ELSE NoRow]
  /\ UNCHANGED <<fresh, ref, live, checkpoint, attached, upload, part, h>>
  /\ UNCHANGED <<storeBounds, storeHistory>>

ProcessRestarts ==
  /\ crashes < MaxCrashes /\ crashes' = crashes + 1
  /\ \E p \in Proc : h[p].pc # "idle"
  /\ h' = [p \in Proc |-> Idle]
  /\ garbage' = {}
  /\ UNCHANGED <<fresh, tables, stores, ops, failures, contested>>

Request(w) ==
  \/ UploadFile(w) \/ UploadRaw(w)
  \/ ConsoleEntry(w) \/ RemoveEntry(w) \/ TurnEntries(w)
  \/ \E P \in SUBSET SkillPath : WriteSkill(w, P)
  \/ \E f \in File : DeleteFile(w, f)
  \/ DeleteStore(w) \/ DeleteSkill(w) \/ DeleteSession(w)
  \/ CreateUpload(w) \/ SweepStaleUploads(w)
  \/ \E f \in File, step \in {"part", "complete", "abort"} : UploadRequest(w, f, step)

Step(w) ==
  \/ Put(w) \/ RecordFile(w)
  \/ EntryPrior(w) \/ EntryCommit(w) \/ DropPrior(w) \/ Drop(w)
  \/ SkillPrior(w) \/ SkillCommit(w)
  \/ CheckpointPrior(w) \/ CheckpointCommit(w)
  \/ OwnerGone(w)
  \/ Register(w) \/ UploadPart(w) \/ RecordPart(w)
  \/ CompleteUpload(w) \/ AbortUpload(w) \/ Unregister(w)

StoreNext ==
  \/ \E w \in Worker : Request(w) \/ Step(w)
  \/ \E p \in Proc : SessionRows(p) \/ SessionGone(p)
                  \/ PurgeRow(p) \/ PurgeObject(p) \/ PurgeEnd(p)
  \/ \E f \in File : Attach(f)
  \/ MaintSessions \/ MaintFiles \/ MaintOrphans \/ MaintScan \/ MaintExists \/ MaintDone
  \/ HourPasses \/ ProcessRestarts

StoreSpec == StoreInit /\ [][StoreNext]_storeVars

(***************************************************************************)
(* Properties.                                                             *)
(***************************************************************************)
FileRow == [kind : {"none", "upload", "output", "checkpoint", "entry", "skill"},
            key : Key \cup {NoFile}, owned : BOOLEAN, old : BOOLEAN]

(* Types; a row's key is its own id or a path of its kind; what a foreign   *)
(* key column names has a row.                                              *)
StoreTypeOK ==
  /\ fresh \subseteq File /\ contested \subseteq Key /\ garbage \subseteq Key
  /\ files \in [File -> FileRow] /\ object \in [Key -> {"none", "young", "old"}]
  /\ ref \in [Path -> File \cup {NoFile}] /\ live \subseteq {"store", "skill", "session"}
  /\ checkpoint \in File \cup {NoFile} /\ attached \subseteq File
  /\ upload \in [File -> {"none", "open", "ready"}]
  /\ part \in [File -> {"none", "empty", "filled"}]
  /\ DOMAIN h = Proc
  /\ \A f \in File : Present(f) =>
       /\ f \notin fresh
       /\ files[f].key \in CASE files[f].kind = "entry" -> EntryPath
                            [] files[f].kind = "skill" -> SkillPath
                            [] OTHER -> {f}
  /\ \A p \in Constrained : ref[p] # NoFile => Present(ref[p])

(* A file that has a row has its content, whatever uploads, replacements,   *)
(* deletions, the maintenance run and restarts come in between (the shared- *)
(* key rule of deleteFileRecordById, the order of object and row, the hour  *)
(* of grace).  Only an entry can lose it, in one way: the last row of its   *)
(* path was deleted, or the maintenance run looked for one, while the next  *)
(* upload to that path was between its object and its row, or began while   *)
(* that deletion was under way.                                             *)
RowsHaveContent ==
  \A f \in File :
    Present(f) => object[files[f].key] # "none" \/ files[f].key \in Path \cap contested

(* When the maintenance run ends, every object that was an hour old and     *)
(* that only rows nothing refers to had, when it listed the orphans, is     *)
(* gone, unless it was uploaded anew or its deletion failed (runGc).        *)
GcReclaims == h[Maint].pc = "done" => \A k \in garbage : object[k] = "none"

(* Parts in the store belong to an upload that still has its row, where the *)
(* hourly sweep finds it: no order of parts, completion, abort and restart  *)
(* leaves parts that nothing will free.                                     *)
PartsAreFound == \A f \in File : part[f] = "filled" => upload[f] # "none"
================================================================================
