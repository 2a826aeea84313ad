----------------------------- MODULE SourceSync -----------------------------
(***************************************************************************)
(* Incremental synchronisation of one source (src/app/ingestion/sync.py)   *)
(* over the three stores it touches:                                       *)
(*                                                                         *)
(*   Redis       the per-source lock of src/app/workers/sync.py;           *)
(*   PostgreSQL  source_state, source_file_state and ingestion_run, through*)
(*               src/app/state/store.py;                                   *)
(*   Qdrant      the indexed chunks, through                               *)
(*               src/app/retrieval/qdrant_store.py.                        *)
(*                                                                         *)
(* Every lock, row and point is keyed by the source id, so one source is   *)
(* modelled.  Three kinds of actor run against it at once: Dramatiq        *)
(* workers, which hold the Redis lock for the whole sync; operators running*)
(* `tractusmind-ingest sync`, which take no lock; and administrators       *)
(* calling adopt-snapshot, which looks at the lock and does not take it.   *)
(* An action is what an actor does between two awaits that matter: one     *)
(* statement of a PostgreSQL transaction, one Qdrant request, one Redis    *)
(* command; a transaction that no other can come between is one action.    *)
(*                                                                         *)
(* PostgreSQL runs at READ COMMITTED: a read sees what is committed at that*)
(* moment and waits for nobody, a write locks its row until the transaction*)
(* ends.  SQLAlchemy writes the columns that differ from what it read, and *)
(* flushes a changed row before its session's next statement.              *)
(*                                                                         *)
(* Abstracted: a file is one point (its chunks are written and deleted by  *)
(* path together), the counters of ingestion_run, logging and metrics.     *)
(***************************************************************************)
EXTENDS Naturals, Sequences, FiniteSets

CONSTANTS
  Paths, Blobs, Commits,  \* selected file paths, blob SHAs, commit SHAs
  Chunkless,              \* blobs the chunker makes no chunk of
  Workers,                \* Dramatiq workers: run_source_sync
  Operators,              \* tractusmind-ingest sync
  Admins,                 \* POST /v1/ops/sources/{id}/adopt-snapshot
  NoBlob, NoCommit,       \* absent file, absent point or snapshot
  Free, Orphan,           \* lock: nobody's, or left by a process that died
  LockOutlivesTask,       \* the lock's TTL exceeds every live sync's duration
  CommitAckMayBeLost,     \* a PostgreSQL commit may succeed unacknowledged
  MaxRuns,                \* bound: no sync starts after this many runs
  MaxFaults               \* bound: failures, interrupts and crashes

Actors == Workers \cup Operators \cup Admins

ASSUME DataAssumption ==
  /\ NoBlob \notin Blobs
  /\ NoCommit \notin Commits
  /\ Chunkless \subseteq Blobs

ASSUME ActorAssumption ==
  /\ {Free, Orphan} \cap Actors = {}
  /\ Free # Orphan

ASSUME BoundAssumption ==
  /\ LockOutlivesTask \in BOOLEAN
  /\ CommitAckMayBeLost \in BOOLEAN
  /\ MaxRuns \in Nat
  /\ MaxFaults \in Nat

VARIABLES
  tree, pushed, head,      \* GitHub: commit contents, commits so far, the ref
  lock,                    \* Redis: holder of tractusmind:source-sync:<id>
  snapshot, lastRun,       \* source_state: snapshot_commit_sha, last_successful_run_id
  files,                   \* source_file_state: path -> [blob, content, seen]
  runs,                    \* ingestion_run, in started_at order
  index,                   \* Qdrant: path -> content commit -> snapshot label
  pc, adopting,            \* each actor: its place, whether in adopt_snapshot
  manifest, prevSnap, prevFiles, stale, run, todo,      \* and its locals
  readSource, readFiles, unflushed,  \* complete_run: what its session has read
  faults                   \* failures so far, for MaxFaults

github   == <<tree, pushed, head>>
postgres == <<snapshot, lastRun, files, runs>>
plan     == <<adopting, manifest, prevSnap, prevFiles>>
session  == <<readSource, readFiles, unflushed>>
locals   == <<plan, stale, run, todo, session>>
vars     == <<github, lock, postgres, index, pc, locals, faults>>

-----------------------------------------------------------------------------
(* Data                                                                    *)

Trees   == [Paths -> Blobs \cup {NoBlob}]
FileRow == [blob    : Blobs \cup {NoBlob},
            content : Commits \cup {NoCommit},   \* content_commit_sha
            seen    : Commits \cup {NoCommit}]   \* last_seen_snapshot_commit_sha
NoFile  == [blob |-> NoBlob, content |-> NoCommit, seen |-> NoCommit]
NoFiles == [p \in Paths |-> NoFile]
RunRow  == [commit : Commits, status : {"running", "succeeded", "failed"}]

\* A point's id is a hash of the commit its content was fetched at and its
\* path; its payload carries the snapshot it belongs to.
Points  == [Paths -> [Commits -> Commits \cup {NoCommit}]]

Phases == {"idle", "discover", "load_snapshot", "load_files", "start_read",
           "start_write", "fetch", "index", "delete_modified",
           "delete_removed", "remove_stale", "complete", "write_source",
           "delete_rows", "rows", "failing", "release"}

\* The phases inside the try block of IncrementalSourceSync.sync, whose
\* exceptions mark the run as failed.
Guarded == {"fetch", "index", "delete_modified", "delete_removed",
            "remove_stale", "complete", "write_source", "delete_rows", "rows"}

\* The manifest's file list, and build_incremental_plan.
FilesOf(c)   == {p \in Paths : tree[c][p] # NoBlob}
Stored(a)    == {p \in Paths : prevFiles[a][p].blob # NoBlob}
Added(a)     == FilesOf(manifest[a]) \ Stored(a)
Modified(a)  == {p \in FilesOf(manifest[a]) \cap Stored(a) :
                   prevFiles[a][p].blob # tree[manifest[a]][p]}
Unchanged(a) == {p \in FilesOf(manifest[a]) \cap Stored(a) :
                   prevFiles[a][p].blob = tree[manifest[a]][p]}
Deleted(a)   == Stored(a) \ FilesOf(manifest[a])

\* The files of a commit that give chunks to index.
Chunked(c) == {p \in FilesOf(c) : tree[c][p] \notin Chunkless}

\* upsert_chunks: points of content commit c, labelled with snapshot c.
Upserted(paths, c) ==
  [p \in Paths |-> IF p \in paths THEN [index[p] EXCEPT ![c] = c] ELSE index[p]]

\* update_source_snapshot: set_payload on every point of the paths.
Relabelled(paths, c) ==
  [p \in Paths |-> [d \in Commits |->
     IF p \in paths /\ index[p][d] # NoCommit THEN c ELSE index[p][d]]]

\* delete_source_paths: every point of the paths but those labelled keep.
Without(paths, keep) ==
  [p \in Paths |-> [d \in Commits |->
     IF p \in paths /\ index[p][d] # keep THEN NoCommit ELSE index[p][d]]]

-----------------------------------------------------------------------------
Init ==
  /\ head \in Commits
  /\ pushed = {head}
  /\ \E t \in Trees :
       tree = [c \in Commits |-> IF c = head THEN t ELSE [p \in Paths |-> NoBlob]]
  /\ lock = Free
  /\ snapshot = NoCommit
  /\ lastRun = 0
  /\ files = NoFiles
  /\ runs = <<>>
  /\ index = [p \in Paths |-> [c \in Commits |-> NoCommit]]
  /\ pc = [a \in Actors |-> "idle"]
  /\ adopting = [a \in Actors |-> FALSE]
  /\ manifest = [a \in Actors |-> NoCommit]
  /\ prevSnap = [a \in Actors |-> NoCommit]
  /\ prevFiles = [a \in Actors |-> NoFiles]
  /\ stale = [a \in Actors |-> {}]
  /\ run = [a \in Actors |-> 0]
  /\ todo = [a \in Actors |-> {}]
  /\ readSource = [a \in Actors |-> NoCommit]
  /\ readFiles = [a \in Actors |-> NoFiles]
  /\ unflushed = [a \in Actors |-> {}]
  /\ faults = 0

Goto(a, phase) == pc' = [pc EXCEPT ![a] = phase]

\* A call returned, raised past its last handler, or its process died.
ForgetLocals(a) ==
  /\ Goto(a, "idle")
  /\ adopting' = [adopting EXCEPT ![a] = FALSE]
  /\ manifest' = [manifest EXCEPT ![a] = NoCommit]
  /\ prevSnap' = [prevSnap EXCEPT ![a] = NoCommit]
  /\ prevFiles' = [prevFiles EXCEPT ![a] = NoFiles]
  /\ stale' = [stale EXCEPT ![a] = {}]
  /\ run' = [run EXCEPT ![a] = 0]
  /\ todo' = [todo EXCEPT ![a] = {}]
  /\ readSource' = [readSource EXCEPT ![a] = NoCommit]
  /\ readFiles' = [readFiles EXCEPT ![a] = NoFiles]
  /\ unflushed' = [unflushed EXCEPT ![a] = {}]

Fault == faults < MaxFaults /\ faults' = faults + 1

-----------------------------------------------------------------------------
(* GitHub: external                                                        *)

\* A commit is pushed to the followed ref.
Push ==
  /\ \E c \in Commits \ pushed, t \in Trees :
       /\ tree' = [tree EXCEPT ![c] = t]
       /\ pushed' = pushed \cup {c}
       /\ head' = c
  /\ UNCHANGED <<lock, postgres, index, pc, locals, faults>>

\* The followed ref is moved to a commit it has had before.
ResetRef ==
  /\ head' \in pushed \ {head}
  /\ UNCHANGED <<tree, pushed, lock, postgres, index, pc, locals, faults>>

-----------------------------------------------------------------------------
(* Starting: the lock, or none                                             *)

\* Mutant of AcquireLock: the key is set without NX.
BugLockOverwritten(a) ==
  /\ a \in Workers
  /\ pc[a] = "idle"
  /\ Len(runs) < MaxRuns
  /\ lock' = a
  /\ Goto(a, "discover")
  /\ UNCHANGED <<github, postgres, index, locals, faults>>

\* run_source_sync: a worker that finds the lock taken returns "locked" and
\* changes nothing; one that finds it free keeps it for the whole sync.
AcquireLock(a) ==
  /\ a \in Workers
  /\ pc[a] = "idle"
  /\ Len(runs) < MaxRuns
  /\ lock = Free
  /\ lock' = a
  /\ Goto(a, "discover")
  /\ UNCHANGED <<github, postgres, index, locals, faults>>

\* cli._run_sync: the same service, without the lock.
StartCliSync(a) ==
  /\ a \in Operators
  /\ pc[a] = "idle"
  /\ Len(runs) < MaxRuns
  /\ Goto(a, "discover")
  /\ UNCHANGED <<github, lock, postgres, index, locals, faults>>

\* adopt_snapshot: the lock must be absent, or is deleted by force_unlock; it
\* is not taken.  The payload is a verified manifest: a commit upstream had
\* whose chunks an external indexer has already written.
StartAdoption(a) ==
  /\ a \in Admins
  /\ pc[a] = "idle"
  /\ Len(runs) < MaxRuns
  /\ \E c \in pushed :
       /\ \A p \in Chunked(c) : index[p][c] = c
       /\ manifest' = [manifest EXCEPT ![a] = c]
  /\ \/ lock = Free /\ UNCHANGED lock
     \/ lock # Free /\ lock' = Free     \* force_unlock
  /\ adopting' = [adopting EXCEPT ![a] = TRUE]
  /\ Goto(a, "load_files")
  /\ UNCHANGED <<github, postgres, index, prevSnap, prevFiles, stale, run, todo,
                 session, faults>>

\* The trusted bulk-indexing worker that prepares an adoption: external.
BulkIndex ==
  /\ \E a \in Admins : pc[a] = "idle"
  /\ Len(runs) < MaxRuns
  /\ \E c \in pushed : index' = Upserted(Chunked(c), c)
  /\ UNCHANGED <<github, lock, postgres, pc, locals, faults>>

-----------------------------------------------------------------------------
(* IncrementalSourceSync.sync                                              *)

\* discover: the ref is resolved once; the tree read is that commit's.
Discover(a) ==
  /\ pc[a] = "discover"
  /\ manifest' = [manifest EXCEPT ![a] = head]
  /\ Goto(a, "load_snapshot")
  /\ UNCHANGED <<github, lock, postgres, index, adopting, prevSnap, prevFiles,
                 stale, run, todo, session, faults>>

LoadSnapshot(a) ==
  /\ pc[a] = "load_snapshot"
  /\ prevSnap' = [prevSnap EXCEPT ![a] = snapshot]
  /\ Goto(a, "load_files")
  /\ UNCHANGED <<github, lock, postgres, index, adopting, manifest, prevFiles,
                 stale, run, todo, session, faults>>

LoadFiles(a) ==
  /\ pc[a] = "load_files"
  /\ prevFiles' = [prevFiles EXCEPT ![a] = files]
  /\ Goto(a, "start_read")
  /\ UNCHANGED <<github, lock, postgres, index, adopting, manifest, prevSnap,
                 stale, run, todo, session, faults>>

\* Mutant of StartRunRead: also supersedes runs that have succeeded.
BugSupersedesAll(a) ==
  /\ pc[a] = "start_read"
  /\ stale' = [stale EXCEPT ![a] = {r \in DOMAIN runs : runs[r].status # "failed"}]
  /\ Goto(a, "start_write")
  /\ UNCHANGED <<github, lock, postgres, index, plan, run, todo, session, faults>>

\* start_run is one READ COMMITTED transaction that selects the rows it will
\* fail and then writes them by key: what it read may be old when it writes.
StartRunRead(a) ==
  /\ pc[a] = "start_read"
  /\ stale' = [stale EXCEPT ![a] = {r \in DOMAIN runs : runs[r].status = "running"}]
  /\ Goto(a, "start_write")
  /\ UNCHANGED <<github, lock, postgres, index, plan, run, todo, session, faults>>

\* Mutant of StartRunWrite: records the new snapshot as soon as the run starts.
BugAdvancesEarly(a) ==
  /\ pc[a] = "start_write"
  /\ runs' = Append(runs, [commit |-> manifest[a], status |-> "running"])
  /\ run' = [run EXCEPT ![a] = Len(runs) + 1]
  /\ snapshot' = manifest[a]
  /\ Goto(a, "fetch")
  /\ UNCHANGED <<github, lock, lastRun, files, index, plan, stale, todo, session,
                 faults>>

StartRunWrite(a) ==
  /\ pc[a] = "start_write"
  /\ LET superseded == [r \in DOMAIN runs |->
           IF r \in stale[a] THEN [runs[r] EXCEPT !.status = "failed"] ELSE runs[r]]
     IN  runs' = Append(superseded, [commit |-> manifest[a], status |-> "running"])
  /\ run' = [run EXCEPT ![a] = Len(runs) + 1]
  /\ Goto(a, IF adopting[a] THEN "complete" ELSE "fetch")
  /\ UNCHANGED <<github, lock, snapshot, lastRun, files, index, plan, stale, todo,
                 session, faults>>

\* Mutant of Fetch: clears the modified files' old points before the new exist.
BugDeletesFirst(a) ==
  /\ pc[a] = "fetch"
  /\ todo' = [todo EXCEPT ![a] = (Added(a) \cup Modified(a)) \cap Chunked(manifest[a])]
  /\ index' = Without(Modified(a), manifest[a])
  /\ Goto(a, "index")
  /\ UNCHANGED <<github, lock, postgres, plan, stale, run, session, faults>>

\* fetch_files and chunk_many over the added and modified files.
Fetch(a) ==
  /\ pc[a] = "fetch"
  /\ todo' = [todo EXCEPT ![a] = (Added(a) \cup Modified(a)) \cap Chunked(manifest[a])]
  /\ Goto(a, "index")
  /\ UNCHANGED <<github, lock, postgres, index, plan, stale, run, session, faults>>

\* One embedding batch of HybridRetrievalService.index.
IndexBatch(a) ==
  /\ pc[a] = "index"
  /\ \E batch \in (SUBSET todo[a]) \ {{}} :
       /\ index' = Upserted(batch, manifest[a])
       /\ todo' = [todo EXCEPT ![a] = @ \ batch]
  /\ UNCHANGED <<github, lock, postgres, pc, plan, stale, run, session, faults>>

\* _apply_qdrant_snapshot, request by request.
UpdateUnchanged(a) ==
  /\ pc[a] = "index"
  /\ todo[a] = {}
  /\ index' = IF prevSnap[a] # manifest[a]
                THEN Relabelled(Unchanged(a), manifest[a]) ELSE index
  /\ Goto(a, "delete_modified")
  /\ UNCHANGED <<github, lock, postgres, locals, faults>>

DeleteModified(a) ==
  /\ pc[a] = "delete_modified"
  /\ index' = Without(Modified(a), manifest[a])
  /\ Goto(a, "delete_removed")
  /\ UNCHANGED <<github, lock, postgres, locals, faults>>

DeleteRemoved(a) ==
  /\ pc[a] = "delete_removed"
  /\ index' = Without(Deleted(a), NoCommit)
  /\ Goto(a, "remove_stale")
  /\ UNCHANGED <<github, lock, postgres, locals, faults>>

\* Mutant of RemoveStale: the first managed sync cleans nothing.
BugKeepsStale(a) ==
  /\ pc[a] = "remove_stale"
  /\ Goto(a, "complete")
  /\ UNCHANGED <<github, lock, postgres, index, locals, faults>>

RemoveStale(a) ==
  /\ pc[a] = "remove_stale"
  /\ index' = IF prevSnap[a] = NoCommit THEN Without(Paths, manifest[a]) ELSE index
  /\ Goto(a, "complete")
  /\ UNCHANGED <<github, lock, postgres, locals, faults>>

(* complete_run: one transaction.  Its row locks follow from what it has   *)
(* read and flushed; a rollback needs no step, for nothing is visible      *)
(* before the commit.                                                      *)

\* Mutant of NewRow: an unchanged file's provenance is the snapshot before.
BugProvenanceOfSnapshot(a, p) ==
  IF p \in FilesOf(manifest[a])
    THEN [blob    |-> tree[manifest[a]][p],
          content |-> IF p \in Unchanged(a) THEN prevSnap[a] ELSE manifest[a],
          seen    |-> manifest[a]]
    ELSE NoFile

\* Mutant of NewRow: a modified file keeps its provenance.
BugKeepsProvenance(a, p) ==
  IF p \in FilesOf(manifest[a])
    THEN [blob    |-> tree[manifest[a]][p],
          content |-> IF p \in Stored(a) THEN prevFiles[a][p].content
                                         ELSE manifest[a],
          seen    |-> manifest[a]]
    ELSE NoFile

\* The row complete_run wants for a path: none for one the manifest has not.
NewRow(a, p) ==
  IF p \in FilesOf(manifest[a])
    THEN [blob    |-> tree[manifest[a]][p],
          content |-> IF p \in Unchanged(a) THEN prevFiles[a][p].content
                                            ELSE manifest[a],
          seen    |-> manifest[a]]
    ELSE NoFile

\* The transaction has written the source row: a completion of the snapshot it
\* read there changes no column of it until it commits.
HoldsSource(a) ==
  pc[a] \in {"delete_rows", "rows"} /\ readSource[a] # manifest[a]

\* The rows it has deleted, inserted or updated.
Written(a) ==
  IF pc[a] = "rows"
    THEN {p \in Paths \ (todo[a] \cup unflushed[a]) : readFiles[a][p] # NewRow(a, p)}
    ELSE {}

SourceFree(a) == \A b \in Actors \ {a} : ~HoldsSource(b)
RowFree(a, p) == \A b \in Actors \ {a} : p \notin Written(b)

\* session.get(SourceState)
ReadSource(a) ==
  /\ pc[a] = "complete"
  /\ readSource' = [readSource EXCEPT ![a] = snapshot]
  /\ Goto(a, "write_source")
  /\ UNCHANGED <<github, lock, postgres, index, plan, stale, run, todo, readFiles,
                 unflushed, faults>>

\* An INSERT of a row that is there by now, or an UPDATE of one that is not.
SourceClash(a) == readSource[a] = NoCommit /\ snapshot # NoCommit

RowClash(a, p) ==
  /\ readFiles[a][p] # NewRow(a, p)
  /\ (readFiles[a][p] = NoFile) # (files[p] = NoFile)

\* The source row's flush, if the snapshot changes.
WriteSource(a) ==
  /\ pc[a] = "write_source"
  /\ readSource[a] # manifest[a] => SourceFree(a) /\ ~SourceClash(a)
  /\ Goto(a, "delete_rows")
  /\ UNCHANGED <<github, lock, postgres, index, locals, faults>>

\* Mutant of DeleteRows: deleted paths kept.
BugKeepsDeleted(a) ==
  /\ pc[a] = "delete_rows"
  /\ readFiles' = [readFiles EXCEPT ![a] = NoFiles]
  /\ todo' = [todo EXCEPT ![a] = FilesOf(manifest[a])]
  /\ Goto(a, "rows")
  /\ UNCHANGED <<github, lock, postgres, index, plan, stale, run, readSource,
                 unflushed, faults>>

\* The DELETE of the plan's deleted paths: of the rows that are there.
DeleteRows(a) ==
  /\ pc[a] = "delete_rows"
  /\ \A p \in Deleted(a) : files[p] # NoFile => RowFree(a, p)
  /\ readFiles' = [readFiles EXCEPT ![a] =
                     [p \in Paths |-> IF p \in Deleted(a) THEN files[p] ELSE NoFile]]
  /\ todo' = [todo EXCEPT ![a] = FilesOf(manifest[a])]
  /\ Goto(a, "rows")
  /\ UNCHANGED <<github, lock, postgres, index, plan, stale, run, readSource,
                 unflushed, faults>>

\* Mutant of ReadRow: a row is compared with the plan's copy of it.
BugComparesWithPlan(a) ==
  /\ pc[a] = "rows"
  /\ unflushed[a] = {}
  /\ \E p \in todo[a] :
       /\ readFiles' = [readFiles EXCEPT ![a][p] = prevFiles[a][p]]
       /\ unflushed' = [unflushed EXCEPT ![a] = {p}]
       /\ todo' = [todo EXCEPT ![a] = @ \ {p}]
  /\ UNCHANGED <<github, lock, postgres, index, pc, plan, stale, run, readSource,
                 faults>>

\* session.get(SourceFileState) for the manifest's next path.  The manifest is
\* sorted; here any path may be next, which allows more.
ReadRow(a) ==
  /\ pc[a] = "rows"
  /\ unflushed[a] = {}
  /\ \E p \in todo[a] :
       /\ readFiles' = [readFiles EXCEPT ![a][p] = files[p]]
       /\ unflushed' = [unflushed EXCEPT ![a] = {p}]
       /\ todo' = [todo EXCEPT ![a] = @ \ {p}]
  /\ UNCHANGED <<github, lock, postgres, index, pc, plan, stale, run, readSource,
                 faults>>

\* Its flush, if a column changes.
WriteRow(a) ==
  /\ pc[a] = "rows"
  /\ unflushed[a] # {}
  /\ \A p \in unflushed[a] :
       readFiles[a][p] # NewRow(a, p) => RowFree(a, p) /\ ~RowClash(a, p)
  /\ unflushed' = [unflushed EXCEPT ![a] = {}]
  /\ UNCHANGED <<github, lock, postgres, index, pc, plan, stale, run, todo,
                 readSource, readFiles, faults>>

\* IntegrityError or StaleDataError out of a flush: an exception like another.
Conflict(a) ==
  /\ \/ pc[a] = "write_source" /\ SourceClash(a)
     \/ pc[a] = "rows" /\ \E p \in unflushed[a] : RowClash(a, p)
  /\ Goto(a, "failing")
  /\ UNCHANGED <<github, lock, postgres, index, locals, faults>>

\* What an UPDATE leaves of a row: the columns that differed from the row it
\* read are new, the others as somebody may have committed them since.
Column(read, new, now) == IF new # read THEN new ELSE now

Merged(read, new, now) ==
  IF NoFile \in {read, new} THEN new
  ELSE [blob    |-> Column(read.blob, new.blob, now.blob),
        content |-> Column(read.content, new.content, now.content),
        seen    |-> Column(read.seen, new.seen, now.seen)]

\* The commit, after the flush of the run and of last_successful_run_id, which
\* waits for the source row.  The run's status write looks at no status.  If the
\* commit's acknowledgement is lost the caller sees an exception.
CompleteRun(a) ==
  /\ pc[a] = "rows"
  /\ todo[a] \cup unflushed[a] = {}
  /\ SourceFree(a)
  /\ files' = [p \in Paths |->
                 IF p \in Written(a)
                 THEN Merged(readFiles[a][p], NewRow(a, p), files[p]) ELSE files[p]]
  /\ snapshot' = Column(readSource[a], manifest[a], snapshot)
  /\ lastRun' = run[a]
  /\ runs' = [runs EXCEPT ![run[a]].status = "succeeded"]
  /\ \/ Goto(a, "release")
     \/ CommitAckMayBeLost /\ Goto(a, "failing")
  /\ UNCHANGED <<github, lock, index, locals, faults>>

-----------------------------------------------------------------------------
(* Failure, interruption, crash, release                                   *)

\* An exception inside the try block (GitHub, embedding, Qdrant, PostgreSQL,
\* which also ends one of the transactions that wait for each other).
RaiseInRun(a) ==
  /\ pc[a] \in Guarded
  /\ Fault
  /\ Goto(a, "failing")
  /\ UNCHANGED <<github, lock, postgres, index, locals>>

\* fail_run, then the exception is re-raised.
FailRun(a) ==
  /\ pc[a] = "failing"
  /\ runs' = [runs EXCEPT ![run[a]].status = "failed"]
  /\ Goto(a, "release")
  /\ UNCHANGED <<github, lock, snapshot, lastRun, files, index, locals, faults>>

\* An exception before the try block, one raised by fail_run itself, or an
\* interrupt that `except Exception` does not catch (Dramatiq's time limit):
\* the run row is left as it is, the finally block still runs.
Unwind(a) ==
  /\ pc[a] \notin {"idle", "release"}
  /\ Fault
  /\ Goto(a, "release")
  /\ UNCHANGED <<github, lock, postgres, index, locals>>

\* The process dies: no handler runs, a lock it held stays until its TTL.
Crash(a) ==
  /\ pc[a] # "idle"
  /\ Fault
  /\ ForgetLocals(a)
  /\ lock' = IF lock = a THEN Orphan ELSE lock
  /\ UNCHANGED <<github, postgres, index>>

\* lock.release(): a token that is no longer ours raises LockNotOwnedError,
\* which is logged.  Operators and administrators have nothing to release.
Release(a) ==
  /\ pc[a] = "release"
  /\ ForgetLocals(a)
  /\ lock' = IF lock = a THEN Free ELSE lock
  /\ UNCHANGED <<github, postgres, index, faults>>

\* Redis expires the key.
ExpireLock ==
  /\ lock = Orphan \/ (lock # Free /\ ~LockOutlivesTask)
  /\ lock' = Free
  /\ UNCHANGED <<github, postgres, index, pc, locals, faults>>

-----------------------------------------------------------------------------
SyncStep(a) ==
  \/ AcquireLock(a) \/ StartCliSync(a) \/ StartAdoption(a)
  \/ Discover(a) \/ LoadSnapshot(a) \/ LoadFiles(a)
  \/ StartRunRead(a) \/ StartRunWrite(a)
  \/ Fetch(a) \/ IndexBatch(a)
  \/ UpdateUnchanged(a) \/ DeleteModified(a) \/ DeleteRemoved(a) \/ RemoveStale(a)
  \/ ReadSource(a) \/ WriteSource(a) \/ DeleteRows(a) \/ ReadRow(a) \/ WriteRow(a)
  \/ Conflict(a) \/ CompleteRun(a)
  \/ RaiseInRun(a) \/ FailRun(a) \/ Unwind(a) \/ Crash(a) \/ Release(a)

Next ==
  \/ Push
  \/ ResetRef
  \/ BulkIndex
  \/ ExpireLock
  \/ \E a \in Actors : SyncStep(a)

Spec == Init /\ [][Next]_vars

-----------------------------------------------------------------------------
(* Properties                                                              *)

TypeOK ==
  /\ tree \in [Commits -> Trees]
  /\ pushed \subseteq Commits
  /\ head \in pushed
  /\ lock \in Workers \cup {Free, Orphan}
  /\ snapshot \in Commits \cup {NoCommit}
  /\ lastRun \in Nat
  /\ files \in [Paths -> FileRow]
  /\ runs \in Seq(RunRow)
  /\ index \in Points
  /\ pc \in [Actors -> Phases]
  /\ adopting \in [Actors -> BOOLEAN]
  /\ manifest \in [Actors -> Commits \cup {NoCommit}]
  /\ prevSnap \in [Actors -> Commits \cup {NoCommit}]
  /\ prevFiles \in [Actors -> [Paths -> FileRow]]
  /\ stale \in [Actors -> SUBSET Nat]
  /\ run \in [Actors -> Nat]
  /\ todo \in [Actors -> SUBSET Paths]
  /\ readSource \in [Actors -> Commits \cup {NoCommit}]
  /\ readFiles \in [Actors -> [Paths -> FileRow]]
  /\ unflushed \in [Actors -> SUBSET Paths]
  /\ faults \in Nat

\* The file list of a snapshot; nothing when there is none.
Catalog == [p \in Paths |-> files[p].blob]

CatalogOf(c) == IF c = NoCommit THEN [p \in Paths |-> NoBlob] ELSE tree[c]

\* source_file_state lists exactly the files of source_state's snapshot, at
\* every moment: complete_run writes both in one transaction, but from a plan
\* made before the fetch, so this needs nobody to write in between.
StateMatchesManifest == Catalog = CatalogOf(snapshot)

\* content_commit_sha, which citations are pinned to, is a commit that holds
\* exactly the file's bytes, however many unchanged snapshots ago it was
\* fetched (docs/incremental-ingestion.md, "Snapshot versus content commit").
CitationsPinned ==
  \A p \in Paths : files[p].blob # NoBlob =>
    /\ files[p].content \in pushed
    /\ tree[files[p].content][p] = files[p].blob

\* The index holds one copy of every chunked file the state lists, fetched at
\* its content commit and labelled with the current snapshot, and nothing else.
IndexExact ==
  \A p \in Paths, c \in Commits :
    index[p][c] = IF /\ files[p].content = c
                     /\ files[p].blob \notin Chunkless
                  THEN snapshot ELSE NoCommit

InRun(a) == pc[a] \in Guarded \cup {"failing"}

Quiet == \A a \in Actors : ~InRun(a)

LastRunSucceeded == runs # <<>> /\ runs[Len(runs)].status = "succeeded"

\* Since the first success, a run that did not succeed was followed by one of
\* the same commit: the upstream ref did not move between failure and retry.
RetriedInPlace ==
  \A r \in 1 .. Len(runs) - 1 :
    /\ \E s \in 1 .. r - 1 : runs[s].status = "succeeded"
    /\ runs[r].status # "succeeded"
    => runs[r + 1].commit = runs[r].commit

\* Recovery without a distributed transaction: whatever a run left half done
\* in Qdrant when it failed, was interrupted or crashed, the successful retry
\* of the same commit leaves the index exactly as the state describes it.
RetryRepairs ==
  Quiet /\ LastRunSucceeded /\ RetriedInPlace => IndexExact

\* New points are written before old ones are deleted, so a file that is in
\* the current snapshot and stays in the next one has points at every moment
\* of a sync, and after a failed one.
NoRetrievalGap ==
  snapshot # NoCommit /\ RetriedInPlace =>
    \A p \in Chunked(snapshot) \cap Chunked(runs[Len(runs)].commit) :
      \E c \in Commits : index[p][c] # NoCommit

\* source_state's last_successful_run_id names a run of its snapshot that the
\* audit table records as succeeded.
LastRunAgrees ==
  snapshot # NoCommit =>
    /\ lastRun \in DOMAIN runs
    /\ runs[lastRun] = [commit |-> snapshot, status |-> "succeeded"]

\* A run's outcome is final: once failed or succeeded its row keeps that
\* status, through supersession by start_run, complete_run and fail_run.
OutcomesFinal ==
  [][\A r \in DOMAIN runs :
       runs[r].status # "running" => runs'[r].status = runs[r].status]_vars

\* Without the lock, plans go stale, rows are read one by one and runs write
\* only the columns they saw differ.  Still a commit that moves the snapshot is
\* whole: the run it credits is of that commit, and every file of the commit is
\* listed as that commit has it, whatever others committed since its plan.
PublishesItsFiles ==
  [][snapshot' # snapshot =>
       /\ lastRun' \in DOMAIN runs' /\ runs'[lastRun'].commit = snapshot'
       /\ \A p \in FilesOf(snapshot') :
            files'[p].blob = tree[snapshot'][p] /\ files'[p].seen = snapshot']_vars

\* And a row that two runs have mixed still cites, and was last seen in,
\* commits upstream has had and that have the file.
CitedFilesExist ==
  \A p \in Paths : files[p].blob # NoBlob =>
    \A c \in {files[p].content, files[p].seen} :
      c \in pushed /\ tree[c][p] # NoBlob

\* The promise of SnapshotPublication, kept by a catalog without provenance.
Publication == INSTANCE SnapshotPublication WITH
                 published <- snapshot, catalog <- Catalog

\* Under the source lock a sync publishes a commit's whole file list in one
\* step or nothing at all, whatever the run does before, after and around it.
PublishesSnapshots == Publication!Spec
=============================================================================
