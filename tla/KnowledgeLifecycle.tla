------------------------- MODULE KnowledgeLifecycle -------------------------
(***************************************************************************)
(* What happens to one source's knowledge between and around its syncs:    *)
(* the embedding model is changed, `tractusmind-ingest index` writes to    *)
(* Qdrant behind PostgreSQL's back, a backup is taken while a sync runs    *)
(* and is restored later, and the corpus contract is asked whether index   *)
(* and catalogue agree.                                                    *)
(*                                                                         *)
(* A sync runs under the source lock, its requests to Qdrant one by one;   *)
(* its races with other syncs are SourceSync's subject.  Here the followed *)
(* ref only moves forward and a file's content never comes back: the       *)
(* content is named by the commit that brought it.                         *)
(***************************************************************************)
EXTENDS Naturals, FiniteSets

CONSTANTS
    Paths,          \* selected file paths
    Models,         \* embedding model identities
    IndexOverlaps,  \* an operator may run the index command during a sync
    MaxCommits,     \* bound: commits pushed
    MaxJobs,        \* bound: syncs and index commands
    MaxEvents       \* bound: whatever is not a commit or a sync

ASSUME KnowledgeAssumption ==
    /\ IsFiniteSet(Paths) /\ IndexOverlaps \in BOOLEAN
    /\ MaxCommits \in Nat /\ MaxJobs \in Nat /\ MaxEvents \in Nat

VARIABLES
    tree,           \* GitHub: commit -> path -> the commit that brought the content, or 0
    head,           \* the commit the followed ref is at, 0 before the first
    catalog,        \* PostgreSQL: source_state, source_file_state, last run
    collections,    \* Qdrant: the models whose collection exists
    points,         \* Qdrant: [model, path, at, label]
    model,          \* settings.embedding_model of the running processes
    sync,           \* the sync that holds the source lock
    indexer,        \* the index command
    backup,         \* the backup being generated
    archive,        \* the last backup downloaded
    inspection,     \* inspect_full_corpus
    jobs, events    \* counters for MaxJobs and MaxEvents

github == <<tree, head>>
qdrant == <<collections, points>>
bounds == <<jobs, events>>
vars   == <<github, catalog, qdrant, model, sync, indexer, backup, archive, inspection, bounds>>

-----------------------------------------------------------------------------
(* Data.                                                                   *)

Commits == 1 .. MaxCommits
Contents == [Paths -> 0 .. MaxCommits]
NoContents == [p \in Paths |-> 0]
FilesOf(contents) == {p \in Paths : contents[p] # 0}

\* by, along: not stored anywhere.  The models whose collection every publication
\* up to this catalogue went to, and those of them whose collection has not since
\* followed catalogues that were published with another model.
Catalogs == [snapshot : 0 .. MaxCommits, files : Contents,
             run : {"none", "succeeded", "failed"}, by : SUBSET Models, along : SUBSET Models]
NoCatalog == [snapshot |-> 0, files |-> NoContents, run |-> "none", by |-> Models, along |-> Models]

\* at: the commit the chunk was fetched at; label: its snapshot_commit_sha.
Points == [model : Models, path : Paths, at : Commits, label : Commits]
Chunk(p, c) == [model |-> model, path |-> p, at |-> c, label |-> c]

\* The collection named after the configured model.
Current == {x \in points : x.model = model}
OtherCollections == points \ Current
HasCollection == model \in collections

\* A catalogue is served when each of its files is found, with its content,
\* among the points labelled with its snapshot.
Serves(c) ==
    \A p \in FilesOf(c.files) :
        \E x \in Current : x.path = p /\ x.label = c.snapshot /\ tree[x.at][p] = c.files[p]

\* An index is exact when it holds nothing else.
Exact(c) ==
    /\ Serves(c)
    /\ \A x \in Current : x.label = c.snapshot /\ tree[x.at][x.path] = c.files[x.path]

Idle == [phase |-> "idle"]

Init ==
    /\ tree = [c \in Commits |-> NoContents]
    /\ head = 0
    /\ catalog = NoCatalog
    /\ collections = {} /\ points = {}
    /\ model \in Models
    /\ sync = Idle /\ indexer = Idle /\ backup = Idle /\ inspection = Idle
    /\ archive = Idle
    /\ jobs = 0 /\ events = 0

\* Something out of the ordinary.
Event == events < MaxEvents /\ events' = events + 1

\* A commit that changes, adds or deletes files is pushed.
Push ==
    /\ head < MaxCommits
    /\ head' = head + 1
    /\ \E changed \in SUBSET Paths : \E gone \in SUBSET (Paths \ changed) :
        tree' = [tree EXCEPT ![head + 1] = [p \in Paths |->
                    IF p \in gone THEN 0 ELSE IF p \in changed \/ head = 0 THEN head + 1
                    ELSE tree[head][p]]]
    /\ UNCHANGED <<catalog, qdrant, model, sync, indexer, backup, archive, inspection, bounds>>

-----------------------------------------------------------------------------
(* A sync under the lock.                                                  *)

\* Discovery, and build_incremental_plan against the catalogue.
StartSync ==
    /\ sync.phase = "idle" /\ head > 0
    /\ indexer.phase = "idle" \/ IndexOverlaps
    /\ jobs < MaxJobs /\ jobs' = jobs + 1
    /\ LET new == FilesOf(tree[head])
           old == FilesOf(catalog.files)
           same == {p \in new : catalog.files[p] = tree[head][p]}
       IN  sync' = [phase |-> "index", to |-> head, from |-> catalog.snapshot, todo |-> new \ same,
                    unchanged |-> same, modified |-> (new \cap old) \ same, deleted |-> old \ new]
    /\ UNCHANGED <<github, catalog, qdrant, model, indexer, backup, archive, inspection, events>>

\* The points of some paths, of the configured collection, but those labelled keep.
PointsOf(paths, keep) == {x \in Current : x.path \in paths /\ x.label # keep}

\* upsert_chunks: a point's id is a hash of its path and commit.
Upserted(paths, c) == {x \in points : ~(x \in Current /\ x.path \in paths /\ x.at = c)} \cup {Chunk(p, c) : p \in paths}

\* update_source_snapshot: set_payload on every point of the paths.
Relabelled(paths, c) == (points \ PointsOf(paths, 0)) \cup {[x EXCEPT !.label = c] : x \in PointsOf(paths, 0)}

\* Mutant of EnsureCollection: the collection is expected to be there.
BugEnsureCollection == UNCHANGED collections

EnsureCollection == collections' = collections \cup {model}

\* One embedding batch; ensure_collection precedes the first.
IndexBatch ==
    /\ sync.phase = "index"
    /\ \E batch \in (SUBSET sync.todo) \ {{}} :
        /\ points' = Upserted(batch, sync.to)
        /\ sync' = [sync EXCEPT !.todo = @ \ batch]
    /\ EnsureCollection
    /\ UNCHANGED <<github, catalog, model, indexer, backup, archive, inspection, bounds>>

\* A request of _apply_qdrant_snapshot, which the code makes only if needed:
\* Qdrant refuses it when the collection does not exist, and the run fails.
Request(phase, next, needed, result) ==
    /\ sync.phase = phase
    /\ IF needed /\ ~HasCollection
       THEN sync' = Idle /\ UNCHANGED points
       ELSE sync' = [sync EXCEPT !.phase = next] /\ points' = IF needed THEN result ELSE points
    /\ UNCHANGED <<github, catalog, collections, model, indexer, backup, archive, inspection, bounds>>

UpdateUnchanged ==
    /\ sync.phase = "index" => sync.todo = {}
    /\ Request("index", "delete_modified", sync.from # sync.to /\ sync.unchanged # {},
               Relabelled(sync.unchanged, sync.to))

DeleteModified ==
    Request("delete_modified", "delete_removed", sync.modified # {},
            points \ PointsOf(sync.modified, sync.to))

DeleteRemoved ==
    Request("delete_removed", "remove_stale", sync.deleted # {}, points \ PointsOf(sync.deleted, 0))

RemoveStale ==
    Request("remove_stale", "complete", sync.from = 0, points \ PointsOf(Paths, sync.to))

\* complete_run.  If its commit is not acknowledged, the run is marked failed.
CompleteRun ==
    /\ sync.phase = "complete"
    /\ \E run \in {"succeeded", "failed"} :
        /\ IF run = "failed" THEN Event ELSE UNCHANGED events
        /\ catalog' = [snapshot |-> sync.to, files |-> tree[sync.to], run |-> run,
                       by |-> catalog.by \cap {model}, along |-> catalog.along \cap {model}]
        /\ sync' = [sync EXCEPT !.phase = "published"]
    /\ UNCHANGED <<github, qdrant, model, indexer, backup, archive, inspection, jobs>>

\* The lock is released.
Release ==
    /\ sync.phase = "published"
    /\ sync' = Idle
    /\ UNCHANGED <<github, catalog, qdrant, model, indexer, backup, archive, inspection, bounds>>

\* Any request of the sync fails, or its process dies.
SyncFails ==
    /\ sync.phase \notin {"idle", "published"}
    /\ Event
    /\ sync' = Idle
    /\ UNCHANGED <<github, catalog, qdrant, model, indexer, backup, archive, inspection, jobs>>

-----------------------------------------------------------------------------
(* tractusmind-ingest index: HybridRetrievalService.index over the head's  *)
(* files, or with --limit over some of them.  It takes no lock.            *)

StartIndex ==
    /\ indexer.phase = "idle" /\ head > 0
    /\ sync.phase = "idle" \/ IndexOverlaps
    /\ Event
    /\ jobs < MaxJobs /\ jobs' = jobs + 1
    /\ \E chosen \in (SUBSET FilesOf(tree[head])) \ {{}}, limited \in BOOLEAN :
        /\ ~limited => chosen = FilesOf(tree[head])
        /\ indexer' = [phase |-> "index", to |-> head, todo |-> chosen, limited |-> limited]
    /\ UNCHANGED <<github, catalog, qdrant, model, sync, backup, archive, inspection>>

IndexCommandBatch ==
    /\ indexer.phase = "index"
    /\ \E batch \in (SUBSET indexer.todo) \ {{}} :
        /\ points' = Upserted(batch, indexer.to)
        /\ indexer' = [indexer EXCEPT !.todo = @ \ batch]
    /\ EnsureCollection
    /\ UNCHANGED <<github, catalog, model, sync, backup, archive, inspection, bounds>>

\* Only an unlimited index removes the stale versions.  PostgreSQL is told nothing.
FinishIndex ==
    /\ indexer.phase = "index" /\ indexer.todo = {}
    /\ points' = IF indexer.limited THEN points ELSE points \ PointsOf(Paths, indexer.to)
    /\ indexer' = Idle
    /\ UNCHANGED <<github, catalog, collections, model, sync, backup, archive, inspection, bounds>>

IndexFails ==
    /\ indexer.phase = "index"
    /\ Event
    /\ indexer' = Idle
    /\ UNCHANGED <<github, catalog, qdrant, model, sync, backup, archive, inspection, jobs>>

-----------------------------------------------------------------------------
(* Backups, restores and model changes.                                    *)

\* download_system_backup: one at a time; another is answered 409.
DumpPostgres ==
    /\ backup.phase = "idle"
    /\ archive.phase = "idle"       \* bound: one backup
    /\ Event
    /\ backup' = [phase |-> "dumped", catalog |-> catalog]
    /\ UNCHANGED <<github, catalog, qdrant, model, sync, indexer, archive, inspection, jobs>>

\* What build_backup_archive puts together.
Archive(dump) == [phase |-> "kept", catalog |-> dump, collections |-> collections, points |-> points]

\* The full-storage snapshot: every collection, at a later moment.
SnapshotQdrant ==
    /\ backup.phase = "dumped"
    /\ archive' = Archive(backup.catalog)
    /\ backup' = Idle
    /\ UNCHANGED <<github, catalog, qdrant, model, sync, indexer, inspection, bounds>>

\* pg_dump or Qdrant fails: 503, and the working directory is removed.
BackupFails ==
    /\ backup.phase = "dumped"
    /\ Event
    /\ backup' = Idle
    /\ UNCHANGED <<github, catalog, qdrant, model, sync, indexer, archive, inspection, jobs>>

Stopped == sync.phase = "idle" /\ indexer.phase = "idle" /\ inspection.phase = "idle" /\ backup.phase = "idle"

\* Mutant of Restore: only Qdrant's half.
BugRestoresIndexOnly ==
    /\ Stopped /\ archive.phase = "kept"
    /\ Event
    /\ collections' = archive.collections /\ points' = archive.points
    /\ UNCHANGED <<github, catalog, model, sync, indexer, backup, archive, inspection, jobs>>

\* restore-postgres.sh, with or without Qdrant's half of the archive.
Restore ==
    /\ Stopped /\ archive.phase = "kept"
    /\ Event
    /\ \/ catalog' = [archive.catalog EXCEPT !.along = @ \cap catalog.along] /\ UNCHANGED qdrant
       \/ /\ catalog' = archive.catalog
          /\ collections' = archive.collections /\ points' = archive.points
    /\ UNCHANGED <<github, model, sync, indexer, backup, archive, inspection, jobs>>

\* The processes are restarted with another embedding model.
ChangeModel ==
    /\ Stopped
    /\ Event
    /\ model' \in Models \ {model}
    /\ UNCHANGED <<github, catalog, qdrant, sync, indexer, backup, archive, inspection, jobs>>

-----------------------------------------------------------------------------
(* The corpus contract.                                                    *)

\* inspect_full_corpus: the status and its run from PostgreSQL ...
ReadStatus ==
    /\ inspection.phase = "idle" /\ catalog.snapshot # 0
    /\ Event
    /\ inspection' = [phase |-> "read", catalog |-> catalog]
    /\ UNCHANGED <<github, catalog, qdrant, model, sync, indexer, backup, archive, jobs>>

\* _count_chunks: the source's chunks with one of these labels.
Counted(labels) == Cardinality({x \in Current : x.label \in labels})

\* ... then how many chunks the source has in the collection ...  served and
\* exact: what was true of the index at this moment, for the properties.
CountTotal ==
    /\ inspection.phase = "read"
    /\ inspection' = [phase |-> "counted", catalog |-> inspection.catalog,
                      exists |-> HasCollection, total |-> Counted(Commits),
                      served |-> Serves(inspection.catalog), exact |-> Exact(inspection.catalog)]
    /\ UNCHANGED <<github, catalog, qdrant, model, sync, indexer, backup, archive, bounds>>

\* Mutant of Satisfied: chunks of other snapshots are not looked for.
BugSatisfied(i, current) ==
    /\ i.exists
    /\ FilesOf(i.catalog.files) # {}
    /\ i.catalog.run = "succeeded"
    /\ current > 0

\* evaluate_corpus_contract for the source; what it compares with the registry
\* does not change here.
Satisfied(i, current) ==
    /\ i.exists
    /\ FilesOf(i.catalog.files) # {}
    /\ i.catalog.run = "succeeded"
    /\ current > 0
    /\ i.total <= current        \* max(0, total - current) is 0

\* ... and, later, how many of them carry the snapshot; with --verify-upstream
\* the snapshot must also be the one the ref is at.  A violation ends it.
CountCurrent ==
    /\ inspection.phase = "counted"
    /\ LET current == Counted({inspection.catalog.snapshot})
       IN  \E upstream \in BOOLEAN :
            inspection' = IF Satisfied(inspection, current) /\ (upstream => inspection.catalog.snapshot = head)
                          THEN [inspection EXCEPT !.phase = "passed"] ELSE Idle
    /\ UNCHANGED <<github, catalog, qdrant, model, sync, indexer, backup, archive, bounds>>

Report ==
    /\ inspection.phase = "passed"
    /\ inspection' = Idle
    /\ UNCHANGED <<github, catalog, qdrant, model, sync, indexer, backup, archive, bounds>>

-----------------------------------------------------------------------------
Next ==
    \/ Push
    \/ StartSync \/ IndexBatch \/ UpdateUnchanged \/ DeleteModified \/ DeleteRemoved \/ RemoveStale
    \/ CompleteRun \/ Release \/ SyncFails
    \/ StartIndex \/ IndexCommandBatch \/ FinishIndex \/ IndexFails
    \/ DumpPostgres \/ SnapshotQdrant \/ BackupFails \/ Restore \/ ChangeModel
    \/ ReadStatus \/ CountTotal \/ CountCurrent \/ Report

Spec == Init /\ [][Next]_vars

-----------------------------------------------------------------------------
(* Properties.                                                             *)

TypeOK ==
    /\ tree \in [Commits -> Contents] /\ head \in 0 .. MaxCommits
    /\ catalog \in Catalogs
    /\ collections \subseteq Models /\ points \subseteq Points
    /\ \A x \in points : x.model \in collections
    /\ model \in Models
    /\ jobs \in 0 .. MaxJobs /\ events \in 0 .. MaxEvents

\* When a sync has published a catalogue, every file of it can be found with
\* its content, whatever was restored, failed or indexed by hand before: of a
\* backup, the PostgreSQL half is never ahead of the Qdrant half, so a sync
\* after a restore fetches all that is missing (backup_ops.py, sync.py).  An
\* index command during the sync, or a publication made with another model,
\* takes the guarantee away.
PublishedIsServed ==
    sync.phase = "published" /\ model \in catalog.by => Serves(catalog)

\* When an inspection passes, the catalogue it read was served completely at
\* the moment the chunks were counted, although it reads PostgreSQL first and
\* counts twice while syncs go on (evaluation/corpus.py).  It takes more than
\* PublishedIsServed: once PostgreSQL alone has been restored, the index must
\* not have followed the catalogues of another model in between.
PassedWasServed ==
    inspection.phase = "passed" /\ model \in inspection.catalog.along => inspection.served

\* "A stale or incomplete corpus cannot produce a valid full-corpus quality
\* run" (docs/quality-gate.md:164): what passes the contract is exact.
PassedWasExact == inspection.phase = "passed" => inspection.exact

=============================================================================
