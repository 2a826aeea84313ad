-------------------------- MODULE KnowledgeProofs --------------------------
(***************************************************************************)
(* From a document to an answerable index: the sections and windows a      *)
(* document is cut into lose nothing, no two chunks take one id, each can  *)
(* be traced to its lines and headings, and chunking ends; a published     *)
(* catalogue is served, and the corpus contract passes only a served one,  *)
(* whatever fails, is restored or is indexed by hand in between.           *)
(***************************************************************************)
EXTENDS KnowledgeLifecycle, Chunking, FiniteSetTheorems, SequenceTheorems, WellFoundedInduction, TLAPS

-----------------------------------------------------------------------------
(* Types.                                                                  *)

Phases == {"index", "delete_modified", "delete_removed", "remove_stale", "complete", "published"}
Syncs == [phase : Phases, to : Commits, from : 0 .. MaxCommits, todo : SUBSET Paths,
          unchanged : SUBSET Paths, modified : SUBSET Paths, deleted : SUBSET Paths]
Indexers == [phase : {"index"}, to : Commits, todo : SUBSET Paths, limited : BOOLEAN]
Backups == [phase : {"dumped"}, catalog : Catalogs]
Archives == [phase : {"kept"}, catalog : Catalogs, collections : SUBSET Models, points : SUBSET Points]
Readings == [phase : {"read"}, catalog : Catalogs]
Countings == [phase : {"counted", "passed"}, catalog : Catalogs, exists : BOOLEAN, total : Nat,
              served : BOOLEAN, exact : BOOLEAN]

\* The points of a storage are of its collections, and finitely many.
Stored(pts, names) == IsFiniteSet(pts) /\ \A x \in pts : x.model \in names

LocalsOK ==
    /\ sync \in {Idle} \cup Syncs
    /\ indexer \in {Idle} \cup Indexers
    /\ backup \in {Idle} \cup Backups
    /\ archive \in {Idle} \cup Archives
    /\ archive # Idle => Stored(archive.points, archive.collections)
    /\ inspection \in {Idle} \cup Readings \cup Countings
    /\ Stored(points, collections)

Typed == TypeOK /\ LocalsOK

-----------------------------------------------------------------------------
(* The inductive invariant, of a system whose index commands and syncs do  *)
(* not overlap.  What it says of catalogues and points is stated for any   *)
(* catalogue c, model m, set of points pts, history of commits trees and   *)
(* newest indexed commit now.                                              *)

\* The newest commit anything has been indexed at: no label is newer, and the
\* labels written from now on are not older.
Latest == IF sync.phase # "idle" THEN sync.to
          ELSE IF indexer.phase # "idle" THEN indexer.to ELSE head

\* A path's content stays, is deleted, or is brought by a newer commit.
TreesOK(trees, last) ==
    \A c, d \in 1 .. last : c <= d => \A p \in Paths :
        trees[c][p] <= c /\ (trees[d][p] = trees[c][p] \/ trees[d][p] = 0 \/ trees[d][p] > c)

PointsOK(pts, trees, now) ==
    \A x \in pts : x.at <= now /\ x.label <= now /\ x.path \in FilesOf(trees[x.label])

\* A file of the catalogue that has not changed since is in the index, with a
\* label that may be newer.
Kept(c, m, pts, trees, now) ==
    \A p \in FilesOf(c.files) : trees[now][p] = c.files[p] =>
        \E x \in pts : x.model = m /\ x.path = p /\ x.label >= c.snapshot /\ trees[x.at][p] = c.files[p]

ServedBy(c, m, pts, trees) ==
    \A p \in FilesOf(c.files) :
        \E x \in pts : x.model = m /\ x.path = p /\ x.label = c.snapshot /\ trees[x.at][p] = c.files[p]

Gone(c, m, pts) == \A x \in pts : x.model = m => x.label # c.snapshot

\* A catalogue that is not served gives itself away: by a newer label, or by no
\* label of its own.
Telling(c, m, pts, trees) ==
    ServedBy(c, m, pts, trees) \/ (\E x \in pts : x.model = m /\ x.label > c.snapshot) \/ Gone(c, m, pts)

Pinned(c, trees) == c.files = IF c.snapshot = 0 THEN NoContents ELSE trees[c.snapshot]

\* A catalogue c that is or was that of the source, which is now cat.
CopyOK(c, cat, pts, trees, now) ==
    /\ Pinned(c, trees)
    /\ c.along \subseteq c.by
    /\ c.snapshot <= cat.snapshot
    /\ \A m \in c.by : Kept(c, m, pts, trees, now)
    /\ c.snapshot < cat.snapshot => \A m \in c.along \cap cat.along : Gone(c, m, pts)

CatalogOK ==
    /\ catalog.snapshot <= Latest
    /\ CopyOK(catalog, catalog, points, tree, Latest)
    /\ \A m \in catalog.along : Telling(catalog, m, points, tree)

BackupOK ==
    backup.phase # "idle" =>
        /\ CopyOK(backup.catalog, catalog, points, tree, Latest)
        /\ \A m \in backup.catalog.along : Telling(backup.catalog, m, points, tree)
        /\ model \in backup.catalog.along => model \in catalog.along

ArchiveOK ==
    archive.phase # "idle" =>
        /\ CopyOK(archive.catalog, catalog, points, tree, Latest)
        /\ PointsOK(archive.points, tree, Latest)
        /\ \A m \in archive.catalog.by : Kept(archive.catalog, m, archive.points, tree, Latest)
        /\ \A m \in archive.catalog.along : Telling(archive.catalog, m, archive.points, tree)

\* Of an inspection under way.  Once an index that does not serve the catalogue
\* has been counted, the chunks of its snapshot stay too few.
InspectionOK ==
    inspection.phase # "idle" =>
        LET c == inspection.catalog
        IN  /\ CopyOK(c, catalog, points, tree, Latest)
            /\ model \in c.along => model \in catalog.along
            /\ inspection.phase = "counted" /\ model \in c.along /\ ~inspection.served =>
                /\ c.snapshot < Latest
                /\ Counted({c.snapshot}) < inspection.total \/ Counted({c.snapshot}) = 0

\* What the sync has done by its place in the code.
Written(paths, c, pts) == \A p \in paths : Chunk(p, c) \in pts
Cleared(paths, c, pts) == \A x \in pts : x.model = model /\ x.path \in paths => x.label = c
Past(phases) == sync.phase \notin phases

PlanOK ==
    LET new == FilesOf(tree[sync.to])
        old == FilesOf(catalog.files)
    IN  /\ sync.from = catalog.snapshot
        /\ sync.unchanged = {p \in new : catalog.files[p] = tree[sync.to][p]}
        /\ sync.modified = (new \cap old) \ sync.unchanged
        /\ sync.deleted = old \ new

Progress ==
    LET changed == FilesOf(tree[sync.to]) \ sync.unchanged
    IN  /\ sync.todo \subseteq changed
        /\ sync.phase # "index" => sync.todo = {}
        /\ Written(changed \ sync.todo, sync.to, points)
        /\ Past({"index"}) /\ sync.from # sync.to => Cleared(sync.unchanged, sync.to, points)
        /\ Past({"index", "delete_modified"}) => Cleared(sync.modified, sync.to, points)
        /\ Past({"index", "delete_modified", "delete_removed"}) => Cleared(sync.deleted, sync.to, points)

SyncOK ==
    sync.phase # "idle" =>
        /\ sync.to <= head /\ indexer.phase = "idle"
        /\ sync.phase # "published" => PlanOK /\ Progress

IndexerOK ==
    indexer.phase # "idle" =>
        /\ indexer.to <= head
        /\ indexer.todo \subseteq FilesOf(tree[indexer.to])
        /\ ~indexer.limited =>
            /\ FilesOf(tree[indexer.to]) # {}
            /\ Written(FilesOf(tree[indexer.to]) \ indexer.todo, indexer.to, points)

\* What holds of the index and the catalogues, whoever is at work.
CopiesInv ==
    /\ TreesOK(tree, head) /\ PointsOK(points, tree, Latest)
    /\ CatalogOK /\ BackupOK /\ ArchiveOK /\ InspectionOK

KnowledgeInv == CopiesInv /\ SyncOK /\ IndexerOK /\ PublishedIsServed /\ PassedWasServed

-----------------------------------------------------------------------------
(* Every variable keeps its type, whatever overlaps.                       *)

LEMMA SyncFields ==
    ASSUME LocalsOK, sync.phase # "idle"
    PROVE  /\ sync \in Syncs /\ sync.to \in Commits /\ sync.from \in 0 .. MaxCommits
           /\ sync.todo \subseteq Paths /\ sync.unchanged \subseteq Paths
           /\ sync.modified \subseteq Paths /\ sync.deleted \subseteq Paths
<1>1. sync \in Syncs
  BY DEF LocalsOK, Idle
<1> QED
  BY <1>1 DEF Syncs

LEMMA IndexerFields ==
    ASSUME LocalsOK, indexer.phase # "idle"
    PROVE  /\ indexer \in Indexers /\ indexer.to \in Commits /\ indexer.phase = "index"
           /\ indexer.todo \subseteq Paths /\ indexer.limited \in BOOLEAN
<1>1. indexer \in Indexers
  BY DEF LocalsOK, Idle
<1> QED
  BY <1>1 DEF Indexers

LEMMA BackupFields ==
    ASSUME LocalsOK, backup.phase # "idle"
    PROVE  backup \in Backups /\ backup.catalog \in Catalogs /\ backup.phase = "dumped"
<1>1. backup \in Backups
  BY DEF LocalsOK, Idle
<1> QED
  BY <1>1 DEF Backups

LEMMA ArchiveFields ==
    ASSUME LocalsOK, archive.phase # "idle"
    PROVE  /\ archive \in Archives /\ archive.catalog \in Catalogs /\ archive.phase = "kept"
           /\ archive.collections \subseteq Models /\ archive.points \subseteq Points
           /\ Stored(archive.points, archive.collections)
<1>1. archive \in Archives /\ archive # Idle
  BY DEF LocalsOK, Idle
<1> QED
  BY <1>1 DEF Archives, LocalsOK

LEMMA InspectionFields ==
    ASSUME LocalsOK, inspection.phase # "idle"
    PROVE  /\ inspection.catalog \in Catalogs
           /\ inspection.phase = "read" => inspection \in Readings
           /\ inspection.phase \in {"counted", "passed"} =>
                inspection \in Countings /\ inspection.total \in Nat /\ inspection.served \in BOOLEAN
           /\ inspection.phase \in {"read", "counted", "passed"}
<1>1. inspection \in Readings \/ inspection \in Countings
  BY DEF LocalsOK, Idle
<1> QED
  BY <1>1 DEF Readings, Countings

LEMMA CatalogFields ==
    ASSUME NEW c \in Catalogs
    PROVE  /\ c.snapshot \in 0 .. MaxCommits /\ c.files \in Contents
           /\ c.by \subseteq Models /\ c.along \subseteq Models
BY DEF Catalogs

LEMMA PointFields ==
    ASSUME NEW x \in Points
    PROVE  x.model \in Models /\ x.path \in Paths /\ x.at \in Commits /\ x.label \in Commits
BY DEF Points

LEMMA ChunkFields ==
    ASSUME NEW p \in Paths, NEW c \in Commits, model \in Models
    PROVE  /\ Chunk(p, c) \in Points /\ Chunk(p, c).model = model /\ Chunk(p, c).path = p
           /\ Chunk(p, c).at = c /\ Chunk(p, c).label = c
BY DEF Chunk, Points

\* Relabelling a point changes nothing else of it.
LEMMA RelabelFields ==
    ASSUME NEW x \in Points, NEW c \in Commits, NEW y, y = [x EXCEPT !.label = c]
    PROVE  y \in Points /\ y.model = x.model /\ y.path = x.path /\ y.at = x.at /\ y.label = c
BY DEF Points

LEMMA ImageFinite ==
    ASSUME NEW S, IsFiniteSet(S), NEW f, NEW T, DOMAIN f = S, f = [x \in S |-> f[x]],
           \A y \in T : \E x \in S : f[x] = y, \A x \in S : f[x] \in T
    PROVE  IsFiniteSet(T)
<1>1. f \in Surjection(S, T)
  BY DEF Surjection
<1> QED
  BY <1>1, FS_Surjection

\* What the requests to Qdrant leave is stored in the same collections.
LEMMA UpsertedStored ==
    ASSUME Typed, NEW paths \in SUBSET Paths, NEW c \in Commits
    PROVE  /\ Upserted(paths, c) \subseteq Points
           /\ Stored(Upserted(paths, c), collections \cup {model})
<1>1. points \subseteq Points /\ IsFiniteSet(points) /\ model \in Models
      /\ \A x \in points : x.model \in collections
  BY DEF Typed, TypeOK, LocalsOK, Stored
<1> DEFINE kept == {x \in points : ~(x \in Current /\ x.path \in paths /\ x.at = c)}
           new == {Chunk(p, c) : p \in paths}
<1>2. kept \subseteq points /\ IsFiniteSet(kept)
  BY <1>1, FS_Subset
<1>3. IsFiniteSet(paths)
  BY KnowledgeAssumption, FS_Subset
<1>4. IsFiniteSet(new)
  <2> DEFINE f == [p \in paths |-> Chunk(p, c)]
  <2>1. DOMAIN f = paths /\ f = [p \in paths |-> f[p]]
    OBVIOUS
  <2>2. (\A y \in new : \E p \in paths : f[p] = y) /\ \A p \in paths : f[p] \in new
    OBVIOUS
  <2> HIDE DEF f, new
  <2> QED
    BY <1>3, <2>1, <2>2, ImageFinite
<1>5. \A y \in new : y \in Points /\ y.model = model
  BY <1>1, ChunkFields
<1>6. IsFiniteSet(kept \cup new)
  BY <1>2, <1>4, FS_Union
<1>7. Upserted(paths, c) = kept \cup new
  BY DEF Upserted
<1> HIDE DEF kept, new
<1>8. kept \cup new \subseteq Points /\ \A x \in kept \cup new : x.model \in collections \cup {model}
  BY <1>1, <1>2, <1>5
<1> QED
  BY <1>6, <1>7, <1>8 DEF Stored

LEMMA RelabelledStored ==
    ASSUME Typed, NEW paths \in SUBSET Paths, NEW c \in Commits
    PROVE  Relabelled(paths, c) \subseteq Points /\ Stored(Relabelled(paths, c), collections)
<1>1. points \subseteq Points /\ IsFiniteSet(points) /\ \A x \in points : x.model \in collections
  BY DEF Typed, TypeOK, LocalsOK, Stored
<1> DEFINE old == PointsOf(paths, 0)
           new == {[x EXCEPT !.label = c] : x \in old}
<1>2. old \subseteq points
  BY DEF PointsOf, Current
<1>3. IsFiniteSet(old) /\ IsFiniteSet(points \ old)
  BY <1>1, <1>2, FS_Subset
<1>4. IsFiniteSet(new)
  <2> DEFINE f == [x \in old |-> [x EXCEPT !.label = c]]
  <2>1. DOMAIN f = old /\ f = [x \in old |-> f[x]]
    OBVIOUS
  <2>2. (\A y \in new : \E x \in old : f[x] = y) /\ \A x \in old : f[x] \in new
    OBVIOUS
  <2> HIDE DEF f, new, old
  <2> QED
    BY <1>3, <2>1, <2>2, ImageFinite
<1>5. \A y \in new : y \in Points /\ y.model \in collections
  BY <1>1, <1>2, RelabelFields
<1>6. IsFiniteSet((points \ old) \cup new)
  BY <1>3, <1>4, FS_Union
<1>7. Relabelled(paths, c) = (points \ old) \cup new
  BY DEF Relabelled
<1> HIDE DEF old, new
<1>8. (points \ old) \cup new \subseteq Points /\ \A x \in (points \ old) \cup new : x.model \in collections
  BY <1>1, <1>5
<1> QED
  BY <1>6, <1>7, <1>8 DEF Stored

LEMMA LessStored ==
    ASSUME Typed, NEW less \in SUBSET points
    PROVE  less \subseteq Points /\ Stored(less, collections)
<1>1. points \subseteq Points /\ IsFiniteSet(points) /\ \A x \in points : x.model \in collections
  BY DEF Typed, TypeOK, LocalsOK, Stored
<1>2. IsFiniteSet(less)
  BY <1>1, FS_Subset
<1> QED
  BY <1>1, <1>2 DEF Stored

LEMMA CountedNat == ASSUME Typed, NEW labels PROVE Counted(labels) \in Nat
<1>1. {x \in Current : x.label \in labels} \subseteq points /\ IsFiniteSet(points)
  BY DEF Current, Typed, LocalsOK, Stored
<1>2. IsFiniteSet({x \in Current : x.label \in labels})
  BY <1>1, FS_Subset
<1> QED
  BY <1>2, FS_CardinalityType DEF Counted

\* Steps of the commits, the catalogue, the storage and the model that keep the types.
LEMMA TreeTyped == ASSUME Typed, Push PROVE Typed'
<1>1. head + 1 \in Commits /\ head \in 0 .. MaxCommits /\ tree \in [Commits -> Contents]
  BY KnowledgeAssumption DEF Typed, TypeOK, Push, Commits
<1>2. PICK changed \in SUBSET Paths, gone \in SUBSET Paths :
        tree' = [tree EXCEPT ![head + 1] = [p \in Paths |->
                    IF p \in gone THEN 0 ELSE IF p \in changed \/ head = 0 THEN head + 1
                    ELSE tree[head][p]]]
  BY DEF Push
<1>3. head # 0 => head \in Commits
  BY <1>1, KnowledgeAssumption DEF Commits
<1>4. \A p \in Paths : (IF p \in gone THEN 0 ELSE IF p \in changed \/ head = 0 THEN head + 1
                        ELSE tree[head][p]) \in 0 .. MaxCommits
  BY <1>1, <1>3, KnowledgeAssumption DEF Commits, Contents
<1>5. tree' \in [Commits -> Contents]
  BY <1>1, <1>2, <1>4 DEF Contents
<1>6. head' \in 0 .. MaxCommits
  BY <1>1, KnowledgeAssumption DEF Push, Commits
<1> QED
  BY <1>5, <1>6 DEF Typed, TypeOK, LocalsOK, Push, qdrant, bounds

LEMMA StartSyncTyped == ASSUME Typed, StartSync PROVE Typed'
<1>1. head \in Commits
  BY KnowledgeAssumption DEF Typed, TypeOK, StartSync, Commits
<1>2. catalog.snapshot \in 0 .. MaxCommits
  BY CatalogFields DEF Typed, TypeOK
<1>3. FilesOf(tree[head]) \subseteq Paths /\ FilesOf(catalog.files) \subseteq Paths
  BY DEF FilesOf
<1>4. sync' \in Syncs
  BY <1>1, <1>2, <1>3 DEF StartSync, Syncs, Phases
<1>5. jobs' \in 0 .. MaxJobs
  BY KnowledgeAssumption DEF Typed, TypeOK, StartSync
<1>6. TypeOK'
  BY <1>5 DEF Typed, TypeOK, StartSync, github, qdrant
<1> QED
  BY <1>4, <1>6 DEF Typed, LocalsOK, StartSync, qdrant

\* Any change of the storage, and a sync or an index command that moves on.
LEMMA StorageTyped ==
    ASSUME Typed, UNCHANGED <<github, catalog, model, backup, archive, inspection>>,
           collections' = collections \/ collections' = collections \cup {model},
           points' \subseteq Points, Stored(points', collections'),
           sync' \in {Idle} \cup Syncs, indexer' \in {Idle} \cup Indexers,
           jobs' \in 0 .. MaxJobs, events' \in 0 .. MaxEvents
    PROVE  Typed'
<1>1. collections' \subseteq Models
  BY DEF Typed, TypeOK
<1>2. TypeOK'
  BY <1>1 DEF Typed, TypeOK, github, Stored
<1> QED
  BY <1>2 DEF Typed, LocalsOK

LEMMA BoundsTyped ==
    ASSUME Typed
    PROVE  /\ jobs \in 0 .. MaxJobs /\ events \in 0 .. MaxEvents
           /\ UNCHANGED bounds => jobs' \in 0 .. MaxJobs /\ events' \in 0 .. MaxEvents
           /\ Event => events' \in 0 .. MaxEvents
BY KnowledgeAssumption DEF Typed, TypeOK, Event, bounds

LEMMA IndexBatchTyped == ASSUME Typed, IndexBatch PROVE Typed'
<1>1. sync.phase # "idle"
  BY DEF IndexBatch
<1>2. sync \in Syncs /\ sync.to \in Commits /\ sync.todo \subseteq Paths
  BY <1>1, SyncFields DEF Typed
<1>3. PICK batch \in (SUBSET sync.todo) \ {{}} :
        points' = Upserted(batch, sync.to) /\ sync' = [sync EXCEPT !.todo = @ \ batch]
  BY DEF IndexBatch
<1>4. batch \in SUBSET Paths
  BY <1>2
<1>5. points' \subseteq Points /\ Stored(points', collections \cup {model})
  BY <1>2, <1>3, <1>4, UpsertedStored
<1>6. sync' \in Syncs
  BY <1>2, <1>3 DEF Syncs
<1> QED
  BY <1>5, <1>6, StorageTyped, BoundsTyped DEF IndexBatch, EnsureCollection, Typed, LocalsOK

LEMMA RequestTyped ==
    ASSUME Typed, NEW done, NEW next \in Phases, NEW needed \in BOOLEAN, NEW result,
           sync.phase # "idle", Request(done, next, needed, result),
           result \subseteq Points, Stored(result, collections)
    PROVE  Typed'
<1>1. sync \in Syncs
  BY SyncFields DEF Typed
<1>2. sync' \in {Idle} \cup Syncs
  <2>1. CASE needed /\ ~HasCollection
    BY <2>1 DEF Request
  <2>2. CASE ~(needed /\ ~HasCollection)
    BY <1>1, <2>2 DEF Request, Syncs
  <2> QED
    BY <2>1, <2>2
<1>3. points' = points \/ points' = result
  BY DEF Request
<1>4. points \subseteq Points /\ Stored(points, collections)
  BY LessStored
<1>5. points' \subseteq Points /\ Stored(points', collections) /\ collections' = collections
  BY <1>3, <1>4 DEF Request
<1> QED
  BY <1>2, <1>5, StorageTyped, BoundsTyped DEF Request, Typed, LocalsOK

LEMMA RequestsTyped ==
    ASSUME Typed, UpdateUnchanged \/ DeleteModified \/ DeleteRemoved \/ RemoveStale
    PROVE  Typed'
<1>1. sync.phase # "idle"
  BY DEF UpdateUnchanged, DeleteModified, DeleteRemoved, RemoveStale, Request
<1>2. sync.to \in Commits /\ sync.unchanged \in SUBSET Paths
  BY <1>1, SyncFields DEF Typed
<1>3. \A paths, keep : LET less == points \ PointsOf(paths, keep)
                       IN  less \subseteq Points /\ Stored(less, collections)
  BY LessStored
<1>4. CASE UpdateUnchanged
  <2>1. Relabelled(sync.unchanged, sync.to) \subseteq Points
        /\ Stored(Relabelled(sync.unchanged, sync.to), collections)
    BY <1>2, RelabelledStored
  <2> QED
    BY <1>1, <1>4, <2>1, RequestTyped DEF UpdateUnchanged, Phases
<1>5. CASE DeleteModified
  BY <1>1, <1>3, <1>5, RequestTyped DEF DeleteModified, Phases
<1>6. CASE DeleteRemoved
  BY <1>1, <1>3, <1>6, RequestTyped DEF DeleteRemoved, Phases
<1>7. CASE RemoveStale
  BY <1>1, <1>3, <1>7, RequestTyped DEF RemoveStale, Phases
<1> QED
  BY <1>4, <1>5, <1>6, <1>7

LEMMA CompleteRunTyped == ASSUME Typed, CompleteRun PROVE Typed'
<1>1. sync \in Syncs /\ sync.to \in Commits
  BY SyncFields DEF Typed, CompleteRun
<1>2. PICK run \in {"succeeded", "failed"} :
        /\ IF run = "failed" THEN Event ELSE UNCHANGED events
        /\ catalog' = [snapshot |-> sync.to, files |-> tree[sync.to], run |-> run,
                       by |-> catalog.by \cap {model}, along |-> catalog.along \cap {model}]
        /\ sync' = [sync EXCEPT !.phase = "published"]
  BY DEF CompleteRun
<1>3. sync' \in Syncs
  BY <1>1, <1>2 DEF Syncs, Phases
<1>4. sync.to \in 0 .. MaxCommits /\ tree[sync.to] \in Contents
  BY <1>1, KnowledgeAssumption DEF Commits, Typed, TypeOK
<1>5. catalog.by \cap {model} \subseteq Models /\ catalog.along \cap {model} \subseteq Models
  BY CatalogFields DEF Typed, TypeOK
<1>6. catalog' \in Catalogs
  BY <1>2, <1>4, <1>5 DEF Catalogs
<1>7. events' \in 0 .. MaxEvents
  BY <1>2, BoundsTyped
<1>8. TypeOK'
  BY <1>6, <1>7 DEF Typed, TypeOK, CompleteRun, github, qdrant
<1> QED
  BY <1>3, <1>8 DEF Typed, LocalsOK, CompleteRun, qdrant

LEMMA StartIndexTyped == ASSUME Typed, StartIndex PROVE Typed'
<1>1. head \in Commits
  BY KnowledgeAssumption DEF Typed, TypeOK, StartIndex, Commits
<1>2. PICK chosen \in (SUBSET FilesOf(tree[head])) \ {{}}, limited \in BOOLEAN :
        indexer' = [phase |-> "index", to |-> head, todo |-> chosen, limited |-> limited]
  BY DEF StartIndex
<1>3. indexer' \in Indexers
  BY <1>1, <1>2 DEF Indexers, FilesOf
<1>4. jobs' \in 0 .. MaxJobs /\ events' \in 0 .. MaxEvents
  BY KnowledgeAssumption DEF Typed, TypeOK, StartIndex, Event
<1>5. TypeOK'
  BY <1>4 DEF Typed, TypeOK, StartIndex, github, qdrant
<1> QED
  BY <1>3, <1>5 DEF Typed, LocalsOK, StartIndex, qdrant

LEMMA IndexCommandBatchTyped == ASSUME Typed, IndexCommandBatch PROVE Typed'
<1>1. indexer \in Indexers /\ indexer.to \in Commits /\ indexer.todo \subseteq Paths
  BY IndexerFields DEF Typed, IndexCommandBatch
<1>2. PICK batch \in (SUBSET indexer.todo) \ {{}} :
        points' = Upserted(batch, indexer.to) /\ indexer' = [indexer EXCEPT !.todo = @ \ batch]
  BY DEF IndexCommandBatch
<1>3. batch \in SUBSET Paths
  BY <1>1
<1>4. points' \subseteq Points /\ Stored(points', collections \cup {model})
  BY <1>1, <1>2, <1>3, UpsertedStored
<1>5. indexer' \in Indexers
  BY <1>1, <1>2 DEF Indexers
<1> QED
  BY <1>4, <1>5, StorageTyped, BoundsTyped DEF IndexCommandBatch, EnsureCollection, Typed, LocalsOK

LEMMA FinishIndexTyped == ASSUME Typed, FinishIndex PROVE Typed'
<1>1. points' \in SUBSET points
  BY DEF FinishIndex
<1>2. points' \subseteq Points /\ Stored(points', collections)
  BY <1>1, LessStored
<1> QED
  BY <1>2, StorageTyped, BoundsTyped DEF FinishIndex, Typed, LocalsOK

\* A sync that ends and an index command that fails change no data.
LEMMA EndingTyped == ASSUME Typed, Release \/ SyncFails \/ IndexFails PROVE Typed'
<1>1. points \subseteq Points /\ Stored(points, collections)
  BY LessStored
<1>2. sync' \in {Idle} \cup Syncs /\ indexer' \in {Idle} \cup Indexers
  BY DEF Release, SyncFails, IndexFails, Typed, LocalsOK
<1>3. UNCHANGED <<github, catalog, collections, points, model, backup, archive, inspection>>
      /\ jobs' \in 0 .. MaxJobs /\ events' \in 0 .. MaxEvents
  BY BoundsTyped DEF Release, SyncFails, IndexFails, qdrant, bounds
<1> QED
  BY <1>1, <1>2, <1>3, StorageTyped

LEMMA BackupTyped == ASSUME Typed, DumpPostgres \/ SnapshotQdrant \/ BackupFails PROVE Typed'
<1>1. jobs' \in 0 .. MaxJobs /\ events' \in 0 .. MaxEvents
  BY BoundsTyped DEF DumpPostgres, SnapshotQdrant, BackupFails, bounds
<1>2. TypeOK'
  BY <1>1 DEF Typed, TypeOK, DumpPostgres, SnapshotQdrant, BackupFails, github, qdrant
<1>3. CASE DumpPostgres
  <2>1. backup' \in Backups
    BY <1>3 DEF DumpPostgres, Backups, Typed, TypeOK
  <2> QED
    BY <1>2, <1>3, <2>1 DEF Typed, LocalsOK, DumpPostgres, qdrant
<1>4. CASE SnapshotQdrant
  <2>1. backup.catalog \in Catalogs
    BY <1>4, BackupFields DEF Typed, SnapshotQdrant
  <2>2. points \subseteq Points /\ Stored(points, collections) /\ collections \subseteq Models
    BY LessStored DEF Typed, TypeOK
  <2>3. archive' \in Archives /\ Stored(archive'.points, archive'.collections)
    BY <1>4, <2>1, <2>2 DEF SnapshotQdrant, Archive, Archives
  <2> QED
    BY <1>2, <1>4, <2>3 DEF Typed, LocalsOK, SnapshotQdrant, qdrant
<1>5. CASE BackupFails
  BY <1>2, <1>5 DEF Typed, LocalsOK, BackupFails, qdrant
<1> QED
  BY <1>3, <1>4, <1>5

LEMMA RestoreTyped == ASSUME Typed, Restore PROVE Typed'
<1>1. /\ archive.catalog \in Catalogs /\ archive.collections \subseteq Models
      /\ archive.points \subseteq Points /\ Stored(archive.points, archive.collections)
  BY ArchiveFields DEF Typed, Restore
<1>2. [archive.catalog EXCEPT !.along = @ \cap catalog.along] \in Catalogs
  BY <1>1 DEF Catalogs
<1>3. catalog' \in Catalogs
  BY <1>1, <1>2 DEF Restore
<1>4. /\ collections' \subseteq Models /\ points' \subseteq Points
      /\ Stored(points', collections')
  <2>1. points \subseteq Points /\ Stored(points, collections) /\ collections \subseteq Models
    BY LessStored DEF Typed, TypeOK
  <2> QED
    BY <1>1, <2>1 DEF Restore, qdrant
<1>5. events' \in 0 .. MaxEvents
  BY BoundsTyped DEF Restore
<1>6. TypeOK'
  BY <1>3, <1>4, <1>5 DEF Typed, TypeOK, Restore, github, Stored
<1> QED
  BY <1>4, <1>6 DEF Typed, LocalsOK, Restore

LEMMA ChangeModelTyped == ASSUME Typed, ChangeModel PROVE Typed'
<1>1. events' \in 0 .. MaxEvents /\ model' \in Models
  BY BoundsTyped DEF ChangeModel
<1>2. TypeOK'
  BY <1>1 DEF Typed, TypeOK, ChangeModel, github, qdrant
<1> QED
  BY <1>2 DEF Typed, LocalsOK, ChangeModel, qdrant

LEMMA InspectionTyped ==
    ASSUME Typed, ReadStatus \/ CountTotal \/ CountCurrent \/ Report
    PROVE  Typed'
<1>1. jobs' \in 0 .. MaxJobs /\ events' \in 0 .. MaxEvents
  BY BoundsTyped DEF ReadStatus, CountTotal, CountCurrent, Report, bounds
<1>2. TypeOK'
  BY <1>1 DEF Typed, TypeOK, ReadStatus, CountTotal, CountCurrent, Report, github, qdrant
<1>3. inspection' \in {Idle} \cup Readings \cup Countings
  <2>1. CASE ReadStatus
    BY <2>1 DEF ReadStatus, Readings, Typed, TypeOK
  <2>2. CASE CountTotal
    <3>1. inspection.catalog \in Catalogs
      BY <2>2, InspectionFields DEF Typed, CountTotal
    <3>2. HasCollection \in BOOLEAN
      BY DEF HasCollection
    <3>3. Serves(inspection.catalog) \in BOOLEAN /\ Exact(inspection.catalog) \in BOOLEAN
      BY DEF Serves, Exact
    <3> QED
      BY <2>2, <3>1, <3>2, <3>3, CountedNat DEF CountTotal, Countings
  <2>3. CASE CountCurrent
    <3>1. inspection \in Countings
      BY <2>3, InspectionFields DEF Typed, CountCurrent
    <3>2. [inspection EXCEPT !.phase = "passed"] \in Countings
      BY <3>1 DEF Countings
    <3>3. inspection' = [inspection EXCEPT !.phase = "passed"] \/ inspection' = Idle
      BY <2>3 DEF CountCurrent
    <3> QED
      BY <3>2, <3>3
  <2>4. CASE Report
    BY <2>4 DEF Report
  <2> QED
    BY <2>1, <2>2, <2>3, <2>4
<1>4. UNCHANGED <<collections, points, sync, indexer, backup, archive>>
  BY DEF ReadStatus, CountTotal, CountCurrent, Report, qdrant
<1> QED
  BY <1>2, <1>3, <1>4 DEF Typed, LocalsOK

LEMMA StepTyped == ASSUME Typed, [Next]_vars PROVE Typed'
<1>1. CASE UNCHANGED vars
  BY <1>1 DEF vars, github, qdrant, bounds, Typed, TypeOK, LocalsOK
<1>2. CASE Push \/ StartSync \/ IndexBatch \/ CompleteRun \/ Release \/ SyncFails
  BY <1>2, TreeTyped, StartSyncTyped, IndexBatchTyped, CompleteRunTyped, EndingTyped
<1>3. CASE UpdateUnchanged \/ DeleteModified \/ DeleteRemoved \/ RemoveStale
  BY <1>3, RequestsTyped
<1>4. CASE StartIndex \/ IndexCommandBatch \/ FinishIndex \/ IndexFails
  BY <1>4, StartIndexTyped, IndexCommandBatchTyped, FinishIndexTyped, EndingTyped
<1>5. CASE DumpPostgres \/ SnapshotQdrant \/ BackupFails \/ Restore \/ ChangeModel
  BY <1>5, BackupTyped, RestoreTyped, ChangeModelTyped
<1>6. CASE ReadStatus \/ CountTotal \/ CountCurrent \/ Report
  BY <1>6, InspectionTyped
<1> QED
  BY <1>1, <1>2, <1>3, <1>4, <1>5, <1>6 DEF Next

LEMMA InitTyped == Init => Typed
<1> SUFFICES ASSUME Init PROVE Typed
  OBVIOUS
<1>1. NoContents \in Contents
  BY KnowledgeAssumption DEF NoContents, Contents
<1>2. NoCatalog \in Catalogs
  BY <1>1, KnowledgeAssumption DEF NoCatalog, Catalogs
<1>3. tree \in [Commits -> Contents]
  BY <1>1 DEF Init
<1>4. TypeOK
  BY <1>2, <1>3, KnowledgeAssumption DEF Init, TypeOK
<1>5. IsFiniteSet(points) /\ Stored(points, collections)
  BY FS_EmptySet DEF Init, Stored
<1> QED
  BY <1>4, <1>5 DEF Init, Typed, LocalsOK

\* Every variable keeps its type, for any paths, models and numbers of commits,
\* jobs and events: the storage stays finite and its points belong to its
\* collections, whatever runs beside what.
THEOREM KnowledgeTyped == Spec => []TypeOK
<1>1. Spec => []Typed
  BY InitTyped, StepTyped, PTL DEF Spec
<1> QED
  BY <1>1, PTL DEF Typed

-----------------------------------------------------------------------------
(* Histories, catalogues and points.                                       *)

\* A content that was there at an earlier commit and is there at a later one
\* was there in between.
LEMMA ContentSteady ==
    ASSUME NEW last \in Nat, NEW trees \in [Commits -> Contents], TreesOK(trees, last),
           last <= MaxCommits, NEW p \in Paths, NEW s \in 1 .. last, NEW t \in s .. last, NEW u \in t .. last,
           trees[s][p] # 0, trees[u][p] = trees[s][p]
    PROVE  trees[t][p] = trees[s][p] /\ trees[s][p] \in 1 .. s
<1>1. s \in Commits /\ t \in Commits /\ u \in Commits
  BY KnowledgeAssumption DEF Commits
<1>2. trees[s][p] \in Nat /\ trees[t][p] \in Nat /\ trees[u][p] \in Nat
  BY <1>1, KnowledgeAssumption DEF Contents
<1>3. trees[s][p] <= s
  BY DEF TreesOK
<1>4. trees[u][p] = trees[t][p] \/ trees[u][p] = 0 \/ trees[u][p] > t
  BY DEF TreesOK
<1> QED
  BY <1>2, <1>3, <1>4

\* What a file row of a pinned catalogue says.
LEMMA PinnedFiles ==
    ASSUME NEW trees, NEW c \in Catalogs, Pinned(c, trees), NEW p \in FilesOf(c.files)
    PROVE  /\ p \in Paths /\ c.snapshot \in Commits
           /\ c.files = trees[c.snapshot] /\ c.files[p] # 0
<1>1. p \in Paths /\ c.files[p] # 0
  BY DEF FilesOf
<1>2. c.snapshot # 0
  BY <1>1 DEF Pinned, NoContents
<1> QED
  BY <1>1, <1>2, CatalogFields, KnowledgeAssumption DEF Pinned, Commits

\* A file that is kept still serves when nothing newer has been indexed.
LEMMA LatestServed ==
    ASSUME NEW trees, NEW now \in Nat, NEW pts \in SUBSET Points, PointsOK(pts, trees, now),
           NEW c \in Catalogs, NEW m, Pinned(c, trees), Kept(c, m, pts, trees, now), c.snapshot = now
    PROVE  ServedBy(c, m, pts, trees)
<1> SUFFICES ASSUME NEW p \in FilesOf(c.files)
             PROVE  \E x \in pts : x.model = m /\ x.path = p /\ x.label = c.snapshot
                                   /\ trees[x.at][p] = c.files[p]
  BY DEF ServedBy
<1>1. c.files = trees[c.snapshot]
  BY PinnedFiles
<1>2. PICK x \in pts : x.model = m /\ x.path = p /\ x.label >= c.snapshot /\ trees[x.at][p] = c.files[p]
  BY <1>1 DEF Kept
<1>3. x.label <= now /\ x.label \in Nat
  BY PointFields, KnowledgeAssumption DEF PointsOK, Commits
<1> QED
  BY <1>2, <1>3

\* What is said of pts when commits are pushed, or a newer one begins to be indexed.
LEMMA NowGrows ==
    ASSUME NEW trees \in [Commits -> Contents], NEW last \in 0 .. MaxCommits, NEW now \in 0 .. last,
           NEW trees2 \in [Commits -> Contents], NEW last2 \in last .. MaxCommits, NEW now2 \in now .. last2,
           TreesOK(trees2, last2), \A d \in 1 .. last : trees2[d] = trees[d],
           NEW pts \in SUBSET Points, PointsOK(pts, trees, now)
    PROVE  /\ PointsOK(pts, trees2, now2)
           /\ \A c \in Catalogs : c.snapshot <= now /\ Pinned(c, trees) =>
                /\ Pinned(c, trees2)
                /\ \A m : Kept(c, m, pts, trees, now) => Kept(c, m, pts, trees2, now2)
                /\ \A m : ServedBy(c, m, pts, trees) => ServedBy(c, m, pts, trees2)
                /\ \A m : Telling(c, m, pts, trees) => Telling(c, m, pts, trees2)
<1>1. \A d \in 1 .. last : d \in Commits /\ trees2[d] = trees[d]
  BY KnowledgeAssumption DEF Commits
<1>2. ASSUME NEW x \in pts
      PROVE  /\ x.at \in 1 .. last /\ x.label \in 1 .. last /\ x.at <= now /\ x.label <= now
             /\ trees2[x.at] = trees[x.at] /\ trees2[x.label] = trees[x.label]
  BY <1>1, PointFields, KnowledgeAssumption DEF PointsOK, Commits
<1>3. PointsOK(pts, trees2, now2)
  BY <1>2, KnowledgeAssumption DEF PointsOK
<1>4. ASSUME NEW c \in Catalogs, c.snapshot <= now, Pinned(c, trees)
      PROVE  /\ Pinned(c, trees2)
             /\ \A m : Kept(c, m, pts, trees, now) => Kept(c, m, pts, trees2, now2)
             /\ \A m : ServedBy(c, m, pts, trees) => ServedBy(c, m, pts, trees2)
  <2>1. c.snapshot \in 0 .. now
    BY <1>4, CatalogFields, KnowledgeAssumption
  <2>2. Pinned(c, trees2)
    BY <1>1, <1>4, <2>1, KnowledgeAssumption DEF Pinned
  <2>3. \A m : ServedBy(c, m, pts, trees) => ServedBy(c, m, pts, trees2)
    BY <1>2 DEF ServedBy
  <2>4. ASSUME NEW m, Kept(c, m, pts, trees, now) PROVE Kept(c, m, pts, trees2, now2)
    <3> SUFFICES ASSUME NEW p \in FilesOf(c.files), trees2[now2][p] = c.files[p]
                 PROVE  \E x \in pts : x.model = m /\ x.path = p /\ x.label >= c.snapshot
                                       /\ trees2[x.at][p] = c.files[p]
      BY DEF Kept
    <3>1. p \in Paths /\ c.snapshot \in 1 .. now /\ c.files = trees2[c.snapshot] /\ c.files[p] # 0
      BY <2>1, <2>2, PinnedFiles, KnowledgeAssumption DEF Commits
    <3>2. trees2[now][p] = trees2[c.snapshot][p]
      BY <3>1, ContentSteady, KnowledgeAssumption
    <3>3. trees[now][p] = c.files[p]
      BY <1>1, <3>1, <3>2, KnowledgeAssumption
    <3>4. PICK x \in pts : x.model = m /\ x.path = p /\ x.label >= c.snapshot /\ trees[x.at][p] = c.files[p]
      BY <2>4, <3>3 DEF Kept
    <3> QED
      BY <1>2, <3>4
  <2> QED
    BY <2>2, <2>3, <2>4
<1>5. \A c \in Catalogs : c.snapshot <= now /\ Pinned(c, trees) =>
        \A m : Telling(c, m, pts, trees) => Telling(c, m, pts, trees2)
  BY <1>4 DEF Telling
<1> QED
  BY <1>3, <1>4, <1>5

\* The source's catalogue speaks for those it replaced.
LEMMA CopyTells ==
    ASSUME NEW trees, NEW now, NEW pts \in SUBSET Points, NEW c \in Catalogs, NEW cat \in Catalogs,
           CopyOK(c, cat, pts, trees, now), CopyOK(cat, cat, pts, trees, now),
           NEW m \in c.along \cap cat.along, Telling(cat, m, pts, trees)
    PROVE  Telling(c, m, pts, trees)
<1>1. c.snapshot \in Nat /\ cat.snapshot \in Nat /\ c.snapshot <= cat.snapshot
  BY CatalogFields, KnowledgeAssumption DEF CopyOK
<1>2. CASE c.snapshot < cat.snapshot
  BY <1>2 DEF CopyOK, Telling
<1>3. CASE c.snapshot = cat.snapshot
  <2>1. c.files = cat.files
    BY <1>3 DEF CopyOK, Pinned
  <2> QED
    BY <1>3, <2>1 DEF Telling, ServedBy, Gone
<1> QED
  BY <1>1, <1>2, <1>3

-----------------------------------------------------------------------------
(* Writing to the storage.                                                 *)

\* What every request of a sync or an index command to commit now makes of the
\* points pts, for the configured model md, while the catalogue is cat:
\* other collections stay; new points and labels are of that commit; no file
\* it still has is lost; and if anything changes, a label of it shows it or
\* the labels of the catalogue's snapshot are gone.
Rewritten(pts, new, md, cat, trees, now) ==
    /\ \A x \in Points : x.model # md => (x \in new <=> x \in pts)
    /\ \A x \in new : x \in pts \/ (x.at <= now /\ x.label = now /\ x.path \in FilesOf(trees[now]))
    /\ \A x \in pts : x.model = md /\ trees[now][x.path] # 0 /\ trees[x.at][x.path] = trees[now][x.path] =>
          \E y \in new : y.model = md /\ y.path = x.path /\ y.label \in {x.label, now}
                         /\ trees[y.at][x.path] = trees[x.at][x.path]
    /\ \/ new = pts
       \/ \E x \in new : x.model = md /\ x.label = now
       \/ md \in cat.along => Gone(cat, md, new)

LEMMA RewrittenKeeps ==
    ASSUME NEW trees, NEW now \in Nat, NEW md, NEW cat, NEW pts \in SUBSET Points, NEW new \in SUBSET Points,
           Rewritten(pts, new, md, cat, trees, now),
           NEW c \in Catalogs, NEW m, c.snapshot <= now, Kept(c, m, pts, trees, now)
    PROVE  Kept(c, m, new, trees, now)
<1> SUFFICES ASSUME NEW p \in FilesOf(c.files), trees[now][p] = c.files[p]
             PROVE  \E x \in new : x.model = m /\ x.path = p /\ x.label >= c.snapshot
                                   /\ trees[x.at][p] = c.files[p]
  BY DEF Kept
<1>1. PICK x \in pts : x.model = m /\ x.path = p /\ x.label >= c.snapshot /\ trees[x.at][p] = c.files[p]
  BY DEF Kept
<1>2. CASE m # md
  BY <1>1, <1>2 DEF Rewritten
<1>3. CASE m = md
  <2>1. trees[now][p] # 0
    BY DEF FilesOf
  <2>2. PICK y \in new : y.model = md /\ y.path = p /\ y.label \in {x.label, now}
                         /\ trees[y.at][p] = trees[x.at][p]
    BY <1>1, <1>3, <2>1 DEF Rewritten
  <2> QED
    BY <1>1, <1>3, <2>2
<1> QED
  BY <1>2, <1>3

LEMMA RewrittenGone ==
    ASSUME NEW trees, NEW now \in Nat, NEW md, NEW cat, NEW pts \in SUBSET Points, NEW new \in SUBSET Points,
           Rewritten(pts, new, md, cat, trees, now),
           NEW c \in Catalogs, NEW m, c.snapshot < now, Gone(c, m, pts)
    PROVE  Gone(c, m, new)
<1>1. c.snapshot \in Nat
  BY CatalogFields, KnowledgeAssumption
<1> QED
  BY <1>1 DEF Rewritten, Gone

LEMMA RewrittenPoints ==
    ASSUME NEW trees, NEW now \in Nat, NEW md, NEW cat, NEW pts, NEW new,
           Rewritten(pts, new, md, cat, trees, now), PointsOK(pts, trees, now)
    PROVE  PointsOK(new, trees, now)
BY DEF Rewritten, PointsOK

LEMMA OthersTell ==
    ASSUME NEW trees, NEW now, NEW md, NEW cat, NEW pts \in SUBSET Points, NEW new \in SUBSET Points,
           Rewritten(pts, new, md, cat, trees, now),
           NEW c, NEW m, m # md, Telling(c, m, pts, trees)
    PROVE  Telling(c, m, new, trees)
<1>1. \A x \in Points : x.model = m => (x \in new <=> x \in pts)
  BY DEF Rewritten
<1>2. ServedBy(c, m, pts, trees) => ServedBy(c, m, new, trees)
  BY <1>1 DEF ServedBy
<1>3. Gone(c, m, pts) => Gone(c, m, new)
  BY <1>1 DEF Gone
<1> QED
  BY <1>1, <1>2, <1>3 DEF Telling

LEMMA RewrittenTells ==
    ASSUME NEW trees, NEW now \in Nat, NEW md, NEW pts \in SUBSET Points, NEW new \in SUBSET Points,
           NEW cat \in Catalogs, Rewritten(pts, new, md, cat, trees, now), PointsOK(pts, trees, now),
           cat.snapshot <= now, CopyOK(cat, cat, pts, trees, now),
           NEW m \in cat.along, Telling(cat, m, pts, trees)
    PROVE  Telling(cat, m, new, trees)
<1>1. CASE m # md
  BY <1>1, OthersTell
<1>2. CASE m = md /\ cat.snapshot = now
  <2>1. Kept(cat, m, new, trees, now) /\ PointsOK(new, trees, now) /\ Pinned(cat, trees)
    BY RewrittenKeeps, RewrittenPoints DEF CopyOK
  <2> QED
    BY <1>2, <2>1, LatestServed DEF Telling
<1>3. CASE m = md /\ cat.snapshot < now
  BY <1>3 DEF Rewritten, Telling
<1>4. cat.snapshot \in Nat
  BY CatalogFields, KnowledgeAssumption
<1> QED
  BY <1>1, <1>2, <1>3, <1>4

LEMMA RewrittenCopy ==
    ASSUME NEW trees, NEW now \in Nat, NEW md, NEW pts \in SUBSET Points, NEW new \in SUBSET Points,
           NEW cat \in Catalogs, Rewritten(pts, new, md, cat, trees, now), cat.snapshot <= now,
           NEW c \in Catalogs, CopyOK(c, cat, pts, trees, now)
    PROVE  CopyOK(c, cat, new, trees, now)
<1>1. c.snapshot \in Nat /\ cat.snapshot \in Nat /\ c.snapshot <= cat.snapshot
  BY CatalogFields, KnowledgeAssumption DEF CopyOK
<1>2. \A m \in c.by : Kept(c, m, new, trees, now)
  BY <1>1, RewrittenKeeps DEF CopyOK
<1>3. c.snapshot < cat.snapshot => \A m \in c.along \cap cat.along : Gone(c, m, new)
  BY <1>1, RewrittenGone DEF CopyOK
<1> QED
  BY <1>2, <1>3 DEF CopyOK

\* What is said of a catalogue lasts when a newer commit begins to be indexed.
LEMMA CopyLater ==
    ASSUME NEW trees \in [Commits -> Contents], NEW last \in 0 .. MaxCommits, NEW now \in 0 .. last,
           NEW now2 \in now .. last, TreesOK(trees, last), NEW pts \in SUBSET Points,
           PointsOK(pts, trees, now), NEW cat \in Catalogs, cat.snapshot <= now
    PROVE  /\ PointsOK(pts, trees, now2)
           /\ \A c \in Catalogs : CopyOK(c, cat, pts, trees, now) => CopyOK(c, cat, pts, trees, now2)
           /\ \A c \in Catalogs : c.snapshot <= now /\ Pinned(c, trees) =>
                \A m : Kept(c, m, pts, trees, now) => Kept(c, m, pts, trees, now2)
<1>1. last \in last .. MaxCommits /\ now2 \in now .. last /\ \A d \in 1 .. last : trees[d] = trees[d]
  BY KnowledgeAssumption
<1>2. /\ PointsOK(pts, trees, now2)
      /\ \A c \in Catalogs : c.snapshot <= now /\ Pinned(c, trees) =>
            \A m : Kept(c, m, pts, trees, now) => Kept(c, m, pts, trees, now2)
  BY <1>1, NowGrows
<1>3. ASSUME NEW c \in Catalogs, CopyOK(c, cat, pts, trees, now) PROVE CopyOK(c, cat, pts, trees, now2)
  <2>1. c.snapshot <= now /\ Pinned(c, trees)
    BY <1>3, CatalogFields, KnowledgeAssumption DEF CopyOK
  <2> QED
    BY <1>2, <1>3, <2>1 DEF CopyOK
<1> QED
  BY <1>2, <1>3

\* What the catalogues and the points have, by their names.
LEMMA CopiesTyped ==
    ASSUME Typed
    PROVE  /\ points \in SUBSET Points /\ catalog \in Catalogs /\ tree \in [Commits -> Contents]
           /\ head \in 0 .. MaxCommits /\ model \in Models /\ IsFiniteSet(points)
           /\ backup.phase # "idle" => backup.catalog \in Catalogs
           /\ archive.phase # "idle" => archive.catalog \in Catalogs /\ archive.points \in SUBSET Points
           /\ inspection.phase # "idle" => inspection.catalog \in Catalogs
BY BackupFields, ArchiveFields, InspectionFields DEF Typed, TypeOK, LocalsOK, Stored

LEMMA LatestTyped ==
    ASSUME Typed, SyncOK, IndexerOK
    PROVE  /\ Latest \in 0 .. head
           /\ sync.phase # "idle" \/ indexer.phase # "idle" => Latest \in Commits
BY SyncFields, IndexerFields, CopiesTyped, KnowledgeAssumption DEF Latest, SyncOK, IndexerOK, Commits, Typed

\* Once a newer commit is being indexed, the chunks of a snapshot become no more.
LEMMA CountShrinks ==
    ASSUME Typed, model' = model, NEW now \in Nat, NEW s \in Nat, s < now,
           Rewritten(points, points', model, catalog, tree, now), points' \subseteq Points
    PROVE  /\ Counted({s})' \in Nat /\ Counted({s}) \in Nat
           /\ Counted({s})' <= Counted({s})
<1> DEFINE before == {x \in Current : x.label \in {s}}
           after == {x \in points' : x.model = model /\ x.label = s}
<1>1. before \subseteq points /\ IsFiniteSet(points)
  BY CopiesTyped DEF Current
<1>2. after \subseteq before
  BY DEF Current, Rewritten
<1>3. IsFiniteSet(before)
  BY <1>1, FS_Subset
<1>4. IsFiniteSet(after) /\ Cardinality(after) <= Cardinality(before)
  BY <1>2, <1>3, FS_Subset
<1>5. Cardinality(after) \in Nat /\ Cardinality(before) \in Nat
  BY <1>3, <1>4, FS_CardinalityType
<1>6. Counted({s}) = Cardinality(before)
  BY DEF Counted
<1>7. {x \in Current : x.label \in {s}}' = after
  BY DEF Current
<1>8. Counted({s})' = Cardinality(after)
  BY <1>7 DEF Counted
<1> HIDE DEF before, after
<1> QED
  BY <1>4, <1>5, <1>6, <1>8

LEMMA InspectionRewritten ==
    ASSUME Typed, CopiesInv, Latest \in 0 .. head, Latest' \in Latest .. head, points' \subseteq Points,
           UNCHANGED <<github, catalog, model, inspection>>,
           Rewritten(points, points', model, catalog, tree, Latest)
    PROVE  InspectionOK'
<1> SUFFICES ASSUME inspection.phase # "idle" PROVE InspectionOK'
  BY DEF InspectionOK
<1> DEFINE c == inspection.catalog
<1>1. /\ c \in Catalogs /\ c.snapshot \in Nat /\ catalog.snapshot <= Latest /\ head \in 0 .. MaxCommits
      /\ Latest \in Nat /\ Latest' \in Nat /\ Latest <= Latest'
  BY CopiesTyped, CatalogFields, KnowledgeAssumption DEF CopiesInv, CatalogOK
<1>2. CopyOK(c, catalog, points, tree, Latest) /\ (model \in c.along => model \in catalog.along)
  BY DEF CopiesInv, InspectionOK
<1>3. CopyOK(c, catalog, points', tree, Latest')
  <2>1. CopyOK(c, catalog, points', tree, Latest)
    BY <1>1, <1>2, CopiesTyped, RewrittenCopy
  <2>2. PointsOK(points', tree, Latest) /\ TreesOK(tree, head)
    BY <1>1, RewrittenPoints DEF CopiesInv
  <2> QED
    BY <1>1, <2>1, <2>2, CopiesTyped, CopyLater
<1>4. ASSUME inspection.phase = "counted", model \in c.along, ~inspection.served
      PROVE  c.snapshot < Latest' /\ (Counted({c.snapshot})' < inspection.total \/ Counted({c.snapshot})' = 0)
  <2>1. c.snapshot < Latest /\ (Counted({c.snapshot}) < inspection.total \/ Counted({c.snapshot}) = 0)
    BY <1>4 DEF CopiesInv, InspectionOK
  <2>2. Counted({c.snapshot})' <= Counted({c.snapshot})
        /\ Counted({c.snapshot}) \in Nat /\ Counted({c.snapshot})' \in Nat
    BY <1>1, <2>1, CountShrinks
  <2>3. inspection.total \in Nat
    BY <1>4, InspectionFields DEF Typed
  <2> QED
    BY <1>1, <2>1, <2>2, <2>3
<1>5. UNCHANGED <<inspection, catalog, model, tree>>
  BY DEF github
<1> HIDE DEF c
<1>6. c' = c
  BY <1>5 DEF c
<1> QED
  BY <1>2, <1>3, <1>4, <1>5, <1>6 DEF InspectionOK, c

LEMMA CopiesRewritten ==
    ASSUME Typed, CopiesInv, Latest \in 0 .. head, Latest' \in Latest .. head, points' \subseteq Points,
           UNCHANGED <<github, catalog, model, backup, archive, inspection>>,
           Rewritten(points, points', model, catalog, tree, Latest)
    PROVE  CopiesInv'
<1>1. UNCHANGED <<tree, head, catalog, model, backup, archive, inspection>>
  BY DEF github
<1>2. /\ Latest \in Nat /\ catalog.snapshot <= Latest /\ catalog.snapshot \in Nat
      /\ head \in 0 .. MaxCommits /\ Latest' \in Nat /\ Latest <= Latest'
      /\ TreesOK(tree, head) /\ PointsOK(points', tree, Latest)
  <2>1. /\ Latest \in Nat /\ catalog.snapshot <= Latest /\ catalog.snapshot \in Nat
        /\ head \in 0 .. MaxCommits /\ Latest' \in Nat /\ Latest <= Latest'
    BY CopiesTyped, CatalogFields, KnowledgeAssumption DEF CopiesInv, CatalogOK
  <2> QED
    BY <2>1, RewrittenPoints DEF CopiesInv
<1>3. PointsOK(points', tree, Latest')
  BY <1>2, CopiesTyped, CopyLater
<1>4. ASSUME NEW c \in Catalogs, CopyOK(c, catalog, points, tree, Latest)
      PROVE  CopyOK(c, catalog, points', tree, Latest) /\ CopyOK(c, catalog, points', tree, Latest')
  <2>1. CopyOK(c, catalog, points', tree, Latest)
    BY <1>2, <1>4, CopiesTyped, RewrittenCopy
  <2> QED
    BY <1>2, <2>1, CopiesTyped, CopyLater
<1>5. CopyOK(catalog, catalog, points, tree, Latest) /\ catalog \in Catalogs
  BY CopiesTyped DEF CopiesInv, CatalogOK
<1>6. \A m \in catalog.along : Telling(catalog, m, points', tree)
  BY <1>2, <1>5, CopiesTyped, RewrittenTells DEF CopiesInv, CatalogOK
<1>7. CatalogOK'
  BY <1>1, <1>2, <1>4, <1>5, <1>6 DEF CatalogOK
<1>8. BackupOK'
  <2> SUFFICES ASSUME backup.phase # "idle" PROVE BackupOK'
    BY <1>1 DEF BackupOK
  <2>1. /\ backup.catalog \in Catalogs /\ CopyOK(backup.catalog, catalog, points', tree, Latest)
        /\ CopyOK(backup.catalog, catalog, points', tree, Latest')
    BY <1>4, CopiesTyped DEF CopiesInv, BackupOK
  <2>2. ASSUME NEW m \in backup.catalog.along PROVE Telling(backup.catalog, m, points', tree)
    <3>1. CASE m = model
      BY <1>4, <1>5, <1>6, <2>1, <3>1, CopyTells DEF CopiesInv, BackupOK
    <3>2. CASE m # model
      BY <3>2, OthersTell, CopiesTyped DEF CopiesInv, BackupOK
    <3> QED
      BY <3>1, <3>2
  <2>3. model \in backup.catalog.along => model \in catalog.along
    BY DEF CopiesInv, BackupOK
  <2> QED
    BY <1>1, <2>1, <2>2, <2>3 DEF BackupOK
<1>9. ArchiveOK'
  <2> SUFFICES ASSUME archive.phase # "idle" PROVE ArchiveOK'
    BY <1>1 DEF ArchiveOK
  <2>1. /\ archive.catalog \in Catalogs /\ archive.points \in SUBSET Points
        /\ CopyOK(archive.catalog, catalog, points, tree, Latest)
        /\ CopyOK(archive.catalog, catalog, points', tree, Latest')
        /\ PointsOK(archive.points, tree, Latest)
        /\ \A m \in archive.catalog.by : Kept(archive.catalog, m, archive.points, tree, Latest)
    BY <1>4, CopiesTyped DEF CopiesInv, ArchiveOK
  <2>2. archive.catalog.snapshot <= Latest /\ Pinned(archive.catalog, tree)
    BY <1>2, <2>1, CatalogFields, KnowledgeAssumption DEF CopyOK
  <2>3. /\ PointsOK(archive.points, tree, Latest')
        /\ \A m \in archive.catalog.by : Kept(archive.catalog, m, archive.points, tree, Latest')
    BY <1>2, <2>1, <2>2, CopiesTyped, CopyLater
  <2> QED
    BY <1>1, <2>1, <2>3 DEF CopiesInv, ArchiveOK
<1>10. InspectionOK'
  BY InspectionRewritten
<1> QED
  BY <1>1, <1>2, <1>3, <1>7, <1>8, <1>9, <1>10 DEF CopiesInv

\* Commits are pushed, or syncs and index commands begin and end.
LEMMA CopiesGrow ==
    ASSUME Typed, Typed', CopiesInv, UNCHANGED <<catalog, points, model, backup, archive, inspection>>,
           head' \in head .. MaxCommits, \A d \in 1 .. head : tree'[d] = tree[d], TreesOK(tree', head'),
           Latest \in 0 .. head, Latest' \in Latest .. head'
    PROVE  CopiesInv'
<1>1. /\ points \in SUBSET Points /\ catalog \in Catalogs /\ tree \in [Commits -> Contents]
      /\ tree' \in [Commits -> Contents] /\ head \in 0 .. MaxCommits
      /\ PointsOK(points, tree, Latest)
  <2>1. tree' \in [Commits -> Contents]
    BY DEF Typed, TypeOK
  <2> QED
    BY <2>1, CopiesTyped DEF CopiesInv
<1>2. /\ PointsOK(points, tree', Latest')
      /\ \A c \in Catalogs : c.snapshot <= Latest /\ Pinned(c, tree) =>
                /\ Pinned(c, tree')
                /\ \A m : Kept(c, m, points, tree, Latest) => Kept(c, m, points, tree', Latest')
                /\ \A m : Telling(c, m, points, tree) => Telling(c, m, points, tree')
  BY <1>1, NowGrows
<1>3. catalog.snapshot <= Latest /\ catalog.snapshot \in Nat
  BY <1>1, CatalogFields, KnowledgeAssumption DEF CopiesInv, CatalogOK
<1>4. Latest \in Nat /\ Latest' \in Nat /\ Latest <= Latest'
  BY <1>1, KnowledgeAssumption
<1>5. ASSUME NEW c \in Catalogs, CopyOK(c, catalog, points, tree, Latest)
      PROVE  CopyOK(c, catalog, points, tree', Latest')
  <2>1. c.snapshot <= Latest /\ Pinned(c, tree)
    BY <1>3, <1>4, <1>5, CatalogFields, KnowledgeAssumption DEF CopyOK
  <2> QED
    BY <1>2, <1>5, <2>1 DEF CopyOK
<1>6. ASSUME NEW c \in Catalogs, CopyOK(c, catalog, points, tree, Latest)
      PROVE  c.snapshot <= Latest /\ Pinned(c, tree)
  BY <1>3, <1>4, <1>6, CatalogFields, KnowledgeAssumption DEF CopyOK
<1>7. CatalogOK'
  <2>1. CopyOK(catalog, catalog, points, tree', Latest')
    BY <1>1, <1>5 DEF CopiesInv, CatalogOK
  <2>2. \A m \in catalog.along : Telling(catalog, m, points, tree')
    BY <1>1, <1>2, <1>6 DEF CopiesInv, CatalogOK
  <2>3. catalog.snapshot <= Latest'
    BY <1>3, <1>4
  <2> QED
    BY <2>1, <2>2, <2>3 DEF CatalogOK
<1>8. BackupOK'
  <2> SUFFICES ASSUME backup.phase # "idle" PROVE BackupOK'
    BY DEF BackupOK
  <2>1. backup.catalog \in Catalogs /\ CopyOK(backup.catalog, catalog, points, tree, Latest)
    BY CopiesTyped DEF CopiesInv, BackupOK
  <2>2. CopyOK(backup.catalog, catalog, points, tree', Latest')
    BY <1>5, <2>1
  <2>3. \A m \in backup.catalog.along : Telling(backup.catalog, m, points, tree')
    BY <1>2, <1>6, <2>1 DEF CopiesInv, BackupOK
  <2> QED
    BY <2>2, <2>3 DEF CopiesInv, BackupOK
<1>9. ArchiveOK'
  <2> SUFFICES ASSUME archive.phase # "idle" PROVE ArchiveOK'
    BY DEF ArchiveOK
  <2>1. /\ archive.catalog \in Catalogs /\ archive.points \in SUBSET Points
        /\ CopyOK(archive.catalog, catalog, points, tree, Latest)
        /\ PointsOK(archive.points, tree, Latest)
    BY CopiesTyped DEF CopiesInv, ArchiveOK
  <2>2. CopyOK(archive.catalog, catalog, points, tree', Latest')
    BY <1>5, <2>1
  <2>3. archive.catalog.snapshot <= Latest /\ Pinned(archive.catalog, tree)
    BY <1>6, <2>1
  <2>4. /\ PointsOK(archive.points, tree', Latest')
        /\ \A m : Kept(archive.catalog, m, archive.points, tree, Latest)
                  => Kept(archive.catalog, m, archive.points, tree', Latest')
        /\ \A m : Telling(archive.catalog, m, archive.points, tree)
                  => Telling(archive.catalog, m, archive.points, tree')
    BY <1>1, <2>1, <2>3, NowGrows
  <2> QED
    BY <2>2, <2>4 DEF CopiesInv, ArchiveOK
<1>10. InspectionOK'
  <2> SUFFICES ASSUME inspection.phase # "idle" PROVE InspectionOK'
    BY DEF InspectionOK
  <2>1. inspection.catalog \in Catalogs /\ CopyOK(inspection.catalog, catalog, points, tree, Latest)
    BY CopiesTyped DEF CopiesInv, InspectionOK
  <2>2. CopyOK(inspection.catalog, catalog, points, tree', Latest')
    BY <1>5, <2>1
  <2>3. \A s : Counted({s})' = Counted({s})
    BY DEF Counted, Current
  <2>4. inspection.catalog.snapshot < Latest => inspection.catalog.snapshot < Latest'
    BY <1>4, <2>1, CatalogFields, KnowledgeAssumption
  <2>5. UNCHANGED <<inspection, catalog, model, points>>
    OBVIOUS
  <2>6. InspectionOK
    BY DEF CopiesInv
  <2> QED
    BY <2>2, <2>3, <2>4, <2>5, <2>6 DEF InspectionOK
<1> QED
  BY <1>2, <1>7, <1>8, <1>9, <1>10 DEF CopiesInv

-----------------------------------------------------------------------------
(* What each request to Qdrant does to the points.                         *)

LEMMA UpsertRewrites ==
    ASSUME Typed, NEW now \in Commits, PointsOK(points, tree, now),
           NEW paths \in SUBSET FilesOf(tree[now]), paths # {}
    PROVE  Rewritten(points, Upserted(paths, now), model, catalog, tree, now)
<1>1. \A p \in paths : /\ Chunk(p, now) \in Upserted(paths, now) /\ Chunk(p, now).model = model
                       /\ Chunk(p, now).path = p /\ Chunk(p, now).at = now /\ Chunk(p, now).label = now
  BY CopiesTyped, ChunkFields DEF Upserted, FilesOf
<1>2. \A x : x \in Upserted(paths, now) <=>
        (x \in points /\ ~(x.model = model /\ x.path \in paths /\ x.at = now))
        \/ \E p \in paths : x = Chunk(p, now)
  BY DEF Upserted, Current
<1>3. \A x \in Points : x.model # model => (x \in Upserted(paths, now) <=> x \in points)
  BY <1>1, <1>2
<1>4. \A x \in Upserted(paths, now) :
        x \in points \/ (x.at <= now /\ x.label = now /\ x.path \in FilesOf(tree[now]))
  BY <1>1, <1>2, KnowledgeAssumption DEF Commits
<1>5. ASSUME NEW x \in points, x.model = model, tree[now][x.path] # 0,
             tree[x.at][x.path] = tree[now][x.path]
      PROVE  \E y \in Upserted(paths, now) :
                y.model = model /\ y.path = x.path /\ y.label \in {x.label, now}
                /\ tree[y.at][x.path] = tree[x.at][x.path]
  <2>1. CASE x.path \in paths
    BY <1>1, <1>5, <2>1
  <2>2. CASE x.path \notin paths
    BY <1>2, <1>5, <2>2
  <2> QED
    BY <2>1, <2>2
<1>6. \E x \in Upserted(paths, now) : x.model = model /\ x.label = now
  BY <1>1
<1> QED
  BY <1>3, <1>4, <1>5, <1>6 DEF Rewritten

LEMMA RelabelRewrites ==
    ASSUME Typed, NEW now \in Commits, PointsOK(points, tree, now),
           NEW paths \in SUBSET FilesOf(tree[now])
    PROVE  /\ Rewritten(points, Relabelled(paths, now), model, catalog, tree, now)
           /\ Cleared(paths, now, Relabelled(paths, now))
<1> DEFINE old == {x \in points : x.model = model /\ x.path \in paths}
           new == {[x EXCEPT !.label = now] : x \in old}
<1>1. Relabelled(paths, now) = (points \ old) \cup new
  <2>1. \A x \in points : x.label # 0
    BY CopiesTyped, PointFields DEF Commits
  <2>2. PointsOf(paths, 0) = old
    BY <2>1 DEF PointsOf, Current
  <2> QED
    BY <2>2 DEF Relabelled
<1>2. ASSUME NEW x \in old
      PROVE  \E y \in new : /\ y = [x EXCEPT !.label = now] /\ y \in Points /\ y.model = model
                            /\ y.path = x.path /\ y.at = x.at /\ y.label = now
  <2>1. PICK y : y = [x EXCEPT !.label = now]
    OBVIOUS
  <2>2. y \in new
    BY <2>1
  <2>3. x \in Points
    BY CopiesTyped
  <2>4. y \in Points /\ y.model = x.model /\ y.path = x.path /\ y.at = x.at /\ y.label = now
    BY <2>1, <2>3, RelabelFields
  <2> QED
    BY <2>1, <2>2, <2>4
<1>3. \A y \in new : \E x \in old : /\ y \in Points /\ y.model = model /\ y.path = x.path
                                    /\ y.at = x.at /\ y.label = now
  <2> SUFFICES ASSUME NEW y \in new
               PROVE  \E x \in old : y \in Points /\ y.model = model /\ y.path = x.path
                                     /\ y.at = x.at /\ y.label = now
    OBVIOUS
  <2>1. PICK x \in old : y = [x EXCEPT !.label = now]
    OBVIOUS
  <2> QED
    BY <1>2, <2>1
<1>4. old \subseteq points /\ \A x \in old : x.model = model /\ x.path \in paths
  OBVIOUS
<1>5. \A x \in points : x.model = model /\ x.path \in paths => x \in old
  OBVIOUS
<1> HIDE DEF old, new
<1>6. \A x \in Points : x.model # model => (x \in (points \ old) \cup new <=> x \in points)
  BY <1>3, <1>4
<1>7. \A x \in (points \ old) \cup new :
        x \in points \/ (x.at <= now /\ x.label = now /\ x.path \in FilesOf(tree[now]))
  BY <1>3, <1>4 DEF PointsOK
<1>8. ASSUME NEW x \in points, x.model = model
      PROVE  \E y \in (points \ old) \cup new :
                y.model = model /\ y.path = x.path /\ y.label \in {x.label, now} /\ y.at = x.at
  <2>1. CASE x \in old
    BY <1>2, <2>1
  <2>2. CASE x \notin old
    BY <1>8, <2>2
  <2> QED
    BY <2>1, <2>2
<1>9. (points \ old) \cup new = points \/ \E x \in (points \ old) \cup new : x.model = model /\ x.label = now
  <2>1. CASE old = {}
    <3>1. new = {}
      BY <1>3, <2>1
    <3> QED
      BY <2>1, <3>1
  <2>2. CASE old # {}
    BY <1>2, <2>2
  <2> QED
    BY <2>1, <2>2
<1>10. Cleared(paths, now, (points \ old) \cup new)
  BY <1>3, <1>5 DEF Cleared
<1>11. Rewritten(points, (points \ old) \cup new, model, catalog, tree, now)
  <2>1. \A x \in points : x.model = model /\ tree[now][x.path] # 0 /\ tree[x.at][x.path] = tree[now][x.path] =>
          \E y \in (points \ old) \cup new : y.model = model /\ y.path = x.path /\ y.label \in {x.label, now}
                         /\ tree[y.at][x.path] = tree[x.at][x.path]
    BY <1>8
  <2> QED
    BY <1>6, <1>7, <1>9, <2>1 DEF Rewritten
<1> QED
  BY <1>1, <1>10, <1>11

\* Deleting points of paths that the commit has not, or has its own points of.
LEMMA DeleteRewrites ==
    ASSUME Typed, NEW now \in Commits, PointsOK(points, tree, now), NEW paths,
           \A p \in paths \cap FilesOf(tree[now]) : Chunk(p, now) \in points,
           LET new == points \ PointsOf(paths, now)
           IN  \/ \E x \in new : x.model = model /\ x.label = now
               \/ model \in catalog.along => Gone(catalog, model, new)
    PROVE  /\ Rewritten(points, points \ PointsOf(paths, now), model, catalog, tree, now)
           /\ Cleared(paths, now, points \ PointsOf(paths, now))
<1> DEFINE new == points \ PointsOf(paths, now)
<1>1. \A x : x \in new <=> x \in points /\ ~(x.model = model /\ x.path \in paths /\ x.label # now)
  BY DEF PointsOf, Current
<1> HIDE DEF new
<1>2. ASSUME NEW x \in points, x.model = model, tree[now][x.path] # 0,
             tree[x.at][x.path] = tree[now][x.path]
      PROVE  \E y \in new : y.model = model /\ y.path = x.path /\ y.label \in {x.label, now}
                            /\ tree[y.at][x.path] = tree[x.at][x.path]
  <2>1. CASE x \in new
    BY <1>2, <2>1
  <2>2. CASE x \notin new
    <3>1. x.path \in paths /\ x.path \in Paths
      BY <1>1, <1>2, <2>2, CopiesTyped, PointFields
    <3>2. Chunk(x.path, now) \in points
      BY <1>2, <3>1 DEF FilesOf
    <3>3. Chunk(x.path, now).model = model /\ Chunk(x.path, now).path = x.path
          /\ Chunk(x.path, now).at = now /\ Chunk(x.path, now).label = now
      BY <3>1, CopiesTyped, ChunkFields
    <3>4. Chunk(x.path, now) \in new
      BY <1>1, <3>2, <3>3
    <3> QED
      BY <1>2, <3>3, <3>4
  <2> QED
    BY <2>1, <2>2
<1>3. Cleared(paths, now, new)
  BY <1>1 DEF Cleared
<1>4. \/ \E x \in new : x.model = model /\ x.label = now
      \/ model \in catalog.along => Gone(catalog, model, new)
  BY DEF new
<1>5. Rewritten(points, new, model, catalog, tree, now)
  BY <1>1, <1>2, <1>4 DEF Rewritten
<1> QED
  BY <1>3, <1>5 DEF new

-----------------------------------------------------------------------------
(* The steps keep the invariant.                                           *)

\* Nobody runs the index command while a sync is on its way, nor the reverse.
Apart == ~IndexOverlaps

LEMMA PushKeeps == ASSUME Typed, Typed', KnowledgeInv, Push PROVE KnowledgeInv'
<1>1. PICK changed \in SUBSET Paths, gone \in SUBSET Paths :
        tree' = [tree EXCEPT ![head + 1] = [p \in Paths |->
                    IF p \in gone THEN 0 ELSE IF p \in changed \/ head = 0 THEN head + 1
                    ELSE tree[head][p]]]
  BY DEF Push
<1>2. /\ tree \in [Commits -> Contents] /\ head \in 0 .. MaxCommits /\ head + 1 \in Commits
      /\ head' = head + 1
  BY CopiesTyped, KnowledgeAssumption DEF Push, Commits
<1>3. /\ \A d \in 1 .. head : tree'[d] = tree[d] /\ d \in Commits
      /\ \A p \in Paths : tree'[head + 1][p] \in {0, head + 1} \/ (head # 0 /\ tree'[head + 1][p] = tree[head][p])
  BY <1>1, <1>2, KnowledgeAssumption DEF Commits
<1>4. TreesOK(tree', head')
  <2> SUFFICES ASSUME NEW c \in 1 .. head + 1, NEW d \in 1 .. head + 1, c <= d, NEW p \in Paths
               PROVE  tree'[c][p] <= c
                      /\ (tree'[d][p] = tree'[c][p] \/ tree'[d][p] = 0 \/ tree'[d][p] > c)
    BY <1>2 DEF TreesOK
  <2>1. TreesOK(tree, head)
    BY DEF KnowledgeInv, CopiesInv
  <2>2. CASE d <= head
    BY <1>2, <1>3, <2>1, <2>2 DEF TreesOK
  <2>3. CASE d = head + 1 /\ c = d
    <3>1. head # 0 => head \in Commits /\ tree[head][p] <= head /\ tree[head][p] \in Nat
      BY <1>2, <1>3, <2>1, KnowledgeAssumption DEF TreesOK, Contents, Commits
    <3> QED
      BY <1>2, <1>3, <2>3, <3>1
  <2>4. CASE d = head + 1 /\ c <= head
    <3>1. tree'[c][p] = tree[c][p] /\ tree[c][p] <= c /\ head \in 1 .. head
          /\ (tree[head][p] = tree[c][p] \/ tree[head][p] = 0 \/ tree[head][p] > c)
      BY <1>2, <1>3, <2>1, <2>4 DEF TreesOK
    <3> QED
      BY <1>2, <1>3, <2>4, <3>1
  <2> QED
    BY <1>2, <2>2, <2>3, <2>4
<1>5. UNCHANGED <<catalog, points, model, backup, archive, inspection, sync, indexer>>
  BY DEF Push, qdrant
<1>6. Latest \in 0 .. head /\ Latest' \in Latest .. head'
  BY <1>2, <1>5, LatestTyped, KnowledgeAssumption DEF KnowledgeInv, Latest
<1>7. CopiesInv'
  <2>1. head' \in head .. MaxCommits /\ \A d \in 1 .. head : tree'[d] = tree[d]
    BY <1>2, <1>3, KnowledgeAssumption DEF Commits
  <2> QED
    BY <1>4, <1>5, <1>6, <2>1, CopiesGrow DEF KnowledgeInv
<1>8. SyncOK'
  <2> SUFFICES ASSUME sync.phase # "idle" PROVE SyncOK'
    BY <1>5 DEF SyncOK
  <2>1. sync.to \in Commits /\ sync.to <= head
    BY SyncFields DEF KnowledgeInv, SyncOK, Typed
  <2>2. tree'[sync.to] = tree[sync.to] /\ sync.to <= head'
    BY <1>2, <1>3, <2>1, KnowledgeAssumption DEF Commits
  <2>3. PlanOK => PlanOK'
    BY <1>5, <2>2 DEF PlanOK
  <2>4. Progress => Progress'
    BY <1>5, <2>2 DEF Progress, Past, Written, Cleared, Chunk
  <2> QED
    BY <1>5, <2>2, <2>3, <2>4 DEF KnowledgeInv, SyncOK
<1>9. IndexerOK'
  <2> SUFFICES ASSUME indexer.phase # "idle" PROVE IndexerOK'
    BY <1>5 DEF IndexerOK
  <2>1. indexer.to \in Commits /\ indexer.to <= head
    BY IndexerFields DEF KnowledgeInv, IndexerOK, Typed
  <2>2. tree'[indexer.to] = tree[indexer.to] /\ indexer.to <= head'
    BY <1>2, <1>3, <2>1, KnowledgeAssumption DEF Commits
  <2> QED
    BY <1>5, <2>2 DEF KnowledgeInv, IndexerOK, Written, Chunk
<1>10. PublishedIsServed'
  <2>1. \A x \in points : tree'[x.at] = tree[x.at]
    BY <1>2, <1>3, <1>6, CopiesTyped, PointFields, KnowledgeAssumption
       DEF KnowledgeInv, CopiesInv, PointsOK, Commits
  <2>2. Serves(catalog) => Serves(catalog)'
    BY <1>5, <2>1 DEF Serves, Current
  <2> QED
    BY <1>5, <2>2 DEF KnowledgeInv, PublishedIsServed
<1>11. PassedWasServed'
  BY <1>5 DEF KnowledgeInv, PassedWasServed
<1> QED
  BY <1>7, <1>8, <1>9, <1>10, <1>11 DEF KnowledgeInv

\* A sync or an index command begins, is released or fails.
LEMMA JobsKeep ==
    ASSUME Typed, Typed', KnowledgeInv, UNCHANGED <<github, catalog, qdrant, model, backup, archive, inspection>>,
           Latest' \in Latest .. head, SyncOK', IndexerOK', sync'.phase = "published" => UNCHANGED sync
    PROVE  KnowledgeInv'
<1>1. UNCHANGED <<tree, head, catalog, points, model, backup, archive, inspection>>
  BY DEF github, qdrant
<1>2. /\ Latest \in 0 .. head /\ head \in 0 .. MaxCommits /\ TreesOK(tree, head)
  BY LatestTyped, CopiesTyped DEF KnowledgeInv, CopiesInv
<1>3. CopiesInv'
  <2>1. head' \in head .. MaxCommits /\ Latest' \in Latest .. head' /\ TreesOK(tree', head')
        /\ \A d \in 1 .. head : tree'[d] = tree[d]
    BY <1>1, <1>2, KnowledgeAssumption
  <2> QED
    BY <1>1, <1>2, <2>1, CopiesGrow DEF KnowledgeInv
<1>4. PublishedIsServed' /\ PassedWasServed'
  BY <1>1 DEF KnowledgeInv, PublishedIsServed, PassedWasServed, Serves, Current
<1> QED
  BY <1>3, <1>4 DEF KnowledgeInv

LEMMA StartSyncKeeps == ASSUME Apart, Typed, Typed', KnowledgeInv, StartSync PROVE KnowledgeInv'
<1>1. sync.phase = "idle" /\ indexer.phase = "idle" /\ head \in Commits
  BY CopiesTyped, KnowledgeAssumption DEF StartSync, Apart, Commits
<1>2. sync'.phase = "index" /\ sync'.to = head /\ UNCHANGED <<github, catalog, qdrant, model, indexer, backup, archive, inspection>>
  BY DEF StartSync
<1>3. Latest' = head /\ Latest = head
  BY <1>1, <1>2 DEF Latest
<1>4. Latest' \in Latest .. head
  BY <1>1, <1>3, KnowledgeAssumption DEF Commits
<1>5. SyncOK'
  <2>1. sync'.to <= head' /\ indexer'.phase = "idle" /\ UNCHANGED <<tree, catalog, model, points>>
    BY <1>1, <1>2, KnowledgeAssumption DEF github, qdrant, Commits
  <2>2. PlanOK'
    BY <1>2, <2>1 DEF StartSync, PlanOK
  <2>3. Progress'
    <3>1. sync'.todo = FilesOf(tree[head]) \ sync'.unchanged
      BY DEF StartSync
    <3> QED
      BY <1>2, <2>1, <3>1 DEF Progress, Past, Written
  <2> QED
    BY <2>1, <2>2, <2>3 DEF SyncOK
<1>6. IndexerOK'
  BY <1>1, <1>2 DEF IndexerOK
<1> QED
  BY <1>2, <1>4, <1>5, <1>6, JobsKeep

LEMMA EndingKeeps ==
    ASSUME Typed, Typed', KnowledgeInv, Release \/ SyncFails \/ IndexFails
    PROVE  KnowledgeInv'
<1>1. UNCHANGED <<github, catalog, qdrant, model, backup, archive, inspection>>
  BY DEF Release, SyncFails, IndexFails
<1>2. Latest \in 0 .. head /\ head \in Nat
  BY LatestTyped, CopiesTyped, KnowledgeAssumption DEF KnowledgeInv
<1>3. CASE Release \/ SyncFails
  <2>1. sync' = Idle /\ sync'.phase = "idle" /\ indexer' = indexer /\ sync.phase # "idle"
    BY <1>3 DEF Release, SyncFails, Idle
  <2>2. indexer.phase = "idle"
    BY <2>1 DEF KnowledgeInv, SyncOK
  <2>3. Latest' = head
    BY <1>1, <2>1, <2>2 DEF Latest, github
  <2>4. SyncOK' /\ IndexerOK'
    BY <2>1, <2>2 DEF SyncOK, IndexerOK
  <2> QED
    BY <1>1, <1>2, <2>1, <2>3, <2>4, JobsKeep
<1>4. CASE IndexFails
  <2>1. indexer' = Idle /\ indexer'.phase = "idle" /\ sync' = sync /\ indexer.phase # "idle"
    BY <1>4 DEF IndexFails, Idle
  <2>2. sync.phase = "idle"
    BY <2>1 DEF KnowledgeInv, SyncOK
  <2>3. Latest' = head
    BY <1>1, <2>1, <2>2 DEF Latest, github
  <2>4. SyncOK' /\ IndexerOK'
    BY <2>1, <2>2 DEF SyncOK, IndexerOK
  <2> QED
    BY <1>1, <1>2, <2>1, <2>2, <2>3, <2>4, JobsKeep
<1> QED
  BY <1>3, <1>4

LEMMA StartIndexKeeps == ASSUME Apart, Typed, Typed', KnowledgeInv, StartIndex PROVE KnowledgeInv'
<1>1. sync.phase = "idle" /\ indexer.phase = "idle" /\ head \in Commits
  BY CopiesTyped, KnowledgeAssumption DEF StartIndex, Apart, Commits
<1>2. PICK chosen \in (SUBSET FilesOf(tree[head])) \ {{}}, limited \in BOOLEAN :
        /\ ~limited => chosen = FilesOf(tree[head])
        /\ indexer' = [phase |-> "index", to |-> head, todo |-> chosen, limited |-> limited]
  BY DEF StartIndex
<1>3. UNCHANGED <<github, catalog, qdrant, model, sync, backup, archive, inspection>>
  BY DEF StartIndex
<1>4. Latest' = head /\ Latest = head
  BY <1>1, <1>2, <1>3 DEF Latest
<1>5. Latest' \in Latest .. head
  BY <1>1, <1>4, KnowledgeAssumption DEF Commits
<1>6. SyncOK'
  BY <1>1, <1>3 DEF SyncOK
<1>7. IndexerOK'
  <2>1. /\ indexer'.to = head /\ indexer'.todo = chosen /\ indexer'.limited = limited
        /\ tree' = tree /\ head' = head /\ head <= head
    BY <1>1, <1>2, <1>3, KnowledgeAssumption DEF github, Commits
  <2> QED
    BY <1>2, <2>1 DEF IndexerOK, Written
<1> QED
  BY <1>1, <1>3, <1>5, <1>6, <1>7, JobsKeep

LEMMA NothingRewritten ==
    ASSUME NEW trees, NEW now, NEW md, NEW cat, NEW pts
    PROVE  Rewritten(pts, pts, md, cat, trees, now)
BY DEF Rewritten

\* A sync or an index command writes to the storage.
LEMMA WriteKeeps ==
    ASSUME Typed, Typed', KnowledgeInv, Latest' \in Latest .. head,
           UNCHANGED <<github, catalog, model, backup, archive, inspection>>,
           Rewritten(points, points', model, catalog, tree, Latest),
           sync'.phase # "published", SyncOK', IndexerOK'
    PROVE  KnowledgeInv'
<1>1. points' \subseteq Points
  BY DEF Typed, TypeOK
<1>2. CopiesInv'
  BY <1>1, LatestTyped, CopiesRewritten DEF KnowledgeInv
<1>3. PublishedIsServed' /\ PassedWasServed'
  BY DEF KnowledgeInv, PublishedIsServed, PassedWasServed
<1> QED
  BY <1>2, <1>3 DEF KnowledgeInv

\* What a sync that has not published has to go by.
LEMMA UnderWay ==
    ASSUME Typed, KnowledgeInv, sync.phase # "idle", sync.phase # "published"
    PROVE  /\ sync.to \in Commits /\ sync.to \in Nat /\ Latest = sync.to /\ sync.to <= head
           /\ indexer.phase = "idle" /\ PlanOK /\ Progress
           /\ PointsOK(points, tree, sync.to) /\ CopyOK(catalog, catalog, points, tree, sync.to)
           /\ sync.unchanged \subseteq FilesOf(tree[sync.to])
           /\ sync.modified \subseteq FilesOf(tree[sync.to]) \ sync.unchanged
<1>1. Latest = sync.to /\ sync.to \in Commits /\ sync.to \in Nat
  BY SyncFields, KnowledgeAssumption DEF Latest, Typed, Commits
<1>2. PlanOK /\ Progress /\ sync.to <= head /\ indexer.phase = "idle"
  BY DEF KnowledgeInv, SyncOK
<1>3. PointsOK(points, tree, sync.to) /\ CopyOK(catalog, catalog, points, tree, sync.to)
  BY <1>1 DEF KnowledgeInv, CopiesInv, CatalogOK
<1>4. /\ sync.unchanged \subseteq FilesOf(tree[sync.to])
      /\ sync.modified \subseteq FilesOf(tree[sync.to]) \ sync.unchanged
  BY <1>2 DEF PlanOK
<1> QED
  BY <1>1, <1>2, <1>3, <1>4

LEMMA IndexBatchKeeps == ASSUME Typed, Typed', KnowledgeInv, IndexBatch PROVE KnowledgeInv'
<1>1. PICK batch \in (SUBSET sync.todo) \ {{}} :
        points' = Upserted(batch, sync.to) /\ sync' = [sync EXCEPT !.todo = @ \ batch]
  BY DEF IndexBatch
<1>2. sync.phase = "index" /\ UNCHANGED <<github, catalog, model, indexer, backup, archive, inspection>>
      /\ tree' = tree /\ head' = head
  BY DEF IndexBatch, github
<1>3. sync \in Syncs
  BY <1>2, SyncFields DEF Typed
<1>4. /\ sync'.phase = "index" /\ sync'.to = sync.to /\ sync'.from = sync.from
      /\ sync'.todo = sync.todo \ batch /\ sync'.unchanged = sync.unchanged
      /\ sync'.modified = sync.modified /\ sync'.deleted = sync.deleted
  BY <1>1, <1>2, <1>3 DEF Syncs
<1>5. Latest' \in Latest .. head /\ Latest = sync.to
  BY <1>2, <1>4, UnderWay, CopiesTyped, KnowledgeAssumption DEF Latest
<1>6. batch \in SUBSET FilesOf(tree[sync.to]) /\ batch # {} /\ batch \subseteq Paths
  BY <1>1, <1>2, UnderWay DEF Progress, FilesOf
<1>7. Rewritten(points, points', model, catalog, tree, Latest)
  BY <1>1, <1>2, <1>5, <1>6, UnderWay, UpsertRewrites
<1>8. SyncOK'
  <2>1. PlanOK'
    BY <1>2, <1>4, UnderWay DEF PlanOK
  <2>2. Progress'
    <3>1. ASSUME NEW p \in (FilesOf(tree[sync.to]) \ sync.unchanged) \ sync'.todo
          PROVE  Chunk(p, sync.to) \in points'
      <4>1. CASE p \in batch
        BY <1>1, <4>1 DEF Upserted
      <4>2. CASE p \notin batch
        <5>1. Chunk(p, sync.to) \in points /\ p \in Paths
          BY <1>2, <1>4, <4>2, UnderWay DEF Progress, Written, FilesOf
        <5>2. Chunk(p, sync.to).path = p
          BY DEF Chunk
        <5> QED
          BY <1>1, <4>2, <5>1, <5>2 DEF Upserted
      <4> QED
        BY <4>1, <4>2
    <3>2. sync'.todo \subseteq FilesOf(tree[sync.to]) \ sync.unchanged
      BY <1>2, <1>4, UnderWay DEF Progress
    <3>3. \A p : Chunk(p, sync.to)' = Chunk(p, sync.to)
      BY <1>2, <1>4 DEF Chunk
    <3> QED
      BY <1>2, <1>4, <3>1, <3>2, <3>3 DEF Progress, Past, Written
  <2> QED
    BY <1>2, <1>4, <2>1, <2>2, UnderWay DEF SyncOK
<1>9. IndexerOK'
  BY <1>2, UnderWay DEF IndexerOK
<1> QED
  BY <1>2, <1>4, <1>5, <1>7, <1>8, <1>9, WriteKeeps

\* A request of _apply_qdrant_snapshot is made, is not needed or is refused.
LEMMA RequestKeeps ==
    ASSUME Typed, Typed', KnowledgeInv, NEW done, NEW needed \in BOOLEAN, NEW result,
           NEW next \in {"delete_modified", "delete_removed", "remove_stale", "complete"},
           sync.phase # "idle", sync.phase # "published", Request(done, next, needed, result),
           needed => Rewritten(points, result, model, catalog, tree, sync.to),
           points' = (IF needed THEN result ELSE points) /\ sync' = [sync EXCEPT !.phase = next] => Progress'
    PROVE  KnowledgeInv'
<1>1. /\ UNCHANGED <<github, catalog, collections, model, indexer, backup, archive, inspection>>
      /\ tree' = tree /\ head' = head
  BY DEF Request, github
<1>2. Latest = sync.to /\ Latest \in Commits /\ Latest <= head /\ head \in Nat /\ Latest \in Nat
  BY UnderWay, CopiesTyped, KnowledgeAssumption
<1>3. CASE needed /\ ~HasCollection
  <2>1. sync' = Idle /\ sync'.phase = "idle" /\ UNCHANGED qdrant
    BY <1>1, <1>3 DEF Request, Idle, qdrant
  <2>2. Latest' = head
    BY <1>1, <2>1, UnderWay DEF Latest
  <2>3. SyncOK' /\ IndexerOK'
    BY <1>1, <2>1, UnderWay DEF SyncOK, IndexerOK
  <2> QED
    BY <1>1, <1>2, <2>1, <2>2, <2>3, JobsKeep
<1>4. CASE ~(needed /\ ~HasCollection)
  <2>1. sync' = [sync EXCEPT !.phase = next] /\ points' = IF needed THEN result ELSE points
    BY <1>4 DEF Request
  <2>2. sync \in Syncs
    BY SyncFields DEF Typed
  <2>3. /\ sync'.phase = next /\ sync'.to = sync.to /\ sync'.from = sync.from
        /\ sync'.unchanged = sync.unchanged /\ sync'.modified = sync.modified
        /\ sync'.deleted = sync.deleted
    BY <2>1, <2>2 DEF Syncs
  <2>4. Latest' \in Latest .. head
    BY <1>2, <2>3 DEF Latest
  <2>5. Rewritten(points, points', model, catalog, tree, Latest)
    BY <1>2, <2>1, NothingRewritten
  <2>6. PlanOK'
    BY <1>1, <2>3, UnderWay DEF PlanOK
  <2>7. SyncOK' /\ IndexerOK'
    BY <1>1, <2>1, <2>3, <2>6, UnderWay DEF SyncOK, IndexerOK
  <2> QED
    BY <1>1, <1>2, <2>3, <2>4, <2>5, <2>7, WriteKeeps
<1> QED
  BY <1>3, <1>4

\* How far a sync is once it moves on to the phase next, without having lost
\* a point it wrote or brought back one it cleared.
LEMMA ProgressMoves ==
    ASSUME Typed, KnowledgeInv, sync.phase # "idle", sync.phase # "published", sync.todo = {},
           NEW next \in {"delete_modified", "delete_removed", "remove_stale", "complete"},
           sync' = [sync EXCEPT !.phase = next], UNCHANGED <<tree, model>>,
           Written(FilesOf(tree[sync.to]) \ sync.unchanged, sync.to, points'),
           sync.from # sync.to => Cleared(sync.unchanged, sync.to, points'),
           next # "delete_modified" => Cleared(sync.modified, sync.to, points'),
           next \notin {"delete_modified", "delete_removed"} => Cleared(sync.deleted, sync.to, points')
    PROVE  Progress'
<1>1. sync \in Syncs
  BY SyncFields DEF Typed
<1>2. /\ sync'.phase = next /\ sync'.to = sync.to /\ sync'.from = sync.from /\ sync'.todo = {}
      /\ sync'.unchanged = sync.unchanged /\ sync'.modified = sync.modified
      /\ sync'.deleted = sync.deleted
  BY <1>1 DEF Syncs
<1> QED
  BY <1>2 DEF Progress, Past, Written, Cleared, Chunk

LEMMA UpdateUnchangedKeeps == ASSUME Typed, Typed', KnowledgeInv, UpdateUnchanged PROVE KnowledgeInv'
<1> DEFINE needed == sync.from # sync.to /\ sync.unchanged # {}
           result == Relabelled(sync.unchanged, sync.to)
<1>1. sync.phase = "index" /\ sync.todo = {} /\ Request("index", "delete_modified", needed, result)
  BY DEF UpdateUnchanged, Request
<1>2. Rewritten(points, result, model, catalog, tree, sync.to) /\ Cleared(sync.unchanged, sync.to, result)
  BY <1>1, UnderWay, RelabelRewrites
<1>3. Written(FilesOf(tree[sync.to]) \ sync.unchanged, sync.to, points)
  BY <1>1, UnderWay DEF Progress
<1>4. Written(FilesOf(tree[sync.to]) \ sync.unchanged, sync.to, result)
  <2> SUFFICES ASSUME NEW p \in FilesOf(tree[sync.to]) \ sync.unchanged
               PROVE  Chunk(p, sync.to) \in result
    BY DEF Written
  <2>1. Chunk(p, sync.to) \in points /\ Chunk(p, sync.to).path = p
    BY <1>3 DEF Written, Chunk
  <2> QED
    BY <2>1 DEF Relabelled, PointsOf
<1>5. ~needed /\ sync.from # sync.to => Cleared(sync.unchanged, sync.to, points)
  BY DEF Cleared
<1>6. UNCHANGED <<tree, model>>
  BY <1>1 DEF Request, github
<1> HIDE DEF needed, result
<1>7. points' = (IF needed THEN result ELSE points) /\ sync' = [sync EXCEPT !.phase = "delete_modified"]
        => Progress'
  BY <1>1, <1>2, <1>3, <1>4, <1>5, <1>6, ProgressMoves
<1>8. needed \in BOOLEAN
  BY DEF needed
<1> QED
  BY <1>1, <1>2, <1>7, <1>8, RequestKeeps

\* Deleting leaves what was written and what was cleared.
LEMMA DeletedStays ==
    ASSUME NEW paths, NEW c, NEW new, NEW gone, new = points \ PointsOf(gone, c)
    PROVE  /\ Written(paths, c, points) => Written(paths, c, new)
           /\ Cleared(paths, c, points) => Cleared(paths, c, new)
<1>1. \A p : Chunk(p, c).label = c
  BY DEF Chunk
<1> QED
  BY <1>1 DEF Written, Cleared, PointsOf

LEMMA DeleteModifiedKeeps == ASSUME Typed, Typed', KnowledgeInv, DeleteModified PROVE KnowledgeInv'
<1> DEFINE needed == sync.modified # {}
           result == points \ PointsOf(sync.modified, sync.to)
<1>1. sync.phase = "delete_modified" /\ Request("delete_modified", "delete_removed", needed, result)
  BY DEF DeleteModified, Request
<1>2. /\ Written(FilesOf(tree[sync.to]) \ sync.unchanged, sync.to, points) /\ sync.todo = {}
      /\ sync.from # sync.to => Cleared(sync.unchanged, sync.to, points)
  BY <1>1, UnderWay DEF Progress, Past
<1>3. needed => Rewritten(points, result, model, catalog, tree, sync.to)
  <2> SUFFICES ASSUME needed PROVE Rewritten(points, result, model, catalog, tree, sync.to)
    OBVIOUS
  <2>1. \A p \in sync.modified : Chunk(p, sync.to) \in points
    BY <1>1, <1>2, UnderWay DEF Written
  <2>2. PICK p \in sync.modified : TRUE
    OBVIOUS
  <2>3. Chunk(p, sync.to) \in result /\ Chunk(p, sync.to).model = model /\ Chunk(p, sync.to).label = sync.to
    BY <2>1 DEF PointsOf, Chunk
  <2> QED
    BY <1>1, <2>1, <2>3, UnderWay, DeleteRewrites
<1>4. Cleared(sync.modified, sync.to, result) /\ (~needed => Cleared(sync.modified, sync.to, points))
  BY DEF Cleared, PointsOf, Current
<1>5. /\ Written(FilesOf(tree[sync.to]) \ sync.unchanged, sync.to, result)
      /\ sync.from # sync.to => Cleared(sync.unchanged, sync.to, result)
  BY <1>2, DeletedStays
<1>6. UNCHANGED <<tree, model>>
  BY <1>1 DEF Request, github
<1> HIDE DEF needed, result
<1>7. points' = (IF needed THEN result ELSE points) /\ sync' = [sync EXCEPT !.phase = "delete_removed"]
        => Progress'
  BY <1>1, <1>2, <1>4, <1>5, <1>6, ProgressMoves
<1>8. needed \in BOOLEAN
  BY DEF needed
<1> QED
  BY <1>1, <1>3, <1>7, <1>8, RequestKeeps

\* A sync that has dealt with its files has each of them under its commit.
LEMMA FilesLabelled ==
    ASSUME Typed, KnowledgeInv, sync.phase # "idle", sync.phase # "published", sync.phase # "index",
           model \in catalog.by, NEW p \in FilesOf(tree[sync.to])
    PROVE  \E x \in points : x.model = model /\ x.path = p /\ x.label = sync.to
                             /\ tree[x.at][p] = tree[sync.to][p]
<1>1. p \in Paths /\ tree[sync.to][p] # 0
  BY DEF FilesOf
<1>2. CASE p \notin sync.unchanged
  <2>1. Chunk(p, sync.to) \in points
    BY <1>2, UnderWay DEF Progress, Written
  <2> QED
    BY <2>1 DEF Chunk
<1>3. CASE p \in sync.unchanged
  <2>1. catalog.files[p] = tree[sync.to][p] /\ p \in FilesOf(catalog.files)
        /\ sync.from = catalog.snapshot
    BY <1>1, <1>3, UnderWay DEF PlanOK, FilesOf
  <2>2. Kept(catalog, model, points, tree, sync.to)
    BY UnderWay DEF CopyOK
  <2>3. PICK x \in points : x.model = model /\ x.path = p /\ x.label >= catalog.snapshot
                            /\ tree[x.at][p] = catalog.files[p]
    BY <2>1, <2>2 DEF Kept
  <2>4. x.label \in Nat /\ x.label <= sync.to
    BY UnderWay, CopiesTyped, PointFields, KnowledgeAssumption DEF PointsOK, Commits
  <2>5. sync.from # sync.to => x.label = sync.to
    BY <1>3, <2>3, UnderWay DEF Progress, Past, Cleared
  <2> QED
    BY <2>1, <2>3, <2>4, <2>5, UnderWay
<1> QED
  BY <1>2, <1>3

LEMMA DeleteRemovedKeeps == ASSUME Typed, Typed', KnowledgeInv, DeleteRemoved PROVE KnowledgeInv'
<1> DEFINE needed == sync.deleted # {}
           result == points \ PointsOf(sync.deleted, sync.to)
<1>1. sync.phase = "delete_removed"
      /\ Request("delete_removed", "remove_stale", needed, points \ PointsOf(sync.deleted, 0))
  BY DEF DeleteRemoved, Request
<1>2. /\ Written(FilesOf(tree[sync.to]) \ sync.unchanged, sync.to, points) /\ sync.todo = {}
      /\ sync.from # sync.to => Cleared(sync.unchanged, sync.to, points)
      /\ Cleared(sync.modified, sync.to, points)
  BY <1>1, UnderWay DEF Progress, Past
<1>3. sync.deleted = FilesOf(catalog.files) \ FilesOf(tree[sync.to])
  BY <1>1, UnderWay DEF PlanOK
<1>4. \A x \in points : x.label # 0 /\ (x.path \in sync.deleted => x.label # sync.to)
  BY <1>1, <1>3, UnderWay, CopiesTyped, PointFields, KnowledgeAssumption DEF PointsOK, Commits
<1>5. PointsOf(sync.deleted, 0) = PointsOf(sync.deleted, sync.to)
  BY <1>4 DEF PointsOf, Current
<1>6. needed => Rewritten(points, result, model, catalog, tree, sync.to)
  <2>1. CASE FilesOf(tree[sync.to]) # {}
    <3> SUFFICES ASSUME model \in catalog.along PROVE \E x \in result : x.model = model /\ x.label = sync.to
      BY <1>1, <1>3, UnderWay, DeleteRewrites
    <3>1. PICK p \in FilesOf(tree[sync.to]) : TRUE
      BY <2>1
    <3>2. model \in catalog.by
      BY <1>1, UnderWay DEF CopyOK
    <3>3. PICK x \in points : x.model = model /\ x.label = sync.to
      BY <1>1, <3>1, <3>2, FilesLabelled
    <3> QED
      BY <3>3 DEF PointsOf
  <2>2. CASE FilesOf(tree[sync.to]) = {}
    <3>1. ASSUME NEW x \in result, x.model = model, x.label = catalog.snapshot PROVE FALSE
      <4>1. x \in points /\ catalog.snapshot # 0
        BY <1>4, <3>1
      <4>2. catalog.files = tree[catalog.snapshot]
        BY <1>1, <4>1, UnderWay DEF CopyOK, Pinned
      <4>3. x.path \in FilesOf(catalog.files)
        BY <1>1, <3>1, <4>1, <4>2, UnderWay DEF PointsOK
      <4>4. x.path \in sync.deleted
        BY <1>3, <2>2, <4>3
      <4> QED
        BY <1>4, <3>1, <4>1, <4>4 DEF PointsOf, Current
    <3>2. Gone(catalog, model, result)
      BY <3>1 DEF Gone
    <3> QED
      BY <1>1, <1>3, <3>2, UnderWay, DeleteRewrites
  <2> QED
    BY <2>1, <2>2
<1>7. Cleared(sync.deleted, sync.to, result) /\ (~needed => Cleared(sync.deleted, sync.to, points))
  BY DEF Cleared, PointsOf, Current
<1>8. /\ Written(FilesOf(tree[sync.to]) \ sync.unchanged, sync.to, result)
      /\ sync.from # sync.to => Cleared(sync.unchanged, sync.to, result)
      /\ Cleared(sync.modified, sync.to, result)
  BY <1>2, DeletedStays
<1>9. UNCHANGED <<tree, model>> /\ Request("delete_removed", "remove_stale", needed, result)
  BY <1>1, <1>5 DEF Request, github
<1> HIDE DEF needed, result
<1>10. points' = (IF needed THEN result ELSE points) /\ sync' = [sync EXCEPT !.phase = "remove_stale"]
        => Progress'
  BY <1>1, <1>2, <1>7, <1>8, <1>9, ProgressMoves
<1>11. needed \in BOOLEAN
  BY DEF needed
<1> QED
  BY <1>1, <1>6, <1>9, <1>10, <1>11, RequestKeeps

LEMMA RemoveStaleKeeps == ASSUME Typed, Typed', KnowledgeInv, RemoveStale PROVE KnowledgeInv'
<1> DEFINE needed == sync.from = 0
           result == points \ PointsOf(Paths, sync.to)
<1>1. sync.phase = "remove_stale" /\ Request("remove_stale", "complete", needed, result)
  BY DEF RemoveStale, Request
<1>2. /\ Written(FilesOf(tree[sync.to]) \ sync.unchanged, sync.to, points) /\ sync.todo = {}
      /\ sync.from # sync.to => Cleared(sync.unchanged, sync.to, points)
      /\ Cleared(sync.modified, sync.to, points) /\ Cleared(sync.deleted, sync.to, points)
  BY <1>1, UnderWay DEF Progress, Past
<1>3. needed => Rewritten(points, result, model, catalog, tree, sync.to)
  <2> SUFFICES ASSUME needed PROVE Rewritten(points, result, model, catalog, tree, sync.to)
    OBVIOUS
  <2>1. catalog.snapshot = 0 /\ catalog.files = NoContents
    BY <1>1, UnderWay DEF PlanOK, CopyOK, Pinned
  <2>2. sync.unchanged = {}
    BY <1>1, <2>1, UnderWay DEF PlanOK, FilesOf, NoContents
  <2>3. \A p \in FilesOf(tree[sync.to]) : Chunk(p, sync.to) \in points
    BY <1>2, <2>2 DEF Written
  <2>4. \A x \in result : x.label # 0
    BY CopiesTyped, PointFields DEF Commits
  <2>5. Gone(catalog, model, result)
    BY <2>1, <2>4 DEF Gone
  <2> QED
    BY <1>1, <2>3, <2>5, UnderWay, DeleteRewrites
<1>4. /\ Written(FilesOf(tree[sync.to]) \ sync.unchanged, sync.to, result)
      /\ sync.from # sync.to => Cleared(sync.unchanged, sync.to, result)
      /\ Cleared(sync.modified, sync.to, result) /\ Cleared(sync.deleted, sync.to, result)
  BY <1>2, DeletedStays
<1>5. UNCHANGED <<tree, model>>
  BY <1>1 DEF Request, github
<1> HIDE DEF needed, result
<1>6. points' = (IF needed THEN result ELSE points) /\ sync' = [sync EXCEPT !.phase = "complete"]
        => Progress'
  BY <1>1, <1>2, <1>4, <1>5, ProgressMoves
<1>7. needed \in BOOLEAN
  BY DEF needed
<1> QED
  BY <1>1, <1>3, <1>6, <1>7, RequestKeeps

\* Before a sync publishes a newer commit, no point of the collection carries
\* the catalogue's snapshot any more.
LEMMA SnapshotGone ==
    ASSUME Typed, KnowledgeInv, sync.phase = "complete", catalog.snapshot # sync.to
    PROVE  Gone(catalog, model, points)
<1> SUFFICES ASSUME NEW x \in points, x.model = model, x.label = catalog.snapshot PROVE FALSE
  BY DEF Gone
<1>1. catalog.snapshot # 0 /\ catalog.files = tree[catalog.snapshot]
  BY UnderWay, CopiesTyped, PointFields DEF CopyOK, Pinned, Commits
<1>2. x.path \in FilesOf(catalog.files)
  BY <1>1, UnderWay DEF PointsOK
<1>3. x.path \in sync.unchanged \/ x.path \in sync.modified \/ x.path \in sync.deleted
  BY <1>2, UnderWay DEF PlanOK
<1>4. /\ sync.from = catalog.snapshot
      /\ Cleared(sync.unchanged, sync.to, points)
      /\ Cleared(sync.modified, sync.to, points) /\ Cleared(sync.deleted, sync.to, points)
  BY UnderWay DEF Progress, PlanOK, Past
<1> QED
  BY <1>3, <1>4 DEF Cleared

LEMMA CompleteRunKeeps == ASSUME Typed, Typed', KnowledgeInv, CompleteRun PROVE KnowledgeInv'
<1>1. /\ sync.phase = "complete"
      /\ UNCHANGED <<github, qdrant, model, indexer, backup, archive, inspection, tree, head, points>>
  BY DEF CompleteRun, github, qdrant
<1>2. /\ catalog'.snapshot = sync.to /\ catalog'.files = tree[sync.to]
      /\ catalog'.by = catalog.by \cap {model} /\ catalog'.along = catalog.along \cap {model}
      /\ sync' = [sync EXCEPT !.phase = "published"]
  BY DEF CompleteRun
<1>3. sync'.phase = "published" /\ sync'.to = sync.to
  BY <1>1, <1>2, SyncFields DEF Typed, Syncs
<1>4. Latest = sync.to /\ Latest' = sync.to /\ sync.to \in Commits /\ sync.to \in Nat
      /\ catalog.snapshot <= sync.to /\ catalog.snapshot \in Nat /\ catalog.along \subseteq catalog.by
  <2>1. Latest = sync.to /\ Latest' = sync.to /\ sync.to \in Commits /\ sync.to \in Nat
    BY <1>1, <1>3, UnderWay DEF Latest
  <2> QED
    BY <2>1, CopiesTyped, CatalogFields, KnowledgeAssumption DEF KnowledgeInv, CopiesInv, CatalogOK, CopyOK
<1>5. model \in catalog.by => ServedBy(catalog', model, points, tree)
  BY <1>1, <1>2, FilesLabelled DEF ServedBy
<1>6. ASSUME NEW c \in Catalogs, CopyOK(c, catalog, points, tree, Latest)
      PROVE  CopyOK(c, catalog', points, tree, Latest)
  <2>1. c.snapshot <= catalog'.snapshot /\ c.snapshot \in Nat
    BY <1>2, <1>4, <1>6, CatalogFields, KnowledgeAssumption DEF CopyOK
  <2>2. ASSUME c.snapshot < sync.to, NEW m \in c.along \cap catalog'.along PROVE Gone(c, m, points)
    <3>1. m = model /\ m \in catalog.along
      BY <1>2
    <3>2. CASE c.snapshot < catalog.snapshot
      BY <1>6, <3>1, <3>2 DEF CopyOK
    <3>3. CASE c.snapshot = catalog.snapshot
      <4>1. Gone(catalog, model, points)
        BY <1>1, <1>4, <2>2, <3>3, SnapshotGone
      <4> QED
        BY <3>1, <3>3, <4>1 DEF Gone
    <3> QED
      BY <1>4, <1>6, <2>1, <3>2, <3>3 DEF CopyOK
  <2> QED
    BY <1>2, <1>6, <2>1, <2>2 DEF CopyOK
<1>7. CatalogOK'
  <2>1. Kept(catalog', model, points, tree, Latest) \/ model \notin catalog.by
    <3> SUFFICES ASSUME model \in catalog.by PROVE Kept(catalog', model, points, tree, Latest)
      OBVIOUS
    <3> QED
      BY <1>2, <1>4, <1>5 DEF Kept, ServedBy
  <2>2. CopyOK(catalog', catalog', points, tree, Latest)
    <3>1. Pinned(catalog', tree)
      BY <1>2, <1>4 DEF Pinned, Commits
    <3>2. catalog'.along \subseteq catalog'.by
      BY <1>2, <1>4
    <3>3. \A m \in catalog'.by : Kept(catalog', m, points, tree, Latest)
      BY <1>2, <2>1
    <3> QED
      BY <1>2, <1>4, <3>1, <3>2, <3>3 DEF CopyOK
  <2>3. \A m \in catalog'.along : Telling(catalog', m, points, tree)
    BY <1>2, <1>4, <1>5 DEF Telling
  <2> QED
    BY <1>1, <1>2, <1>4, <2>2, <2>3 DEF CatalogOK
<1>8. BackupOK'
  <2> SUFFICES ASSUME backup.phase # "idle" PROVE BackupOK'
    BY <1>1 DEF BackupOK
  <2>1. CopyOK(backup.catalog, catalog', points, tree, Latest)
    BY <1>6, CopiesTyped DEF KnowledgeInv, CopiesInv, BackupOK
  <2> QED
    BY <1>1, <1>2, <1>4, <2>1 DEF KnowledgeInv, CopiesInv, BackupOK
<1>9. ArchiveOK'
  <2> SUFFICES ASSUME archive.phase # "idle" PROVE ArchiveOK'
    BY <1>1 DEF ArchiveOK
  <2>1. CopyOK(archive.catalog, catalog', points, tree, Latest)
    BY <1>6, CopiesTyped DEF KnowledgeInv, CopiesInv, ArchiveOK
  <2> QED
    BY <1>1, <1>4, <2>1 DEF KnowledgeInv, CopiesInv, ArchiveOK
<1>10. InspectionOK'
  <2> SUFFICES ASSUME inspection.phase # "idle" PROVE InspectionOK'
    BY <1>1 DEF InspectionOK
  <2>1. CopyOK(inspection.catalog, catalog', points, tree, Latest)
    BY <1>6, CopiesTyped DEF KnowledgeInv, CopiesInv, InspectionOK
  <2>2. Counted({inspection.catalog.snapshot})' = Counted({inspection.catalog.snapshot})
    BY <1>1 DEF Counted, Current
  <2> QED
    BY <1>1, <1>2, <1>4, <2>1, <2>2 DEF KnowledgeInv, CopiesInv, InspectionOK
<1>11. CopiesInv'
  BY <1>1, <1>4, <1>7, <1>8, <1>9, <1>10 DEF KnowledgeInv, CopiesInv
<1>12. SyncOK' /\ IndexerOK'
  BY <1>1, <1>3, UnderWay DEF SyncOK, IndexerOK
<1>13. PublishedIsServed'
  BY <1>1, <1>2, <1>5 DEF PublishedIsServed, Serves, ServedBy, Current
<1>14. PassedWasServed'
  BY <1>1 DEF KnowledgeInv, PassedWasServed
<1> QED
  BY <1>11, <1>12, <1>13, <1>14 DEF KnowledgeInv

\* What an index command has to go by.
LEMMA Indexing ==
    ASSUME Typed, KnowledgeInv, indexer.phase # "idle"
    PROVE  /\ sync.phase = "idle" /\ indexer.to \in Commits /\ Latest = indexer.to /\ indexer.to <= head
           /\ indexer.todo \subseteq FilesOf(tree[indexer.to]) /\ PointsOK(points, tree, indexer.to)
           /\ ~indexer.limited => /\ FilesOf(tree[indexer.to]) # {}
                                  /\ Written(FilesOf(tree[indexer.to]) \ indexer.todo, indexer.to, points)
<1>1. sync.phase = "idle"
  BY DEF KnowledgeInv, SyncOK
<1>2. Latest = indexer.to /\ indexer.to \in Commits
  BY <1>1, IndexerFields DEF Latest, Typed
<1> QED
  BY <1>1, <1>2 DEF KnowledgeInv, CopiesInv, IndexerOK

LEMMA IndexCommandBatchKeeps == ASSUME Typed, Typed', KnowledgeInv, IndexCommandBatch PROVE KnowledgeInv'
<1>1. PICK batch \in (SUBSET indexer.todo) \ {{}} :
        points' = Upserted(batch, indexer.to) /\ indexer' = [indexer EXCEPT !.todo = @ \ batch]
  BY DEF IndexCommandBatch
<1>2. /\ indexer.phase = "index" /\ tree' = tree /\ head' = head
      /\ UNCHANGED <<github, catalog, model, sync, backup, archive, inspection>>
  BY DEF IndexCommandBatch, github
<1>3. /\ indexer'.phase = "index" /\ indexer'.to = indexer.to /\ indexer'.todo = indexer.todo \ batch
      /\ indexer'.limited = indexer.limited
  BY <1>1, <1>2, IndexerFields DEF Typed, Indexers
<1>4. Latest' \in Latest .. head /\ Latest = indexer.to
  BY <1>2, <1>3, Indexing, CopiesTyped, KnowledgeAssumption DEF Latest, Commits
<1>5. batch \in SUBSET FilesOf(tree[indexer.to]) /\ batch # {} /\ batch \subseteq Paths
  BY <1>1, <1>2, Indexing DEF FilesOf
<1>6. Rewritten(points, points', model, catalog, tree, Latest)
  BY <1>1, <1>2, <1>4, <1>5, Indexing, UpsertRewrites
<1>7. IndexerOK'
  <2>1. ASSUME ~indexer.limited, NEW p \in FilesOf(tree[indexer.to]) \ indexer'.todo
        PROVE  Chunk(p, indexer.to) \in points'
    <3>1. CASE p \in batch
      BY <1>1, <3>1 DEF Upserted
    <3>2. CASE p \notin batch
      <4>1. Chunk(p, indexer.to) \in points /\ Chunk(p, indexer.to).path = p
        BY <1>2, <1>3, <2>1, <3>2, Indexing DEF Written, Chunk
      <4> QED
        BY <1>1, <3>2, <4>1 DEF Upserted
    <3> QED
      BY <3>1, <3>2
  <2>2. \A p : Chunk(p, indexer.to)' = Chunk(p, indexer.to)
    BY <1>2, <1>3 DEF Chunk
  <2>3. indexer'.todo \subseteq FilesOf(tree[indexer.to])
    BY <1>2, <1>3, Indexing
  <2> QED
    BY <1>2, <1>3, <2>1, <2>2, <2>3, Indexing DEF IndexerOK, Written
<1>8. SyncOK'
  BY <1>2, Indexing DEF SyncOK
<1>9. sync'.phase # "published"
  BY <1>2, Indexing
<1> QED
  BY <1>2, <1>4, <1>6, <1>7, <1>8, <1>9, WriteKeeps

LEMMA FinishIndexKeeps == ASSUME Typed, Typed', KnowledgeInv, FinishIndex PROVE KnowledgeInv'
<1>1. /\ indexer.phase = "index" /\ indexer.todo = {} /\ indexer' = Idle /\ indexer'.phase = "idle"
      /\ points' = IF indexer.limited THEN points ELSE points \ PointsOf(Paths, indexer.to)
      /\ tree' = tree /\ head' = head
      /\ UNCHANGED <<github, catalog, model, sync, backup, archive, inspection>>
  BY DEF FinishIndex, Idle, github
<1>2. Latest' \in Latest .. head /\ Latest = indexer.to
  BY <1>1, Indexing, CopiesTyped, KnowledgeAssumption DEF Latest, Commits
<1>3. Rewritten(points, points', model, catalog, tree, Latest)
  <2>1. CASE indexer.limited
    BY <1>1, <2>1, NothingRewritten
  <2>2. CASE ~indexer.limited
    <3>1. \A p \in FilesOf(tree[indexer.to]) : Chunk(p, indexer.to) \in points
      BY <1>1, <2>2, Indexing DEF Written
    <3>2. PICK p \in FilesOf(tree[indexer.to]) : TRUE
      BY <1>1, <2>2, Indexing
    <3>3. Chunk(p, indexer.to) \in points \ PointsOf(Paths, indexer.to)
          /\ Chunk(p, indexer.to).model = model /\ Chunk(p, indexer.to).label = indexer.to
      BY <3>1 DEF PointsOf, Chunk
    <3> QED
      BY <1>1, <1>2, <2>2, <3>1, <3>3, Indexing, DeleteRewrites
  <2> QED
    BY <2>1, <2>2
<1>4. SyncOK' /\ IndexerOK' /\ sync'.phase # "published"
  BY <1>1, Indexing DEF SyncOK, IndexerOK
<1> QED
  BY <1>1, <1>2, <1>3, <1>4, WriteKeeps

\* A backup or an inspection takes a step, the index and the catalogue as they are.
LEMMA AsideKeeps ==
    ASSUME KnowledgeInv, UNCHANGED <<github, catalog, qdrant, model, sync, indexer>>,
           BackupOK', ArchiveOK', InspectionOK', PassedWasServed'
    PROVE  KnowledgeInv'
<1>1. UNCHANGED <<tree, head, catalog, points, model, sync, indexer>> /\ Latest' = Latest
  BY DEF github, qdrant, Latest
<1>2. CopiesInv'
  BY <1>1 DEF KnowledgeInv, CopiesInv, CatalogOK
<1>3. SyncOK' /\ IndexerOK'
  BY <1>1 DEF KnowledgeInv, SyncOK, IndexerOK, PlanOK, Progress, Past, Written, Cleared, Chunk
<1>4. PublishedIsServed'
  BY <1>1 DEF KnowledgeInv, PublishedIsServed, Serves, Current
<1> QED
  BY <1>2, <1>3, <1>4 DEF KnowledgeInv

\* Nothing that the three steps below leave alone changes for those who hold it.
LEMMA OthersHold ==
    ASSUME KnowledgeInv, UNCHANGED <<github, catalog, qdrant, model, sync, indexer>>
    PROVE  /\ UNCHANGED backup => BackupOK'
           /\ UNCHANGED archive => ArchiveOK'
           /\ UNCHANGED inspection => InspectionOK' /\ PassedWasServed'
<1>1. UNCHANGED <<tree, head, catalog, points, model, sync, indexer>> /\ Latest' = Latest
  BY DEF github, qdrant, Latest
<1>2. \A s : Counted({s})' = Counted({s})
  BY <1>1 DEF Counted, Current
<1> QED
  BY <1>1, <1>2 DEF KnowledgeInv, CopiesInv, BackupOK, ArchiveOK, InspectionOK, PassedWasServed

LEMMA BackupKeeps ==
    ASSUME Typed, Typed', KnowledgeInv, DumpPostgres \/ SnapshotQdrant \/ BackupFails
    PROVE  KnowledgeInv'
<1>1. UNCHANGED <<github, catalog, qdrant, model, sync, indexer, inspection>>
  BY DEF DumpPostgres, SnapshotQdrant, BackupFails
<1>2. UNCHANGED <<tree, head, points, Latest>>
  BY <1>1 DEF github, qdrant, Latest
<1>3. CASE DumpPostgres
  <2>1. backup'.phase = "dumped" /\ backup'.catalog = catalog /\ UNCHANGED archive
    BY <1>3 DEF DumpPostgres
  <2>2. BackupOK'
    BY <1>1, <1>2, <2>1 DEF BackupOK, KnowledgeInv, CopiesInv, CatalogOK
  <2> QED
    BY <1>1, <2>1, <2>2, AsideKeeps, OthersHold
<1>4. CASE SnapshotQdrant
  <2>1. /\ backup.phase # "idle" /\ backup' = Idle /\ backup'.phase = "idle"
        /\ archive'.catalog = backup.catalog /\ archive'.points = points
    BY <1>4 DEF SnapshotQdrant, Archive, Idle
  <2>2. /\ CopyOK(backup.catalog, catalog, points, tree, Latest)
        /\ PointsOK(points, tree, Latest)
        /\ \A m \in backup.catalog.by : Kept(backup.catalog, m, points, tree, Latest)
        /\ \A m \in backup.catalog.along : Telling(backup.catalog, m, points, tree)
    BY <2>1 DEF KnowledgeInv, CopiesInv, BackupOK, CopyOK
  <2>3. ArchiveOK' /\ BackupOK'
    BY <1>1, <1>2, <2>1, <2>2 DEF ArchiveOK, BackupOK
  <2> QED
    BY <1>1, <2>3, AsideKeeps, OthersHold
<1>5. CASE BackupFails
  <2>1. backup'.phase = "idle" /\ UNCHANGED archive
    BY <1>5 DEF BackupFails, Idle
  <2>2. BackupOK'
    BY <2>1 DEF BackupOK
  <2> QED
    BY <1>1, <2>1, <2>2, AsideKeeps, OthersHold
<1> QED
  BY <1>3, <1>4, <1>5

LEMMA RestoreKeeps == ASSUME Typed, Typed', KnowledgeInv, Restore PROVE KnowledgeInv'
<1> DEFINE c == archive.catalog
<1>1. /\ sync.phase = "idle" /\ indexer.phase = "idle" /\ inspection.phase = "idle"
      /\ backup.phase = "idle" /\ archive.phase # "idle" /\ tree' = tree /\ head' = head
      /\ UNCHANGED <<model, sync, indexer, backup, archive, inspection>>
  BY DEF Restore, Stopped, github
<1>2. Latest' = Latest
  BY <1>1 DEF Latest
<1>3. /\ CopyOK(c, catalog, points, tree, Latest) /\ PointsOK(archive.points, tree, Latest)
      /\ \A m \in c.by : Kept(c, m, archive.points, tree, Latest)
      /\ \A m \in c.along : Telling(c, m, archive.points, tree)
      /\ c \in Catalogs /\ catalog \in Catalogs /\ points \in SUBSET Points
      /\ catalog.snapshot <= Latest /\ Latest \in Nat
  BY <1>1, CopiesTyped, LatestTyped, KnowledgeAssumption DEF KnowledgeInv, CopiesInv, ArchiveOK, CatalogOK
<1>4. c.snapshot <= Latest /\ c.snapshot \in Nat
  BY <1>3, CatalogFields, KnowledgeAssumption DEF CopyOK
<1>5. /\ catalog'.snapshot = c.snapshot /\ catalog'.files = c.files /\ catalog'.by = c.by
      /\ \/ catalog'.along = c.along \cap catalog.along /\ points' = points
         \/ catalog'.along = c.along /\ points' = archive.points
  BY <1>3 DEF Restore, qdrant, Catalogs
<1>6. /\ PointsOK(points', tree, Latest)
      /\ \A m \in c.by : Kept(c, m, points', tree, Latest)
      /\ \A m \in catalog'.along : Telling(c, m, points', tree)
  <2>1. CASE catalog'.along = c.along \cap catalog.along /\ points' = points
    <3>1. \A m \in c.along \cap catalog.along : Telling(c, m, points, tree)
      BY <1>3, CopyTells DEF KnowledgeInv, CopiesInv, CatalogOK
    <3> QED
      BY <1>3, <2>1, <3>1 DEF KnowledgeInv, CopiesInv, CopyOK
  <2>2. CASE catalog'.along = c.along /\ points' = archive.points
    BY <1>3, <2>2
  <2> QED
    BY <1>5, <2>1, <2>2
<1>7. CopyOK(c, catalog', points', tree, Latest) /\ CopyOK(catalog', catalog', points', tree, Latest)
  BY <1>3, <1>4, <1>5, <1>6 DEF CopyOK, Pinned, Kept
<1>8. \A m \in catalog'.along : Telling(catalog', m, points', tree)
  BY <1>5, <1>6 DEF Telling, ServedBy, Gone
<1>9. CatalogOK' /\ ArchiveOK'
  BY <1>1, <1>2, <1>3, <1>4, <1>5, <1>7, <1>8 DEF CatalogOK, ArchiveOK
<1>10. CopiesInv'
  BY <1>1, <1>2, <1>6, <1>9 DEF KnowledgeInv, CopiesInv, BackupOK, InspectionOK
<1> QED
  BY <1>1, <1>10 DEF KnowledgeInv, SyncOK, IndexerOK, PublishedIsServed, PassedWasServed

LEMMA ChangeModelKeeps == ASSUME Typed, Typed', KnowledgeInv, ChangeModel PROVE KnowledgeInv'
<1>1. /\ sync.phase = "idle" /\ indexer.phase = "idle" /\ inspection.phase = "idle"
      /\ backup.phase = "idle"
      /\ UNCHANGED <<tree, head, catalog, points, sync, indexer, backup, archive, inspection, Latest>>
  BY DEF ChangeModel, Stopped, github, qdrant, Latest
<1>2. CopiesInv'
  BY <1>1 DEF KnowledgeInv, CopiesInv, CatalogOK, BackupOK, ArchiveOK, InspectionOK
<1> QED
  BY <1>1, <1>2 DEF KnowledgeInv, SyncOK, IndexerOK, PublishedIsServed, PassedWasServed

\* An index that does not serve the catalogue of an inspection shows it in the
\* number of its chunks.
LEMMA CountTells ==
    ASSUME Typed, KnowledgeInv, inspection.phase # "idle", model \in inspection.catalog.along,
           ~Serves(inspection.catalog)
    PROVE  LET s == inspection.catalog.snapshot
           IN  /\ s < Latest
               /\ Counted({s}) < Counted(Commits) \/ Counted({s}) = 0
<1> DEFINE c == inspection.catalog
           own == {x \in Current : x.label \in {c.snapshot}}
           all == {x \in Current : x.label \in Commits}
<1>1. /\ CopyOK(c, catalog, points, tree, Latest) /\ model \in catalog.along /\ c \in Catalogs
      /\ c.snapshot \in Nat /\ catalog.snapshot \in Nat /\ Latest \in Nat /\ catalog.snapshot <= Latest
      /\ PointsOK(points, tree, Latest) /\ points \in SUBSET Points /\ IsFiniteSet(points)
      /\ catalog \in Catalogs /\ CopyOK(catalog, catalog, points, tree, Latest)
      /\ Telling(catalog, model, points, tree)
  BY CopiesTyped, CatalogFields, LatestTyped, KnowledgeAssumption
     DEF KnowledgeInv, CopiesInv, InspectionOK, CatalogOK
<1>2. ~ServedBy(c, model, points, tree)
  BY DEF Serves, ServedBy, Current
<1>3. Telling(c, model, points, tree)
  BY <1>1, CopyTells
<1>4. c.snapshot < Latest
  <2>1. c.snapshot <= Latest
    BY <1>1 DEF CopyOK
  <2>2. c.snapshot # Latest
    BY <1>1, <1>2, LatestServed DEF CopyOK
  <2> QED
    BY <1>1, <2>1, <2>2
<1>5. own \subseteq all /\ all \subseteq points /\ IsFiniteSet(all) /\ IsFiniteSet(own)
  <2>1. \A x \in Current : x.label \in Commits /\ x \in points
    BY <1>1, PointFields DEF Current
  <2>2. own \subseteq all /\ all \subseteq points
    BY <2>1
  <2> QED
    BY <1>1, <2>2, FS_Subset
<1>6. CASE \E x \in points : x.model = model /\ x.label > c.snapshot
  <2>1. PICK x \in all : x \notin own
    BY <1>1, <1>6, PointFields, KnowledgeAssumption DEF Current, Commits
  <2>2. own \subseteq all \ {x}
    BY <1>5, <2>1
  <2>3. IsFiniteSet(all \ {x}) /\ Cardinality(all \ {x}) = Cardinality(all) - 1
    BY <1>5, <2>1, FS_RemoveElement
  <2>4. Cardinality(own) <= Cardinality(all \ {x})
    BY <2>2, <2>3, FS_Subset
  <2>5. Cardinality(own) \in Nat /\ Cardinality(all) \in Nat
    BY <1>5, FS_CardinalityType
  <2>6. Cardinality(own) < Cardinality(all)
    BY <2>3, <2>4, <2>5
  <2> QED
    BY <1>4, <2>6 DEF Counted
<1>7. CASE Gone(c, model, points)
  <2>1. own = {}
    BY <1>7 DEF Gone, Current
  <2>2. Cardinality(own) = 0
    BY <2>1, FS_EmptySet
  <2> QED
    BY <1>4, <2>2 DEF Counted
<1> QED
  BY <1>2, <1>3, <1>6, <1>7 DEF Telling

LEMMA InspectionKeeps ==
    ASSUME Typed, Typed', KnowledgeInv, ReadStatus \/ CountTotal \/ CountCurrent \/ Report
    PROVE  KnowledgeInv'
<1>1. UNCHANGED <<github, catalog, qdrant, model, sync, indexer, backup, archive>>
  BY DEF ReadStatus, CountTotal, CountCurrent, Report
<1>2. UNCHANGED <<tree, head, points, Latest>> /\ \A s : Counted({s})' = Counted({s})
  BY <1>1 DEF github, qdrant, Latest, Counted, Current
<1>3. CASE ReadStatus
  <2>1. inspection'.phase = "read" /\ inspection'.catalog = catalog
    BY <1>3 DEF ReadStatus
  <2>2. InspectionOK' /\ PassedWasServed'
    BY <1>1, <1>2, <2>1 DEF InspectionOK, PassedWasServed, KnowledgeInv, CopiesInv, CatalogOK
  <2> QED
    BY <1>1, <2>2, AsideKeeps, OthersHold
<1>4. CASE CountTotal
  <2>1. /\ inspection.phase # "idle" /\ inspection'.phase = "counted"
        /\ inspection'.catalog = inspection.catalog /\ inspection'.total = Counted(Commits)
        /\ inspection'.served = Serves(inspection.catalog)
    BY <1>4 DEF CountTotal
  <2>2. CopyOK(inspection.catalog, catalog, points, tree, Latest)
        /\ (model \in inspection.catalog.along => model \in catalog.along)
    BY <2>1 DEF KnowledgeInv, CopiesInv, InspectionOK
  <2>3. InspectionOK' /\ PassedWasServed'
    BY <1>1, <1>2, <2>1, <2>2, CountTells DEF InspectionOK, PassedWasServed
  <2> QED
    BY <1>1, <2>3, AsideKeeps, OthersHold
<1>5. CASE CountCurrent
  <2> DEFINE current == Counted({inspection.catalog.snapshot})
  <2>1. inspection.phase = "counted"
        /\ \/ inspection' = [inspection EXCEPT !.phase = "passed"] /\ Satisfied(inspection, current)
           \/ inspection' = Idle
    BY <1>5 DEF CountCurrent
  <2>2. CASE inspection' = Idle
    <3>1. InspectionOK' /\ PassedWasServed'
      BY <2>2 DEF InspectionOK, PassedWasServed, Idle
    <3> QED
      BY <1>1, <3>1, AsideKeeps, OthersHold
  <2>3. CASE inspection' = [inspection EXCEPT !.phase = "passed"] /\ Satisfied(inspection, current)
    <3>1. inspection \in Countings /\ inspection.total \in Nat /\ current \in Nat
      BY <2>1, InspectionFields, CountedNat DEF Typed
    <3>2. /\ inspection'.phase = "passed" /\ inspection'.catalog = inspection.catalog
          /\ inspection'.served = inspection.served
      BY <2>3, <3>1 DEF Countings
    <3>3. InspectionOK /\ inspection.total <= current /\ current > 0
      BY <2>3 DEF KnowledgeInv, CopiesInv, Satisfied
    <3>4. model \in inspection.catalog.along => inspection.served
      BY <2>1, <3>1, <3>3 DEF InspectionOK
    <3>5. PassedWasServed'
      BY <1>1, <3>2, <3>4 DEF PassedWasServed
    <3>6. InspectionOK'
      BY <1>1, <1>2, <2>1, <3>2, <3>3 DEF InspectionOK
    <3> QED
      BY <1>1, <3>5, <3>6, AsideKeeps, OthersHold
  <2> QED
    BY <2>1, <2>2, <2>3
<1>6. CASE Report
  <2>1. InspectionOK' /\ PassedWasServed'
    BY <1>6 DEF Report, InspectionOK, PassedWasServed, Idle
  <2> QED
    BY <1>1, <2>1, AsideKeeps, OthersHold
<1> QED
  BY <1>3, <1>4, <1>5, <1>6

LEMMA StepKeeps == ASSUME Apart, Typed, Typed', KnowledgeInv, [Next]_vars PROVE KnowledgeInv'
<1>1. CASE Next
  BY <1>1, PushKeeps, StartSyncKeeps, IndexBatchKeeps, UpdateUnchangedKeeps, DeleteModifiedKeeps,
     DeleteRemovedKeeps, RemoveStaleKeeps, CompleteRunKeeps, EndingKeeps, StartIndexKeeps,
     IndexCommandBatchKeeps, FinishIndexKeeps, BackupKeeps, RestoreKeeps, ChangeModelKeeps,
     InspectionKeeps DEF Next
<1>2. CASE UNCHANGED vars
  <2>1. UNCHANGED <<github, catalog, qdrant, model, sync, indexer, backup, archive, inspection>>
    BY <1>2 DEF vars
  <2> QED
    BY <2>1, AsideKeeps, OthersHold
<1> QED
  BY <1>1, <1>2

LEMMA InitKeeps == Init => KnowledgeInv
<1> SUFFICES ASSUME Init PROVE KnowledgeInv
  OBVIOUS
<1>1. /\ head = 0 /\ points = {} /\ catalog = NoCatalog /\ Latest = 0
      /\ sync.phase = "idle" /\ indexer.phase = "idle" /\ backup.phase = "idle"
      /\ archive.phase = "idle" /\ inspection.phase = "idle"
  BY DEF Init, Idle, Latest
<1>2. FilesOf(NoCatalog.files) = {}
  BY DEF FilesOf, NoCatalog, NoContents
<1>3. CatalogOK
  BY <1>1, <1>2 DEF CatalogOK, CopyOK, Kept, Telling, ServedBy, Pinned, NoCatalog
<1>4. CopiesInv
  BY <1>1, <1>3 DEF CopiesInv, TreesOK, PointsOK, BackupOK, ArchiveOK, InspectionOK
<1> QED
  BY <1>1, <1>4 DEF KnowledgeInv, SyncOK, IndexerOK, PublishedIsServed, PassedWasServed

LEMMA KnowledgeKept == ASSUME Apart PROVE Spec => []KnowledgeInv
<1>1. Init => Typed /\ KnowledgeInv
  BY InitTyped, InitKeeps
<1>2. Typed /\ KnowledgeInv /\ [Next]_vars => (Typed /\ KnowledgeInv)'
  BY StepTyped, StepKeeps
<1> QED
  BY <1>1, <1>2, PTL DEF Spec

\* A sync never publishes a catalogue that the index does not serve, after any
\* failures, restores, pushes and index commands by hand: _apply_qdrant_snapshot
\* and complete_run in sync.py, with restore-postgres.sh around them.
THEOREM PublicationIsServed == ASSUME Apart PROVE Spec => []PublishedIsServed
<1>1. KnowledgeInv => PublishedIsServed
  BY DEF KnowledgeInv
<1> QED
  BY <1>1, KnowledgeKept, PTL

\* An inspection passes only what was served when it counted, whatever syncs and
\* restores do between its three readings: inspect_full_corpus of corpus.py.
THEOREM InspectionIsServed == ASSUME Apart PROVE Spec => []PassedWasServed
<1>1. KnowledgeInv => PassedWasServed
  BY DEF KnowledgeInv
<1> QED
  BY <1>1, KnowledgeKept, PTL

-----------------------------------------------------------------------------
(* The windows a text is cut into.                                         *)

\* What the windows so far leave to the one under way: it begins behind them,
\* by no more than the overlap.
Behind ==
    ~returned => \A i \in DOMAIN ranges : ranges[i].from < cursor /\ ranges[i].to - overlap <= cursor

WindowInv == WindowsTypeOK /\ WindowsAdvance /\ WindowsCover /\ Behind

\* A line's size is a number, whether its newline is there or not.
LEMMA SizeIsNat ==
    ASSUME WindowsTypeOK, NEW i \in 1 .. N
    PROVE  Size(i) \in Nat
BY LinesAssumption DEF WindowsTypeOK, Size, N

LEMMA RangeFields ==
    ASSUME WindowsTypeOK, NEW i \in DOMAIN ranges
    PROVE  ranges[i].from \in Nat /\ ranges[i].to \in Nat
<1>1. ranges[i] \in TextRanges
  BY DEF WindowsTypeOK
<1> QED
  BY <1>1 DEF TextRanges

LEMMA NextCursorInside ==
    ASSUME WindowsTypeOK, end > cursor
    PROVE  /\ NextCursor \in cursor + 1 .. end
           /\ end - overlap <= NextCursor
BY DEF WindowsTypeOK, NextCursor, N

LEMMA SplitBegins == SplitInit => WindowInv
<1> SUFFICES ASSUME NEW ls \in Seq(Lines), NEW nl \in BOOLEAN, NEW first \in Nat \ {0},
                    NEW max \in Nat \ {0}, NEW lap \in Nat,
                    Called([lines |-> ls, nl |-> nl], first, max, lap)
             PROVE  WindowInv
  BY DEF SplitInit
<1>1. /\ text.lines = ls /\ text.nl = nl /\ start = first /\ limit = max /\ overlap = lap
      /\ cursor = 0 /\ end = 0 /\ chars = 0 /\ ranges = <<>> /\ returned = FALSE
  BY DEF Called
<1>2. N \in Nat
  BY <1>1 DEF N
<1>3. text.nl \in BOOLEAN /\ returned \in BOOLEAN
  BY <1>1
<1>4. ranges \in Seq(TextRanges)
  BY <1>1
<1>5. WindowsTypeOK
  BY <1>1, <1>2, <1>3, <1>4 DEF WindowsTypeOK
<1>6. WindowsAdvance /\ WindowsCover /\ Behind
  BY <1>1 DEF WindowsAdvance, WindowsCover, Behind
<1> QED
  BY <1>5, <1>6 DEF WindowInv

LEMMA NothingHolds == ASSUME WindowInv, ReturnNothing PROVE WindowInv'
<1> USE DEF ReturnNothing, WindowInv
<1>1. WindowsTypeOK'
  BY DEF WindowsTypeOK, N
<1>2. WindowsAdvance'
  BY DEF WindowsAdvance, N
<1>3. WindowsCover'
  BY DEF WindowsCover, WindowsTypeOK, AllBlank, N
<1>4. Behind'
  BY DEF Behind
<1> QED
  BY <1>1, <1>2, <1>3, <1>4

LEMMA WholeHolds == ASSUME WindowInv, ReturnWhole PROVE WindowInv'
<1> DEFINE whole == TextRange(0, N, start, start + N - (IF text.nl THEN 0 ELSE 1))
<1>1. N \in Nat \ {0}
  BY DEF ReturnWhole, WindowInv, WindowsTypeOK, AllBlank, N
<1>2. whole \in TextRanges /\ whole.from = 0 /\ whole.to = N /\ whole.start = start /\ whole.part = 1
      /\ whole.end \in {start + N - 1, start + N}
  BY <1>1 DEF ReturnWhole, WindowInv, WindowsTypeOK, TextRange, TextRanges
<1>3. ranges' = <<whole>> /\ returned' = TRUE
      /\ UNCHANGED <<text, start, limit, overlap, cursor, end, chars>>
  BY DEF ReturnWhole
<1> HIDE DEF whole
<1>4. WindowsTypeOK'
  <2>1. ranges' \in Seq(TextRanges)
    BY <1>2, <1>3
  <2> QED
    BY <2>1, <1>3 DEF WindowInv, WindowsTypeOK, N
<1>5. WindowsAdvance'
  <2>1. DOMAIN ranges' = {1} /\ ranges'[1] = whole
    BY <1>3
  <2>2. N' = N /\ start' = start /\ N \in Nat /\ start \in Nat
    BY <1>1, <1>3 DEF N, WindowInv, WindowsTypeOK
  <2>3. (chars <= limit \/ end = cursor + 1)'
    BY <1>3 DEF WindowInv, WindowsAdvance
  <2> QED
    BY <1>1, <1>2, <2>1, <2>2, <2>3 DEF WindowsAdvance
<1>6. WindowsCover'
  BY <1>1, <1>2, <1>3 DEF WindowsCover, N
<1>7. Behind'
  BY <1>3 DEF Behind
<1> QED
  BY <1>4, <1>5, <1>6, <1>7 DEF WindowInv

LEMMA TakeHolds == ASSUME WindowInv, TakeLine PROVE WindowInv'
<1>1. end + 1 \in 1 .. N
  BY DEF TakeLine, Takes, WindowInv, WindowsTypeOK, N
<1>2. Size(end + 1) \in Nat
  BY <1>1, SizeIsNat DEF WindowInv
<1>3. WindowsTypeOK'
  BY <1>1, <1>2 DEF TakeLine, WindowInv, WindowsTypeOK, N
<1>4. WindowsAdvance'
  BY <1>1, <1>2 DEF TakeLine, Takes, WindowInv, WindowsTypeOK, WindowsAdvance, N
<1>5. WindowsCover' /\ Behind'
  BY DEF TakeLine, WindowInv, WindowsCover, Behind, N
<1> QED
  BY <1>3, <1>4, <1>5 DEF WindowInv

LEMMA CloseHolds == ASSUME WindowInv, CloseWindow PROVE WindowInv'
<1> DEFINE window == TextRange(cursor, end, start + cursor, start + end - 1)
<1>1. window \in TextRanges /\ window.from = cursor /\ window.to = end /\ window.part = Len(ranges) + 1
      /\ window.start = start + cursor /\ window.end = start + end - 1
  BY DEF CloseWindow, WindowInv, WindowsTypeOK, TextRange, TextRanges, N
<1>2. ranges' = (IF AllBlank(cursor, end) THEN ranges ELSE Append(ranges, window))
  BY DEF CloseWindow
<1>3. /\ end \in Nat /\ cursor \in Nat /\ cursor < end /\ end <= N /\ N \in Nat
      /\ ranges \in Seq(TextRanges) /\ overlap \in Nat
  BY DEF CloseWindow, WindowInv, WindowsTypeOK, N
<1>4. NextCursor \in cursor + 1 .. end /\ end - overlap <= NextCursor
  BY NextCursorInside DEF CloseWindow, WindowInv
<1> HIDE DEF window
<1>5. ranges' \in Seq(TextRanges)
  BY <1>1, <1>2, <1>3
<1>6. WindowsTypeOK'
  <2>1. text' = text /\ start' = start /\ limit' = limit /\ overlap' = overlap /\ N' = N
    BY DEF CloseWindow, N
  <2>2. \/ returned' = TRUE /\ cursor' = cursor /\ end' = end /\ chars' = chars
        \/ returned' = FALSE /\ cursor' = NextCursor /\ end' = NextCursor /\ chars' = 0
    BY DEF CloseWindow
  <2>3. cursor' \in 0 .. N /\ end' \in cursor' .. N
    BY <1>3, <1>4, <2>2
  <2>4. chars' \in Nat
    BY <2>2 DEF WindowInv, WindowsTypeOK
  <2>7. returned' \in BOOLEAN
    BY <2>2, Zenon
  <2>5. /\ text'.nl \in BOOLEAN /\ text'.lines \in Seq(Lines)
        /\ start' \in Nat \ {0} /\ limit' \in Nat \ {0} /\ overlap' \in Nat
    BY <2>1 DEF WindowInv, WindowsTypeOK
  <2>6. cursor' \in 0 .. N' /\ end' \in cursor' .. N'
    BY <2>1, <2>3
  <2> QED
    BY <1>5, <2>4, <2>5, <2>6, <2>7, Zenon DEF WindowsTypeOK
<1>7. N' = N /\ start' = start /\ overlap' = overlap /\ limit' = limit /\ text' = text
  BY DEF CloseWindow, N
<1>8. ~returned /\ Behind /\ WindowsAdvance /\ WindowsCover
  BY DEF CloseWindow, WindowInv
<1>9. WindowsAdvance'
  <2>1. (chars <= limit \/ end = cursor + 1)'
    BY <1>7, <1>8 DEF CloseWindow, WindowInv, WindowsAdvance, WindowsTypeOK
  <2>2. CASE ranges' = ranges
    BY <2>1, <2>2, <1>7, <1>8 DEF WindowsAdvance
  <2>3. CASE ranges' = Append(ranges, window)
    <3>1. DOMAIN ranges' = 1 .. Len(ranges) + 1 /\ ranges'[Len(ranges) + 1] = window
          /\ \A i \in 1 .. Len(ranges) : ranges'[i] = ranges[i]
      BY <2>3, <1>1, <1>3
    <3>2. DOMAIN ranges = 1 .. Len(ranges) /\ Len(ranges) \in Nat
      BY <1>3
    <3>3. \A i \in DOMAIN ranges :
            ranges[i].from < window.from /\ window.from >= ranges[i].to - overlap
      <4> TAKE i \in DOMAIN ranges
      <4>1. ranges[i].to \in Nat
        BY RangeFields DEF WindowInv
      <4>2. ranges[i].from < cursor /\ ranges[i].to - overlap <= cursor
        BY <1>8 DEF Behind
      <4> QED
        BY <4>1, <4>2, <1>1, <1>3
    <3>4. ASSUME NEW i \in DOMAIN ranges'
          PROVE  /\ ranges'[i].from < ranges'[i].to /\ ranges'[i].to <= N'
                 /\ ranges'[i].part = i
                 /\ ranges'[i].start = start' + ranges'[i].from
                 /\ ranges'[i].end \in {start' + ranges'[i].to - 1, start' + N'}
      BY <3>1, <3>2, <1>1, <1>3, <1>7, <1>8 DEF WindowsAdvance
    <3>5. ASSUME NEW i \in DOMAIN ranges', NEW j \in DOMAIN ranges', i < j
          PROVE  /\ ranges'[i].from < ranges'[j].from
                 /\ j = i + 1 => ranges'[j].from >= ranges'[i].to - overlap'
      BY <3>1, <3>2, <3>3, <3>5, <1>7, <1>8 DEF WindowsAdvance
    <3> QED
      BY <2>1, <3>4, <3>5 DEF WindowsAdvance
  <2> QED
    BY <1>2, <2>2, <2>3
<1>10. WindowsCover'
  <2>1. ASSUME NEW i \in 1 .. end
        PROVE  text.lines[i].blank \/ \E k \in DOMAIN ranges' : ranges'[k].from < i /\ i <= ranges'[k].to
    <3>1. CASE i <= cursor
      <4>1. text.lines[i].blank \/ \E k \in DOMAIN ranges : ranges[k].from < i /\ i <= ranges[k].to
        BY <3>1, <1>3, <1>8 DEF WindowsCover
      <4>2. \A k \in DOMAIN ranges : k \in DOMAIN ranges' /\ ranges'[k] = ranges[k]
        BY <1>1, <1>2, <1>3
      <4> QED
        BY <4>1, <4>2
    <3>2. CASE i > cursor
      <4>1. CASE AllBlank(cursor, end)
        BY <3>2, <4>1, <1>3 DEF AllBlank
      <4>2. CASE ~AllBlank(cursor, end)
        <5>1. Len(ranges) + 1 \in DOMAIN ranges' /\ ranges'[Len(ranges) + 1] = window
          BY <4>2, <1>1, <1>2, <1>3
        <5> QED
          BY <5>1, <3>2, <1>1, <1>3
      <4> QED
        BY <4>1, <4>2
    <3> QED
      BY <3>1, <3>2, <1>3
  <2>2. (IF returned' THEN N' ELSE cursor') \in 0 .. end
    BY <1>3, <1>4, <1>7, <1>8 DEF CloseWindow
  <2> QED
    BY <2>1, <2>2, <1>3, <1>7 DEF WindowsCover
<1>11. Behind'
  <2> SUFFICES ASSUME ~returned', NEW i \in DOMAIN ranges'
               PROVE  ranges'[i].from < cursor' /\ ranges'[i].to - overlap <= cursor'
    BY <1>7 DEF Behind
  <2>1. cursor' = NextCursor
    BY DEF CloseWindow
  <2>2. CASE i \in DOMAIN ranges /\ ranges'[i] = ranges[i]
    <3>1. ranges[i].from < cursor /\ ranges[i].to - overlap <= cursor
      BY <2>2, <1>8 DEF Behind
    <3>2. ranges[i].from \in Nat /\ ranges[i].to \in Nat
      BY <2>2, RangeFields DEF WindowInv
    <3> QED
      BY <2>1, <2>2, <3>1, <3>2, <1>3, <1>4
  <2>3. CASE ranges'[i] = window
    BY <2>1, <2>3, <1>1, <1>3, <1>4
  <2> QED
    BY <2>2, <2>3, <1>1, <1>2, <1>3
<1> QED
  BY <1>6, <1>9, <1>10, <1>11 DEF WindowInv

\* Every variable of a call keeps its type, for any text, limit and overlap.
THEOREM WindowsSound == SplitSpec => []WindowInv
<1>1. SplitInit => WindowInv
  BY SplitBegins
<1>2. WindowInv /\ [Split]_windowVars => WindowInv'
  <2> SUFFICES ASSUME WindowInv, [Split]_windowVars PROVE WindowInv'
    OBVIOUS
  <2>1. CASE Split
    BY <2>1, NothingHolds, WholeHolds, TakeHolds, CloseHolds DEF Split
  <2>2. CASE UNCHANGED windowVars
    BY <2>2 DEF windowVars, WindowInv, WindowsTypeOK, WindowsAdvance, WindowsCover, Behind, N
  <2> QED
    BY <2>1, <2>2
<1> QED
  BY <1>1, <1>2, PTL DEF SplitSpec

\* Every window begins after the one before it, shares no more than the overlap
\* with it, and exceeds the limit only by its first line.
THEOREM WindowsAlwaysAdvance == SplitSpec => []WindowsAdvance
BY WindowsSound, PTL DEF WindowInv

\* When the call returns, every line that is not blank is in a window.
THEOREM WindowsAlwaysCover == SplitSpec => []WindowsCover
BY WindowsSound, PTL DEF WindowInv

-----------------------------------------------------------------------------
(* Smallest numbers, and scans.                                            *)

\* Every set of numbers has a smallest one: what holds of each number because it
\* holds of the smaller ones holds of all.  The downward closed sets of its
\* members are finite, and inclusion of finite sets is well-founded.
LEMMA Smallest ==
  ASSUME NEW S \in SUBSET Nat, S # {}
  PROVE  \E x \in S : \A y \in S : x <= y
<1> DEFINE downs == {0 .. k : k \in S}
           below == StrictSubsetOrdering(Nat)
<1>1. downs \subseteq FiniteSubsetsOf(Nat) /\ downs # {}
  <2>1. \A k \in S : 0 .. k \subseteq Nat /\ IsFiniteSet(0 .. k)
    BY FS_Interval
  <2> QED
    BY <2>1 DEF FiniteSubsetsOf
<1>2. IsWellFoundedOn(below, FiniteSubsetsOf(Nat))
  BY FS_StrictSubsetOrderingWellFounded
<1>3. \A x \in S : 0 .. x \in downs
  OBVIOUS
<1>4. \A d \in downs : \E x \in S : d = 0 .. x
  OBVIOUS
<1> HIDE DEF downs, below
<1>5. PICK low \in downs : \A d \in downs : <<d, low>> \notin below
  BY <1>1, <1>2, WFMin, Zenon
<1>6. PICK x \in S : low = 0 .. x
  BY <1>4
<1>7. ASSUME NEW y \in S, y < x PROVE FALSE
  <2>1. 0 .. y \in downs
    BY <1>3
  <2>2. 0 .. y \subseteq 0 .. x /\ 0 .. y # 0 .. x /\ 0 .. y \in SUBSET Nat /\ 0 .. x \in SUBSET Nat
    BY <1>7
  <2>3. <<0 .. y, 0 .. x>> \in below
    BY <2>2 DEF StrictSubsetOrdering, below
  <2> QED
    BY <1>5, <1>6, <2>1, <2>3
<1> QED
  BY <1>7

\* A scan: a function on 0 .. n that is defined from its value one number before.
Steps(V, n) == [1 .. n -> [V -> V]]
Scans(f, V, n, base, step) ==
    f \in [0 .. n -> V] /\ f[0] = base /\ \A i \in 1 .. n : f[i] = step[i][f[i - 1]]

LEMMA ScanExists ==
    ASSUME NEW V, NEW base \in V, NEW n \in Nat, NEW step \in Steps(V, n)
    PROVE  \E f : Scans(f, V, n, base, step)
<1> USE DEF Steps
<1> DEFINE Follows(f, m) == f[0] = base /\ \A i \in 1 .. m : f[i] = step[i][f[i - 1]]
           bad == {m \in 0 .. n : ~\E f \in [0 .. m -> V] : Follows(f, m)}
<1> SUFFICES ASSUME n \in bad PROVE FALSE
  <2> SUFFICES \E f \in [0 .. n -> V] : Follows(f, n)
    BY DEF Scans
  <2> QED
    OBVIOUS
<1>1. PICK m \in bad : \A k \in bad : m <= k
  <2>1. bad \in SUBSET Nat /\ bad # {}
    OBVIOUS
  <2> HIDE DEF bad
  <2> QED
    BY <2>1, Smallest
<1>2. m \in 0 .. n /\ ~\E f \in [0 .. m -> V] : Follows(f, m)
  OBVIOUS
<1>3. CASE m = 0
  <2> DEFINE f == [i \in 0 .. 0 |-> base]
  <2>1. f \in [0 .. 0 -> V] /\ f[0] = base /\ \A i \in 1 .. 0 : FALSE
    OBVIOUS
  <2>2. Follows(f, 0)
    BY <2>1
  <2> QED
    BY <1>2, <1>3, <2>1, <2>2
<1>4. CASE m # 0
  <2>1. m - 1 \in 0 .. n /\ m \in 1 .. n /\ ~(m <= m - 1)
    BY <1>2, <1>4
  <2>2. m - 1 \notin bad
    <3> HIDE DEF bad
    <3> QED
      BY <1>1, <2>1, Zenon
  <2>3. PICK f \in [0 .. m - 1 -> V] : Follows(f, m - 1)
    BY <2>1, <2>2
  <2> DEFINE g == [i \in 0 .. m |-> IF i = m THEN step[m][f[m - 1]] ELSE f[i]]
  <2>4. f[m - 1] \in V
    BY <2>1, <2>3
  <2>5. step[m][f[m - 1]] \in V
    BY <2>1, <2>4
  <2>6. \A i \in 0 .. m : i # m => f[i] \in V
    BY <2>1, <2>3
  <2>7. g \in [0 .. m -> V]
    BY <2>5, <2>6
  <2>8. g[m] = step[m][f[m - 1]] /\ \A i \in 0 .. m - 1 : g[i] = f[i]
    BY <2>1
  <2> HIDE DEF g
  <2>9. ASSUME NEW i \in 1 .. m PROVE g[i] = step[i][g[i - 1]]
    <3>1. i - 1 \in 0 .. m - 1 /\ (i = m \/ i \in 1 .. m - 1)
      BY <2>1
    <3>2. g[i - 1] = f[i - 1]
      BY <2>8, <3>1
    <3>3. CASE i = m
      BY <2>8, <3>2, <3>3
    <3>4. CASE i \in 1 .. m - 1
      <4>1. f[i] = step[i][f[i - 1]] /\ i \in 0 .. m - 1
        BY <2>1, <2>3, <3>4
      <4> QED
        BY <2>8, <3>2, <4>1
    <3> QED
      BY <3>1, <3>3, <3>4
  <2>10. Follows(g, m)
    <3>1. 0 \in 0 .. m - 1
      BY <2>1
    <3> QED
      BY <2>3, <2>8, <2>9, <3>1
  <2> QED
    BY <1>2, <2>7, <2>10
<1> QED
  BY <1>3, <1>4

LEMMA MinOf ==
    ASSUME NEW S \in SUBSET Nat, S # {}
    PROVE  Min(S) \in S /\ \A y \in S : Min(S) <= y
BY Smallest DEF Min

LEMMA MaxOf ==
    ASSUME NEW n \in Nat, NEW S \in SUBSET (0 .. n), S # {}
    PROVE  Max(S) \in S /\ \A y \in S : y <= Max(S)
<1> DEFINE from == {n - y : y \in S}
<1>1. from \in SUBSET Nat /\ from # {}
  OBVIOUS
<1>2. \A y \in S : n - y \in from
  OBVIOUS
<1>3. \A k \in from : \E y \in S : k = n - y
  OBVIOUS
<1> HIDE DEF from
<1>4. PICK k \in from : \A j \in from : k <= j
  BY <1>1, Smallest
<1>5. PICK x \in S : k = n - x
  BY <1>3
<1>6. \A y \in S : y <= x
  BY <1>2, <1>4, <1>5
<1>7. \E z \in S : \A y \in S : z >= y
  BY <1>6
<1>8. Max(S) \in S /\ \A y \in S : Max(S) >= y
  BY <1>7 DEF Max
<1> QED
  BY <1>8

-----------------------------------------------------------------------------
(* Texts.                                                                  *)

LineSet == [no : Nat \ {0}, kind : Kinds, level : Nat, chars : Nat \ {0}, blank : BOOLEAN]

\* The lines from one to another.
LEMMA SubSeqIs ==
    ASSUME NEW S, NEW ls \in Seq(S), NEW lo \in 1 .. Len(ls) + 1, NEW hi \in lo - 1 .. Len(ls)
    PROVE  /\ SubSeq(ls, lo, hi) \in Seq(S) /\ Len(SubSeq(ls, lo, hi)) = hi - lo + 1
           /\ DOMAIN SubSeq(ls, lo, hi) = 1 .. hi - lo + 1
           /\ \A k \in 1 .. hi - lo + 1 : SubSeq(ls, lo, hi)[k] = ls[lo + k - 1]
<1>1. Len(ls) \in Nat /\ lo \in Int /\ hi \in Int /\ \A i \in lo .. hi : ls[i] \in S
  OBVIOUS
<1> DEFINE cut == SubSeq(ls, lo, hi)
<1>2. /\ cut \in Seq(S) /\ Len(cut) = (IF lo <= hi THEN hi - lo + 1 ELSE 0)
      /\ \A k \in 1 .. hi - lo + 1 : cut[k] = ls[lo + k - 1]
  BY <1>1, SubSeqProperties
<1> HIDE DEF cut
<1>3. Len(cut) = hi - lo + 1
  BY <1>1, <1>2
<1>4. DOMAIN cut = 1 .. hi - lo + 1
  BY <1>2, <1>3
<1> QED
  BY <1>2, <1>3, <1>4 DEF cut

\* What strip() leaves begins and ends with lines that are not blank, and has
\* all of those; of blank lines alone it leaves nothing.
LEMMA StrippedIs ==
    ASSUME NEW ls \in Seq(Lines)
    PROVE  /\ Stripped(ls).nl = FALSE
           /\ (\A j \in DOMAIN ls : ls[j].blank) => Stripped(ls).lines = <<>>
           /\ (\E j \in DOMAIN ls : ~ls[j].blank) =>
                \E lo, hi \in DOMAIN ls :
                    /\ lo <= hi /\ Stripped(ls).lines = SubSeq(ls, lo, hi)
                    /\ ~ls[lo].blank /\ ~ls[hi].blank
                    /\ \A j \in DOMAIN ls : ls[j].blank \/ j \in lo .. hi
<1> DEFINE full == {i \in DOMAIN ls : ~ls[i].blank}
<1>1. Len(ls) \in Nat /\ DOMAIN ls = 1 .. Len(ls)
  OBVIOUS
<1>2. /\ Stripped(ls).nl = FALSE
      /\ Stripped(ls).lines = (IF full = {} THEN <<>> ELSE SubSeq(ls, Min(full), Max(full)))
  BY DEF Stripped
<1>3. CASE full = {}
  BY <1>2, <1>3
<1>4. CASE full # {}
  <2>1. full \in SUBSET Nat /\ full \in SUBSET (0 .. Len(ls))
    BY <1>1
  <2>2. Min(full) \in full /\ \A y \in full : Min(full) <= y
    <3> HIDE DEF full
    <3> QED
      BY <1>4, <2>1, MinOf
  <2>3. Max(full) \in full /\ \A y \in full : y <= Max(full)
    <3> HIDE DEF full
    <3> QED
      BY <1>1, <1>4, <2>1, MaxOf
  <2>4. Min(full) <= Max(full) /\ Min(full) \in DOMAIN ls /\ Max(full) \in DOMAIN ls
        /\ ~ls[Min(full)].blank /\ ~ls[Max(full)].blank
    BY <2>2, <2>3
  <2>5. \A j \in DOMAIN ls : ls[j].blank \/ j \in Min(full) .. Max(full)
    BY <1>1, <2>2, <2>3
  <2> HIDE DEF full
  <2>6. Stripped(ls).lines = SubSeq(ls, Min(full), Max(full))
    BY <1>2, <1>4
  <2>7. \E j \in DOMAIN ls : ~ls[j].blank
    BY <2>4
  <2> QED
    BY <1>2, <2>4, <2>5, <2>6, <2>7
<1> QED
  BY <1>3, <1>4

LEMMA StrippedTyped ==
    ASSUME NEW ls \in Seq(Lines)
    PROVE  Stripped(ls) \in [lines : Seq(Lines), nl : BOOLEAN]
<1>1. ASSUME NEW lo \in DOMAIN ls, NEW hi \in DOMAIN ls, lo <= hi PROVE SubSeq(ls, lo, hi) \in Seq(Lines)
  <2>1. lo \in 1 .. Len(ls) + 1 /\ hi \in lo - 1 .. Len(ls)
    BY <1>1
  <2> QED
    BY <2>1, SubSeqIs
<1>2. Stripped(ls).lines \in Seq(Lines)
  <2>1. <<>> \in Seq(Lines)
    OBVIOUS
  <2> QED
    BY <1>1, <2>1, StrippedIs
<1>3. Stripped(ls) = [lines |-> Stripped(ls).lines, nl |-> FALSE]
  <2> DEFINE kept == IF {i \in DOMAIN ls : ~ls[i].blank} = {} THEN <<>>
                     ELSE SubSeq(ls, Min({i \in DOMAIN ls : ~ls[i].blank}), Max({i \in DOMAIN ls : ~ls[i].blank}))
  <2>1. Stripped(ls) = [lines |-> kept, nl |-> FALSE]
    BY DEF Stripped
  <2> HIDE DEF kept
  <2> QED
    BY <2>1
<1> DEFINE it == Stripped(ls)
<1>4. it = [lines |-> it.lines, nl |-> FALSE] /\ it.lines \in Seq(Lines)
  BY <1>2, <1>3
<1> HIDE DEF it
<1>5. \A S : \A a \in S, b \in BOOLEAN : [lines |-> a, nl |-> b] \in [lines : S, nl : BOOLEAN]
  BY Zenon
<1> QED
  BY <1>4, <1>5, Zenon DEF it

\* No line that is not blank is stripped.
LEMMA StrippedKeeps ==
    ASSUME NEW ls \in Seq(Lines), NEW j \in DOMAIN ls, ~ls[j].blank
    PROVE  \E k \in DOMAIN Stripped(ls).lines : Stripped(ls).lines[k] = ls[j]
<1>1. PICK lo \in DOMAIN ls, hi \in DOMAIN ls :
        /\ lo <= hi /\ Stripped(ls).lines = SubSeq(ls, lo, hi)
        /\ \A i \in DOMAIN ls : ls[i].blank \/ i \in lo .. hi
  BY StrippedIs
<1>2. j \in lo .. hi /\ lo \in 1 .. Len(ls) /\ hi \in 1 .. Len(ls) /\ Len(ls) \in Nat
  BY <1>1
<1> DEFINE kept == SubSeq(ls, lo, hi)
<1>3. /\ DOMAIN kept = 1 .. hi - lo + 1
      /\ \A k \in 1 .. hi - lo + 1 : kept[k] = ls[lo + k - 1]
  <2>1. lo \in 1 .. Len(ls) + 1 /\ hi \in lo - 1 .. Len(ls)
    BY <1>1, <1>2
  <2> QED
    BY <2>1, SubSeqIs
<1>4. j - lo + 1 \in 1 .. hi - lo + 1 /\ lo + (j - lo + 1) - 1 = j
  BY <1>2
<1> HIDE DEF kept
<1>5. kept[j - lo + 1] = ls[j]
  BY <1>3, <1>4
<1> QED
  BY <1>1, <1>3, <1>4, <1>5 DEF kept

LEMMA CharsUptoIs ==
    ASSUME NEW ls \in Seq(Lines)
    PROVE  /\ CharsUpto(ls)[0] = 0
           /\ \A i \in 1 .. Len(ls) : CharsUpto(ls)[i] = CharsUpto(ls)[i - 1] + ls[i].chars
           /\ \A i \in 0 .. Len(ls) : CharsUpto(ls)[i] \in Nat
<1>0. PICK n \in Nat : n = Len(ls)
  OBVIOUS
<1> DEFINE Counts(f) == f = [i \in 0 .. n |-> IF i = 0 THEN 0 ELSE f[i - 1] + ls[i].chars]
           V == Nat
           add == [i \in 1 .. n |-> [k \in V |-> k + ls[i].chars]]
<1>1. n \in Nat /\ \A i \in 1 .. n : ls[i].chars \in Nat
  BY <1>0, LinesAssumption
<1>2. add \in [1 .. n -> [V -> V]]
  BY <1>1
<1>3. \A i \in 1 .. n, k \in V : add[i][k] = k + ls[i].chars
  OBVIOUS
<1> HIDE DEF add
<1>4. PICK f \in [0 .. n -> V] : f[0] = 0 /\ \A i \in 1 .. n : f[i] = add[i][f[i - 1]]
  <2> DEFINE zero == 0
  <2>1. zero \in V /\ add \in Steps(V, n)
    BY <1>2 DEF Steps
  <2> HIDE DEF V, zero
  <2>2. PICK f : Scans(f, V, n, zero, add)
    BY <2>1, ScanExists
  <2> QED
    BY <2>2 DEF Scans, zero
<1>5. \A i \in 1 .. n : f[i] = f[i - 1] + ls[i].chars
  <2> HIDE DEF V
  <2>1. \A i \in 1 .. n : f[i - 1] \in V
    BY <1>1, <1>4
  <2> QED
    BY <1>3, <1>4, <2>1
<1>6. Counts(f)
  <2> DEFINE g == [i \in 0 .. n |-> IF i = 0 THEN 0 ELSE f[i - 1] + ls[i].chars]
  <2>1. \A i \in 0 .. n : f[i] = g[i]
    BY <1>1, <1>4, <1>5
  <2>2. f = g
    BY <1>4, <2>1
  <2> QED
    BY <2>2
<1>7. Counts(CharsUpto(ls))
  <2>1. CharsUpto(ls) = (CHOOSE g : Counts(g))
    BY <1>0 DEF CharsUpto
  <2> QED
    BY <1>6, <2>1, Zenon
<1> DEFINE upto == CharsUpto(ls)
<1> HIDE DEF upto
<1>8. upto[0] = 0 /\ \A i \in 1 .. n : upto[i] = upto[i - 1] + ls[i].chars
  <2>1. upto = [i \in 0 .. n |-> IF i = 0 THEN 0 ELSE upto[i - 1] + ls[i].chars]
    BY <1>7 DEF upto
  <2>2. 0 \in 0 .. n /\ \A i \in 1 .. n : i \in 0 .. n /\ i # 0
    BY <1>1
  <2> QED
    BY <2>1, <2>2
<1>9. ASSUME NEW k \in 0 .. n PROVE upto[k] \in Nat
  <2> DEFINE bad == {i \in 0 .. n : upto[i] \notin Nat}
  <2> SUFFICES ASSUME bad # {} PROVE FALSE
    OBVIOUS
  <2>1. PICK i \in bad : \A j \in bad : i <= j
    <3>1. bad \in SUBSET Nat
      OBVIOUS
    <3> HIDE DEF bad
    <3> QED
      BY <3>1, Smallest
  <2>2. i \in 1 .. n /\ i - 1 \in 0 .. n /\ ~(i <= i - 1)
    BY <1>1, <1>8
  <2>3. i - 1 \notin bad
    <3> HIDE DEF bad
    <3> QED
      BY <2>1, <2>2, Zenon
  <2>4. upto[i - 1] \in Nat /\ ls[i].chars \in Nat /\ upto[i] = upto[i - 1] + ls[i].chars
    BY <1>1, <1>8, <2>2, <2>3
  <2> QED
    BY <2>1, <2>4
<1> QED
  BY <1>0, <1>8, <1>9 DEF upto

\* text[:max] is made of the first lines, the last of them cut off.
LEMMA CutIs ==
    ASSUME NEW ls \in Seq(Lines), NEW max \in Nat
    PROVE  /\ CutTo(ls, max) \in [lines : Seq(Lines), nl : BOOLEAN]
           /\ Len(CutTo(ls, max).lines) <= Len(ls)
           /\ \A j \in DOMAIN CutTo(ls, max).lines :
                CutTo(ls, max).lines[j].no = ls[j].no /\ CutTo(ls, max).lines[j].blank = ls[j].blank
<1> DEFINE n == Len(ls)
           upto == CharsUpto(ls)
           fit == {i \in 0 .. n : upto[i] <= max}
           kept == Max(fit)
           whole == [lines |-> SubSeq(ls, 1, kept), nl |-> TRUE]
           rest == [ls[kept + 1] EXCEPT !.chars = max + 1 - upto[kept]]
           cut == [lines |-> Append(SubSeq(ls, 1, kept), rest), nl |-> FALSE]
<1>1. CutTo(ls, max) = IF upto[kept] = max \/ kept = n THEN whole ELSE cut
  BY DEF CutTo
<1>2. /\ upto[0] = 0 /\ \A i \in 0 .. n : upto[i] \in Nat
      /\ \A i \in 1 .. n : upto[i] = upto[i - 1] + ls[i].chars
  BY CharsUptoIs
<1>3. n \in Nat /\ \A i \in 1 .. n : ls[i] \in Lines /\ ls[i].chars \in Nat \ {0}
  BY LinesAssumption
<1>4. kept \in fit /\ \A i \in fit : i <= kept
  <2>1. 0 \in fit /\ fit \in SUBSET (0 .. n)
    BY <1>2, <1>3
  <2> HIDE DEF fit, n
  <2> QED
    BY <1>3, <2>1, MaxOf
<1> HIDE DEF upto
<1>5. kept \in 0 .. n /\ upto[kept] <= max /\ (kept # n => upto[kept + 1] > max)
  <2>1. kept \in 0 .. n /\ upto[kept] <= max
    BY <1>4
  <2>2. ASSUME kept # n, upto[kept + 1] <= max PROVE FALSE
    <3>1. kept + 1 \in fit
      BY <1>3, <2>1, <2>2
    <3> HIDE DEF fit
    <3>2. kept + 1 <= kept /\ kept \in Nat
      BY <1>3, <1>4, <2>1, <3>1
    <3> QED
      BY <3>2
  <2>3. kept # n => upto[kept + 1] \in Nat
    BY <1>2, <1>3, <2>1
  <2> QED
    BY <2>1, <2>2, <2>3
<1> HIDE DEF fit, kept
<1> DEFINE front == SubSeq(ls, 1, kept)
<1>6. /\ front \in Seq(Lines) /\ Len(front) = kept /\ DOMAIN front = 1 .. kept
      /\ \A j \in 1 .. kept : front[j] = ls[j]
  <2>1. 1 \in 1 .. Len(ls) + 1 /\ kept \in 1 - 1 .. Len(ls)
    BY <1>3, <1>5
  <2> DEFINE hi == kept
  <2>2. /\ SubSeq(ls, 1, hi) \in Seq(Lines) /\ Len(SubSeq(ls, 1, hi)) = hi - 1 + 1
        /\ DOMAIN SubSeq(ls, 1, hi) = 1 .. hi - 1 + 1
        /\ \A k \in 1 .. hi - 1 + 1 : SubSeq(ls, 1, hi)[k] = ls[1 + k - 1]
    BY <2>1, SubSeqIs
  <2>3. hi - 1 + 1 = hi /\ \A k \in 1 .. hi : 1 + k - 1 = k
    BY <2>1
  <2> QED
    BY <2>2, <2>3
<1>10. \A S : \A a \in S, b \in BOOLEAN : [lines |-> a, nl |-> b] \in [lines : S, nl : BOOLEAN]
  BY Zenon
<1> HIDE DEF front
<1>7. CASE upto[kept] = max \/ kept = n
  <2>1. CutTo(ls, max) = [lines |-> front, nl |-> TRUE]
    BY <1>1, <1>7 DEF front
  <2>2. CutTo(ls, max) \in [lines : Seq(Lines), nl : BOOLEAN]
    BY <1>6, <1>10, <2>1, Zenon
  <2>3. CutTo(ls, max).lines = front
    BY <2>1
  <2> QED
    BY <1>3, <1>5, <1>6, <2>2, <2>3
<1>8. CASE upto[kept] # max /\ kept # n
  <2>1. kept + 1 \in 1 .. n /\ upto[kept] \in Nat /\ upto[kept + 1] = upto[kept] + ls[kept + 1].chars
    <3>1. kept + 1 \in 1 .. n /\ kept + 1 - 1 = kept
      BY <1>3, <1>5, <1>8
    <3> QED
      BY <1>2, <1>5, <3>1
  <2> DEFINE l == ls[kept + 1]
             room == max + 1 - upto[kept]
  <2>2. l \in Lines /\ room \in 1 .. l.chars
    BY <1>3, <1>5, <1>8, <2>1
  <2>3. l \in LineSet
    BY <2>2, CutAssumption DEF LineSet
  <2>4. rest = [l EXCEPT !.chars = room]
    OBVIOUS
  <2> HIDE DEF l, room
  <2>5. rest \in Lines
    BY <2>2, <2>4, CutAssumption
  <2>6. rest.no = l.no /\ rest.blank = l.blank
    BY <2>3, <2>4 DEF LineSet
  <2> HIDE DEF rest
  <2> DEFINE all == Append(front, rest)
  <2>7. /\ all \in Seq(Lines) /\ Len(all) = kept + 1 /\ DOMAIN all = 1 .. kept + 1
        /\ all[kept + 1] = rest /\ \A j \in 1 .. kept : all[j] = ls[j]
    BY <1>5, <1>6, <2>5
  <2>8. CutTo(ls, max) = [lines |-> all, nl |-> FALSE]
    BY <1>1, <1>8 DEF front
  <2> HIDE DEF all
  <2>9. CutTo(ls, max) \in [lines : Seq(Lines), nl : BOOLEAN]
    BY <1>10, <2>7, <2>8, Zenon
  <2>10. CutTo(ls, max).lines = all
    BY <2>8
  <2>11. \A j \in 1 .. kept + 1 : all[j].no = ls[j].no /\ all[j].blank = ls[j].blank
    <3>1. \A j \in 1 .. kept + 1 : j = kept + 1 \/ j \in 1 .. kept
      BY <1>3, <1>5
    <3> QED
      BY <2>6, <2>7, <3>1 DEF l
  <2> QED
    BY <1>3, <2>1, <2>7, <2>9, <2>10, <2>11
<1> QED
  BY <1>7, <1>8

-----------------------------------------------------------------------------
(* Scans that collect line numbers.                                        *)

\* InOrder has the members of a set up to n, each after the smaller ones.
LEMMA InOrderIs ==
    ASSUME NEW n \in Nat, NEW S \in SUBSET (1 .. n)
    PROVE  LET q == InOrder(S, n) IN
           /\ q \in Seq(1 .. n)
           /\ \A x \in S : \E k \in DOMAIN q : q[k] = x
           /\ \A k \in DOMAIN q : q[k] \in S
           /\ \A j, k \in DOMAIN q : j < k => q[j] < q[k]
<1> DEFINE V == Seq(1 .. n)
           Next1(i, s) == IF i \in S THEN Append(s, i) ELSE s
           Finds(f) == f = [i \in 0 .. n |-> IF i = 0 THEN <<>> ELSE IF i \in S THEN Append(f[i - 1], i) ELSE f[i - 1]]
           add == [i \in 1 .. n |-> [s \in V |-> Next1(i, s)]]
<1>0. \A i \in 0 .. n : i = 0 \/ (i \in 1 .. n /\ i # 0)
  OBVIOUS
<1>1. \A i \in 1 .. n, s \in V : Next1(i, s) \in V
  <2> DEFINE T == 1 .. n
  <2> HIDE DEF T
  <2>1. \A i \in T, s \in Seq(T) : Append(s, i) \in Seq(T)
    OBVIOUS
  <2> QED
    BY <2>1 DEF T
<1>2. add \in [1 .. n -> [V -> V]] /\ \A i \in 1 .. n, s \in V : add[i][s] = Next1(i, s)
  <2> HIDE DEF Next1, V
  <2> QED
    BY <1>1
<1>3. <<>> \in V
  OBVIOUS
<1> HIDE DEF add
<1>4. PICK f \in [0 .. n -> V] : f[0] = <<>> /\ \A i \in 1 .. n : f[i] = add[i][f[i - 1]]
  <2> DEFINE none == <<>>
  <2>1. none \in V /\ add \in Steps(V, n)
    BY <1>2, <1>3 DEF Steps
  <2> HIDE DEF V, none
  <2>2. PICK f : Scans(f, V, n, none, add)
    BY <2>1, ScanExists
  <2> QED
    BY <2>2 DEF Scans, none
<1>5. \A i \in 1 .. n : f[i] = Next1(i, f[i - 1])
  <2>1. \A i \in 1 .. n : f[i - 1] \in V
    <3> HIDE DEF V
    <3> QED
      BY <1>4
  <2> HIDE DEF V, Next1
  <2> QED
    BY <1>2, <1>4, <2>1
<1>6. Finds(f)
  <2> DEFINE g == [i \in 0 .. n |-> IF i = 0 THEN <<>> ELSE Next1(i, f[i - 1])]
  <2>1. \A i \in 0 .. n : f[i] = g[i]
    <3> HIDE DEF Next1, V
    <3> QED
      BY <1>4, <1>5, <1>0
  <2>2. f = g
    <3> HIDE DEF Next1, V
    <3> QED
      BY <1>4, <2>1
  <2> QED
    BY <2>2
<1> DEFINE found == CHOOSE g : Finds(g)
<1>7. Finds(found)
  BY <1>6, Zenon
<1>8. InOrder(S, n) = found[n]
  BY DEF InOrder
<1> HIDE DEF found
<1>9. found[0] = <<>> /\ \A i \in 1 .. n : found[i] = Next1(i, found[i - 1])
  <2>1. found = [i \in 0 .. n |-> IF i = 0 THEN <<>> ELSE Next1(i, found[i - 1])]
    BY <1>7
  <2>2. 0 \in 0 .. n /\ \A i \in 1 .. n : i \in 0 .. n /\ i # 0
    OBVIOUS
  <2> HIDE DEF Next1
  <2> QED
    BY <2>1, <2>2
<1> DEFINE Good(i, q) == /\ q \in Seq(1 .. n)
                         /\ \A x \in S : x <= i => \E k \in DOMAIN q : q[k] = x
                         /\ \A k \in DOMAIN q : q[k] \in S /\ q[k] <= i
                         /\ \A j, k \in DOMAIN q : j < k => q[j] < q[k]
           bad == {i \in 0 .. n : ~Good(i, found[i])}
<1>10. bad = {}
  <2> SUFFICES ASSUME bad # {} PROVE FALSE
    OBVIOUS
  <2>1. PICK i \in bad : \A j \in bad : i <= j
    <3>1. bad \in SUBSET Nat
      OBVIOUS
    <3> HIDE DEF bad
    <3> QED
      BY <3>1, Smallest
  <2>2. i \in 0 .. n /\ ~Good(i, found[i])
    OBVIOUS
  <2>3. CASE i = 0
    <3>1. Good(0, <<>>)
      OBVIOUS
    <3> HIDE DEF Good
    <3> QED
      BY <1>9, <2>2, <2>3, <3>1
  <2>4. CASE i # 0
    <3>1. i \in 1 .. n /\ i - 1 \in 0 .. n /\ ~(i <= i - 1)
      BY <2>2, <2>4
    <3>2. i - 1 \notin bad
      <4> HIDE DEF bad
      <4> QED
        BY <2>1, <3>1, Zenon
    <3> DEFINE q == found[i - 1]
               r == Next1(i, q)
    <3>3. Good(i - 1, q)
      <4> HIDE DEF Good
      <4> QED
        BY <3>1, <3>2
    <3>4. found[i] = r
      BY <1>9, <3>1
    <3> HIDE DEF q
    <3>5. CASE i \notin S
      <4>1. r = q
        BY <3>5
      <4>2. \A x \in S : x <= i => x <= i - 1
        BY <3>1, <3>5
      <4>3. Good(i, q)
        <5> HIDE DEF bad, V, Next1, Finds
        <5>1. \A k \in DOMAIN q : q[k] \in S /\ q[k] <= i
          BY <3>1, <3>3
        <5> QED
          BY <3>3, <4>2, <5>1
      <4> QED
        BY <2>2, <3>4, <4>1, <4>3
    <3>6. CASE i \in S
      <4>1. r = Append(q, i) /\ q \in Seq(1 .. n) /\ i \in 1 .. n
        BY <3>1, <3>3, <3>6
      <4>2. /\ r \in Seq(1 .. n) /\ Len(q) \in Nat /\ DOMAIN q = 1 .. Len(q) /\ DOMAIN r = 1 .. Len(q) + 1
            /\ r[Len(q) + 1] = i /\ \A k \in 1 .. Len(q) : r[k] = q[k]
        <5> DEFINE T == 1 .. n
        <5> HIDE DEF T
        <5>1. r = Append(q, i) /\ q \in Seq(T) /\ i \in T
          BY <4>1 DEF T
        <5> HIDE DEF r
        <5>2. /\ r \in Seq(T) /\ Len(q) \in Nat /\ DOMAIN q = 1 .. Len(q) /\ DOMAIN r = 1 .. Len(q) + 1
              /\ r[Len(q) + 1] = i /\ \A k \in 1 .. Len(q) : r[k] = q[k]
          BY <5>1
        <5> QED
          BY <5>2 DEF T
      <4> HIDE DEF r
      <4>7. /\ Len(q) \in Nat /\ DOMAIN q = 1 .. Len(q) /\ DOMAIN r = 1 .. Len(q) + 1
            /\ r[Len(q) + 1] = i /\ \A k \in 1 .. Len(q) : r[k] = q[k]
        BY <4>2
      <4>8. \A k \in DOMAIN r : k = Len(q) + 1 \/ k \in DOMAIN q
        <5> HIDE DEF Good, bad, V, Next1, Finds
        <5> QED
          BY <4>7
      <4>9. /\ \A x \in S : x <= i - 1 => \E k \in DOMAIN q : q[k] = x
            /\ \A k \in DOMAIN q : q[k] \in S /\ q[k] <= i - 1 /\ q[k] \in Int
            /\ \A j, k \in DOMAIN q : j < k => q[j] < q[k]
        BY <3>3
      <4> HIDE DEF Good, bad, V, Next1, Finds
      <4>3. ASSUME NEW x \in S, x <= i PROVE \E k \in DOMAIN r : r[k] = x
        <5>1. CASE x = i
          BY <4>7, <5>1
        <5>2. CASE x # i
          <6>1. x <= i - 1
            BY <3>1, <4>3, <5>2
          <6>2. PICK k \in DOMAIN q : q[k] = x
            BY <4>9, <6>1
          <6> QED
            BY <4>7, <6>2
        <5> QED
          BY <5>1, <5>2
      <4>4. ASSUME NEW k \in DOMAIN r PROVE r[k] \in S /\ r[k] <= i
        BY <3>1, <4>9, <3>6, <4>7, <4>8
      <4>5. ASSUME NEW j \in DOMAIN r, NEW k \in DOMAIN r, j < k PROVE r[j] < r[k]
        <5>1. j \in 1 .. Len(q) /\ r[j] = q[j] /\ q[j] <= i - 1 /\ q[j] \in Int
          BY <4>9, <4>7, <4>8, <4>5
        <5>2. CASE k = Len(q) + 1
          BY <3>1, <4>7, <5>1, <5>2
        <5>3. CASE k \in 1 .. Len(q)
          BY <4>9, <4>7, <4>8, <4>5, <5>1, <5>3
        <5> QED
          BY <4>7, <4>8, <5>2, <5>3
      <4>6. Good(i, r)
        BY <4>2, <4>3, <4>4, <4>5 DEF Good
      <4> HIDE DEF Good
      <4> QED
        BY <2>2, <3>4, <4>6
    <3> QED
      BY <3>5, <3>6
  <2> QED
    BY <2>3, <2>4
<1>11. Good(n, found[n])
  <2>1. n \in 0 .. n
    OBVIOUS
  <2> HIDE DEF Good
  <2> QED
    BY <1>10, <2>1
<1> QED
  BY <1>8, <1>11

-----------------------------------------------------------------------------
(* Sections.                                                               *)

Texts == [lines : Seq(Lines), nl : BOOLEAN]
ChunkSections ==
    [text : Texts, start : Nat \ {0}, limit : Nat \ {0}, overlap : Nat, kind : {"text", "code"},
     symbol : Nat, path : Seq(Nat), prefix : Seq(Lines), first : Nat, whole : Nat, part : Nat \ {0}]

\* A line that is shown by a text, or that is put in front of it.
Shows(t, i) == \E j \in DOMAIN t.lines : t.lines[j].no = i /\ ~t.lines[j].blank
Carries(s, i) ==
    Shows(s.text, i) \/ (i \in Numbers(s.prefix) /\ \E j \in DOMAIN s.text.lines : ~s.text.lines[j].blank)

LEMMA TextsAre ==
    /\ \A ls \in Seq(Lines), nl \in BOOLEAN : [lines |-> ls, nl |-> nl] \in Texts
    /\ \A t \in Texts : t.lines \in Seq(Lines) /\ t.nl \in BOOLEAN
BY Zenon DEF Texts

LEMMA SectionTyped ==
    ASSUME NEW t \in Texts, NEW begin \in Nat \ {0}, NEW max \in Nat \ {0}, NEW lap \in Nat
    PROVE  Section(t, begin, max, lap) \in ChunkSections
<1>1. <<>> \in Seq(Nat) /\ <<>> \in Seq(Lines)
  OBVIOUS
<1> QED
  BY <1>1 DEF Section, ChunkSections, None

LEMMA DocIs ==
    ASSUME doc \in Documents
    PROVE  /\ doc.type \in Types /\ doc.nl \in BOOLEAN
           /\ doc.lines \in Seq(Lines) /\ Len(doc.lines) \in Nat /\ DOMAIN doc.lines = 1 .. Len(doc.lines)
           /\ \A i \in DOMAIN doc.lines : doc.lines[i].no = i
           /\ \A i \in DOMAIN doc.lines : doc.lines[i] \in LineSet
BY DocumentsAssumption, CutAssumption DEF LineSet

LEMMA BetweenIs ==
    ASSUME doc \in Documents, NEW from \in 1 .. Len(doc.lines) + 1, NEW to \in from - 1 .. Len(doc.lines)
    PROVE  /\ Between(from, to) \in Seq(Lines)
           /\ DOMAIN Between(from, to) = 1 .. to - from + 1
           /\ Len(Between(from, to)) = to - from + 1
           /\ \A k \in 1 .. to - from + 1 : Between(from, to)[k] = doc.lines[from + k - 1]
BY DocIs, SubSeqIs DEF Between

\* What is stripped of a part of the document shows its lines.
LEMMA PieceShows ==
    ASSUME doc \in Documents, NEW from \in 1 .. Len(doc.lines) + 1, NEW to \in from - 1 .. Len(doc.lines)
    PROVE  /\ Stripped(Between(from, to)) \in Texts
           /\ \A i \in from .. to : doc.lines[i].blank \/ Shows(Stripped(Between(from, to)), i)
<1> DEFINE ls == Between(from, to)
<1>1. /\ ls \in Seq(Lines) /\ DOMAIN ls = 1 .. to - from + 1
      /\ \A k \in 1 .. to - from + 1 : ls[k] = doc.lines[from + k - 1]
  BY BetweenIs
<1> HIDE DEF ls
<1>2. Stripped(ls) \in Texts
  BY <1>1, StrippedTyped DEF Texts
<1>3. ASSUME NEW i \in from .. to, ~doc.lines[i].blank PROVE Shows(Stripped(ls), i)
  <2>1. i - from + 1 \in 1 .. to - from + 1 /\ from + (i - from + 1) - 1 = i /\ i \in DOMAIN doc.lines
    BY DocIs
  <2>2. ls[i - from + 1] = doc.lines[i]
    BY <1>1, <2>1
  <2>3. PICK k \in DOMAIN Stripped(ls).lines : Stripped(ls).lines[k] = doc.lines[i]
    BY <1>1, <1>3, <2>1, <2>2, StrippedKeeps
  <2>4. doc.lines[i].no = i
    BY <2>1, DocIs
  <2> QED
    BY <1>3, <2>3, <2>4 DEF Shows
<1> QED
  BY <1>2, <1>3 DEF ls

\* The whole document is one section.
LEMMA WholeCarries ==
    ASSUME doc \in Documents, NEW max \in Nat \ {0}, NEW lap \in Nat
    PROVE  /\ <<Section(Whole(doc.lines), 1, max, lap)>> \in Seq(ChunkSections)
           /\ \A i \in DOMAIN doc.lines : doc.lines[i].blank \/
                \E k \in DOMAIN <<Section(Whole(doc.lines), 1, max, lap)>> :
                    Carries(<<Section(Whole(doc.lines), 1, max, lap)>>[k], i)
<1> DEFINE s == Section(Whole(doc.lines), 1, max, lap)
<1>1. Whole(doc.lines) \in Texts /\ Whole(doc.lines).lines = doc.lines
  BY DocIs, TextsAre DEF Whole
<1>2. s \in ChunkSections
  BY <1>1, SectionTyped
<1>3. s.text = Whole(doc.lines)
  BY DEF Section
<1> HIDE DEF s
<1>4. ASSUME NEW i \in DOMAIN doc.lines, ~doc.lines[i].blank PROVE Carries(s, i)
  BY <1>1, <1>3, <1>4, DocIs DEF Carries, Shows
<1>5. <<s>> \in Seq(ChunkSections) /\ DOMAIN <<s>> = {1} /\ <<s>>[1] = s
  BY <1>2
<1> QED
  BY <1>4, <1>5 DEF s

\* An increasing sequence of line numbers.
Rises(q, n) == q \in Seq(1 .. n) /\ \A j, k \in DOMAIN q : j < k => q[j] < q[k]

LEMMA Joined ==
    ASSUME NEW S, NEW a \in Seq(S), NEW b \in Seq(S)
    PROVE  /\ a \o b \in Seq(S) /\ Len(a) \in Nat /\ Len(b) \in Nat
           /\ DOMAIN (a \o b) = 1 .. Len(a) + Len(b) /\ DOMAIN a = 1 .. Len(a) /\ DOMAIN b = 1 .. Len(b)
           /\ \A k \in 1 .. Len(a) : (a \o b)[k] = a[k]
           /\ \A k \in 1 .. Len(b) : (a \o b)[Len(a) + k] = b[k]
<1>1. \A k \in 1 .. Len(b) : (a \o b)[Len(a) + k] = b[k]
  OBVIOUS
<1> QED
  BY <1>1

\* Where a document is cut at the members of an increasing sequence, a line
\* that is not before the first is in one of the pieces.
LEMMA PieceOf ==
    ASSUME NEW n \in Nat, NEW q, Rises(q, n), NEW i \in Nat, q # <<>>, q[1] <= i
    PROVE  \E k \in DOMAIN q : q[k] <= i /\ (k < Len(q) => i < q[k + 1])
<1> DEFINE upto == {k \in 1 .. Len(q) : q[k] <= i}
<1>1. Len(q) \in Nat /\ DOMAIN q = 1 .. Len(q) /\ 1 \in 1 .. Len(q) /\ \A k \in 1 .. Len(q) : q[k] \in 1 .. n
  BY DEF Rises
<1>2. upto \in SUBSET (0 .. Len(q)) /\ upto # {}
  BY <1>1
<1>3. \A k \in 1 .. Len(q) : k \in upto \/ i < q[k]
  BY <1>1
<1>4. \A k \in upto : k \in 1 .. Len(q) /\ q[k] <= i
  OBVIOUS
<1> HIDE DEF upto
<1>5. Max(upto) \in upto /\ \A k \in upto : k <= Max(upto)
  BY <1>1, <1>2, MaxOf
<1>6. ASSUME Max(upto) < Len(q) PROVE i < q[Max(upto) + 1]
  <2>1. Max(upto) + 1 \in 1 .. Len(q) /\ Max(upto) \in Nat /\ ~(Max(upto) + 1 <= Max(upto))
    BY <1>1, <1>4, <1>5, <1>6
  <2> QED
    BY <1>3, <1>5, <2>1
<1> QED
  BY <1>1, <1>4, <1>5, <1>6

\* From one cut to the next.
NextCut(q, k, n) == IF k < Len(q) THEN q[k + 1] ELSE n + 1

LEMMA CutsAre ==
    ASSUME NEW n \in Nat, NEW q, Rises(q, n), NEW k \in DOMAIN q
    PROVE  /\ q[k] \in 1 .. n + 1 /\ NextCut(q, k, n) - 1 \in q[k] - 1 .. n
           /\ NextCut(q, k, n) \in Nat
<1>1. Len(q) \in Nat /\ DOMAIN q = 1 .. Len(q) /\ \A j \in 1 .. Len(q) : q[j] \in 1 .. n
  BY DEF Rises
<1>2. CASE k < Len(q)
  <2>1. k + 1 \in DOMAIN q /\ k < k + 1
    BY <1>1, <1>2
  <2>2. q[k] < q[k + 1]
    BY <2>1 DEF Rises
  <2> QED
    BY <1>1, <1>2, <2>1, <2>2 DEF NextCut
<1>3. CASE ~(k < Len(q))
  BY <1>1, <1>3 DEF NextCut
<1> QED
  BY <1>2, <1>3

LEMMA HeadingsAre ==
    ASSUME doc \in Documents
    PROVE  Rises(Headings, Len(doc.lines))
<1> DEFINE S == {i \in DOMAIN doc.lines : doc.lines[i].level > 0 /\ Fence[i - 1] = "none"}
<1>1. Len(doc.lines) \in Nat /\ S \in SUBSET (1 .. Len(doc.lines))
  BY DocIs
<1>2. Headings = InOrder(S, Len(doc.lines))
  BY DEF Headings
<1> HIDE DEF S
<1> QED
  BY <1>1, <1>2, InOrderIs DEF Rises

LEMMA KeysAre ==
    ASSUME doc \in Documents
    PROVE  Rises(Keys, Len(doc.lines))
<1> DEFINE S == {i \in DOMAIN doc.lines : doc.lines[i].kind = "key"}
<1>1. Len(doc.lines) \in Nat /\ S \in SUBSET (1 .. Len(doc.lines))
  BY DocIs
<1>2. Keys = InOrder(S, Len(doc.lines))
  BY DEF Keys
<1> HIDE DEF S
<1> QED
  BY <1>1, <1>2, InOrderIs DEF Rises

\* Of a stack of headings some are left, from its bottom.
LEMMA PoppedTyped ==
    ASSUME NEW stack \in Seq(Nat), NEW level
    PROVE  Popped(stack, level) \in Seq(Nat)
<1> DEFINE left == {0} \cup {j \in DOMAIN stack : LevelOf(stack[j]) < level}
<1>1. Len(stack) \in Nat /\ left \in SUBSET (0 .. Len(stack)) /\ left # {}
  OBVIOUS
<1>2. Popped(stack, level) = SubSeq(stack, 1, Max(left))
  BY DEF Popped
<1> HIDE DEF left
<1>3. Max(left) \in 0 .. Len(stack)
  BY <1>1, MaxOf
<1>4. 1 \in 1 .. Len(stack) + 1 /\ Max(left) \in 1 - 1 .. Len(stack)
  BY <1>1, <1>3
<1> QED
  BY <1>2, <1>4, SubSeqIs

LEMMA HeadingStackIs ==
    ASSUME doc \in Documents
    PROVE  /\ HeadingStack[0] = <<>>
           /\ \A k \in 1 .. Len(Headings) :
                HeadingStack[k] = Append(Popped(HeadingStack[k - 1], LevelOf(Headings[k])), Headings[k])
           /\ \A k \in 0 .. Len(Headings) : HeadingStack[k] \in Seq(Nat)
<1>0. PICK n \in Nat : n = Len(Headings)
  BY HeadingsAre DEF Rises
<1> DEFINE V == Seq(Nat)
           OnTop(k, s) == Append(Popped(s, LevelOf(Headings[k])), Headings[k])
           push == [k \in 1 .. n |-> [s \in V |-> OnTop(k, s)]]
           Stacks(f) == f = [k \in 0 .. n |-> IF k = 0 THEN <<>> ELSE OnTop(k, f[k - 1])]
<1>1. \A k \in 1 .. n, s \in V : OnTop(k, s) \in V
  <2>1. \A k \in 1 .. n : Headings[k] \in Nat
    BY <1>0, HeadingsAre DEF Rises
  <2>2. \A k \in 1 .. n, s \in V : Popped(s, LevelOf(Headings[k])) \in V
    BY PoppedTyped
  <2> QED
    BY <2>1, <2>2
<1>2. push \in Steps(V, n) /\ \A k \in 1 .. n, s \in V : push[k][s] = OnTop(k, s)
  <2> HIDE DEF V, OnTop
  <2> QED
    BY <1>1 DEF Steps
<1>3. <<>> \in V
  OBVIOUS
<1> HIDE DEF V, OnTop, push
<1>4. PICK f : Scans(f, V, n, <<>>, push)
  <2> DEFINE none == <<>>
  <2>1. none \in V
    BY <1>3
  <2> HIDE DEF none
  <2>2. \E f : Scans(f, V, n, none, push)
    BY <1>2, <2>1, ScanExists
  <2> QED
    BY <2>2 DEF none
<1>5. f \in [0 .. n -> V] /\ f[0] = <<>> /\ \A k \in 1 .. n : f[k] = OnTop(k, f[k - 1])
  <2>1. f \in [0 .. n -> V] /\ f[0] = <<>> /\ \A k \in 1 .. n : f[k] = push[k][f[k - 1]]
    BY <1>4 DEF Scans
  <2>2. \A k \in 1 .. n : f[k - 1] \in V
    BY <2>1
  <2> QED
    BY <1>2, <2>1, <2>2
<1>6. Stacks(f)
  <2> DEFINE g == [k \in 0 .. n |-> IF k = 0 THEN <<>> ELSE OnTop(k, f[k - 1])]
  <2>1. \A k \in 0 .. n : k = 0 \/ (k \in 1 .. n /\ k # 0)
    OBVIOUS
  <2>2. \A k \in 0 .. n : f[k] = g[k]
    BY <1>5, <2>1
  <2>3. f = g
    BY <1>5, <2>2
  <2> QED
    BY <2>3
<1>7. Stacks(HeadingStack)
  <2>1. HeadingStack = (CHOOSE g : Stacks(g))
    BY <1>0 DEF HeadingStack, OnTop
  <2> QED
    BY <1>6, <2>1, Zenon
<1>8. HeadingStack[0] = <<>> /\ \A k \in 1 .. n : HeadingStack[k] = OnTop(k, HeadingStack[k - 1])
  <2> DEFINE h == HeadingStack
  <2>1. h = [k \in 0 .. n |-> IF k = 0 THEN <<>> ELSE OnTop(k, h[k - 1])]
    BY <1>7
  <2>2. 0 \in 0 .. n /\ \A k \in 1 .. n : k \in 0 .. n /\ k # 0
    OBVIOUS
  <2> HIDE DEF h
  <2>3. h[0] = <<>> /\ \A k \in 1 .. n : h[k] = OnTop(k, h[k - 1])
    BY <2>1, <2>2
  <2> QED
    BY <2>3 DEF h
<1>9. ASSUME NEW m \in 0 .. n PROVE HeadingStack[m] \in V
  <2> DEFINE bad == {k \in 0 .. n : HeadingStack[k] \notin V}
  <2> SUFFICES ASSUME bad # {} PROVE FALSE
    OBVIOUS
  <2>1. PICK k \in bad : \A j \in bad : k <= j
    <3>1. bad \in SUBSET Nat
      OBVIOUS
    <3> HIDE DEF bad
    <3> QED
      BY <3>1, Smallest
  <2>2. k \in 0 .. n /\ HeadingStack[k] \notin V
    OBVIOUS
  <2>3. k \in 1 .. n /\ k - 1 \in 0 .. n /\ ~(k <= k - 1)
    BY <1>3, <1>8, <2>2
  <2>4. k - 1 \notin bad
    <3> HIDE DEF bad
    <3> QED
      BY <2>1, <2>3, Zenon
  <2>5. HeadingStack[k - 1] \in V
    BY <2>3, <2>4
  <2> QED
    BY <1>1, <1>8, <2>2, <2>3, <2>5
<1> QED
  BY <1>0, <1>8, <1>9 DEF V, OnTop

LEMMA WithPath ==
    ASSUME NEW s \in ChunkSections, NEW p \in Seq(Nat)
    PROVE  [s EXCEPT !.path = p] \in ChunkSections /\ [s EXCEPT !.path = p].text = s.text
BY DEF ChunkSections

LEMMA WithSymbol ==
    ASSUME NEW s \in ChunkSections, NEW x \in Nat
    PROVE  [s EXCEPT !.symbol = x] \in ChunkSections /\ [s EXCEPT !.symbol = x].text = s.text
BY DEF ChunkSections

\* Every line of a Markdown file is in the text before its first heading or
\* under a heading.
LEMMA MarkdownCarries ==
    ASSUME doc \in Documents
    PROVE  /\ MarkdownSections \in Seq(ChunkSections)
           /\ \A i \in DOMAIN doc.lines : doc.lines[i].blank \/
                \E k \in DOMAIN MarkdownSections : Carries(MarkdownSections[k], i)
<1>1. CASE Headings = <<>>
  <2>1. MarkdownSections = <<Section(Whole(doc.lines), 1, DocMax, 3)>>
    BY <1>1 DEF MarkdownSections
  <2>2. DocMax \in Nat \ {0}
    BY BudgetAssumption
  <2> QED
    BY <2>1, <2>2, WholeCarries
<1>2. CASE Headings # <<>>
  <2>0. PICK n \in Nat : n = Len(doc.lines) /\ DOMAIN doc.lines = 1 .. n
    BY DocIs
  <2>R. Rises(Headings, n)
    BY <2>0, HeadingsAre
  <2>1. /\ Headings \in Seq(1 .. n) /\ DOMAIN Headings = 1 .. Len(Headings) /\ Len(Headings) \in Nat
        /\ \A k \in DOMAIN Headings : Headings[k] \in 1 .. n
    BY <2>R DEF Rises
  <2> DEFINE under == [k \in DOMAIN Headings |-> HeadingSection(k)]
  <2>2. ASSUME NEW k \in DOMAIN Headings
        PROVE  /\ HeadingSection(k) \in ChunkSections
               /\ \A i \in Headings[k] .. NextCut(Headings, k, n) - 1 :
                    doc.lines[i].blank \/ Carries(HeadingSection(k), i)
    <3> DEFINE to == NextCut(Headings, k, n) - 1
               t == Stripped(Between(Headings[k], to))
               s == Section(t, Headings[k], DocMax, 3)
    <3>1. Headings[k] \in 1 .. n + 1 /\ to \in Headings[k] - 1 .. n /\ Headings[k] \in Nat \ {0}
      BY <2>1, <2>R, CutsAre
    <3>2. t \in Texts /\ \A i \in Headings[k] .. to : doc.lines[i].blank \/ Shows(t, i)
      <4> HIDE DEF to
      <4> QED
        BY <2>0, <3>1, PieceShows
    <3> HIDE DEF t
    <3>3. s \in ChunkSections
      BY <3>1, <3>2, SectionTyped, BudgetAssumption
    <3>4. s.text = t
      BY DEF Section
    <3>5. HeadingSection(k) = [s EXCEPT !.path = HeadingStack[k]]
      BY <2>0 DEF HeadingSection, NextCut, t
    <3>6. HeadingStack[k] \in Seq(Nat)
      BY <2>1, HeadingStackIs
    <3> HIDE DEF s
    <3>7. HeadingSection(k) \in ChunkSections /\ HeadingSection(k).text = t
      BY <3>3, <3>4, <3>5, <3>6, WithPath
    <3> QED
      BY <3>2, <3>7 DEF Carries
  <2>3. under \in Seq(ChunkSections) /\ DOMAIN under = DOMAIN Headings /\ Len(under) = Len(Headings)
    BY <2>1, <2>2
  <2> DEFINE t == Stripped(Between(1, Headings[1] - 1))
             s == Section(t, 1, DocMax, 3)
  <2>4. Headings[1] \in 1 .. n
    BY <1>2, <2>1
  <2>5. t \in Texts /\ \A i \in 1 .. Headings[1] - 1 : doc.lines[i].blank \/ Shows(t, i)
    <3>1. 1 \in 1 .. n + 1 /\ Headings[1] - 1 \in 1 - 1 .. n
      BY <2>4
    <3> QED
      BY <2>0, <3>1, PieceShows
  <2> HIDE DEF t
  <2>6. s \in ChunkSections
    BY <2>5, SectionTyped, BudgetAssumption
  <2>7. s.text = t
    BY DEF Section
  <2>8. Intro = IF t.lines = <<>> THEN <<>> ELSE <<s>>
    BY DEF Intro, t
  <2> HIDE DEF s
  <2>9. Intro \in Seq(ChunkSections) /\ (t.lines # <<>> => Len(Intro) = 1 /\ Intro[1] = s) /\ Len(Intro) \in Nat
    BY <2>6, <2>8
  <2>10. MarkdownSections = Intro \o under
    BY <1>2 DEF MarkdownSections
  <2> HIDE DEF under
  <2>11. /\ MarkdownSections \in Seq(ChunkSections)
         /\ DOMAIN MarkdownSections = 1 .. Len(Intro) + Len(under)
         /\ \A k \in 1 .. Len(Intro) : MarkdownSections[k] = Intro[k]
         /\ \A k \in 1 .. Len(under) : MarkdownSections[Len(Intro) + k] = under[k]
    <3> DEFINE all == Intro \o under
    <3>1. /\ all \in Seq(ChunkSections) /\ DOMAIN all = 1 .. Len(Intro) + Len(under)
          /\ \A k \in 1 .. Len(Intro) : all[k] = Intro[k]
          /\ \A k \in 1 .. Len(under) : all[Len(Intro) + k] = under[k]
      <4>1. Intro \in Seq(ChunkSections) /\ under \in Seq(ChunkSections)
        BY <2>3, <2>9
      <4> HIDE DEF all
      <4>2. all = Intro \o under
        BY DEF all
      <4> QED
        BY <4>1, <4>2, Joined
    <3>2. MarkdownSections = all
      BY <2>10
    <3> HIDE DEF all
    <3> QED
      BY <3>1, <3>2
  <2>12. ASSUME NEW i \in DOMAIN doc.lines, ~doc.lines[i].blank
         PROVE  \E k \in DOMAIN MarkdownSections : Carries(MarkdownSections[k], i)
    <3>1. CASE i < Headings[1]
      <4>1. Shows(t, i)
        BY <2>0, <2>4, <2>5, <2>12, <3>1
      <4>2. t.lines # <<>>
        BY <4>1 DEF Shows
      <4>3. 1 \in DOMAIN MarkdownSections /\ MarkdownSections[1] = s
        <5>1. Len(Intro) = 1 /\ Intro[1] = s /\ Len(under) \in Nat
          BY <2>1, <2>3, <2>9, <4>2
        <5>2. 1 \in 1 .. Len(Intro) + Len(under) /\ 1 \in 1 .. Len(Intro)
          BY <5>1
        <5> QED
          BY <2>11, <5>1, <5>2
      <4> QED
        BY <2>7, <4>1, <4>3 DEF Carries
    <3>2. CASE Headings[1] <= i
      <4>1. PICK k \in DOMAIN Headings : Headings[k] <= i /\ (k < Len(Headings) => i < Headings[k + 1])
        <5>1. i \in Nat
          BY <2>0
        <5> QED
          BY <1>2, <2>R, <3>2, <5>1, PieceOf
      <4>2. i \in Headings[k] .. NextCut(Headings, k, n) - 1
        <5>1. NextCut(Headings, k, n) \in Nat /\ Headings[k] \in 1 .. n + 1 /\ i \in 1 .. n
          BY <2>0, <2>1, <2>R, CutsAre
        <5>2. i < NextCut(Headings, k, n)
          BY <4>1, <5>1 DEF NextCut
        <5> QED
          BY <4>1, <5>1, <5>2
      <4>3. Carries(HeadingSection(k), i)
        BY <2>2, <2>12, <4>2
      <4>4. under[k] = HeadingSection(k)
        BY DEF under
      <4>5. Len(Intro) + k \in DOMAIN MarkdownSections /\ MarkdownSections[Len(Intro) + k] = under[k]
        BY <2>1, <2>3, <2>9, <2>11
      <4> QED
        BY <4>3, <4>4, <4>5
    <3> QED
      BY <2>0, <2>4, <3>1, <3>2
  <2> QED
    BY <2>11, <2>12
<1> QED
  BY <1>1, <1>2

\* Every line of a YAML file that is not before its first key is in the piece
\* of a key.
LEMMA YamlCarries ==
    ASSUME doc \in Documents
    PROVE  /\ YamlSections \in Seq(ChunkSections)
           /\ \A i \in DOMAIN doc.lines : (Keys # <<>> => i >= Keys[1]) => doc.lines[i].blank \/
                \E k \in DOMAIN YamlSections : Carries(YamlSections[k], i)
<1>1. CASE Keys = <<>>
  <2>1. YamlSections = <<Section(Whole(doc.lines), 1, StructMax, 2)>>
    BY <1>1 DEF YamlSections, Blocks
  <2>2. StructMax \in Nat \ {0}
    BY BudgetAssumption
  <2> QED
    BY <2>1, <2>2, WholeCarries
<1>2. CASE Keys # <<>>
  <2>0. PICK n \in Nat : n = Len(doc.lines) /\ DOMAIN doc.lines = 1 .. n
    BY DocIs
  <2>R. Rises(Keys, n)
    BY <2>0, KeysAre
  <2>1. /\ Keys \in Seq(1 .. n) /\ DOMAIN Keys = 1 .. Len(Keys) /\ Len(Keys) \in Nat
        /\ \A k \in DOMAIN Keys : Keys[k] \in 1 .. n
    BY <2>R DEF Rises
  <2>2. ASSUME NEW k \in DOMAIN Keys
        PROVE  /\ YamlSection(k) \in ChunkSections
               /\ \A i \in Keys[k] .. NextCut(Keys, k, n) - 1 :
                    doc.lines[i].blank \/ Carries(YamlSection(k), i)
    <3> DEFINE to == NextCut(Keys, k, n) - 1
               t == Stripped(Between(Keys[k], to))
               s == Section(t, Keys[k], StructMax, 2)
    <3>1. Keys[k] \in 1 .. n + 1 /\ to \in Keys[k] - 1 .. n /\ Keys[k] \in Nat \ {0}
      BY <2>1, <2>R, CutsAre
    <3>2. t \in Texts /\ \A i \in Keys[k] .. to : doc.lines[i].blank \/ Shows(t, i)
      <4> HIDE DEF to
      <4> QED
        BY <2>0, <3>1, PieceShows
    <3> HIDE DEF t
    <3>3. s \in ChunkSections
      BY <3>1, <3>2, SectionTyped, BudgetAssumption
    <3>4. s.text = t
      BY DEF Section
    <3>5. YamlSection(k) = [s EXCEPT !.symbol = Keys[k]]
      BY <2>0 DEF YamlSection, NextCut, t
    <3> HIDE DEF s
    <3>6. YamlSection(k) \in ChunkSections /\ YamlSection(k).text = t
      BY <3>1, <3>3, <3>4, <3>5, WithSymbol
    <3> QED
      BY <3>2, <3>6 DEF Carries
  <2> DEFINE all == [k \in DOMAIN Keys |-> YamlSection(k)]
  <2>3. all \in Seq(ChunkSections) /\ DOMAIN all = DOMAIN Keys /\ \A k \in DOMAIN Keys : all[k] = YamlSection(k)
    BY <2>1, <2>2
  <2>4. YamlSections = all
    BY <1>2 DEF YamlSections
  <2> HIDE DEF all
  <2>5. ASSUME NEW i \in DOMAIN doc.lines, ~doc.lines[i].blank, i >= Keys[1]
        PROVE  \E k \in DOMAIN YamlSections : Carries(YamlSections[k], i)
    <3>1. i \in 1 .. n /\ Keys[1] \in 1 .. n /\ Keys[1] <= i
      BY <1>2, <2>0, <2>1, <2>5
    <3>2. PICK k \in DOMAIN Keys : Keys[k] <= i /\ (k < Len(Keys) => i < Keys[k + 1])
      <4>1. i \in Nat
        BY <3>1
      <4> QED
        BY <1>2, <2>R, <3>1, <4>1, PieceOf
    <3>3. NextCut(Keys, k, n) \in Nat /\ Keys[k] \in 1 .. n + 1
      BY <2>1, <2>R, CutsAre
    <3>4. i < NextCut(Keys, k, n)
      BY <3>1, <3>2, <3>3 DEF NextCut
    <3>5. i \in Keys[k] .. NextCut(Keys, k, n) - 1
      BY <3>1, <3>2, <3>3, <3>4
    <3> QED
      BY <2>2, <2>3, <2>4, <2>5, <3>5
  <2> QED
    BY <1>2, <2>3, <2>4, <2>5
<1> QED
  BY <1>1, <1>2

-----------------------------------------------------------------------------
(* The scan of a Turtle file.                                              *)

ScanStates ==
    [prefix : Seq(Lines), first : Nat, statement : Seq(Lines), part : Nat \ {0}, found : Seq(ChunkSections)]

LEMMA ScanFields ==
    ASSUME NEW scan \in ScanStates
    PROVE  /\ scan.prefix \in Seq(Lines) /\ scan.first \in Nat /\ scan.statement \in Seq(Lines)
           /\ scan.part \in Nat \ {0} /\ scan.found \in Seq(ChunkSections)
BY DEF ScanStates

LEMMA LineIs ==
    ASSUME NEW l \in Lines
    PROVE  l.no \in Nat \ {0} /\ l.blank \in BOOLEAN
BY CutAssumption, Zenon

\* A section that is one chunk is named after its start, and says where it ends.
Named(s, begin, last) ==
    s.start = begin /\ ((s.symbol = None /\ s.whole = None) \/ (s.symbol = begin /\ s.whole = last))

\* A complete statement becomes one section, with the prefixes so far.
LEMMA StatementIs ==
    ASSUME NEW scan \in ScanStates, scan.statement # <<>>, NEW last \in Nat
    PROVE  /\ Statement(scan, last) \in ScanStates
           /\ Statement(scan, last).prefix = scan.prefix /\ Statement(scan, last).statement = <<>>
           /\ Statement(scan, last).first = scan.first
           /\ \E s \in ChunkSections :
                /\ s.text = Stripped(scan.statement) /\ s.prefix = scan.prefix /\ s.first = scan.first
                /\ Named(s, scan.statement[1].no, last)
                /\ Statement(scan, last).found = Append(scan.found, s)
<1> DEFINE t == Stripped(scan.statement)
           begin == scan.statement[1].no
           plain == Section(t, begin, StructMax, 2)
           section == [plain EXCEPT !.prefix = scan.prefix, !.first = scan.first]
           whole == [section EXCEPT !.whole = last, !.part = scan.part, !.symbol = section.start]
<1>1. t \in Texts
  BY ScanFields, StrippedTyped DEF Texts
<1>2. begin \in Nat \ {0}
  <2>1. scan.statement[1] \in Lines
    BY ScanFields
  <2> QED
    BY <2>1, LineIs
<1> HIDE DEF t, begin
<1>3. /\ plain \in ChunkSections /\ plain.text = t /\ plain.start = begin
      /\ plain.symbol = None /\ plain.whole = None
  <2>1. plain \in ChunkSections
    BY <1>1, <1>2, SectionTyped, BudgetAssumption
  <2>2. plain.text = t /\ plain.start = begin /\ plain.symbol = None /\ plain.whole = None
    BY DEF Section
  <2> QED
    BY <2>1, <2>2
<1> HIDE DEF plain
<1>4. /\ section \in ChunkSections /\ section.text = t /\ section.prefix = scan.prefix /\ section.first = scan.first
      /\ section.start = begin /\ section.symbol = None /\ section.whole = None
  BY <1>3, ScanFields DEF ChunkSections
<1> HIDE DEF section
<1>5. /\ whole \in ChunkSections /\ whole.text = t /\ whole.prefix = scan.prefix /\ whole.first = scan.first
      /\ whole.start = begin /\ whole.symbol = begin /\ whole.whole = last
  BY <1>4, ScanFields DEF ChunkSections
<1> HIDE DEF whole
<1>6. Statement(scan, last) =
        IF ContextLength(scan.prefix, t) <= StructMax
        THEN [scan EXCEPT !.found = Append(@, whole), !.part = @ + 1, !.statement = <<>>]
        ELSE [scan EXCEPT !.found = Append(@, section), !.statement = <<>>]
  BY DEF Statement, t, begin, plain, section, whole
<1>7. Append(scan.found, whole) \in Seq(ChunkSections) /\ Append(scan.found, section) \in Seq(ChunkSections)
      /\ <<>> \in Seq(Lines) /\ scan.part + 1 \in Nat \ {0}
  BY <1>4, <1>5, ScanFields
<1> DEFINE one == [scan EXCEPT !.found = Append(@, whole), !.part = @ + 1, !.statement = <<>>]
           many == [scan EXCEPT !.found = Append(@, section), !.statement = <<>>]
<1>8. one \in ScanStates /\ one.prefix = scan.prefix /\ one.first = scan.first
      /\ one.statement = <<>> /\ one.found = Append(scan.found, whole)
  BY <1>7 DEF ScanStates
<1>9. many \in ScanStates /\ many.prefix = scan.prefix /\ many.first = scan.first
      /\ many.statement = <<>> /\ many.found = Append(scan.found, section)
  BY <1>7 DEF ScanStates
<1>10. Statement(scan, last) = one \/ Statement(scan, last) = many
  BY <1>6
<1> HIDE DEF one, many
<1>11. Named(section, begin, last) /\ Named(whole, begin, last)
  BY <1>4, <1>5 DEF Named
<1> QED
  BY <1>4, <1>5, <1>8, <1>9, <1>10, <1>11 DEF t, begin

\* What a line does to the scan: nothing, a prefix, or more of the statement,
\* which may be complete.
LEMMA ScanTurtleIs ==
    ASSUME NEW scan \in ScanStates, NEW l \in Lines
    PROVE  /\ ScanTurtle(scan, l) \in ScanStates
           /\ \/ l.blank /\ ScanTurtle(scan, l) = scan
              \/ /\ ~l.blank /\ l.kind = "prefix"
                 /\ ScanTurtle(scan, l).prefix = Append(scan.prefix, l)
                 /\ ScanTurtle(scan, l).first = (IF scan.first = None THEN l.no ELSE scan.first)
                 /\ ScanTurtle(scan, l).statement = scan.statement
                 /\ ScanTurtle(scan, l).found = scan.found
              \/ /\ ~l.blank /\ l.kind # "prefix"
                 /\ ScanTurtle(scan, l).prefix = scan.prefix /\ ScanTurtle(scan, l).first = scan.first
                 /\ \/ /\ l.kind # "stop"
                       /\ ScanTurtle(scan, l).statement = Append(scan.statement, l)
                       /\ ScanTurtle(scan, l).found = scan.found
                    \/ /\ l.kind = "stop"
                       /\ ScanTurtle(scan, l).statement = <<>>
                       /\ \E s \in ChunkSections :
                            /\ s.text = Stripped(Append(scan.statement, l)) /\ s.prefix = scan.prefix
                            /\ s.first = scan.first
                            /\ Named(s, Append(scan.statement, l)[1].no, l.no)
                            /\ ScanTurtle(scan, l).found = Append(scan.found, s)
<1>0. l.no \in Nat \ {0} /\ l.blank \in BOOLEAN
  BY LineIs
<1>1. CASE l.blank
  BY <1>1 DEF ScanTurtle
<1>2. CASE ~l.blank /\ l.kind = "prefix"
  <2> DEFINE more == [scan EXCEPT !.prefix = Append(@, l), !.first = IF @ = None THEN l.no ELSE @]
  <2>1. ScanTurtle(scan, l) = more
    BY <1>2 DEF ScanTurtle
  <2>2. Append(scan.prefix, l) \in Seq(Lines)
    BY ScanFields
  <2>3. more \in ScanStates /\ more.prefix = Append(scan.prefix, l) /\ more.statement = scan.statement
        /\ more.found = scan.found /\ more.first = (IF scan.first = None THEN l.no ELSE scan.first)
    BY <1>0, <2>2 DEF ScanStates, None
  <2> HIDE DEF more
  <2> QED
    BY <1>2, <2>1, <2>3
<1>3. CASE ~l.blank /\ l.kind # "prefix"
  <2> DEFINE longer == [scan EXCEPT !.statement = Append(@, l)]
  <2>1. ScanTurtle(scan, l) = IF l.kind = "stop" THEN Statement(longer, l.no) ELSE longer
    BY <1>3 DEF ScanTurtle
  <2>2. Append(scan.statement, l) \in Seq(Lines) /\ Append(scan.statement, l) # <<>>
    BY ScanFields
  <2>3. longer \in ScanStates /\ longer.prefix = scan.prefix /\ longer.statement = Append(scan.statement, l)
        /\ longer.found = scan.found /\ longer.first = scan.first
    BY <2>2 DEF ScanStates
  <2> HIDE DEF longer
  <2>4. CASE l.kind = "stop"
    <3>1. /\ Statement(longer, l.no) \in ScanStates
          /\ Statement(longer, l.no).prefix = longer.prefix /\ Statement(longer, l.no).statement = <<>>
          /\ Statement(longer, l.no).first = longer.first
          /\ \E s \in ChunkSections :
               /\ s.text = Stripped(longer.statement) /\ s.prefix = longer.prefix /\ s.first = longer.first
               /\ Named(s, longer.statement[1].no, l.no)
               /\ Statement(longer, l.no).found = Append(longer.found, s)
      <4>1. longer.statement # <<>> /\ l.no \in Nat
        BY <1>0, <2>2, <2>3
      <4> QED
        BY <2>3, <4>1, StatementIs
    <3>2. ScanTurtle(scan, l) = Statement(longer, l.no)
      BY <2>1, <2>4
    <3> QED
      BY <1>3, <2>3, <2>4, <3>1, <3>2
  <2>5. CASE l.kind # "stop"
    <3>1. ScanTurtle(scan, l) = longer
      BY <2>1, <2>5
    <3> QED
      BY <1>3, <2>3, <2>5, <3>1
  <2> QED
    BY <2>4, <2>5
<1> QED
  BY <1>0, <1>1, <1>2, <1>3

LEMMA ScannedIs ==
    ASSUME doc \in Documents
    PROVE  /\ Scanned[0] = TurtleStart
           /\ \A i \in 1 .. Len(doc.lines) : Scanned[i] = ScanTurtle(Scanned[i - 1], doc.lines[i])
           /\ \A i \in 0 .. Len(doc.lines) : Scanned[i] \in ScanStates
<1>0. PICK n \in Nat : n = Len(doc.lines) /\ \A i \in 1 .. n : doc.lines[i] \in Lines
  BY DocIs
<1> DEFINE step == [i \in 1 .. n |-> [s \in ScanStates |-> ScanTurtle(s, doc.lines[i])]]
           Runs(f) == f = [i \in 0 .. n |-> IF i = 0 THEN TurtleStart ELSE ScanTurtle(f[i - 1], doc.lines[i])]
<1>1. \A i \in 1 .. n, s \in ScanStates : ScanTurtle(s, doc.lines[i]) \in ScanStates
  BY <1>0, ScanTurtleIs
<1>2. step \in Steps(ScanStates, n) /\ \A i \in 1 .. n, s \in ScanStates : step[i][s] = ScanTurtle(s, doc.lines[i])
  BY <1>1 DEF Steps
<1>3. TurtleStart \in ScanStates
  <2>1. <<>> \in Seq(Lines) /\ <<>> \in Seq(ChunkSections)
    OBVIOUS
  <2> QED
    BY <2>1 DEF TurtleStart, ScanStates, None
<1> HIDE DEF step
<1>4. PICK f : Scans(f, ScanStates, n, TurtleStart, step)
  BY <1>2, <1>3, ScanExists
<1>5. f \in [0 .. n -> ScanStates] /\ f[0] = TurtleStart
      /\ \A i \in 1 .. n : f[i] = ScanTurtle(f[i - 1], doc.lines[i])
  <2>1. f \in [0 .. n -> ScanStates] /\ f[0] = TurtleStart /\ \A i \in 1 .. n : f[i] = step[i][f[i - 1]]
    BY <1>4 DEF Scans
  <2>2. \A i \in 1 .. n : f[i - 1] \in ScanStates
    BY <2>1
  <2> QED
    BY <1>2, <2>1, <2>2
<1>6. Runs(f)
  <2> DEFINE g == [i \in 0 .. n |-> IF i = 0 THEN TurtleStart ELSE ScanTurtle(f[i - 1], doc.lines[i])]
  <2>1. \A i \in 0 .. n : i = 0 \/ (i \in 1 .. n /\ i # 0)
    OBVIOUS
  <2>2. \A i \in 0 .. n : f[i] = g[i]
    BY <1>5, <2>1
  <2>3. f = g
    BY <1>5, <2>2
  <2> QED
    BY <2>3
<1>7. Runs(Scanned)
  <2>1. Scanned = (CHOOSE g : Runs(g))
    BY <1>0 DEF Scanned
  <2> QED
    BY <1>6, <2>1, Zenon
<1>8. Scanned[0] = TurtleStart /\ \A i \in 1 .. n : Scanned[i] = ScanTurtle(Scanned[i - 1], doc.lines[i])
  <2> DEFINE h == Scanned
  <2>1. h = [i \in 0 .. n |-> IF i = 0 THEN TurtleStart ELSE ScanTurtle(h[i - 1], doc.lines[i])]
    BY <1>7
  <2>2. 0 \in 0 .. n /\ \A i \in 1 .. n : i \in 0 .. n /\ i # 0
    OBVIOUS
  <2> HIDE DEF h
  <2>3. h[0] = TurtleStart /\ \A i \in 1 .. n : h[i] = ScanTurtle(h[i - 1], doc.lines[i])
    BY <2>1, <2>2
  <2> QED
    BY <2>3 DEF h
<1>9. ASSUME NEW m \in 0 .. n PROVE Scanned[m] \in ScanStates
  <2> DEFINE bad == {k \in 0 .. n : Scanned[k] \notin ScanStates}
  <2> SUFFICES ASSUME bad # {} PROVE FALSE
    OBVIOUS
  <2>1. PICK k \in bad : \A j \in bad : k <= j
    <3>1. bad \in SUBSET Nat
      OBVIOUS
    <3> HIDE DEF bad
    <3> QED
      BY <3>1, Smallest
  <2>2. k \in 0 .. n /\ Scanned[k] \notin ScanStates
    OBVIOUS
  <2>3. k \in 1 .. n /\ k - 1 \in 0 .. n /\ ~(k <= k - 1)
    BY <1>3, <1>8, <2>2
  <2>4. k - 1 \notin bad
    <3> HIDE DEF bad
    <3> QED
      BY <2>1, <2>3, Zenon
  <2>5. Scanned[k - 1] \in ScanStates
    BY <2>3, <2>4
  <2> QED
    BY <1>1, <1>8, <2>2, <2>3, <2>5
<1> QED
  BY <1>0, <1>8, <1>9

PrefixLine(i) == ~doc.lines[i].blank /\ doc.lines[i].kind = "prefix"
StatementLine(i) == ~doc.lines[i].blank /\ doc.lines[i].kind # "prefix"

\* A statement's line is in the statement under way, or in a section together
\* with the prefixes before it.
Shown(s, i) == Shows(s.text, i) /\ \A p \in 1 .. i : PrefixLine(p) => p \in Numbers(s.prefix)
Placed(scan, i) ==
    \/ \E j \in DOMAIN scan.statement : scan.statement[j] = doc.lines[i]
    \/ \E q \in DOMAIN scan.found : Shown(scan.found[q], i)

ScanHolds(scan, k) ==
    /\ \A i \in 1 .. k : PrefixLine(i) => i \in Numbers(scan.prefix)
    /\ \A i \in 1 .. k : StatementLine(i) => Placed(scan, i)
    /\ (scan.statement = <<>> /\ scan.found = <<>>) \/ \E i \in 1 .. k : StatementLine(i)

LEMMA AppendIs ==
    ASSUME NEW S, NEW a \in Seq(S), NEW x \in S
    PROVE  /\ Append(a, x) \in Seq(S) /\ DOMAIN Append(a, x) = 1 .. Len(a) + 1 /\ Len(a) \in Nat
           /\ Append(a, x)[Len(a) + 1] = x /\ DOMAIN a = 1 .. Len(a)
           /\ \A k \in DOMAIN a : k \in DOMAIN Append(a, x) /\ Append(a, x)[k] = a[k]
OBVIOUS

LEMMA NumbersOf ==
    ASSUME NEW ls \in Seq(Lines), NEW l \in Lines
    PROVE  /\ \A x \in Numbers(ls) : x \in Numbers(Append(ls, l))
           /\ l.no \in Numbers(Append(ls, l))
<1> DEFINE more == Append(ls, l)
<1>1. /\ DOMAIN more = 1 .. Len(ls) + 1 /\ Len(ls) \in Nat
      /\ more[Len(ls) + 1] = l
      /\ \A k \in DOMAIN ls : k \in DOMAIN more /\ more[k] = ls[k]
  BY AppendIs
<1> HIDE DEF more
<1>2. ASSUME NEW x \in Numbers(ls) PROVE x \in Numbers(more)
  <2>1. PICK k \in DOMAIN ls : x = ls[k].no
    BY DEF Numbers
  <2> QED
    BY <1>1, <2>1 DEF Numbers
<1>3. l.no \in Numbers(more)
  <2>1. Len(ls) + 1 \in DOMAIN more
    BY <1>1
  <2> QED
    BY <1>1, <2>1 DEF Numbers
<1> QED
  BY <1>2, <1>3 DEF more

LEMMA ScanStep ==
    ASSUME doc \in Documents, NEW k \in DOMAIN doc.lines, NEW scan \in ScanStates, ScanHolds(scan, k - 1)
    PROVE  ScanHolds(ScanTurtle(scan, doc.lines[k]), k)
<1> DEFINE l == doc.lines[k]
           new == ScanTurtle(scan, l)
<1>1. /\ l \in Lines /\ l.no = k /\ k \in Nat \ {0} /\ l.blank \in BOOLEAN
      /\ \A i \in 1 .. k : i \in 1 .. k - 1 \/ i = k
      /\ \A i \in 1 .. k - 1 : i \in 1 .. k
  BY DocIs, LineIs
<1>2. /\ scan.prefix \in Seq(Lines) /\ scan.statement \in Seq(Lines) /\ scan.found \in Seq(ChunkSections)
  BY ScanFields
<1>3. /\ \A i \in 1 .. k - 1 : PrefixLine(i) => i \in Numbers(scan.prefix)
      /\ \A i \in 1 .. k - 1 : StatementLine(i) => Placed(scan, i)
      /\ (scan.statement = <<>> /\ scan.found = <<>>) \/ \E i \in 1 .. k - 1 : StatementLine(i)
  BY DEF ScanHolds
<1>4. CASE l.blank /\ new = scan
  <2>1. ~PrefixLine(k) /\ ~StatementLine(k)
    BY <1>4 DEF PrefixLine, StatementLine
  <2> HIDE DEF new, l
  <2>2. ScanHolds(new, k)
    BY <1>1, <1>3, <1>4, <2>1 DEF ScanHolds
  <2> QED
    BY <2>2 DEF new, l
<1>5. CASE /\ ~l.blank /\ l.kind = "prefix"
           /\ new.prefix = Append(scan.prefix, l) /\ new.statement = scan.statement /\ new.found = scan.found
  <2>1. ~StatementLine(k)
    BY <1>5 DEF StatementLine
  <2> HIDE DEF new, l
  <2>2. k \in Numbers(new.prefix) /\ \A x \in Numbers(scan.prefix) : x \in Numbers(new.prefix)
    BY <1>1, <1>2, <1>5, NumbersOf
  <2>3. \A i \in 1 .. k - 1 : Placed(scan, i) => Placed(new, i)
    BY <1>5 DEF Placed
  <2>4. ScanHolds(new, k)
    BY <1>1, <1>3, <1>5, <2>1, <2>2, <2>3 DEF ScanHolds
  <2> QED
    BY <2>4 DEF new, l
<1>6. CASE ~l.blank /\ l.kind # "prefix" /\ new.prefix = scan.prefix
  <2>1. StatementLine(k) /\ ~PrefixLine(k)
    BY <1>6 DEF StatementLine, PrefixLine
  <2> DEFINE longer == Append(scan.statement, l)
  <2>2. /\ longer \in Seq(Lines) /\ DOMAIN longer = 1 .. Len(scan.statement) + 1 /\ Len(scan.statement) \in Nat
        /\ longer[Len(scan.statement) + 1] = l
        /\ \A j \in DOMAIN scan.statement : j \in DOMAIN longer /\ longer[j] = scan.statement[j]
    BY <1>1, <1>2, AppendIs
  <2> HIDE DEF longer, new, l
  <2>3. \E j \in DOMAIN longer : longer[j] = l
    BY <2>2
  <2>4. \A i \in 1 .. k : PrefixLine(i) => i \in Numbers(scan.prefix)
    BY <1>1, <1>3, <2>1
  <2>5. CASE new.statement = longer /\ new.found = scan.found
    <3>1. Placed(new, k)
      BY <2>3, <2>5 DEF Placed, l
    <3>2. \A i \in 1 .. k - 1 : Placed(scan, i) => Placed(new, i)
      BY <2>2, <2>5 DEF Placed
    <3>3. \E i \in 1 .. k : StatementLine(i)
      BY <1>1, <2>1
    <3>4. ScanHolds(new, k)
      BY <1>1, <1>3, <1>6, <2>4, <3>1, <3>2, <3>3 DEF ScanHolds
    <3> QED
      BY <3>4 DEF new, l
  <2>6. CASE /\ new.statement = <<>>
             /\ \E s \in ChunkSections :
                  /\ s.text = Stripped(longer) /\ s.prefix = scan.prefix
                  /\ new.found = Append(scan.found, s)
    <3>1. PICK s \in ChunkSections :
            s.text = Stripped(longer) /\ s.prefix = scan.prefix /\ new.found = Append(scan.found, s)
      BY <2>6
    <3>2. /\ DOMAIN new.found = 1 .. Len(scan.found) + 1 /\ Len(scan.found) \in Nat
          /\ new.found[Len(scan.found) + 1] = s
          /\ \A q \in DOMAIN scan.found : q \in DOMAIN new.found /\ new.found[q] = scan.found[q]
      BY <1>2, <3>1, AppendIs
    <3>3. \E q \in DOMAIN new.found : new.found[q] = s
      BY <3>2
    <3>4. ASSUME NEW i \in 1 .. k, StatementLine(i), NEW j \in DOMAIN longer, longer[j] = doc.lines[i]
          PROVE  Placed(new, i)
      <4>1. ~longer[j].blank /\ i \in DOMAIN doc.lines
        BY <3>4, DocIs DEF StatementLine
      <4>2. PICK m \in DOMAIN Stripped(longer).lines : Stripped(longer).lines[m] = longer[j]
        BY <2>2, <4>1, StrippedKeeps
      <4>3. doc.lines[i].no = i
        BY <4>1, DocIs
      <4>4. Shows(s.text, i)
        BY <3>1, <3>4, <4>1, <4>2, <4>3 DEF Shows
      <4>5. \A p \in 1 .. i : p \in 1 .. k
        BY <1>1
      <4>6. Shown(s, i)
        BY <2>4, <3>1, <4>4, <4>5 DEF Shown
      <4> QED
        BY <3>3, <4>6 DEF Placed
    <3>5. Placed(new, k)
      <4>1. k \in 1 .. k /\ l = doc.lines[k]
        BY <1>1 DEF l
      <4> QED
        BY <2>1, <2>3, <3>4, <4>1
    <3>6. ASSUME NEW i \in 1 .. k - 1, StatementLine(i) PROVE Placed(new, i)
      <4>1. Placed(scan, i) /\ i \in 1 .. k
        BY <1>1, <1>3, <3>6
      <4>2. CASE \E j \in DOMAIN scan.statement : scan.statement[j] = doc.lines[i]
        BY <2>2, <3>4, <3>6, <4>1, <4>2
      <4>3. CASE \E q \in DOMAIN scan.found : Shown(scan.found[q], i)
        BY <3>2, <4>3 DEF Placed
      <4> QED
        BY <4>1, <4>2, <4>3 DEF Placed
    <3>7. \E i \in 1 .. k : StatementLine(i)
      BY <1>1, <2>1
    <3>8. ScanHolds(new, k)
      BY <1>1, <1>6, <2>4, <3>5, <3>6, <3>7 DEF ScanHolds
    <3> QED
      BY <3>8 DEF new, l
  <2>7. (new.statement = longer /\ new.found = scan.found) \/
        (/\ new.statement = <<>>
         /\ \E s \in ChunkSections :
              /\ s.text = Stripped(longer) /\ s.prefix = scan.prefix
              /\ new.found = Append(scan.found, s))
    BY <1>1, <1>6, ScanTurtleIs DEF longer, new
  <2> QED
    BY <2>5, <2>6, <2>7
<1>7. \/ l.blank /\ new = scan
      \/ /\ ~l.blank /\ l.kind = "prefix"
         /\ new.prefix = Append(scan.prefix, l) /\ new.statement = scan.statement /\ new.found = scan.found
      \/ ~l.blank /\ l.kind # "prefix" /\ new.prefix = scan.prefix
  <2> HIDE DEF l
  <2> QED
    BY <1>1, ScanTurtleIs DEF new
<1> QED
  BY <1>4, <1>5, <1>6, <1>7

LEMMA ScanAlwaysHolds ==
    ASSUME doc \in Documents, NEW m \in 0 .. Len(doc.lines)
    PROVE  ScanHolds(Scanned[m], m)
<1> DEFINE bad == {k \in 0 .. Len(doc.lines) : ~ScanHolds(Scanned[k], k)}
<1>0. Len(doc.lines) \in Nat
  BY DocIs
<1> SUFFICES ASSUME bad # {} PROVE FALSE
  OBVIOUS
<1>1. PICK k \in bad : \A j \in bad : k <= j
  <2>1. bad \in SUBSET Nat
    BY <1>0
  <2> HIDE DEF bad
  <2> QED
    BY <2>1, Smallest
<1>2. k \in 0 .. Len(doc.lines) /\ ~ScanHolds(Scanned[k], k)
  OBVIOUS
<1>3. CASE k = 0
  <2>1. Scanned[0].statement = <<>> /\ Scanned[0].found = <<>>
    BY ScannedIs DEF TurtleStart
  <2>2. \A i \in 1 .. 0 : FALSE
    OBVIOUS
  <2>3. ScanHolds(Scanned[0], 0)
    BY <2>1, <2>2 DEF ScanHolds
  <2> QED
    BY <1>2, <1>3, <2>3
<1>4. CASE k # 0
  <2>1. k \in 1 .. Len(doc.lines) /\ k - 1 \in 0 .. Len(doc.lines) /\ ~(k <= k - 1) /\ k \in DOMAIN doc.lines
    BY <1>0, <1>2, <1>4, DocIs
  <2>2. k - 1 \notin bad
    <3> HIDE DEF bad
    <3> QED
      BY <1>1, <2>1, Zenon
  <2>3. ScanHolds(Scanned[k - 1], k - 1)
    BY <2>1, <2>2
  <2>4. Scanned[k - 1] \in ScanStates /\ Scanned[k] = ScanTurtle(Scanned[k - 1], doc.lines[k])
    BY <2>1, ScannedIs
  <2>5. ScanHolds(ScanTurtle(Scanned[k - 1], doc.lines[k]), k)
    <3> HIDE DEF bad
    <3> QED
      BY <2>1, <2>3, <2>4, ScanStep
  <2> QED
    BY <1>2, <2>4, <2>5
<1> QED
  BY <1>3, <1>4

\* What follows the last statement is a section of its own.
LEMMA TrailingIs ==
    ASSUME doc \in Documents, NEW scan \in ScanStates, scan.statement # <<>>
    PROVE  \E s \in ChunkSections :
             /\ Trailing(scan) = <<s>> /\ s.text = Stripped(scan.statement) /\ s.prefix = scan.prefix
             /\ s.first = scan.first
             /\ s.start = scan.statement[1].no /\ s.symbol = None /\ s.whole = Len(doc.lines)
<1> DEFINE t == Stripped(scan.statement)
           begin == scan.statement[1].no
           plain == Section(t, begin, StructMax, 2)
           s == [plain EXCEPT !.prefix = scan.prefix, !.first = scan.first, !.whole = Len(doc.lines)]
<1>1. t \in Texts
  BY ScanFields, StrippedTyped DEF Texts
<1>2. begin \in Nat \ {0}
  <2>1. scan.statement[1] \in Lines
    BY ScanFields
  <2> QED
    BY <2>1, LineIs
<1>3. Trailing(scan) = <<s>>
  BY DEF Trailing
<1> HIDE DEF t, begin
<1>4. plain \in ChunkSections /\ plain.text = t /\ plain.start = begin /\ plain.symbol = None
  <2>1. plain \in ChunkSections
    BY <1>1, <1>2, SectionTyped, BudgetAssumption
  <2>2. plain.text = t /\ plain.start = begin /\ plain.symbol = None
    BY DEF Section
  <2> QED
    BY <2>1, <2>2
<1> HIDE DEF plain
<1>5. /\ s \in ChunkSections /\ s.text = t /\ s.prefix = scan.prefix /\ s.first = scan.first
      /\ s.start = begin /\ s.symbol = None /\ s.whole = Len(doc.lines)
  BY <1>4, ScanFields, DocIs DEF ChunkSections
<1> HIDE DEF s
<1> QED
  BY <1>3, <1>5 DEF t, begin

\* All that the scan leaves shows every line of a statement.
LEMMA ScanShows ==
    ASSUME doc \in Documents, NEW scan \in ScanStates, ScanHolds(scan, Len(doc.lines))
    PROVE  /\ scan.found \o Trailing(scan) \in Seq(ChunkSections)
           /\ \A i \in DOMAIN doc.lines : StatementLine(i) =>
                \E k \in DOMAIN (scan.found \o Trailing(scan)) : Shown((scan.found \o Trailing(scan))[k], i)
<1> DEFINE trail == Trailing(scan)
           all == scan.found \o trail
<1>0. PICK n \in Nat : n = Len(doc.lines) /\ DOMAIN doc.lines = 1 .. n
  BY DocIs
<1>1. scan.prefix \in Seq(Lines) /\ scan.statement \in Seq(Lines) /\ scan.found \in Seq(ChunkSections)
  BY ScanFields
<1>2. /\ \A i \in 1 .. n : PrefixLine(i) => i \in Numbers(scan.prefix)
      /\ \A i \in 1 .. n : StatementLine(i) => Placed(scan, i)
  BY <1>0 DEF ScanHolds
<1>3. /\ trail \in Seq(ChunkSections)
      /\ scan.statement # <<>> => \E k \in DOMAIN trail :
            trail[k].text = Stripped(scan.statement) /\ trail[k].prefix = scan.prefix
  <2>1. CASE scan.statement = <<>>
    BY <2>1 DEF Trailing
  <2>2. CASE scan.statement # <<>>
    <3>1. PICK s \in ChunkSections :
            trail = <<s>> /\ s.text = Stripped(scan.statement) /\ s.prefix = scan.prefix
      BY <2>2, TrailingIs
    <3>2. <<s>> \in Seq(ChunkSections) /\ 1 \in DOMAIN <<s>> /\ <<s>>[1] = s
      OBVIOUS
    <3> HIDE DEF trail
    <3> QED
      BY <3>1, <3>2
  <2> QED
    BY <2>1, <2>2
<1> HIDE DEF trail
<1>4. /\ all \in Seq(ChunkSections)
      /\ \A q \in DOMAIN scan.found : q \in DOMAIN all /\ all[q] = scan.found[q]
      /\ \A q \in DOMAIN trail : Len(scan.found) + q \in DOMAIN all /\ all[Len(scan.found) + q] = trail[q]
  <2>1. /\ all \in Seq(ChunkSections) /\ Len(scan.found) \in Nat /\ Len(trail) \in Nat
        /\ DOMAIN all = 1 .. Len(scan.found) + Len(trail)
        /\ DOMAIN scan.found = 1 .. Len(scan.found) /\ DOMAIN trail = 1 .. Len(trail)
        /\ \A k \in 1 .. Len(scan.found) : all[k] = scan.found[k]
        /\ \A k \in 1 .. Len(trail) : all[Len(scan.found) + k] = trail[k]
    BY <1>1, <1>3, Joined
  <2> HIDE DEF all
  <2> QED
    BY <2>1
<1> HIDE DEF all
<1>5. ASSUME NEW i \in 1 .. n, StatementLine(i) PROVE \E k \in DOMAIN all : Shown(all[k], i)
  <2>1. CASE \E q \in DOMAIN scan.found : Shown(scan.found[q], i)
    BY <1>4, <2>1
  <2>2. CASE \E j \in DOMAIN scan.statement : scan.statement[j] = doc.lines[i]
    <3>1. PICK j \in DOMAIN scan.statement : scan.statement[j] = doc.lines[i]
      BY <2>2
    <3>2. ~scan.statement[j].blank /\ scan.statement # <<>> /\ doc.lines[i].no = i
      <4>1. scan.statement # <<>>
        BY <3>1
      <4>2. ~doc.lines[i].blank /\ doc.lines[i].no = i
        BY <1>0, <1>5, DocIs DEF StatementLine
      <4> QED
        BY <3>1, <4>1, <4>2
    <3>3. PICK m \in DOMAIN Stripped(scan.statement).lines : Stripped(scan.statement).lines[m] = doc.lines[i]
      BY <1>1, <3>1, <3>2, StrippedKeeps
    <3>4. PICK k \in DOMAIN trail : trail[k].text = Stripped(scan.statement) /\ trail[k].prefix = scan.prefix
      BY <1>3, <3>2
    <3>5. Shows(trail[k].text, i)
      BY <3>1, <3>2, <3>3, <3>4 DEF Shows
    <3>6. \A p \in 1 .. i : p \in 1 .. n
      BY <1>0
    <3>7. Shown(trail[k], i)
      BY <1>2, <3>4, <3>5, <3>6 DEF Shown
    <3> QED
      BY <1>4, <3>7
  <2> QED
    BY <1>2, <1>5, <2>1, <2>2 DEF Placed
<1> QED
  BY <1>0, <1>4, <1>5 DEF all, trail

\* Every line of a Turtle file is in a statement, or is a prefix in front of a
\* later one.
LEMMA TurtleCarries ==
    ASSUME doc \in Documents
    PROVE  /\ TurtleSections \in Seq(ChunkSections)
           /\ \A i \in DOMAIN doc.lines : (Statements # {} => i <= Max(Statements)) => doc.lines[i].blank \/
                \E k \in DOMAIN TurtleSections : Carries(TurtleSections[k], i)
<1>0. PICK n \in Nat : n = Len(doc.lines) /\ DOMAIN doc.lines = 1 .. n
  BY DocIs
<1> DEFINE scan == Scanned[n]
           all == scan.found \o Trailing(scan)
<1>1. scan \in ScanStates /\ ScanHolds(scan, Len(doc.lines))
  <2>1. n \in 0 .. Len(doc.lines)
    BY <1>0
  <2> QED
    BY <1>0, <2>1, ScannedIs, ScanAlwaysHolds
<1>2. TurtleSections = IF all = <<>> THEN Blocks ELSE all
  BY <1>0 DEF TurtleSections
<1> HIDE DEF scan
<1>3. /\ all \in Seq(ChunkSections)
      /\ \A i \in 1 .. n : StatementLine(i) => \E k \in DOMAIN all : Shown(all[k], i)
  BY <1>0, <1>1, ScanShows
<1>4. CASE all = <<>>
  <2>1. TurtleSections = <<Section(Whole(doc.lines), 1, StructMax, 2)>>
    BY <1>2, <1>4 DEF Blocks
  <2>2. StructMax \in Nat \ {0}
    BY BudgetAssumption
  <2> QED
    BY <2>1, <2>2, WholeCarries
<1>5. CASE all # <<>>
  <2>1. TurtleSections = all
    BY <1>2, <1>5
  <2>2. PICK i0 \in 1 .. n : StatementLine(i0)
    <3>1. scan.statement # <<>> \/ scan.found # <<>>
      <4>1. ASSUME scan.statement = <<>>, scan.found = <<>> PROVE FALSE
        <5>1. Trailing(scan) = <<>>
          BY <4>1 DEF Trailing
        <5>2. all = <<>> \o <<>>
          BY <4>1, <5>1
        <5> QED
          BY <1>5, <5>2
      <4> QED
        BY <4>1
    <3> QED
      BY <1>0, <1>1, <3>1 DEF ScanHolds
  <2> HIDE DEF all
  <2>3. Statements = {i \in 1 .. n : StatementLine(i)}
    BY <1>0 DEF Statements, StatementLine
  <2>4. Max(Statements) \in Statements
    <3>1. Statements \in SUBSET (0 .. n) /\ Statements # {}
      BY <2>2, <2>3
    <3> QED
      BY <3>1, MaxOf
  <2>5. PICK m \in 1 .. n : m = Max(Statements) /\ StatementLine(m)
    BY <2>3, <2>4
  <2>6. ASSUME NEW i \in 1 .. n, ~doc.lines[i].blank, i <= m
        PROVE  \E k \in DOMAIN all : Carries(all[k], i)
    <3>1. CASE StatementLine(i)
      BY <1>3, <3>1 DEF Shown, Carries
    <3>2. CASE PrefixLine(i)
      <4>1. PICK k \in DOMAIN all : Shown(all[k], m)
        BY <1>3, <2>5
      <4>2. i \in 1 .. m
        BY <2>6
      <4>3. i \in Numbers(all[k].prefix) /\ Shows(all[k].text, m)
        BY <3>2, <4>1, <4>2 DEF Shown
      <4> QED
        BY <4>3 DEF Carries, Shows
    <3> QED
      BY <2>6, <3>1, <3>2 DEF StatementLine, PrefixLine
  <2> QED
    <3>1. Statements # {}
      BY <2>4
    <3> QED
      BY <1>0, <1>3, <2>1, <2>5, <2>6, <3>1
<1> QED
  BY <1>4, <1>5

-----------------------------------------------------------------------------
(* Declarations of a Python file.                                          *)

\* Lines that stand for those of the document from some number on.
Follows(ls, from) ==
    \A j \in DOMAIN ls :
        /\ from + j - 1 \in DOMAIN doc.lines
        /\ ls[j].no = from + j - 1 /\ ls[j].blank = doc.lines[from + j - 1].blank

LEMMA BetweenFollows ==
    ASSUME doc \in Documents, NEW from \in 1 .. Len(doc.lines) + 1, NEW to \in from - 1 .. Len(doc.lines)
    PROVE  Follows(Between(from, to), from)
<1> DEFINE ls == Between(from, to)
<1>1. DOMAIN ls = 1 .. to - from + 1 /\ \A k \in 1 .. to - from + 1 : ls[k] = doc.lines[from + k - 1]
  BY BetweenIs
<1> HIDE DEF ls
<1>2. ASSUME NEW j \in DOMAIN ls
      PROVE  /\ from + j - 1 \in DOMAIN doc.lines
             /\ ls[j].no = from + j - 1 /\ ls[j].blank = doc.lines[from + j - 1].blank
  <2>1. from + j - 1 \in DOMAIN doc.lines
    BY <1>1, DocIs
  <2> QED
    BY <1>1, <2>1, DocIs
<1> QED
  BY <1>2 DEF Follows, ls

LEMMA CutFollows ==
    ASSUME NEW ls \in Seq(Lines), NEW max \in Nat, NEW from \in Nat, Follows(ls, from)
    PROVE  CutTo(ls, max) \in Texts /\ Follows(CutTo(ls, max).lines, from)
<1> DEFINE t == CutTo(ls, max)
<1>1. /\ t \in Texts /\ Len(t.lines) <= Len(ls)
      /\ \A j \in DOMAIN t.lines : t.lines[j].no = ls[j].no /\ t.lines[j].blank = ls[j].blank
  BY CutIs DEF Texts
<1> HIDE DEF t
<1>2. t.lines \in Seq(Lines)
  BY <1>1, TextsAre
<1>3. \A j \in DOMAIN t.lines : j \in DOMAIN ls
  <2> DEFINE cut == t.lines
  <2>1. DOMAIN cut = 1 .. Len(cut) /\ DOMAIN ls = 1 .. Len(ls) /\ Len(cut) \in Nat /\ Len(ls) \in Nat
    BY <1>2
  <2> QED
    BY <1>1, <2>1
<1>4. Follows(t.lines, from)
  BY <1>1, <1>3 DEF Follows
<1> QED
  BY <1>1, <1>4 DEF t

\* Nothing is stripped from the beginning of a text that does not begin with a
\* blank line.
LEMMA StrippedFollows ==
    ASSUME NEW ls \in Seq(Lines), NEW from \in Nat, Follows(ls, from), 1 \in DOMAIN ls, ~ls[1].blank
    PROVE  Follows(Stripped(ls).lines, from)
<1>1. PICK lo \in DOMAIN ls, hi \in DOMAIN ls :
        /\ lo <= hi /\ Stripped(ls).lines = SubSeq(ls, lo, hi)
        /\ \A j \in DOMAIN ls : ls[j].blank \/ j \in lo .. hi
  BY StrippedIs
<1>2. lo = 1 /\ hi \in 1 .. Len(ls) /\ Len(ls) \in Nat
  <2>1. DOMAIN ls = 1 .. Len(ls) /\ Len(ls) \in Nat
    OBVIOUS
  <2>2. 1 \in lo .. hi
    BY <1>1
  <2> QED
    BY <1>1, <2>1, <2>2
<1> DEFINE cut == SubSeq(ls, lo, hi)
<1>3. DOMAIN cut = 1 .. hi /\ \A k \in 1 .. hi : cut[k] = ls[k]
  <2>1. lo \in 1 .. Len(ls) + 1 /\ hi \in lo - 1 .. Len(ls)
    BY <1>2
  <2>2. DOMAIN cut = 1 .. hi - lo + 1 /\ \A k \in 1 .. hi - lo + 1 : cut[k] = ls[lo + k - 1]
    BY <2>1, SubSeqIs
  <2>3. hi - lo + 1 = hi /\ \A k \in 1 .. hi : lo + k - 1 = k
    BY <1>2
  <2> HIDE DEF cut
  <2> QED
    BY <2>2, <2>3
<1> HIDE DEF cut
<1>4. \A j \in 1 .. hi : j \in DOMAIN ls
  BY <1>2
<1>5. Follows(cut, from)
  BY <1>3, <1>4 DEF Follows
<1> QED
  BY <1>1, <1>5 DEF cut

LEMMA DeclarationIs ==
    ASSUME doc \in Documents, NEW k \in DOMAIN doc.decls
    PROVE  LET d == doc.decls[k] IN
           /\ d.name \in Nat \ {0} /\ d.first \in 1 .. Len(doc.lines) /\ d.last \in d.first .. Len(doc.lines)
           /\ d.class \in BOOLEAN /\ d.method \in Nat
           /\ d.method # 0 => d.method - 1 <= d.last
           /\ ~doc.lines[d.first].blank
<1> DEFINE d == doc.decls[k]
<1>1. d \in Declarations
  BY DocumentsAssumption
<1>2. /\ d.first \in DOMAIN doc.lines /\ ~doc.lines[d.first].blank
      /\ d.last \in d.first .. Len(doc.lines)
      /\ d.method # 0 => d.method - 1 <= d.last
  BY DocumentsAssumption
<1> HIDE DEF d
<1>3. d.name \in Nat \ {0} /\ d.method \in Nat
  BY <1>1 DEF Declarations
<1>4. d.class \in BOOLEAN
  BY <1>1, Zenon DEF Declarations
<1> QED
  BY <1>2, <1>3, <1>4, DocIs DEF d

\* The text of a declaration stands for the lines from its first on, and is all
\* of a function.
LEMMA DeclaredIs ==
    ASSUME doc \in Documents, NEW k \in DOMAIN doc.decls
    PROVE  LET d == doc.decls[k] IN
           /\ DeclaredText(d) \in Texts
           /\ Follows(DeclaredText(d).lines, d.first)
           /\ ~d.class => DeclaredText(d).lines = Between(d.first, d.last)
<1> DEFINE d == doc.decls[k]
<1>1. /\ d.first \in 1 .. Len(doc.lines) /\ d.last \in d.first .. Len(doc.lines) /\ Len(doc.lines) \in Nat
      /\ d.class \in BOOLEAN /\ d.method \in Nat /\ ~doc.lines[d.first].blank
      /\ d.method # 0 => d.method - 1 <= d.last
  BY DeclarationIs, DocIs
<1> HIDE DEF d
<1> DEFINE ls == Between(d.first, d.last)
           t == [lines |-> ls, nl |-> d.last < Len(doc.lines) \/ doc.nl]
           upto == IF d.method = None THEN d.last
                   ELSE IF d.method - 1 > d.first THEN d.method - 1 ELSE d.first
           ahead == Between(d.first, upto)
           context == Stripped(ahead)
<1>2. ls \in Seq(Lines) /\ Follows(ls, d.first)
  <2>1. d.first \in 1 .. Len(doc.lines) + 1 /\ d.last \in d.first - 1 .. Len(doc.lines)
    BY <1>1
  <2> QED
    BY <2>1, BetweenIs, BetweenFollows
<1>3. upto \in d.first .. Len(doc.lines)
  BY <1>1 DEF None
<1> HIDE DEF upto
<1>4. ahead \in Seq(Lines) /\ Follows(ahead, d.first) /\ 1 \in DOMAIN ahead /\ ~ahead[1].blank
  <2>1. d.first \in 1 .. Len(doc.lines) + 1 /\ upto \in d.first - 1 .. Len(doc.lines)
    BY <1>1, <1>3
  <2>2. /\ ahead \in Seq(Lines) /\ DOMAIN ahead = 1 .. upto - d.first + 1
        /\ \A j \in 1 .. upto - d.first + 1 : ahead[j] = doc.lines[d.first + j - 1]
    BY <2>1, BetweenIs
  <2>3. Follows(ahead, d.first)
    BY <2>1, BetweenFollows
  <2> HIDE DEF ahead
  <2>4. 1 \in 1 .. upto - d.first + 1 /\ d.first + 1 - 1 = d.first
    BY <1>1, <1>3
  <2> QED
    BY <1>1, <2>2, <2>3, <2>4
<1> HIDE DEF ahead
<1>5. context \in Texts /\ Follows(context.lines, d.first) /\ context.lines \in Seq(Lines)
  <2>1. context \in Texts
    BY <1>4, StrippedTyped DEF Texts
  <2>2. Follows(context.lines, d.first)
    BY <1>1, <1>4, StrippedFollows
  <2> HIDE DEF context
  <2> QED
    BY <2>1, <2>2, TextsAre
<1>6. CodeMax \in Nat /\ d.first \in Nat
  BY <1>1, BudgetAssumption
<1>7. ClassText(d) \in Texts /\ Follows(ClassText(d).lines, d.first)
  <2>1. ClassText(d) \in {context, CutTo(ls, CodeMax), CutTo(context.lines, CodeMax)}
    BY DEF ClassText, ahead, upto
  <2> HIDE DEF context, ls
  <2>2. CutTo(ls, CodeMax) \in Texts /\ Follows(CutTo(ls, CodeMax).lines, d.first)
    BY <1>2, <1>6, CutFollows
  <2>3. CutTo(context.lines, CodeMax) \in Texts /\ Follows(CutTo(context.lines, CodeMax).lines, d.first)
    BY <1>5, <1>6, CutFollows
  <2> QED
    BY <1>5, <2>1, <2>2, <2>3
<1>8. DeclaredText(d) = IF d.class /\ Length(t) > CodeMax THEN ClassText(d) ELSE t
  BY Zenon DEF DeclaredText
<1>9. t \in Texts /\ t.lines = ls
  <2> DEFINE nl == d.last < Len(doc.lines) \/ doc.nl
  <2>2. nl \in BOOLEAN
    BY Zenon
  <2> HIDE DEF nl, ls
  <2>3. t = [lines |-> ls, nl |-> nl]
    BY DEF nl
  <2> HIDE DEF t
  <2> QED
    BY <1>2, <2>2, <2>3, TextsAre
<1> HIDE DEF t, ls
<1>10. /\ DeclaredText(d) \in Texts /\ Follows(DeclaredText(d).lines, d.first)
       /\ ~d.class => DeclaredText(d).lines = ls
  BY <1>2, <1>7, <1>8, <1>9
<1> QED
  BY <1>10 DEF d, ls

\* A section whose text stands for the lines from its start on.
Plain(s) ==
    s.prefix = <<>> /\ s.first = None /\ s.whole = None /\ Follows(s.text.lines, s.start)

\* Every line of a function is in its section.
LEMMA PythonCarries ==
    ASSUME doc \in Documents
    PROVE  /\ PythonSections \in Seq(ChunkSections)
           /\ \A k \in DOMAIN PythonSections : Plain(PythonSections[k])
           /\ \A i \in DOMAIN doc.lines :
                (\E k \in DOMAIN doc.decls : ~doc.decls[k].class /\ i \in doc.decls[k].first .. doc.decls[k].last)
                => doc.lines[i].blank \/ \E k \in DOMAIN PythonSections : Carries(PythonSections[k], i)
<1> DEFINE Made(k) == [Section(DeclaredText(doc.decls[k]), doc.decls[k].first, CodeMax, 4) EXCEPT
                          !.kind = "code", !.symbol = doc.decls[k].name]
           all == [k \in DOMAIN doc.decls |-> Made(k)]
<1>0. doc.decls \in Seq(Declarations) /\ DOMAIN doc.decls = 1 .. Len(doc.decls) /\ Len(doc.decls) \in Nat
  BY DocumentsAssumption
<1>1. ASSUME NEW k \in DOMAIN doc.decls
      PROVE  /\ Made(k) \in ChunkSections /\ Plain(Made(k))
             /\ \A i \in DOMAIN doc.lines :
                  ~doc.decls[k].class /\ i \in doc.decls[k].first .. doc.decls[k].last
                  => doc.lines[i].blank \/ Carries(Made(k), i)
  <2> DEFINE d == doc.decls[k]
             t == DeclaredText(d)
             s == Section(t, d.first, CodeMax, 4)
  <2>1. /\ d.name \in Nat /\ d.first \in 1 .. Len(doc.lines) /\ d.last \in d.first .. Len(doc.lines)
        /\ Len(doc.lines) \in Nat
    BY DeclarationIs, DocIs
  <2>2. /\ t \in Texts /\ Follows(t.lines, d.first)
        /\ ~d.class => t.lines = Between(d.first, d.last)
    BY DeclaredIs
  <2> HIDE DEF d, t
  <2>3. s \in ChunkSections
    <3>1. d.first \in Nat \ {0} /\ CodeMax \in Nat \ {0} /\ 4 \in Nat
      BY <2>1, BudgetAssumption
    <3> QED
      BY <2>2, <3>1, SectionTyped
  <2>4. s.text = t /\ s.start = d.first /\ s.prefix = <<>> /\ s.first = None /\ s.whole = None
    BY DEF Section
  <2> HIDE DEF s
  <2>5. Made(k) = [s EXCEPT !.kind = "code", !.symbol = d.name]
    BY DEF s, d, t
  <2> HIDE DEF Made
  <2>6. /\ Made(k) \in ChunkSections /\ Made(k).text = t /\ Made(k).start = d.first
        /\ Made(k).prefix = <<>> /\ Made(k).first = None /\ Made(k).whole = None
    BY <2>1, <2>3, <2>4, <2>5 DEF ChunkSections
  <2>7. Plain(Made(k))
    BY <2>2, <2>6 DEF Plain
  <2>8. ASSUME NEW i \in DOMAIN doc.lines, ~d.class, i \in d.first .. d.last, ~doc.lines[i].blank
        PROVE  Carries(Made(k), i)
    <3>1. d.first \in 1 .. Len(doc.lines) + 1 /\ d.last \in d.first - 1 .. Len(doc.lines)
      BY <2>1
    <3>2. /\ DOMAIN t.lines = 1 .. d.last - d.first + 1
          /\ \A j \in 1 .. d.last - d.first + 1 : t.lines[j] = doc.lines[d.first + j - 1]
      BY <2>2, <2>8, <3>1, BetweenIs
    <3>3. i - d.first + 1 \in 1 .. d.last - d.first + 1 /\ d.first + (i - d.first + 1) - 1 = i
      BY <2>1, <2>8
    <3>4. t.lines[i - d.first + 1] = doc.lines[i] /\ doc.lines[i].no = i
      BY <3>2, <3>3, DocIs
    <3> QED
      BY <2>6, <2>8, <3>2, <3>3, <3>4 DEF Carries, Shows
  <2> QED
    BY <2>6, <2>7, <2>8 DEF d
<1>2. PythonSections = all
  BY DEF PythonSections
<1> HIDE DEF Made
<1>3. all \in Seq(ChunkSections) /\ DOMAIN all = DOMAIN doc.decls /\ \A k \in DOMAIN doc.decls : all[k] = Made(k)
  BY <1>0, <1>1
<1> HIDE DEF all
<1>4. PythonSections \in Seq(ChunkSections) /\ \A k \in DOMAIN PythonSections : Plain(PythonSections[k])
  BY <1>1, <1>2, <1>3
<1>5. ASSUME NEW i \in DOMAIN doc.lines, ~doc.lines[i].blank, NEW k \in DOMAIN doc.decls,
             ~doc.decls[k].class, i \in doc.decls[k].first .. doc.decls[k].last
      PROVE  \E m \in DOMAIN PythonSections : Carries(PythonSections[m], i)
  <2>1. Carries(Made(k), i)
    BY <1>1, <1>5
  <2> QED
    BY <1>2, <1>3, <2>1
<1> QED
  BY <1>4, <1>5

LEMMA WholeIsPlain ==
    ASSUME doc \in Documents, NEW max, NEW lap
    PROVE  Plain(Section(Whole(doc.lines), 1, max, lap))
<1> DEFINE s == Section(Whole(doc.lines), 1, max, lap)
<1>1. s.text = Whole(doc.lines) /\ s.start = 1 /\ s.prefix = <<>> /\ s.first = None /\ s.whole = None
  BY DEF Section
<1>2. Whole(doc.lines).lines = doc.lines
  BY DEF Whole
<1>3. Follows(doc.lines, 1)
  BY DocIs DEF Follows
<1> HIDE DEF s
<1>4. Plain(s)
  BY <1>1, <1>2, <1>3 DEF Plain
<1> QED
  BY <1>4 DEF s

\* Whatever the kind of a document, its sections carry all that is indexed.
LEMMA SectionsCarry ==
    ASSUME doc \in Documents
    PROVE  /\ SectionsOf \in Seq(ChunkSections)
           /\ doc.type = "python" => \A k \in DOMAIN SectionsOf : Plain(SectionsOf[k])
           /\ \A i \in Indexed : \E k \in DOMAIN SectionsOf : Carries(SectionsOf[k], i)
<1> DEFINE Indexes(i) ==
              /\ ~doc.lines[i].blank
              /\ doc.type = "yaml" /\ Keys # <<>> => i >= Keys[1]
              /\ doc.type = "turtle" /\ Statements # {} => i <= Max(Statements)
              /\ doc.type = "python" /\ doc.decls # <<>> =>
                  \E k \in DOMAIN doc.decls :
                      ~doc.decls[k].class /\ i \in doc.decls[k].first .. doc.decls[k].last
           Found(q) == \A i \in Indexed : \E k \in DOMAIN q : Carries(q[k], i)
<1>1. \A i \in Indexed : i \in DOMAIN doc.lines /\ Indexes(i)
  BY DEF Indexed
<1>2. ASSUME NEW max \in Nat \ {0}, NEW lap \in Nat
      PROVE  LET q == <<Section(Whole(doc.lines), 1, max, lap)>> IN
             q \in Seq(ChunkSections) /\ Found(q) /\ \A k \in DOMAIN q : Plain(q[k])
  <2> DEFINE s == Section(Whole(doc.lines), 1, max, lap)
             q == <<s>>
  <2>1. /\ q \in Seq(ChunkSections)
        /\ \A i \in DOMAIN doc.lines : doc.lines[i].blank \/ \E k \in DOMAIN q : Carries(q[k], i)
    BY WholeCarries
  <2>2. Plain(s)
    BY WholeIsPlain
  <2> HIDE DEF s
  <2>3. \A k \in DOMAIN q : Plain(q[k])
    BY <2>2
  <2> HIDE DEF q
  <2>4. Found(q)
    BY <1>1, <2>1
  <2> QED
    BY <2>1, <2>3, <2>4 DEF q, s
<1> HIDE DEF Indexes
<1>3. CASE doc.type = "markdown"
  <2>1. SectionsOf = MarkdownSections
    BY <1>3 DEF SectionsOf
  <2> QED
    BY <1>1, <1>3, <2>1, MarkdownCarries DEF Indexes
<1>4. CASE doc.type = "yaml"
  <2>1. SectionsOf = YamlSections
    BY <1>4 DEF SectionsOf
  <2> QED
    BY <1>1, <1>4, <2>1, YamlCarries DEF Indexes
<1>5. CASE doc.type = "turtle"
  <2>1. SectionsOf = TurtleSections
    BY <1>5 DEF SectionsOf
  <2> QED
    BY <1>1, <1>5, <2>1, TurtleCarries DEF Indexes
<1>6. CASE doc.type = "json"
  <2>1. SectionsOf = <<Section(Whole(doc.lines), 1, StructMax, 2)>>
    BY <1>6 DEF SectionsOf, Blocks
  <2> QED
    BY <1>2, <1>6, <2>1, BudgetAssumption
<1>7. CASE doc.type = "python" /\ doc.decls # <<>>
  <2>1. SectionsOf = PythonSections
    BY <1>7 DEF SectionsOf
  <2> QED
    BY <1>1, <1>7, <2>1, PythonCarries DEF Indexes
<1>8. CASE (doc.type = "python" /\ doc.decls = <<>>) \/ doc.type = "java"
  <2>1. SectionsOf = <<Section(Whole(doc.lines), 1, CodeMax, 4)>>
    BY <1>8 DEF SectionsOf, Undivided
  <2> QED
    BY <1>2, <2>1, BudgetAssumption
<1>9. CASE doc.type = "other"
  <2>1. SectionsOf = <<Section(Whole(doc.lines), 1, DocMax, 3)>>
    BY <1>9 DEF SectionsOf, Undivided
  <2> QED
    BY <1>2, <2>1, BudgetAssumption
<1> QED
  <2>1. doc.type \in Types
    BY DocIs
  <2> QED
    BY <1>3, <1>4, <1>5, <1>6, <1>7, <1>8, <1>9, <2>1 DEF Types

-----------------------------------------------------------------------------
(* Chunks.                                                                 *)

Hashed == Kinds \X Nat \X Nat
ChunkRecords ==
    [kind : {"text", "code"}, path : Seq(Nat), symbol : Nat, prefix : SUBSET Nat, lines : SUBSET Nat,
     text : Seq(Hashed), start : Nat, end : Nat, part : Nat]

LEMMA NumbersTyped ==
    ASSUME NEW ls \in Seq(Lines)
    PROVE  Numbers(ls) \in SUBSET Nat
<1>1. \A i \in DOMAIN ls : ls[i] \in Lines
  OBVIOUS
<1> QED
  BY <1>1, LineIs DEF Numbers

LEMMA TextTyped ==
    ASSUME NEW ls \in Seq(Lines)
    PROVE  TextOf(ls) \in Seq(Hashed) /\ Len(TextOf(ls)) = Len(ls)
<1> DEFINE Of(i) == <<ls[i].kind, ls[i].level, ls[i].chars>>
           t == [i \in 1 .. Len(ls) |-> Of(i)]
<1>1. ASSUME NEW i \in 1 .. Len(ls) PROVE Of(i) \in Hashed
  <2>1. ls[i] \in Lines
    BY <1>1
  <2> DEFINE l == ls[i]
  <2> HIDE DEF l
  <2>2. l \in Lines => l.kind \in Kinds /\ l.level \in Nat /\ l.chars \in Nat
    BY CutAssumption
  <2> QED
    BY <2>1, <2>2 DEF Hashed, l
<1>2. TextOf(ls) = t
  BY DEF TextOf
<1> HIDE DEF Of
<1>3. Len(ls) \in Nat
  OBVIOUS
<1>4. t \in Seq(Hashed) /\ Len(t) = Len(ls)
  BY <1>1, <1>3
<1> QED
  BY <1>2, <1>4

\* A chunk made of the lines of a window of a section.
MadeOf(c, s, ls, first) ==
    /\ c \in ChunkRecords
    /\ c.lines = Numbers(Stripped(ls).lines) /\ c.prefix = Numbers(s.prefix)
    /\ c.text = TextOf(s.prefix \o Stripped(ls).lines)
    /\ s.first = None => c.start = first
    /\ \A j \in DOMAIN ls : ls[j].blank \/ ls[j].no \in c.lines

LEMMA MakeChunkIs ==
    ASSUME NEW s \in ChunkSections, NEW ls \in Seq(Lines), NEW first \in Nat, NEW last \in Nat, NEW n \in Nat
    PROVE  MadeOf(MakeChunk(s, ls, first, last, n), s, ls, first)
<1> DEFINE c == MakeChunk(s, ls, first, last, n)
           kept == Stripped(ls).lines
           full == s.prefix \o kept
           begin == IF s.first = None THEN first ELSE s.first
<1>1. kept \in Seq(Lines) /\ s.prefix \in Seq(Lines)
  <2>1. Stripped(ls) \in Texts
    BY StrippedTyped DEF Texts
  <2> QED
    BY <2>1, TextsAre DEF ChunkSections
<1>2. full \in Seq(Lines)
  <2> HIDE DEF kept
  <2> QED
    BY <1>1, Joined
<1>3. c = [kind |-> s.kind, path |-> s.path, symbol |-> s.symbol, prefix |-> Numbers(s.prefix),
           lines |-> Numbers(kept), text |-> TextOf(full), start |-> begin, end |-> last, part |-> n]
  BY DEF MakeChunk
<1>4. begin \in Nat /\ s.kind \in {"text", "code"} /\ s.path \in Seq(Nat) /\ s.symbol \in Nat
  BY DEF ChunkSections
<1> HIDE DEF c, full, kept
<1>5. TextOf(full) \in Seq(Hashed) /\ Numbers(kept) \in SUBSET Nat /\ Numbers(s.prefix) \in SUBSET Nat
  BY <1>1, <1>2, TextTyped, NumbersTyped
<1>6. c \in ChunkRecords
  <2> HIDE DEF begin
  <2> QED
    BY <1>3, <1>4, <1>5 DEF ChunkRecords
<1>7. ASSUME NEW j \in DOMAIN ls, ~ls[j].blank PROVE ls[j].no \in Numbers(kept)
  <2>1. PICK k \in DOMAIN kept : kept[k] = ls[j]
    BY <1>7, StrippedKeeps DEF kept
  <2> QED
    BY <2>1 DEF Numbers
<1>8. /\ c.lines = Numbers(kept) /\ c.prefix = Numbers(s.prefix) /\ c.text = TextOf(full)
      /\ s.first = None => c.start = first
  BY <1>3
<1>9. MadeOf(c, s, ls, first)
  BY <1>6, <1>7, <1>8 DEF MadeOf, kept, full
<1> QED
  BY <1>9 DEF c

\* A chunk whose lines are told by where it starts and how many they are.
Located(c) ==
    /\ c.prefix = {}
    /\ \E lo \in Nat :
        /\ c.start <= lo /\ ~doc.lines[lo].blank
        /\ \A m \in c.start .. lo - 1 : doc.lines[m].blank
        /\ c.lines = lo .. lo + Len(c.text) - 1

HasText(ls) == \E j \in DOMAIN ls : ~ls[j].blank

LEMMA PlainIsLocated ==
    ASSUME NEW s \in ChunkSections, Plain(s), NEW ls \in Seq(Lines), HasText(ls),
           NEW first \in Nat, Follows(ls, first), NEW last \in Nat, NEW n \in Nat
    PROVE  Located(MakeChunk(s, ls, first, last, n))
<1> DEFINE c == MakeChunk(s, ls, first, last, n)
<1>0. s.prefix = <<>> /\ s.first = None
  BY DEF Plain
<1>1. /\ c.lines = Numbers(Stripped(ls).lines) /\ c.prefix = Numbers(s.prefix)
      /\ c.text = TextOf(s.prefix \o Stripped(ls).lines) /\ c.start = first
  <2>1. MadeOf(c, s, ls, first)
    BY MakeChunkIs
  <2> HIDE DEF c
  <2> QED
    BY <1>0, <2>1 DEF MadeOf
<1> HIDE DEF c
<1>2. PICK lo \in DOMAIN ls, hi \in DOMAIN ls :
        /\ lo <= hi /\ Stripped(ls).lines = SubSeq(ls, lo, hi) /\ ~ls[lo].blank
        /\ \A j \in DOMAIN ls : ls[j].blank \/ j \in lo .. hi
  BY StrippedIs DEF HasText
<1> DEFINE cut == SubSeq(ls, lo, hi)
<1>3. lo \in 1 .. Len(ls) /\ hi \in lo .. Len(ls) /\ Len(ls) \in Nat /\ DOMAIN ls = 1 .. Len(ls)
  <2>1. lo <= hi /\ DOMAIN ls = 1 .. Len(ls) /\ Len(ls) \in Nat
    BY <1>2
  <2> QED
    BY <2>1
<1>4. /\ cut \in Seq(Lines) /\ Len(cut) = hi - lo + 1 /\ DOMAIN cut = 1 .. hi - lo + 1
      /\ \A k \in 1 .. hi - lo + 1 : cut[k] = ls[lo + k - 1]
  <2>1. lo \in 1 .. Len(ls) + 1 /\ hi \in lo - 1 .. Len(ls)
    BY <1>3
  <2> QED
    BY <2>1, SubSeqIs
<1>4a. Stripped(ls).lines = cut
  BY <1>2
<1> HIDE DEF cut
<1>5. s.prefix \o cut = cut
  BY <1>0, <1>4
<1>6. c.prefix = {} /\ c.lines = Numbers(cut) /\ Len(c.text) = hi - lo + 1
  <2>1. c.text = TextOf(cut)
    BY <1>1, <1>4a, <1>5
  <2>2. Numbers(<<>>) = {}
    BY DEF Numbers
  <2>3. Len(TextOf(cut)) = hi - lo + 1
    BY <1>4, TextTyped
  <2> QED
    BY <1>0, <1>1, <1>4a, <2>1, <2>2, <2>3
<1> DEFINE at == first + lo - 1
           size == hi - lo + 1
<1>7. \A j \in DOMAIN ls : ls[j].no = first + j - 1 /\ ls[j].blank = doc.lines[first + j - 1].blank
  BY DEF Follows
<1>8. at \in Nat /\ first <= at /\ size \in Nat
  BY <1>3
<1>8a. ~doc.lines[at].blank
  BY <1>2, <1>7
<1>9. ASSUME NEW m \in first .. at - 1 PROVE doc.lines[m].blank
  <2>1. m - first + 1 \in 1 .. lo - 1 /\ first + (m - first + 1) - 1 = m
    BY <1>3
  <2>2. m - first + 1 \in DOMAIN ls /\ m - first + 1 \notin lo .. hi
    BY <1>3, <2>1
  <2>3. ls[m - first + 1].blank
    BY <1>2, <2>2
  <2> QED
    BY <1>7, <2>1, <2>2, <2>3
<1>10. Numbers(cut) = at .. at + size - 1
  <2>1. ASSUME NEW k \in 1 .. size PROVE cut[k].no = at + k - 1
    <3>1. lo + k - 1 \in DOMAIN ls /\ first + (lo + k - 1) - 1 = at + k - 1
      BY <1>3
    <3>2. cut[k] = ls[lo + k - 1]
      BY <1>4
    <3>3. ls[lo + k - 1].no = first + (lo + k - 1) - 1
      BY <1>7, <3>1
    <3> QED
      BY <3>1, <3>2, <3>3
  <2>2. DOMAIN cut = 1 .. size
    BY <1>4
  <2> HIDE DEF at, size
  <2>3. \A x \in at .. at + size - 1 : x - at + 1 \in 1 .. size /\ at + (x - at + 1) - 1 = x
    BY <1>8
  <2>4. \A k \in 1 .. size : at + k - 1 \in at .. at + size - 1
    BY <1>8
  <2>5. \A x \in Numbers(cut) : x \in at .. at + size - 1
    BY <2>1, <2>2, <2>4 DEF Numbers
  <2>6. \A x \in at .. at + size - 1 : x \in Numbers(cut)
    BY <2>1, <2>2, <2>3 DEF Numbers
  <2> QED
    BY <2>5, <2>6
<1>11. Located(c)
  <2> HIDE DEF at
  <2> QED
    BY <1>1, <1>6, <1>8, <1>8a, <1>9, <1>10 DEF Located
<1> QED
  BY <1>11 DEF c

LEMMA LocatedAlike ==
    ASSUME doc \in Documents, NEW c \in ChunkRecords, NEW d \in ChunkRecords, Located(c), Located(d),
           DedupKey(c) = DedupKey(d)
    PROVE  c.lines = d.lines /\ c.prefix = d.prefix
<1>1. c.start = d.start /\ c.text = d.text /\ c.start \in Nat
  BY DEF DedupKey, ChunkRecords
<1>2. PICK a \in Nat : /\ c.start <= a /\ ~doc.lines[a].blank /\ \A m \in c.start .. a - 1 : doc.lines[m].blank
                       /\ c.lines = a .. a + Len(c.text) - 1
  BY DEF Located
<1>3. PICK b \in Nat : /\ d.start <= b /\ ~doc.lines[b].blank /\ \A m \in d.start .. b - 1 : doc.lines[m].blank
                       /\ d.lines = b .. b + Len(d.text) - 1
  BY DEF Located
<1>4. a = b
  <2>1. ~(a < b)
    BY <1>1, <1>2, <1>3
  <2>2. ~(b < a)
    BY <1>1, <1>2, <1>3
  <2> QED
    BY <2>1, <2>2
<1> QED
  BY <1>1, <1>2, <1>3, <1>4 DEF Located

Has(cs, i) == \E k \in DOMAIN cs : i \in cs[k].lines \cup cs[k].prefix

\* What is taken out as a duplicate has the lines of a chunk that is left.
LEMMA DedupKeeps ==
    ASSUME doc \in Documents, NEW cs \in Seq(ChunkRecords),
           doc.type = "python" => \A k \in DOMAIN cs : Located(cs[k]),
           NEW i, Has(cs, i)
    PROVE  Has(Deduplicated(cs), i)
<1>1. CASE doc.type # "python"
  BY <1>1 DEF Deduplicated
<1>2. CASE doc.type = "python"
  <2> DEFINE n == Len(cs)
             S == {k \in DOMAIN cs : \A j \in 1 .. k - 1 : DedupKey(cs[j]) # DedupKey(cs[k])}
             kept == InOrder(S, n)
             left == [k \in DOMAIN kept |-> cs[kept[k]]]
  <2>1. n \in Nat /\ DOMAIN cs = 1 .. n /\ S \in SUBSET (1 .. n) /\ \A k \in 1 .. n : cs[k] \in ChunkRecords
    OBVIOUS
  <2>2. Deduplicated(cs) = left
    BY <1>2 DEF Deduplicated
  <2>3. PICK k \in 1 .. n : i \in cs[k].lines \cup cs[k].prefix
    BY <2>1 DEF Has
  <2> DEFINE same == {j \in 1 .. n : DedupKey(cs[j]) = DedupKey(cs[k])}
  <2>4. same \in SUBSET Nat /\ same # {}
    BY <2>1
  <2>5. PICK first \in same : \A j \in same : first <= j
    <3> HIDE DEF same
    <3> QED
      BY <2>4, Smallest
  <2>6. first \in 1 .. n /\ DedupKey(cs[first]) = DedupKey(cs[k])
    BY <2>5
  <2>7. first \in S
    <3>1. ASSUME NEW j \in 1 .. first - 1, DedupKey(cs[j]) = DedupKey(cs[first]) PROVE FALSE
      <4>1. j \in same /\ ~(first <= j)
        BY <2>1, <2>6, <3>1
      <4> HIDE DEF same
      <4> QED
        BY <2>5, <4>1
    <3> QED
      BY <2>1, <2>6, <3>1
  <2> HIDE DEF S, same
  <2>8. PICK m \in DOMAIN kept : kept[m] = first
    <3> HIDE DEF n
    <3> QED
      BY <2>1, <2>7, InOrderIs
  <2>9. cs[first].lines = cs[k].lines /\ cs[first].prefix = cs[k].prefix
    BY <1>2, <2>1, <2>3, <2>6, LocatedAlike
  <2> HIDE DEF kept
  <2>10. m \in DOMAIN left /\ left[m] = cs[first]
    BY <2>8
  <2> HIDE DEF left
  <2>11. Has(left, i)
    BY <2>3, <2>9, <2>10 DEF Has
  <2> QED
    BY <2>2, <2>11
<1> QED
  BY <1>1, <1>2

-----------------------------------------------------------------------------
(* No line is lost.                                                        *)

Carried(q, i) == \E k \in DOMAIN q : Carries(q[k], i)

\* Between the scan and the end every line that is indexed is in a chunk, or in
\* a section that is still to be split.
Working ==
    /\ sections \in Seq(ChunkSections) /\ chunks \in Seq(ChunkRecords)
    /\ \A i \in Indexed : Has(chunks, i) \/ Carried(sections, i)
    /\ doc.type = "python" =>
        (\A k \in DOMAIN sections : Plain(sections[k])) /\ \A k \in DOMAIN chunks : Located(chunks[k])

\* The windows are those of the first section, and none of them is blank.
RangesShow == \A k \in DOMAIN ranges : ~AllBlank(ranges[k].from, ranges[k].to)
Splitting ==
    /\ sections # <<>> /\ Head(sections).whole = None
    /\ text = Head(sections).text /\ start = Head(sections).start
    /\ WindowInv /\ RangesShow

ChunkInv ==
    /\ doc \in Documents
    /\ phase = "scan" => chunks = <<>>
    /\ phase \in {"next", "split"} => Working
    /\ phase = "split" => Splitting
    /\ NothingLost

LEMMA SameDocument ==
    ASSUME doc' = doc
    PROVE  Indexed' = Indexed
BY DEF Indexed, Keys, Statements

LEMMA SamePlain ==
    ASSUME doc' = doc
    PROVE  /\ \A s : Plain(s)' <=> Plain(s)
           /\ \A c : Located(c)' <=> Located(c)
BY DEF Plain, Follows, Located

\* The chunks made of the first section carry what it carried.
LEMMA AddHolds ==
    ASSUME Working, sections # <<>>, NEW made \in Seq(ChunkRecords), doc' = doc,
           \A i : Carries(Head(sections), i) => Has(made, i),
           doc.type = "python" => \A k \in DOMAIN made : Located(made[k]),
           chunks' = chunks \o made, sections' = Tail(sections)
    PROVE  Working'
<1>1. sections \in Seq(ChunkSections) /\ chunks \in Seq(ChunkRecords)
  BY DEF Working
<1>2. /\ chunks' \in Seq(ChunkRecords) /\ Len(chunks) \in Nat /\ Len(made) \in Nat
      /\ DOMAIN chunks' = 1 .. Len(chunks) + Len(made)
      /\ DOMAIN chunks = 1 .. Len(chunks) /\ DOMAIN made = 1 .. Len(made)
      /\ \A k \in 1 .. Len(chunks) : chunks'[k] = chunks[k]
      /\ \A k \in 1 .. Len(made) : chunks'[Len(chunks) + k] = made[k]
  BY <1>1, Joined
<1>3. /\ sections' \in Seq(ChunkSections) /\ Len(sections) \in Nat \ {0}
      /\ DOMAIN sections = 1 .. Len(sections) /\ DOMAIN sections' = 1 .. Len(sections) - 1
      /\ Head(sections) = sections[1]
      /\ \A k \in 1 .. Len(sections) - 1 : sections'[k] = sections[k + 1]
  BY <1>1
<1>4. /\ \A k \in DOMAIN chunks : k \in DOMAIN chunks' /\ chunks'[k] = chunks[k]
      /\ \A k \in DOMAIN made : Len(chunks) + k \in DOMAIN chunks' /\ chunks'[Len(chunks) + k] = made[k]
      /\ \A k \in DOMAIN chunks' : k \in DOMAIN chunks \/ (k - Len(chunks) \in DOMAIN made
                                                           /\ chunks'[k] = made[k - Len(chunks)])
  <2>1. \A k \in 1 .. Len(made) : Len(chunks) + k \in 1 .. Len(chunks) + Len(made)
    BY <1>2
  <2>2. ASSUME NEW k \in 1 .. Len(chunks) + Len(made), k \notin 1 .. Len(chunks)
        PROVE  k - Len(chunks) \in 1 .. Len(made) /\ chunks'[k] = made[k - Len(chunks)]
    <3>1. k - Len(chunks) \in 1 .. Len(made) /\ Len(chunks) + (k - Len(chunks)) = k
      BY <1>2, <2>2
    <3> QED
      BY <1>2, <3>1
  <2>3. \A k \in 1 .. Len(chunks) : k \in 1 .. Len(chunks) + Len(made)
    BY <1>2
  <2> QED
    BY <1>2, <2>1, <2>2, <2>3
<1>5. ASSUME NEW i \in Indexed PROVE Has(chunks', i) \/ Carried(sections', i)
  <2>1. CASE Has(chunks, i)
    BY <1>4, <2>1 DEF Has
  <2>2. CASE Carried(sections, i)
    <3>1. PICK k \in DOMAIN sections : Carries(sections[k], i)
      BY <2>2 DEF Carried
    <3>2. CASE k = 1
      <4>1. Has(made, i)
        BY <1>3, <3>1, <3>2
      <4> QED
        BY <1>4, <4>1 DEF Has
    <3>3. CASE k # 1
      <4>1. k - 1 \in 1 .. Len(sections) - 1 /\ k - 1 + 1 = k
        BY <1>3, <3>3
      <4>2. k - 1 \in DOMAIN sections' /\ sections'[k - 1] = sections[k]
        BY <1>3, <4>1
      <4> QED
        BY <3>1, <4>2 DEF Carried
    <3> QED
      BY <3>2, <3>3
  <2> QED
    BY <2>1, <2>2 DEF Working
<1>6. ASSUME doc.type = "python"
      PROVE  (\A k \in DOMAIN sections' : Plain(sections'[k])) /\ \A k \in DOMAIN chunks' : Located(chunks'[k])
  <2>1. (\A k \in DOMAIN sections : Plain(sections[k])) /\ \A k \in DOMAIN chunks : Located(chunks[k])
    BY <1>6 DEF Working
  <2>2. \A k \in 1 .. Len(sections) - 1 : k + 1 \in DOMAIN sections
    BY <1>3
  <2> QED
    BY <1>3, <1>4, <1>6, <2>1, <2>2
<1>7. Indexed' = Indexed
  BY SameDocument
<1>8. (\A s : Plain(s)' <=> Plain(s)) /\ \A c : Located(c)' <=> Located(c)
  BY SamePlain
<1> QED
  BY <1>2, <1>3, <1>5, <1>6, <1>7, <1>8 DEF Working

LEMMA HeadIs ==
    ASSUME Working, sections # <<>>
    PROVE  /\ Head(sections) \in ChunkSections
           /\ doc.type = "python" => Plain(Head(sections))
<1>1. sections \in Seq(ChunkSections)
  BY DEF Working
<1>2. Head(sections) = sections[1] /\ 1 \in DOMAIN sections /\ sections[1] \in ChunkSections
  BY <1>1
<1> QED
  BY <1>2 DEF Working

LEMMA ScanKeeps == ASSUME ChunkInv, Scan PROVE ChunkInv'
<1>1. doc \in Documents /\ chunks = <<>> /\ sections' = SectionsOf /\ phase' = "next" /\ doc' = doc /\ chunks' = chunks
  BY DEF ChunkInv, Scan
<1>2. /\ SectionsOf \in Seq(ChunkSections)
      /\ doc.type = "python" => \A k \in DOMAIN SectionsOf : Plain(SectionsOf[k])
      /\ \A i \in Indexed : Carried(SectionsOf, i)
  BY <1>1, SectionsCarry DEF Carried
<1>3. Indexed' = Indexed /\ (\A s : Plain(s)' <=> Plain(s))
  BY <1>1, SameDocument, SamePlain
<1>4. <<>> \in Seq(ChunkRecords) /\ DOMAIN <<>> = {}
  OBVIOUS
<1>5. Working'
  BY <1>1, <1>2, <1>3, <1>4 DEF Working
<1> QED
  BY <1>1, <1>5 DEF ChunkInv, NothingLost

LEMMA TakeWholeKeeps == ASSUME ChunkInv, TakeWhole PROVE ChunkInv'
<1> DEFINE s == Head(sections)
           c == MakeChunk(s, s.text.lines, s.start, s.whole, s.part)
           made == <<c>>
<1>1. doc \in Documents /\ doc' = doc /\ phase = "next" /\ sections # <<>> /\ s.whole # None /\ Add(made) /\ Working
  BY DEF ChunkInv, TakeWhole
<1>2. s \in ChunkSections /\ (doc.type = "python" => Plain(s))
  BY <1>1, HeadIs
<1>3. doc.type # "python"
  BY <1>1, <1>2 DEF Plain
<1> HIDE DEF s
<1>4. s.text.lines \in Seq(Lines) /\ s.start \in Nat /\ s.whole \in Nat /\ s.part \in Nat
  BY <1>2, TextsAre DEF ChunkSections
<1>5. /\ c \in ChunkRecords
      /\ c.prefix = Numbers(s.prefix)
      /\ \A j \in DOMAIN s.text.lines : s.text.lines[j].blank \/ s.text.lines[j].no \in c.lines
  <2> DEFINE ls == s.text.lines
             first == s.start
             last == s.whole
             n == s.part
             d == MakeChunk(s, ls, first, last, n)
  <2>1. ls \in Seq(Lines) /\ first \in Nat /\ last \in Nat /\ n \in Nat
    BY <1>4
  <2> HIDE DEF ls, first, last, n
  <2>2. MadeOf(d, s, ls, first)
    BY <1>2, <2>1, MakeChunkIs
  <2> HIDE DEF d
  <2>3. d \in ChunkRecords /\ d.prefix = Numbers(s.prefix) /\ \A j \in DOMAIN ls : ls[j].blank \/ ls[j].no \in d.lines
    BY <2>2 DEF MadeOf
  <2> QED
    BY <2>3 DEF d, ls, first, last, n
<1> HIDE DEF c
<1>6. made \in Seq(ChunkRecords) /\ DOMAIN made = {1} /\ made[1] = c
  BY <1>5
<1>7. ASSUME NEW i, Carries(s, i) PROVE Has(made, i)
  <2>1. i \in c.lines \cup c.prefix
    BY <1>5, <1>7 DEF Carries, Shows
  <2> QED
    BY <1>6, <2>1 DEF Has
<1> HIDE DEF made
<1>8. CASE phase' = "failed"
  BY <1>1, <1>8 DEF ChunkInv, NothingLost
<1>9. CASE chunks' = chunks \o made /\ sections' = Tail(sections) /\ phase' = "next"
  <2>1. Working'
    BY <1>1, <1>3, <1>6, <1>7, <1>9, AddHolds DEF s
  <2> QED
    BY <1>1, <1>9, <2>1 DEF ChunkInv, NothingLost
<1> QED
  BY <1>1, <1>8, <1>9 DEF Add

LEMMA CallSplitKeeps == ASSUME ChunkInv, CallSplit PROVE ChunkInv'
<1> DEFINE s == Head(sections)
<1>1. /\ doc \in Documents /\ phase = "next" /\ sections # <<>> /\ s.whole = None /\ Working
      /\ text' = s.text /\ start' = s.start /\ limit' = s.limit /\ overlap' = s.overlap
      /\ cursor' = 0 /\ end' = 0 /\ chars' = 0 /\ ranges' = <<>> /\ returned' = FALSE
      /\ phase' = "split" /\ doc' = doc /\ sections' = sections /\ chunks' = chunks
  BY DEF ChunkInv, CallSplit
<1>2. s \in ChunkSections
  BY <1>1, HeadIs
<1>3. /\ s.text.lines \in Seq(Lines) /\ s.text.nl \in BOOLEAN
      /\ s.start \in Nat \ {0} /\ s.limit \in Nat \ {0} /\ s.overlap \in Nat
  BY <1>2, TextsAre DEF ChunkSections
<1>4. WindowInv'
  <2>1. text'.lines \in Seq(Lines) /\ text'.nl \in BOOLEAN /\ N' \in Nat
    BY <1>1, <1>3 DEF N
  <2>2. WindowsTypeOK'
    <3>1. ranges' \in Seq(TextRanges) /\ returned' \in BOOLEAN
      <4>1. ranges' \in Seq(TextRanges)
        BY <1>1
      <4>2. returned' \in BOOLEAN
        BY <1>1, Zenon
      <4> QED
        BY <4>1, <4>2
    <3>2. /\ start' \in Nat \ {0} /\ limit' \in Nat \ {0} /\ overlap' \in Nat
          /\ cursor' \in 0 .. N' /\ end' \in cursor' .. N' /\ chars' \in Nat
      BY <1>1, <1>3, <2>1
    <3> QED
      BY <2>1, <3>1, <3>2, Zenon DEF WindowsTypeOK
  <2>3. WindowsAdvance' /\ WindowsCover' /\ Behind'
    <3>1. limit' \in Nat
      BY <1>1, <1>3
    <3>2. WindowsAdvance'
      BY <1>1, <3>1 DEF WindowsAdvance
    <3>3. WindowsCover'
      BY <1>1 DEF WindowsCover
    <3>4. Behind'
      BY <1>1 DEF Behind
    <3> QED
      BY <3>2, <3>3, <3>4
  <2> QED
    BY <2>2, <2>3 DEF WindowInv
<1>5. RangesShow'
  BY <1>1 DEF RangesShow
<1>6. Splitting'
  BY <1>1, <1>4, <1>5 DEF Splitting
<1>7. Working'
  <2>1. Indexed' = Indexed /\ (\A p : Plain(p)' <=> Plain(p)) /\ \A c : Located(c)' <=> Located(c)
    BY <1>1, SameDocument, SamePlain
  <2> HIDE DEF s
  <2> QED
    BY <1>1, <2>1 DEF Working
<1> HIDE DEF s
<1> QED
  BY <1>1, <1>6, <1>7 DEF ChunkInv, NothingLost

LEMMA SplitKeepsShown ==
    ASSUME WindowInv, RangesShow, Split
    PROVE  RangesShow' /\ text' = text /\ start' = start
<1>1. text' = text /\ start' = start
  BY DEF Split, ReturnNothing, ReturnWhole, TakeLine, CloseWindow
<1>2. \A a, b : AllBlank(a, b)' <=> AllBlank(a, b)
  BY <1>1 DEF AllBlank
<1>3. CASE ReturnNothing \/ TakeLine
  <2>1. ranges' = ranges
    BY <1>3 DEF ReturnNothing, TakeLine
  <2> QED
    BY <1>1, <1>2, <2>1 DEF RangesShow
<1>4. CASE ReturnWhole
  <2> DEFINE r == TextRange(0, N, start, start + N - (IF text.nl THEN 0 ELSE 1))
  <2>1. ranges' = <<r>> /\ ~AllBlank(0, N)
    BY <1>4 DEF ReturnWhole
  <2>2. r.from = 0 /\ r.to = N
    BY DEF TextRange
  <2> HIDE DEF r
  <2>3. DOMAIN ranges' = {1} /\ ranges'[1] = r
    BY <2>1
  <2> QED
    BY <1>1, <1>2, <2>1, <2>2, <2>3 DEF RangesShow
<1>5. CASE CloseWindow
  <2> DEFINE r == TextRange(cursor, end, start + cursor, start + end - 1)
  <2>1. r \in TextRanges /\ r.from = cursor /\ r.to = end
    BY <1>5 DEF CloseWindow, WindowInv, WindowsTypeOK, TextRange, TextRanges, N
  <2>2. ranges' = IF AllBlank(cursor, end) THEN ranges ELSE Append(ranges, r)
    BY <1>5 DEF CloseWindow
  <2>3. ranges \in Seq(TextRanges)
    BY DEF WindowInv, WindowsTypeOK
  <2> HIDE DEF r
  <2>4. CASE AllBlank(cursor, end)
    BY <1>1, <1>2, <2>2, <2>4 DEF RangesShow
  <2>5. CASE ~AllBlank(cursor, end)
    <3>1. /\ DOMAIN ranges' = 1 .. Len(ranges) + 1 /\ DOMAIN ranges = 1 .. Len(ranges) /\ Len(ranges) \in Nat
          /\ ranges'[Len(ranges) + 1] = r
          /\ \A k \in DOMAIN ranges : ranges'[k] = ranges[k]
      BY <2>1, <2>2, <2>3, <2>5, AppendIs
    <3>2. \A k \in DOMAIN ranges' : k \in DOMAIN ranges \/ k = Len(ranges) + 1
      BY <3>1
    <3> QED
      BY <1>1, <1>2, <2>1, <2>5, <3>1, <3>2 DEF RangesShow
  <2> QED
    BY <2>4, <2>5
<1> QED
  BY <1>1, <1>3, <1>4, <1>5 DEF Split

LEMMA SplitStepKeeps == ASSUME ChunkInv, SplitStep PROVE ChunkInv'
<1>1. /\ doc \in Documents /\ phase = "split" /\ Split /\ Working /\ Splitting
      /\ phase' = phase /\ doc' = doc /\ sections' = sections /\ chunks' = chunks
  BY DEF ChunkInv, SplitStep
<1>2. WindowInv'
  <2>1. WindowInv
    BY <1>1 DEF Splitting
  <2> QED
    BY <1>1, <2>1, NothingHolds, WholeHolds, TakeHolds, CloseHolds DEF Split
<1>3. Splitting'
  <2>1. RangesShow' /\ text' = text /\ start' = start
    BY <1>1, SplitKeepsShown DEF Splitting
  <2> QED
    BY <1>1, <1>2, <2>1 DEF Splitting
<1>4. Working'
  <2>1. Indexed' = Indexed /\ (\A p : Plain(p)' <=> Plain(p)) /\ \A c : Located(c)' <=> Located(c)
    BY <1>1, SameDocument, SamePlain
  <2> QED
    BY <1>1, <2>1 DEF Working
<1> QED
  BY <1>1, <1>3, <1>4 DEF ChunkInv, NothingLost

LEMMA FinishKeeps == ASSUME ChunkInv, Finish PROVE ChunkInv'
<1>1. /\ doc \in Documents /\ phase = "next" /\ sections = <<>> /\ Working
      /\ chunks' = Deduplicated(chunks) /\ phase' = "done" /\ doc' = doc
  BY DEF ChunkInv, Finish
<1>2. \A i \in Indexed : ~Carried(sections, i)
  BY <1>1 DEF Carried
<1>3. ASSUME NEW i \in Indexed PROVE Has(chunks', i)
  <2>1. /\ chunks \in Seq(ChunkRecords) /\ Has(chunks, i)
        /\ doc.type = "python" => \A k \in DOMAIN chunks : Located(chunks[k])
    BY <1>1, <1>2, <1>3 DEF Working
  <2> QED
    BY <1>1, <2>1, DedupKeeps
<1>4. Indexed' = Indexed
  BY <1>1, SameDocument
<1>5. NothingLost'
  BY <1>3, <1>4 DEF NothingLost, Has
<1> QED
  BY <1>1, <1>5 DEF ChunkInv

\* Of every range of the first section a chunk is made, with its lines.
LEMMA RangeChunkIs ==
    ASSUME doc \in Documents, Working, Splitting, NEW k \in DOMAIN ranges
    PROVE  LET s == Head(sections)
               r == ranges[k]
               c == MakeChunk(s, SubSeq(text.lines, r.from + 1, r.to), r.start, r.end, r.part)
           IN  /\ c \in ChunkRecords
               /\ c.prefix = Numbers(s.prefix)
               /\ \A j \in DOMAIN text.lines : r.from < j /\ j <= r.to /\ ~text.lines[j].blank
                                               => text.lines[j].no \in c.lines
               /\ doc.type = "python" => Located(c)
<1> DEFINE s == Head(sections)
           r == ranges[k]
           ls == SubSeq(text.lines, r.from + 1, r.to)
           c == MakeChunk(s, ls, r.start, r.end, r.part)
<1>1. /\ sections # <<>> /\ text = s.text /\ start = s.start /\ WindowInv /\ RangesShow
      /\ WindowsTypeOK /\ WindowsAdvance
  BY DEF Splitting, WindowInv
<1>2. s \in ChunkSections /\ (doc.type = "python" => Plain(s))
  BY <1>1, HeadIs
<1>3. /\ r.from \in Nat /\ r.to \in Nat /\ r.start \in Nat /\ r.end \in Nat /\ r.part \in Nat
      /\ r.from < r.to /\ r.to <= N /\ r.start = start + r.from /\ ~AllBlank(r.from, r.to)
  <2>1. r \in TextRanges
    BY <1>1 DEF WindowsTypeOK
  <2>2. r.from < r.to /\ r.to <= N /\ r.start = start + r.from
    BY <1>1 DEF WindowsAdvance
  <2>3. ~AllBlank(r.from, r.to)
    BY <1>1 DEF RangesShow
  <2> HIDE DEF r
  <2> QED
    BY <2>1, <2>2, <2>3 DEF TextRanges
<1>4. text.lines \in Seq(Lines) /\ N = Len(text.lines) /\ N \in Nat /\ DOMAIN text.lines = 1 .. N
      /\ start \in Nat \ {0}
  <2> DEFINE all == text.lines
  <2>1. all \in Seq(Lines) /\ N = Len(all) /\ start \in Nat \ {0}
    BY <1>1 DEF WindowsTypeOK, N
  <2> HIDE DEF all
  <2>2. N \in Nat /\ DOMAIN all = 1 .. N
    BY <2>1
  <2> QED
    BY <2>1, <2>2 DEF all
<1> HIDE DEF s, r
<1>5. /\ ls \in Seq(Lines) /\ DOMAIN ls = 1 .. r.to - r.from
      /\ \A j \in 1 .. r.to - r.from : ls[j] = text.lines[r.from + j]
  <2> DEFINE all == text.lines
             lo == r.from + 1
             hi == r.to
  <2>1. all \in Seq(Lines) /\ lo \in 1 .. Len(all) + 1 /\ hi \in lo - 1 .. Len(all)
    BY <1>3, <1>4
  <2>2. hi - lo + 1 = r.to - r.from /\ \A j \in 1 .. r.to - r.from : lo + j - 1 = r.from + j
    BY <1>3
  <2>3. ls = SubSeq(all, lo, hi)
    OBVIOUS
  <2> HIDE DEF all, lo, hi, ls
  <2>4. /\ ls \in Seq(Lines) /\ DOMAIN ls = 1 .. hi - lo + 1
        /\ \A j \in 1 .. hi - lo + 1 : ls[j] = all[lo + j - 1]
    BY <2>1, <2>3, SubSeqIs
  <2> QED
    BY <2>2, <2>4 DEF all
<1> HIDE DEF ls
<1>6. /\ c \in ChunkRecords /\ c.prefix = Numbers(s.prefix)
      /\ \A j \in DOMAIN ls : ls[j].blank \/ ls[j].no \in c.lines
  <2> DEFINE first == r.start
             last == r.end
             n == r.part
             d == MakeChunk(s, ls, first, last, n)
  <2>1. ls \in Seq(Lines) /\ first \in Nat /\ last \in Nat /\ n \in Nat
    BY <1>3, <1>5
  <2> HIDE DEF first, last, n
  <2>2. MadeOf(d, s, ls, first)
    BY <1>2, <2>1, MakeChunkIs
  <2> HIDE DEF d
  <2>3. d \in ChunkRecords /\ d.prefix = Numbers(s.prefix) /\ \A j \in DOMAIN ls : ls[j].blank \/ ls[j].no \in d.lines
    BY <2>2 DEF MadeOf
  <2> QED
    BY <2>3 DEF d, first, last, n
<1>7. ASSUME NEW j \in 1 .. N, r.from < j, j <= r.to, ~text.lines[j].blank
      PROVE  text.lines[j].no \in c.lines
  <2>1. j - r.from \in 1 .. r.to - r.from /\ r.from + (j - r.from) = j
    BY <1>3, <1>4, <1>7
  <2>2. ls[j - r.from] = text.lines[j] /\ j - r.from \in DOMAIN ls
    BY <1>5, <2>1
  <2> HIDE DEF c
  <2> QED
    BY <1>6, <1>7, <2>2
<1>8. ASSUME doc.type = "python" PROVE Located(c)
  <2>1. Plain(s) /\ Follows(text.lines, start)
    BY <1>1, <1>2, <1>8 DEF Plain, s
  <2>2. HasText(ls)
    <3>1. PICK j \in r.from + 1 .. r.to : ~text.lines[j].blank
      BY <1>3 DEF AllBlank
    <3>2. j - r.from \in 1 .. r.to - r.from /\ r.from + (j - r.from) = j
      BY <1>3, <3>1
    <3> QED
      BY <1>5, <3>1, <3>2 DEF HasText
  <2>3. Follows(ls, r.start)
    <3>1. ASSUME NEW j \in DOMAIN ls
          PROVE  /\ r.start + j - 1 \in DOMAIN doc.lines
                 /\ ls[j].no = r.start + j - 1 /\ ls[j].blank = doc.lines[r.start + j - 1].blank
      <4>0. j \in 1 .. r.to - r.from
        BY <1>5
      <4>a. /\ r.from \in Nat /\ r.to \in Nat /\ r.to <= N /\ N \in Nat
            /\ start \in Nat /\ r.start = start + r.from
        BY <1>3, <1>4
      <4>b. r.from + j \in 1 .. N
        BY <4>0, <4>a
      <4>1. r.from + j \in DOMAIN text.lines /\ start + (r.from + j) - 1 = r.start + j - 1
        BY <1>4, <4>0, <4>a, <4>b
      <4>2. ls[j] = text.lines[r.from + j]
        BY <1>5
      <4>3. /\ start + (r.from + j) - 1 \in DOMAIN doc.lines
            /\ text.lines[r.from + j].no = start + (r.from + j) - 1
            /\ text.lines[r.from + j].blank = doc.lines[start + (r.from + j) - 1].blank
        BY <2>1, <4>1 DEF Follows
      <4> QED
        BY <4>1, <4>2, <4>3
    <3> QED
      BY <3>1 DEF Follows
  <2> DEFINE first == r.start
             last == r.end
             n == r.part
             d == MakeChunk(s, ls, first, last, n)
  <2>4. ls \in Seq(Lines) /\ first \in Nat /\ last \in Nat /\ n \in Nat /\ Follows(ls, first)
    BY <1>3, <1>5, <2>3
  <2> HIDE DEF first, last, n
  <2>5. Located(d)
    BY <1>2, <2>1, <2>2, <2>4, PlainIsLocated
  <2> QED
    BY <2>5 DEF first, last, n
<1> HIDE DEF c
<1>9. /\ c \in ChunkRecords /\ c.prefix = Numbers(s.prefix)
      /\ \A j \in DOMAIN text.lines : r.from < j /\ j <= r.to /\ ~text.lines[j].blank
                                      => text.lines[j].no \in c.lines
      /\ doc.type = "python" => Located(c)
  BY <1>4, <1>6, <1>7, <1>8
<1> QED
  BY <1>9 DEF c, ls, s, r

LEMMA CollectKeeps == ASSUME ChunkInv, Collect PROVE ChunkInv'
<1> DEFINE s == Head(sections)
           Of(k) == MakeChunk(s, SubSeq(text.lines, ranges[k].from + 1, ranges[k].to),
                              ranges[k].start, ranges[k].end, ranges[k].part)
           made == [k \in DOMAIN ranges |-> Of(k)]
<1>1. /\ doc \in Documents /\ doc' = doc /\ phase = "split" /\ returned /\ Working /\ Splitting /\ Add(made)
  BY DEF ChunkInv, Collect
<1>2. /\ sections # <<>> /\ text = s.text /\ WindowsTypeOK /\ WindowsCover /\ ranges \in Seq(TextRanges)
  BY <1>1 DEF Splitting, WindowInv, WindowsTypeOK
<1>3. ASSUME NEW k \in DOMAIN ranges
      PROVE  /\ Of(k) \in ChunkRecords /\ Of(k).prefix = Numbers(s.prefix)
             /\ \A j \in DOMAIN text.lines : ranges[k].from < j /\ j <= ranges[k].to /\ ~text.lines[j].blank
                                             => text.lines[j].no \in Of(k).lines
             /\ doc.type = "python" => Located(Of(k))
  BY <1>1, RangeChunkIs
<1> HIDE DEF s, Of
<1>4. /\ made \in Seq(ChunkRecords) /\ DOMAIN made = DOMAIN ranges
      /\ \A k \in DOMAIN ranges : made[k] = Of(k)
  BY <1>2, <1>3
<1> HIDE DEF made
<1>5. doc.type = "python" => \A k \in DOMAIN made : Located(made[k])
  BY <1>3, <1>4
<1>6. ASSUME NEW j \in DOMAIN text.lines, ~text.lines[j].blank
      PROVE  \E k \in DOMAIN ranges : text.lines[j].no \in made[k].lines /\ made[k].prefix = Numbers(s.prefix)
  <2>1. j \in 1 .. N
    BY <1>2 DEF WindowsTypeOK, N
  <2>2. PICK k \in DOMAIN ranges : ranges[k].from < j /\ j <= ranges[k].to
    BY <1>1, <1>2, <1>6, <2>1 DEF WindowsCover
  <2> QED
    BY <1>3, <1>4, <1>6, <2>2
<1>7. ASSUME NEW i, Carries(s, i) PROVE Has(made, i)
  <2>1. CASE Shows(s.text, i)
    <3>1. PICK j \in DOMAIN text.lines : text.lines[j].no = i /\ ~text.lines[j].blank
      BY <1>2, <2>1 DEF Shows
    <3> QED
      BY <1>4, <1>6, <3>1 DEF Has
  <2>2. CASE i \in Numbers(s.prefix) /\ \E j \in DOMAIN s.text.lines : ~s.text.lines[j].blank
    <3>1. PICK j \in DOMAIN text.lines : ~text.lines[j].blank
      BY <1>2, <2>2
    <3> QED
      BY <1>4, <1>6, <2>2, <3>1 DEF Has
  <2> QED
    BY <1>7, <2>1, <2>2 DEF Carries
<1>8. CASE phase' = "failed"
  BY <1>1, <1>8 DEF ChunkInv, NothingLost
<1>9. CASE chunks' = chunks \o made /\ sections' = Tail(sections) /\ phase' = "next"
  <2>1. Working'
    BY <1>1, <1>2, <1>4, <1>5, <1>7, <1>9, AddHolds DEF s
  <2> QED
    BY <1>1, <1>9, <2>1 DEF ChunkInv, NothingLost
<1> QED
  BY <1>1, <1>8, <1>9 DEF Add

LEMMA ChunkBegins == ChunkInit => ChunkInv
BY DEF ChunkInit, ChunkInv, NothingLost

LEMMA ChunkStep == ChunkInv /\ [ChunkNext]_chunkVars => ChunkInv'
<1> SUFFICES ASSUME ChunkInv, [ChunkNext]_chunkVars PROVE ChunkInv'
  OBVIOUS
<1>1. CASE Scan
  BY <1>1, ScanKeeps
<1>2. CASE TakeWhole
  BY <1>2, TakeWholeKeeps
<1>3. CASE CallSplit
  BY <1>3, CallSplitKeeps
<1>4. CASE SplitStep
  BY <1>4, SplitStepKeeps
<1>5. CASE Collect
  BY <1>5, CollectKeeps
<1>6. CASE Finish
  BY <1>6, FinishKeeps
<1>7. CASE UNCHANGED chunkVars
  <2>1. /\ doc' = doc /\ sections' = sections /\ chunks' = chunks /\ phase' = phase
        /\ UNCHANGED windowVars
    BY <1>7 DEF chunkVars
  <2>2. Indexed' = Indexed /\ (\A p : Plain(p)' <=> Plain(p)) /\ \A c : Located(c)' <=> Located(c)
    BY <2>1, SameDocument, SamePlain
  <2>3. Working' <=> Working
    BY <2>1, <2>2 DEF Working
  <2>4. WindowInv' <=> WindowInv
    BY <2>1 DEF windowVars, WindowInv, WindowsTypeOK, WindowsAdvance, WindowsCover, Behind, N
  <2>5. RangesShow' <=> RangesShow
    BY <2>1 DEF windowVars, RangesShow, AllBlank
  <2>6. Splitting' <=> Splitting
    BY <2>1, <2>4, <2>5 DEF windowVars, Splitting
  <2>7. NothingLost' <=> NothingLost
    BY <2>1, <2>2 DEF NothingLost
  <2> QED
    BY <2>1, <2>3, <2>6, <2>7 DEF ChunkInv
<1> QED
  BY <1>1, <1>2, <1>3, <1>4, <1>5, <1>6, <1>7 DEF ChunkNext

LEMMA ChunkKept == ChunkSpec => []ChunkInv
BY ChunkBegins, ChunkStep, PTL DEF ChunkSpec

\* For any document: whatever its kind and however long its lines, sections and
\* statements, each line that is indexed is in a chunk when chunking is done.
THEOREM NothingIsLost == ChunkSpec => []NothingLost
<1>1. ChunkInv => NothingLost
  BY DEF ChunkInv
<1> QED
  BY <1>1, ChunkKept, PTL

-----------------------------------------------------------------------------
(* No two chunks have the same id.                                         *)

\* A section is named after its start or not at all; all it claims comes before
\* line n, where another one may start.
OwnName(s) == s.symbol \in {None, s.start} /\ (s.whole # None => s.whole >= s.start)
Ends(s, n) ==
    /\ s.start < n
    /\ s.symbol = None => s.whole = None /\ ~s.text.nl /\ s.start + Len(s.text.lines) <= n
Follow(q) == \A j, k \in DOMAIN q : j < k => Ends(q[j], q[k].start)
Ordered(q) == (\A k \in DOMAIN q : OwnName(q[k])) /\ Follow(q)

LEMMA EndsLater ==
    ASSUME NEW s \in ChunkSections, NEW n \in Nat, NEW m \in Nat, n <= m, Ends(s, n)
    PROVE  Ends(s, m)
<1>1. s.start \in Nat /\ Len(s.text.lines) \in Nat
  <2>1. s.text.lines \in Seq(Lines)
    BY TextsAre DEF ChunkSections
  <2> QED
    BY <2>1 DEF ChunkSections
<1> QED
  BY <1>1 DEF Ends

LEMMA StrippedShorter ==
    ASSUME NEW ls \in Seq(Lines)
    PROVE  Stripped(ls).nl = FALSE /\ Len(Stripped(ls).lines) \in Nat /\ Len(Stripped(ls).lines) <= Len(ls)
<1>1. Len(ls) \in Nat /\ DOMAIN ls = 1 .. Len(ls)
  OBVIOUS
<1>2. CASE \A j \in DOMAIN ls : ls[j].blank
  <2>1. Stripped(ls).lines = <<>> /\ Stripped(ls).nl = FALSE
    BY <1>2, StrippedIs
  <2>2. Len(<<>>) = 0
    OBVIOUS
  <2> QED
    BY <1>1, <2>1, <2>2
<1>3. CASE \E j \in DOMAIN ls : ~ls[j].blank
  <2>1. PICK lo \in DOMAIN ls, hi \in DOMAIN ls : lo <= hi /\ Stripped(ls).lines = SubSeq(ls, lo, hi)
    BY <1>3, StrippedIs
  <2>2. lo \in 1 .. Len(ls) + 1 /\ hi \in lo - 1 .. Len(ls) /\ hi - lo + 1 \in 0 .. Len(ls)
    BY <1>1, <2>1
  <2>3. Len(SubSeq(ls, lo, hi)) = hi - lo + 1
    BY <2>2, SubSeqIs
  <2>4. Stripped(ls).nl = FALSE
    BY StrippedIs
  <2> QED
    BY <1>1, <2>1, <2>2, <2>3, <2>4
<1> QED
  BY <1>2, <1>3

\* A section made of the text from one line to another ends there.
LEMMA PieceEnds ==
    ASSUME doc \in Documents, NEW from \in 1 .. Len(doc.lines) + 1, NEW to \in from - 1 .. Len(doc.lines),
           NEW s, s.text = Stripped(Between(from, to)), s.start = from, s.symbol = None, s.whole = None,
           from <= to
    PROVE  Ends(s, to + 1)
<1> DEFINE ls == Between(from, to)
<1>1. ls \in Seq(Lines) /\ Len(ls) = to - from + 1 /\ Len(doc.lines) \in Nat
  BY BetweenIs, DocIs
<1> HIDE DEF ls
<1>2. Stripped(ls).nl = FALSE /\ Len(Stripped(ls).lines) \in Nat /\ Len(Stripped(ls).lines) <= Len(ls)
  BY <1>1, StrippedShorter
<1>3. s.text = Stripped(ls)
  BY DEF ls
<1> QED
  BY <1>1, <1>2, <1>3 DEF Ends

LEMMA OneOrdered ==
    ASSUME NEW s, OwnName(s)
    PROVE  Ordered(<<s>>)
<1>1. DOMAIN <<s>> = {1} /\ <<s>>[1] = s
  OBVIOUS
<1> DEFINE q == <<s>>
<1> HIDE DEF q
<1>2. Ordered(q)
  BY <1>1 DEF Ordered, Follow, q
<1> QED
  BY <1>2 DEF q

LEMMA OrderedJoin ==
    ASSUME NEW a \in Seq(ChunkSections), NEW b \in Seq(ChunkSections), Ordered(a), Ordered(b),
           \A j \in DOMAIN a, k \in DOMAIN b : Ends(a[j], b[k].start)
    PROVE  Ordered(a \o b)
<1> DEFINE q == a \o b
<1>1. /\ DOMAIN q = 1 .. Len(a) + Len(b) /\ Len(a) \in Nat /\ Len(b) \in Nat
      /\ DOMAIN a = 1 .. Len(a) /\ DOMAIN b = 1 .. Len(b)
      /\ \A k \in 1 .. Len(a) : q[k] = a[k]
      /\ \A k \in 1 .. Len(b) : q[Len(a) + k] = b[k]
  BY Joined
<1> HIDE DEF q
<1>2. \A k \in DOMAIN q : (k \in DOMAIN a /\ q[k] = a[k]) \/ (k > Len(a) /\ k - Len(a) \in DOMAIN b /\ q[k] = b[k - Len(a)])
  <2> TAKE k \in DOMAIN q
  <2>1. k \in 1 .. Len(a) \/ (k > Len(a) /\ k - Len(a) \in 1 .. Len(b) /\ Len(a) + (k - Len(a)) = k)
    BY <1>1
  <2> QED
    BY <1>1, <2>1
<1>3. (\A k \in DOMAIN a : OwnName(a[k])) /\ (\A k \in DOMAIN b : OwnName(b[k])) /\ Follow(a) /\ Follow(b)
  BY DEF Ordered
<1>4. \A k \in DOMAIN q : OwnName(q[k])
  BY <1>2, <1>3
<1>5. ASSUME NEW j \in DOMAIN q, NEW k \in DOMAIN q, j < k PROVE Ends(q[j], q[k].start)
  <2>1. CASE k \in DOMAIN a
    <3>1. j \in DOMAIN a /\ q[j] = a[j] /\ q[k] = a[k]
      BY <1>1, <1>5, <2>1
    <3> QED
      BY <1>3, <1>5, <2>1, <3>1 DEF Follow
  <2>2. CASE k \notin DOMAIN a /\ j \in DOMAIN a
    <3>1. q[j] = a[j] /\ k - Len(a) \in DOMAIN b /\ q[k] = b[k - Len(a)]
      BY <1>1, <1>2, <2>2
    <3> QED
      BY <2>2, <3>1
  <2>3. CASE k \notin DOMAIN a /\ j \notin DOMAIN a
    <3>1. /\ j - Len(a) \in DOMAIN b /\ q[j] = b[j - Len(a)]
          /\ k - Len(a) \in DOMAIN b /\ q[k] = b[k - Len(a)]
      BY <1>2, <2>3
    <3>2. j - Len(a) < k - Len(a)
      BY <1>1, <1>5
    <3> QED
      BY <1>3, <3>1, <3>2 DEF Follow
  <2> QED
    BY <2>1, <2>2, <2>3
<1>6. Ordered(q)
  BY <1>4, <1>5 DEF Ordered, Follow
<1> QED
  BY <1>6 DEF q

LEMMA UndividedOrdered ==
    ASSUME NEW t, NEW max, NEW lap
    PROVE  Ordered(<<Section(t, 1, max, lap)>>)
<1> DEFINE s == Section(t, 1, max, lap)
<1>1. s.symbol = None /\ s.whole = None
  BY DEF Section
<1> HIDE DEF s
<1>2. OwnName(s)
  BY <1>1 DEF OwnName
<1> QED
  BY <1>2, OneOrdered DEF s

\* The start of a section after another comes no earlier than the cut after it.
LEMMA LaterCut ==
    ASSUME NEW n \in Nat, NEW q, Rises(q, n), NEW j \in DOMAIN q, NEW k \in DOMAIN q, j < k
    PROVE  NextCut(q, j, n) \in Nat /\ q[k] \in Nat /\ NextCut(q, j, n) <= q[k] /\ q[j] < q[k]
<1>1. Len(q) \in Nat /\ DOMAIN q = 1 .. Len(q) /\ \A i \in 1 .. Len(q) : q[i] \in 1 .. n
  BY DEF Rises
<1>2. j < Len(q) /\ j + 1 \in DOMAIN q /\ (j + 1 = k \/ j + 1 < k)
  BY <1>1
<1>3. q[j + 1] <= q[k] /\ q[j] < q[k]
  <2>1. j + 1 < k => q[j + 1] < q[k]
    BY <1>2 DEF Rises
  <2>2. q[j] < q[k]
    BY DEF Rises
  <2>3. q[j + 1] \in Nat /\ q[k] \in Nat
    BY <1>1, <1>2
  <2> QED
    BY <1>2, <2>1, <2>2, <2>3
<1> QED
  BY <1>1, <1>2, <1>3 DEF NextCut

LEMMA HeadingSectionIs ==
    ASSUME doc \in Documents, NEW k \in DOMAIN Headings
    PROVE  /\ HeadingSection(k) \in ChunkSections
           /\ HeadingSection(k).start = Headings[k] /\ OwnName(HeadingSection(k))
           /\ Ends(HeadingSection(k), NextCut(Headings, k, Len(doc.lines)))
<1>0. PICK n \in Nat : n = Len(doc.lines)
  BY DocIs
<1>R. Rises(Headings, n)
  BY <1>0, HeadingsAre
<1> DEFINE to == NextCut(Headings, k, n) - 1
           t == Stripped(Between(Headings[k], to))
           s == Section(t, Headings[k], DocMax, 3)
           it == [s EXCEPT !.path = HeadingStack[k]]
<1>1. Headings[k] \in 1 .. n + 1 /\ to \in Headings[k] - 1 .. n /\ Headings[k] <= to /\ to + 1 = NextCut(Headings, k, n)
  <2>1. /\ Headings[k] \in 1 .. n + 1 /\ NextCut(Headings, k, n) - 1 \in Headings[k] - 1 .. n
        /\ NextCut(Headings, k, n) \in Nat
    BY <1>R, CutsAre
  <2>2. Len(Headings) \in Nat /\ DOMAIN Headings = 1 .. Len(Headings) /\ Headings[k] \in 1 .. n
    BY <1>R DEF Rises
  <2>3. CASE k < Len(Headings)
    <3>1. k + 1 \in DOMAIN Headings /\ k < k + 1
      BY <2>2, <2>3
    <3>2. Headings[k] < Headings[k + 1]
      BY <1>R, <3>1 DEF Rises
    <3> QED
      BY <2>1, <2>3, <3>2 DEF NextCut
  <2>4. CASE ~(k < Len(Headings))
    BY <2>1, <2>2, <2>4 DEF NextCut
  <2> QED
    BY <2>1, <2>3, <2>4
<1>2. HeadingSection(k) = it
  BY <1>0 DEF HeadingSection, NextCut
<1>2a. it \in ChunkSections
  <2>1. Between(Headings[k], to) \in Seq(Lines) /\ Headings[k] \in Nat \ {0}
    BY <1>0, <1>1, BetweenIs
  <2> HIDE DEF to
  <2>2. t \in Texts
    BY <2>1, StrippedTyped DEF Texts
  <2> HIDE DEF t
  <2>3. s \in ChunkSections
    BY <2>1, <2>2, SectionTyped, BudgetAssumption
  <2>4. HeadingStack[k] \in Seq(Nat)
    <3>1. k \in 0 .. Len(Headings)
      BY <1>R DEF Rises
    <3> QED
      BY <3>1, HeadingStackIs
  <2> HIDE DEF s
  <2> QED
    BY <2>3, <2>4, WithPath
<1> HIDE DEF t, to
<1>3. it.text = t /\ it.start = Headings[k] /\ it.symbol = None /\ it.whole = None
  BY DEF Section
<1> HIDE DEF it
<1>4. Ends(it, to + 1)
  BY <1>0, <1>1, <1>3, PieceEnds DEF t
<1>5. OwnName(it)
  BY <1>3 DEF OwnName
<1> QED
  BY <1>0, <1>1, <1>2, <1>2a, <1>3, <1>4, <1>5

LEMMA MarkdownOrdered ==
    ASSUME doc \in Documents
    PROVE  Ordered(MarkdownSections)
<1>1. CASE Headings = <<>>
  <2>1. MarkdownSections = <<Section(Whole(doc.lines), 1, DocMax, 3)>>
    BY <1>1 DEF MarkdownSections
  <2> QED
    BY <2>1, UndividedOrdered
<1>2. CASE Headings # <<>>
  <2>0. PICK n \in Nat : n = Len(doc.lines)
    BY DocIs
  <2>R. Rises(Headings, n)
    BY <2>0, HeadingsAre
  <2>1. /\ DOMAIN Headings = 1 .. Len(Headings) /\ Len(Headings) \in Nat \ {0}
        /\ \A k \in DOMAIN Headings : Headings[k] \in 1 .. n
    BY <1>2, <2>R DEF Rises
  <2> DEFINE under == [k \in DOMAIN Headings |-> HeadingSection(k)]
  <2>2. /\ under \in Seq(ChunkSections) /\ DOMAIN under = DOMAIN Headings /\ Len(under) = Len(Headings)
        /\ \A k \in DOMAIN Headings : under[k] = HeadingSection(k)
    <3>1. \A k \in DOMAIN Headings : HeadingSection(k) \in ChunkSections
      BY HeadingSectionIs
    <3> QED
      BY <2>1, <3>1
  <2> HIDE DEF under
  <2>3. Ordered(under)
    <3>1. ASSUME NEW j \in DOMAIN under, NEW k \in DOMAIN under, j < k
          PROVE  Ends(under[j], under[k].start)
      <4>1. /\ NextCut(Headings, j, n) \in Nat /\ Headings[k] \in Nat /\ NextCut(Headings, j, n) <= Headings[k]
        BY <2>2, <2>R, <3>1, LaterCut
      <4>2. under[k].start = Headings[k] /\ Ends(under[j], NextCut(Headings, j, n)) /\ under[j] \in ChunkSections
        BY <2>0, <2>2, HeadingSectionIs
      <4> QED
        BY <4>1, <4>2, EndsLater
    <3>2. \A k \in DOMAIN under : OwnName(under[k])
      BY <2>2, HeadingSectionIs
    <3> QED
      BY <3>1, <3>2 DEF Ordered, Follow
  <2>4. MarkdownSections = Intro \o under
    BY <1>2 DEF MarkdownSections, under
  <2> DEFINE t == Stripped(Between(1, Headings[1] - 1))
             s == Section(t, 1, DocMax, 3)
  <2>5. Intro = IF t.lines = <<>> THEN <<>> ELSE <<s>>
    BY DEF Intro
  <2>6. Headings[1] \in 1 .. n
    BY <2>1
  <2>7. CASE t.lines = <<>>
    <3>1. MarkdownSections = under
      <4> HIDE DEF t
      <4>1. MarkdownSections = <<>> \o under
        BY <2>4, <2>5, <2>7
      <4> QED
        BY <2>2, <4>1
    <3> QED
      BY <2>3, <3>1
  <2>8. CASE t.lines # <<>>
    <3>1. Headings[1] # 1
      <4> SUFFICES ASSUME Headings[1] = 1 PROVE t.lines = <<>>
        BY <2>8
      <4>1. 1 \in 1 .. n + 1 /\ 0 \in 1 - 1 .. n
        OBVIOUS
      <4> DEFINE ls == Between(1, 0)
      <4>2. ls \in Seq(Lines) /\ DOMAIN ls = 1 .. 0 - 1 + 1
        BY <2>0, <4>1, BetweenIs
      <4>3. t = Stripped(ls)
        <5>1. Headings[1] - 1 = 0
          OBVIOUS
        <5> QED
          BY <5>1
      <4> HIDE DEF ls, t
      <4>4. \A j \in DOMAIN ls : ls[j].blank
        <5>1. 1 .. 0 - 1 + 1 = {}
          OBVIOUS
        <5> QED
          BY <4>2, <5>1
      <4> QED
        BY <4>2, <4>3, <4>4, StrippedIs
    <3>2. s.text = t /\ s.start = 1 /\ s.symbol = None /\ s.whole = None
      BY DEF Section
    <3>3. s \in ChunkSections
      <4>1. Between(1, Headings[1] - 1) \in Seq(Lines)
        <5>1. 1 \in 1 .. n + 1 /\ Headings[1] - 1 \in 1 - 1 .. n
          BY <2>6
        <5> QED
          BY <2>0, <5>1, BetweenIs
      <4>2. t \in Texts
        BY <4>1, StrippedTyped DEF Texts
      <4> HIDE DEF t
      <4> QED
        BY <4>2, SectionTyped, BudgetAssumption
    <3> HIDE DEF s
    <3>4. Ends(s, Headings[1]) /\ OwnName(s)
      <4>1. /\ 1 \in 1 .. n + 1 /\ Headings[1] - 1 \in 1 - 1 .. n /\ 1 <= Headings[1] - 1
            /\ Headings[1] - 1 + 1 = Headings[1]
        BY <2>6, <3>1
      <4>2. Ends(s, Headings[1] - 1 + 1)
        BY <2>0, <3>2, <4>1, PieceEnds
      <4> QED
        BY <3>2, <4>1, <4>2 DEF OwnName
    <3>5. MarkdownSections = <<s>> \o under
      <4> HIDE DEF t
      <4> QED
        BY <2>4, <2>5, <2>8
    <3>6. ASSUME NEW k \in DOMAIN under PROVE Ends(s, under[k].start)
      <4>1. under[k].start = Headings[k] /\ Headings[1] \in Nat /\ Headings[k] \in Nat /\ 1 \in DOMAIN Headings
        BY <2>1, <2>2, HeadingSectionIs
      <4>2. Headings[1] <= Headings[k]
        <5>1. k = 1 \/ 1 < k
          BY <2>1, <2>2
        <5>2. 1 < k => Headings[1] < Headings[k]
          BY <2>2, <2>R, <4>1 DEF Rises
        <5> QED
          BY <4>1, <5>1, <5>2
      <4> QED
        BY <3>3, <3>4, <4>1, <4>2, EndsLater
    <3>7. Ordered(<<s>> \o under)
      <4> DEFINE one == <<s>>
      <4>1. one \in Seq(ChunkSections) /\ DOMAIN one = {1} /\ one[1] = s /\ Ordered(one)
        BY <3>3, <3>4, OneOrdered
      <4> HIDE DEF one
      <4>2. Ordered(one \o under)
        BY <2>2, <2>3, <3>6, <4>1, OrderedJoin
      <4> QED
        BY <4>2 DEF one
    <3> QED
      BY <3>5, <3>7
  <2> QED
    BY <2>7, <2>8
<1> QED
  BY <1>1, <1>2

LEMMA YamlOrdered ==
    ASSUME doc \in Documents
    PROVE  Ordered(YamlSections)
<1>1. CASE Keys = <<>>
  <2>1. YamlSections = <<Section(Whole(doc.lines), 1, StructMax, 2)>>
    BY <1>1 DEF YamlSections, Blocks
  <2> QED
    BY <2>1, UndividedOrdered
<1>2. CASE Keys # <<>>
  <2>0. PICK n \in Nat : n = Len(doc.lines)
    BY DocIs
  <2>R. Rises(Keys, n)
    BY <2>0, KeysAre
  <2>1. ASSUME NEW k \in DOMAIN Keys
        PROVE  /\ YamlSection(k).start = Keys[k] /\ YamlSection(k).symbol = Keys[k]
               /\ YamlSection(k).whole = None /\ Keys[k] \in Nat \ {0}
    <3>1. Keys[k] \in Nat \ {0}
      BY <2>R DEF Rises
    <3> QED
      BY <3>1 DEF YamlSection, Section
  <2> DEFINE all == [k \in DOMAIN Keys |-> YamlSection(k)]
  <2>2. YamlSections = all
    BY <1>2 DEF YamlSections
  <2>3. DOMAIN all = DOMAIN Keys /\ \A k \in DOMAIN Keys : all[k] = YamlSection(k)
    OBVIOUS
  <2> HIDE DEF all
  <2>4. ASSUME NEW j \in DOMAIN all, NEW k \in DOMAIN all, j < k PROVE Ends(all[j], all[k].start)
    <3>1. Keys[j] < Keys[k]
      BY <2>3, <2>4, <2>R DEF Rises
    <3>2. all[j].start = Keys[j] /\ all[j].symbol # None /\ all[k].start = Keys[k]
      BY <2>1, <2>3 DEF None
    <3> QED
      BY <3>1, <3>2 DEF Ends
  <2>5. \A k \in DOMAIN all : OwnName(all[k])
    BY <2>1, <2>3 DEF OwnName
  <2> QED
    BY <2>2, <2>4, <2>5 DEF Ordered, Follow
<1> QED
  BY <1>1, <1>2

\* What the scan of a Turtle file has found is ordered, and ends before the
\* statement under way, or the next line.
NextStart(scan, k) == IF scan.statement = <<>> THEN k + 1 ELSE scan.statement[1].no
ScanOrdered(scan, k) ==
    /\ scan.statement # <<>> => scan.statement[1].no \in 1 .. k /\ scan.statement[1].no + Len(scan.statement) <= k + 1
    /\ Ordered(scan.found)
    /\ \A q \in DOMAIN scan.found : Ends(scan.found[q], NextStart(scan, k))

LEMMA NextStartIs ==
    ASSUME NEW scan \in ScanStates, NEW k \in Nat, ScanOrdered(scan, k)
    PROVE  NextStart(scan, k) \in Nat /\ NextStart(scan, k) <= k + 1
BY DEF NextStart, ScanOrdered

LEMMA AppendOrdered ==
    ASSUME NEW a \in Seq(ChunkSections), NEW s \in ChunkSections, Ordered(a), OwnName(s),
           \A j \in DOMAIN a : Ends(a[j], s.start)
    PROVE  Ordered(Append(a, s))
<1> DEFINE one == <<s>>
<1>1. one \in Seq(ChunkSections) /\ DOMAIN one = {1} /\ one[1] = s /\ Ordered(one)
  BY OneOrdered
<1>2. Append(a, s) = a \o one
  OBVIOUS
<1> HIDE DEF one
<1>3. Ordered(a \o one)
  BY <1>1, OrderedJoin
<1> QED
  BY <1>2, <1>3

LEMMA OrderedStep ==
    ASSUME doc \in Documents, NEW k \in DOMAIN doc.lines, NEW scan \in ScanStates, ScanOrdered(scan, k - 1)
    PROVE  ScanOrdered(ScanTurtle(scan, doc.lines[k]), k)
<1> DEFINE l == doc.lines[k]
           new == ScanTurtle(scan, l)
           longer == Append(scan.statement, l)
<1>1. l \in Lines /\ l.no = k /\ k \in Nat \ {0} /\ k - 1 \in Nat
  BY DocIs
<1>2. new \in ScanStates /\ scan.statement \in Seq(Lines) /\ scan.found \in Seq(ChunkSections)
  <2> HIDE DEF l
  <2> QED
    BY <1>1, ScanTurtleIs, ScanFields
<1>3. /\ scan.statement # <<>> =>
            scan.statement[1].no \in 1 .. k - 1 /\ scan.statement[1].no + Len(scan.statement) <= k
      /\ Ordered(scan.found)
      /\ \A q \in DOMAIN scan.found : Ends(scan.found[q], NextStart(scan, k - 1))
  BY <1>1 DEF ScanOrdered
<1>4. \A q \in DOMAIN scan.found : scan.found[q] \in ChunkSections
  BY <1>2
<1>5. NextStart(scan, k - 1) \in Nat /\ NextStart(scan, k - 1) <= k
  <2>1. NextStart(scan, k - 1) \in Nat /\ NextStart(scan, k - 1) <= k - 1 + 1
    BY <1>1, NextStartIs
  <2> QED
    BY <1>1, <2>1
<1>6. /\ longer \in Seq(Lines) /\ longer # <<>> /\ Len(longer) = Len(scan.statement) + 1
      /\ longer[1] = IF scan.statement = <<>> THEN l ELSE scan.statement[1]
  <2> DEFINE st == scan.statement
  <2>1. st \in Seq(Lines)
    BY <1>2
  <2> HIDE DEF st, l
  <2>2. /\ Append(st, l) \in Seq(Lines) /\ Append(st, l) # <<>> /\ Len(Append(st, l)) = Len(st) + 1
        /\ st = <<>> => Append(st, l)[1] = l
    BY <1>1, <2>1
  <2>3. st # <<>> => Append(st, l)[1] = st[1]
    <3>1. st # <<>> => 1 \in DOMAIN st
      BY <2>1
    <3> QED
      BY <1>1, <2>1, <3>1, AppendIs
  <2> QED
    BY <2>2, <2>3 DEF st
<1>7. /\ longer[1].no = NextStart(scan, k - 1) /\ longer[1].no \in 1 .. k
      /\ longer[1].no + Len(longer) <= k + 1
  <2>1. CASE scan.statement = <<>>
    <3>1. Len(scan.statement) = 0 /\ longer[1] = l
      BY <1>6, <2>1
    <3> HIDE DEF longer, l
    <3> QED
      BY <1>1, <1>6, <2>1, <3>1 DEF NextStart
  <2>2. CASE scan.statement # <<>>
    <3>1. longer[1] = scan.statement[1] /\ Len(scan.statement) \in Nat
      BY <1>2, <1>6, <2>2
    <3> HIDE DEF longer, l
    <3> QED
      BY <1>1, <1>3, <1>6, <2>2, <3>1 DEF NextStart
  <2> QED
    BY <2>1, <2>2
<1> HIDE DEF longer, new, l
<1>8. CASE new.statement = scan.statement /\ new.found = scan.found
  <2>1. NextStart(new, k) \in Nat /\ NextStart(scan, k - 1) <= NextStart(new, k)
    <3>1. CASE scan.statement = <<>>
      BY <1>1, <1>5, <1>8, <3>1 DEF NextStart
    <3>2. CASE scan.statement # <<>>
      BY <1>3, <1>5, <1>8, <3>2 DEF NextStart
    <3> QED
      BY <3>1, <3>2
  <2>2. \A q \in DOMAIN new.found : Ends(new.found[q], NextStart(new, k))
    BY <1>3, <1>4, <1>5, <1>8, <2>1, EndsLater
  <2>3. new.statement # <<>> => new.statement[1].no \in 1 .. k /\ new.statement[1].no + Len(new.statement) <= k + 1
    <3>1. Len(scan.statement) \in Nat
      BY <1>2
    <3> QED
      BY <1>1, <1>3, <1>8, <3>1
  <2> QED
    BY <1>3, <1>8, <2>2, <2>3 DEF ScanOrdered, new, l
<1>9. CASE new.statement = longer /\ new.found = scan.found
  <2>1. NextStart(new, k) = longer[1].no
    BY <1>6, <1>9 DEF NextStart
  <2>2. ScanOrdered(new, k)
    BY <1>3, <1>7, <1>9, <2>1 DEF ScanOrdered
  <2> QED
    BY <2>2 DEF new, l
<1>10. CASE /\ new.statement = <<>>
            /\ \E s \in ChunkSections :
                 /\ s.text = Stripped(longer) /\ Named(s, longer[1].no, k)
                 /\ new.found = Append(scan.found, s)
  <2>1. PICK s \in ChunkSections :
          /\ s.text = Stripped(longer) /\ Named(s, longer[1].no, k)
          /\ new.found = Append(scan.found, s)
    BY <1>10
  <2>2. s.start = longer[1].no /\ ((s.symbol = None /\ s.whole = None) \/ (s.symbol = s.start /\ s.whole = k))
    BY <2>1 DEF Named
  <2>3. OwnName(s)
    BY <1>7, <2>2 DEF OwnName
  <2>4. Ends(s, k + 1)
    <3>1. Stripped(longer).nl = FALSE /\ Len(Stripped(longer).lines) \in Nat /\ Len(Stripped(longer).lines) <= Len(longer)
      BY <1>6, StrippedShorter
    <3>2. Len(longer) \in Nat
      BY <1>6
    <3>3. s.start < k + 1 /\ s.start + Len(s.text.lines) <= k + 1
      BY <1>1, <1>7, <2>1, <2>2, <3>1, <3>2
    <3>4. s.symbol = None => s.whole = None
      BY <1>7, <2>2 DEF None
    <3> QED
      BY <2>1, <3>1, <3>3, <3>4 DEF Ends
  <2>5. Ordered(new.found)
    BY <1>2, <1>3, <1>7, <2>1, <2>2, <2>3, AppendOrdered
  <2>6. NextStart(new, k) = k + 1
    BY <1>10 DEF NextStart
  <2>7. /\ DOMAIN new.found = 1 .. Len(scan.found) + 1 /\ Len(scan.found) \in Nat
        /\ new.found[Len(scan.found) + 1] = s /\ DOMAIN scan.found = 1 .. Len(scan.found)
        /\ \A q \in DOMAIN scan.found : new.found[q] = scan.found[q]
    BY <1>2, <2>1, AppendIs
  <2>8. ASSUME NEW q \in DOMAIN new.found PROVE Ends(new.found[q], k + 1)
    <3>1. CASE q = Len(scan.found) + 1
      BY <2>4, <2>7, <3>1
    <3>2. CASE q # Len(scan.found) + 1
      <4>1. q \in DOMAIN scan.found /\ new.found[q] = scan.found[q]
        BY <2>7, <2>8, <3>2
      <4>2. k + 1 \in Nat /\ NextStart(scan, k - 1) <= k + 1
        BY <1>1, <1>5
      <4> QED
        BY <1>3, <1>4, <1>5, <4>1, <4>2, EndsLater
    <3> QED
      BY <3>1, <3>2
  <2>9. ScanOrdered(new, k)
    BY <1>10, <2>5, <2>6, <2>8 DEF ScanOrdered
  <2> QED
    BY <2>9 DEF new, l
<1>11. \/ new.statement = scan.statement /\ new.found = scan.found
       \/ new.statement = longer /\ new.found = scan.found
       \/ /\ new.statement = <<>>
          /\ \E s \in ChunkSections :
               /\ s.text = Stripped(longer) /\ Named(s, longer[1].no, k)
               /\ new.found = Append(scan.found, s)
  BY <1>1, ScanTurtleIs DEF new, longer
<1> QED
  BY <1>8, <1>9, <1>10, <1>11

LEMMA ScanAlwaysOrdered ==
    ASSUME doc \in Documents, NEW m \in 0 .. Len(doc.lines)
    PROVE  ScanOrdered(Scanned[m], m)
<1> DEFINE bad == {k \in 0 .. Len(doc.lines) : ~ScanOrdered(Scanned[k], k)}
<1>0. Len(doc.lines) \in Nat
  BY DocIs
<1> SUFFICES ASSUME bad # {} PROVE FALSE
  OBVIOUS
<1>1. PICK k \in bad : \A j \in bad : k <= j
  <2>1. bad \in SUBSET Nat
    BY <1>0
  <2> HIDE DEF bad
  <2> QED
    BY <2>1, Smallest
<1>2. k \in 0 .. Len(doc.lines) /\ ~ScanOrdered(Scanned[k], k)
  OBVIOUS
<1>3. CASE k = 0
  <2>1. Scanned[0].statement = <<>> /\ Scanned[0].found = <<>>
    BY ScannedIs DEF TurtleStart
  <2>2. DOMAIN <<>> = {}
    OBVIOUS
  <2>3. Ordered(<<>>)
    BY <2>2, Zenon DEF Ordered, Follow
  <2>4. ScanOrdered(Scanned[0], 0)
    BY <2>1, <2>2, <2>3 DEF ScanOrdered
  <2> QED
    BY <1>2, <1>3, <2>4
<1>4. CASE k # 0
  <2>1. k \in 1 .. Len(doc.lines) /\ k - 1 \in 0 .. Len(doc.lines) /\ ~(k <= k - 1) /\ k \in DOMAIN doc.lines
    BY <1>0, <1>2, <1>4, DocIs
  <2>2. k - 1 \notin bad
    <3> HIDE DEF bad
    <3> QED
      BY <1>1, <2>1, Zenon
  <2>3. ScanOrdered(Scanned[k - 1], k - 1)
    BY <2>1, <2>2
  <2>4. Scanned[k - 1] \in ScanStates /\ Scanned[k] = ScanTurtle(Scanned[k - 1], doc.lines[k])
    BY <2>1, ScannedIs
  <2>5. ScanOrdered(ScanTurtle(Scanned[k - 1], doc.lines[k]), k)
    <3> HIDE DEF bad
    <3> QED
      BY <2>1, <2>3, <2>4, OrderedStep
  <2> QED
    BY <1>2, <2>4, <2>5
<1> QED
  BY <1>3, <1>4

LEMMA TurtleOrdered ==
    ASSUME doc \in Documents
    PROVE  Ordered(TurtleSections)
<1>0. PICK n \in Nat : n = Len(doc.lines)
  BY DocIs
<1> DEFINE scan == Scanned[n]
           all == scan.found \o Trailing(scan)
<1>1. scan \in ScanStates /\ ScanOrdered(scan, n)
  <2>1. n \in 0 .. Len(doc.lines)
    BY <1>0
  <2> QED
    BY <1>0, <2>1, ScannedIs, ScanAlwaysOrdered
<1>2. TurtleSections = IF all = <<>> THEN Blocks ELSE all
  BY <1>0 DEF TurtleSections
<1> HIDE DEF scan
<1>3. scan.found \in Seq(ChunkSections)
  BY <1>1, ScanFields
<1>4. Ordered(Blocks)
  BY UndividedOrdered DEF Blocks
<1>5. Ordered(all)
  <2>1. CASE scan.statement = <<>>
    <3>1. Trailing(scan) = <<>>
      BY <2>1 DEF Trailing
    <3>2. all = scan.found
      BY <1>3, <3>1
    <3> QED
      BY <1>1, <3>2 DEF ScanOrdered
  <2>2. CASE scan.statement # <<>>
    <3>1. PICK s \in ChunkSections :
            /\ Trailing(scan) = <<s>>
            /\ s.start = scan.statement[1].no /\ s.symbol = None /\ s.whole = Len(doc.lines)
      BY <1>1, <2>2, TrailingIs
    <3>2. OwnName(s)
      BY <1>0, <1>1, <2>2, <3>1 DEF OwnName, ScanOrdered
    <3>3. \A j \in DOMAIN scan.found : Ends(scan.found[j], s.start)
      BY <1>1, <2>2, <3>1 DEF ScanOrdered, NextStart
    <3>4. all = Append(scan.found, s)
      BY <1>3, <3>1
    <3>5. Ordered(scan.found)
      BY <1>1 DEF ScanOrdered
    <3> HIDE DEF all
    <3> QED
      BY <1>3, <3>2, <3>3, <3>4, <3>5, AppendOrdered
  <2> QED
    BY <2>1, <2>2
<1> QED
  BY <1>2, <1>4, <1>5

LEMMA SectionsOrdered ==
    ASSUME doc \in Documents, doc.type # "python"
    PROVE  Ordered(SectionsOf)
<1>1. CASE doc.type = "markdown"
  BY <1>1, MarkdownOrdered DEF SectionsOf
<1>2. CASE doc.type = "yaml"
  BY <1>2, YamlOrdered DEF SectionsOf
<1>3. CASE doc.type = "turtle"
  BY <1>3, TurtleOrdered DEF SectionsOf
<1>4. CASE doc.type = "json"
  <2>1. SectionsOf = Blocks
    BY <1>4 DEF SectionsOf
  <2> QED
    BY <2>1, UndividedOrdered DEF Blocks
<1>5. CASE doc.type = "java"
  <2>1. SectionsOf = Undivided(CodeMax, 4)
    BY <1>5 DEF SectionsOf
  <2> QED
    BY <2>1, UndividedOrdered DEF Undivided
<1>6. CASE doc.type = "other"
  <2>1. SectionsOf = Undivided(DocMax, 3)
    BY <1>6 DEF SectionsOf
  <2> QED
    BY <2>1, UndividedOrdered DEF Undivided
<1> QED
  <2>1. doc.type \in Types
    BY DocIs
  <2> QED
    BY <1>1, <1>2, <1>3, <1>4, <1>5, <1>6, <2>1 DEF Types

\* A chunk is told from all that are made of a section that comes later.
Precedes(c, s) == IF c.symbol = None THEN c.end < s.start ELSE c.symbol < s.start
DistinctIds(cs) == \A i, j \in DOMAIN cs : i # j => ChunkId(cs[i]) # ChunkId(cs[j])

LEMMA IdsDiffer ==
    ASSUME NEW c, NEW d, c.end # d.end \/ c.symbol # d.symbol \/ c.part # d.part
    PROVE  ChunkId(c) # ChunkId(d)
BY DEF ChunkId

\* The chunks of a section: its name, its start, its parts and its end.
MadeFrom(made, s) ==
    /\ \A k \in DOMAIN made : made[k].symbol = s.symbol /\ made[k].end >= s.start
    /\ \A j, k \in DOMAIN made : j # k => made[j].part # made[k].part
    /\ \A n \in Nat, k \in DOMAIN made : Ends(s, n) /\ s.symbol = None => made[k].end < n

ToldApart ==
    /\ Ordered(sections) /\ DistinctIds(chunks)
    /\ \A k \in DOMAIN chunks, m \in DOMAIN sections : Precedes(chunks[k], sections[m])
\* The windows end where they say, but for that of a whole text with a newline.
EndsTold == ~text.nl => \A k \in DOMAIN ranges : ranges[k].end = start + ranges[k].to - 1
IdsInv ==
    /\ phase = "scan" => chunks = <<>>
    /\ phase \in {"next", "split"} /\ doc.type # "python" => ToldApart
    /\ phase = "split" => EndsTold
    /\ IdsDistinct

LEMMA AddTells ==
    ASSUME sections \in Seq(ChunkSections), chunks \in Seq(ChunkRecords), sections # <<>>, ToldApart,
           NEW made \in Seq(ChunkRecords), MadeFrom(made, Head(sections)),
           chunks' = chunks \o made, sections' = Tail(sections)
    PROVE  ToldApart'
<1> DEFINE s == Head(sections)
<1>1. /\ Len(chunks) \in Nat /\ Len(made) \in Nat
      /\ DOMAIN chunks' = 1 .. Len(chunks) + Len(made)
      /\ DOMAIN chunks = 1 .. Len(chunks) /\ DOMAIN made = 1 .. Len(made)
      /\ \A k \in 1 .. Len(chunks) : chunks'[k] = chunks[k]
      /\ \A k \in 1 .. Len(made) : chunks'[Len(chunks) + k] = made[k]
  BY Joined
<1>2. /\ Len(sections) \in Nat \ {0} /\ DOMAIN sections = 1 .. Len(sections)
      /\ DOMAIN sections' = 1 .. Len(sections) - 1 /\ s = sections[1] /\ 1 \in DOMAIN sections
      /\ \A k \in 1 .. Len(sections) - 1 : sections'[k] = sections[k + 1]
  OBVIOUS
<1>3. /\ \A k \in DOMAIN sections : OwnName(sections[k]) /\ sections[k] \in ChunkSections
      /\ \A j, k \in DOMAIN sections : j < k => Ends(sections[j], sections[k].start)
      /\ DistinctIds(chunks)
      /\ \A k \in DOMAIN chunks, m \in DOMAIN sections : Precedes(chunks[k], sections[m])
  BY DEF ToldApart, Ordered, Follow
<1>4. /\ \A k \in DOMAIN made : made[k].symbol = s.symbol /\ made[k].end >= s.start
      /\ \A j, k \in DOMAIN made : j # k => made[j].part # made[k].part
      /\ \A n \in Nat, k \in DOMAIN made : Ends(s, n) /\ s.symbol = None => made[k].end < n
  BY DEF MadeFrom
<1>5. /\ \A k \in DOMAIN chunks : chunks[k].symbol \in Nat /\ chunks[k].end \in Nat
      /\ \A k \in DOMAIN made : made[k].symbol \in Nat /\ made[k].end \in Nat
      /\ \A k \in DOMAIN sections : sections[k].start \in Nat \ {0}
  <2>1. \A c \in ChunkRecords : c.symbol \in Nat /\ c.end \in Nat
    BY DEF ChunkRecords
  <2>2. \A q \in ChunkSections : q.start \in Nat \ {0}
    BY DEF ChunkSections
  <2>3. \A k \in DOMAIN chunks : chunks[k] \in ChunkRecords
    OBVIOUS
  <2>4. \A k \in DOMAIN made : made[k] \in ChunkRecords
    OBVIOUS
  <2> QED
    BY <1>3, <2>1, <2>2, <2>3, <2>4
<1> HIDE DEF s
<1>6. \A k \in DOMAIN chunks' : \/ k \in DOMAIN chunks /\ chunks'[k] = chunks[k]
                                \/ /\ k \notin DOMAIN chunks /\ k - Len(chunks) \in DOMAIN made
                                   /\ chunks'[k] = made[k - Len(chunks)]
  <2> TAKE k \in DOMAIN chunks'
  <2>1. k \in 1 .. Len(chunks) \/ (k \notin 1 .. Len(chunks) /\ k - Len(chunks) \in 1 .. Len(made)
                                   /\ Len(chunks) + (k - Len(chunks)) = k)
    BY <1>1
  <2> QED
    BY <1>1, <2>1
<1>7. \A k \in DOMAIN sections' : k + 1 \in DOMAIN sections /\ 1 < k + 1 /\ sections'[k] = sections[k + 1]
  BY <1>2
<1>8. Ordered(sections')
  <2>1. \A k \in DOMAIN sections' : OwnName(sections'[k])
    BY <1>3, <1>7
  <2>2. ASSUME NEW j \in DOMAIN sections', NEW k \in DOMAIN sections', j < k
        PROVE  Ends(sections'[j], sections'[k].start)
    <3>1. j + 1 < k + 1
      BY <1>2, <2>2
    <3> QED
      BY <1>3, <1>7, <3>1
  <2> QED
    BY <2>1, <2>2 DEF Ordered, Follow
<1>9. ASSUME NEW k \in DOMAIN chunks, NEW j \in DOMAIN made PROVE ChunkId(chunks[k]) # ChunkId(made[j])
  <2>1. Precedes(chunks[k], s) /\ OwnName(s) /\ s.start \in Nat \ {0}
    BY <1>2, <1>3, <1>5
  <2>2. chunks[k].end # made[j].end \/ chunks[k].symbol # made[j].symbol
    BY <1>4, <1>5, <2>1 DEF Precedes, OwnName
  <2> QED
    BY <2>2, IdsDiffer
<1>10. DistinctIds(chunks')
  <2>1. ASSUME NEW i \in DOMAIN chunks', NEW j \in DOMAIN chunks', i # j
        PROVE  ChunkId(chunks'[i]) # ChunkId(chunks'[j])
    <3>1. CASE i \in DOMAIN chunks /\ j \in DOMAIN chunks
      BY <1>3, <1>6, <2>1, <3>1 DEF DistinctIds
    <3>2. CASE i \notin DOMAIN chunks /\ j \notin DOMAIN chunks
      <4>1. /\ i - Len(chunks) \in DOMAIN made /\ chunks'[i] = made[i - Len(chunks)]
            /\ j - Len(chunks) \in DOMAIN made /\ chunks'[j] = made[j - Len(chunks)]
        BY <1>6, <3>2
      <4>2. i - Len(chunks) # j - Len(chunks)
        BY <1>1, <2>1
      <4>3. made[i - Len(chunks)].part # made[j - Len(chunks)].part
        BY <1>4, <4>1, <4>2
      <4> QED
        BY <4>1, <4>3, IdsDiffer
    <3>3. CASE i \in DOMAIN chunks /\ j \notin DOMAIN chunks
      BY <1>6, <1>9, <3>3
    <3>4. CASE i \notin DOMAIN chunks /\ j \in DOMAIN chunks
      BY <1>6, <1>9, <3>4
    <3> QED
      BY <3>1, <3>2, <3>3, <3>4
  <2> QED
    BY <2>1 DEF DistinctIds
<1>11. ASSUME NEW k \in DOMAIN chunks', NEW m \in DOMAIN sections' PROVE Precedes(chunks'[k], sections'[m])
  <2>1. CASE k \in DOMAIN chunks /\ chunks'[k] = chunks[k]
    BY <1>3, <1>7, <2>1
  <2>2. CASE k - Len(chunks) \in DOMAIN made /\ chunks'[k] = made[k - Len(chunks)]
    <3>1. PICK j \in DOMAIN made : chunks'[k] = made[j]
      BY <2>2
    <3>2. PICK n \in Nat : n = sections'[m].start /\ Ends(s, n)
      <4>1. Ends(sections[1], sections[m + 1].start) /\ sections[m + 1].start \in Nat
        BY <1>2, <1>3, <1>5, <1>7
      <4> QED
        BY <1>2, <1>7, <4>1
    <3>3. s.start < n /\ OwnName(s)
      BY <1>2, <1>3, <3>2 DEF Ends
    <3>4. /\ made[j].symbol = s.symbol
          /\ s.symbol = None => made[j].end < n
      BY <1>4, <3>2
    <3> QED
      BY <3>1, <3>2, <3>3, <3>4 DEF Precedes, OwnName
  <2> QED
    BY <1>6, <2>1, <2>2
<1> QED
  BY <1>8, <1>10, <1>11 DEF ToldApart

LEMMA SplitTells ==
    ASSUME WindowInv, EndsTold, Split
    PROVE  EndsTold'
<1>1. text' = text /\ start' = start
  BY DEF Split, ReturnNothing, ReturnWhole, TakeLine, CloseWindow
<1>2. CASE ReturnNothing \/ TakeLine
  <2>1. ranges' = ranges
    BY <1>2 DEF ReturnNothing, TakeLine
  <2> QED
    BY <1>1, <2>1 DEF EndsTold
<1>3. CASE ReturnWhole
  <2> DEFINE r == TextRange(0, N, start, start + N - (IF text.nl THEN 0 ELSE 1))
  <2>1. ranges' = <<r>>
    BY <1>3 DEF ReturnWhole
  <2>2. ~text.nl => r.end = start + r.to - 1
    BY DEF TextRange
  <2> HIDE DEF r
  <2>3. DOMAIN ranges' = {1} /\ ranges'[1] = r
    BY <2>1
  <2> QED
    BY <1>1, <2>2, <2>3 DEF EndsTold
<1>4. CASE CloseWindow
  <2> DEFINE r == TextRange(cursor, end, start + cursor, start + end - 1)
  <2>1. r \in TextRanges /\ r.end = start + r.to - 1
    BY <1>4 DEF CloseWindow, WindowInv, WindowsTypeOK, TextRange, TextRanges, N
  <2>2. ranges' = IF AllBlank(cursor, end) THEN ranges ELSE Append(ranges, r)
    BY <1>4 DEF CloseWindow
  <2>3. ranges \in Seq(TextRanges)
    BY DEF WindowInv, WindowsTypeOK
  <2> HIDE DEF r
  <2>4. CASE AllBlank(cursor, end)
    BY <1>1, <2>2, <2>4 DEF EndsTold
  <2>5. CASE ~AllBlank(cursor, end)
    <3>1. /\ DOMAIN ranges' = 1 .. Len(ranges) + 1 /\ DOMAIN ranges = 1 .. Len(ranges) /\ Len(ranges) \in Nat
          /\ ranges'[Len(ranges) + 1] = r
          /\ \A k \in DOMAIN ranges : ranges'[k] = ranges[k]
      BY <2>1, <2>2, <2>3, <2>5, AppendIs
    <3>2. \A k \in DOMAIN ranges' : k \in DOMAIN ranges \/ k = Len(ranges) + 1
      BY <3>1
    <3> QED
      BY <1>1, <2>1, <3>1, <3>2 DEF EndsTold
  <2> QED
    BY <2>4, <2>5
<1> QED
  BY <1>2, <1>3, <1>4 DEF Split

\* What is left after duplicates are taken out has no two chunks of one id.
LEMMA DedupDistinct ==
    ASSUME NEW cs \in Seq(ChunkRecords), doc.type # "python" => DistinctIds(cs)
    PROVE  DistinctIds(Deduplicated(cs))
<1>1. CASE doc.type # "python"
  BY <1>1 DEF Deduplicated
<1>2. CASE doc.type = "python"
  <2> DEFINE n == Len(cs)
             S == {k \in DOMAIN cs : \A j \in 1 .. k - 1 : DedupKey(cs[j]) # DedupKey(cs[k])}
             kept == InOrder(S, n)
             left == [k \in DOMAIN kept |-> cs[kept[k]]]
  <2>1. n \in Nat /\ S \in SUBSET (1 .. n)
    OBVIOUS
  <2>2. Deduplicated(cs) = left
    BY <1>2 DEF Deduplicated
  <2>3. \A k \in S : \A j \in 1 .. k - 1 : DedupKey(cs[j]) # DedupKey(cs[k])
    OBVIOUS
  <2> HIDE DEF S
  <2>4. /\ \A k \in DOMAIN kept : kept[k] \in S
        /\ \A j, k \in DOMAIN kept : j < k => kept[j] < kept[k]
        /\ \A k \in DOMAIN kept : k \in Nat
    <3>1. kept \in Seq(1 .. n)
      <4> HIDE DEF n
      <4> QED
        BY <2>1, InOrderIs
    <3>2. \A k \in DOMAIN kept : k \in Nat
      <4> HIDE DEF kept, n
      <4> QED
        BY <3>1
    <3> HIDE DEF n
    <3> QED
      BY <2>1, <3>2, InOrderIs
  <2> HIDE DEF kept, n
  <2>5. DOMAIN left = DOMAIN kept /\ \A k \in DOMAIN kept : left[k] = cs[kept[k]]
    OBVIOUS
  <2> HIDE DEF left
  <2>6. ASSUME NEW i \in DOMAIN left, NEW j \in DOMAIN left, i < j
        PROVE  ChunkId(left[i]) # ChunkId(left[j])
    <3>1. kept[i] < kept[j] /\ kept[j] \in S /\ kept[i] \in 1 .. n /\ kept[j] \in 1 .. n
      BY <2>1, <2>4, <2>5, <2>6
    <3>2. kept[i] \in 1 .. kept[j] - 1
      BY <2>1, <3>1
    <3>3. DedupKey(left[i]) # DedupKey(left[j])
      BY <2>3, <2>5, <3>1, <3>2
    <3> QED
      BY <3>3 DEF DedupKey, ChunkId
  <2>7. \A i, j \in DOMAIN left : i # j => i < j \/ j < i
    BY <2>4, <2>5
  <2>8. DistinctIds(left)
    BY <2>6, <2>7 DEF DistinctIds
  <2> QED
    BY <2>2, <2>8
<1> QED
  BY <1>1, <1>2

LEMMA TakeWholeTells == ASSUME ChunkInv, IdsInv, TakeWhole PROVE IdsInv'
<1> DEFINE s == Head(sections)
           c == MakeChunk(s, s.text.lines, s.start, s.whole, s.part)
           made == <<c>>
<1>1. /\ doc' = doc /\ phase = "next" /\ sections # <<>> /\ s.whole # None /\ Add(made) /\ Working
      /\ doc.type # "python" => ToldApart
  BY DEF ChunkInv, IdsInv, TakeWhole
<1>2. CASE phase' = "failed"
  BY <1>2 DEF IdsInv, IdsDistinct
<1>3. CASE chunks' = chunks \o made /\ sections' = Tail(sections) /\ phase' = "next"
  <2>1. ASSUME doc.type # "python" PROVE ToldApart'
    <3>1. /\ sections \in Seq(ChunkSections) /\ chunks \in Seq(ChunkRecords) /\ s \in ChunkSections
      BY <1>1, HeadIs DEF Working
    <3>2. s = sections[1] /\ 1 \in DOMAIN sections
      BY <1>1, <3>1
    <3>3. OwnName(s)
      BY <1>1, <2>1, <3>2 DEF ToldApart, Ordered
    <3> HIDE DEF s
    <3>4. c \in ChunkRecords
      <4> DEFINE ls == s.text.lines
                 first == s.start
                 last == s.whole
                 n == s.part
                 d == MakeChunk(s, ls, first, last, n)
      <4>1. ls \in Seq(Lines) /\ first \in Nat /\ last \in Nat /\ n \in Nat
        BY <3>1, TextsAre DEF ChunkSections
      <4> HIDE DEF ls, first, last, n
      <4>2. MadeOf(d, s, ls, first)
        BY <3>1, <4>1, MakeChunkIs
      <4> QED
        BY <4>2 DEF MadeOf, d, ls, first, last, n
    <3>5. c.symbol = s.symbol /\ c.end = s.whole
      BY DEF MakeChunk
    <3> HIDE DEF c
    <3>6. made \in Seq(ChunkRecords) /\ DOMAIN made = {1} /\ made[1] = c
      BY <3>4
    <3> HIDE DEF made
    <3>7. MadeFrom(made, s)
      BY <1>1, <3>3, <3>5, <3>6 DEF MadeFrom, OwnName, Ends
    <3> QED
      BY <1>1, <1>3, <2>1, <3>1, <3>6, <3>7, AddTells DEF s
  <2> QED
    BY <1>1, <1>3, <2>1 DEF IdsInv, IdsDistinct
<1> QED
  BY <1>1, <1>2, <1>3 DEF Add

LEMMA CollectTells == ASSUME ChunkInv, IdsInv, Collect PROVE IdsInv'
<1> DEFINE s == Head(sections)
           Of(k) == MakeChunk(s, SubSeq(text.lines, ranges[k].from + 1, ranges[k].to),
                              ranges[k].start, ranges[k].end, ranges[k].part)
           made == [k \in DOMAIN ranges |-> Of(k)]
<1>1. /\ doc \in Documents /\ doc' = doc /\ phase = "split" /\ Add(made) /\ Working /\ Splitting /\ EndsTold
      /\ doc.type # "python" => ToldApart
  BY DEF ChunkInv, IdsInv, Collect
<1>2. CASE phase' = "failed"
  BY <1>2 DEF IdsInv, IdsDistinct
<1>3. CASE chunks' = chunks \o made /\ sections' = Tail(sections) /\ phase' = "next"
  <2>1. ASSUME doc.type # "python" PROVE ToldApart'
    <3>1. /\ sections # <<>> /\ text = s.text /\ start = s.start /\ WindowsTypeOK /\ WindowsAdvance
          /\ N = Len(s.text.lines) /\ start \in Nat /\ N \in Nat
      <4>1. sections # <<>> /\ text = s.text /\ start = s.start /\ WindowsTypeOK /\ WindowsAdvance
        BY <1>1 DEF Splitting, WindowInv
      <4> QED
        BY <4>1 DEF WindowsTypeOK, N
    <3>2. sections \in Seq(ChunkSections) /\ chunks \in Seq(ChunkRecords)
      BY <1>1 DEF Working
    <3>3. ASSUME NEW k \in DOMAIN ranges
          PROVE  /\ Of(k) \in ChunkRecords /\ Of(k).symbol = s.symbol
                 /\ Of(k).end = ranges[k].end /\ Of(k).part = k
      <4>1. Of(k) \in ChunkRecords
        BY <1>1, RangeChunkIs
      <4>2. ranges[k].part = k
        BY <3>1 DEF WindowsAdvance
      <4> QED
        BY <4>1, <4>2 DEF MakeChunk
    <3>4. ranges \in Seq(TextRanges)
      BY <3>1 DEF WindowsTypeOK
    <3> HIDE DEF Of
    <3>5. made \in Seq(ChunkRecords) /\ DOMAIN made = DOMAIN ranges /\ \A k \in DOMAIN ranges : made[k] = Of(k)
      BY <3>3, <3>4
    <3> HIDE DEF made, s
    <3>6. ASSUME NEW k \in DOMAIN ranges
          PROVE  /\ ranges[k].end \in Nat /\ ranges[k].end >= s.start
                 /\ ~text.nl => ranges[k].end <= start + N - 1
      <4> DEFINE r == ranges[k]
      <4>1. r.from \in Nat /\ r.to \in Nat /\ r.end \in Nat
        <5>1. r \in TextRanges
          BY <3>4
        <5> HIDE DEF r
        <5> QED
          BY <5>1 DEF TextRanges
      <4>2. r.from < r.to /\ r.to <= N /\ r.end \in {start + r.to - 1, start + N}
        BY <3>1 DEF WindowsAdvance
      <4>3. ~text.nl => r.end = start + r.to - 1
        BY <1>1 DEF EndsTold
      <4> HIDE DEF r
      <4>4. r.end >= start /\ (~text.nl => r.end <= start + N - 1)
        BY <3>1, <4>1, <4>2, <4>3
      <4> QED
        BY <3>1, <4>1, <4>4 DEF r
    <3>7. ASSUME NEW n \in Nat, NEW k \in DOMAIN ranges, Ends(s, n), s.symbol = None PROVE ranges[k].end < n
      <4>1. ~text.nl /\ start + N <= n
        BY <3>1, <3>7 DEF Ends
      <4> QED
        BY <3>1, <3>6, <4>1
    <3>8. MadeFrom(made, s)
      BY <3>3, <3>5, <3>6, <3>7 DEF MadeFrom
    <3> QED
      BY <1>1, <1>3, <2>1, <3>1, <3>2, <3>5, <3>8, AddTells DEF s
  <2> QED
    BY <1>1, <1>3, <2>1 DEF IdsInv, IdsDistinct
<1> QED
  BY <1>1, <1>2, <1>3 DEF Add

LEMMA IdsBegin == ChunkInit => IdsInv
BY DEF ChunkInit, IdsInv, IdsDistinct

LEMMA IdsStep == ChunkInv /\ IdsInv /\ [ChunkNext]_chunkVars => IdsInv'
<1> SUFFICES ASSUME ChunkInv, IdsInv, [ChunkNext]_chunkVars PROVE IdsInv'
  OBVIOUS
<1>1. CASE Scan
  <2>1. doc \in Documents /\ chunks = <<>> /\ sections' = SectionsOf /\ phase' = "next" /\ doc' = doc /\ chunks' = chunks
    BY <1>1 DEF ChunkInv, Scan
  <2>2. DOMAIN <<>> = {}
    OBVIOUS
  <2>3. ASSUME doc.type # "python" PROVE ToldApart'
    <3>1. Ordered(SectionsOf)
      BY <2>1, <2>3, SectionsOrdered
    <3>2. DistinctIds(<<>>)
      BY <2>2, Zenon DEF DistinctIds
    <3> QED
      BY <2>1, <2>2, <3>1, <3>2, Zenon DEF ToldApart
  <2> QED
    BY <2>1, <2>3 DEF IdsInv, IdsDistinct
<1>2. CASE TakeWhole
  BY <1>2, TakeWholeTells
<1>3. CASE CallSplit
  <2>1. /\ phase = "next" /\ phase' = "split" /\ doc' = doc /\ sections' = sections /\ chunks' = chunks /\ ranges' = <<>>
    BY <1>3 DEF CallSplit
  <2>2. EndsTold'
    BY <2>1 DEF EndsTold
  <2>3. ToldApart' <=> ToldApart
    BY <2>1 DEF ToldApart
  <2> QED
    BY <2>1, <2>2, <2>3 DEF IdsInv, IdsDistinct
<1>4. CASE SplitStep
  <2>1. /\ phase = "split" /\ phase' = phase /\ doc' = doc /\ sections' = sections /\ chunks' = chunks /\ Split
    BY <1>4 DEF SplitStep
  <2>2. EndsTold'
    BY <2>1, SplitTells DEF ChunkInv, Splitting, IdsInv
  <2>3. ToldApart' <=> ToldApart
    BY <2>1 DEF ToldApart
  <2> QED
    BY <2>1, <2>2, <2>3 DEF IdsInv, IdsDistinct
<1>5. CASE Collect
  BY <1>5, CollectTells
<1>6. CASE Finish
  <2>1. phase = "next" /\ phase' = "done" /\ chunks' = Deduplicated(chunks) /\ chunks \in Seq(ChunkRecords)
    BY <1>6 DEF Finish, ChunkInv, Working
  <2>2. doc.type # "python" => DistinctIds(chunks)
    BY <2>1 DEF IdsInv, ToldApart
  <2>3. DistinctIds(chunks')
    BY <2>1, <2>2, DedupDistinct
  <2> QED
    BY <2>1, <2>3 DEF IdsInv, IdsDistinct, DistinctIds
<1>7. CASE UNCHANGED chunkVars
  <2>1. /\ doc' = doc /\ sections' = sections /\ chunks' = chunks /\ phase' = phase
        /\ ranges' = ranges /\ text' = text /\ start' = start
    BY <1>7 DEF chunkVars, windowVars
  <2>2. (ToldApart' <=> ToldApart) /\ (EndsTold' <=> EndsTold) /\ (IdsDistinct' <=> IdsDistinct)
    BY <2>1 DEF ToldApart, EndsTold, IdsDistinct
  <2> QED
    BY <2>1, <2>2 DEF IdsInv
<1> QED
  BY <1>1, <1>2, <1>3, <1>4, <1>5, <1>6, <1>7 DEF ChunkNext

\* No two chunks of a finished document share an id: those of one section
\* differ in their part, those of two in their name or in where they end, and
\* of a Python file the duplicates are taken out.
THEOREM IdsAlwaysDistinct == ChunkSpec => []IdsDistinct
<1>1. ChunkInit => IdsInv
  BY IdsBegin
<1>2. ChunkInv /\ IdsInv /\ [ChunkNext]_chunkVars => IdsInv'
  BY IdsStep
<1>3. IdsInv => IdsDistinct
  BY DEF IdsInv
<1> QED
  BY <1>1, <1>2, <1>3, ChunkKept, PTL DEF ChunkSpec

-----------------------------------------------------------------------------
(* Headings and their ancestors.                                           *)

\* The levels of a stack of headings rise from its bottom to its top.
Climbs(stack) ==
    /\ \A a \in DOMAIN stack : LevelOf(stack[a]) \in Nat
    /\ \A a, b \in DOMAIN stack : a < b => LevelOf(stack[a]) < LevelOf(stack[b])

\* Of such a stack just the headings of a lower level are left.
LEMMA PoppedIs ==
    ASSUME NEW stack \in Seq(Nat), Climbs(stack), NEW level \in Nat
    PROVE  /\ Popped(stack, level) \in Seq(Nat) /\ Climbs(Popped(stack, level))
           /\ Range(Popped(stack, level)) = {x \in Range(stack) : LevelOf(x) < level}
<1> DEFINE low == {j \in DOMAIN stack : LevelOf(stack[j]) < level}
           kept == {0} \cup low
           p == Popped(stack, level)
<1>1. Len(stack) \in Nat /\ DOMAIN stack = 1 .. Len(stack) /\ kept \in SUBSET (0 .. Len(stack)) /\ kept # {}
  OBVIOUS
<1>2. p = SubSeq(stack, 1, Max(kept))
  BY DEF Popped
<1>3. \A j \in kept : j = 0 \/ (j \in DOMAIN stack /\ LevelOf(stack[j]) < level)
  OBVIOUS
<1>4. \A j \in DOMAIN stack : LevelOf(stack[j]) < level => j \in kept
  OBVIOUS
<1> HIDE DEF kept, p
<1>5. PICK m \in 0 .. Len(stack) : m = Max(kept) /\ m \in kept /\ \A j \in kept : j <= m
  BY <1>1, MaxOf
<1>6. p \in Seq(Nat) /\ DOMAIN p = 1 .. m /\ \A j \in 1 .. m : p[j] = stack[j]
  <2>1. 1 \in 1 .. Len(stack) + 1 /\ m \in 1 - 1 .. Len(stack) /\ m - 1 + 1 = m /\ \A j \in 1 .. m : 1 + j - 1 = j
    BY <1>1, <1>5
  <2>2. p = SubSeq(stack, 1, m)
    BY <1>2, <1>5
  <2>3. /\ p \in Seq(Nat) /\ DOMAIN p = 1 .. m - 1 + 1
        /\ \A j \in 1 .. m - 1 + 1 : p[j] = stack[1 + j - 1]
    BY <2>1, <2>2, SubSeqIs
  <2> QED
    BY <2>1, <2>3
<1>7. \A j \in 1 .. m : j \in DOMAIN stack
  BY <1>1, <1>5
<1>8. Climbs(p)
  BY <1>6, <1>7 DEF Climbs
<1>9. ASSUME NEW j \in 1 .. m PROVE LevelOf(stack[j]) < level
  <2>1. m \in DOMAIN stack /\ LevelOf(stack[m]) < level /\ (j = m \/ j < m) /\ j \in DOMAIN stack
    BY <1>1, <1>3, <1>5, <1>9
  <2>2. LevelOf(stack[j]) \in Nat /\ LevelOf(stack[m]) \in Nat /\ (j < m => LevelOf(stack[j]) < LevelOf(stack[m]))
    BY <2>1 DEF Climbs
  <2> QED
    BY <2>1, <2>2
<1>10. ASSUME NEW j \in DOMAIN stack, LevelOf(stack[j]) < level PROVE j \in 1 .. m
  BY <1>1, <1>4, <1>5, <1>10
<1>11. Range(p) = {x \in Range(stack) : LevelOf(x) < level}
  <2>1. \A x \in Range(p) : x \in Range(stack) /\ LevelOf(x) < level
    BY <1>6, <1>7, <1>9 DEF Range
  <2>2. \A x \in Range(stack) : LevelOf(x) < level => x \in Range(p)
    BY <1>6, <1>10 DEF Range
  <2> QED
    BY <2>1, <2>2
<1> QED
  BY <1>6, <1>8, <1>11 DEF p

\* The headings of a Markdown file.
LEMMA HeadingIs ==
    ASSUME doc \in Documents
    PROVE  /\ Headings \in Seq(Nat) /\ Len(Headings) \in Nat /\ DOMAIN Headings = 1 .. Len(Headings)
           /\ \A k \in DOMAIN Headings :
                /\ Headings[k] \in 1 .. Len(doc.lines) /\ LevelOf(Headings[k]) \in Nat
                /\ ~doc.lines[Headings[k]].blank
           /\ \A j, k \in DOMAIN Headings : j < k => Headings[j] < Headings[k]
<1> DEFINE S == {i \in DOMAIN doc.lines : doc.lines[i].level > 0 /\ Fence[i - 1] = "none"}
           q == Headings
<1>1. Len(doc.lines) \in Nat /\ S \in SUBSET (1 .. Len(doc.lines)) /\ \A i \in S : doc.lines[i].level > 0
  BY DocIs
<1>2. q = InOrder(S, Len(doc.lines))
  BY DEF Headings
<1> HIDE DEF S, q
<1>3. /\ q \in Seq(1 .. Len(doc.lines)) /\ \A k \in DOMAIN q : q[k] \in S
      /\ \A j, k \in DOMAIN q : j < k => q[j] < q[k]
  BY <1>1, <1>2, InOrderIs
<1>4. q \in Seq(Nat) /\ Len(q) \in Nat /\ DOMAIN q = 1 .. Len(q)
  BY <1>1, <1>3
<1>5. ASSUME NEW i \in S PROVE i \in 1 .. Len(doc.lines) /\ LevelOf(i) \in Nat /\ ~doc.lines[i].blank
  <2>1. i \in DOMAIN doc.lines /\ doc.lines[i] \in LineSet /\ doc.lines[i].level > 0
    BY <1>1, <1>5, DocIs
  <2>2. doc.lines[i].level \in Nat
    BY <2>1 DEF LineSet
  <2>3. doc.lines[i].blank => doc.lines[i].level = 0
    BY <2>1, DocumentsAssumption
  <2>4. ~doc.lines[i].blank
    BY <2>1, <2>3
  <2> QED
    BY <1>1, <2>2, <2>4 DEF LevelOf
<1> QED
  BY <1>3, <1>4, <1>5 DEF q

\* The headings up to one: those up to the one before it, and itself.
LEMMA HeadingsUpto ==
    ASSUME doc \in Documents, NEW k \in DOMAIN Headings
    PROVE  \A i \in Range(Headings) :
             /\ i \in Nat
             /\ i <= Headings[k] <=> (i = Headings[k] \/ (k > 1 /\ i <= Headings[k - 1]))
<1> DEFINE q == Headings
<1>1. /\ q \in Seq(Nat) /\ Len(q) \in Nat /\ DOMAIN q = 1 .. Len(q)
      /\ \A j, m \in DOMAIN q : j < m => q[j] < q[m]
  BY HeadingIs
<1> HIDE DEF q
<1>2. ASSUME NEW m \in DOMAIN q
      PROVE  q[m] \in Nat /\ (q[m] <= q[k] <=> (q[m] = q[k] \/ (k > 1 /\ q[m] <= q[k - 1])))
  <2>0. k \in DOMAIN q /\ k \in Nat /\ m \in Nat /\ q[m] \in Nat /\ q[k] \in Nat
    BY <1>1 DEF q
  <2>1. CASE m = k
    BY <2>0, <2>1
  <2>2. CASE m > k
    <3>1. q[k] < q[m]
      BY <1>1, <2>0, <2>2
    <3>2. k > 1 => k - 1 \in DOMAIN q /\ q[k - 1] < q[k] /\ q[k - 1] \in Nat
      BY <1>1, <2>0
    <3> QED
      BY <2>0, <3>1, <3>2
  <2>3. CASE m < k
    <3>1. k > 1 /\ k - 1 \in DOMAIN q /\ q[m] < q[k] /\ (m = k - 1 \/ m < k - 1)
      BY <1>1, <2>0, <2>3
    <3>2. q[m] <= q[k - 1]
      <4>1. q[k - 1] \in Nat /\ (m < k - 1 => q[m] < q[k - 1])
        BY <1>1, <3>1
      <4> QED
        BY <2>0, <3>1, <4>1
    <3> QED
      BY <2>0, <3>1, <3>2
  <2> QED
    BY <2>0, <2>1, <2>2, <2>3
<1>3. \A i \in Range(q) : \E m \in DOMAIN q : i = q[m]
  BY DEF Range
<1> QED
  BY <1>2, <1>3 DEF q

\* A heading's ancestors: of those of the heading before it the ones of a lower
\* level, and itself.
LEMMA AncestorsAre ==
    ASSUME doc \in Documents, NEW k \in DOMAIN Headings
    PROVE  Ancestors(Headings[k]) =
             {Headings[k]} \cup
             (IF k = 1 THEN {} ELSE {x \in Ancestors(Headings[k - 1]) : LevelOf(x) < LevelOf(Headings[k])})
<1> DEFINE R == Range(Headings)
           h == Headings[k]
           g == Headings[k - 1]
           Above(top) == {i \in 1 .. top : i \in R /\ \A j \in i + 1 .. top : j \in R => LevelOf(j) > LevelOf(i)}
<1>1. /\ h \in R /\ h \in Nat \ {0} /\ k \in Nat /\ k >= 1
      /\ \A i \in R : i \in Nat \ {0} /\ LevelOf(i) \in Nat
  BY HeadingIs DEF Range
<1>2. \A i \in R : i <= h <=> (i = h \/ (k > 1 /\ i <= g))
  BY HeadingsUpto
<1>3. k > 1 => g \in R /\ g \in Nat /\ g < h
  <2>1. k > 1 => k - 1 \in DOMAIN Headings /\ k - 1 < k
    BY HeadingIs
  <2>2. k > 1 => g < h
    BY <2>1, HeadingIs
  <2>3. k > 1 => g \in R
    BY <2>1 DEF Range
  <2> QED
    BY <1>1, <2>2, <2>3
<1>4. Ancestors(h) = Above(h) /\ Ancestors(g) = Above(g)
  BY DEF Ancestors
<1> HIDE DEF R, h, g
<1>5. h \in Above(h)
  BY <1>1
<1>6. CASE k = 1
  <2>1. \A i \in Above(h) : i = h
    BY <1>1, <1>2, <1>6
  <2> HIDE DEF Above
  <2>2. Above(h) = {h}
    BY <1>5, <2>1
  <2> QED
    BY <1>4, <1>6, <2>2 DEF h
<1>7. CASE k > 1
  <2>1. ASSUME NEW i \in Above(h), i # h PROVE i \in Above(g) /\ LevelOf(i) < LevelOf(h)
    <3>1. /\ i \in R /\ i \in Nat /\ i >= 1 /\ i <= h /\ i <= g
          /\ \A j \in i + 1 .. h : j \in R => LevelOf(j) > LevelOf(i)
      BY <1>1, <1>2, <1>7, <2>1
    <3>2. h \in i + 1 .. h
      BY <1>1, <2>1, <3>1
    <3>3. LevelOf(h) > LevelOf(i) /\ LevelOf(h) \in Nat /\ LevelOf(i) \in Nat
      BY <1>1, <3>1, <3>2
    <3>4. \A j \in i + 1 .. g : j \in i + 1 .. h
      BY <1>1, <1>3, <1>7, <3>1
    <3>5. i \in 1 .. g
      BY <1>3, <1>7, <3>1
    <3> QED
      BY <3>1, <3>3, <3>4, <3>5
  <2>2. ASSUME NEW i \in Above(g), LevelOf(i) < LevelOf(h) PROVE i \in Above(h)
    <3>1. /\ i \in R /\ i \in 1 .. g
          /\ \A j \in i + 1 .. g : j \in R => LevelOf(j) > LevelOf(i)
      BY <2>2
    <3>2. ASSUME NEW j \in i + 1 .. h, j \in R PROVE LevelOf(j) > LevelOf(i)
      <4>1. j = h \/ j <= g
        BY <1>1, <1>2, <3>2
      <4>2. j <= g => j \in i + 1 .. g
        BY <1>3, <1>7, <3>1, <3>2
      <4>3. LevelOf(h) \in Nat /\ LevelOf(i) \in Nat
        BY <1>1, <3>1
      <4> QED
        BY <2>2, <3>1, <3>2, <4>1, <4>2, <4>3
    <3>3. i \in 1 .. h
      BY <1>1, <1>3, <1>7, <3>1
    <3> QED
      BY <3>1, <3>2, <3>3
  <2> HIDE DEF Above
  <2>3. Above(h) = {h} \cup {x \in Above(g) : LevelOf(x) < LevelOf(h)}
    BY <1>5, <2>1, <2>2
  <2>4. k # 1
    BY <1>7
  <2> QED
    BY <1>4, <2>3, <2>4 DEF h, g
<1> QED
  BY <1>1, <1>6, <1>7

\* One heading is pushed onto what is left of the stack.
LEMMA Pushed ==
    ASSUME NEW p \in Seq(Nat), Climbs(p), NEW h \in Nat, LevelOf(h) \in Nat,
           \A x \in Range(p) : LevelOf(x) < LevelOf(h)
    PROVE  Climbs(Append(p, h)) /\ Range(Append(p, h)) = Range(p) \cup {h}
<1> DEFINE q == Append(p, h)
<1>1. /\ DOMAIN q = 1 .. Len(p) + 1 /\ Len(p) \in Nat /\ q[Len(p) + 1] = h /\ DOMAIN p = 1 .. Len(p)
      /\ \A j \in DOMAIN p : j \in DOMAIN q /\ q[j] = p[j]
  BY AppendIs
<1> HIDE DEF q
<1>2. \A j \in DOMAIN q : j = Len(p) + 1 \/ j \in DOMAIN p
  BY <1>1
<1>3. \A j \in DOMAIN p : p[j] \in Range(p)
  BY DEF Range
<1>4. Range(q) = Range(p) \cup {h}
  <2>1. \A x \in Range(q) : x \in Range(p) \cup {h}
    BY <1>1, <1>2, <1>3 DEF Range
  <2>2. \A x \in Range(p) : x \in Range(q)
    BY <1>1 DEF Range
  <2>3. Len(p) + 1 \in DOMAIN q
    BY <1>1
  <2>4. h \in Range(q)
    BY <1>1, <2>3 DEF Range
  <2> QED
    BY <2>1, <2>2, <2>4
<1>5. \A a \in DOMAIN q : LevelOf(q[a]) \in Nat
  BY <1>1, <1>2 DEF Climbs
<1>6. ASSUME NEW a \in DOMAIN q, NEW b \in DOMAIN q, a < b PROVE LevelOf(q[a]) < LevelOf(q[b])
  <2>1. a \in DOMAIN p
    BY <1>1, <1>6
  <2>2. CASE b \in DOMAIN p
    BY <1>1, <1>6, <2>1, <2>2 DEF Climbs
  <2>3. CASE b = Len(p) + 1
    BY <1>1, <1>3, <2>1, <2>3
  <2> QED
    BY <1>2, <2>2, <2>3
<1>7. Climbs(q)
  BY <1>5, <1>6 DEF Climbs
<1> QED
  BY <1>4, <1>7 DEF q

\* The stack holds a heading's ancestors, whatever the levels skipped.
StackRight(k) == Climbs(HeadingStack[k]) /\ Range(HeadingStack[k]) = Ancestors(Headings[k])

LEMMA StackStep ==
    ASSUME doc \in Documents, NEW k \in DOMAIN Headings, k = 1 \/ StackRight(k - 1)
    PROVE  StackRight(k)
<1> DEFINE h == Headings[k]
           was == HeadingStack[k - 1]
           p == Popped(was, LevelOf(h))
<1>1. k \in Nat /\ k \in 1 .. Len(Headings) /\ k - 1 \in 0 .. Len(Headings) /\ h \in Nat /\ LevelOf(h) \in Nat
  BY HeadingIs
<1>2. was \in Seq(Nat) /\ HeadingStack[k] = Append(p, h) /\ HeadingStack[0] = <<>>
  BY <1>1, HeadingStackIs
<1>3. /\ Climbs(was)
      /\ Range(was) = IF k = 1 THEN {} ELSE Ancestors(Headings[k - 1])
  <2>1. CASE k = 1
    <3>1. was = <<>>
      BY <1>2, <2>1
    <3>2. Climbs(<<>>) /\ Range(<<>>) = {}
      BY DEF Climbs, Range
    <3> QED
      BY <2>1, <3>1, <3>2
  <2>2. CASE k # 1 /\ StackRight(k - 1)
    BY <2>2 DEF StackRight
  <2> QED
    BY <2>1, <2>2
<1>4. Ancestors(h) = {h} \cup (IF k = 1 THEN {} ELSE {x \in Ancestors(Headings[k - 1]) : LevelOf(x) < LevelOf(h)})
  BY AncestorsAre
<1> HIDE DEF h, was, p
<1>5. p \in Seq(Nat) /\ Climbs(p) /\ Range(p) = {x \in Range(was) : LevelOf(x) < LevelOf(h)}
  BY <1>1, <1>2, <1>3, PoppedIs DEF p
<1>6. Climbs(Append(p, h)) /\ Range(Append(p, h)) = Range(p) \cup {h}
  BY <1>1, <1>5, Pushed
<1>7. Range(HeadingStack[k]) = Ancestors(h)
  BY <1>2, <1>3, <1>4, <1>5, <1>6
<1> QED
  BY <1>2, <1>6, <1>7 DEF StackRight, h

LEMMA StackAlwaysRight ==
    ASSUME doc \in Documents, NEW m \in DOMAIN Headings
    PROVE  StackRight(m)
<1> DEFINE bad == {k \in DOMAIN Headings : ~StackRight(k)}
<1> SUFFICES ASSUME bad # {} PROVE FALSE
  OBVIOUS
<1>1. PICK k \in bad : \A j \in bad : k <= j
  <2>1. bad \in SUBSET Nat
    BY HeadingIs
  <2> HIDE DEF bad
  <2> QED
    BY <2>1, Smallest
<1>2. k \in DOMAIN Headings /\ ~StackRight(k)
  OBVIOUS
<1>3. ASSUME k # 1 PROVE StackRight(k - 1)
  <2>1. k - 1 \in DOMAIN Headings /\ ~(k <= k - 1)
    BY <1>2, <1>3, HeadingIs
  <2>2. k - 1 \notin bad
    <3> HIDE DEF bad
    <3> QED
      BY <1>1, <2>1, Zenon
  <2> QED
    BY <2>1, <2>2
<1>4. StackRight(k)
  <2> HIDE DEF bad
  <2> QED
    BY <1>2, <1>3, StackStep
<1> QED
  BY <1>2, <1>4

-----------------------------------------------------------------------------
(* Where the lines of a section come from.                                 *)

\* The headings a line is under.
PathAt(n) ==
    LET above == {i \in Range(Headings) : i <= n}
    IN  IF above = {} THEN {} ELSE Ancestors(Max(above))

LEMMA PathUnder ==
    ASSUME doc \in Documents, NEW k \in DOMAIN Headings, NEW n \in Nat,
           Headings[k] <= n, n < NextCut(Headings, k, Len(doc.lines))
    PROVE  PathAt(n) = Range(HeadingStack[k])
<1> DEFINE above == {i \in Range(Headings) : i <= n}
           h == Headings[k]
<1>1. /\ Len(Headings) \in Nat /\ DOMAIN Headings = 1 .. Len(Headings)
      /\ h \in Nat /\ h \in Range(Headings)
  BY HeadingIs DEF Range
<1>2. \A i \in above : i \in Nat /\ i <= n
  BY HeadingsUpto
<1>3. ASSUME NEW i \in above PROVE i <= h
  <2>1. PICK m \in DOMAIN Headings : i = Headings[m]
    BY DEF Range
  <2>2. m \in Nat /\ k \in Nat /\ i \in Nat /\ i <= n
    BY <1>1, <1>2
  <2>3. CASE m <= k
    <3>1. m = k \/ Headings[m] < Headings[k]
      BY <2>2, <2>3, HeadingIs
    <3> QED
      BY <1>1, <2>1, <2>2, <3>1
  <2>4. CASE k < m
    <3>1. k < Len(Headings) /\ k + 1 \in DOMAIN Headings /\ (m = k + 1 \/ k + 1 < m)
      BY <1>1, <2>2, <2>4
    <3>2. n < Headings[k + 1] /\ Headings[k + 1] \in Nat
      BY <3>1, HeadingIs DEF NextCut
    <3>3. m = k + 1 \/ Headings[k + 1] < Headings[m]
      BY <3>1, HeadingIs
    <3> QED
      BY <1>1, <2>1, <2>2, <3>2, <3>3
  <2> QED
    BY <2>2, <2>3, <2>4
<1>4. h \in above
  BY <1>1
<1>5. PathAt(n) = IF above = {} THEN {} ELSE Ancestors(Max(above))
  BY DEF PathAt
<1>6. above \in SUBSET (0 .. n)
  BY <1>2
<1> HIDE DEF above
<1>7. Max(above) \in above /\ \A i \in above : i <= Max(above)
  BY <1>4, <1>6, MaxOf
<1>8. Max(above) = h
  <2>1. Max(above) \in Nat /\ Max(above) <= h /\ h <= Max(above)
    BY <1>2, <1>3, <1>4, <1>7
  <2> QED
    BY <1>1, <2>1
<1>9. Range(HeadingStack[k]) = Ancestors(h)
  BY StackAlwaysRight DEF StackRight
<1> QED
  BY <1>4, <1>5, <1>8, <1>9

LEMMA PathBefore ==
    ASSUME doc \in Documents, NEW n \in Nat, Headings # <<>> => n < Headings[1]
    PROVE  PathAt(n) = {}
<1>1. ASSUME NEW i \in Range(Headings), i <= n PROVE FALSE
  <2>1. PICK m \in DOMAIN Headings : i = Headings[m]
    BY DEF Range
  <2>2. /\ m \in Nat /\ i \in Nat /\ 1 \in DOMAIN Headings /\ (m = 1 \/ 1 < m) /\ Headings # <<>>
        /\ Headings[1] \in Nat
    BY <2>1, HeadingIs
  <2>3. m = 1 \/ Headings[1] < Headings[m]
    BY <2>2, HeadingIs
  <2> QED
    BY <1>1, <2>1, <2>2, <2>3
<1>2. {i \in Range(Headings) : i <= n} = {}
  BY <1>1
<1> QED
  BY <1>2 DEF PathAt

\* Every line of a section of a Markdown file is under the section's headings.
Headed(s) ==
    doc.type = "markdown" => \A j \in DOMAIN s.text.lines : Range(s.path) = PathAt(s.text.lines[j].no)

\* The intro of a Markdown file that begins with blank lines.
Introduces(s) ==
    /\ doc.type = "markdown" /\ Headings # <<>> /\ doc.lines[1].blank
    /\ s.path = <<>> /\ s.prefix = <<>> /\ s.first = None /\ s.whole = None
    /\ s.start = 1 /\ Len(s.text.lines) <= Len(doc.lines)

\* What the scan of a Turtle file leaves out of statements, and the first
\* prefix of the file.
Dropped(i) == doc.lines[i].blank \/ doc.lines[i].kind = "prefix"
FirstPrefix(f) ==
    f \in DOMAIN doc.lines /\ doc.lines[f].kind = "prefix" /\ \A j \in 1 .. f - 1 : doc.lines[j].kind # "prefix"

\* The lines of a statement that begins at some line: in order, and each next to
\* the one before it unless something has been left out.
Aligned(ls, begin, upto) ==
    \A j \in DOMAIN ls :
        /\ ~ls[j].blank /\ ls[j].no \in begin + j - 1 .. upto
        /\ ls[j].no = begin + j - 1 \/ \E i \in 1 .. ls[j].no : Dropped(i)

\* No statement ends between a line and the first prefix.
Late(begin, first) == first # None => FirstPrefix(first) /\ \A j \in begin .. first - 1 : doc.lines[j].kind # "stop"

Stated(s) ==
    /\ doc.type = "turtle" /\ s.text.lines # <<>>
    /\ s.text.lines[1].no = s.start /\ s.start \in DOMAIN doc.lines /\ ~doc.lines[s.start].blank
    /\ Aligned(s.text.lines, s.start, IF s.whole = None THEN Len(doc.lines) ELSE s.whole)
    /\ Late(s.start, s.first)
    /\ s.whole # None => s.whole \in DOMAIN doc.lines /\ s.first <= s.whole
    /\ s.whole = None => s.symbol = None

Sited(s) == Headed(s) /\ (Plain(s) \/ Introduces(s) \/ Stated(s))

\* A piece of the document that does not begin with a blank line.
LEMMA PieceIsPlain ==
    ASSUME doc \in Documents, NEW from \in 1 .. Len(doc.lines), NEW to \in from .. Len(doc.lines),
           ~doc.lines[from].blank
    PROVE  /\ Follows(Stripped(Between(from, to)).lines, from)
           /\ \A j \in DOMAIN Stripped(Between(from, to)).lines :
                from + j - 1 <= to /\ j \in Nat /\ j >= 1
<1> DEFINE ls == Between(from, to)
           cut == Stripped(ls).lines
<1>1. Len(doc.lines) \in Nat /\ from \in 1 .. Len(doc.lines) + 1 /\ to \in from - 1 .. Len(doc.lines)
  BY DocIs
<1>2. /\ ls \in Seq(Lines) /\ DOMAIN ls = 1 .. to - from + 1 /\ Len(ls) = to - from + 1
      /\ \A k \in 1 .. to - from + 1 : ls[k] = doc.lines[from + k - 1]
  BY <1>1, BetweenIs
<1>3. Follows(ls, from)
  BY <1>1, BetweenFollows
<1> HIDE DEF ls
<1>4. 1 \in DOMAIN ls /\ ~ls[1].blank
  <2>1. 1 \in 1 .. to - from + 1 /\ from + 1 - 1 = from
    BY <1>1
  <2> QED
    BY <1>2, <2>1
<1>5. Follows(cut, from)
  BY <1>1, <1>2, <1>3, <1>4, StrippedFollows
<1>6. Len(cut) \in Nat /\ Len(cut) <= Len(ls) /\ cut \in Seq(Lines)
  <2>1. Stripped(ls) \in Texts
    BY <1>2, StrippedTyped DEF Texts
  <2> QED
    BY <1>2, <2>1, StrippedShorter, TextsAre
<1> HIDE DEF cut
<1>7. \A j \in DOMAIN cut : from + j - 1 <= to /\ j \in Nat /\ j >= 1
  BY <1>1, <1>2, <1>6
<1> QED
  BY <1>5, <1>7 DEF cut, ls

\* What is left by strip() is among the lines it is given.
LEMMA StrippedAmong ==
    ASSUME NEW ls \in Seq(Lines), NEW j \in DOMAIN Stripped(ls).lines
    PROVE  \E k \in DOMAIN ls : Stripped(ls).lines[j] = ls[k]
<1>1. \E i \in DOMAIN ls : ~ls[i].blank
  <2> SUFFICES ASSUME \A i \in DOMAIN ls : ls[i].blank PROVE FALSE
    OBVIOUS
  <2>1. Stripped(ls).lines = <<>>
    BY StrippedIs
  <2> QED
    BY <2>1
<1>2. PICK lo \in DOMAIN ls, hi \in DOMAIN ls : lo <= hi /\ Stripped(ls).lines = SubSeq(ls, lo, hi)
  BY <1>1, StrippedIs
<1> DEFINE cut == SubSeq(ls, lo, hi)
<1>3. lo \in 1 .. Len(ls) + 1 /\ hi \in lo - 1 .. Len(ls) /\ lo \in Nat /\ hi <= Len(ls) /\ lo >= 1 /\ Len(ls) \in Nat
  BY <1>2
<1>4. DOMAIN cut = 1 .. hi - lo + 1 /\ \A k \in 1 .. hi - lo + 1 : cut[k] = ls[lo + k - 1]
  BY <1>3, SubSeqIs
<1> HIDE DEF cut
<1>5. j \in 1 .. hi - lo + 1
  BY <1>2, <1>4 DEF cut
<1>6. lo + j - 1 \in DOMAIN ls
  BY <1>3, <1>5
<1> QED
  BY <1>2, <1>4, <1>5, <1>6 DEF cut

LEMMA WholeIsSited ==
    ASSUME doc \in Documents, NEW max, NEW lap, doc.type = "markdown" => Headings = <<>>
    PROVE  Sited(Section(Whole(doc.lines), 1, max, lap))
<1> DEFINE s == Section(Whole(doc.lines), 1, max, lap)
<1>1. s.path = <<>> /\ s.text.lines = doc.lines
  BY DEF Section, Whole
<1>2. Plain(s)
  BY WholeIsPlain
<1> HIDE DEF s
<1>3. ASSUME doc.type = "markdown", NEW j \in DOMAIN s.text.lines
      PROVE  Range(s.path) = PathAt(s.text.lines[j].no)
  <2>1. s.text.lines[j].no \in Nat
    BY <1>1, <1>3, DocIs
  <2>2. PathAt(s.text.lines[j].no) = {}
    BY <1>3, <2>1, PathBefore
  <2>3. Range(<<>>) = {}
    BY DEF Range
  <2> QED
    BY <1>1, <2>2, <2>3
<1>4. Headed(s)
  BY <1>3 DEF Headed
<1>5. Sited(s)
  BY <1>2, <1>4 DEF Sited
<1> QED
  BY <1>5 DEF s

LEMMA BothSited ==
    ASSUME NEW a \in Seq(ChunkSections), NEW b \in Seq(ChunkSections),
           \A k \in DOMAIN a : Sited(a[k]), \A k \in DOMAIN b : Sited(b[k])
    PROVE  \A k \in DOMAIN (a \o b) : Sited((a \o b)[k])
<1> DEFINE all == a \o b
<1>1. /\ Len(a) \in Nat /\ Len(b) \in Nat
      /\ DOMAIN all = 1 .. Len(a) + Len(b) /\ DOMAIN a = 1 .. Len(a) /\ DOMAIN b = 1 .. Len(b)
      /\ \A k \in 1 .. Len(a) : all[k] = a[k]
      /\ \A k \in 1 .. Len(b) : all[Len(a) + k] = b[k]
  BY Joined
<1> HIDE DEF all
<1>2. ASSUME NEW k \in DOMAIN all PROVE Sited(all[k])
  <2>1. CASE k \in 1 .. Len(a)
    BY <1>1, <2>1
  <2>2. CASE k \notin 1 .. Len(a)
    <3>1. k - Len(a) \in 1 .. Len(b) /\ Len(a) + (k - Len(a)) = k
      BY <1>1, <2>2
    <3>2. all[k] = b[k - Len(a)]
      BY <1>1, <3>1
    <3> QED
      BY <1>1, <3>1, <3>2
  <2> QED
    BY <2>1, <2>2
<1> QED
  BY <1>2 DEF all

LEMMA HeadingSited ==
    ASSUME doc \in Documents, NEW k \in DOMAIN Headings
    PROVE  Sited(HeadingSection(k))
<1>0. PICK n \in Nat : n = Len(doc.lines)
  BY DocIs
<1>R. Rises(Headings, n)
  BY <1>0, HeadingsAre
<1> DEFINE h == Headings[k]
           to == NextCut(Headings, k, n) - 1
           t == Stripped(Between(h, to))
           s == Section(t, h, DocMax, 3)
           it == [s EXCEPT !.path = HeadingStack[k]]
<1>1. /\ h \in 1 .. n /\ h \in Nat /\ to \in h .. n /\ to \in Nat /\ NextCut(Headings, k, n) = to + 1
      /\ ~doc.lines[h].blank
  <2>1. /\ h \in 1 .. n /\ h \in Nat /\ ~doc.lines[h].blank
        /\ Len(Headings) \in Nat /\ DOMAIN Headings = 1 .. Len(Headings)
    BY <1>0, HeadingIs
  <2>2. CASE k < Len(Headings)
    <3>1. k + 1 \in DOMAIN Headings /\ k < k + 1
      BY <2>1, <2>2
    <3>2. h < Headings[k + 1] /\ Headings[k + 1] \in 1 .. n
      BY <1>0, <3>1, HeadingIs
    <3> QED
      BY <2>1, <2>2, <3>2 DEF NextCut
  <2>3. CASE ~(k < Len(Headings))
    BY <2>1, <2>3 DEF NextCut
  <2> QED
    BY <2>2, <2>3
<1>2. HeadingSection(k) = it
  BY <1>0 DEF HeadingSection, NextCut
<1>3. it.text = t /\ it.start = h /\ it.prefix = <<>> /\ it.first = None /\ it.whole = None /\ it.path = HeadingStack[k]
  BY DEF Section
<1> HIDE DEF h, to, it, s
<1>4. Follows(t.lines, h) /\ \A j \in DOMAIN t.lines : h + j - 1 <= to /\ j \in Nat /\ j >= 1
  BY <1>0, <1>1, PieceIsPlain
<1> HIDE DEF t
<1>5. Plain(it)
  BY <1>3, <1>4 DEF Plain
<1>6. ASSUME NEW j \in DOMAIN it.text.lines PROVE Range(it.path) = PathAt(it.text.lines[j].no)
  <2>1. j \in DOMAIN t.lines /\ it.text.lines[j].no = h + j - 1
    BY <1>3, <1>4, <1>6 DEF Follows
  <2> DEFINE x == h + j - 1
  <2>2. x \in Nat /\ h <= x /\ x < NextCut(Headings, k, n)
    BY <1>1, <1>4, <2>1
  <2> HIDE DEF x
  <2>3. PathAt(x) = Range(HeadingStack[k])
    BY <1>0, <2>2, PathUnder DEF h
  <2> QED
    BY <1>3, <2>1, <2>3 DEF x
<1>7. Sited(it)
  BY <1>5, <1>6 DEF Sited, Headed
<1> QED
  BY <1>2, <1>7

LEMMA IntroSited ==
    ASSUME doc \in Documents, doc.type = "markdown", Headings # <<>>
    PROVE  \A k \in DOMAIN Intro : Sited(Intro[k])
<1>0. PICK n \in Nat : n = Len(doc.lines)
  BY DocIs
<1> DEFINE h == Headings[1]
           ls == Between(1, h - 1)
           t == Stripped(ls)
           s == Section(t, 1, DocMax, 3)
<1>1. h \in 1 .. n /\ h - 1 \in Nat /\ h \in Nat
  <2>1. 1 \in DOMAIN Headings
    BY HeadingIs
  <2>2. h \in 1 .. n
    BY <1>0, <2>1, HeadingIs
  <2> QED
    BY <2>2
<1>2. Intro = IF t.lines = <<>> THEN <<>> ELSE <<s>>
  BY DEF Intro
<1>3. s.text = t /\ s.start = 1 /\ s.prefix = <<>> /\ s.first = None /\ s.whole = None /\ s.path = <<>>
  BY DEF Section
<1> HIDE DEF h, s
<1>4. 1 \in 1 .. Len(doc.lines) + 1 /\ h - 1 \in 1 - 1 .. Len(doc.lines) /\ h - 1 - 1 + 1 = h - 1
  BY <1>0, <1>1
<1>5. /\ ls \in Seq(Lines) /\ DOMAIN ls = 1 .. h - 1 /\ Len(ls) = h - 1
      /\ \A k \in 1 .. h - 1 : ls[k] = doc.lines[1 + k - 1]
  <2> DEFINE to == h - 1
  <2>1. 1 \in 1 .. Len(doc.lines) + 1 /\ to \in 1 - 1 .. Len(doc.lines) /\ to - 1 + 1 = to
    BY <1>4
  <2> HIDE DEF to
  <2>2. /\ Between(1, to) \in Seq(Lines) /\ DOMAIN Between(1, to) = 1 .. to - 1 + 1 /\ Len(Between(1, to)) = to - 1 + 1
        /\ \A k \in 1 .. to - 1 + 1 : Between(1, to)[k] = doc.lines[1 + k - 1]
    BY <2>1, BetweenIs
  <2> QED
    BY <2>1, <2>2 DEF to
<1> HIDE DEF ls
<1>6. \A k \in DOMAIN ls : ls[k].no = k /\ k < h /\ k \in Nat
  <2>1. \A k \in 1 .. h - 1 : 1 + k - 1 = k /\ k \in 1 .. n /\ k < h /\ k \in Nat
    BY <1>1
  <2> QED
    BY <1>0, <1>5, <2>1, DocIs
<1>7. ASSUME NEW j \in DOMAIN t.lines PROVE t.lines[j].no \in Nat /\ t.lines[j].no < h
  <2>1. PICK k \in DOMAIN ls : t.lines[j] = ls[k]
    BY <1>5, StrippedAmong
  <2> QED
    BY <1>6, <2>1
<1>8. t.lines \in Seq(Lines) /\ Len(t.lines) \in Nat /\ Len(t.lines) <= h - 1
  <2>1. t \in Texts
    BY <1>5, StrippedTyped DEF Texts
  <2>2. Len(t.lines) \in Nat /\ Len(t.lines) <= Len(ls)
    BY <1>5, StrippedShorter
  <2> QED
    BY <1>5, <2>1, <2>2, TextsAre
<1>9. Headed(s)
  <2> SUFFICES ASSUME NEW j \in DOMAIN s.text.lines PROVE Range(s.path) = PathAt(s.text.lines[j].no)
    BY DEF Headed
  <2>1. s.text.lines[j].no \in Nat /\ s.text.lines[j].no < Headings[1]
    BY <1>3, <1>7 DEF h
  <2>2. PathAt(s.text.lines[j].no) = {}
    BY <2>1, PathBefore
  <2>3. Range(<<>>) = {}
    BY DEF Range
  <2> QED
    BY <1>3, <2>2, <2>3
<1>10. ASSUME t.lines # <<>> PROVE Plain(s) \/ Introduces(s)
  <2>1. CASE doc.lines[1].blank
    <3>1. Len(s.text.lines) <= Len(doc.lines)
      BY <1>0, <1>1, <1>3, <1>8
    <3> HIDE DEF t
    <3> QED
      BY <1>3, <2>1, <3>1 DEF Introduces
  <2>2. CASE ~doc.lines[1].blank
    <3>1. h - 1 >= 1
      BY <1>1, <1>8, <1>10
    <3>2. 1 \in 1 .. Len(doc.lines) /\ h - 1 \in 1 .. Len(doc.lines)
      BY <1>0, <1>1, <3>1
    <3>3. Follows(t.lines, 1)
      <4> DEFINE to == h - 1
      <4>1. to \in 1 .. Len(doc.lines)
        BY <3>2
      <4> HIDE DEF to, t
      <4>2. Follows(Stripped(Between(1, to)).lines, 1)
        BY <2>2, <3>2, <4>1, PieceIsPlain
      <4> QED
        BY <4>2 DEF to, t, ls
    <3> HIDE DEF t
    <3> QED
      BY <1>3, <3>3 DEF Plain
  <2> QED
    BY <2>1, <2>2
<1>11. t.lines # <<>> => Sited(s)
  BY <1>9, <1>10 DEF Sited
<1> HIDE DEF t
<1>12. CASE t.lines = <<>>
  BY <1>2, <1>12
<1>13. CASE t.lines # <<>>
  <2>1. Intro = <<s>>
    BY <1>2, <1>13
  <2> QED
    BY <1>11, <1>13, <2>1
<1> QED
  BY <1>12, <1>13

LEMMA MarkdownSited ==
    ASSUME doc \in Documents, doc.type = "markdown"
    PROVE  \A k \in DOMAIN MarkdownSections : Sited(MarkdownSections[k])
<1>1. CASE Headings = <<>>
  <2> DEFINE s == Section(Whole(doc.lines), 1, DocMax, 3)
  <2>1. MarkdownSections = <<s>>
    BY <1>1 DEF MarkdownSections
  <2>2. Sited(s)
    BY <1>1, WholeIsSited
  <2> HIDE DEF s
  <2> QED
    BY <2>1, <2>2
<1>2. CASE Headings # <<>>
  <2> DEFINE under == [k \in DOMAIN Headings |-> HeadingSection(k)]
  <2>1. /\ DOMAIN Headings = 1 .. Len(Headings) /\ Len(Headings) \in Nat
        /\ \A k \in DOMAIN Headings : HeadingSection(k) \in ChunkSections
    BY HeadingIs, HeadingSectionIs
  <2>2. under \in Seq(ChunkSections) /\ \A k \in DOMAIN under : under[k] = HeadingSection(k) /\ k \in DOMAIN Headings
    BY <2>1
  <2>3. \A k \in DOMAIN under : Sited(under[k])
    BY <2>2, HeadingSited
  <2>4. MarkdownSections = Intro \o under
    BY <1>2 DEF MarkdownSections
  <2>5. \A k \in DOMAIN Intro : Sited(Intro[k])
    BY <1>2, IntroSited
  <2>6. Intro \in Seq(ChunkSections)
    <3> DEFINE t == Stripped(Between(1, Headings[1] - 1))
               s == Section(t, 1, DocMax, 3)
    <3>1. Intro = <<>> \/ Intro = <<s>>
      BY DEF Intro
    <3>2. s \in ChunkSections
      <4>1. Headings[1] \in 1 .. Len(doc.lines) /\ Len(doc.lines) \in Nat
        BY <1>2, HeadingIs, DocIs
      <4>2. 1 \in 1 .. Len(doc.lines) + 1 /\ Headings[1] - 1 \in 1 - 1 .. Len(doc.lines)
        BY <4>1
      <4>3. t \in Texts
        BY <4>2, PieceShows
      <4> HIDE DEF t
      <4> QED
        BY <4>3, SectionTyped, BudgetAssumption
    <3> HIDE DEF s
    <3>3. <<>> \in Seq(ChunkSections) /\ <<s>> \in Seq(ChunkSections)
      BY <3>2
    <3> QED
      BY <3>1, <3>3
  <2> HIDE DEF under
  <2> QED
    BY <2>2, <2>3, <2>4, <2>5, <2>6, BothSited
<1> QED
  BY <1>1, <1>2

LEMMA YamlSited ==
    ASSUME doc \in Documents, doc.type = "yaml"
    PROVE  \A k \in DOMAIN YamlSections : Sited(YamlSections[k])
<1>1. CASE Keys = <<>>
  <2> DEFINE s == Section(Whole(doc.lines), 1, StructMax, 2)
  <2>1. YamlSections = <<s>>
    BY <1>1 DEF YamlSections, Blocks
  <2>2. Sited(s)
    BY WholeIsSited
  <2> HIDE DEF s
  <2> QED
    BY <2>1, <2>2
<1>2. CASE Keys # <<>>
  <2>0. PICK n \in Nat : n = Len(doc.lines)
    BY DocIs
  <2>R. Rises(Keys, n)
    BY <2>0, KeysAre
  <2>1. ASSUME NEW k \in DOMAIN Keys PROVE Sited(YamlSection(k))
    <3> DEFINE h == Keys[k]
               to == NextCut(Keys, k, n) - 1
               t == Stripped(Between(h, to))
               s == Section(t, h, StructMax, 2)
               it == [s EXCEPT !.symbol = h]
    <3>1. h \in 1 .. n /\ Len(Keys) \in Nat /\ DOMAIN Keys = 1 .. Len(Keys)
      BY <2>R DEF Rises
    <3>2. to \in h .. n
      <4>1. CASE k < Len(Keys)
        <5>1. k + 1 \in DOMAIN Keys /\ k < k + 1
          BY <3>1, <4>1
        <5>2. h < Keys[k + 1] /\ Keys[k + 1] \in 1 .. n
          BY <2>R, <5>1 DEF Rises
        <5> QED
          BY <3>1, <4>1, <5>2 DEF NextCut
      <4>2. CASE ~(k < Len(Keys))
        BY <3>1, <4>2 DEF NextCut
      <4> QED
        BY <4>1, <4>2
    <3>3. ~doc.lines[h].blank
      <4> DEFINE S == {i \in DOMAIN doc.lines : doc.lines[i].kind = "key"}
      <4>1. n \in Nat /\ S \in SUBSET (1 .. n) /\ \A i \in S : i \in DOMAIN doc.lines /\ doc.lines[i].kind = "key"
        BY <2>0, DocIs
      <4>2. Keys = InOrder(S, n)
        BY <2>0 DEF Keys
      <4> HIDE DEF S
      <4>3. h \in S
        BY <4>1, <4>2, InOrderIs
      <4>4. h \in DOMAIN doc.lines /\ doc.lines[h].kind = "key"
        BY <4>1, <4>3
      <4> HIDE DEF h
      <4>5. doc.lines[h].blank => doc.lines[h].kind = "blank"
        BY <4>4, DocumentsAssumption
      <4> QED
        BY <4>4, <4>5
    <3>4. YamlSection(k) = it
      BY <2>0 DEF YamlSection, NextCut
    <3>5. it.text = t /\ it.start = h /\ it.prefix = <<>> /\ it.first = None /\ it.whole = None
      BY DEF Section
    <3> HIDE DEF h, to, it, s
    <3>6. Follows(t.lines, h)
      BY <2>0, <3>1, <3>2, <3>3, PieceIsPlain
    <3> HIDE DEF t
    <3>7. Plain(it)
      BY <3>5, <3>6 DEF Plain
    <3>8. Sited(it)
      BY <3>7 DEF Sited, Headed
    <3> QED
      BY <3>4, <3>8
  <2>2. YamlSections = [k \in DOMAIN Keys |-> YamlSection(k)]
    BY <1>2 DEF YamlSections
  <2> QED
    BY <2>1, <2>2
<1> QED
  BY <1>1, <1>2

-----------------------------------------------------------------------------
(* Where the lines of a Turtle statement come from.                        *)

\* What does not begin or end with a blank line, strip() leaves as it is.
LEMMA SolidStripped ==
    ASSUME NEW ls \in Seq(Lines), ls # <<>>, \A j \in DOMAIN ls : ~ls[j].blank
    PROVE  Stripped(ls).lines = ls
<1>1. Len(ls) \in Nat \ {0} /\ DOMAIN ls = 1 .. Len(ls)
  OBVIOUS
<1>2. \E j \in DOMAIN ls : ~ls[j].blank
  BY <1>1
<1>3. PICK lo \in DOMAIN ls, hi \in DOMAIN ls :
        /\ lo <= hi /\ Stripped(ls).lines = SubSeq(ls, lo, hi)
        /\ \A j \in DOMAIN ls : ls[j].blank \/ j \in lo .. hi
  BY <1>2, StrippedIs
<1>4. 1 \in lo .. hi /\ Len(ls) \in lo .. hi
  <2>1. 1 \in DOMAIN ls /\ Len(ls) \in DOMAIN ls
    BY <1>1
  <2> QED
    BY <1>3, <2>1
<1>5. lo = 1 /\ hi = Len(ls)
  BY <1>1, <1>3, <1>4
<1> DEFINE cut == SubSeq(ls, lo, hi)
<1>6. cut \in Seq(Lines) /\ Len(cut) = Len(ls) /\ \A k \in 1 .. Len(ls) : cut[k] = ls[k]
  <2>1. lo \in 1 .. Len(ls) + 1 /\ hi \in lo - 1 .. Len(ls) /\ hi - lo + 1 = Len(ls)
    BY <1>1, <1>5
  <2>2. \A k \in 1 .. Len(ls) : lo + k - 1 = k
    BY <1>1, <1>5
  <2>3. cut \in Seq(Lines) /\ Len(cut) = hi - lo + 1 /\ \A k \in 1 .. hi - lo + 1 : cut[k] = ls[lo + k - 1]
    BY <2>1, SubSeqIs
  <2> HIDE DEF cut
  <2> QED
    BY <2>1, <2>2, <2>3
<1>7. Stripped(ls).lines = cut
  BY <1>3
<1> HIDE DEF cut
<1>8. cut = ls
  BY <1>6
<1> QED
  BY <1>7, <1>8

\* A statement of which lines have been read.
Opened(ls, k) ==
    /\ ls[1].no \in 1 .. k /\ ~doc.lines[ls[1].no].blank
    /\ Aligned(ls, ls[1].no, k)
    /\ Len(ls) <= k - ls[1].no + 1
    /\ Len(ls) = k - ls[1].no + 1 \/ \E i \in 1 .. k : Dropped(i)
Unstopped(begin, k) == \A j \in begin .. k : doc.lines[j].kind # "stop"

\* The first prefix there is up to some line.
FirstUpto(first, k) ==
    \/ first = None /\ \A i \in 1 .. k : doc.lines[i].kind # "prefix"
    \/ FirstPrefix(first) /\ first <= k

ScanTraces(scan, k) ==
    /\ FirstUpto(scan.first, k)
    /\ scan.statement # <<>> => Opened(scan.statement, k) /\ Unstopped(scan.statement[1].no, k)
    /\ \A q \in DOMAIN scan.found : Stated(scan.found[q])

LEMMA OpenedSkips ==
    ASSUME NEW k \in Nat \ {0}, NEW ls \in Seq(Lines), Opened(ls, k - 1), Dropped(k)
    PROVE  Opened(ls, k)
<1> DEFINE begin == ls[1].no
<1>1. /\ begin \in 1 .. k - 1 /\ ~doc.lines[begin].blank /\ Aligned(ls, begin, k - 1)
      /\ Len(ls) <= k - 1 - begin + 1 /\ Len(ls) \in Nat
  BY DEF Opened
<1> HIDE DEF begin
<1>2. k \in 1 .. k /\ begin \in 1 .. k /\ Len(ls) <= k - begin + 1
  BY <1>1
<1>3. Aligned(ls, begin, k)
  BY <1>1 DEF Aligned
<1> QED
  BY <1>1, <1>2, <1>3 DEF Opened, begin

LEMMA OpenedGrows ==
    ASSUME doc \in Documents, NEW k \in DOMAIN doc.lines, ~doc.lines[k].blank, NEW ls \in Seq(Lines),
           ls # <<>> => Opened(ls, k - 1)
    PROVE  /\ Opened(Append(ls, doc.lines[k]), k)
           /\ Append(ls, doc.lines[k])[1].no = IF ls = <<>> THEN k ELSE ls[1].no
<1> DEFINE l == doc.lines[k]
           new == Append(ls, l)
<1>1. l \in Lines /\ l.no = k /\ ~l.blank /\ k \in Nat \ {0}
  BY DocIs
<1> HIDE DEF l
<1>2. /\ new \in Seq(Lines) /\ DOMAIN new = 1 .. Len(ls) + 1 /\ Len(ls) \in Nat /\ DOMAIN ls = 1 .. Len(ls)
      /\ new[Len(ls) + 1] = l /\ \A j \in DOMAIN ls : new[j] = ls[j]
  BY <1>1, AppendIs
<1>3. Len(new) = Len(ls) + 1
  OBVIOUS
<1> HIDE DEF new
<1>4. CASE ls = <<>>
  <2>1. Len(ls) = 0
    BY <1>4
  <2>2. DOMAIN new = {1} /\ new[1] = l /\ Len(new) = 1
    BY <1>2, <1>3, <2>1
  <2>3. k + 1 - 1 = k /\ k \in k .. k /\ k \in 1 .. k /\ k - k + 1 = 1
    BY <1>1
  <2>4. Aligned(new, k, k)
    BY <1>1, <2>2, <2>3 DEF Aligned
  <2> QED
    BY <1>1, <1>4, <2>2, <2>3, <2>4 DEF Opened, l, new
<1>5. CASE ls # <<>>
  <2> DEFINE begin == ls[1].no
  <2>1. /\ begin \in 1 .. k - 1 /\ ~doc.lines[begin].blank /\ Aligned(ls, begin, k - 1)
        /\ Len(ls) <= k - 1 - begin + 1
        /\ Len(ls) = k - 1 - begin + 1 \/ \E i \in 1 .. k - 1 : Dropped(i)
    BY <1>5 DEF Opened
  <2>2. 1 \in DOMAIN ls /\ new[1] = ls[1]
    BY <1>2, <1>5
  <2> HIDE DEF begin
  <2>3. ASSUME NEW j \in DOMAIN new
        PROVE  /\ ~new[j].blank /\ new[j].no \in begin + j - 1 .. k
               /\ new[j].no = begin + j - 1 \/ \E i \in 1 .. new[j].no : Dropped(i)
    <3>1. CASE j \in DOMAIN ls
      <4>1. /\ ~ls[j].blank /\ ls[j].no \in begin + j - 1 .. k - 1
            /\ ls[j].no = begin + j - 1 \/ \E i \in 1 .. ls[j].no : Dropped(i)
        BY <2>1, <3>1 DEF Aligned
      <4>2. new[j] = ls[j]
        BY <1>2, <3>1
      <4> QED
        BY <1>1, <2>1, <4>1, <4>2
    <3>2. CASE j \notin DOMAIN ls
      <4>1. j = Len(ls) + 1 /\ new[j] = l
        BY <1>2, <3>2
      <4>2. k \in begin + j - 1 .. k
        BY <1>1, <1>2, <2>1, <4>1
      <4>3. k = begin + j - 1 \/ \E i \in 1 .. k : Dropped(i)
        <5>1. \A i \in 1 .. k - 1 : i \in 1 .. k
          BY <1>1
        <5> QED
          BY <1>1, <1>2, <2>1, <4>1, <5>1
      <4> QED
        BY <1>1, <4>1, <4>2, <4>3
    <3> QED
      BY <3>1, <3>2
  <2>4. Aligned(new, begin, k)
    BY <2>3 DEF Aligned
  <2>5. Len(new) <= k - begin + 1 /\ begin \in 1 .. k
    BY <1>1, <1>2, <1>3, <2>1
  <2>6. Len(new) = k - begin + 1 \/ \E i \in 1 .. k : Dropped(i)
    <3>1. \A i \in 1 .. k - 1 : i \in 1 .. k
      BY <1>1
    <3> QED
      BY <1>1, <1>2, <1>3, <2>1, <3>1
  <2>7. new[1].no = begin
    BY <2>2 DEF begin
  <2>8. Opened(new, k)
    BY <2>1, <2>4, <2>5, <2>6, <2>7 DEF Opened
  <2> QED
    BY <1>5, <2>7, <2>8 DEF begin, new, l
<1> QED
  BY <1>4, <1>5

\* A statement that ends at some line becomes a section.
LEMMA StatedIs ==
    ASSUME doc \in Documents, doc.type = "turtle", NEW k \in DOMAIN doc.lines, NEW ls \in Seq(Lines), ls # <<>>,
           Opened(ls, k), Unstopped(ls[1].no, k - 1), NEW s \in ChunkSections, s.text = Stripped(ls),
           FirstUpto(s.first, k), s.start = ls[1].no,
           (s.symbol = None /\ s.whole = None) \/ s.whole = k
    PROVE  Stated(s)
<1>0. PICK n \in Nat : n = Len(doc.lines) /\ DOMAIN doc.lines = 1 .. n
  BY DocIs
<1> DEFINE begin == ls[1].no
<1>1. begin \in 1 .. k /\ ~doc.lines[begin].blank /\ Aligned(ls, begin, k)
  BY DEF Opened
<1>2. s.text.lines = ls
  <2>1. \A j \in DOMAIN ls : ~ls[j].blank
    BY <1>1 DEF Aligned
  <2> QED
    BY <2>1, SolidStripped
<1>3. s.start = begin
  OBVIOUS
<1>4. s.first \in Nat /\ s.whole \in Nat /\ k \in 1 .. n
  BY <1>0 DEF ChunkSections
<1> DEFINE upto == IF s.whole = None THEN Len(doc.lines) ELSE s.whole
<1>5. upto \in Nat /\ k <= upto
  BY <1>0, <1>4
<1>6. \A j \in begin .. k - 1 : doc.lines[j].kind # "stop"
  BY DEF Unstopped
<1> HIDE DEF begin, upto
<1>7. Aligned(ls, begin, upto)
  <2>1. \A x \in Nat : \A y : y \in x .. k => y \in x .. upto
    BY <1>4, <1>5
  <2>2. \A j \in DOMAIN ls : begin + j - 1 \in Nat
    BY <1>1
  <2> QED
    BY <1>1, <2>1, <2>2 DEF Aligned
<1>8. Late(begin, s.first)
  <2>1. s.first # None => FirstPrefix(s.first) /\ s.first <= k
    BY DEF FirstUpto
  <2>2. ASSUME s.first # None, NEW j \in begin .. s.first - 1 PROVE doc.lines[j].kind # "stop"
    <3>1. j \in begin .. k - 1
      BY <1>1, <1>4, <2>1, <2>2
    <3> QED
      BY <1>6, <3>1
  <2> QED
    BY <2>1, <2>2 DEF Late
<1>9. s.whole # None => s.whole \in DOMAIN doc.lines /\ s.first <= s.whole
  <2>1. s.first <= k
    BY <1>4 DEF FirstUpto, None
  <2> QED
    BY <2>1
<1>10. s.whole = None => s.symbol = None
  BY <1>4 DEF None
<1>11. begin \in DOMAIN doc.lines
  BY <1>0, <1>1, <1>4
<1> QED
  BY <1>1, <1>2, <1>3, <1>7, <1>8, <1>9, <1>10, <1>11 DEF Stated, begin, upto

LEMMA FirstLater ==
    ASSUME NEW k \in Nat \ {0}, NEW first \in Nat, FirstUpto(first, k - 1), doc.lines[k].kind # "prefix"
    PROVE  FirstUpto(first, k)
<1>1. \A i \in 1 .. k : i \in 1 .. k - 1 \/ i = k
  OBVIOUS
<1>2. CASE first = None /\ \A i \in 1 .. k - 1 : doc.lines[i].kind # "prefix"
  BY <1>1, <1>2 DEF FirstUpto
<1>3. CASE FirstPrefix(first) /\ first <= k - 1
  BY <1>3 DEF FirstUpto
<1> QED
  BY <1>2, <1>3 DEF FirstUpto

LEMMA TracesStep ==
    ASSUME doc \in Documents, doc.type = "turtle", NEW k \in DOMAIN doc.lines,
           NEW scan \in ScanStates, ScanTraces(scan, k - 1)
    PROVE  ScanTraces(ScanTurtle(scan, doc.lines[k]), k)
<1> DEFINE l == doc.lines[k]
           new == ScanTurtle(scan, l)
           ls == scan.statement
           begin == ls[1].no
           longer == Append(ls, l)
<1>1. l \in Lines /\ l.no = k /\ k \in Nat \ {0} /\ l.blank \in BOOLEAN /\ (l.blank => l.kind = "blank")
  BY DocIs, LineIs, DocumentsAssumption
<1>2. ls \in Seq(Lines) /\ scan.found \in Seq(ChunkSections) /\ scan.first \in Nat
  BY ScanFields
<1>3. /\ FirstUpto(scan.first, k - 1)
      /\ ls # <<>> => Opened(ls, k - 1) /\ Unstopped(begin, k - 1)
      /\ \A q \in DOMAIN scan.found : Stated(scan.found[q])
  BY DEF ScanTraces
<1>4. ls # <<>> => begin \in Nat
  BY <1>3 DEF Opened
<1>5. new \in ScanStates
  BY <1>1, ScanTurtleIs
<1> HIDE DEF begin, ls, l
<1>6. ASSUME Dropped(k), l.kind # "stop", new.statement = ls, new.found = scan.found, FirstUpto(new.first, k)
      PROVE  ScanTraces(new, k)
  <2>1. ls # <<>> => Opened(ls, k)
    BY <1>1, <1>2, <1>3, <1>6, OpenedSkips
  <2>2. ls # <<>> => Unstopped(begin, k)
    <3> SUFFICES ASSUME ls # <<>>, NEW j \in begin .. k PROVE doc.lines[j].kind # "stop"
      BY DEF Unstopped
    <3>1. j \in begin .. k - 1 \/ j = k
      BY <1>1, <1>4
    <3> QED
      BY <1>3, <1>6, <3>1 DEF Unstopped, l
  <2> HIDE DEF new
  <2> QED
    BY <1>3, <1>6, <2>1, <2>2 DEF ScanTraces, begin
<1>7. ASSUME l.blank, new = scan PROVE ScanTraces(new, k)
  <2>1. Dropped(k) /\ l.kind # "stop" /\ l.kind # "prefix"
    BY <1>1, <1>7 DEF Dropped, l
  <2>2. FirstUpto(scan.first, k)
    BY <1>1, <1>2, <1>3, <2>1, FirstLater DEF l
  <2> QED
    BY <1>6, <1>7, <2>1, <2>2 DEF ls
<1>8. ASSUME ~l.blank, l.kind = "prefix",
             new.first = (IF scan.first = None THEN l.no ELSE scan.first),
             new.statement = scan.statement, new.found = scan.found
      PROVE  ScanTraces(new, k)
  <2>1. Dropped(k) /\ l.kind # "stop"
    BY <1>8 DEF Dropped, l
  <2>2. FirstUpto(new.first, k)
    <3>1. CASE scan.first = None /\ \A i \in 1 .. k - 1 : doc.lines[i].kind # "prefix"
      <4>1. new.first = k /\ FirstPrefix(k)
        BY <1>1, <1>8, <3>1 DEF FirstPrefix, l
      <4> HIDE DEF new
      <4> QED
        BY <1>1, <4>1 DEF FirstUpto
    <3>2. CASE FirstPrefix(scan.first) /\ scan.first <= k - 1
      <4>1. scan.first # None
        BY <3>2, DocIs DEF FirstPrefix, None
      <4>2. new.first = scan.first /\ scan.first <= k
        BY <1>1, <1>2, <1>8, <3>2, <4>1
      <4> HIDE DEF new
      <4> QED
        BY <3>2, <4>2 DEF FirstUpto
    <3> QED
      BY <1>3, <3>1, <3>2 DEF FirstUpto
  <2> QED
    BY <1>6, <1>8, <2>1, <2>2 DEF ls
<1>9. ASSUME ~l.blank, l.kind # "prefix", new.first = scan.first PROVE ScanTraces(new, k)
  <2>1. FirstUpto(scan.first, k)
    BY <1>1, <1>2, <1>3, <1>9, FirstLater DEF l
  <2>2. Opened(longer, k) /\ longer[1].no = IF ls = <<>> THEN k ELSE begin
    BY <1>2, <1>3, <1>9, OpenedGrows DEF l, begin
  <2>3. longer \in Seq(Lines) /\ longer # <<>>
    BY <1>1, <1>2
  <2>4. Unstopped(longer[1].no, k - 1)
    <3> SUFFICES ASSUME NEW j \in longer[1].no .. k - 1 PROVE doc.lines[j].kind # "stop"
      BY DEF Unstopped
    <3>1. ls # <<>> /\ j \in begin .. k - 1
      BY <1>1, <2>2
    <3> QED
      BY <1>3, <3>1 DEF Unstopped
  <2> HIDE DEF longer
  <2>5. CASE l.kind # "stop" /\ new.statement = longer /\ new.found = scan.found
    <3>1. Unstopped(longer[1].no, k)
      <4> SUFFICES ASSUME NEW j \in longer[1].no .. k PROVE doc.lines[j].kind # "stop"
        BY DEF Unstopped
      <4>1. longer[1].no \in Nat
        BY <1>1, <1>4, <2>2
      <4>2. j \in longer[1].no .. k - 1 \/ j = k
        BY <1>1, <4>1
      <4> QED
        BY <2>4, <2>5, <4>2 DEF Unstopped, l
    <3> HIDE DEF new
    <3> QED
      BY <1>3, <1>9, <2>1, <2>2, <2>5, <3>1 DEF ScanTraces
  <2>6. CASE /\ new.statement = <<>>
             /\ \E s \in ChunkSections :
                  /\ s.text = Stripped(longer) /\ s.first = scan.first
                  /\ Named(s, longer[1].no, k) /\ new.found = Append(scan.found, s)
    <3>1. PICK s \in ChunkSections :
            s.text = Stripped(longer) /\ s.first = scan.first /\ Named(s, longer[1].no, k)
            /\ new.found = Append(scan.found, s)
      BY <2>6
    <3>2. s.start = longer[1].no /\ ((s.symbol = None /\ s.whole = None) \/ s.whole = k)
      BY <3>1 DEF Named
    <3>3. Stated(s)
      BY <2>1, <2>2, <2>3, <2>4, <3>1, <3>2, StatedIs
    <3> HIDE DEF new
    <3>4. /\ DOMAIN new.found = 1 .. Len(scan.found) + 1 /\ Len(scan.found) \in Nat
          /\ new.found[Len(scan.found) + 1] = s /\ DOMAIN scan.found = 1 .. Len(scan.found)
          /\ \A q \in DOMAIN scan.found : q \in DOMAIN new.found /\ new.found[q] = scan.found[q]
      BY <1>2, <3>1, AppendIs
    <3>5. \A q \in DOMAIN new.found : q \in DOMAIN scan.found \/ q = Len(scan.found) + 1
      BY <3>4
    <3>6. \A q \in DOMAIN new.found : Stated(new.found[q])
      BY <1>3, <3>3, <3>4, <3>5
    <3> QED
      BY <1>9, <2>1, <2>6, <3>6 DEF ScanTraces
  <2> QED
    <3>1. \/ l.kind # "stop" /\ new.statement = longer /\ new.found = scan.found
          \/ /\ new.statement = <<>>
             /\ \E s \in ChunkSections :
                  /\ s.text = Stripped(longer) /\ s.first = scan.first
                  /\ Named(s, longer[1].no, l.no) /\ new.found = Append(scan.found, s)
      BY <1>1, <1>9, ScanTurtleIs DEF longer, new, ls
    <3> QED
      BY <1>1, <2>5, <2>6, <3>1
<1>10. \/ l.blank /\ new = scan
       \/ /\ ~l.blank /\ l.kind = "prefix"
          /\ new.first = (IF scan.first = None THEN l.no ELSE scan.first)
          /\ new.statement = scan.statement /\ new.found = scan.found
       \/ ~l.blank /\ l.kind # "prefix" /\ new.first = scan.first
  BY <1>1, ScanTurtleIs DEF new
<1>11. ScanTraces(new, k)
  BY <1>7, <1>8, <1>9, <1>10
<1> QED
  BY <1>11 DEF l, new

LEMMA ScanAlwaysTraces ==
    ASSUME doc \in Documents, doc.type = "turtle", NEW m \in 0 .. Len(doc.lines)
    PROVE  ScanTraces(Scanned[m], m)
<1> DEFINE bad == {k \in 0 .. Len(doc.lines) : ~ScanTraces(Scanned[k], k)}
<1>0. Len(doc.lines) \in Nat
  BY DocIs
<1> SUFFICES ASSUME bad # {} PROVE FALSE
  OBVIOUS
<1>1. PICK k \in bad : \A j \in bad : k <= j
  <2>1. bad \in SUBSET Nat
    BY <1>0
  <2> HIDE DEF bad
  <2> QED
    BY <2>1, Smallest
<1>2. k \in 0 .. Len(doc.lines) /\ ~ScanTraces(Scanned[k], k)
  OBVIOUS
<1>3. CASE k = 0
  <2>1. Scanned[0].statement = <<>> /\ Scanned[0].found = <<>> /\ Scanned[0].first = None
    BY ScannedIs DEF TurtleStart
  <2>2. (\A i \in 1 .. 0 : FALSE) /\ DOMAIN <<>> = {}
    OBVIOUS
  <2>3. ScanTraces(Scanned[0], 0)
    BY <2>1, <2>2 DEF ScanTraces, FirstUpto
  <2> QED
    BY <1>2, <1>3, <2>3
<1>4. CASE k # 0
  <2>1. k \in 1 .. Len(doc.lines) /\ k - 1 \in 0 .. Len(doc.lines) /\ ~(k <= k - 1) /\ k \in DOMAIN doc.lines
    BY <1>0, <1>2, <1>4, DocIs
  <2>2. k - 1 \notin bad
    <3> HIDE DEF bad
    <3> QED
      BY <1>1, <2>1, Zenon
  <2>3. ScanTraces(Scanned[k - 1], k - 1)
    BY <2>1, <2>2
  <2>4. Scanned[k - 1] \in ScanStates /\ Scanned[k] = ScanTurtle(Scanned[k - 1], doc.lines[k])
    BY <2>1, ScannedIs
  <2>5. ScanTraces(ScanTurtle(Scanned[k - 1], doc.lines[k]), k)
    <3> HIDE DEF bad
    <3> QED
      BY <2>1, <2>3, <2>4, TracesStep
  <2> QED
    BY <1>2, <2>4, <2>5
<1> QED
  BY <1>3, <1>4

LEMMA StatedIsSited ==
    ASSUME NEW s, Stated(s)
    PROVE  Sited(s)
BY DEF Stated, Sited, Headed

LEMMA TurtleSited ==
    ASSUME doc \in Documents, doc.type = "turtle"
    PROVE  \A k \in DOMAIN TurtleSections : Sited(TurtleSections[k])
<1>0. PICK n \in Nat : n = Len(doc.lines) /\ DOMAIN doc.lines = 1 .. n
  BY DocIs
<1> DEFINE scan == Scanned[n]
           trail == Trailing(scan)
           all == scan.found \o trail
<1>1. scan \in ScanStates /\ ScanTraces(scan, n)
  <2>1. n \in 0 .. Len(doc.lines)
    BY <1>0
  <2> QED
    BY <1>0, <2>1, ScannedIs, ScanAlwaysTraces
<1>2. TurtleSections = IF all = <<>> THEN Blocks ELSE all
  BY <1>0 DEF TurtleSections
<1> HIDE DEF scan
<1>3. scan.found \in Seq(ChunkSections) /\ scan.statement \in Seq(Lines)
  BY <1>1, ScanFields
<1>4. \A q \in DOMAIN scan.found : Sited(scan.found[q])
  BY <1>1, StatedIsSited DEF ScanTraces
<1>5. trail \in Seq(ChunkSections) /\ \A q \in DOMAIN trail : Sited(trail[q])
  <2>1. CASE scan.statement = <<>>
    <3>1. trail = <<>>
      BY <2>1 DEF Trailing
    <3> QED
      BY <3>1
  <2>2. CASE scan.statement # <<>>
    <3>1. PICK s \in ChunkSections :
            /\ trail = <<s>> /\ s.text = Stripped(scan.statement) /\ s.first = scan.first
            /\ s.start = scan.statement[1].no /\ s.whole = n
      BY <1>0, <1>1, <2>2, TrailingIs
    <3> HIDE DEF trail
    <3> DEFINE begin == scan.statement[1].no
    <3>2. /\ Opened(scan.statement, n) /\ begin \in 1 .. n /\ n \in DOMAIN doc.lines
          /\ Unstopped(begin, n) /\ FirstUpto(s.first, n)
      <4>1. Opened(scan.statement, n) /\ Unstopped(begin, n) /\ FirstUpto(s.first, n)
        BY <1>1, <2>2, <3>1 DEF ScanTraces
      <4>2. begin \in 1 .. n
        BY <4>1 DEF Opened
      <4> QED
        BY <1>0, <4>1, <4>2
    <3>3. Unstopped(begin, n - 1)
      <4>1. \A j \in begin .. n - 1 : j \in begin .. n
        BY <3>2
      <4> QED
        BY <3>2, <4>1 DEF Unstopped
    <3>4. Stated(s)
      BY <1>3, <2>2, <3>1, <3>2, <3>3, StatedIs
    <3>5. Sited(s)
      BY <3>4, StatedIsSited
    <3> QED
      BY <3>1, <3>5
  <2> QED
    BY <2>1, <2>2
<1>6. CASE all = <<>>
  <2> DEFINE s == Section(Whole(doc.lines), 1, StructMax, 2)
  <2>1. TurtleSections = <<s>>
    BY <1>2, <1>6 DEF Blocks
  <2>2. Sited(s)
    BY WholeIsSited
  <2> HIDE DEF s
  <2> QED
    BY <2>1, <2>2
<1>7. CASE all # <<>>
  <2>1. TurtleSections = all
    BY <1>2, <1>7
  <2> HIDE DEF trail
  <2> QED
    BY <1>3, <1>4, <1>5, <2>1, BothSited
<1> QED
  BY <1>6, <1>7

LEMMA SectionsSited ==
    ASSUME doc \in Documents
    PROVE  \A k \in DOMAIN SectionsOf : Sited(SectionsOf[k])
<1>1. CASE doc.type = "markdown"
  BY <1>1, MarkdownSited DEF SectionsOf
<1>2. CASE doc.type = "yaml"
  BY <1>2, YamlSited DEF SectionsOf
<1>3. CASE doc.type = "turtle"
  BY <1>3, TurtleSited DEF SectionsOf
<1>4. ASSUME NEW max, NEW lap, doc.type # "markdown"
      PROVE  \A k \in DOMAIN <<Section(Whole(doc.lines), 1, max, lap)>> :
                Sited(<<Section(Whole(doc.lines), 1, max, lap)>>[k])
  <2> DEFINE s == Section(Whole(doc.lines), 1, max, lap)
  <2>1. Sited(s)
    BY <1>4, WholeIsSited
  <2> HIDE DEF s
  <2>2. \A k \in DOMAIN <<s>> : Sited(<<s>>[k])
    BY <2>1
  <2> QED
    BY <2>2 DEF s
<1>5. CASE doc.type = "json"
  <2>1. SectionsOf = <<Section(Whole(doc.lines), 1, StructMax, 2)>>
    BY <1>5 DEF SectionsOf, Blocks
  <2> QED
    BY <1>4, <1>5, <2>1
<1>6. CASE doc.type = "java"
  <2>1. SectionsOf = <<Section(Whole(doc.lines), 1, CodeMax, 4)>>
    BY <1>6 DEF SectionsOf, Undivided
  <2> QED
    BY <1>4, <1>6, <2>1
<1>7. CASE doc.type = "other"
  <2>1. SectionsOf = <<Section(Whole(doc.lines), 1, DocMax, 3)>>
    BY <1>7 DEF SectionsOf, Undivided
  <2> QED
    BY <1>4, <1>7, <2>1
<1>8. CASE doc.type = "python"
  <2>1. \A k \in DOMAIN SectionsOf : Plain(SectionsOf[k])
    BY <1>8, SectionsCarry
  <2> QED
    BY <1>8, <2>1 DEF Sited, Headed
<1> QED
  <2>1. doc.type \in Types
    BY DocIs
  <2> QED
    BY <1>1, <1>2, <1>3, <1>5, <1>6, <1>7, <1>8, <2>1 DEF Types

-----------------------------------------------------------------------------
(* What the chunks of a section claim.                                     *)

Fails == doc.type = "turtle" /\ \E i \in DOMAIN doc.lines : ~doc.lines[i].blank /\ LatePrefix(i, Len(doc.lines))

Spans(c) ==
    /\ c.start \in DOMAIN doc.lines /\ c.end \in c.start .. Len(doc.lines) + 1
    /\ Shifted(c) \/ c.lines \subseteq c.start .. c.end
UnderHeadings(c) == doc.type = "markdown" => Range(c.path) = PathAt(Min(c.lines))
Traced(c) == Spans(c) /\ UnderHeadings(c)

\* A chunk made of some lines of a section.
PartOf(c, s, from, to) ==
    /\ c.path = s.path /\ c.symbol = s.symbol
    /\ c.start = IF s.first = None THEN s.start + from ELSE s.first
    /\ c.lines # {} /\ \A x \in c.lines : \E j \in from + 1 .. to : x = s.text.lines[j].no

LEMMA SectionLines ==
    ASSUME NEW s \in ChunkSections
    PROVE  /\ s.text.lines \in Seq(Lines) /\ Len(s.text.lines) \in Nat
           /\ DOMAIN s.text.lines = 1 .. Len(s.text.lines)
           /\ s.start \in Nat \ {0} /\ s.first \in Nat /\ s.whole \in Nat
<1> DEFINE ls == s.text.lines
<1>1. ls \in Seq(Lines)
  BY TextsAre DEF ChunkSections
<1> HIDE DEF ls
<1>2. Len(ls) \in Nat /\ DOMAIN ls = 1 .. Len(ls)
  BY <1>1
<1> QED
  BY <1>1, <1>2 DEF ls, ChunkSections

LEMMA PartPlaced ==
    ASSUME doc \in Documents, NEW s \in ChunkSections, Headed(s), NEW c, NEW from \in Nat, NEW to \in Nat,
           to <= Len(s.text.lines), PartOf(c, s, from, to)
    PROVE  c.lines \in SUBSET Nat /\ Min(c.lines) \in c.lines /\ UnderHeadings(c)
<1>1. /\ s.text.lines \in Seq(Lines) /\ Len(s.text.lines) \in Nat
      /\ DOMAIN s.text.lines = 1 .. Len(s.text.lines)
  BY SectionLines
<1>2. \A j \in from + 1 .. to : j \in DOMAIN s.text.lines
  BY <1>1
<1>3. \A x \in c.lines : \E j \in DOMAIN s.text.lines : x = s.text.lines[j].no
  BY <1>2 DEF PartOf
<1>4. \A j \in DOMAIN s.text.lines : s.text.lines[j].no \in Nat
  <2> DEFINE ls == s.text.lines
  <2>1. \A j \in DOMAIN ls : ls[j] \in Lines
    BY <1>1
  <2> HIDE DEF ls
  <2>2. \A j \in DOMAIN ls : ls[j].no \in Nat
    BY <2>1, LineIs
  <2> QED
    BY <2>2 DEF ls
<1>5. c.lines \in SUBSET Nat
  BY <1>3, <1>4
<1>6. c.lines # {} /\ c.path = s.path
  BY DEF PartOf
<1>7. Min(c.lines) \in c.lines
  BY <1>5, <1>6, MinOf
<1>8. PICK j \in DOMAIN s.text.lines : Min(c.lines) = s.text.lines[j].no
  BY <1>3, <1>7
<1>9. UnderHeadings(c)
  BY <1>6, <1>8 DEF Headed, UnderHeadings
<1> QED
  BY <1>5, <1>7, <1>9

LEMMA PlainSpans ==
    ASSUME doc \in Documents, NEW s \in ChunkSections, Plain(s), NEW c, NEW from \in Nat, NEW to \in Nat,
           from < to, to <= Len(s.text.lines), PartOf(c, s, from, to),
           c.end \in {s.start + to - 1, s.start + Len(s.text.lines)}
    PROVE  Spans(c)
<1>0. PICK n \in Nat : n = Len(doc.lines) /\ DOMAIN doc.lines = 1 .. n
  BY DocIs
<1> DEFINE ls == s.text.lines
           begin == s.start
           size == Len(ls)
<1>1. size \in Nat /\ DOMAIN ls = 1 .. size /\ begin \in Nat \ {0}
  BY SectionLines
<1>2. /\ \A j \in DOMAIN ls : begin + j - 1 \in 1 .. n /\ ls[j].no = begin + j - 1
      /\ s.first = None
  BY <1>0 DEF Plain, Follows
<1>3. /\ c.start = begin + from /\ c.end \in {begin + to - 1, begin + size}
      /\ \A x \in c.lines : \E j \in from + 1 .. to : x = ls[j].no
  BY <1>2 DEF PartOf
<1>4. to <= size
  OBVIOUS
<1> HIDE DEF ls, begin, size
<1>5. from + 1 \in DOMAIN ls /\ size \in DOMAIN ls
  BY <1>1, <1>4
<1>6. begin + (from + 1) - 1 \in 1 .. n /\ begin + size - 1 \in 1 .. n
  BY <1>2, <1>5
<1>7. c.start \in 1 .. n /\ c.end \in c.start .. n + 1 /\ begin + to - 1 <= c.end
  BY <1>1, <1>3, <1>4, <1>6
<1>8. ASSUME NEW x \in c.lines PROVE x \in c.start .. c.end
  <2>1. PICK j \in from + 1 .. to : x = ls[j].no
    BY <1>3
  <2>2. j \in DOMAIN ls
    BY <1>1, <1>4
  <2>3. x = begin + j - 1
    BY <1>2, <2>1, <2>2
  <2> QED
    BY <1>1, <1>3, <1>7, <2>3
<1> QED
  BY <1>0, <1>7, <1>8 DEF Spans

LEMMA IntroSpans ==
    ASSUME doc \in Documents, NEW s \in ChunkSections, Introduces(s), NEW c, NEW from \in Nat, NEW to \in Nat,
           from < to, to <= Len(s.text.lines), PartOf(c, s, from, to),
           c.end \in {s.start + to - 1, s.start + Len(s.text.lines)}
    PROVE  Spans(c)
<1>0. PICK n \in Nat : n = Len(doc.lines) /\ DOMAIN doc.lines = 1 .. n
  BY DocIs
<1>1. PICK size \in Nat : size = Len(s.text.lines)
  BY SectionLines
<1>2. size <= n /\ s.start = 1 /\ s.first = None /\ s.path = <<>>
  BY <1>0, <1>1 DEF Introduces
<1>3. c.start = 1 + from /\ c.end \in {1 + to - 1, 1 + size} /\ to <= size /\ c.path = <<>>
  BY <1>1, <1>2 DEF PartOf
<1>4. c.start \in 1 .. n /\ c.end \in c.start .. n + 1
  BY <1>2, <1>3
<1>5. Shifted(c)
  BY <1>3 DEF Introduces, Shifted
<1> QED
  BY <1>0, <1>4, <1>5 DEF Spans

\* What is known of the numbers of a statement's lines.
LEMMA StatedLines ==
    ASSUME doc \in Documents, NEW s \in ChunkSections, Stated(s)
    PROVE  \A j \in DOMAIN s.text.lines :
             /\ s.text.lines[j].no \in DOMAIN doc.lines /\ s.start <= s.text.lines[j].no
             /\ s.start + j - 1 <= s.text.lines[j].no
             /\ s.whole # None => s.text.lines[j].no <= s.whole
             /\ s.text.lines[j].no = s.start + j - 1 \/ \E i \in 1 .. s.text.lines[j].no : Dropped(i)
<1>0. PICK n \in Nat : n = Len(doc.lines) /\ DOMAIN doc.lines = 1 .. n
  BY DocIs
<1> DEFINE ls == s.text.lines
           begin == s.start
           upto == IF s.whole = None THEN n ELSE s.whole
<1>1. /\ DOMAIN ls = 1 .. Len(ls) /\ Len(ls) \in Nat /\ begin \in Nat \ {0} /\ s.whole \in Nat
  BY SectionLines
<1>2. /\ \A j \in DOMAIN ls : ls[j].no \in begin + j - 1 .. upto
      /\ \A j \in DOMAIN ls : ls[j].no = begin + j - 1 \/ \E i \in 1 .. ls[j].no : Dropped(i)
  BY <1>0 DEF Stated, Aligned
<1>3. upto \in 0 .. n /\ (s.whole # None => upto = s.whole)
  BY <1>0, <1>1 DEF Stated
<1> HIDE DEF ls, begin, upto
<1>4. ASSUME NEW j \in DOMAIN ls
      PROVE  ls[j].no \in 1 .. n /\ begin <= ls[j].no /\ begin + j - 1 <= ls[j].no /\ ls[j].no <= upto
  <2>1. ls[j].no \in begin + j - 1 .. upto /\ j \in 1 .. Len(ls)
    BY <1>1, <1>2
  <2> QED
    BY <1>1, <1>3, <2>1
<1> QED
  BY <1>0, <1>2, <1>3, <1>4 DEF ls, begin

\* The first prefix comes after some line of a statement.
LEMMA LateShifts ==
    ASSUME doc \in Documents, NEW s \in ChunkSections, Stated(s), s.first # None,
           NEW i \in DOMAIN doc.lines, s.start <= i, i < s.first
    PROVE  LatePrefix(i, Len(doc.lines))
<1>0. PICK n \in Nat : n = Len(doc.lines) /\ DOMAIN doc.lines = 1 .. n
  BY DocIs
<1> DEFINE f == s.first
           begin == s.start
<1>1. FirstPrefix(f) /\ \A j \in begin .. f - 1 : doc.lines[j].kind # "stop"
  BY DEF Stated, Late
<1>2. f \in 1 .. n /\ begin \in Nat /\ i \in 1 .. n /\ begin <= i /\ i < f
  BY <1>0, <1>1, SectionLines DEF FirstPrefix
<1> HIDE DEF f, begin
<1>3. f \in i + 1 .. n /\ \A j \in i .. f - 1 : j \in begin .. f - 1
  BY <1>2
<1> QED
  BY <1>0, <1>1, <1>3 DEF LatePrefix, FirstPrefix

LEMMA StatedSpans ==
    ASSUME doc \in Documents, NEW s \in ChunkSections, Stated(s), s.whole = None,
           NEW c, NEW from \in Nat, NEW to \in Nat,
           from < to, to <= Len(s.text.lines), PartOf(c, s, from, to),
           c.end \in {s.start + to - 1, s.start + Len(s.text.lines)}
    PROVE  IF c.end < c.start THEN Fails ELSE Spans(c)
<1>0. PICK n \in Nat : n = Len(doc.lines) /\ DOMAIN doc.lines = 1 .. n
  BY DocIs
<1> DEFINE ls == s.text.lines
           begin == s.start
           size == Len(ls)
<1>1. size \in Nat /\ DOMAIN ls = 1 .. size /\ begin \in Nat \ {0} /\ s.first \in Nat
  BY SectionLines
<1>2. \A j \in DOMAIN ls :
         /\ ls[j].no \in 1 .. n /\ begin <= ls[j].no /\ begin + j - 1 <= ls[j].no
         /\ ls[j].no = begin + j - 1 \/ \E i \in 1 .. ls[j].no : Dropped(i)
  BY <1>0, StatedLines
<1>3. /\ c.start = (IF s.first = None THEN begin + from ELSE s.first)
      /\ c.end \in {begin + to - 1, begin + size} /\ c.symbol = s.symbol
      /\ c.lines # {} /\ \A x \in c.lines : \E j \in from + 1 .. to : x = ls[j].no
  BY DEF PartOf
<1>4. to <= size /\ doc.type = "turtle" /\ s.symbol = None /\ begin \in DOMAIN doc.lines /\ ~doc.lines[begin].blank
      /\ (s.first # None => FirstPrefix(s.first))
  BY DEF Stated, Late
<1> HIDE DEF ls, begin, size
<1>5. \A x \in c.lines : x \in 1 .. n /\ begin <= x
  <2> TAKE x \in c.lines
  <2>1. PICK j \in from + 1 .. to : x = ls[j].no
    BY <1>3
  <2>2. j \in DOMAIN ls
    BY <1>1, <1>4
  <2> QED
    BY <1>2, <2>1, <2>2
<1>6. /\ Min(c.lines) \in c.lines /\ Max(c.lines) \in c.lines /\ \A x \in c.lines : Min(c.lines) <= x /\ x <= Max(c.lines)
  <2>1. c.lines \in SUBSET Nat /\ c.lines \in SUBSET (0 .. n)
    BY <1>5
  <2> QED
    BY <1>3, <2>1, MinOf, MaxOf
<1>7. begin + size <= n + 1 /\ begin + from \in 1 .. n
  <2>1. size \in DOMAIN ls /\ from + 1 \in DOMAIN ls
    BY <1>1, <1>4
  <2>2. begin + size - 1 <= ls[size].no /\ ls[size].no \in 1 .. n
    BY <1>2, <2>1
  <2> QED
    BY <1>1, <1>4, <2>2
<1>8. c.end \in Nat /\ begin + to - 1 <= c.end /\ c.end <= n + 1 /\ begin + from <= c.end
  BY <1>1, <1>3, <1>4, <1>7
<1>9. CASE s.first = None
  <2>1. c.start = begin + from /\ c.start \in 1 .. n /\ c.end \in c.start .. n + 1 /\ ~(c.end < c.start)
    BY <1>1, <1>3, <1>7, <1>8, <1>9
  <2>2. ASSUME NEW x \in c.lines, x \notin c.start .. c.end PROVE Shifted(c)
    <3>1. PICK j \in from + 1 .. to : x = ls[j].no
      BY <1>3
    <3>2. j \in DOMAIN ls
      BY <1>1, <1>4
    <3>3. x # begin + j - 1
      BY <1>1, <1>8, <2>1, <2>2
    <3>4. PICK i \in 1 .. x : Dropped(i)
      BY <1>2, <3>1, <3>2, <3>3
    <3>5. i \in 1 .. Max(c.lines)
      BY <1>5, <1>6
    <3> QED
      BY <1>3, <1>4, <3>4, <3>5 DEF Shifted, Dropped
  <2>3. Shifted(c) \/ c.lines \subseteq c.start .. c.end
    BY <2>2
  <2> QED
    BY <1>0, <2>1, <2>3 DEF Spans
<1>10. CASE s.first # None
  <2>1. c.start = s.first /\ s.first \in 1 .. n /\ FirstPrefix(s.first)
    BY <1>0, <1>3, <1>4, <1>10 DEF FirstPrefix
  <2>2. ASSUME c.end < c.start PROVE Fails
    <3>1. begin < s.first
      BY <1>1, <1>8, <2>1, <2>2
    <3>2. LatePrefix(begin, Len(doc.lines))
      BY <1>1, <1>4, <1>10, <3>1, LateShifts DEF begin
    <3> QED
      BY <1>4, <3>2 DEF Fails
  <2>3. ASSUME ~(c.end < c.start) PROVE Spans(c)
    <3>1. c.start \in DOMAIN doc.lines /\ c.end \in c.start .. Len(doc.lines) + 1
      BY <1>0, <1>8, <2>1, <2>3
    <3>2. CASE s.first <= Max(c.lines)
      <4>1. s.first \in 1 .. Max(c.lines) /\ doc.lines[s.first].kind = "prefix"
        BY <1>5, <1>6, <2>1, <3>2 DEF FirstPrefix
      <4>2. Shifted(c)
        BY <1>3, <1>4, <4>1 DEF Shifted
      <4> QED
        BY <3>1, <4>2 DEF Spans
    <3>3. CASE ~(s.first <= Max(c.lines))
      <4>1. Min(c.lines) \in 1 .. n /\ begin <= Min(c.lines) /\ Min(c.lines) < s.first
        BY <1>5, <1>6, <2>1, <3>3
      <4>2. LatePrefix(Min(c.lines), Len(doc.lines))
        BY <1>0, <1>10, <4>1, LateShifts DEF begin
      <4>3. Shifted(c)
        BY <1>4, <4>2 DEF Shifted
      <4> QED
        BY <3>1, <4>3 DEF Spans
    <3> QED
      BY <3>2, <3>3
  <2> QED
    BY <2>2, <2>3
<1> QED
  BY <1>9, <1>10

LEMMA WholeSpans ==
    ASSUME doc \in Documents, NEW s \in ChunkSections, Stated(s), s.whole # None,
           NEW c, PartOf(c, s, 0, Len(s.text.lines)), s.start \in c.lines, c.end = s.whole
    PROVE  Spans(c) /\ ~(c.end < c.start)
<1>0. PICK n \in Nat : n = Len(doc.lines) /\ DOMAIN doc.lines = 1 .. n
  BY DocIs
<1> DEFINE ls == s.text.lines
           begin == s.start
           size == Len(ls)
           last == s.whole
<1>1. size \in Nat /\ DOMAIN ls = 1 .. size /\ begin \in Nat \ {0} /\ s.first \in Nat /\ last \in Nat
  BY SectionLines
<1>2. \A j \in DOMAIN ls : ls[j].no \in 1 .. n /\ begin <= ls[j].no /\ ls[j].no <= last
  BY <1>0, StatedLines
<1>3. /\ c.start = (IF s.first = None THEN begin + 0 ELSE s.first) /\ c.end = last /\ begin \in c.lines
      /\ \A x \in c.lines : \E j \in 0 + 1 .. size : x = ls[j].no
  BY DEF PartOf
<1>4. doc.type = "turtle" /\ last \in 1 .. n /\ s.first <= last /\ (s.first # None => FirstPrefix(s.first))
  BY <1>0 DEF Stated, Late
<1> HIDE DEF ls, begin, size, last
<1>5. \A x \in c.lines : x \in 1 .. n /\ begin <= x /\ x <= last
  BY <1>1, <1>2, <1>3
<1>6. Min(c.lines) = begin
  <2>1. c.lines \in SUBSET Nat /\ c.lines # {}
    BY <1>3, <1>5
  <2>2. Min(c.lines) \in c.lines /\ Min(c.lines) <= begin
    BY <1>3, <2>1, MinOf
  <2> QED
    BY <1>1, <1>5, <2>2
<1>7. begin \in 1 .. n /\ begin <= last
  BY <1>3, <1>5
<1>8. CASE s.first = None
  BY <1>0, <1>1, <1>3, <1>4, <1>5, <1>7, <1>8 DEF Spans
<1>9. CASE s.first # None
  <2>1. c.start = s.first /\ s.first \in 1 .. n /\ c.end \in c.start .. n + 1 /\ ~(c.end < c.start)
    BY <1>0, <1>1, <1>3, <1>4, <1>9 DEF FirstPrefix
  <2>2. CASE s.first <= begin
    <3>1. c.lines \subseteq c.start .. c.end
      BY <1>1, <1>3, <1>5, <2>1, <2>2
    <3> QED
      BY <1>0, <2>1, <3>1 DEF Spans
  <2>3. CASE ~(s.first <= begin)
    <3>1. LatePrefix(begin, Len(doc.lines))
      <4>1. begin \in DOMAIN doc.lines /\ begin < s.first /\ begin <= begin
        BY <1>0, <1>1, <1>7, <2>3
      <4> QED
        BY <1>9, <4>1, LateShifts DEF begin
    <3>2. Shifted(c)
      BY <1>4, <1>6, <3>1 DEF Shifted
    <3> QED
      BY <1>0, <2>1, <3>2 DEF Spans
  <2> QED
    BY <2>2, <2>3
<1> QED
  BY <1>8, <1>9

LEMMA SameTraces ==
    ASSUME doc' = doc
    PROVE  /\ \A s : Sited(s)' <=> Sited(s)
           /\ \A c : Traced(c)' <=> Traced(c)
           /\ Fails' <=> Fails
<1>1. Fence' = Fence
  BY DEF Fence
<1>2. Headings' = Headings
  BY <1>1 DEF Headings
<1>3. \A h : Ancestors(h)' = Ancestors(h)
  BY <1>2 DEF Ancestors, LevelOf
<1>4. \A n : PathAt(n)' = PathAt(n)
  BY <1>2, <1>3 DEF PathAt
<1>5. \A a, b : LatePrefix(a, b)' <=> LatePrefix(a, b)
  BY DEF LatePrefix
<1>6. \A c : Shifted(c)' <=> Shifted(c)
  BY <1>2, <1>5 DEF Shifted
<1>7. \A c : Traced(c)' <=> Traced(c)
  BY <1>4, <1>6 DEF Traced, Spans, UnderHeadings
<1>8. \A s : Headed(s)' <=> Headed(s)
  BY <1>4 DEF Headed
<1>9. \A s : Introduces(s)' <=> Introduces(s)
  BY <1>2 DEF Introduces
<1>10. \A s : Stated(s)' <=> Stated(s)
  <2>1. (\A ls, begin, upto : Aligned(ls, begin, upto)' <=> Aligned(ls, begin, upto))
        /\ \A begin, first : Late(begin, first)' <=> Late(begin, first)
    BY DEF Aligned, Dropped, Late, FirstPrefix
  <2> QED
    BY <2>1 DEF Stated
<1>11. \A s : Plain(s)' <=> Plain(s)
  BY SamePlain
<1>12. \A s : Sited(s)' <=> Sited(s)
  BY <1>8, <1>9, <1>10, <1>11 DEF Sited
<1> QED
  BY <1>5, <1>7, <1>12 DEF Fails

\* A chunk made of some of a section's lines shows those that are not blank.
LEMMA PartIs ==
    ASSUME NEW s \in ChunkSections, NEW from \in Nat, NEW to \in Nat, from < to, to <= Len(s.text.lines),
           NEW ls, ls \in Seq(Lines), DOMAIN ls = 1 .. to - from,
           \A j \in 1 .. to - from : ls[j] = s.text.lines[from + j], HasText(ls),
           NEW last \in Nat, NEW n \in Nat
    PROVE  /\ PartOf(MakeChunk(s, ls, s.start + from, last, n), s, from, to)
           /\ \A j \in DOMAIN ls : ls[j].blank \/ ls[j].no \in MakeChunk(s, ls, s.start + from, last, n).lines
           /\ MakeChunk(s, ls, s.start + from, last, n) \in ChunkRecords
<1> DEFINE first == s.start + from
           c == MakeChunk(s, ls, first, last, n)
<1>1. first \in Nat
  BY SectionLines
<1>2. /\ c.path = s.path /\ c.symbol = s.symbol
      /\ c.start = IF s.first = None THEN first ELSE s.first
  BY DEF MakeChunk
<1>3. /\ c \in ChunkRecords /\ c.lines = Numbers(Stripped(ls).lines)
      /\ \A j \in DOMAIN ls : ls[j].blank \/ ls[j].no \in c.lines
  <2> HIDE DEF first
  <2>1. MadeOf(c, s, ls, first)
    BY <1>1, MakeChunkIs
  <2> HIDE DEF c
  <2> QED
    BY <2>1 DEF MadeOf
<1> HIDE DEF c
<1>4. ASSUME NEW x \in c.lines PROVE \E j \in from + 1 .. to : x = s.text.lines[j].no
  <2>1. PICK i \in DOMAIN Stripped(ls).lines : x = Stripped(ls).lines[i].no
    BY <1>3 DEF Numbers
  <2>2. PICK k \in DOMAIN ls : Stripped(ls).lines[i] = ls[k]
    BY StrippedAmong
  <2>3. from + k \in from + 1 .. to /\ ls[k] = s.text.lines[from + k]
    OBVIOUS
  <2> QED
    BY <2>1, <2>2, <2>3
<1>5. c.lines # {}
  BY <1>3 DEF HasText
<1>6. PartOf(c, s, from, to)
  BY <1>2, <1>4, <1>5 DEF PartOf
<1> QED
  BY <1>3, <1>6 DEF c, first

LEMMA RangePart ==
    ASSUME doc \in Documents, Working, Splitting, NEW k \in DOMAIN ranges, Sited(Head(sections))
    PROVE  LET s == Head(sections)
               r == ranges[k]
               c == MakeChunk(s, SubSeq(text.lines, r.from + 1, r.to), r.start, r.end, r.part)
           IN  c \in ChunkRecords /\ IF c.end < c.start THEN Fails ELSE Traced(c)
<1> DEFINE s == Head(sections)
           r == ranges[k]
           ls == SubSeq(text.lines, r.from + 1, r.to)
           c == MakeChunk(s, ls, r.start, r.end, r.part)
<1>1. /\ sections # <<>> /\ s.whole = None /\ text = s.text /\ start = s.start
      /\ RangesShow /\ WindowsTypeOK /\ WindowsAdvance
  BY DEF Splitting, WindowInv
<1>2. s \in ChunkSections
  BY <1>1, HeadIs
<1>3. /\ r.from \in Nat /\ r.to \in Nat /\ r.end \in Nat /\ r.part \in Nat
      /\ r.from < r.to /\ r.to <= N /\ r.start = start + r.from /\ ~AllBlank(r.from, r.to)
      /\ r.end \in {start + r.to - 1, start + N}
  <2>1. r \in TextRanges
    BY <1>1 DEF WindowsTypeOK
  <2>2. r.from < r.to /\ r.to <= N /\ r.start = start + r.from /\ r.end \in {start + r.to - 1, start + N}
    BY <1>1 DEF WindowsAdvance
  <2>3. ~AllBlank(r.from, r.to)
    BY <1>1 DEF RangesShow
  <2> HIDE DEF r
  <2> QED
    BY <2>1, <2>2, <2>3 DEF TextRanges
<1>4. N = Len(s.text.lines) /\ s.text.lines \in Seq(Lines)
  BY <1>1, <1>2, SectionLines DEF N
<1> HIDE DEF s, r
<1>5. /\ ls \in Seq(Lines) /\ DOMAIN ls = 1 .. r.to - r.from
      /\ \A j \in 1 .. r.to - r.from : ls[j] = s.text.lines[r.from + j]
  <2> DEFINE all == s.text.lines
             lo == r.from + 1
             hi == r.to
  <2>1. all \in Seq(Lines) /\ lo \in 1 .. Len(all) + 1 /\ hi \in lo - 1 .. Len(all)
    BY <1>3, <1>4
  <2>2. hi - lo + 1 = r.to - r.from /\ \A j \in 1 .. r.to - r.from : lo + j - 1 = r.from + j
    BY <1>3
  <2>3. ls = SubSeq(all, lo, hi)
    BY <1>1
  <2> HIDE DEF all, lo, hi, ls
  <2>4. /\ ls \in Seq(Lines) /\ DOMAIN ls = 1 .. hi - lo + 1
        /\ \A j \in 1 .. hi - lo + 1 : ls[j] = all[lo + j - 1]
    BY <2>1, <2>3, SubSeqIs
  <2> QED
    BY <2>2, <2>4 DEF all
<1> HIDE DEF ls
<1>6. HasText(ls)
  <2>1. PICK j \in r.from + 1 .. r.to : ~text.lines[j].blank
    BY <1>3 DEF AllBlank
  <2>2. j - r.from \in 1 .. r.to - r.from /\ r.from + (j - r.from) = j
    BY <1>3, <2>1
  <2> QED
    BY <1>1, <1>5, <2>1, <2>2 DEF HasText
<1> DEFINE from == r.from
           to == r.to
           last == r.end
           n == r.part
<1>7. from \in Nat /\ to \in Nat /\ last \in Nat /\ n \in Nat /\ from < to /\ to <= Len(s.text.lines)
      /\ DOMAIN ls = 1 .. to - from /\ (\A j \in 1 .. to - from : ls[j] = s.text.lines[from + j])
      /\ c = MakeChunk(s, ls, s.start + from, last, n)
  BY <1>1, <1>3, <1>4, <1>5 DEF s
<1>8. c.end \in {s.start + to - 1, s.start + Len(s.text.lines)}
  <2>1. c.end = r.end
    BY DEF MakeChunk
  <2> QED
    BY <1>1, <1>3, <1>4, <2>1 DEF s
<1> HIDE DEF from, to, last, n, c
<1>9. PartOf(c, s, from, to) /\ c \in ChunkRecords
  BY <1>2, <1>5, <1>6, <1>7, PartIs
<1>10. Sited(s) /\ s.whole = None
  BY <1>1 DEF s
<1>11. UnderHeadings(c)
  BY <1>2, <1>7, <1>9, <1>10, PartPlaced DEF Sited
<1>12. IF c.end < c.start THEN Fails ELSE Spans(c)
  <2>1. Spans(c) => ~(c.end < c.start)
    <3>1. Spans(c) => c.start \in Nat /\ c.end \in c.start .. Len(doc.lines) + 1
      BY DocIs DEF Spans
    <3> QED
      BY <3>1
  <2>2. CASE Plain(s)
    BY <1>2, <1>7, <1>8, <1>9, <2>1, <2>2, PlainSpans
  <2>3. CASE Introduces(s)
    BY <1>2, <1>7, <1>8, <1>9, <2>1, <2>3, IntroSpans
  <2>4. CASE Stated(s)
    BY <1>2, <1>7, <1>8, <1>9, <1>10, <2>4, StatedSpans
  <2> QED
    BY <1>10, <2>2, <2>3, <2>4 DEF Sited
<1>13. c \in ChunkRecords /\ IF c.end < c.start THEN Fails ELSE Traced(c)
  BY <1>9, <1>11, <1>12 DEF Traced
<1> QED
  BY <1>13 DEF c, ls, s, r

LEMMA WholePart ==
    ASSUME doc \in Documents, NEW s \in ChunkSections, Sited(s), s.whole # None
    PROVE  LET c == MakeChunk(s, s.text.lines, s.start, s.whole, s.part)
           IN  c \in ChunkRecords /\ Traced(c) /\ ~(c.end < c.start)
<1> DEFINE ls == s.text.lines
           size == Len(ls)
           last == s.whole
           n == s.part
           c == MakeChunk(s, ls, s.start + 0, last, n)
<1>1. Stated(s) /\ Headed(s)
  BY DEF Sited, Plain, Introduces
<1>2. ls \in Seq(Lines) /\ size \in Nat /\ DOMAIN ls = 1 .. size /\ last \in Nat /\ n \in Nat /\ s.start \in Nat
  BY SectionLines DEF ChunkSections
<1>3. ls # <<>> /\ ls[1].no = s.start /\ \A j \in DOMAIN ls : ~ls[j].blank
  BY <1>1 DEF Stated, Aligned
<1>4. 1 \in DOMAIN ls /\ 0 < size
  BY <1>2, <1>3
<1>5. c.end = last
  BY DEF MakeChunk
<1> HIDE DEF ls, last, n
<1>6. HasText(ls)
  BY <1>3, <1>4 DEF HasText
<1>7. 0 \in Nat /\ DOMAIN ls = 1 .. size - 0 /\ size <= Len(s.text.lines)
      /\ \A j \in 1 .. size - 0 : ls[j] = s.text.lines[0 + j]
  BY <1>2 DEF ls
<1>8. /\ PartOf(c, s, 0, size) /\ c \in ChunkRecords
      /\ \A j \in DOMAIN ls : ls[j].blank \/ ls[j].no \in c.lines
  <2> HIDE DEF size
  <2> QED
    BY <1>2, <1>4, <1>6, <1>7, PartIs
<1>9. s.start \in c.lines
  BY <1>3, <1>4, <1>8
<1> HIDE DEF c
<1>10. Spans(c) /\ ~(c.end < c.start)
  BY <1>1, <1>5, <1>8, <1>9, WholeSpans DEF ls, last
<1>11. UnderHeadings(c)
  BY <1>1, <1>2, <1>7, <1>8, PartPlaced
<1>12. c = MakeChunk(s, s.text.lines, s.start, s.whole, s.part)
  <2>1. s.start + 0 = s.start
    BY <1>2
  <2> QED
    BY <2>1 DEF c, ls, last, n
<1> QED
  BY <1>8, <1>10, <1>11, <1>12 DEF Traced

\* What is still to be split is sited, what has been made is traced.
TraceInv ==
    /\ phase = "failed" => Fails
    /\ phase \in {"next", "split"} => \A k \in DOMAIN sections : Sited(sections[k])
    /\ \A k \in DOMAIN chunks : Traced(chunks[k])

LEMMA AddTraces ==
    ASSUME TraceInv, phase \in {"next", "split"}, doc' = doc,
           sections \in Seq(ChunkSections), chunks \in Seq(ChunkRecords), sections # <<>>,
           NEW made \in Seq(ChunkRecords), Add(made),
           \A k \in DOMAIN made : IF made[k].end < made[k].start THEN Fails ELSE Traced(made[k])
    PROVE  TraceInv'
<1>1. /\ \A k \in DOMAIN sections : Sited(sections[k])
      /\ \A k \in DOMAIN chunks : Traced(chunks[k])
  BY DEF TraceInv
<1>2. (\A s : Sited(s)' <=> Sited(s)) /\ (\A c : Traced(c)' <=> Traced(c)) /\ (Fails' <=> Fails)
  BY SameTraces
<1>3. CASE \E i \in DOMAIN made : made[i].end < made[i].start
  <2>1. phase' = "failed" /\ chunks' = chunks /\ Fails
    BY <1>3 DEF Add
  <2> QED
    BY <1>1, <1>2, <2>1 DEF TraceInv
<1>4. CASE ~\E i \in DOMAIN made : made[i].end < made[i].start
  <2>1. chunks' = chunks \o made /\ sections' = Tail(sections) /\ phase' = "next"
    BY <1>4 DEF Add
  <2>2. \A k \in DOMAIN made : Traced(made[k])
    BY <1>4
  <2>3. /\ Len(chunks) \in Nat /\ Len(made) \in Nat
        /\ DOMAIN chunks' = 1 .. Len(chunks) + Len(made)
        /\ DOMAIN chunks = 1 .. Len(chunks) /\ DOMAIN made = 1 .. Len(made)
        /\ \A k \in 1 .. Len(chunks) : chunks'[k] = chunks[k]
        /\ \A k \in 1 .. Len(made) : chunks'[Len(chunks) + k] = made[k]
    BY <2>1, Joined
  <2>4. ASSUME NEW k \in DOMAIN chunks' PROVE Traced(chunks'[k])
    <3>1. CASE k \in 1 .. Len(chunks)
      BY <1>1, <2>3, <3>1
    <3>2. CASE k \notin 1 .. Len(chunks)
      <4>1. k - Len(chunks) \in 1 .. Len(made) /\ Len(chunks) + (k - Len(chunks)) = k
        BY <2>3, <3>2
      <4>2. chunks'[k] = made[k - Len(chunks)]
        BY <2>3, <4>1
      <4> QED
        BY <2>2, <2>3, <4>1, <4>2
    <3> QED
      BY <3>1, <3>2
  <2>5. ASSUME NEW k \in DOMAIN sections' PROVE Sited(sections'[k])
    <3>1. k + 1 \in DOMAIN sections /\ sections'[k] = sections[k + 1]
      BY <2>1
    <3> QED
      BY <1>1, <3>1
  <2> QED
    BY <1>2, <2>1, <2>4, <2>5 DEF TraceInv
<1> QED
  BY <1>3, <1>4

\* Taking out duplicates leaves chunks that were there.
LEMMA DedupAmong ==
    ASSUME NEW cs \in Seq(ChunkRecords), NEW k \in DOMAIN Deduplicated(cs)
    PROVE  \E j \in DOMAIN cs : Deduplicated(cs)[k] = cs[j]
<1>1. CASE doc.type # "python"
  BY <1>1 DEF Deduplicated
<1>2. CASE doc.type = "python"
  <2> DEFINE n == Len(cs)
             S == {i \in DOMAIN cs : \A j \in 1 .. i - 1 : DedupKey(cs[j]) # DedupKey(cs[i])}
             kept == InOrder(S, n)
             left == [i \in DOMAIN kept |-> cs[kept[i]]]
  <2>1. n \in Nat /\ S \in SUBSET (1 .. n) /\ DOMAIN cs = 1 .. n
    OBVIOUS
  <2>2. Deduplicated(cs) = left
    BY <1>2 DEF Deduplicated
  <2> HIDE DEF S, n
  <2>3. kept \in Seq(1 .. n)
    BY <2>1, InOrderIs
  <2> HIDE DEF kept
  <2>4. \A i \in DOMAIN kept : kept[i] \in 1 .. n
    <3> DEFINE T == 1 .. n
    <3>1. kept \in Seq(T)
      BY <2>3
    <3> HIDE DEF T
    <3>2. \A i \in DOMAIN kept : kept[i] \in T
      BY <3>1
    <3> QED
      BY <3>2 DEF T
  <2>5. DOMAIN left = DOMAIN kept /\ \A i \in DOMAIN kept : left[i] = cs[kept[i]]
    OBVIOUS
  <2> HIDE DEF left
  <2> QED
    BY <2>1, <2>2, <2>4, <2>5
<1> QED
  BY <1>1, <1>2

LEMMA TakeWholeTraces == ASSUME ChunkInv, TraceInv, TakeWhole PROVE TraceInv'
<1> DEFINE s == Head(sections)
           c == MakeChunk(s, s.text.lines, s.start, s.whole, s.part)
           made == <<c>>
<1>1. /\ doc \in Documents /\ doc' = doc /\ phase = "next" /\ sections # <<>> /\ s.whole # None /\ Add(made) /\ Working
  BY DEF ChunkInv, TakeWhole
<1>2. s \in ChunkSections /\ sections \in Seq(ChunkSections) /\ chunks \in Seq(ChunkRecords)
  BY <1>1, HeadIs DEF Working
<1>3. Sited(s)
  <2>1. s = sections[1] /\ 1 \in DOMAIN sections
    BY <1>1, <1>2
  <2> QED
    BY <1>1, <2>1 DEF TraceInv
<1> HIDE DEF s
<1>4. c \in ChunkRecords /\ Traced(c) /\ ~(c.end < c.start)
  BY <1>1, <1>2, <1>3, WholePart
<1> HIDE DEF c
<1>5. made \in Seq(ChunkRecords) /\ DOMAIN made = {1} /\ made[1] = c
  BY <1>4
<1> HIDE DEF made
<1>6. \A k \in DOMAIN made : IF made[k].end < made[k].start THEN Fails ELSE Traced(made[k])
  BY <1>4, <1>5
<1> QED
  BY <1>1, <1>2, <1>5, <1>6, AddTraces

LEMMA CollectTraces == ASSUME ChunkInv, TraceInv, Collect PROVE TraceInv'
<1> DEFINE s == Head(sections)
           Of(k) == MakeChunk(s, SubSeq(text.lines, ranges[k].from + 1, ranges[k].to),
                              ranges[k].start, ranges[k].end, ranges[k].part)
           made == [k \in DOMAIN ranges |-> Of(k)]
<1>1. /\ doc \in Documents /\ doc' = doc /\ phase = "split" /\ Add(made) /\ Working /\ Splitting
  BY DEF ChunkInv, Collect
<1>2. /\ sections # <<>> /\ ranges \in Seq(TextRanges)
      /\ sections \in Seq(ChunkSections) /\ chunks \in Seq(ChunkRecords)
  BY <1>1 DEF Splitting, WindowInv, WindowsTypeOK, Working
<1>3. Sited(s)
  <2>1. s = sections[1] /\ 1 \in DOMAIN sections
    BY <1>2
  <2> QED
    BY <1>1, <2>1 DEF TraceInv
<1>4. ASSUME NEW k \in DOMAIN ranges
      PROVE  Of(k) \in ChunkRecords /\ IF Of(k).end < Of(k).start THEN Fails ELSE Traced(Of(k))
  BY <1>1, <1>3, RangePart
<1> HIDE DEF Of, s
<1>5. made \in Seq(ChunkRecords) /\ DOMAIN made = DOMAIN ranges /\ \A k \in DOMAIN ranges : made[k] = Of(k)
  BY <1>2, <1>4
<1> HIDE DEF made
<1>6. \A k \in DOMAIN made : IF made[k].end < made[k].start THEN Fails ELSE Traced(made[k])
  BY <1>4, <1>5
<1> QED
  BY <1>1, <1>2, <1>5, <1>6, AddTraces

LEMMA TraceStep == ChunkInv /\ TraceInv /\ [ChunkNext]_chunkVars => TraceInv'
<1> SUFFICES ASSUME ChunkInv, TraceInv, [ChunkNext]_chunkVars PROVE TraceInv'
  OBVIOUS
<1>1. CASE Scan
  <2>1. doc \in Documents /\ sections' = SectionsOf /\ phase' = "next" /\ doc' = doc /\ chunks' = chunks
    BY <1>1 DEF ChunkInv, Scan
  <2>2. \A k \in DOMAIN SectionsOf : Sited(SectionsOf[k])
    BY <2>1, SectionsSited
  <2>3. (\A s : Sited(s)' <=> Sited(s)) /\ (\A c : Traced(c)' <=> Traced(c))
    BY <2>1, SameTraces
  <2> QED
    BY <2>1, <2>2, <2>3 DEF TraceInv
<1>2. CASE TakeWhole
  BY <1>2, TakeWholeTraces
<1>3. CASE CallSplit
  <2>1. phase = "next" /\ phase' = "split" /\ doc' = doc /\ sections' = sections /\ chunks' = chunks
    BY <1>3 DEF CallSplit
  <2>2. (\A s : Sited(s)' <=> Sited(s)) /\ (\A c : Traced(c)' <=> Traced(c))
    BY <2>1, SameTraces
  <2> QED
    BY <2>1, <2>2 DEF TraceInv
<1>4. CASE SplitStep
  <2>1. phase = "split" /\ phase' = phase /\ doc' = doc /\ sections' = sections /\ chunks' = chunks
    BY <1>4 DEF SplitStep
  <2>2. (\A s : Sited(s)' <=> Sited(s)) /\ (\A c : Traced(c)' <=> Traced(c))
    BY <2>1, SameTraces
  <2> QED
    BY <2>1, <2>2 DEF TraceInv
<1>5. CASE Collect
  BY <1>5, CollectTraces
<1>6. CASE Finish
  <2>1. phase = "next" /\ phase' = "done" /\ doc' = doc /\ chunks' = Deduplicated(chunks) /\ chunks \in Seq(ChunkRecords)
    BY <1>6 DEF Finish, ChunkInv, Working
  <2>2. \A c : Traced(c)' <=> Traced(c)
    BY <2>1, SameTraces
  <2>3. ASSUME NEW k \in DOMAIN chunks' PROVE Traced(chunks'[k])
    <3>1. PICK j \in DOMAIN chunks : chunks'[k] = chunks[j]
      BY <2>1, DedupAmong
    <3> QED
      BY <3>1 DEF TraceInv
  <2> QED
    BY <2>1, <2>2, <2>3 DEF TraceInv
<1>7. CASE UNCHANGED chunkVars
  <2>1. doc' = doc /\ sections' = sections /\ chunks' = chunks /\ phase' = phase
    BY <1>7 DEF chunkVars
  <2>2. (\A s : Sited(s)' <=> Sited(s)) /\ (\A c : Traced(c)' <=> Traced(c)) /\ (Fails' <=> Fails)
    BY <2>1, SameTraces
  <2> QED
    BY <2>1, <2>2 DEF TraceInv
<1> QED
  BY <1>1, <1>2, <1>3, <1>4, <1>5, <1>6, <1>7 DEF ChunkNext

\* Every chunk can be traced to its document, whatever that is: the lines it
\* shows are among those it claims, but for the shifts that are named; the path
\* it carries is that of the headings it is under; and only a prefix declared
\* inside a Turtle statement makes the call fail.
THEOREM AlwaysTraceable == ChunkSpec => []Traceable
<1>1. ChunkInit => TraceInv
  BY DEF ChunkInit, TraceInv
<1>2. ChunkInv /\ TraceInv /\ [ChunkNext]_chunkVars => TraceInv'
  BY TraceStep
<1>3. TraceInv => Traceable
  BY DEF TraceInv, Traceable, Fails, Traced, Spans, UnderHeadings, PathAt
<1> QED
  BY <1>1, <1>2, <1>3, ChunkKept, PTL DEF ChunkSpec

-----------------------------------------------------------------------------
(* The loops end.                                                          *)

\* A step of the splitting loop returns, moves on to a later window, or makes
\* the window it is at longer; both stay within the text.
Further == cursor' > cursor \/ (cursor' = cursor /\ end' > end)
Inside == N' = N /\ cursor' \in 0 .. N /\ end' \in 0 .. N
Advances == ~returned /\ Inside /\ (returned' \/ Further)

LEMMA SplitAdvances ==
    ASSUME WindowInv, Split
    PROVE  Advances
<1>1. WindowInv'
  BY NothingHolds, WholeHolds, TakeHolds, CloseHolds DEF Split
<1>2. N' = N /\ ~returned
  BY DEF Split, ReturnNothing, ReturnWhole, TakeLine, CloseWindow, N
<1>3. cursor' \in 0 .. N /\ end' \in 0 .. N /\ cursor \in Nat /\ end \in Nat
  <2>1. N \in Nat
    BY DEF WindowInv, WindowsTypeOK, N
  <2>2. cursor \in 0 .. N /\ end \in cursor .. N
    BY DEF WindowInv, WindowsTypeOK
  <2>3. cursor' \in 0 .. N' /\ end' \in cursor' .. N'
    BY <1>1 DEF WindowInv, WindowsTypeOK
  <2> QED
    BY <1>2, <2>1, <2>2, <2>3
<1>4. Inside
  BY <1>2, <1>3 DEF Inside
<1>5. CASE ReturnNothing \/ ReturnWhole
  <2>1. returned'
    BY <1>5 DEF ReturnNothing, ReturnWhole
  <2> QED
    BY <1>2, <1>4, <2>1, Zenon DEF Advances
<1>6. CASE TakeLine
  <2>1. Further
    BY <1>3, <1>6 DEF TakeLine, Further
  <2> QED
    BY <1>2, <1>4, <2>1, Zenon DEF Advances
<1>7. CASE CloseWindow
  <2>1. NextCursor \in cursor + 1 .. end
    BY <1>7, NextCursorInside DEF CloseWindow, WindowInv
  <2>2. returned' \/ cursor' = NextCursor
    BY <1>7 DEF CloseWindow
  <2>3. NextCursor > cursor
    BY <1>3, <2>1
  <2>4. cursor' = NextCursor => Further
    BY <2>3 DEF Further
  <2> QED
    BY <1>2, <1>4, <2>2, <2>4, Zenon DEF Advances
<1> QED
  BY <1>5, <1>6, <1>7 DEF Split

\* A call that has not returned has something left to do, and one that returns
\* at once has not begun a window.
Unfinished ==
    ~returned => /\ cursor < N \/ N = 0
                 /\ AllBlank(0, N) \/ Fits => ranges = <<>> /\ end = 0

\* Some step of the call is possible: its guards, one by one.
CanStep ==
    \/ ranges = <<>> /\ end = 0 /\ (AllBlank(0, N) \/ Fits)
    \/ ~AllBlank(0, N) /\ ~Fits /\ (Takes \/ (~Takes /\ end > cursor))

LEMMA UnfinishedSteps ==
    ASSUME WindowInv, Unfinished, ~returned
    PROVE  CanStep
<1>1. cursor \in 0 .. N /\ end \in cursor .. N /\ N \in Nat
  BY DEF WindowInv, WindowsTypeOK, N
<1>2. CASE AllBlank(0, N) \/ Fits
  BY <1>2 DEF Unfinished, CanStep
<1>3. CASE ~AllBlank(0, N) /\ ~Fits
  <2>1. N # 0
    <3> SUFFICES ASSUME N = 0 PROVE AllBlank(0, N)
      BY <1>3
    <3>1. 0 + 1 .. N = {}
      OBVIOUS
    <3> QED
      BY <3>1 DEF AllBlank
  <2>2. cursor < N
    BY <2>1 DEF Unfinished
  <2>3. end > cursor \/ (end = cursor /\ end < N)
    BY <1>1, <2>2
  <2>4. end = cursor /\ end < N => Takes
    BY <1>1 DEF Takes
  <2> QED
    BY <1>3, <2>3, <2>4 DEF CanStep
<1> QED
  BY <1>2, <1>3

\* Whether the text fits depends on it and on the limit only.
LEMMA FitsKept ==
    ASSUME text' = text, limit' = limit
    PROVE  Fits' <=> Fits
<1>1. N' = N
  BY DEF N
<1>2. LengthTo' = LengthTo
  BY <1>1 DEF LengthTo, Size
<1> QED
  BY <1>1, <1>2 DEF Fits

LEMMA SplitUnfinished ==
    ASSUME WindowInv, Unfinished, Split
    PROVE  Unfinished'
<1>1. text' = text /\ N' = N
  BY DEF Split, ReturnNothing, ReturnWhole, TakeLine, CloseWindow, N
<1>2. (AllBlank(0, N))' <=> AllBlank(0, N)
  BY <1>1 DEF AllBlank
<1>3. Fits' <=> Fits
  <2>1. text' = text /\ limit' = limit
    BY DEF Split, ReturnNothing, ReturnWhole, TakeLine, CloseWindow
  <2> QED
    BY <2>1, FitsKept
<1>4. CASE ReturnNothing \/ ReturnWhole
  BY <1>4 DEF ReturnNothing, ReturnWhole, Unfinished
<1>5. CASE ~AllBlank(0, N) /\ ~Fits /\ TakeLine
  BY <1>1, <1>2, <1>3, <1>5 DEF TakeLine, Unfinished
<1>6. CASE ~AllBlank(0, N) /\ ~Fits /\ CloseWindow
  <2>1. NextCursor \in cursor + 1 .. end /\ end \in Nat /\ N \in Nat
    BY <1>6, NextCursorInside DEF CloseWindow, WindowInv, WindowsTypeOK, N
  <2>2. ~returned' => cursor' = NextCursor /\ end < N
    <3>1. end \in 0 .. N
      BY DEF WindowInv, WindowsTypeOK, N
    <3> QED
      BY <1>6, <2>1, <3>1 DEF CloseWindow
  <2>3. ~returned' => cursor' < N'
    BY <1>1, <2>1, <2>2
  <2> QED
    BY <1>2, <1>3, <1>6, <2>3 DEF Unfinished
<1> QED
  BY <1>4, <1>5, <1>6 DEF Split

\* Each step of chunking brings its end nearer: the scan is done once, a section
\* that has been taken does not come back, and the call that splits one ends.
Nearer ==
    \/ phase = "scan" /\ phase' = "next"
    \/ phase = "next" /\ phase' = "split" /\ sections' = sections
    \/ phase = "split" /\ phase' = "split" /\ sections' = sections /\ Advances
    \/ phase \in {"next", "split"} /\ phase' = "next" /\ Len(sections') < Len(sections)
    \/ phase \in {"next", "split"} /\ phase' \in {"done", "failed"}

StuckInv == phase = "split" => Unfinished

LEMMA StuckStep == ChunkInv /\ StuckInv /\ [ChunkNext]_chunkVars => StuckInv'
<1> SUFFICES ASSUME ChunkInv, StuckInv, [ChunkNext]_chunkVars PROVE StuckInv'
  OBVIOUS
<1>1. CASE Scan \/ TakeWhole \/ Finish \/ Collect
  <2>1. phase' \in {"next", "done", "failed"}
    BY <1>1 DEF Scan, TakeWhole, Finish, Collect, Add
  <2> QED
    BY <2>1 DEF StuckInv
<1>2. CASE CallSplit
  <2>1. cursor' = 0 /\ end' = 0 /\ ranges' = <<>> /\ phase' = "split"
    BY <1>2 DEF CallSplit
  <2>2. N' \in Nat
    <3>1. text' = Head(sections).text /\ Head(sections) \in ChunkSections
      BY <1>2, HeadIs DEF CallSplit, ChunkInv
    <3>2. Len(Head(sections).text.lines) \in Nat
      BY <3>1, SectionLines
    <3> QED
      BY <3>1, <3>2 DEF N
  <2> QED
    BY <2>1, <2>2 DEF StuckInv, Unfinished
<1>3. CASE SplitStep
  <2>1. phase = "split" /\ phase' = "split" /\ Split /\ WindowInv /\ Unfinished
    BY <1>3 DEF SplitStep, ChunkInv, Splitting, StuckInv
  <2> QED
    BY <2>1, SplitUnfinished DEF StuckInv
<1>4. CASE UNCHANGED chunkVars
  <2>1. phase' = phase /\ returned' = returned /\ cursor' = cursor /\ end' = end /\ ranges' = ranges /\ text' = text
    BY <1>4 DEF chunkVars, windowVars
  <2>2. N' = N /\ ((AllBlank(0, N))' <=> AllBlank(0, N)) /\ (Fits' <=> Fits)
    <3>1. N' = N /\ ((AllBlank(0, N))' <=> AllBlank(0, N))
      BY <2>1 DEF N, AllBlank
    <3>2. Fits' <=> Fits
      BY <1>4, FitsKept DEF chunkVars, windowVars
    <3> QED
      BY <3>1, <3>2
  <2> QED
    BY <2>1, <2>2 DEF StuckInv, Unfinished
<1> QED
  BY <1>1, <1>2, <1>3, <1>4 DEF ChunkNext

LEMMA NearerStep ==
    ASSUME ChunkInv, ChunkNext
    PROVE  Nearer
<1>1. CASE Scan
  BY <1>1 DEF Scan, Nearer
<1>2. ASSUME NEW made, sections # <<>>, phase \in {"next", "split"}, Add(made), sections \in Seq(ChunkSections)
      PROVE  Nearer
  <2>1. CASE phase' = "failed"
    BY <1>2, <2>1 DEF Nearer
  <2>2. CASE sections' = Tail(sections) /\ phase' = "next"
    <3>1. Len(Tail(sections)) < Len(sections)
      BY <1>2
    <3> QED
      BY <1>2, <2>2, <3>1 DEF Nearer
  <2> QED
    BY <1>2, <2>1, <2>2 DEF Add
<1>3. phase \in {"next", "split"} => sections \in Seq(ChunkSections)
  BY DEF ChunkInv, Working
<1>4. CASE TakeWhole
  BY <1>2, <1>3, <1>4 DEF TakeWhole
<1>5. CASE CallSplit
  BY <1>5 DEF CallSplit, Nearer
<1>6. CASE SplitStep
  <2>1. phase = "split" /\ phase' = "split" /\ sections' = sections /\ Split /\ WindowInv
    BY <1>6 DEF SplitStep, ChunkInv, Splitting
  <2> QED
    BY <2>1, SplitAdvances DEF Nearer
<1>7. CASE Collect
  <2>1. sections # <<>>
    BY <1>7 DEF Collect, ChunkInv, Splitting
  <2> QED
    BY <1>2, <1>3, <1>7, <2>1 DEF Collect
<1>8. CASE Finish
  BY <1>8 DEF Finish, Nearer
<1> QED
  BY <1>1, <1>4, <1>5, <1>6, <1>7, <1>8 DEF ChunkNext

\* The loops of split_text_by_lines end: every round returns, moves on to a
\* later window, or makes the window longer, and neither can go on beyond the
\* text, however large the overlap is.
THEOREM WindowsTerminate == SplitSpec => [][Advances]_windowVars
<1>1. WindowInv /\ [Split]_windowVars => [Advances]_windowVars
  BY SplitAdvances
<1> QED
  BY <1>1, WindowsSound, PTL DEF SplitSpec

\* Chunking ends: the document is scanned once, a section that has been taken
\* does not come back, and splitting one ends.
THEOREM ChunkingEnds == ChunkSpec => [][Nearer]_chunkVars
<1>1. ChunkInv /\ [ChunkNext]_chunkVars => [Nearer]_chunkVars
  BY NearerStep
<1> QED
  BY <1>1, ChunkKept, PTL DEF ChunkSpec

\* A call that splits a section is never stuck: until it returns, one of the
\* guards of its loops holds.
THEOREM NeverStuck == ChunkSpec => [](phase = "split" /\ ~returned => CanStep)
<1>1. ChunkInit => StuckInv
  BY DEF ChunkInit, StuckInv
<1>2. ChunkInv /\ StuckInv => (phase = "split" /\ ~returned => CanStep)
  BY UnfinishedSteps DEF StuckInv, ChunkInv, Splitting
<1> QED
  BY <1>1, <1>2, StuckStep, ChunkKept, PTL DEF ChunkSpec

=============================================================================
