-------------------------- MODULE SourceSyncProofs --------------------------
(***************************************************************************)
(* Theorems about SourceSync, for any number of paths, commits, workers,   *)
(* operators and administrators: what holds in every mode, then what the   *)
(* source lock adds, each on the invariant before it:                      *)
(*                                                                         *)
(*   TypeInv     types, and that whoever plans has a pushed manifest;      *)
(*   CreditInv   the audit row a sync will credit;                         *)
(*   SessionInv  the transaction that moves the snapshot reads no row that *)
(*               changes before it commits;                                *)
(*   CitedInv    row locks, and the commits the file rows name;            *)
(*   PublishInv  one actor at a time, so plans are current (Exclusive);    *)
(*   PinnedInv   the file rows' provenance;                                *)
(*   AuditInv    the audit table;                                          *)
(*   LedgerInv, RecoveryInv what the index holds between two steps.        *)
(***************************************************************************)
EXTENDS SourceSync, SequenceTheorems, TLAPS

Statuses == {"running", "succeeded", "failed"}

\* Between discover and release an actor holds a manifest.
Planning == Phases \ {"idle", "discover", "release"}

Planned == \A a \in Actors : pc[a] \in Planning => manifest[a] \in pushed

TypeInv == TypeOK /\ Planned

\* A step of complete_run's transaction before its commit.
SessionStep(a) ==
  \/ ReadSource(a) \/ WriteSource(a) \/ DeleteRows(a)
  \/ ReadRow(a) \/ WriteRow(a) \/ Conflict(a)

\* Where such a step starts.
Sessions == {"complete", "write_source", "delete_rows", "rows"}

-----------------------------------------------------------------------------
(* The audit table                                                         *)

\* A function on 1 .. n is a sequence.
LEMMA FunctionIsSeq ==
  ASSUME NEW S, NEW n \in Nat, NEW f \in [1 .. n -> S]
  PROVE  f \in Seq(S)
BY SeqDef

\* A status write leaves a well-typed audit table, whatever row it is for.
LEMMA StatusTyped ==
  ASSUME NEW table \in Seq(RunRow), NEW r \in Nat, NEW s \in Statuses
  PROVE  [table EXCEPT ![r].status = s] \in Seq(RunRow)
<1>1. Len(table) \in Nat /\ table \in [1 .. Len(table) -> RunRow]
  BY LenProperties
<1>2. \A i \in 1 .. Len(table) : [table[i] EXCEPT !.status = s] \in RunRow
  BY <1>1 DEF RunRow, Statuses
<1>3. [table EXCEPT ![r].status = s] \in [1 .. Len(table) -> RunRow]
  BY <1>1, <1>2
<1>4. QED
  BY <1>1, <1>3, FunctionIsSeq

\* start_run's supersession and insert leave a well-typed audit table.
LEMMA StartTyped ==
  ASSUME NEW table \in Seq(RunRow), NEW old, NEW c \in Commits
  PROVE  Append([r \in DOMAIN table |->
                   IF r \in old THEN [table[r] EXCEPT !.status = "failed"]
                                ELSE table[r]],
                [commit |-> c, status |-> "running"]) \in Seq(RunRow)
<1> DEFINE superseded == [r \in DOMAIN table |->
                            IF r \in old THEN [table[r] EXCEPT !.status = "failed"]
                                         ELSE table[r]]
<1>1. /\ Len(table) \in Nat
      /\ table \in [1 .. Len(table) -> RunRow]
      /\ DOMAIN table = 1 .. Len(table)
  BY LenProperties
<1>2. \A r \in 1 .. Len(table) : [table[r] EXCEPT !.status = "failed"] \in RunRow
  BY <1>1 DEF RunRow
<1>3. superseded \in [1 .. Len(table) -> RunRow]
  BY <1>1, <1>2
<1>4. superseded \in Seq(RunRow)
  BY <1>1, <1>3, FunctionIsSeq
<1>5. [commit |-> c, status |-> "running"] \in RunRow
  BY DEF RunRow
<1>6. QED
  BY <1>4, <1>5, AppendProperties
-----------------------------------------------------------------------------
(* The index and the file list                                             *)

\* The Qdrant operations map points to points.
LEMMA IndexTyped ==
  ASSUME TypeOK, NEW paths, NEW c \in Commits
  PROVE  /\ Upserted(paths, c) \in Points
         /\ Relabelled(paths, c) \in Points
<1>1. index \in [Paths -> [Commits -> Commits \cup {NoCommit}]]
  BY DEF TypeOK, Points
<1>2. Upserted(paths, c) \in Points
  BY <1>1 DEF Upserted, Points
<1>3. Relabelled(paths, c) \in Points
  BY <1>1 DEF Relabelled, Points
<1>4. QED
  BY <1>2, <1>3

LEMMA DeletionTyped ==
  ASSUME TypeOK, NEW paths, NEW keep
  PROVE  Without(paths, keep) \in Points
BY DEF TypeOK, Points, Without

\* The rows complete_run wants, and what its updates leave, are rows.
LEMMA NewRowTyped ==
  ASSUME TypeOK, NEW a \in Actors, manifest[a] \in Commits, NEW p \in Paths
  PROVE  NewRow(a, p) \in FileRow
<1>1. tree[manifest[a]][p] \in Blobs \cup {NoBlob}
  BY DEF TypeOK, Trees
<1>2. prevFiles[a][p].content \in Commits \cup {NoCommit}
  BY DEF TypeOK, FileRow
<1>3. QED
  BY <1>1, <1>2 DEF NewRow, NoFile, FileRow

LEMMA MergedTyped ==
  ASSUME NEW read \in FileRow, NEW new \in FileRow, NEW now \in FileRow
  PROVE  Merged(read, new, now) \in FileRow
BY DEF Merged, Column, FileRow

-----------------------------------------------------------------------------
(* Type correctness                                                        *)

\* Whoever holds a manifest got it from GitHub.
LEMMA ManifestTyped ==
  ASSUME TypeInv, NEW a \in Actors, pc[a] \in Planning
  PROVE  manifest[a] \in pushed /\ manifest[a] \in Commits
BY DEF TypeInv, TypeOK, Planned

\* An actor that forgets its locals leaves the others' alone.
LEMMA ForgetTyped ==
  ASSUME TypeInv, NEW a \in Actors, ForgetLocals(a), UNCHANGED pushed
  PROVE  /\ pc' \in [Actors -> Phases]
         /\ adopting' \in [Actors -> BOOLEAN]
         /\ manifest' \in [Actors -> Commits \cup {NoCommit}]
         /\ prevSnap' \in [Actors -> Commits \cup {NoCommit}]
         /\ prevFiles' \in [Actors -> [Paths -> FileRow]]
         /\ stale' \in [Actors -> SUBSET Nat]
         /\ run' \in [Actors -> Nat]
         /\ todo' \in [Actors -> SUBSET Paths]
         /\ readSource' \in [Actors -> Commits \cup {NoCommit}]
         /\ readFiles' \in [Actors -> [Paths -> FileRow]]
         /\ unflushed' \in [Actors -> SUBSET Paths]
         /\ Planned'
<1>1. NoFiles \in [Paths -> FileRow]
  BY DEF NoFiles, NoFile, FileRow
<1>2. QED
  BY <1>1 DEF TypeInv, TypeOK, ForgetLocals, Goto, Planned, Planning, Phases

LEMMA InitTyped == Init => TypeInv
<1> SUFFICES ASSUME Init PROVE TypeInv
  OBVIOUS
<1>1. head \in pushed /\ pushed \subseteq Commits
  BY DEF Init
<1>2. tree \in [Commits -> Trees]
  BY DEF Init, Trees
<1>3. files \in [Paths -> FileRow]
  BY DEF Init, NoFiles, NoFile, FileRow
<1>4. runs \in Seq(RunRow)
  BY EmptySeq DEF Init
<1>5. index \in Points
  BY DEF Init, Points
<1>6. Planned
  BY DEF Init, Planned, Planning
<1>7. QED
  BY <1>1, <1>2, <1>3, <1>4, <1>5, <1>6 DEF Init, TypeInv, TypeOK, Phases, NoFiles

\* GitHub, the bulk indexer and Redis touch no actor's locals.
LEMMA EnvironmentTyped ==
  ASSUME TypeInv, Push \/ ResetRef \/ BulkIndex \/ ExpireLock
  PROVE  TypeInv'
<1>1. CASE Push
  BY <1>1 DEF Push, TypeInv, TypeOK, Planned, postgres, locals, plan, session,
       RunRow, Points
<1>2. CASE ResetRef
  BY <1>2 DEF ResetRef, TypeInv, TypeOK, Planned, postgres, locals, plan, session
<1>3. CASE BulkIndex
  <2>1. index' \in Points
    BY <1>3, IndexTyped DEF BulkIndex, TypeInv, TypeOK
  <2>2. QED
    BY <1>3, <2>1 DEF BulkIndex, TypeInv, TypeOK, Planned, github, postgres,
         locals, plan, session
<1>4. CASE ExpireLock
  BY <1>4 DEF ExpireLock, TypeInv, TypeOK, Planned, github, postgres, locals, plan,
       session
<1>5. QED
  BY <1>1, <1>2, <1>3, <1>4

\* Up to start_run.
LEMMA PlanningTyped ==
  ASSUME TypeInv, NEW a \in Actors,
         \/ AcquireLock(a) \/ StartCliSync(a) \/ StartAdoption(a)
         \/ Discover(a) \/ LoadSnapshot(a) \/ LoadFiles(a)
         \/ StartRunRead(a) \/ StartRunWrite(a)
  PROVE  TypeInv'
<1> USE DEF TypeInv, TypeOK, Planned, Planning, Phases, Goto, github, postgres
<1>1. CASE AcquireLock(a)
  BY <1>1 DEF AcquireLock, locals, plan, session
<1>2. CASE StartCliSync(a)
  BY <1>2 DEF StartCliSync, locals, plan, session
<1>3. CASE StartAdoption(a)
  BY <1>3 DEF StartAdoption, session
<1>4. CASE Discover(a)
  BY <1>4 DEF Discover, session
<1>5. CASE LoadSnapshot(a)
  BY <1>5 DEF LoadSnapshot, session
<1>6. CASE LoadFiles(a)
  BY <1>6 DEF LoadFiles, session
<1>7. CASE StartRunRead(a)
  BY <1>7, LenProperties DEF StartRunRead, plan, session
<1>8. CASE StartRunWrite(a)
  <2>1. manifest[a] \in Commits
    BY <1>8 DEF StartRunWrite
  <2>2. runs' \in Seq(RunRow)
    BY <1>8, <2>1, StartTyped DEF StartRunWrite
  <2>3. run' \in [Actors -> Nat]
    BY <1>8, LenProperties DEF StartRunWrite
  <2>4. QED
    BY <1>8, <2>2, <2>3 DEF StartRunWrite, plan, session
<1>9. QED
  BY <1>1, <1>2, <1>3, <1>4, <1>5, <1>6, <1>7, <1>8

\* Inside the try block.
LEMMA RunTyped ==
  ASSUME TypeInv, NEW a \in Actors,
         \/ Fetch(a) \/ IndexBatch(a)
         \/ UpdateUnchanged(a) \/ DeleteModified(a) \/ DeleteRemoved(a)
         \/ RemoveStale(a)
  PROVE  TypeInv'
<1> USE DEF TypeInv, TypeOK, Planned, Planning, Phases, Goto, github, postgres
<1>1. CASE Fetch(a)
  BY <1>1 DEF Fetch, plan, session, Chunked, FilesOf
<1>2. CASE IndexBatch(a)
  <2>1. index' \in Points
    <3>1. manifest[a] \in Commits
      BY <1>2, ManifestTyped DEF IndexBatch
    <3>2. \E batch : index' = Upserted(batch, manifest[a])
      BY <1>2 DEF IndexBatch
    <3>3. QED
      BY <3>1, <3>2, IndexTyped
  <2>2. PICK batch \in (SUBSET todo[a]) \ {{}} : todo' = [todo EXCEPT ![a] = @ \ batch]
    BY <1>2 DEF IndexBatch
  <2>3. todo' \in [Actors -> SUBSET Paths]
    BY <2>2
  <2>4. QED
    BY <1>2, <2>1, <2>3 DEF IndexBatch, plan, session
<1>3. CASE UpdateUnchanged(a)
  <2>1. index' \in Points
    BY <1>3, ManifestTyped, IndexTyped DEF UpdateUnchanged
  <2>2. QED
    BY <1>3, <2>1 DEF UpdateUnchanged, locals, plan, session
<1>4. CASE DeleteModified(a)
  BY <1>4, DeletionTyped DEF DeleteModified, locals, plan, session
<1>5. CASE DeleteRemoved(a)
  BY <1>5, DeletionTyped DEF DeleteRemoved, locals, plan, session
<1>6. CASE RemoveStale(a)
  <2>1. index' \in Points
    BY <1>6, DeletionTyped DEF RemoveStale
  <2>2. QED
    BY <1>6, <2>1 DEF RemoveStale, locals, plan, session
<1>7. QED
  BY <1>1, <1>2, <1>3, <1>4, <1>5, <1>6

\* complete_run's transaction.
LEMMA SessionTyped ==
  ASSUME TypeInv, NEW a \in Actors, SessionStep(a)
  PROVE  TypeInv'
<1> USE DEF TypeInv, TypeOK, Planned, Planning, Phases, Goto, github, postgres
<1>1. CASE ReadSource(a)
  BY <1>1 DEF ReadSource, plan
<1>2. CASE WriteSource(a)
  BY <1>2 DEF WriteSource, locals, plan, session
<1>3. CASE DeleteRows(a)
  <2>1. readFiles' \in [Actors -> [Paths -> FileRow]]
    <3>1. NoFile \in FileRow
      BY DEF NoFile, FileRow
    <3>2. [p \in Paths |-> IF p \in Deleted(a) THEN files[p] ELSE NoFile]
            \in [Paths -> FileRow]
      BY <3>1
    <3>3. QED
      BY <1>3, <3>2 DEF DeleteRows
  <2>2. todo' \in [Actors -> SUBSET Paths]
    BY <1>3 DEF DeleteRows, FilesOf
  <2>3. QED
    BY <1>3, <2>1, <2>2 DEF DeleteRows, plan
<1>4. CASE ReadRow(a)
  <2>1. PICK p \in todo[a] :
          /\ readFiles' = [readFiles EXCEPT ![a][p] = files[p]]
          /\ unflushed' = [unflushed EXCEPT ![a] = {p}]
          /\ todo' = [todo EXCEPT ![a] = @ \ {p}]
    BY <1>4 DEF ReadRow
  <2>2. p \in Paths
    BY <2>1
  <2>3. readFiles' \in [Actors -> [Paths -> FileRow]]
    BY <2>1, <2>2
  <2>4. /\ unflushed' \in [Actors -> SUBSET Paths]
        /\ todo' \in [Actors -> SUBSET Paths]
    BY <2>1, <2>2
  <2>5. QED
    BY <1>4, <2>3, <2>4 DEF ReadRow, plan
<1>5. CASE WriteRow(a)
  BY <1>5 DEF WriteRow, plan
<1>6. CASE Conflict(a)
  BY <1>6 DEF Conflict, locals, plan, session
<1>7. QED
  BY <1>1, <1>2, <1>3, <1>4, <1>5, <1>6 DEF SessionStep

LEMMA CompleteRunTyped ==
  ASSUME TypeInv, NEW a \in Actors, CompleteRun(a)
  PROVE  TypeInv'
<1>1. pc[a] = "rows" /\ manifest[a] \in Commits
  BY ManifestTyped DEF CompleteRun, Planning, Phases
<1>2. files' \in [Paths -> FileRow]
  <2>1. \A p \in Paths : /\ Merged(readFiles[a][p], NewRow(a, p), files[p]) \in FileRow
                         /\ files[p] \in FileRow
    BY <1>1, NewRowTyped, MergedTyped DEF TypeInv, TypeOK
  <2>2. files' = [p \in Paths |->
                    IF p \in Written(a)
                    THEN Merged(readFiles[a][p], NewRow(a, p), files[p]) ELSE files[p]]
    BY DEF CompleteRun
  <2>3. QED
    BY <2>1, <2>2
<1>3. runs' \in Seq(RunRow)
  BY StatusTyped DEF CompleteRun, Statuses, TypeInv, TypeOK
<1>4. snapshot' \in Commits \cup {NoCommit} /\ lastRun' \in Nat
  BY <1>1 DEF CompleteRun, Column, TypeInv, TypeOK
<1>5. PICK phase \in {"release", "failing"} : pc' = [pc EXCEPT ![a] = phase]
  BY DEF CompleteRun, Goto
<1>6. UNCHANGED <<github, lock, index, locals, faults>>
  BY DEF CompleteRun
<1>7. pc' \in [Actors -> Phases] /\ Planned'
  BY <1>1, <1>5, <1>6 DEF TypeInv, TypeOK, Planned, Planning, Phases, github,
       locals, plan
<1>8. QED
  BY <1>2, <1>3, <1>4, <1>6, <1>7
     DEF TypeInv, TypeOK, github, locals, plan, session

\* Failing, and leaving.
LEMMA LeavingTyped ==
  ASSUME TypeInv, NEW a \in Actors,
         RaiseInRun(a) \/ FailRun(a) \/ Unwind(a) \/ Crash(a) \/ Release(a)
  PROVE  TypeInv'
<1> USE DEF TypeInv, TypeOK, Planned, Planning, Phases, Goto, github, postgres
<1>1. CASE RaiseInRun(a)
  BY <1>1 DEF RaiseInRun, Guarded, Fault, locals, plan, session
<1>2. CASE FailRun(a)
  <2>1. runs' \in Seq(RunRow)
    BY <1>2, StatusTyped DEF FailRun, Statuses
  <2>2. QED
    BY <1>2, <2>1 DEF FailRun, locals, plan, session
<1>3. CASE Unwind(a)
  BY <1>3 DEF Unwind, Fault, locals, plan, session
<1>4. CASE Crash(a)
  BY <1>4, ForgetTyped DEF Crash, Fault
<1>5. CASE Release(a)
  BY <1>5, ForgetTyped DEF Release
<1>6. QED
  BY <1>1, <1>2, <1>3, <1>4, <1>5

LEMMA NextTyped == TypeInv /\ [Next]_vars => TypeInv'
<1> SUFFICES ASSUME TypeInv, [Next]_vars PROVE TypeInv'
  OBVIOUS
<1>1. CASE UNCHANGED vars
  BY <1>1 DEF vars, github, postgres, locals, plan, session, TypeInv, TypeOK, Planned
<1>2. CASE Next
  BY <1>2, EnvironmentTyped, PlanningTyped, RunTyped, SessionTyped,
     CompleteRunTyped, LeavingTyped
     DEF Next, SyncStep, SessionStep
<1>3. QED
  BY <1>1, <1>2

LEMMA AlwaysTyped == Spec => []TypeInv
BY InitTyped, NextTyped, PTL DEF Spec

\* Every reachable state is well typed, in every mode: in particular a run row
\* never gets a commit that is none, since start_run follows discover.
THEOREM SyncTyped == Spec => []TypeOK
<1>1. TypeInv => TypeOK
  BY DEF TypeInv
<1>2. QED
  BY <1>1, AlwaysTyped, PTL

-----------------------------------------------------------------------------
(* Steps                                                                   *)

\* What a session step leaves alone.
LEMMA SessionLocal ==
  ASSUME NEW a \in Actors, SessionStep(a), TypeOK
  PROVE  /\ pc[a] \in Sessions
         /\ \E phase \in (Sessions \ {"complete"}) \cup {"failing"} :
              pc' = [pc EXCEPT ![a] = phase]
         /\ UNCHANGED <<tree, pushed, head, lock, postgres, index, plan, stale, run,
                        faults>>
<1> USE DEF Sessions, Goto, github, locals, TypeOK
<1>1. CASE ReadSource(a)
  BY <1>1 DEF ReadSource
<1>2. CASE WriteSource(a)
  BY <1>2 DEF WriteSource
<1>3. CASE DeleteRows(a)
  BY <1>3 DEF DeleteRows
<1>4. CASE ReadRow(a)
  BY <1>4 DEF ReadRow
<1>5. CASE WriteRow(a)
  BY <1>5 DEF WriteRow
<1>6. CASE Conflict(a)
  BY <1>6 DEF Conflict
<1>7. QED
  BY <1>1, <1>2, <1>3, <1>4, <1>5, <1>6 DEF SessionStep

\* Nobody else's place and locals change.
Kept(a) ==
  /\ pc'[a] = pc[a]
  /\ manifest'[a] = manifest[a]
  /\ prevFiles'[a] = prevFiles[a]
  /\ todo'[a] = todo[a]
  /\ readSource'[a] = readSource[a]
  /\ readFiles'[a] = readFiles[a]
  /\ unflushed'[a] = unflushed[a]

LEMMA OthersKept ==
  ASSUME TypeInv, NEW a \in Actors, SyncStep(a), NEW b \in Actors, b # a
  PROVE  Kept(b)
<1> USE DEF Kept, Goto, locals, plan, session, TypeInv, TypeOK
<1>1. CASE AcquireLock(a) \/ StartCliSync(a) \/ StartAdoption(a)
  BY <1>1 DEF AcquireLock, StartCliSync, StartAdoption
<1>2. CASE Discover(a) \/ LoadSnapshot(a) \/ LoadFiles(a)
  BY <1>2 DEF Discover, LoadSnapshot, LoadFiles
<1>3. CASE StartRunRead(a) \/ StartRunWrite(a)
  BY <1>3 DEF StartRunRead, StartRunWrite
<1>4. CASE Fetch(a) \/ IndexBatch(a)
  BY <1>4 DEF Fetch, IndexBatch
<1>5. CASE UpdateUnchanged(a) \/ DeleteModified(a)
  BY <1>5 DEF UpdateUnchanged, DeleteModified
<1>6. CASE DeleteRemoved(a) \/ RemoveStale(a)
  BY <1>6 DEF DeleteRemoved, RemoveStale
<1>7. CASE ReadSource(a) \/ WriteSource(a) \/ DeleteRows(a)
  BY <1>7 DEF ReadSource, WriteSource, DeleteRows
<1>8. CASE ReadRow(a) \/ WriteRow(a) \/ Conflict(a)
  BY <1>8 DEF ReadRow, WriteRow, Conflict
<1>9. CASE CompleteRun(a)
  BY <1>9 DEF CompleteRun
<1>10. CASE RaiseInRun(a) \/ FailRun(a) \/ Unwind(a)
  BY <1>10 DEF RaiseInRun, FailRun, Unwind
<1>11. CASE Crash(a) \/ Release(a)
  BY <1>11 DEF Crash, Release, ForgetLocals
<1>12. QED
  BY <1>1, <1>2, <1>3, <1>4, <1>5, <1>6, <1>7, <1>8, <1>9, <1>10, <1>11 DEF SyncStep

\* A step is the actor's, another's or the environment's.
LEMMA StepOrKept ==
  ASSUME TypeInv, [Next]_vars, NEW a \in Actors
  PROVE  SyncStep(a) \/ Kept(a)
<1>1. ASSUME NEW b \in Actors, SyncStep(b), b # a PROVE Kept(a)
  BY <1>1, OthersKept
<1>2. CASE Push \/ ResetRef \/ BulkIndex \/ ExpireLock \/ UNCHANGED vars
  BY <1>2 DEF Push, ResetRef, BulkIndex, ExpireLock, vars, locals, plan, session, Kept
<1>3. QED
  BY <1>1, <1>2 DEF Next

\* No step but a completion publishes anything.
LEMMA OnlyCompletionPublishes ==
  ASSUME [Next]_vars, \A a \in Actors : ~CompleteRun(a)
  PROVE  /\ UNCHANGED <<snapshot, lastRun, files>>
         /\ Push \/ UNCHANGED <<tree, pushed>>
BY DEF Next, vars, SyncStep, Push, ResetRef, BulkIndex, ExpireLock, AcquireLock,
       StartCliSync, StartAdoption, Discover, LoadSnapshot, LoadFiles,
       StartRunRead, StartRunWrite, Fetch, IndexBatch, UpdateUnchanged,
       DeleteModified, DeleteRemoved, RemoveStale, ReadSource, WriteSource,
       DeleteRows, ReadRow, WriteRow, Conflict, RaiseInRun, FailRun, Unwind,
       Crash, Release, github, postgres

\* A pushed commit does not change.
LEMMA PushedKept ==
  ASSUME TypeInv, [Next]_vars
  PROVE  pushed \subseteq pushed' /\ \A c \in pushed : tree'[c] = tree[c]
<1>1. CASE \E a \in Actors : CompleteRun(a)
  BY <1>1 DEF CompleteRun, github
<1>2. CASE \A a \in Actors : ~CompleteRun(a)
  BY <1>2, OnlyCompletionPublishes DEF Push, TypeInv, TypeOK
<1>3. QED
  BY <1>1, <1>2

-----------------------------------------------------------------------------
(* The audit table                                                         *)

\* What start_run leaves of the audit table.
LEMMA StartedRows ==
  ASSUME TypeInv, NEW a \in Actors, StartRunWrite(a)
  PROVE  /\ DOMAIN runs' = 1 .. Len(runs) + 1
         /\ Len(runs') = Len(runs) + 1
         /\ DOMAIN runs = 1 .. Len(runs)
         /\ Len(runs) \in Nat
         /\ \A r \in DOMAIN runs :
              runs'[r] = IF r \in stale[a] THEN [runs[r] EXCEPT !.status = "failed"]
                                           ELSE runs[r]
         /\ runs'[Len(runs) + 1] = [commit |-> manifest[a], status |-> "running"]
<1> DEFINE superseded == [r \in DOMAIN runs |->
             IF r \in stale[a] THEN [runs[r] EXCEPT !.status = "failed"] ELSE runs[r]]
<1>1. /\ Len(runs) \in Nat
      /\ DOMAIN runs = 1 .. Len(runs)
      /\ runs \in [1 .. Len(runs) -> RunRow]
  BY LenProperties DEF TypeInv, TypeOK
<1>2. \A r \in 1 .. Len(runs) : [runs[r] EXCEPT !.status = "failed"] \in RunRow
  BY <1>1 DEF RunRow
<1>3. superseded \in [1 .. Len(runs) -> RunRow]
  BY <1>1, <1>2
<1>4. superseded \in Seq(RunRow)
  BY <1>1, <1>3, FunctionIsSeq
<1>5. Len(superseded) = Len(runs)
  BY <1>1, <1>3, <1>4, LenProperties
<1>6. manifest[a] \in Commits
  BY ManifestTyped DEF StartRunWrite, Planning, Phases
<1>7. runs' = Append(superseded, [commit |-> manifest[a], status |-> "running"])
  BY DEF StartRunWrite
<1>8. [commit |-> manifest[a], status |-> "running"] \in RunRow
  BY <1>6 DEF RunRow
<1>9. /\ Len(runs') = Len(runs) + 1
      /\ DOMAIN runs' = 1 .. Len(runs) + 1
      /\ \A r \in 1 .. Len(runs) : runs'[r] = superseded[r]
      /\ runs'[Len(runs) + 1] = [commit |-> manifest[a], status |-> "running"]
  <2> HIDE DEF superseded
  <2>1. runs' \in Seq(RunRow)
    BY <1>4, <1>7, <1>8, AppendProperties
  <2>2. QED
    BY <1>4, <1>5, <1>7, <1>8, <2>1, AppendProperties, LenProperties
<1>10. QED
  BY <1>1, <1>9

\* What a status write leaves of the audit table.
LEMMA StatusRows ==
  ASSUME TypeInv, NEW r \in DOMAIN runs, NEW s,
         runs' = [runs EXCEPT ![r].status = s]
  PROVE  /\ DOMAIN runs' = DOMAIN runs
         /\ \A q \in DOMAIN runs \ {r} : runs'[q] = runs[q]
         /\ runs'[r] = [commit |-> runs[r].commit, status |-> s]
<1>1. DOMAIN runs = 1 .. Len(runs) /\ runs \in [1 .. Len(runs) -> RunRow]
  BY LenProperties DEF TypeInv, TypeOK
<1>2. runs[r] \in RunRow
  BY <1>1
<1>3. QED
  BY <1>1, <1>2 DEF RunRow

\* A sync in progress has a row of its manifest's commit.
RunRecorded ==
  \A a \in Actors : InRun(a) =>
    run[a] \in DOMAIN runs /\ runs[run[a]].commit = manifest[a]

\* Rows only ever gain a status, so a sync in progress keeps the row that
\* complete_run will credit.
CreditInv == TypeInv /\ RunRecorded

\* Rows are added and change status, and nothing else.
CommitsKept ==
  /\ DOMAIN runs \subseteq DOMAIN runs'
  /\ \A r \in DOMAIN runs : runs'[r].commit = runs[r].commit

LEMMA NextCommitsKept ==
  ASSUME CreditInv, [Next]_vars
  PROVE  CommitsKept
<1> USE DEF CreditInv
<1>1. ASSUME NEW a \in Actors, StartRunWrite(a) PROVE CommitsKept
  <2>1. \A r \in DOMAIN runs : runs[r] \in RunRow
    BY LenProperties DEF TypeInv, TypeOK
  <2>2. /\ DOMAIN runs' = 1 .. Len(runs) + 1
        /\ DOMAIN runs = 1 .. Len(runs)
        /\ Len(runs) \in Nat
        /\ \A r \in DOMAIN runs :
             runs'[r] \in {runs[r], [runs[r] EXCEPT !.status = "failed"]}
    BY <1>1, StartedRows
  <2>3. DOMAIN runs \subseteq DOMAIN runs'
    BY <2>2
  <2>4. ASSUME NEW r \in DOMAIN runs PROVE runs'[r].commit = runs[r].commit
    BY <2>1, <2>2 DEF RunRow
  <2>5. QED
    BY <2>3, <2>4 DEF CommitsKept
<1>2. ASSUME NEW a \in Actors, CompleteRun(a) \/ FailRun(a) PROVE CommitsKept
  <2>1. run[a] \in DOMAIN runs
    BY <1>2 DEF CompleteRun, FailRun, RunRecorded, InRun, Guarded
  <2>2. \E s : runs' = [runs EXCEPT ![run[a]].status = s]
    BY <1>2 DEF CompleteRun, FailRun
  <2>3. QED
    BY <2>1, <2>2, StatusRows DEF CommitsKept
<1>3. CASE UNCHANGED runs
  BY <1>3 DEF CommitsKept
<1>4. QED
  BY <1>1, <1>2, <1>3
     DEF Next, vars, SyncStep, Push, ResetRef, BulkIndex, ExpireLock, AcquireLock,
         StartCliSync, StartAdoption, Discover, LoadSnapshot, LoadFiles,
         StartRunRead, Fetch, IndexBatch, UpdateUnchanged, DeleteModified,
         DeleteRemoved, RemoveStale, ReadSource, WriteSource, DeleteRows, ReadRow,
         WriteRow, Conflict, RaiseInRun, Unwind, Crash, Release, postgres

LEMMA NextRunRecorded ==
  ASSUME CreditInv, [Next]_vars
  PROVE  RunRecorded'
<1> USE DEF CreditInv, RunRecorded, InRun, Guarded, Sessions
<1>1. CommitsKept
  BY NextCommitsKept
<1>2. ASSUME NEW a \in Actors, StartRunWrite(a) PROVE RunRecorded'
  <2>1. /\ UNCHANGED manifest
        /\ run' = [run EXCEPT ![a] = Len(runs) + 1]
        /\ \E phase : pc' = [pc EXCEPT ![a] = phase]
    BY <1>2 DEF StartRunWrite, Goto, plan
  <2>2. Len(runs) + 1 \in DOMAIN runs' /\ runs'[Len(runs) + 1].commit = manifest[a]
    <3>1. /\ DOMAIN runs' = 1 .. Len(runs) + 1
          /\ Len(runs) \in Nat
          /\ runs'[Len(runs) + 1] = [commit |-> manifest[a], status |-> "running"]
      BY <1>2, StartedRows
    <3>2. QED
      BY <3>1
  <2>3. QED
    BY <1>1, <2>1, <2>2 DEF CommitsKept, TypeInv, TypeOK
<1>3. ASSUME NEW a \in Actors, NEW phase, pc' = [pc EXCEPT ![a] = phase],
             phase \in Guarded \cup {"failing"} => InRun(a),
             UNCHANGED <<run, manifest>>
      PROVE  RunRecorded'
  BY <1>1, <1>3 DEF CommitsKept, TypeInv, TypeOK
<1>4. ASSUME NEW a \in Actors,
             \/ AcquireLock(a) \/ StartCliSync(a)
             \/ LoadSnapshot(a) \/ LoadFiles(a) \/ StartRunRead(a)
             \/ Fetch(a) \/ UpdateUnchanged(a) \/ DeleteModified(a)
             \/ DeleteRemoved(a) \/ RemoveStale(a) \/ CompleteRun(a)
             \/ RaiseInRun(a) \/ FailRun(a) \/ Unwind(a)
      PROVE  RunRecorded'
  <2>1. UNCHANGED <<run, manifest>>
    BY <1>4 DEF AcquireLock, StartCliSync, LoadSnapshot, LoadFiles, StartRunRead,
         Fetch, UpdateUnchanged, DeleteModified, DeleteRemoved, RemoveStale,
         CompleteRun, RaiseInRun, FailRun, Unwind, locals, plan, session
  <2>2. \E phase : /\ pc' = [pc EXCEPT ![a] = phase]
                   /\ phase \in Guarded \cup {"failing"} => InRun(a)
    BY <1>4 DEF AcquireLock, StartCliSync, LoadSnapshot, LoadFiles, StartRunRead,
         Fetch, UpdateUnchanged, DeleteModified, DeleteRemoved, RemoveStale,
         CompleteRun, RaiseInRun, FailRun, Unwind, Goto
  <2>3. QED
    BY <2>1, <2>2, <1>3
<1>5. ASSUME NEW a \in Actors,
             StartAdoption(a) \/ Discover(a) \/ Crash(a) \/ Release(a)
      PROVE  RunRecorded'
  <2>1. /\ \A b \in Actors \ {a} :
             pc'[b] = pc[b] /\ run'[b] = run[b] /\ manifest'[b] = manifest[b]
        /\ pc'[a] \in {"idle", "load_files", "load_snapshot"}
    BY <1>5 DEF StartAdoption, Discover, Crash, Release, ForgetLocals, Goto,
         TypeInv, TypeOK
  <2>2. QED
    BY <1>1, <2>1 DEF CommitsKept
<1>6. ASSUME UNCHANGED <<pc, run, manifest>> PROVE RunRecorded'
  BY <1>1, <1>6 DEF CommitsKept
<1>7. ASSUME NEW a \in Actors, IndexBatch(a) PROVE RunRecorded'
  BY <1>7, <1>6 DEF IndexBatch, plan
<1>8. CASE Push \/ ResetRef \/ BulkIndex \/ ExpireLock \/ UNCHANGED vars
  BY <1>8, <1>6 DEF Push, ResetRef, BulkIndex, ExpireLock, vars, locals, plan, session
<1>9. ASSUME NEW a \in Actors, SessionStep(a) PROVE RunRecorded'
  <2>1. PICK phase \in (Sessions \ {"complete"}) \cup {"failing"} :
          pc' = [pc EXCEPT ![a] = phase]
    BY <1>9, SessionLocal DEF TypeInv
  <2>2. UNCHANGED <<run, manifest>> /\ InRun(a)
    BY <1>9, SessionLocal DEF plan, TypeInv
  <2>3. QED
    BY <2>1, <2>2, <1>3
<1>10. QED
  BY <1>2, <1>4, <1>5, <1>7, <1>8, <1>9 DEF Next, SyncStep, SessionStep

LEMMA NextCredit == CreditInv /\ [Next]_vars => CreditInv'
BY NextTyped, NextRunRecorded DEF CreditInv

LEMMA InitCredit == Init => CreditInv
BY InitTyped DEF Init, CreditInv, RunRecorded, InRun, Guarded

-----------------------------------------------------------------------------
(* The rows of a commit, whatever overlaps                                 *)

\* What complete_run means to leave of the file rows.
CompletedFiles(a) ==
  [p \in Paths |-> IF p \in FilesOf(manifest[a]) \cup Deleted(a)
                   THEN NewRow(a, p) ELSE files[p]]

\* Every row its session has read is still as it was read.
RowsCurrent(a) ==
  /\ todo[a] \subseteq FilesOf(manifest[a])
  /\ \A p \in Paths :
       readFiles[a][p] = IF p \in (FilesOf(manifest[a]) \ todo[a]) \cup Deleted(a)
                         THEN files[p] ELSE NoFile

\* Then its updates, though of some columns only, leave what they mean to.
LEMMA MergedCurrent ==
  ASSUME NEW row \in FileRow, NEW new \in FileRow
  PROVE  Merged(row, new, row) = new
BY DEF Merged, Column, FileRow

LEMMA CompletionWrites ==
  ASSUME TypeInv, NEW a \in Actors, CompleteRun(a), RowsCurrent(a)
  PROVE  files' = CompletedFiles(a)
<1>1. pc[a] = "rows" /\ todo[a] = {} /\ unflushed[a] = {}
  BY DEF CompleteRun
<1>2. manifest[a] \in Commits
  BY <1>1, ManifestTyped DEF Planning, Phases
<1>3. files' = [p \in Paths |->
                  IF p \in Written(a)
                  THEN Merged(readFiles[a][p], NewRow(a, p), files[p]) ELSE files[p]]
  BY DEF CompleteRun
<1> SUFFICES ASSUME NEW p \in Paths PROVE files'[p] = CompletedFiles(a)[p]
  BY <1>3 DEF CompletedFiles
<1>4. NewRow(a, p) \in FileRow /\ files[p] \in FileRow
  BY <1>2, NewRowTyped DEF TypeInv, TypeOK
<1>5. p \in Written(a) <=> readFiles[a][p] # NewRow(a, p)
  BY <1>1 DEF Written
<1>6. CASE p \in FilesOf(manifest[a]) \cup Deleted(a)
  <2>1. readFiles[a][p] = files[p]
    BY <1>1, <1>6 DEF RowsCurrent
  <2>2. Merged(files[p], NewRow(a, p), files[p]) = NewRow(a, p)
    BY <1>4, MergedCurrent
  <2>3. QED
    BY <1>3, <1>5, <1>6, <2>1, <2>2 DEF CompletedFiles
<1>7. CASE p \notin FilesOf(manifest[a]) \cup Deleted(a)
  <2>1. readFiles[a][p] = NoFile /\ NewRow(a, p) = NoFile
    BY <1>7 DEF RowsCurrent, NewRow
  <2>2. QED
    BY <1>3, <1>5, <1>7, <2>1 DEF CompletedFiles
<1>8. QED
  BY <1>6, <1>7

\* The manifest and the plan of a sync are those of a pushed commit.
LEMMA ManifestKept ==
  ASSUME TypeInv, [Next]_vars, NEW a \in Actors, pc[a] \in Planning,
         manifest'[a] = manifest[a], prevFiles'[a] = prevFiles[a]
  PROVE  /\ FilesOf(manifest[a])' = FilesOf(manifest[a])
         /\ Deleted(a)' = Deleted(a)
         /\ \A p \in Paths : NewRow(a, p)' = NewRow(a, p)
<1>1. tree'[manifest[a]] = tree[manifest[a]]
  BY ManifestTyped, PushedKept
<1>2. /\ FilesOf(manifest[a])' = FilesOf(manifest[a])
      /\ Stored(a)' = Stored(a)
  BY <1>1 DEF FilesOf, Stored
<1>3. Deleted(a)' = Deleted(a)
  BY <1>2 DEF Deleted
<1>4. Unchanged(a)' = Unchanged(a)
  BY <1>1, <1>2 DEF Unchanged
<1>5. \A p \in Paths : NewRow(a, p)' = NewRow(a, p)
  BY <1>1, <1>2, <1>4 DEF NewRow, NoFile
<1>6. QED
  BY <1>2, <1>3, <1>5

\* A session goes on only by its own steps.
LEMMA ToSession ==
  ASSUME TypeInv, [Next]_vars, NEW a \in Actors, pc'[a] \in Sessions \ {"complete"}
  PROVE  Kept(a) \/ SessionStep(a)
<1> USE DEF TypeInv, TypeOK, Goto, Sessions
<1>1. ASSUME AcquireLock(a) \/ StartCliSync(a) \/ StartAdoption(a) \/ Discover(a)
             \/ LoadSnapshot(a) \/ LoadFiles(a)
      PROVE  FALSE
  BY <1>1 DEF AcquireLock, StartCliSync, StartAdoption, Discover, LoadSnapshot,
       LoadFiles
<1>2. ASSUME StartRunRead(a) \/ StartRunWrite(a) \/ Fetch(a) \/ IndexBatch(a)
             \/ UpdateUnchanged(a) \/ DeleteModified(a)
      PROVE  FALSE
  BY <1>2 DEF StartRunRead, StartRunWrite, Fetch, IndexBatch, UpdateUnchanged,
              DeleteModified
<1>3. ASSUME DeleteRemoved(a) \/ RemoveStale(a) \/ CompleteRun(a)
      PROVE  FALSE
  BY <1>3 DEF DeleteRemoved, RemoveStale, CompleteRun
<1>4. ASSUME RaiseInRun(a) \/ FailRun(a) \/ Unwind(a) \/ Crash(a) \/ Release(a)
      PROVE  FALSE
  BY <1>4 DEF RaiseInRun, FailRun, Unwind, Crash, Release, ForgetLocals
<1>5. QED
  BY <1>1, <1>2, <1>3, <1>4, StepOrKept DEF SyncStep, SessionStep

\* Where a session that is at its rows came from.
LEMMA ToRows ==
  ASSUME TypeInv, [Next]_vars, NEW a \in Actors, pc'[a] = "rows"
  PROVE  \/ Kept(a) /\ pc[a] = "rows"
         \/ DeleteRows(a) \/ ReadRow(a) \/ WriteRow(a)
<1>1. Kept(a) \/ SessionStep(a)
  BY ToSession DEF Sessions
<1>2. Kept(a) => pc[a] = "rows"
  BY DEF Kept
<1>3. ~ReadSource(a) /\ ~WriteSource(a) /\ ~Conflict(a)
  BY DEF ReadSource, WriteSource, Conflict, Goto, TypeInv, TypeOK
<1>4. QED
  BY <1>1, <1>2, <1>3 DEF SessionStep

\* What a session has read stays current as long as nobody else commits.
LEMMA RowsStayCurrent ==
  ASSUME TypeInv, [Next]_vars, NEW a \in Actors, pc'[a] = "rows",
         pc[a] = "rows" => RowsCurrent(a), files' = files
  PROVE  RowsCurrent(a)'
<1> DEFINE m == manifest[a]
<1>1. CASE Kept(a) /\ pc[a] = "rows"
  <2>1. FilesOf(m)' = FilesOf(m) /\ Deleted(a)' = Deleted(a)
    BY <1>1, ManifestKept DEF Kept, Planning, Phases
  <2>2. QED
    BY <1>1, <2>1 DEF RowsCurrent, Kept, NoFile
<1>2. CASE DeleteRows(a)
  <2>1. /\ readFiles' = [readFiles EXCEPT ![a] =
                           [p \in Paths |-> IF p \in Deleted(a) THEN files[p] ELSE NoFile]]
        /\ todo' = [todo EXCEPT ![a] = FilesOf(m)]
        /\ UNCHANGED <<manifest, prevFiles>> /\ pc[a] = "delete_rows"
    BY <1>2 DEF DeleteRows, plan
  <2>2. FilesOf(m)' = FilesOf(m) /\ Deleted(a)' = Deleted(a)
    BY <2>1, ManifestKept DEF Planning, Phases
  <2>3. todo'[a] = FilesOf(m)
    BY <2>1 DEF TypeInv, TypeOK
  <2>4. \A p \in Paths : readFiles'[a][p] = IF p \in Deleted(a) THEN files[p] ELSE NoFile
    BY <2>1 DEF TypeInv, TypeOK
  <2>5. QED
    BY <2>2, <2>3, <2>4 DEF RowsCurrent, NoFile
<1>3. CASE ReadRow(a)
  <2>1. PICK p \in todo[a] :
          /\ readFiles' = [readFiles EXCEPT ![a][p] = files[p]]
          /\ todo' = [todo EXCEPT ![a] = @ \ {p}]
    BY <1>3 DEF ReadRow
  <2>2. UNCHANGED <<manifest, prevFiles>> /\ pc[a] = "rows"
    BY <1>3 DEF ReadRow, plan
  <2>3. FilesOf(m)' = FilesOf(m) /\ Deleted(a)' = Deleted(a)
    BY <2>2, ManifestKept DEF Planning, Phases
  <2>4. p \in Paths /\ p \in FilesOf(m) /\ RowsCurrent(a)
    BY <2>1, <2>2 DEF RowsCurrent, TypeInv, TypeOK
  <2>5. todo'[a] = todo[a] \ {p}
    BY <2>1 DEF TypeInv, TypeOK
  <2>6. \A q \in Paths : readFiles'[a][q] = IF q = p THEN files[p] ELSE readFiles[a][q]
    BY <2>1, <2>4 DEF TypeInv, TypeOK
  <2>7. QED
    BY <2>3, <2>4, <2>5, <2>6 DEF RowsCurrent, NoFile
<1>4. CASE WriteRow(a)
  <2>1. UNCHANGED <<manifest, prevFiles, todo, readFiles>> /\ pc[a] = "rows"
    BY <1>4 DEF WriteRow, plan
  <2>2. FilesOf(m)' = FilesOf(m) /\ Deleted(a)' = Deleted(a)
    BY <2>1, ManifestKept DEF Planning, Phases
  <2>3. QED
    BY <2>1, <2>2 DEF RowsCurrent, NoFile
<1>5. QED
  BY <1>1, <1>2, <1>3, <1>4, ToRows

\* A run that has written the snapshot keeps everybody else's commit out: each
\* ends with an update of the same row.  One that has not may see anything.
SessionInv ==
  /\ CreditInv
  /\ \A a \in Actors : HoldsSource(a) /\ pc[a] = "rows" => RowsCurrent(a)

LEMMA NextSession == SessionInv /\ [Next]_vars => SessionInv'
<1> SUFFICES ASSUME SessionInv, [Next]_vars PROVE SessionInv'
  OBVIOUS
<1>1. CreditInv /\ CreditInv' /\ TypeInv
  BY NextCredit DEF SessionInv, CreditInv
<1> SUFFICES ASSUME NEW a \in Actors, HoldsSource(a)', pc'[a] = "rows"
             PROVE  RowsCurrent(a)'
  BY <1>1 DEF SessionInv
<1>2. /\ readSource'[a] = readSource[a] /\ manifest'[a] = manifest[a]
      /\ pc[a] \in {"delete_rows", "rows"}
  BY <1>1, ToRows DEF Kept, DeleteRows, ReadRow, WriteRow, plan
<1>3. HoldsSource(a)
  BY <1>2 DEF HoldsSource
<1>4. ASSUME NEW b \in Actors, CompleteRun(b) PROVE FALSE
  <2>1. b # a => ~HoldsSource(a)
    BY <1>4 DEF CompleteRun, SourceFree
  <2>2. pc'[b] # "rows"
    BY <1>1, <1>4 DEF CompleteRun, Goto, TypeInv, TypeOK
  <2>3. QED
    BY <1>3, <2>1, <2>2
<1>5. files' = files
  BY <1>4, OnlyCompletionPublishes
<1>6. pc[a] = "rows" => RowsCurrent(a)
  BY <1>3 DEF SessionInv
<1>7. QED
  BY <1>1, <1>5, <1>6, RowsStayCurrent

\* Whatever overlaps, a commit that moves the snapshot credits a run of that
\* commit and lists each of its files as the commit has it: no file of it is
\* left as another run's commit had it.
THEOREM SyncPublishesItsFiles == Spec => PublishesItsFiles
<1>1. SessionInv /\ [Next]_vars =>
        [snapshot' # snapshot =>
           /\ lastRun' \in DOMAIN runs' /\ runs'[lastRun'].commit = snapshot'
           /\ \A p \in FilesOf(snapshot') :
                files'[p].blob = tree[snapshot'][p] /\ files'[p].seen = snapshot']_vars
  <2> SUFFICES ASSUME SessionInv, [Next]_vars, snapshot' # snapshot
               PROVE  /\ lastRun' \in DOMAIN runs' /\ runs'[lastRun'].commit = snapshot'
                      /\ \A p \in FilesOf(snapshot') :
                           files'[p].blob = tree[snapshot'][p]
                           /\ files'[p].seen = snapshot'
    OBVIOUS
  <2>1. PICK a \in Actors : CompleteRun(a)
    BY OnlyCompletionPublishes
  <2>2. /\ snapshot' = Column(readSource[a], manifest[a], snapshot)
        /\ lastRun' = run[a]
        /\ pc[a] = "rows"
    BY <2>1 DEF CompleteRun
  <2>3. snapshot' = manifest[a] /\ readSource[a] # manifest[a]
    BY <2>2 DEF Column
  <2>4. TypeInv /\ RowsCurrent(a)
    BY <2>2, <2>3 DEF SessionInv, CreditInv, HoldsSource
  <2>5. files' = CompletedFiles(a)
    BY <2>1, <2>4, CompletionWrites
  <2>6. ASSUME NEW p \in FilesOf(manifest[a])
        PROVE  files'[p].blob = tree[manifest[a]][p] /\ files'[p].seen = manifest[a]
    <3>1. files'[p] = NewRow(a, p)
      BY <2>5 DEF CompletedFiles, FilesOf
    <3>2. QED
      BY <3>1 DEF NewRow
  <2>7. /\ run[a] \in DOMAIN runs'
        /\ runs'[run[a]].commit = manifest[a]
    <3>1. run[a] \in DOMAIN runs /\ runs[run[a]].commit = manifest[a]
      BY <2>2 DEF SessionInv, CreditInv, RunRecorded, InRun, Guarded
    <3>2. CommitsKept
      BY NextCommitsKept DEF SessionInv
    <3>3. QED
      BY <3>1, <3>2 DEF CommitsKept
  <2>8. QED
    BY <2>2, <2>3, <2>6, <2>7
<1>2. Init => SessionInv
  BY InitCredit DEF Init, SessionInv, HoldsSource
<1>3. QED
  BY <1>1, <1>2, NextSession, PTL DEF Spec, PublishesItsFiles

-----------------------------------------------------------------------------
(* The commits the file rows name, whatever overlaps                       *)

\* A row of a file: its columns name commits that have the file.
CitedRow(row, p) ==
  /\ row.blob # NoBlob
  /\ \A c \in {row.content, row.seen} : c \in pushed /\ tree[c][p] # NoBlob

Cited(rows) == \A p \in Paths : rows[p].blob # NoBlob => CitedRow(rows[p], p)

\* A path without a blob has no row.
RowsWhole == \A p \in Paths : files[p].blob = NoBlob => files[p] = NoFile

\* A row has one writer at a time, and an update has its row.
RowHolder ==
  \A a, b \in Actors : \A p \in Paths : p \in Written(a) /\ p \in Written(b) => a = b

RowThere ==
  \A a \in Actors : \A p \in Written(a) :
    readFiles[a][p] # NoFile => files[p] # NoFile

\* Two runs may mix the columns of a row, as each writes those it saw differ;
\* but every column is of a row some run wanted, and a run that updates a row
\* another has deleted or inserted meanwhile fails.
CitedInv ==
  /\ TypeInv
  /\ RowsWhole
  /\ RowHolder
  /\ RowThere
  /\ Cited(files)
  /\ \A a \in Actors : Cited(prevFiles[a])

LEMMA NewRowCited ==
  ASSUME CitedInv, NEW a \in Actors, manifest[a] \in pushed, NEW p \in Paths,
         NewRow(a, p) # NoFile
  PROVE  CitedRow(NewRow(a, p), p)
<1> DEFINE m == manifest[a]
<1>1. p \in FilesOf(m) /\ tree[m][p] # NoBlob
  BY DEF NewRow, FilesOf
<1>2. CASE p \in Unchanged(a)
  <2>1. NewRow(a, p) = [blob    |-> tree[m][p],
                        content |-> prevFiles[a][p].content,
                        seen    |-> m]
    BY <1>1, <1>2 DEF NewRow
  <2>2. prevFiles[a][p].blob # NoBlob
    BY <1>2 DEF Unchanged, Stored
  <2>3. /\ prevFiles[a][p].content \in pushed
        /\ tree[prevFiles[a][p].content][p] # NoBlob
    BY <2>2 DEF CitedInv, Cited, CitedRow
  <2>4. QED
    BY <1>1, <2>1, <2>3 DEF CitedRow
<1>3. CASE p \notin Unchanged(a)
  <2>1. NewRow(a, p) = [blob |-> tree[m][p], content |-> m, seen |-> m]
    BY <1>1, <1>3 DEF NewRow
  <2>2. QED
    BY <1>1, <2>1 DEF CitedRow
<1>4. QED
  BY <1>2, <1>3

\* Each column of an updated row is the new row's or the present one's.
LEMMA MergedCited ==
  ASSUME NEW p, NEW read \in FileRow, NEW new \in FileRow, NEW now \in FileRow,
         read # NoFile, new # NoFile, CitedRow(new, p), CitedRow(now, p)
  PROVE  CitedRow(Merged(read, new, now), p)
<1>1. Merged(read, new, now) =
        [blob    |-> Column(read.blob, new.blob, now.blob),
         content |-> Column(read.content, new.content, now.content),
         seen    |-> Column(read.seen, new.seen, now.seen)]
  BY DEF Merged
<1>2. /\ Column(read.blob, new.blob, now.blob) \in {new.blob, now.blob}
      /\ Column(read.content, new.content, now.content) \in {new.content, now.content}
      /\ Column(read.seen, new.seen, now.seen) \in {new.seen, now.seen}
  BY DEF Column
<1>3. QED
  BY <1>1, <1>2 DEF CitedRow

\* What the rows of a commit are, path by path.
LEMMA CompletedCited ==
  ASSUME CitedInv, NEW a \in Actors, CompleteRun(a), NEW p \in Paths
  PROVE  /\ p \notin Written(a) => files'[p] = files[p]
         /\ files'[p] = NoFile \/ CitedRow(files'[p], p)
<1>1. pc[a] = "rows" /\ manifest[a] \in Commits /\ manifest[a] \in pushed
  BY ManifestTyped DEF CompleteRun, Planning, Phases, CitedInv
<1>2. files'[p] = IF p \in Written(a)
                  THEN Merged(readFiles[a][p], NewRow(a, p), files[p]) ELSE files[p]
  BY DEF CompleteRun
<1>3. files[p] = NoFile \/ CitedRow(files[p], p)
  BY DEF CitedInv, RowsWhole, Cited
<1>4. CASE p \in Written(a) /\ NewRow(a, p) = NoFile
  BY <1>2, <1>4 DEF Merged
<1>5. CASE p \in Written(a) /\ NewRow(a, p) # NoFile /\ readFiles[a][p] = NoFile
  BY <1>1, <1>2, <1>5, NewRowCited DEF Merged
<1>6. CASE p \in Written(a) /\ NewRow(a, p) # NoFile /\ readFiles[a][p] # NoFile
  <2>1. files[p] # NoFile
    BY <1>6 DEF CitedInv, RowThere
  <2>2. CitedRow(files[p], p) /\ CitedRow(NewRow(a, p), p)
    BY <1>1, <1>3, <1>6, <2>1, NewRowCited
  <2>3. /\ readFiles[a][p] \in FileRow /\ files[p] \in FileRow
        /\ NewRow(a, p) \in FileRow
    BY <1>1, NewRowTyped DEF CitedInv, TypeInv, TypeOK
  <2>4. CitedRow(Merged(readFiles[a][p], NewRow(a, p), files[p]), p)
    BY <1>6, <2>2, <2>3, MergedCited
  <2>5. QED
    BY <1>2, <1>6, <2>4
<1>7. CASE p \notin Written(a)
  BY <1>2, <1>3, <1>7
<1>8. QED
  BY <1>4, <1>5, <1>6, <1>7

\* How a row comes to be written: by a flush that found it free.
LEMMA WrittenStep ==
  ASSUME TypeInv, [Next]_vars, NEW a \in Actors, NEW p \in Paths, p \in Written(a)'
  PROVE  \/ p \in Written(a) /\ readFiles'[a][p] = readFiles[a][p]
         \/ /\ DeleteRows(a) \/ WriteRow(a)
            /\ RowFree(a, p)
            /\ readFiles'[a][p] # NoFile => files[p] # NoFile
            /\ files' = files
<1>1. /\ pc'[a] = "rows" /\ p \notin todo'[a] \cup unflushed'[a]
      /\ readFiles'[a][p] # NewRow(a, p)'
  BY DEF Written
<1>2. CASE Kept(a) /\ pc[a] = "rows"
  <2>1. NewRow(a, p)' = NewRow(a, p)
    BY <1>2, ManifestKept DEF Kept, Planning, Phases
  <2>2. QED
    BY <1>1, <1>2, <2>1 DEF Written, Kept
<1>3. CASE DeleteRows(a)
  <2>1. UNCHANGED <<manifest, prevFiles, files>> /\ pc[a] = "delete_rows"
    BY <1>3 DEF DeleteRows, plan, postgres
  <2>2. NewRow(a, p)' = NewRow(a, p)
    BY <2>1, ManifestKept DEF Planning, Phases
  <2>3. /\ todo'[a] = FilesOf(manifest[a])
        /\ readFiles'[a][p] = IF p \in Deleted(a) THEN files[p] ELSE NoFile
        /\ \A q \in Deleted(a) : files[q] # NoFile => RowFree(a, q)
    BY <1>3 DEF DeleteRows, TypeInv, TypeOK
  <2>4. NewRow(a, p) = NoFile
    BY <1>1, <2>3 DEF NewRow
  <2>5. p \in Deleted(a) /\ files[p] # NoFile
    BY <1>1, <2>2, <2>3, <2>4
  <2>6. QED
    BY <1>3, <2>1, <2>3, <2>5
<1>4. CASE ReadRow(a)
  <2>1. PICK q \in todo[a] :
          /\ readFiles' = [readFiles EXCEPT ![a][q] = files[q]]
          /\ unflushed' = [unflushed EXCEPT ![a] = {q}]
          /\ todo' = [todo EXCEPT ![a] = @ \ {q}]
    BY <1>4 DEF ReadRow
  <2>2. UNCHANGED <<manifest, prevFiles>> /\ pc[a] = "rows" /\ unflushed[a] = {}
    BY <1>4 DEF ReadRow, plan
  <2>3. NewRow(a, p)' = NewRow(a, p)
    BY <2>2, ManifestKept DEF Planning, Phases
  <2>4. p # q /\ p \notin todo[a] /\ readFiles'[a][p] = readFiles[a][p]
    BY <1>1, <2>1 DEF TypeInv, TypeOK
  <2>5. QED
    BY <1>1, <2>2, <2>3, <2>4 DEF Written
<1>5. CASE WriteRow(a)
  <2>1. UNCHANGED <<manifest, prevFiles, todo, readFiles, files>> /\ pc[a] = "rows"
    BY <1>5 DEF WriteRow, plan, postgres
  <2>2. NewRow(a, p)' = NewRow(a, p)
    BY <2>1, ManifestKept DEF Planning, Phases
  <2>3. CASE p \in unflushed[a]
    <3>1. RowFree(a, p) /\ ~RowClash(a, p)
      BY <1>1, <1>5, <2>1, <2>2, <2>3 DEF WriteRow
    <3>2. readFiles[a][p] # NoFile => files[p] # NoFile
      BY <1>1, <2>1, <2>2, <3>1 DEF RowClash
    <3>3. QED
      BY <1>5, <2>1, <3>1, <3>2
  <2>4. CASE p \notin unflushed[a]
    BY <1>1, <2>1, <2>2, <2>4 DEF Written
  <2>5. QED
    BY <2>3, <2>4
<1>6. QED
  BY <1>1, <1>2, <1>3, <1>4, <1>5, ToRows

\* A session step of one actor flushes no row of another.
LEMMA OthersWritten ==
  ASSUME TypeInv, [Next]_vars, NEW a \in Actors, SyncStep(a),
         NEW b \in Actors, b # a, NEW p \in Paths, p \in Written(b)'
  PROVE  p \in Written(b)
<1>1. Kept(b)
  BY OthersKept
<1>2. pc[b] = "rows"
  BY <1>1 DEF Written, Kept
<1>3. NewRow(b, p)' = NewRow(b, p)
  BY <1>1, <1>2, ManifestKept DEF Kept, Planning, Phases
<1>4. QED
  BY <1>1, <1>2, <1>3 DEF Written, Kept

LEMMA NextHolder ==
  ASSUME CitedInv, [Next]_vars
  PROVE  RowHolder'
<1> SUFFICES ASSUME NEW a \in Actors, NEW b \in Actors, NEW p \in Paths,
                    p \in Written(a)', p \in Written(b)', a # b
             PROVE  FALSE
  BY DEF RowHolder
<1>1. TypeInv
  BY DEF CitedInv
<1>2. ~(p \in Written(a) /\ p \in Written(b))
  BY DEF CitedInv, RowHolder
<1>3. ASSUME NEW x \in Actors, NEW y \in Actors, x # y,
             p \in Written(x)', p \in Written(y)', p \notin Written(x)
      PROVE  FALSE
  <2>1. (DeleteRows(x) \/ WriteRow(x)) /\ RowFree(x, p)
    BY <1>1, <1>3, WrittenStep
  <2>2. SyncStep(x)
    BY <2>1 DEF SyncStep
  <2>3. p \in Written(y)
    BY <1>1, <1>3, <2>2, OthersWritten
  <2>4. QED
    BY <1>3, <2>1, <2>3 DEF RowFree
<1>4. QED
  BY <1>2, <1>3

LEMMA NextRowThere ==
  ASSUME CitedInv, [Next]_vars
  PROVE  RowThere'
<1> SUFFICES ASSUME NEW a \in Actors, NEW p \in Written(a)', readFiles'[a][p] # NoFile
             PROVE  files'[p] # NoFile
  BY DEF RowThere, NoFile
<1>1. TypeInv /\ p \in Paths
  BY DEF CitedInv, Written
<1>2. CASE p \in Written(a) /\ readFiles'[a][p] = readFiles[a][p]
  <2>1. files[p] # NoFile
    BY <1>2 DEF CitedInv, RowThere
  <2>2. ASSUME NEW b \in Actors, CompleteRun(b) PROVE files'[p] = files[p]
    <3>1. b # a
      BY <1>1, <2>2 DEF CompleteRun, Goto, Written, TypeInv, TypeOK
    <3>2. p \notin Written(b)
      BY <1>1, <1>2, <3>1 DEF CitedInv, RowHolder
    <3>3. QED
      BY <1>1, <2>2, <3>2, CompletedCited
  <2>3. QED
    BY <2>1, <2>2, OnlyCompletionPublishes
<1>3. CASE (readFiles'[a][p] # NoFile => files[p] # NoFile) /\ files' = files
  BY <1>3
<1>4. QED
  BY <1>1, <1>2, <1>3, WrittenStep

\* Citations are kept by every step that leaves the rows alone.
LEMMA CitedKept ==
  ASSUME TypeInv, [Next]_vars, NEW row, NEW p, CitedRow(row, p)
  PROVE  /\ row.blob # NoBlob
         /\ \A c \in {row.content, row.seen} : c \in pushed' /\ tree'[c][p] # NoBlob
BY PushedKept DEF CitedRow

LEMMA NextRowsCited ==
  ASSUME CitedInv, [Next]_vars
  PROVE  RowsWhole' /\ Cited(files)'
<1>1. \A p \in Paths : files'[p] = NoFile \/ CitedRow(files'[p], p)
  <2>1. CASE \E a \in Actors : CompleteRun(a)
    BY <2>1, CompletedCited
  <2>2. CASE \A a \in Actors : ~CompleteRun(a)
    BY <2>2, OnlyCompletionPublishes DEF CitedInv, RowsWhole, Cited
  <2>3. QED
    BY <2>1, <2>2
<1> SUFFICES ASSUME NEW p \in Paths
             PROVE  /\ files'[p].blob = NoBlob => files'[p] = NoFile
                    /\ files'[p].blob # NoBlob => CitedRow(files[p], p)'
  BY DEF RowsWhole, Cited, NoFile
<1>2. CASE files'[p] = NoFile
  BY <1>2 DEF NoFile
<1>3. CASE CitedRow(files'[p], p)
  BY <1>3, CitedKept DEF CitedInv, CitedRow
<1>4. QED
  BY <1>1, <1>2, <1>3

LEMMA NextPlansCited ==
  ASSUME CitedInv, [Next]_vars, NEW a \in Actors
  PROVE  Cited(prevFiles[a])'
<1>1. TypeInv
  BY DEF CitedInv
<1>2. prevFiles'[a] \in {prevFiles[a], files, NoFiles}
  <2>1. CASE Kept(a)
    BY <2>1 DEF Kept
  <2>2. CASE LoadFiles(a)
    BY <1>1, <2>2 DEF LoadFiles, TypeInv, TypeOK
  <2>3. CASE Crash(a) \/ Release(a)
    BY <1>1, <2>3 DEF Crash, Release, ForgetLocals, TypeInv, TypeOK
  <2>4. CASE SessionStep(a)
    BY <1>1, <2>4, SessionLocal DEF plan, TypeInv
  <2>5. CASE UNCHANGED prevFiles
    BY <2>5
  <2>6. QED
    BY <1>1, <2>1, <2>2, <2>3, <2>4, <2>5, StepOrKept
       DEF SyncStep, SessionStep, AcquireLock, StartCliSync, StartAdoption, Discover,
           LoadSnapshot, StartRunRead, StartRunWrite, Fetch, IndexBatch,
           UpdateUnchanged, DeleteModified, DeleteRemoved, RemoveStale, CompleteRun,
           RaiseInRun, FailRun, Unwind, locals, plan
<1>3. Cited(prevFiles[a]) /\ Cited(files) /\ Cited(NoFiles)
  BY DEF CitedInv, Cited, NoFiles, NoFile
<1>4. \A p \in Paths : prevFiles'[a][p].blob # NoBlob => CitedRow(prevFiles'[a][p], p)
  BY <1>2, <1>3 DEF Cited
<1>5. QED
  BY <1>1, <1>4, CitedKept DEF Cited, CitedRow

LEMMA NextCited == CitedInv /\ [Next]_vars => CitedInv'
<1> SUFFICES ASSUME CitedInv, [Next]_vars PROVE CitedInv'
  OBVIOUS
<1>1. TypeInv'
  BY NextTyped DEF CitedInv
<1>2. RowHolder' /\ RowThere' /\ RowsWhole' /\ Cited(files)'
  BY NextHolder, NextRowThere, NextRowsCited
<1>3. \A a \in Actors : Cited(prevFiles[a])'
  BY NextPlansCited
<1>4. QED
  BY <1>1, <1>2, <1>3 DEF CitedInv

LEMMA InitCited == Init => CitedInv
<1> SUFFICES ASSUME Init PROVE CitedInv
  OBVIOUS
<1>1. RowsWhole /\ Cited(files) /\ \A a \in Actors : Cited(prevFiles[a])
  BY DEF Init, RowsWhole, Cited, NoFiles, NoFile
<1>2. \A a \in Actors : Written(a) = {}
  BY DEF Init, Written
<1>3. QED
  BY <1>1, <1>2, InitTyped DEF CitedInv, RowHolder, RowThere

\* Whatever overlapping syncs, unlocked operators, adoptions, expired locks and
\* lost commits do to source_file_state, even to a row whose columns are two
\* runs', each row cites and was last seen in commits that have the file.
THEOREM SyncCitesFiles == Spec => []CitedFilesExist
<1>1. CitedInv => CitedFilesExist
  BY DEF CitedInv, Cited, CitedRow, CitedFilesExist
<1>2. QED
  BY <1>1, InitCited, NextCited, PTL DEF Spec

-----------------------------------------------------------------------------
(* Published snapshots: what the lock is for                               *)

\* Every sync is a worker's, and no lock expires under a live one.
Exclusive == Operators = {} /\ Admins = {} /\ LockOutlivesTask

\* An actor that is doing anything holds the lock, so only one is.
Owned == \A a \in Actors : pc[a] # "idle" => lock = a

\* Between load_file_states and complete_run the rows do not change.
PlanInUse == {"start_read", "start_write"} \cup Guarded

PlanCurrent == \A a \in Actors : pc[a] \in PlanInUse => prevFiles[a] = files

\* Nor, since only completions change them, what complete_run has read.
SessionCurrent ==
  \A a \in Actors :
    /\ pc[a] \in Sessions \ {"complete"} => readSource[a] = snapshot
    /\ pc[a] = "rows" => RowsCurrent(a)

SnapshotPushed == snapshot # NoCommit => snapshot \in pushed

\* StateMatchesManifest is not inductive alone: complete_run computes the new
\* rows from the plan and writes what differs from the rows it has read, which
\* is right because both are current, which they are because whoever changes
\* the rows holds the lock.
PublishInv ==
  /\ TypeInv
  /\ Owned
  /\ PlanCurrent
  /\ SessionCurrent
  /\ SnapshotPushed
  /\ StateMatchesManifest

\* Under Exclusive, no two actors are busy at once.
LEMMA OwnedAlone ==
  ASSUME PublishInv, NEW a \in Actors, pc[a] # "idle", NEW b \in Actors, b # a
  PROVE  pc[b] = "idle"
BY DEF PublishInv, Owned

LEMMA NextOwned ==
  ASSUME Exclusive, PublishInv, [Next]_vars
  PROVE  Owned'
<1> USE ActorAssumption DEF PublishInv, TypeInv, TypeOK, Owned
<1>1. ASSUME NEW a \in Actors, AcquireLock(a) PROVE Owned'
  <2>1. \A b \in Actors : pc[b] = "idle"
    BY <1>1 DEF AcquireLock
  <2>2. QED
    BY <1>1, <2>1 DEF AcquireLock, Goto
<1>2. ASSUME NEW a \in Actors, Crash(a) \/ Release(a) PROVE Owned'
  <2>1. \A b \in Actors \ {a} : pc[b] = "idle"
    BY <1>2, OwnedAlone DEF Crash, Release
  <2>2. pc' = [pc EXCEPT ![a] = "idle"]
    BY <1>2 DEF Crash, Release, ForgetLocals, Goto
  <2>3. QED
    BY <2>1, <2>2
<1>3. CASE ExpireLock
  BY <1>3 DEF ExpireLock, Exclusive
<1>4. ASSUME NEW a \in Actors, pc[a] # "idle", UNCHANGED lock,
             NEW phase, pc' = [pc EXCEPT ![a] = phase]
      PROVE  Owned'
  BY <1>4
<1>5. CASE UNCHANGED <<pc, lock>>
  BY <1>5
<1>6. ASSUME NEW a \in Actors,
             \/ Discover(a) \/ LoadSnapshot(a) \/ LoadFiles(a)
             \/ StartRunRead(a) \/ StartRunWrite(a)
             \/ Fetch(a) \/ UpdateUnchanged(a) \/ DeleteModified(a)
             \/ DeleteRemoved(a) \/ RemoveStale(a) \/ CompleteRun(a)
             \/ RaiseInRun(a) \/ FailRun(a) \/ Unwind(a)
      PROVE  Owned'
  <2>1. pc[a] # "idle" /\ UNCHANGED lock
    BY <1>6 DEF Discover, LoadSnapshot, LoadFiles, StartRunRead, StartRunWrite,
         Fetch, UpdateUnchanged, DeleteModified, DeleteRemoved, RemoveStale,
         CompleteRun, RaiseInRun, FailRun, Unwind, Guarded
  <2>2. \E phase : pc' = [pc EXCEPT ![a] = phase]
    BY <1>6 DEF Discover, LoadSnapshot, LoadFiles, StartRunRead, StartRunWrite,
         Fetch, UpdateUnchanged, DeleteModified, DeleteRemoved, RemoveStale,
         CompleteRun, RaiseInRun, FailRun, Unwind, Goto
  <2>3. QED
    BY <2>1, <2>2, <1>4
<1>7. ASSUME NEW a \in Actors, IndexBatch(a) PROVE Owned'
  BY <1>7, <1>5 DEF IndexBatch
<1>8. ASSUME NEW a \in Actors PROVE ~StartCliSync(a) /\ ~StartAdoption(a)
  BY DEF Exclusive, StartCliSync, StartAdoption
<1>9. CASE Push \/ ResetRef \/ BulkIndex \/ UNCHANGED vars
  BY <1>9, <1>5 DEF Push, ResetRef, BulkIndex, vars
<1>10. ASSUME NEW a \in Actors, SessionStep(a) PROVE Owned'
  <2>1. pc[a] # "idle" /\ UNCHANGED lock /\ \E phase : pc' = [pc EXCEPT ![a] = phase]
    BY <1>10, SessionLocal DEF Sessions
  <2>2. QED
    BY <2>1, <1>4
<1>11. QED
  BY <1>1, <1>2, <1>3, <1>6, <1>7, <1>8, <1>9, <1>10 DEF Next, SyncStep, SessionStep

LEMMA NextPlanCurrent ==
  ASSUME Exclusive, PublishInv, [Next]_vars
  PROVE  PlanCurrent'
<1> USE DEF PublishInv, TypeInv, TypeOK, PlanCurrent, PlanInUse, Guarded
<1>1. ASSUME NEW a \in Actors, CompleteRun(a) PROVE PlanCurrent'
  <2>1. \A b \in Actors \ {a} : pc[b] = "idle"
    BY <1>1, OwnedAlone DEF CompleteRun
  <2>2. PICK phase \in {"release", "failing"} : pc' = [pc EXCEPT ![a] = phase]
    BY <1>1 DEF CompleteRun, Goto
  <2>3. QED
    BY <2>1, <2>2
<1>2. ASSUME NEW a \in Actors, LoadFiles(a) PROVE PlanCurrent'
  BY <1>2 DEF LoadFiles, Goto, postgres
<1>3. ASSUME NEW a \in Actors, Crash(a) \/ Release(a) PROVE PlanCurrent'
  <2>1. /\ pc' = [pc EXCEPT ![a] = "idle"]
        /\ prevFiles' = [prevFiles EXCEPT ![a] = NoFiles]
        /\ files' = files
    BY <1>3 DEF Crash, Release, ForgetLocals, Goto, postgres
  <2>2. QED
    BY <2>1
<1>4. ASSUME NEW a \in Actors, NEW phase,
             pc' = [pc EXCEPT ![a] = phase],
             phase \in PlanInUse => pc[a] \in PlanInUse,
             UNCHANGED <<files, prevFiles>>
      PROVE  PlanCurrent'
  BY <1>4
<1>5. CASE UNCHANGED <<pc, files, prevFiles>>
  BY <1>5
<1>6. ASSUME NEW a \in Actors,
             \/ AcquireLock(a) \/ Discover(a) \/ LoadSnapshot(a)
             \/ StartRunRead(a) \/ StartRunWrite(a)
             \/ Fetch(a) \/ UpdateUnchanged(a) \/ DeleteModified(a)
             \/ DeleteRemoved(a) \/ RemoveStale(a)
             \/ RaiseInRun(a) \/ FailRun(a) \/ Unwind(a)
      PROVE  PlanCurrent'
  <2>1. UNCHANGED <<files, prevFiles>>
    BY <1>6 DEF AcquireLock, Discover, LoadSnapshot, StartRunRead, StartRunWrite,
         Fetch, UpdateUnchanged, DeleteModified, DeleteRemoved, RemoveStale,
         RaiseInRun, FailRun, Unwind, postgres, locals, plan, session
  <2>2. \E phase : /\ pc' = [pc EXCEPT ![a] = phase]
                   /\ phase \in PlanInUse => pc[a] \in PlanInUse
    BY <1>6 DEF AcquireLock, Discover, LoadSnapshot, StartRunRead, StartRunWrite,
         Fetch, UpdateUnchanged, DeleteModified, DeleteRemoved, RemoveStale,
         RaiseInRun, FailRun, Unwind, Goto
  <2>3. QED
    BY <2>1, <2>2, <1>4
<1>7. ASSUME NEW a \in Actors PROVE ~StartCliSync(a) /\ ~StartAdoption(a)
  BY DEF Exclusive, StartCliSync, StartAdoption
<1>8. ASSUME NEW a \in Actors, IndexBatch(a) PROVE PlanCurrent'
  BY <1>8, <1>5 DEF IndexBatch, postgres, plan
<1>9. CASE Push \/ ResetRef \/ BulkIndex \/ ExpireLock \/ UNCHANGED vars
  BY <1>9, <1>5 DEF Push, ResetRef, BulkIndex, ExpireLock, vars, postgres, locals,
       plan, session
<1>10. ASSUME NEW a \in Actors, SessionStep(a) PROVE PlanCurrent'
  <2>1. UNCHANGED <<files, prevFiles>> /\ pc[a] \in PlanInUse
    BY <1>10, SessionLocal DEF Sessions, plan, postgres
  <2>2. \E phase : pc' = [pc EXCEPT ![a] = phase]
    BY <1>10, SessionLocal
  <2>3. QED
    BY <2>1, <2>2, <1>4
<1>11. QED
  BY <1>1, <1>2, <1>3, <1>6, <1>7, <1>8, <1>9, <1>10 DEF Next, SyncStep, SessionStep

LEMMA NextSessionCurrent ==
  ASSUME Exclusive, PublishInv, [Next]_vars
  PROVE  SessionCurrent'
<1>1. TypeInv
  BY DEF PublishInv
<1> SUFFICES ASSUME NEW a \in Actors, pc'[a] \in Sessions \ {"complete"}
             PROVE  /\ readSource'[a] = snapshot'
                    /\ pc'[a] = "rows" => RowsCurrent(a)'
  BY DEF SessionCurrent, Sessions
<1>2. Kept(a) \/ SessionStep(a)
  BY <1>1, ToSession
<1>3. pc[a] # "idle"
  BY <1>1, <1>2, SessionLocal DEF Kept, Sessions, TypeInv
<1>4. ASSUME NEW b \in Actors, CompleteRun(b) PROVE FALSE
  <2>1. b # a => pc[b] = "idle"
    BY <1>3, OwnedAlone
  <2>2. pc[b] = "rows" /\ pc'[b] \in {"release", "failing"}
    BY <1>1, <1>4 DEF CompleteRun, Goto, TypeInv, TypeOK
  <2>3. QED
    BY <2>1, <2>2 DEF Sessions
<1>5. UNCHANGED <<snapshot, files>>
  BY <1>4, OnlyCompletionPublishes
<1>6. readSource'[a] = snapshot
  <2>1. CASE Kept(a)
    BY <2>1 DEF PublishInv, SessionCurrent, Kept
  <2>2. CASE ReadSource(a)
    BY <1>1, <2>2 DEF ReadSource, TypeInv, TypeOK
  <2>3. CASE WriteSource(a) \/ DeleteRows(a) \/ ReadRow(a) \/ WriteRow(a)
    BY <2>3 DEF WriteSource, DeleteRows, ReadRow, WriteRow, locals, session,
                PublishInv, SessionCurrent, Sessions
  <2>4. CASE Conflict(a)
    BY <1>1, <2>4 DEF Conflict, Goto, Sessions, TypeInv, TypeOK
  <2>5. QED
    BY <1>2, <2>1, <2>2, <2>3, <2>4 DEF SessionStep
<1>7. pc[a] = "rows" => RowsCurrent(a)
  BY DEF PublishInv, SessionCurrent
<1>8. QED
  BY <1>1, <1>5, <1>6, <1>7, RowsStayCurrent

\* A completion under a current plan leaves exactly the manifest's files.
LEMMA CompletedCatalog ==
  ASSUME NEW a \in Actors, prevFiles[a] = files, TypeOK, manifest[a] \in Commits
  PROVE  \A p \in Paths : CompletedFiles(a)[p].blob = tree[manifest[a]][p]
<1> SUFFICES ASSUME NEW p \in Paths
             PROVE  CompletedFiles(a)[p].blob = tree[manifest[a]][p]
  OBVIOUS
<1>1. CASE p \in FilesOf(manifest[a])
  BY <1>1 DEF CompletedFiles, NewRow
<1>2. CASE p \notin FilesOf(manifest[a]) /\ p \in Deleted(a)
  BY <1>2 DEF CompletedFiles, NewRow, NoFile, FilesOf
<1>3. CASE p \notin FilesOf(manifest[a]) /\ p \notin Deleted(a)
  BY <1>3 DEF CompletedFiles, Deleted, Stored, FilesOf
<1>4. QED
  BY <1>1, <1>2, <1>3

\* complete_run publishes the manifest whole.
LEMMA CompletionPublishes ==
  ASSUME PublishInv, NEW a \in Actors, CompleteRun(a)
  PROVE  /\ pc[a] = "rows"
         /\ manifest[a] \in pushed
         /\ prevFiles[a] = files
         /\ snapshot' = manifest[a]
         /\ files' = CompletedFiles(a)
         /\ Catalog' = tree[manifest[a]]
         /\ UNCHANGED <<tree, pushed>>
<1>1. /\ snapshot' = Column(readSource[a], manifest[a], snapshot)
      /\ UNCHANGED <<tree, pushed>>
      /\ pc[a] = "rows"
  BY DEF CompleteRun, github
<1>2. manifest[a] \in pushed /\ manifest[a] \in Commits
  BY <1>1, ManifestTyped DEF PublishInv, Planning, Phases
<1>3. prevFiles[a] = files
  BY <1>1 DEF PublishInv, PlanCurrent, PlanInUse, Guarded
<1>4. readSource[a] = snapshot /\ RowsCurrent(a)
  BY <1>1 DEF PublishInv, SessionCurrent, Sessions
<1>5. snapshot' = manifest[a]
  BY <1>1, <1>4 DEF Column
<1>6. files' = CompletedFiles(a)
  BY <1>4, CompletionWrites DEF PublishInv
<1>7. \A p \in Paths : CompletedFiles(a)[p].blob = tree[manifest[a]][p]
  BY <1>2, <1>3, CompletedCatalog DEF PublishInv, TypeInv
<1>8. tree[manifest[a]] \in [Paths -> Blobs \cup {NoBlob}]
  BY <1>2 DEF PublishInv, TypeInv, TypeOK, Trees
<1>9. [p \in Paths |-> CompletedFiles(a)[p].blob] = tree[manifest[a]]
  BY <1>7, <1>8
<1>10. QED
  BY <1>1, <1>2, <1>3, <1>5, <1>6, <1>9 DEF Catalog

LEMMA NextPublish ==
  ASSUME Exclusive, PublishInv, [Next]_vars
  PROVE  PublishInv'
<1>1. TypeInv' /\ Owned' /\ PlanCurrent' /\ SessionCurrent'
  BY NextTyped, NextOwned, NextPlanCurrent, NextSessionCurrent DEF PublishInv
<1>2. ASSUME NEW a \in Actors, CompleteRun(a)
      PROVE  SnapshotPushed' /\ StateMatchesManifest'
  <2>1. /\ manifest[a] \in pushed
        /\ snapshot' = manifest[a]
        /\ Catalog' = tree[manifest[a]]
        /\ UNCHANGED <<tree, pushed>>
    BY <1>2, CompletionPublishes
  <2>2. manifest[a] # NoCommit
    BY <2>1, DataAssumption DEF PublishInv, TypeInv, TypeOK
  <2>3. QED
    BY <2>1, <2>2 DEF SnapshotPushed, StateMatchesManifest, CatalogOf
<1>3. ASSUME \A a \in Actors : ~CompleteRun(a)
      PROVE  SnapshotPushed' /\ StateMatchesManifest'
  <2>1. UNCHANGED <<snapshot, files>> /\ (Push \/ UNCHANGED <<tree, pushed>>)
    BY <1>3, OnlyCompletionPublishes
  <2>2. pushed \subseteq pushed' /\ \A c \in pushed : tree'[c] = tree[c]
    BY <2>1 DEF Push, PublishInv, TypeInv, TypeOK
  <2>3. QED
    BY <2>1, <2>2
       DEF PublishInv, SnapshotPushed, StateMatchesManifest, Catalog, CatalogOf
<1>4. QED
  BY <1>1, <1>2, <1>3 DEF PublishInv

LEMMA InitPublish == Init => PublishInv
<1> SUFFICES ASSUME Init PROVE PublishInv
  OBVIOUS
<1>1. TypeInv
  BY InitTyped
<1>2. Owned /\ PlanCurrent /\ SessionCurrent /\ SnapshotPushed
  BY DEF Init, Owned, PlanCurrent, PlanInUse, Guarded, SessionCurrent, Sessions,
         SnapshotPushed
<1>3. StateMatchesManifest
  BY DEF Init, StateMatchesManifest, Catalog, CatalogOf, NoFiles, NoFile
<1>4. QED
  BY <1>1, <1>2, <1>3 DEF PublishInv

\* With the lock, source_file_state lists exactly the files of the snapshot
\* source_state names, whatever crashes, failures and moves of the ref happen.
THEOREM SyncStateMatches ==
  ASSUME Exclusive
  PROVE  Spec => []StateMatchesManifest
<1>1. PublishInv /\ [Next]_vars => PublishInv'
  BY NextPublish
<1>2. PublishInv => StateMatchesManifest
  BY DEF PublishInv
<1>3. QED
  BY <1>1, <1>2, InitPublish, PTL DEF Spec

\* With the lock, incremental synchronisation implements SnapshotPublication:
\* readers of the state store see whole snapshots replaced by whole snapshots.
THEOREM SyncPublishes ==
  ASSUME Exclusive
  PROVE  Spec => PublishesSnapshots
<1>1. Init => Publication!Init
  <2> SUFFICES ASSUME Init PROVE Publication!Init
    OBVIOUS
  <2>1. TypeOK
    BY InitTyped DEF TypeInv
  <2>2. Catalog = [p \in Paths |-> NoBlob]
    BY DEF Init, Catalog, NoFiles, NoFile
  <2>3. QED
    BY <2>1, <2>2
       DEF Init, TypeOK, Trees, Publication!Init, Publication!Trees,
           Publication!EmptyCatalog
<1>2. PublishInv /\ [Next]_vars => [Publication!Next]_(Publication!vars)
  <2> SUFFICES ASSUME PublishInv, [Next]_vars
               PROVE  Publication!Next \/ UNCHANGED Publication!vars
    OBVIOUS
  <2>1. ASSUME NEW a \in Actors, CompleteRun(a) PROVE Publication!Next
    BY <2>1, CompletionPublishes DEF Publication!Next, Publication!Publish
  <2>2. ASSUME \A a \in Actors : ~CompleteRun(a)
        PROVE  Publication!Next \/ UNCHANGED Publication!vars
    <3>1. UNCHANGED <<snapshot, Catalog>> /\ (Push \/ UNCHANGED <<tree, pushed>>)
      BY <2>2, OnlyCompletionPublishes DEF Catalog
    <3>2. Push => Publication!Push
      BY <3>1 DEF Push, Publication!Push, Trees, Publication!Trees
    <3>3. QED
      BY <3>1, <3>2 DEF Publication!Next, Publication!vars
  <2>3. QED
    BY <2>1, <2>2
<1>3. PublishInv /\ [Next]_vars => PublishInv'
  BY NextPublish
<1>4. QED
  BY <1>1, <1>2, <1>3, InitPublish, PTL DEF Spec, Publication!Spec, PublishesSnapshots

-----------------------------------------------------------------------------
(* Citations: provenance carried over under the lock                        *)

\* The rows of a file list name commits that hold their bytes.
Pinned(rows) ==
  \A p \in Paths : rows[p].blob # NoBlob =>
    /\ rows[p].content \in pushed
    /\ tree[rows[p].content][p] = rows[p].blob

\* The provenance a run carries over is that of the rows it planned from, which
\* are current; and a pushed commit does not change.
PinnedInv == PublishInv /\ Pinned(files)

\* The rows complete_run writes: a listed file is pinned to the manifest, or
\* to where the row it was planned from is pinned.
LEMMA CompletedPinned ==
  ASSUME PinnedInv, NEW a \in Actors, manifest[a] \in pushed, prevFiles[a] = files
  PROVE  Pinned(CompletedFiles(a))
<1> DEFINE m == manifest[a]
<1> SUFFICES ASSUME NEW p \in Paths, CompletedFiles(a)[p].blob # NoBlob
             PROVE  /\ CompletedFiles(a)[p].content \in pushed
                    /\ tree[CompletedFiles(a)[p].content][p] = CompletedFiles(a)[p].blob
  BY DEF Pinned
<1>1. CASE p \in FilesOf(m) /\ p \in Unchanged(a)
  <2>1. CompletedFiles(a)[p] = [blob    |-> tree[m][p],
                                content |-> files[p].content,
                                seen    |-> m]
    BY <1>1 DEF CompletedFiles, NewRow
  <2>2. files[p].blob = tree[m][p] /\ files[p].blob # NoBlob
    BY <1>1 DEF Unchanged, Stored
  <2>3. QED
    BY <2>1, <2>2 DEF PinnedInv, Pinned
<1>2. CASE p \in FilesOf(m) /\ p \notin Unchanged(a)
  <2>1. CompletedFiles(a)[p] = [blob |-> tree[m][p], content |-> m, seen |-> m]
    BY <1>2 DEF CompletedFiles, NewRow
  <2>2. QED
    BY <2>1
<1>3. CASE p \notin FilesOf(m)
  <2>1. CompletedFiles(a)[p] \in {files[p], NoFile}
    BY <1>3 DEF CompletedFiles, NewRow
  <2>2. CompletedFiles(a)[p] = files[p]
    BY <2>1 DEF NoFile
  <2>3. QED
    BY <2>2 DEF PinnedInv, Pinned
<1>4. QED
  BY <1>1, <1>2, <1>3

LEMMA NextPinned ==
  ASSUME Exclusive, PinnedInv, [Next]_vars
  PROVE  PinnedInv'
<1>1. PublishInv /\ PublishInv'
  BY NextPublish DEF PinnedInv
<1>2. ASSUME NEW a \in Actors, CompleteRun(a) PROVE Pinned(files)'
  <2>1. /\ manifest[a] \in pushed /\ prevFiles[a] = files
        /\ files' = CompletedFiles(a)
        /\ UNCHANGED <<tree, pushed>>
    BY <1>1, <1>2, CompletionPublishes
  <2>2. Pinned(CompletedFiles(a))
    BY <2>1, CompletedPinned
  <2>3. QED
    BY <2>1, <2>2 DEF Pinned
<1>3. ASSUME \A a \in Actors : ~CompleteRun(a) PROVE Pinned(files)'
  <2>1. files' = files
    BY <1>3, OnlyCompletionPublishes
  <2>2. pushed \subseteq pushed' /\ \A c \in pushed : tree'[c] = tree[c]
    BY <1>1, PushedKept DEF PublishInv
  <2>3. QED
    BY <2>1, <2>2 DEF PinnedInv, Pinned
<1>4. QED
  BY <1>1, <1>2, <1>3 DEF PinnedInv

\* With the lock, a citation always leads to the bytes it quotes: over any
\* number of unchanged snapshots, moves of the ref, failures and lost commits
\* each row names a pushed commit that holds the row's blob at the row's path.
THEOREM SyncPinned ==
  ASSUME Exclusive
  PROVE  Spec => []CitationsPinned
<1>1. Init => PinnedInv
  BY InitPublish DEF Init, PinnedInv, Pinned, NoFiles, NoFile
<1>2. PinnedInv => CitationsPinned
  BY DEF PinnedInv, Pinned, CitationsPinned
<1>3. PinnedInv /\ [Next]_vars => PinnedInv'
  BY NextPinned
<1>4. QED
  BY <1>1, <1>2, <1>3, PTL DEF Spec

-----------------------------------------------------------------------------
(* The audit table under the lock                                          *)

\* A sync's own row stays running until the sync closes it, and the rows it
\* read as running are so still when it supersedes them: nobody else writes.
RunOpen == \A a \in Actors : InRun(a) => runs[run[a]].status = "running"

StaleOpen ==
  \A a \in Actors : pc[a] = "start_write" =>
    \A r \in stale[a] : r \in DOMAIN runs /\ runs[r].status = "running"

AuditInv == PublishInv /\ CreditInv /\ RunOpen /\ StaleOpen /\ LastRunAgrees

\* Only a running row changes its status.
Closes == \A r \in DOMAIN runs :
            runs[r].status # "running" => runs'[r].status = runs[r].status

LEMMA NextCloses ==
  ASSUME AuditInv, [Next]_vars
  PROVE  Closes
<1> USE DEF AuditInv
<1>1. ASSUME NEW a \in Actors, StartRunWrite(a) PROVE Closes
  <2>1. \A r \in stale[a] : runs[r].status = "running"
    BY <1>1 DEF StaleOpen, StartRunWrite
  <2>2. \A r \in DOMAIN runs : r \notin stale[a] => runs'[r] = runs[r]
    BY <1>1, StartedRows DEF CreditInv
  <2>3. QED
    BY <2>1, <2>2 DEF Closes
<1>2. ASSUME NEW a \in Actors, CompleteRun(a) \/ FailRun(a) PROVE Closes
  <2>1. run[a] \in DOMAIN runs /\ runs[run[a]].status = "running"
    BY <1>2 DEF CompleteRun, FailRun, CreditInv, RunRecorded, RunOpen, InRun, Guarded
  <2>2. \E s : runs' = [runs EXCEPT ![run[a]].status = s]
    BY <1>2 DEF CompleteRun, FailRun
  <2>3. \A q \in DOMAIN runs \ {run[a]} : runs'[q] = runs[q]
    BY <2>1, <2>2, StatusRows DEF CreditInv
  <2>4. QED
    BY <2>1, <2>3 DEF Closes
<1>3. CASE UNCHANGED runs
  BY <1>3 DEF Closes
<1>4. QED
  BY <1>1, <1>2, <1>3
     DEF Next, vars, SyncStep, Push, ResetRef, BulkIndex, ExpireLock, AcquireLock,
         StartCliSync, StartAdoption, Discover, LoadSnapshot, LoadFiles,
         StartRunRead, Fetch, IndexBatch, UpdateUnchanged, DeleteModified,
         DeleteRemoved, RemoveStale, ReadSource, WriteSource,
         DeleteRows, ReadRow, WriteRow, Conflict, RaiseInRun, Unwind, Crash,
         Release, postgres

\* The steps that write the audit table or read it leave the caller's row
\* open while it runs; the other actors are idle.
LEMMA NextOpen ==
  ASSUME Exclusive, ~CommitAckMayBeLost, AuditInv, [Next]_vars
  PROVE  RunOpen' /\ StaleOpen'
<1> USE DEF AuditInv, RunOpen, StaleOpen, InRun, Guarded
<1>1. ASSUME NEW a \in Actors, StartRunWrite(a) PROVE RunOpen' /\ StaleOpen'
  <2>1. \A b \in Actors \ {a} : pc[b] = "idle"
    BY <1>1, OwnedAlone DEF StartRunWrite
  <2>2. /\ run' = [run EXCEPT ![a] = Len(runs) + 1]
        /\ \E phase \in {"complete", "fetch"} : pc' = [pc EXCEPT ![a] = phase]
    BY <1>1 DEF StartRunWrite, Goto
  <2>3. runs'[Len(runs) + 1].status = "running"
    <3>1. runs'[Len(runs) + 1] = [commit |-> manifest[a], status |-> "running"]
      BY <1>1, StartedRows DEF CreditInv
    <3>2. QED
      BY <3>1
  <2>4. QED
    BY <2>1, <2>2, <2>3 DEF CreditInv, TypeInv, TypeOK
<1>2. ASSUME NEW a \in Actors, CompleteRun(a) \/ FailRun(a)
      PROVE  RunOpen' /\ StaleOpen'
  <2>1. \A b \in Actors \ {a} : pc[b] = "idle"
    BY <1>2, OwnedAlone DEF CompleteRun, FailRun
  <2>2. pc' = [pc EXCEPT ![a] = "release"]
    BY <1>2 DEF CompleteRun, FailRun, Goto
  <2>3. QED
    BY <2>1, <2>2 DEF CreditInv, TypeInv, TypeOK
<1>3. ASSUME NEW a \in Actors, StartRunRead(a) PROVE RunOpen' /\ StaleOpen'
  <2>1. /\ UNCHANGED <<runs, run>>
        /\ stale' = [stale EXCEPT ![a] =
                       {r \in DOMAIN runs : runs[r].status = "running"}]
        /\ pc' = [pc EXCEPT ![a] = "start_write"]
    BY <1>3 DEF StartRunRead, Goto, postgres
  <2>2. QED
    BY <2>1 DEF CreditInv, TypeInv, TypeOK
<1>4. ASSUME NEW a \in Actors, NEW phase, pc' = [pc EXCEPT ![a] = phase],
             phase # "start_write",
             phase \in Guarded \cup {"failing"} => InRun(a),
             UNCHANGED <<runs, run, stale>>
      PROVE  RunOpen' /\ StaleOpen'
  BY <1>4 DEF CreditInv, TypeInv, TypeOK
<1>5. ASSUME NEW a \in Actors,
             \/ AcquireLock(a) \/ Discover(a) \/ LoadSnapshot(a) \/ LoadFiles(a)
             \/ Fetch(a) \/ UpdateUnchanged(a) \/ DeleteModified(a)
             \/ DeleteRemoved(a) \/ RemoveStale(a) \/ RaiseInRun(a) \/ Unwind(a)
      PROVE  RunOpen' /\ StaleOpen'
  <2>1. UNCHANGED <<runs, run, stale>>
    BY <1>5 DEF AcquireLock, Discover, LoadSnapshot, LoadFiles, Fetch,
         UpdateUnchanged, DeleteModified, DeleteRemoved, RemoveStale, RaiseInRun,
         Unwind, postgres, locals, plan, session
  <2>2. \E phase : /\ pc' = [pc EXCEPT ![a] = phase]
                   /\ phase # "start_write"
                   /\ phase \in Guarded \cup {"failing"} => InRun(a)
    BY <1>5 DEF AcquireLock, Discover, LoadSnapshot, LoadFiles, Fetch,
         UpdateUnchanged, DeleteModified, DeleteRemoved, RemoveStale, RaiseInRun,
         Unwind, Goto
  <2>3. QED
    BY <2>1, <2>2, <1>4
<1>6. ASSUME NEW a \in Actors, Crash(a) \/ Release(a) PROVE RunOpen' /\ StaleOpen'
  <2>1. /\ \A b \in Actors \ {a} :
             pc'[b] = pc[b] /\ run'[b] = run[b] /\ stale'[b] = stale[b]
        /\ pc'[a] = "idle"
        /\ UNCHANGED runs
    BY <1>6 DEF Crash, Release, ForgetLocals, Goto, CreditInv, TypeInv, TypeOK,
         postgres
  <2>2. QED
    BY <2>1
<1>7. ASSUME UNCHANGED <<pc, runs, run, stale>> PROVE RunOpen' /\ StaleOpen'
  BY <1>7
<1>8. ASSUME NEW a \in Actors, IndexBatch(a) PROVE RunOpen' /\ StaleOpen'
  BY <1>8, <1>7 DEF IndexBatch, postgres
<1>9. ASSUME NEW a \in Actors PROVE ~StartCliSync(a) /\ ~StartAdoption(a)
  BY DEF Exclusive, StartCliSync, StartAdoption
<1>10. CASE Push \/ ResetRef \/ BulkIndex \/ ExpireLock \/ UNCHANGED vars
  BY <1>10, <1>7 DEF Push, ResetRef, BulkIndex, ExpireLock, vars, postgres, locals,
       plan, session
<1>11. ASSUME NEW a \in Actors, SessionStep(a) PROVE RunOpen' /\ StaleOpen'
  <2>1. PICK phase \in (Sessions \ {"complete"}) \cup {"failing"} :
          pc' = [pc EXCEPT ![a] = phase]
    BY <1>11, SessionLocal DEF CreditInv, TypeInv
  <2>2. UNCHANGED <<runs, run, stale>> /\ InRun(a) /\ phase # "start_write"
    BY <1>11, SessionLocal DEF postgres, Sessions, CreditInv, TypeInv
  <2>3. QED
    BY <2>1, <2>2, <1>4
<1>12. QED
  BY <1>1, <1>2, <1>3, <1>5, <1>6, <1>8, <1>9, <1>10, <1>11
     DEF Next, SyncStep, SessionStep

LEMMA NextAudit ==
  ASSUME Exclusive, ~CommitAckMayBeLost, AuditInv, [Next]_vars
  PROVE  AuditInv'
<1>1. PublishInv' /\ CreditInv' /\ RunOpen' /\ StaleOpen'
  BY NextPublish, NextCredit, NextOpen DEF AuditInv
<1>2. Closes /\ CommitsKept
  BY NextCloses, NextCommitsKept DEF AuditInv
<1>3. \A r \in DOMAIN runs' : runs'[r] = [commit |-> runs'[r].commit,
                                         status |-> runs'[r].status]
  <2>1. runs' \in Seq(RunRow)
    BY <1>1 DEF CreditInv, TypeInv, TypeOK
  <2>2. \A r \in DOMAIN runs' : runs'[r] \in RunRow
    BY <2>1, LenProperties
  <2>3. QED
    BY <2>2 DEF RunRow
<1>4. ASSUME NEW a \in Actors, CompleteRun(a) PROVE LastRunAgrees'
  <2>1. run[a] \in DOMAIN runs /\ runs[run[a]].commit = manifest[a]
    BY <1>4 DEF AuditInv, CreditInv, RunRecorded, InRun, Guarded, CompleteRun
  <2>2. /\ snapshot' = manifest[a]
        /\ lastRun' = run[a]
        /\ runs' = [runs EXCEPT ![run[a]].status = "succeeded"]
    BY <1>4, CompletionPublishes DEF CompleteRun, AuditInv
  <2>3. /\ run[a] \in DOMAIN runs'
        /\ runs'[run[a]] = [commit |-> runs[run[a]].commit, status |-> "succeeded"]
    BY <2>1, <2>2, StatusRows DEF AuditInv, CreditInv
  <2>4. QED
    BY <2>1, <2>2, <2>3 DEF LastRunAgrees
<1>5. ASSUME \A a \in Actors : ~CompleteRun(a) PROVE LastRunAgrees'
  <2>1. UNCHANGED <<snapshot, lastRun>>
    BY <1>5, OnlyCompletionPublishes
  <2> SUFFICES ASSUME snapshot # NoCommit
               PROVE  /\ lastRun \in DOMAIN runs'
                      /\ runs'[lastRun] = [commit |-> snapshot, status |-> "succeeded"]
    BY <2>1 DEF LastRunAgrees
  <2>2. /\ lastRun \in DOMAIN runs
        /\ runs[lastRun].commit = snapshot
        /\ runs[lastRun].status = "succeeded"
    BY DEF AuditInv, LastRunAgrees
  <2>3. /\ lastRun \in DOMAIN runs'
        /\ runs'[lastRun].commit = snapshot
        /\ runs'[lastRun].status = "succeeded"
    BY <1>2, <2>2 DEF Closes, CommitsKept
  <2>4. QED
    BY <1>3, <2>3
<1>6. QED
  BY <1>1, <1>4, <1>5 DEF AuditInv

LEMMA InitAudit == Init => AuditInv
BY InitPublish, InitCredit
   DEF Init, AuditInv, RunOpen, StaleOpen, InRun, Guarded, LastRunAgrees

\* With the lock, the run source_state credits is recorded as succeeded: no
\* start_run supersedes it and no fail_run overwrites it.
THEOREM SyncLastRunAgrees ==
  ASSUME Exclusive, ~CommitAckMayBeLost
  PROVE  Spec => []LastRunAgrees
<1>1. AuditInv /\ [Next]_vars => AuditInv'
  BY NextAudit
<1>2. AuditInv => LastRunAgrees
  BY DEF AuditInv
<1>3. QED
  BY <1>1, <1>2, InitAudit, PTL DEF Spec

\* With the lock, and commits whose acknowledgement arrives, the outcome of
\* every run is final.
THEOREM SyncOutcomesFinal ==
  ASSUME Exclusive, ~CommitAckMayBeLost
  PROVE  Spec => OutcomesFinal
<1>1. AuditInv /\ [Next]_vars => AuditInv'
  BY NextAudit
<1>2. AuditInv /\ [Next]_vars =>
        [\A r \in DOMAIN runs :
           runs[r].status # "running" => runs'[r].status = runs[r].status]_vars
  BY NextCloses DEF Closes
<1>3. QED
  BY <1>1, <1>2, InitAudit, PTL DEF Spec, OutcomesFinal

-----------------------------------------------------------------------------
(* The index under the lock: recovery without a distributed transaction     *)

\* What a sync's locals and rows say of each other once they have their type.
NotAdopting == \A a \in Actors : ~adopting[a]

PrevSnapCurrent ==
  \A a \in Actors : pc[a] \in {"load_files"} \cup PlanInUse => prevSnap[a] = snapshot

RunIsLast == \A a \in Actors : InRun(a) => run[a] = Len(runs)

RunsPushed == \A r \in DOMAIN runs : runs[r].commit \in pushed

SuccessPublished ==
  \A r \in DOMAIN runs : runs[r].status = "succeeded" => snapshot # NoCommit

LedgerInv ==
  /\ AuditInv
  /\ PinnedInv
  /\ NotAdopting
  /\ PrevSnapCurrent
  /\ RunIsLast
  /\ CitedInv
  /\ RunsPushed
  /\ SuccessPublished

\* Until the first success every point is one a run wrote for its manifest.
Fresh ==
  \A p \in Paths, d \in Commits : index[p][d] # NoCommit =>
    index[p][d] = d /\ d \in pushed /\ p \in Chunked(d)

\* From the snapshot towards commit c: a point is the one the state lists,
\* relabelled already if its file is unchanged, or one written for c; and a
\* file that both have is always found.
SameIn(p, c) == files[p].blob # NoBlob /\ files[p].blob = tree[c][p]

Between(c) ==
  /\ \A p \in Paths, d \in Commits : index[p][d] # NoCommit =>
       \/ /\ d = files[p].content
          /\ files[p].blob \notin Chunkless
          /\ index[p][d] = snapshot \/ (SameIn(p, c) /\ index[p][d] = c)
       \/ d = c /\ index[p][d] = c /\ p \in Chunked(c) /\ ~SameIn(p, c)
  /\ \A p \in Chunked(c) :
       files[p].blob # NoBlob /\ files[p].blob \notin Chunkless =>
         \E d \in Commits : index[p][d] # NoCommit

\* Where the index stands between two steps.  After the first success, runs
\* that follow a failure in place all head for one commit.
Standing ==
  IF snapshot = NoCommit
  THEN Fresh
  ELSE /\ Between(runs[Len(runs)].commit)
       /\ runs[Len(runs)].status = "succeeded" => IndexExact

\* What a run has done so far, by its place in the code.
AfterIndex    == {"delete_modified", "delete_removed", "remove_stale"} \cup Sessions
AfterModified == AfterIndex \ {"delete_modified"}
AfterRemoved  == AfterModified \ {"delete_removed"}

New(a) == (Added(a) \cup Modified(a)) \cap Chunked(manifest[a])

Labelled(paths, a) ==
  \A p \in paths, d \in Commits : index[p][d] \in {NoCommit, manifest[a]}

Progress(a) ==
  /\ pc[a] = "index" =>
       /\ todo[a] \subseteq New(a)
       /\ \A p \in New(a) \ todo[a] : index[p][manifest[a]] = manifest[a]
  /\ pc[a] \in AfterIndex =>
       /\ \A p \in New(a) : index[p][manifest[a]] = manifest[a]
       /\ Labelled(Unchanged(a), a)
  /\ pc[a] \in AfterModified => Labelled(Modified(a), a)
  /\ pc[a] \in AfterRemoved =>
       \A p \in Deleted(a), d \in Commits : index[p][d] = NoCommit
  /\ pc[a] \in Sessions /\ prevSnap[a] = NoCommit => Labelled(Paths, a)

RecoveryInv ==
  /\ LedgerInv
  /\ RetriedInPlace => Standing /\ \A a \in Actors : Progress(a)
\* Who else may be writing: nobody, and neither operators nor administrators.
LEMMA Alone ==
  ASSUME LedgerInv, NEW a \in Actors, pc[a] # "idle"
  PROVE  \A b \in Actors \ {a} : pc[b] = "idle"
BY OwnedAlone DEF LedgerInv, AuditInv

LEMMA NextNotAdopting ==
  ASSUME Exclusive, LedgerInv, [Next]_vars
  PROVE  NotAdopting'
<1> USE DEF LedgerInv, AuditInv, CreditInv, TypeInv, TypeOK, NotAdopting
<1>1. ASSUME NEW a \in Actors, Crash(a) \/ Release(a) PROVE NotAdopting'
  BY <1>1 DEF Crash, Release, ForgetLocals
<1>2. CASE UNCHANGED adopting
  BY <1>2
<1>3. ASSUME NEW a \in Actors PROVE ~StartAdoption(a)
  BY DEF Exclusive, StartAdoption
<1>4. QED
  BY <1>1, <1>2, <1>3
     DEF Next, vars, SyncStep, Push, ResetRef, BulkIndex, ExpireLock, AcquireLock,
         StartCliSync, Discover, LoadSnapshot, LoadFiles, StartRunRead,
         StartRunWrite, Fetch, IndexBatch, UpdateUnchanged, DeleteModified,
         DeleteRemoved, RemoveStale, ReadSource, WriteSource,
         DeleteRows, ReadRow, WriteRow, Conflict, CompleteRun, RaiseInRun, FailRun,
         Unwind,
         locals, plan, session

LEMMA NextPrevSnap ==
  ASSUME Exclusive, ~CommitAckMayBeLost, LedgerInv, [Next]_vars
  PROVE  PrevSnapCurrent'
<1> DEFINE Used == {"load_files"} \cup PlanInUse
<1> USE DEF LedgerInv, AuditInv, CreditInv, TypeInv, TypeOK, PrevSnapCurrent,
            PlanInUse, Guarded
<1>1. ASSUME NEW a \in Actors, CompleteRun(a) PROVE PrevSnapCurrent'
  <2>1. \A b \in Actors \ {a} : pc[b] = "idle"
    BY <1>1, Alone DEF CompleteRun
  <2>2. pc' = [pc EXCEPT ![a] = "release"]
    BY <1>1 DEF CompleteRun, Goto
  <2>3. QED
    BY <2>1, <2>2
<1>2. ASSUME NEW a \in Actors, LoadSnapshot(a) PROVE PrevSnapCurrent'
  BY <1>2 DEF LoadSnapshot, Goto, postgres
<1>3. ASSUME NEW a \in Actors, Crash(a) \/ Release(a) PROVE PrevSnapCurrent'
  <2>1. /\ \A b \in Actors \ {a} : pc'[b] = pc[b] /\ prevSnap'[b] = prevSnap[b]
        /\ pc'[a] = "idle"
        /\ UNCHANGED snapshot
    BY <1>3 DEF Crash, Release, ForgetLocals, Goto, postgres
  <2>2. QED
    BY <2>1
<1>4. ASSUME NEW a \in Actors, NEW phase, pc' = [pc EXCEPT ![a] = phase],
             phase \in Used => pc[a] \in Used,
             UNCHANGED <<snapshot, prevSnap>>
      PROVE  PrevSnapCurrent'
  BY <1>4
<1>5. ASSUME UNCHANGED <<pc, snapshot, prevSnap>> PROVE PrevSnapCurrent'
  BY <1>5
<1>6. ASSUME NEW a \in Actors,
             \/ AcquireLock(a) \/ Discover(a) \/ LoadFiles(a)
             \/ StartRunRead(a) \/ StartRunWrite(a)
             \/ Fetch(a) \/ UpdateUnchanged(a) \/ DeleteModified(a)
             \/ DeleteRemoved(a) \/ RemoveStale(a)
             \/ RaiseInRun(a) \/ FailRun(a) \/ Unwind(a)
      PROVE  PrevSnapCurrent'
  <2>1. UNCHANGED <<snapshot, prevSnap>>
    BY <1>6 DEF AcquireLock, Discover, LoadFiles, StartRunRead, StartRunWrite,
         Fetch, UpdateUnchanged, DeleteModified, DeleteRemoved, RemoveStale,
         RaiseInRun, FailRun, Unwind, postgres, locals, plan, session
  <2>2. \E phase : pc' = [pc EXCEPT ![a] = phase] /\ (phase \in Used => pc[a] \in Used)
    <3>1. CASE AcquireLock(a) \/ Discover(a) \/ LoadFiles(a)
      BY <3>1 DEF AcquireLock, Discover, LoadFiles, Goto
    <3>2. CASE StartRunRead(a) \/ StartRunWrite(a) \/ Fetch(a)
      BY <3>2 DEF StartRunRead, StartRunWrite, Fetch, Goto
    <3>3. CASE UpdateUnchanged(a) \/ DeleteModified(a) \/ DeleteRemoved(a)
      BY <3>3 DEF UpdateUnchanged, DeleteModified, DeleteRemoved, Goto
    <3>4. CASE RemoveStale(a) \/ RaiseInRun(a) \/ FailRun(a) \/ Unwind(a)
      BY <3>4 DEF RemoveStale, RaiseInRun, FailRun, Unwind, Goto
    <3>5. QED
      BY <1>6, <3>1, <3>2, <3>3, <3>4
  <2>3. QED
    BY <2>1, <2>2, <1>4
<1>7. ASSUME NEW a \in Actors PROVE ~StartCliSync(a) /\ ~StartAdoption(a)
  BY DEF Exclusive, StartCliSync, StartAdoption
<1>8. ASSUME NEW a \in Actors, IndexBatch(a) PROVE PrevSnapCurrent'
  BY <1>8, <1>5 DEF IndexBatch, postgres, plan
<1>9. CASE Push \/ ResetRef \/ BulkIndex \/ ExpireLock \/ UNCHANGED vars
  BY <1>9, <1>5 DEF Push, ResetRef, BulkIndex, ExpireLock, vars, postgres, locals,
       plan, session
<1>10. ASSUME NEW a \in Actors, SessionStep(a) PROVE PrevSnapCurrent'
  <2>1. UNCHANGED <<snapshot, prevSnap>> /\ pc[a] \in Used
    BY <1>10, SessionLocal DEF Sessions, plan, postgres
  <2>2. \E phase : pc' = [pc EXCEPT ![a] = phase]
    BY <1>10, SessionLocal
  <2>3. QED
    BY <2>1, <2>2, <1>4
<1>11. QED
  BY <1>1, <1>2, <1>3, <1>6, <1>7, <1>8, <1>9, <1>10 DEF Next, SyncStep, SessionStep

\* start_run appends the caller's row, the newest; no other row is added.
LEMMA NextRunIsLast ==
  ASSUME Exclusive, ~CommitAckMayBeLost, LedgerInv, [Next]_vars
  PROVE  RunIsLast'
<1> USE DEF LedgerInv, AuditInv, CreditInv, TypeInv, TypeOK, RunIsLast, InRun, Guarded
<1>1. ASSUME NEW a \in Actors, StartRunWrite(a) PROVE RunIsLast'
  <2>1. \A b \in Actors \ {a} : pc[b] = "idle"
    BY <1>1, Alone DEF StartRunWrite
  <2>2. /\ run' = [run EXCEPT ![a] = Len(runs) + 1]
        /\ \E phase : pc' = [pc EXCEPT ![a] = phase]
    BY <1>1 DEF StartRunWrite, Goto
  <2>3. Len(runs') = Len(runs) + 1
    BY <1>1, StartedRows
  <2>4. QED
    BY <2>1, <2>2, <2>3
<1>2. ASSUME NEW a \in Actors, CompleteRun(a) \/ FailRun(a) PROVE RunIsLast'
  <2>1. \A b \in Actors \ {a} : pc[b] = "idle"
    BY <1>2, Alone DEF CompleteRun, FailRun
  <2>2. pc' = [pc EXCEPT ![a] = "release"]
    BY <1>2 DEF CompleteRun, FailRun, Goto
  <2>3. QED
    BY <2>1, <2>2
<1>3. ASSUME NEW a \in Actors, NEW phase, pc' = [pc EXCEPT ![a] = phase],
             phase \in Guarded \cup {"failing"} => InRun(a),
             UNCHANGED <<runs, run>>
      PROVE  RunIsLast'
  BY <1>3
<1>4. ASSUME NEW a \in Actors,
             \/ AcquireLock(a) \/ Discover(a) \/ LoadSnapshot(a) \/ LoadFiles(a)
             \/ StartRunRead(a) \/ Fetch(a) \/ UpdateUnchanged(a)
             \/ DeleteModified(a) \/ DeleteRemoved(a) \/ RemoveStale(a)
             \/ RaiseInRun(a) \/ Unwind(a)
      PROVE  RunIsLast'
  <2>1. UNCHANGED <<runs, run>>
    BY <1>4 DEF AcquireLock, Discover, LoadSnapshot, LoadFiles, StartRunRead, Fetch,
         UpdateUnchanged, DeleteModified, DeleteRemoved, RemoveStale, RaiseInRun,
         Unwind, postgres, locals, plan, session
  <2>2. \E phase : /\ pc' = [pc EXCEPT ![a] = phase]
                   /\ phase \in Guarded \cup {"failing"} => InRun(a)
    BY <1>4 DEF AcquireLock, Discover, LoadSnapshot, LoadFiles, StartRunRead, Fetch,
         UpdateUnchanged, DeleteModified, DeleteRemoved, RemoveStale, RaiseInRun,
         Unwind, Goto
  <2>3. QED
    BY <2>1, <2>2, <1>3
<1>5. ASSUME NEW a \in Actors, Crash(a) \/ Release(a) PROVE RunIsLast'
  <2>1. /\ \A b \in Actors \ {a} : pc'[b] = pc[b] /\ run'[b] = run[b]
        /\ pc'[a] = "idle"
        /\ UNCHANGED runs
    BY <1>5 DEF Crash, Release, ForgetLocals, Goto, postgres
  <2>2. QED
    BY <2>1
<1>6. ASSUME UNCHANGED <<pc, runs, run>> PROVE RunIsLast'
  BY <1>6
<1>7. ASSUME NEW a \in Actors, IndexBatch(a) PROVE RunIsLast'
  BY <1>7, <1>6 DEF IndexBatch, postgres
<1>8. ASSUME NEW a \in Actors PROVE ~StartCliSync(a) /\ ~StartAdoption(a)
  BY DEF Exclusive, StartCliSync, StartAdoption
<1>9. CASE Push \/ ResetRef \/ BulkIndex \/ ExpireLock \/ UNCHANGED vars
  BY <1>9, <1>6 DEF Push, ResetRef, BulkIndex, ExpireLock, vars, postgres, locals,
       plan, session
<1>10. ASSUME NEW a \in Actors, SessionStep(a) PROVE RunIsLast'
  <2>1. PICK phase \in (Sessions \ {"complete"}) \cup {"failing"} :
          pc' = [pc EXCEPT ![a] = phase]
    BY <1>10, SessionLocal
  <2>2. UNCHANGED <<runs, run>> /\ InRun(a)
    BY <1>10, SessionLocal DEF postgres, Sessions
  <2>3. QED
    BY <2>1, <2>2, <1>3
<1>11. QED
  BY <1>1, <1>2, <1>4, <1>5, <1>7, <1>8, <1>9, <1>10 DEF Next, SyncStep, SessionStep

LEMMA NextRows ==
  ASSUME Exclusive, ~CommitAckMayBeLost, LedgerInv, [Next]_vars
  PROVE  RunsPushed' /\ SuccessPublished'
<1> USE DEF LedgerInv, AuditInv
<1>1. pushed \subseteq pushed' /\ CommitsKept
  <2>1. pushed \subseteq pushed'
    BY DEF Next, vars, SyncStep, Push, ResetRef, BulkIndex, ExpireLock, AcquireLock,
         StartCliSync, StartAdoption, Discover, LoadSnapshot, LoadFiles,
         StartRunRead, StartRunWrite, Fetch, IndexBatch, UpdateUnchanged,
         DeleteModified, DeleteRemoved, RemoveStale, ReadSource, WriteSource,
         DeleteRows, ReadRow, WriteRow, Conflict, CompleteRun, RaiseInRun,
         FailRun, Unwind, Crash, Release, github
  <2>2. QED
    BY <2>1, NextCommitsKept
<1>2. ASSUME NEW a \in Actors, StartRunWrite(a)
      PROVE  RunsPushed' /\ SuccessPublished'
  <2>1. UNCHANGED snapshot /\ manifest[a] \in pushed
    BY <1>2, ManifestTyped DEF StartRunWrite, CreditInv, Planning, Phases
  <2>2. /\ DOMAIN runs' = 1 .. Len(runs) + 1
        /\ DOMAIN runs = 1 .. Len(runs)
        /\ Len(runs) \in Nat
        /\ \A r \in DOMAIN runs :
             runs'[r] \in {runs[r], [runs[r] EXCEPT !.status = "failed"]}
        /\ runs'[Len(runs) + 1] = [commit |-> manifest[a], status |-> "running"]
    BY <1>2, StartedRows DEF CreditInv
  <2>3. \A r \in DOMAIN runs' : r \in DOMAIN runs \/ r = Len(runs) + 1
    BY <2>2
  <2>4. \A r \in DOMAIN runs : runs[r] \in RunRow
    BY LenProperties DEF CreditInv, TypeInv, TypeOK
  <2>5. ASSUME NEW r \in DOMAIN runs
        PROVE  /\ runs'[r].commit = runs[r].commit
               /\ runs'[r].status = "succeeded" => runs[r].status = "succeeded"
    BY <2>2, <2>4 DEF RunRow
  <2>6. RunsPushed'
    BY <1>1, <2>1, <2>2, <2>3, <2>5 DEF RunsPushed
  <2>7. SuccessPublished'
    BY <2>1, <2>2, <2>3, <2>5 DEF SuccessPublished
  <2>8. QED
    BY <2>6, <2>7
<1>3. ASSUME NEW a \in Actors, CompleteRun(a) \/ FailRun(a)
      PROVE  /\ DOMAIN runs' = DOMAIN runs
             /\ CompleteRun(a) => SuccessPublished'
             /\ FailRun(a) => SuccessPublished'
  <2>1. run[a] \in DOMAIN runs
    BY <1>3 DEF CompleteRun, FailRun, CreditInv, RunRecorded, InRun, Guarded
  <2>2. \E s : runs' = [runs EXCEPT ![run[a]].status = s]
    BY <1>3 DEF CompleteRun, FailRun
  <2>3. DOMAIN runs' = DOMAIN runs
    BY <2>1, <2>2, StatusRows DEF CreditInv
  <2>4. ASSUME CompleteRun(a) PROVE SuccessPublished'
    <3>1. snapshot' = manifest[a] /\ manifest[a] \in Commits
      BY <2>4, CompletionPublishes DEF CreditInv, TypeInv, TypeOK
    <3>2. QED
      BY <3>1, DataAssumption DEF SuccessPublished
  <2>5. ASSUME FailRun(a) PROVE SuccessPublished'
    <3>1. runs' = [runs EXCEPT ![run[a]].status = "failed"] /\ snapshot' = snapshot
      BY <2>5 DEF FailRun
    <3>2. /\ \A q \in DOMAIN runs \ {run[a]} : runs'[q] = runs[q]
          /\ runs'[run[a]] = [commit |-> runs[run[a]].commit, status |-> "failed"]
      BY <2>1, <3>1, StatusRows DEF CreditInv
    <3>3. runs'[run[a]].status = "failed"
      BY <3>2
    <3>4. QED
      BY <2>3, <3>1, <3>2, <3>3 DEF SuccessPublished
  <2>6. QED
    BY <2>3, <2>4, <2>5
<1>4. ASSUME NEW a \in Actors, CompleteRun(a) \/ FailRun(a)
      PROVE  RunsPushed' /\ SuccessPublished'
  <2>1. RunsPushed'
    BY <1>1, <1>3, <1>4 DEF CommitsKept, RunsPushed
  <2>2. QED
    BY <1>3, <1>4, <2>1
<1>5. CASE UNCHANGED <<runs, snapshot>>
  BY <1>1, <1>5 DEF RunsPushed, SuccessPublished
<1>6. QED
  BY <1>2, <1>4, <1>5
     DEF Next, vars, SyncStep, Push, ResetRef, BulkIndex, ExpireLock, AcquireLock,
         StartCliSync, StartAdoption, Discover, LoadSnapshot, LoadFiles,
         StartRunRead, Fetch, IndexBatch, UpdateUnchanged, DeleteModified,
         DeleteRemoved, RemoveStale, ReadSource, WriteSource,
         DeleteRows, ReadRow, WriteRow, Conflict, RaiseInRun, Unwind, Crash,
         Release, postgres

LEMMA NextLedger ==
  ASSUME Exclusive, ~CommitAckMayBeLost, LedgerInv, [Next]_vars
  PROVE  LedgerInv'
<1>1. AuditInv' /\ PinnedInv' /\ CitedInv'
  BY NextAudit, NextPinned, NextCited DEF LedgerInv
<1>2. QED
  BY <1>1, NextNotAdopting, NextPrevSnap, NextRunIsLast, NextRows DEF LedgerInv
-----------------------------------------------------------------------------
(* The audit table's history                                               *)

\* Only the newest run can still succeed.
LEMMA NoLateSuccess ==
  ASSUME LedgerInv, [Next]_vars
  PROVE  /\ DOMAIN runs = 1 .. Len(runs)
         /\ Len(runs) \in Nat
         /\ Len(runs') \in Nat
         /\ Len(runs) <= Len(runs')
         /\ \A r \in 1 .. Len(runs) - 1 :
              runs'[r].status = "succeeded" => runs[r].status = "succeeded"
<1> USE DEF LedgerInv, AuditInv, CreditInv
<1>1. DOMAIN runs = 1 .. Len(runs) /\ Len(runs) \in Nat
  BY LenProperties DEF TypeInv, TypeOK
<1>2. ASSUME NEW a \in Actors, StartRunWrite(a)
      PROVE  /\ Len(runs') = Len(runs) + 1
             /\ \A r \in 1 .. Len(runs) :
                  runs'[r].status = "succeeded" => runs[r].status = "succeeded"
  <2>1. /\ Len(runs') = Len(runs) + 1
        /\ \A r \in DOMAIN runs :
             runs'[r] \in {runs[r], [runs[r] EXCEPT !.status = "failed"]}
    BY <1>2, StartedRows
  <2>2. \A r \in DOMAIN runs : runs[r] \in RunRow
    BY LenProperties DEF TypeInv, TypeOK
  <2>3. QED
    BY <1>1, <2>1, <2>2 DEF RunRow
<1>3. ASSUME NEW a \in Actors, CompleteRun(a) \/ FailRun(a)
      PROVE  /\ Len(runs') = Len(runs)
             /\ \A r \in 1 .. Len(runs) - 1 : runs'[r] = runs[r]
  <2>1. run[a] \in DOMAIN runs /\ run[a] = Len(runs)
    BY <1>3 DEF CompleteRun, FailRun, RunRecorded, RunIsLast, InRun, Guarded
  <2>2. PICK s \in Statuses : runs' = [runs EXCEPT ![run[a]].status = s]
    BY <1>3 DEF CompleteRun, FailRun, Statuses
  <2>3. DOMAIN runs' = DOMAIN runs /\ \A q \in DOMAIN runs \ {run[a]} : runs'[q] = runs[q]
    BY <2>1, <2>2, StatusRows
  <2>4. runs' \in Seq(RunRow)
    BY <2>2, <1>1, <2>1, StatusTyped DEF TypeInv, TypeOK
  <2>5. DOMAIN runs' = 1 .. Len(runs') /\ Len(runs') \in Nat
    BY <2>4, LenProperties
  <2>6. Len(runs') = Len(runs)
    BY <1>1, <2>3, <2>5
  <2>7. QED
    BY <1>1, <2>1, <2>3, <2>6
<1>4. CASE UNCHANGED runs
  BY <1>1, <1>4
<1>5. CASE \E a \in Actors : StartRunWrite(a)
  BY <1>1, <1>2, <1>5
<1>6. CASE \E a \in Actors : CompleteRun(a) \/ FailRun(a)
  BY <1>1, <1>3, <1>6
<1>7. QED
  BY <1>4, <1>5, <1>6
     DEF Next, vars, SyncStep, Push, ResetRef, BulkIndex, ExpireLock, AcquireLock,
         StartCliSync, StartAdoption, Discover, LoadSnapshot, LoadFiles,
         StartRunRead, Fetch, IndexBatch, UpdateUnchanged, DeleteModified,
         DeleteRemoved, RemoveStale, ReadSource, WriteSource,
         DeleteRows, ReadRow, WriteRow, Conflict, RaiseInRun, Unwind, Crash,
         Release, postgres

\* The premise of recovery is about the past: once false it stays false.
LEMMA RetriedBack ==
  ASSUME LedgerInv, [Next]_vars, RetriedInPlace'
  PROVE  RetriedInPlace
<1>1. /\ DOMAIN runs = 1 .. Len(runs)
      /\ Len(runs) \in Nat
      /\ Len(runs') \in Nat
      /\ Len(runs) <= Len(runs')
      /\ \A r \in 1 .. Len(runs) - 1 :
           runs'[r].status = "succeeded" => runs[r].status = "succeeded"
  BY NoLateSuccess
<1>2. Closes /\ CommitsKept
  BY NextCloses, NextCommitsKept DEF LedgerInv, AuditInv
<1> SUFFICES ASSUME NEW r \in 1 .. Len(runs) - 1,
                    NEW s \in 1 .. r - 1, runs[s].status = "succeeded",
                    runs[r].status # "succeeded"
             PROVE  runs[r + 1].commit = runs[r].commit
  BY DEF RetriedInPlace
<1>3. s \in DOMAIN runs /\ r \in DOMAIN runs /\ r + 1 \in DOMAIN runs
  BY <1>1
<1>4. runs'[s].status = "succeeded" /\ runs'[r].status # "succeeded"
  BY <1>1, <1>2, <1>3 DEF Closes
<1>5. r \in 1 .. Len(runs') - 1
  BY <1>1
<1>6. runs'[r + 1].commit = runs'[r].commit
  BY <1>4, <1>5 DEF RetriedInPlace
<1>7. QED
  BY <1>2, <1>3, <1>6 DEF CommitsKept

\* A run that starts after a failure heads for the failed run's commit.
LEMMA RetrySameCommit ==
  ASSUME LedgerInv, [Next]_vars, RetriedInPlace', snapshot # NoCommit,
         runs[Len(runs)].status # "succeeded",
         NEW a \in Actors, StartRunWrite(a)
  PROVE  manifest[a] = runs[Len(runs)].commit
<1> DEFINE n == Len(runs)
<1>1. /\ Len(runs') = n + 1
      /\ DOMAIN runs = 1 .. n
      /\ n \in Nat
      /\ \A r \in DOMAIN runs :
           runs'[r] \in {runs[r], [runs[r] EXCEPT !.status = "failed"]}
      /\ runs'[n + 1] = [commit |-> manifest[a], status |-> "running"]
  BY StartedRows DEF LedgerInv, AuditInv, CreditInv
<1>2. lastRun \in DOMAIN runs /\ runs[lastRun].status = "succeeded"
  BY DEF LedgerInv, AuditInv, LastRunAgrees
<1>3. lastRun \in 1 .. n - 1 /\ n \in DOMAIN runs
  BY <1>1, <1>2
<1>4. runs[n] \in RunRow
  BY <1>3, LenProperties DEF LedgerInv, AuditInv, CreditInv, TypeInv, TypeOK
<1>5. runs'[n].commit = runs[n].commit /\ runs'[n].status # "succeeded"
  BY <1>1, <1>3, <1>4 DEF RunRow
<1>6. runs'[lastRun].status = "succeeded"
  BY <1>2, NextCloses DEF LedgerInv, AuditInv, Closes
<1>7. n \in 1 .. Len(runs') - 1
  BY <1>1, <1>3
<1>8. runs'[n + 1].commit = runs'[n].commit
  BY <1>3, <1>5, <1>6, <1>7 DEF RetriedInPlace
<1>9. runs'[n + 1].commit = manifest[a]
  BY <1>1
<1>10. QED
  BY <1>5, <1>8, <1>9

-----------------------------------------------------------------------------
(* What the index holds                                                    *)

\* The index the state describes is on the way to every commit.
LEMMA ExactBetween == LedgerInv /\ IndexExact => \A c \in Commits : Between(c)
<1> SUFFICES ASSUME LedgerInv, IndexExact, NEW c \in Commits PROVE Between(c)
  OBVIOUS
<1>1. CASE snapshot = NoCommit
  <2>1. \A p \in Paths : files[p].blob = NoBlob
    BY <1>1 DEF LedgerInv, AuditInv, PublishInv, StateMatchesManifest, Catalog,
         CatalogOf
  <2>2. Chunked(c) \subseteq Paths
    BY DEF Chunked, FilesOf
  <2>3. QED
    BY <1>1, <2>1, <2>2 DEF Between, IndexExact
<1>2. CASE snapshot # NoCommit
  <2>1. \A p \in Paths : files[p].blob # NoBlob => files[p].content \in Commits
    BY DEF LedgerInv, PinnedInv, Pinned, PublishInv, TypeInv, TypeOK
  <2>2. Chunked(c) \subseteq Paths
    BY DEF Chunked, FilesOf
  <2>3. QED
    BY <1>2, <2>1, <2>2 DEF Between, IndexExact
<1>3. QED
  BY <1>1, <1>2

\* A sync in its try block knows the state it plans against.
LEMMA RunFacts ==
  ASSUME LedgerInv, NEW a \in Actors, pc[a] \in Guarded
  PROVE  /\ manifest[a] \in pushed
         /\ manifest[a] \in Commits
         /\ manifest[a] # NoCommit
         /\ prevFiles[a] = files
         /\ prevSnap[a] = snapshot
         /\ runs[Len(runs)].commit = manifest[a]
         /\ runs[Len(runs)].status = "running"
         /\ Len(runs) \in DOMAIN runs
         /\ snapshot = NoCommit => \A p \in Paths : files[p] = NoFile
<1>1. manifest[a] \in pushed /\ manifest[a] \in Commits /\ manifest[a] # NoCommit
  BY ManifestTyped, DataAssumption
     DEF LedgerInv, AuditInv, CreditInv, Guarded, Planning, Phases
<1>2. prevFiles[a] = files /\ prevSnap[a] = snapshot
  BY DEF LedgerInv, AuditInv, PublishInv, PlanCurrent, PrevSnapCurrent, PlanInUse
<1>3. InRun(a)
  BY DEF InRun
<1>4. /\ runs[Len(runs)].commit = manifest[a]
      /\ runs[Len(runs)].status = "running"
      /\ Len(runs) \in DOMAIN runs
  BY <1>3 DEF LedgerInv, AuditInv, CreditInv, RunRecorded, RunIsLast, RunOpen
<1>5. ASSUME snapshot = NoCommit PROVE \A p \in Paths : files[p] = NoFile
  BY <1>5 DEF LedgerInv, AuditInv, PublishInv, StateMatchesManifest, Catalog,
              CatalogOf, CitedInv, RowsWhole
<1>6. QED
  BY <1>1, <1>2, <1>4, <1>5

\* The plan, in terms of the state and the manifest alone.
LEMMA PlanSets ==
  ASSUME NEW a \in Actors, prevFiles[a] = files
  PROVE  /\ Unchanged(a) = {p \in Paths : SameIn(p, manifest[a])}
         /\ New(a) = {p \in Chunked(manifest[a]) : ~SameIn(p, manifest[a])}
         /\ Modified(a) = {p \in FilesOf(manifest[a]) :
                            files[p].blob # NoBlob /\ ~SameIn(p, manifest[a])}
         /\ Deleted(a) = {p \in Paths \ FilesOf(manifest[a]) : files[p].blob # NoBlob}
<1>1. Unchanged(a) = {p \in Paths : SameIn(p, manifest[a])}
  BY DEF Unchanged, Stored, FilesOf, SameIn
<1>2. /\ Modified(a) = {p \in FilesOf(manifest[a]) :
                         files[p].blob # NoBlob /\ ~SameIn(p, manifest[a])}
      /\ Deleted(a) = {p \in Paths \ FilesOf(manifest[a]) : files[p].blob # NoBlob}
  BY DEF Modified, Deleted, Stored, FilesOf, SameIn
<1>3. New(a) = {p \in Chunked(manifest[a]) : ~SameIn(p, manifest[a])}
  BY <1>2 DEF New, Added, Stored, Chunked, FilesOf, SameIn
<1>4. QED
  BY <1>1, <1>2, <1>3
-----------------------------------------------------------------------------
(* The steps of a run                                                      *)

\* What a Qdrant request of a run leaves alone.
IndexStep(a) ==
  /\ UNCHANGED <<tree, pushed, snapshot, files, runs, manifest, prevSnap, prevFiles>>
  /\ pc[a] \in Guarded

\* Standing survives a request that leaves only points it allows and loses
\* no file the manifest keeps.
LEMMA StandingByPoints ==
  ASSUME LedgerInv, Standing, NEW a \in Actors, IndexStep(a),
         \A p \in Paths, d \in Commits : index'[p][d] # NoCommit =>
           \/ index'[p][d] = index[p][d]
           \/ SameIn(p, manifest[a]) /\ index[p][d] # NoCommit
                                     /\ index'[p][d] = manifest[a]
           \/ p \in New(a) /\ d = manifest[a] /\ index'[p][d] = manifest[a],
         \A p \in Chunked(manifest[a]), d \in Commits :
           index[p][d] # NoCommit => \E e \in Commits : index'[p][e] # NoCommit
  PROVE  Standing'
<1> DEFINE m == manifest[a]
<1>1. /\ m \in pushed /\ m \in Commits /\ m # NoCommit
      /\ prevFiles[a] = files
      /\ runs[Len(runs)].commit = m
      /\ runs[Len(runs)].status = "running"
      /\ snapshot = NoCommit => \A p \in Paths : files[p] = NoFile
  BY RunFacts DEF IndexStep
<1>2. New(a) = {p \in Chunked(m) : ~SameIn(p, m)}
  BY <1>1, PlanSets
<1>3. Chunked(m) \subseteq Paths
  BY DEF Chunked, FilesOf
<1>4. CASE snapshot = NoCommit
  <2>1. \A p \in Paths : ~SameIn(p, m)
    BY <1>1, <1>4 DEF SameIn, NoFile
  <2>2. Fresh
    BY <1>4 DEF Standing
  <2>3. Fresh'
    BY <1>1, <1>2, <2>1, <2>2 DEF Fresh, IndexStep, Chunked, FilesOf
  <2>4. QED
    BY <1>4, <2>3 DEF Standing, IndexStep
<1>5. CASE snapshot # NoCommit
  <2>1. Between(m)
    BY <1>1, <1>5 DEF Standing
  <2>2. \A p \in Paths, d \in Commits : index'[p][d] # NoCommit =>
          \/ /\ d = files[p].content
             /\ files[p].blob \notin Chunkless
             /\ index'[p][d] = snapshot \/ (SameIn(p, m) /\ index'[p][d] = m)
          \/ d = m /\ index'[p][d] = m /\ p \in Chunked(m) /\ ~SameIn(p, m)
    BY <1>2, <2>1 DEF Between
  <2>3. \A p \in Chunked(m) :
          files[p].blob # NoBlob /\ files[p].blob \notin Chunkless =>
            \E d \in Commits : index'[p][d] # NoCommit
    BY <2>1 DEF Between
  <2>4. Between(m)'
    BY <2>2, <2>3 DEF Between, SameIn, Chunked, FilesOf, IndexStep
  <2>5. runs'[Len(runs')].commit = m' /\ runs'[Len(runs')].status # "succeeded"
    BY <1>1 DEF IndexStep
  <2>6. QED
    BY <1>5, <2>4, <2>5 DEF Standing, IndexStep
<1>6. QED
  BY <1>4, <1>5

\* The plan's sets do not change during the run.
LEMMA PlanKept ==
  ASSUME NEW a \in Actors, IndexStep(a)
  PROVE  /\ Unchanged(a)' = Unchanged(a)
         /\ Modified(a)' = Modified(a)
         /\ Deleted(a)' = Deleted(a)
         /\ New(a)' = New(a)
BY DEF IndexStep, Unchanged, Modified, Deleted, New, Added, Stored, Chunked, FilesOf

LEMMA FetchStep ==
  ASSUME LedgerInv, Standing, NEW a \in Actors, Fetch(a)
  PROVE  Standing' /\ Progress(a)'
<1>1. IndexStep(a) /\ index' = index
  BY DEF Fetch, IndexStep, Guarded, github, postgres, plan
<1>2. Standing'
  BY <1>1, StandingByPoints
<1>3. pc'[a] = "index" /\ todo'[a] = New(a)
  BY DEF Fetch, Goto, New, LedgerInv, AuditInv, CreditInv, TypeInv, TypeOK
<1>4. New(a)' = New(a)
  BY <1>1, PlanKept
<1>5. QED
  BY <1>2, <1>3, <1>4 DEF Progress, AfterIndex, AfterModified, AfterRemoved, Sessions

LEMMA IndexBatchStep ==
  ASSUME LedgerInv, Standing, NEW a \in Actors, Progress(a), IndexBatch(a)
  PROVE  Standing' /\ Progress(a)'
<1> DEFINE m == manifest[a]
<1>1. IndexStep(a) /\ pc'[a] = "index" /\ pc[a] = "index"
  BY DEF IndexBatch, IndexStep, Guarded, github, postgres, plan
<1>2. PICK batch \in (SUBSET todo[a]) \ {{}} :
        index' = Upserted(batch, m) /\ todo' = [todo EXCEPT ![a] = @ \ batch]
  BY DEF IndexBatch
<1>3. m \in Commits /\ m # NoCommit
  BY <1>1, RunFacts DEF IndexStep
<1>4. /\ \A p \in Paths, d \in Commits :
           index'[p][d] = IF p \in batch /\ d = m THEN m ELSE index[p][d]
      /\ todo'[a] = todo[a] \ batch
      /\ todo[a] \subseteq Paths
  BY <1>2, <1>3 DEF Upserted, LedgerInv, AuditInv, CreditInv, TypeInv, TypeOK, Points
<1>5. batch \subseteq New(a)
  BY <1>1, <1>2 DEF Progress
<1>6. Chunked(m) \subseteq Paths /\ New(a) \subseteq Paths
  BY DEF Chunked, FilesOf, New
<1>7. Standing'
  <2>1. \A p \in Paths, d \in Commits : index'[p][d] # NoCommit =>
          \/ index'[p][d] = index[p][d]
          \/ p \in New(a) /\ d = m /\ index'[p][d] = m
    BY <1>4, <1>5
  <2>2. \A p \in Chunked(m), d \in Commits :
          index[p][d] # NoCommit => \E e \in Commits : index'[p][e] # NoCommit
    BY <1>3, <1>4, <1>6
  <2>3. QED
    BY <1>1, <2>1, <2>2, StandingByPoints
<1>8. \A p \in New(a) \ todo'[a] : index'[p][m] = m
  BY <1>1, <1>3, <1>4, <1>6 DEF Progress
<1>9. New(a)' = New(a) /\ manifest'[a] = m /\ todo'[a] \subseteq New(a)
  BY <1>1, <1>4, PlanKept DEF IndexStep, Progress
<1>10. Progress(a)'
  BY <1>1, <1>8, <1>9 DEF Progress, AfterIndex, AfterModified, AfterRemoved, Sessions
<1>11. QED
  BY <1>7, <1>10

LEMMA UpdateUnchangedStep ==
  ASSUME LedgerInv, Standing, NEW a \in Actors, Progress(a), UpdateUnchanged(a)
  PROVE  Standing' /\ Progress(a)'
<1> DEFINE m == manifest[a]
<1>1. /\ IndexStep(a)
      /\ pc[a] = "index" /\ pc'[a] = "delete_modified"
      /\ todo[a] = {}
  BY DEF UpdateUnchanged, IndexStep, Guarded, Goto, github, postgres, locals, plan,
       session,
         LedgerInv, AuditInv, CreditInv, TypeInv, TypeOK
<1>2. /\ m \in Commits /\ m # NoCommit
      /\ prevFiles[a] = files /\ prevSnap[a] = snapshot
      /\ runs[Len(runs)].commit = m
  BY <1>1, RunFacts DEF IndexStep
<1>3. Unchanged(a) = {p \in Paths : SameIn(p, m)}
  BY <1>2, PlanSets
<1>4. \A p \in Paths, d \in Commits :
        index'[p][d] = IF snapshot # m /\ p \in Unchanged(a) /\ index[p][d] # NoCommit
                       THEN m ELSE index[p][d]
  BY <1>2 DEF UpdateUnchanged, Relabelled
<1>5. Chunked(m) \subseteq Paths /\ New(a) \subseteq Paths
  BY DEF Chunked, FilesOf, New
<1>6. Standing'
  <2>1. \A p \in Paths, d \in Commits : index'[p][d] # NoCommit =>
          \/ index'[p][d] = index[p][d]
          \/ SameIn(p, m) /\ index[p][d] # NoCommit /\ index'[p][d] = m
    BY <1>3, <1>4
  <2>2. \A p \in Chunked(m), d \in Commits :
          index[p][d] # NoCommit => \E e \in Commits : index'[p][e] # NoCommit
    BY <1>2, <1>4, <1>5
  <2>3. QED
    BY <1>1, <2>1, <2>2, StandingByPoints
<1>7. \A p \in Unchanged(a), d \in Commits : index'[p][d] \in {NoCommit, m}
  <2> SUFFICES ASSUME NEW p \in Unchanged(a), NEW d \in Commits,
                      index[p][d] # NoCommit, snapshot = m
               PROVE  index[p][d] = m
    BY <1>3, <1>4
  <2>1. Between(m) /\ p \in Paths /\ SameIn(p, m)
    BY <1>2, <1>3 DEF Standing
  <2>2. QED
    BY <2>1 DEF Between
<1>8. \A p \in New(a) : index'[p][m] = m
  BY <1>1, <1>2, <1>4, <1>5 DEF Progress
<1>9. New(a)' = New(a) /\ Unchanged(a)' = Unchanged(a) /\ manifest'[a] = m
  BY <1>1, PlanKept DEF IndexStep
<1>10. Progress(a)'
  BY <1>1, <1>7, <1>8, <1>9 DEF Progress, Labelled, AfterIndex, AfterModified,
       AfterRemoved, Sessions
<1>11. QED
  BY <1>6, <1>10

\* A deletion: of the points of some paths, all but those labelled keep.
LEMMA DeletionPoints ==
  ASSUME LedgerInv, NEW paths, NEW keep, index' = Without(paths, keep),
         NEW p \in Paths, NEW d \in Commits
  PROVE  index'[p][d] = IF p \in paths /\ index[p][d] # keep THEN NoCommit
                                                            ELSE index[p][d]
BY DEF Without

LEMMA DeleteModifiedStep ==
  ASSUME LedgerInv, Standing, NEW a \in Actors, Progress(a), DeleteModified(a)
  PROVE  Standing' /\ Progress(a)'
<1> DEFINE m == manifest[a]
<1>1. /\ IndexStep(a)
      /\ pc[a] = "delete_modified" /\ pc'[a] = "delete_removed"
  BY DEF DeleteModified, IndexStep, Guarded, Goto, github, postgres, locals, plan,
       session,
         LedgerInv, AuditInv, CreditInv, TypeInv, TypeOK
<1>2. m \in Commits /\ m # NoCommit /\ prevFiles[a] = files
  BY <1>1, RunFacts DEF IndexStep
<1>3. \A p \in Paths, d \in Commits :
        index'[p][d] = IF p \in Modified(a) /\ index[p][d] # m
                       THEN NoCommit ELSE index[p][d]
  BY DeletionPoints DEF DeleteModified
<1>4. /\ \A p \in New(a) : index[p][m] = m
      /\ \A p \in Unchanged(a), d \in Commits : index[p][d] \in {NoCommit, m}
  BY <1>1 DEF Progress, AfterIndex, Labelled
<1>5. /\ Chunked(m) \subseteq Paths /\ New(a) \subseteq Paths
      /\ Unchanged(a) \subseteq Paths /\ Modified(a) \subseteq Paths
      /\ \A p \in Chunked(m) : p \in Modified(a) => p \in New(a)
  BY DEF Chunked, FilesOf, New, Unchanged, Modified
<1>6. Standing'
  <2>1. \A p \in Paths, d \in Commits :
          index'[p][d] # NoCommit => index'[p][d] = index[p][d]
    BY <1>3
  <2>2. ASSUME NEW p \in Chunked(m), NEW d \in Commits, index[p][d] # NoCommit
        PROVE  \E e \in Commits : index'[p][e] # NoCommit
    <3>1. CASE p \in Modified(a)
      BY <1>2, <1>3, <1>4, <1>5, <3>1
    <3>2. CASE p \notin Modified(a)
      BY <1>3, <1>5, <2>2, <3>2
    <3>3. QED
      BY <3>1, <3>2
  <2>3. QED
    BY <1>1, <2>1, <2>2, StandingByPoints
<1>7. /\ \A p \in New(a) : index'[p][m] = m
      /\ \A p \in Unchanged(a), d \in Commits : index'[p][d] \in {NoCommit, m}
      /\ \A p \in Modified(a), d \in Commits : index'[p][d] \in {NoCommit, m}
  BY <1>2, <1>3, <1>4, <1>5
<1>8. /\ New(a)' = New(a) /\ Unchanged(a)' = Unchanged(a)
      /\ Modified(a)' = Modified(a) /\ manifest'[a] = m
  BY <1>1, PlanKept DEF IndexStep
<1>9. Progress(a)'
  BY <1>1, <1>7, <1>8 DEF Progress, Labelled, AfterIndex, AfterModified,
       AfterRemoved, Sessions
<1>10. QED
  BY <1>6, <1>9

LEMMA DeleteRemovedStep ==
  ASSUME LedgerInv, Standing, NEW a \in Actors, Progress(a), DeleteRemoved(a)
  PROVE  Standing' /\ Progress(a)'
<1> DEFINE m == manifest[a]
<1>1. /\ IndexStep(a)
      /\ pc[a] = "delete_removed" /\ pc'[a] = "remove_stale"
  BY DEF DeleteRemoved, IndexStep, Guarded, Goto, github, postgres, locals, plan,
       session,
         LedgerInv, AuditInv, CreditInv, TypeInv, TypeOK
<1>2. m \in Commits /\ m # NoCommit /\ prevFiles[a] = files
  BY <1>1, RunFacts DEF IndexStep
<1>3. \A p \in Paths, d \in Commits :
        index'[p][d] = IF p \in Deleted(a) THEN NoCommit ELSE index[p][d]
  BY DeletionPoints DEF DeleteRemoved
<1>4. /\ \A p \in New(a) : index[p][m] = m
      /\ \A p \in Unchanged(a), d \in Commits : index[p][d] \in {NoCommit, m}
      /\ \A p \in Modified(a), d \in Commits : index[p][d] \in {NoCommit, m}
  BY <1>1 DEF Progress, AfterIndex, AfterModified, Labelled
<1>5. /\ Chunked(m) \subseteq Paths /\ New(a) \subseteq Chunked(m)
      /\ Unchanged(a) \subseteq Paths /\ Modified(a) \subseteq Paths
      /\ Deleted(a) \subseteq Paths
      /\ \A p \in Chunked(m) : p \notin Deleted(a)
  BY DEF Chunked, FilesOf, New, Unchanged, Modified, Deleted, Stored
<1>6. Standing'
  <2>1. \A p \in Paths, d \in Commits :
          index'[p][d] # NoCommit => index'[p][d] = index[p][d]
    BY <1>3
  <2>2. \A p \in Chunked(m), d \in Commits :
          index[p][d] # NoCommit => \E e \in Commits : index'[p][e] # NoCommit
    BY <1>3, <1>5
  <2>3. QED
    BY <1>1, <2>1, <2>2, StandingByPoints
<1>7. /\ \A p \in New(a) : index'[p][m] = m
      /\ \A p \in Unchanged(a), d \in Commits : index'[p][d] \in {NoCommit, m}
      /\ \A p \in Modified(a), d \in Commits : index'[p][d] \in {NoCommit, m}
      /\ \A p \in Deleted(a), d \in Commits : index'[p][d] = NoCommit
  BY <1>2, <1>3, <1>4, <1>5
<1>8. /\ New(a)' = New(a) /\ Unchanged(a)' = Unchanged(a)
      /\ Modified(a)' = Modified(a) /\ Deleted(a)' = Deleted(a) /\ manifest'[a] = m
  BY <1>1, PlanKept DEF IndexStep
<1>9. Progress(a)'
  BY <1>1, <1>7, <1>8 DEF Progress, Labelled, AfterIndex, AfterModified,
       AfterRemoved, Sessions
<1>10. QED
  BY <1>6, <1>9

LEMMA RemoveStaleStep ==
  ASSUME LedgerInv, Standing, NEW a \in Actors, Progress(a), RemoveStale(a)
  PROVE  Standing' /\ Progress(a)'
<1> DEFINE m == manifest[a]
<1>1. /\ IndexStep(a)
      /\ pc[a] = "remove_stale" /\ pc'[a] = "complete"
  BY DEF RemoveStale, IndexStep, Guarded, Goto, github, postgres, locals, plan, session,
         LedgerInv, AuditInv, CreditInv, TypeInv, TypeOK
<1>2. /\ m \in Commits /\ m # NoCommit
      /\ prevFiles[a] = files /\ prevSnap[a] = snapshot
      /\ snapshot = NoCommit => \A p \in Paths : files[p] = NoFile
  BY <1>1, RunFacts DEF IndexStep
<1>3. \A p \in Paths, d \in Commits :
        index'[p][d] = IF snapshot = NoCommit /\ index[p][d] # m
                       THEN NoCommit ELSE index[p][d]
  <2>1. CASE snapshot = NoCommit
    BY <1>2, <2>1, DeletionPoints DEF RemoveStale
  <2>2. CASE snapshot # NoCommit
    BY <1>2, <2>2 DEF RemoveStale
  <2>3. QED
    BY <2>1, <2>2
<1>4. /\ \A p \in New(a) : index[p][m] = m
      /\ \A p \in Unchanged(a), d \in Commits : index[p][d] \in {NoCommit, m}
      /\ \A p \in Modified(a), d \in Commits : index[p][d] \in {NoCommit, m}
      /\ \A p \in Deleted(a), d \in Commits : index[p][d] = NoCommit
  BY <1>1 DEF Progress, AfterIndex, AfterModified, AfterRemoved, Sessions, Labelled
<1>5. /\ Chunked(m) \subseteq Paths /\ New(a) \subseteq Chunked(m)
      /\ Unchanged(a) \subseteq Paths /\ Modified(a) \subseteq Paths
      /\ Deleted(a) \subseteq Paths
  BY DEF Chunked, FilesOf, New, Unchanged, Modified, Deleted, Stored
<1>6. Standing'
  <2>1. \A p \in Paths, d \in Commits :
          index'[p][d] # NoCommit => index'[p][d] = index[p][d]
    BY <1>3
  <2>2. ASSUME NEW p \in Chunked(m), NEW d \in Commits, index[p][d] # NoCommit
        PROVE  \E e \in Commits : index'[p][e] # NoCommit
    <3>1. CASE snapshot = NoCommit
      <4>1. p \in New(a)
        BY <1>2, <1>5, <3>1, PlanSets DEF SameIn, NoFile
      <4>2. QED
        BY <1>2, <1>3, <1>4, <1>5, <4>1
    <3>2. CASE snapshot # NoCommit
      BY <1>3, <1>5, <2>2, <3>2
    <3>3. QED
      BY <3>1, <3>2
  <2>3. QED
    BY <1>1, <2>1, <2>2, StandingByPoints
<1>7. /\ \A p \in New(a) : index'[p][m] = m
      /\ \A p \in Unchanged(a), d \in Commits : index'[p][d] \in {NoCommit, m}
      /\ \A p \in Modified(a), d \in Commits : index'[p][d] \in {NoCommit, m}
      /\ \A p \in Deleted(a), d \in Commits : index'[p][d] = NoCommit
      /\ snapshot = NoCommit => \A p \in Paths, d \in Commits : index'[p][d] \in {NoCommit, m}
  BY <1>2, <1>3, <1>4, <1>5
<1>8. /\ New(a)' = New(a) /\ Unchanged(a)' = Unchanged(a)
      /\ Modified(a)' = Modified(a) /\ Deleted(a)' = Deleted(a) /\ manifest'[a] = m
      /\ prevSnap'[a] = snapshot
  BY <1>1, <1>2, PlanKept DEF IndexStep
<1>9. Progress(a)'
  BY <1>1, <1>7, <1>8 DEF Progress, Labelled, AfterIndex, AfterModified,
       AfterRemoved, Sessions
<1>10. QED
  BY <1>6, <1>9
\* When a run is at its end the index is what the new rows describe.
LEMMA FinishedIndex ==
  ASSUME LedgerInv, Standing, NEW a \in Actors, Progress(a), pc[a] \in Sessions
  PROVE  \A p \in Paths, d \in Commits :
           index[p][d] = IF /\ CompletedFiles(a)[p].content = d
                            /\ CompletedFiles(a)[p].blob \notin Chunkless
                         THEN manifest[a] ELSE NoCommit
<1> DEFINE m == manifest[a]
<1> DEFINE row(p) == CompletedFiles(a)[p]
<1> SUFFICES ASSUME NEW p \in Paths, NEW d \in Commits
             PROVE  index[p][d] = IF row(p).content = d /\ row(p).blob \notin Chunkless
                                  THEN m ELSE NoCommit
  OBVIOUS
<1>1. /\ m \in Commits /\ m # NoCommit
      /\ prevFiles[a] = files /\ prevSnap[a] = snapshot
      /\ runs[Len(runs)].commit = m
      /\ snapshot = NoCommit => \A q \in Paths : files[q] = NoFile
  BY RunFacts DEF Guarded, Sessions
<1>2. /\ \A q \in New(a) : index[q][m] = m
      /\ \A q \in Unchanged(a) : index[q][d] \in {NoCommit, m}
      /\ \A q \in Modified(a) : index[q][d] \in {NoCommit, m}
      /\ \A q \in Deleted(a) : index[q][d] = NoCommit
      /\ snapshot = NoCommit => index[p][d] \in {NoCommit, m}
  BY <1>1 DEF Progress, AfterIndex, AfterModified, AfterRemoved, Sessions, Labelled
<1>3. /\ Unchanged(a) = {q \in Paths : SameIn(q, m)}
      /\ New(a) = {q \in Chunked(m) : ~SameIn(q, m)}
      /\ Modified(a) = {q \in FilesOf(m) : files[q].blob # NoBlob /\ ~SameIn(q, m)}
      /\ Deleted(a) = {q \in Paths \ FilesOf(m) : files[q].blob # NoBlob}
  BY <1>1, PlanSets
<1>4. /\ p \in Chunked(m) <=> p \in FilesOf(m) /\ tree[m][p] \notin Chunkless
      /\ p \in FilesOf(m) <=> tree[m][p] # NoBlob
  BY DEF Chunked, FilesOf
<1>5. row(p) = IF p \in FilesOf(m)
               THEN [blob    |-> tree[m][p],
                     content |-> IF SameIn(p, m) THEN files[p].content ELSE m,
                     seen    |-> m]
               ELSE IF files[p].blob # NoBlob THEN NoFile ELSE files[p]
  BY <1>1, <1>3 DEF CompletedFiles, NewRow
<1>6. files[p].blob = NoBlob => files[p] = NoFile
  BY DEF LedgerInv, CitedInv, RowsWhole
<1>7. NoFile.content # d
  BY DataAssumption DEF NoFile
<1>8. CASE snapshot = NoCommit
  <2>1. files[p] = NoFile /\ ~SameIn(p, m)
    BY <1>1, <1>8 DEF SameIn, NoFile
  <2>2. index[p][d] # NoCommit => index[p][d] = d /\ p \in Chunked(d)
    BY <1>8 DEF Standing, Fresh
  <2>3. CASE p \in FilesOf(m)
    BY <1>1, <1>2, <1>3, <1>4, <1>5, <1>8, <2>1, <2>2, <2>3
  <2>4. CASE p \notin FilesOf(m)
    BY <1>2, <1>4, <1>5, <1>6, <1>7, <1>8, <2>1, <2>2, <2>4
  <2>5. QED
    BY <2>3, <2>4
<1>9. CASE snapshot # NoCommit
  <2>1. Between(m)
    BY <1>1, <1>9 DEF Standing
  <2>2. index[p][d] # NoCommit =>
          \/ /\ d = files[p].content
             /\ files[p].blob \notin Chunkless
             /\ index[p][d] = snapshot \/ (SameIn(p, m) /\ index[p][d] = m)
          \/ d = m /\ index[p][d] = m /\ p \in Chunked(m) /\ ~SameIn(p, m)
    BY <2>1 DEF Between
  <2>3. CASE SameIn(p, m)
    <3>1. row(p) = [blob |-> tree[m][p], content |-> files[p].content, seen |-> m]
      BY <1>4, <1>5, <2>3 DEF SameIn
    <3>2. index[p][d] # NoCommit => index[p][d] = m
      BY <1>2, <1>3, <2>3
    <3>3. CASE tree[m][p] \notin Chunkless /\ files[p].content = d
      <4>1. p \in Chunked(m) /\ files[p].blob # NoBlob /\ files[p].blob \notin Chunkless
        BY <1>4, <2>3, <3>3 DEF SameIn
      <4>2. PICK e \in Commits : index[p][e] # NoCommit
        BY <2>1, <4>1 DEF Between
      <4>3. e = files[p].content
        BY <2>1, <2>3, <4>2 DEF Between
      <4>4. QED
        BY <3>1, <3>2, <3>3, <4>2, <4>3
    <3>4. CASE ~(tree[m][p] \notin Chunkless /\ files[p].content = d)
      BY <2>2, <2>3, <3>1, <3>4 DEF SameIn
    <3>5. QED
      BY <3>3, <3>4
  <2>4. CASE p \in FilesOf(m) /\ ~SameIn(p, m)
    <3>1. row(p) = [blob |-> tree[m][p], content |-> m, seen |-> m]
      BY <1>5, <2>4
    <3>2. CASE files[p].blob # NoBlob
      <4>1. snapshot # m
        <5>1. Catalog = tree[snapshot]
          BY <1>9 DEF LedgerInv, AuditInv, PublishInv, StateMatchesManifest, CatalogOf
        <5>2. files[p].blob = tree[snapshot][p]
          BY <5>1 DEF Catalog
        <5>3. QED
          BY <2>4, <3>2, <5>2 DEF SameIn
      <4>2. index[p][d] \in {NoCommit, m}
        BY <1>2, <1>3, <2>4, <3>2
      <4>3. index[p][d] # NoCommit => d = m /\ p \in Chunked(m)
        BY <2>2, <2>4, <4>1, <4>2
      <4>4. QED
        BY <1>2, <1>3, <1>4, <2>4, <3>1, <4>2, <4>3
    <3>3. CASE files[p].blob = NoBlob
      <4>1. index[p][d] # NoCommit => d = m /\ index[p][d] = m /\ p \in Chunked(m)
        BY <1>6, <1>7, <2>2, <3>3
      <4>2. QED
        BY <1>2, <1>3, <1>4, <2>4, <3>1, <4>1
    <3>4. QED
      BY <3>2, <3>3
  <2>5. CASE p \notin FilesOf(m)
    <3>1. row(p) = NoFile
      BY <1>5, <1>6, <2>5
    <3>2. index[p][d] = NoCommit
      BY <1>2, <1>3, <1>4, <1>6, <1>7, <2>2, <2>5
    <3>3. QED
      BY <1>7, <3>1, <3>2
  <2>6. QED
    BY <1>4, <2>3, <2>4, <2>5 DEF SameIn
<1>10. QED
  BY <1>8, <1>9

LEMMA CompleteRunStep ==
  ASSUME Exclusive, ~CommitAckMayBeLost, LedgerInv, [Next]_vars, Standing,
         NEW a \in Actors, Progress(a), CompleteRun(a)
  PROVE  Standing' /\ Progress(a)'
<1>1. LedgerInv'
  BY NextLedger
<1>2. /\ pc[a] = "rows" /\ pc[a] \in Sessions /\ pc'[a] = "release"
      /\ snapshot' = manifest[a]
      /\ files' = CompletedFiles(a)
      /\ index' = index
      /\ runs' = [runs EXCEPT ![run[a]].status = "succeeded"]
  <2>1. /\ pc[a] = "rows" /\ pc'[a] = "release"
        /\ index' = index
        /\ runs' = [runs EXCEPT ![run[a]].status = "succeeded"]
    BY DEF CompleteRun, Goto, LedgerInv, AuditInv, CreditInv, TypeInv, TypeOK
  <2>2. snapshot' = manifest[a] /\ files' = CompletedFiles(a)
    BY CompletionPublishes DEF LedgerInv, AuditInv
  <2>3. QED
    BY <2>1, <2>2 DEF Sessions
<1>3. IndexExact'
  BY <1>2, FinishedIndex DEF IndexExact
<1>4. (\A c \in Commits : Between(c))'
  <2>1. (LedgerInv /\ IndexExact => \A c \in Commits : Between(c))'
    BY ExactBetween, PTL
  <2>2. QED
    BY <1>1, <1>3, <2>1
<1>5. snapshot' # NoCommit
  BY <1>2, RunFacts DEF Guarded
<1>6. runs'[Len(runs')].commit \in Commits
  <2>1. lastRun' \in DOMAIN runs' /\ runs' \in Seq(RunRow)
    BY <1>1, <1>5 DEF LedgerInv, AuditInv, LastRunAgrees, CreditInv, TypeInv, TypeOK
  <2>2. Len(runs') \in DOMAIN runs'
    BY <2>1, LenProperties
  <2>3. runs'[Len(runs')] \in RunRow
    BY <2>1, <2>2, LenProperties
  <2>4. QED
    BY <2>3 DEF RunRow
<1>7. Standing'
  BY <1>3, <1>4, <1>5, <1>6 DEF Standing
<1>8. Progress(a)'
  BY <1>2 DEF Progress, AfterIndex, AfterModified, AfterRemoved, Sessions
<1>9. QED
  BY <1>7, <1>8

\* Starting, failing and everything outside a run leave the index alone.
LEMMA StartRunWriteStep ==
  ASSUME LedgerInv, [Next]_vars, RetriedInPlace', Standing,
         NEW a \in Actors, StartRunWrite(a)
  PROVE  Standing'
<1> DEFINE m == manifest[a]
<1>1. UNCHANGED <<tree, pushed, snapshot, files, index, manifest>>
  BY DEF StartRunWrite, github, plan
<1>2. m \in Commits
  BY ManifestTyped DEF StartRunWrite, LedgerInv, AuditInv, CreditInv, Planning, Phases
<1>3. runs'[Len(runs')] = [commit |-> m, status |-> "running"]
  BY StartedRows DEF LedgerInv, AuditInv, CreditInv
<1>4. runs'[Len(runs')].commit = m /\ runs'[Len(runs')].status # "succeeded"
  BY <1>3
<1>5. CASE snapshot = NoCommit
  BY <1>1, <1>5 DEF Standing, Fresh, Chunked, FilesOf
<1>6. CASE snapshot # NoCommit
  <2>1. Between(m)
    <3>1. CASE runs[Len(runs)].status = "succeeded"
      BY <1>2, <1>6, <3>1, ExactBetween DEF Standing
    <3>2. CASE runs[Len(runs)].status # "succeeded"
      BY <1>6, <3>2, RetrySameCommit DEF Standing
    <3>3. QED
      BY <3>1, <3>2
  <2>2. Between(m)'
    BY <1>1, <2>1 DEF Between, SameIn, Chunked, FilesOf
  <2>3. QED
    BY <1>1, <1>4, <1>6, <2>2 DEF Standing
<1>7. QED
  BY <1>5, <1>6

LEMMA FailRunStep ==
  ASSUME LedgerInv, Standing, NEW a \in Actors, FailRun(a)
  PROVE  Standing'
<1>1. /\ UNCHANGED <<tree, pushed, snapshot, files, index>>
      /\ runs' = [runs EXCEPT ![run[a]].status = "failed"]
      /\ pc[a] = "failing"
  BY DEF FailRun, github
<1>2. run[a] \in DOMAIN runs /\ run[a] = Len(runs)
  BY <1>1 DEF LedgerInv, AuditInv, CreditInv, RunRecorded, RunIsLast, InRun
<1>3. /\ DOMAIN runs' = DOMAIN runs
      /\ runs'[run[a]] = [commit |-> runs[run[a]].commit, status |-> "failed"]
  BY <1>1, <1>2, StatusRows DEF LedgerInv, AuditInv, CreditInv
<1>4. runs' \in Seq(RunRow)
  BY <1>1, <1>2, StatusTyped, LenProperties
     DEF Statuses, LedgerInv, AuditInv, CreditInv, TypeInv, TypeOK
<1>5. Len(runs') = Len(runs)
  <2>1. /\ DOMAIN runs = 1 .. Len(runs) /\ Len(runs) \in Nat
        /\ DOMAIN runs' = 1 .. Len(runs') /\ Len(runs') \in Nat
    BY <1>4, LenProperties DEF LedgerInv, AuditInv, CreditInv, TypeInv, TypeOK
  <2>2. QED
    BY <1>3, <2>1
<1>6. /\ runs'[Len(runs')].commit = runs[Len(runs)].commit
      /\ runs'[Len(runs')].status # "succeeded"
  BY <1>2, <1>3, <1>5
<1>7. QED
  BY <1>1, <1>6 DEF Standing, Fresh, Between, SameIn, Chunked, FilesOf

LEMMA OutsideStep ==
  ASSUME LedgerInv, Standing,
         UNCHANGED <<snapshot, files, runs, index>>,
         pushed \subseteq pushed', \A c \in pushed : tree'[c] = tree[c]
  PROVE  Standing'
<1>1. CASE snapshot = NoCommit
  BY <1>1 DEF Standing, Fresh, Chunked, FilesOf
<1>2. CASE snapshot # NoCommit
  <2>1. runs[Len(runs)].commit \in pushed
    <3>1. lastRun \in DOMAIN runs /\ runs \in Seq(RunRow)
      BY <1>2 DEF LedgerInv, AuditInv, LastRunAgrees, CreditInv, TypeInv, TypeOK
    <3>2. Len(runs) \in DOMAIN runs
      BY <3>1, LenProperties
    <3>3. QED
      BY <3>2 DEF LedgerInv, RunsPushed
  <2> DEFINE c == runs[Len(runs)].commit
  <2>2. tree'[c] = tree[c] /\ c' = c
    BY <2>1
  <2>3. Between(c) /\ (runs[Len(runs)].status = "succeeded" => IndexExact)
    BY <1>2 DEF Standing
  <2>4. Between(c)'
    BY <2>2, <2>3 DEF Between, SameIn, Chunked, FilesOf
  <2>5. (runs[Len(runs)].status = "succeeded" => IndexExact)'
    BY <2>3 DEF IndexExact
  <2>6. QED
    BY <1>2, <2>4, <2>5 DEF Standing
<1>3. QED
  BY <1>1, <1>2
LEMMA IdleProgress ==
  ASSUME NEW b \in Actors, pc'[b] \notin {"index"} \cup AfterIndex
  PROVE  Progress(b)'
BY DEF Progress, AfterIndex, AfterModified, AfterRemoved, Sessions

LEMMA ProgressKept ==
  ASSUME LedgerInv, NEW b \in Actors, Progress(b), index' = index,
         pc'[b] = pc[b], todo'[b] = todo[b], manifest'[b] = manifest[b],
         prevFiles'[b] = prevFiles[b], prevSnap'[b] = prevSnap[b],
         \A c \in pushed : tree'[c] = tree[c]
  PROVE  Progress(b)'
<1>1. CASE pc[b] \in {"index"} \cup AfterIndex
  <2>1. tree'[manifest[b]] = tree[manifest[b]]
    BY <1>1, RunFacts DEF AfterIndex, Sessions, Guarded
  <2>2. /\ Unchanged(b)' = Unchanged(b) /\ Modified(b)' = Modified(b)
        /\ Deleted(b)' = Deleted(b) /\ New(b)' = New(b)
    BY <2>1 DEF Unchanged, Modified, Deleted, New, Added, Stored, Chunked, FilesOf
  <2>3. QED
    BY <2>2 DEF Progress, Labelled
<1>2. CASE pc[b] \notin {"index"} \cup AfterIndex
  BY <1>2, IdleProgress
<1>3. QED
  BY <1>1, <1>2

LEMMA NextRecovery ==
  ASSUME Exclusive, ~CommitAckMayBeLost, RecoveryInv, [Next]_vars
  PROVE  RecoveryInv'
<1>1. LedgerInv /\ LedgerInv'
  BY NextLedger DEF RecoveryInv
<1> SUFFICES ASSUME RetriedInPlace'
             PROVE  Standing' /\ \A b \in Actors : Progress(b)'
  BY <1>1 DEF RecoveryInv
<1>2. Standing /\ \A b \in Actors : Progress(b)
  BY <1>1, RetriedBack DEF RecoveryInv
<1>3. ASSUME NEW a \in Actors,
             \/ StartRunWrite(a) \/ Fetch(a) \/ IndexBatch(a) \/ UpdateUnchanged(a)
             \/ DeleteModified(a) \/ DeleteRemoved(a) \/ RemoveStale(a)
             \/ CompleteRun(a) \/ FailRun(a)
      PROVE  Standing' /\ \A b \in Actors : Progress(b)'
  <2>1. Standing' /\ Progress(a)'
    <3>1. CASE StartRunWrite(a)
      <4>1. pc'[a] = "fetch"
        BY <3>1, <1>1 DEF StartRunWrite, Goto, LedgerInv, NotAdopting, AuditInv,
                          CreditInv, TypeInv, TypeOK
      <4>2. QED
        BY <1>1, <1>2, <3>1, <4>1, StartRunWriteStep, IdleProgress DEF AfterIndex,
             Sessions
    <3>2. CASE FailRun(a)
      <4>1. pc'[a] = "release"
        BY <3>2, <1>1 DEF FailRun, Goto, LedgerInv, AuditInv, CreditInv, TypeInv, TypeOK
      <4>2. QED
        BY <1>1, <1>2, <3>2, <4>1, FailRunStep, IdleProgress DEF AfterIndex, Sessions
    <3>3. CASE CompleteRun(a)
      BY <1>1, <1>2, <3>3, CompleteRunStep
    <3>4. QED
      BY <1>1, <1>2, <1>3, <3>1, <3>2, <3>3, FetchStep, IndexBatchStep,
         UpdateUnchangedStep, DeleteModifiedStep, DeleteRemovedStep, RemoveStaleStep
  <2>2. pc[a] # "idle" /\ \E phase : pc' = [pc EXCEPT ![a] = phase]
    <3>1. TypeOK
      BY <1>1 DEF LedgerInv, AuditInv, CreditInv, TypeInv
    <3>2. CASE IndexBatch(a)
      BY <3>1, <3>2 DEF IndexBatch, TypeOK
    <3>3. CASE ~IndexBatch(a)
      BY <1>3, <3>3 DEF StartRunWrite, Fetch, UpdateUnchanged, DeleteModified,
           DeleteRemoved, RemoveStale, CompleteRun, FailRun, Goto
    <3>4. QED
      BY <3>2, <3>3
  <2>3. \A b \in Actors \ {a} : pc'[b] = "idle"
    BY <1>1, <2>2, Alone DEF LedgerInv, AuditInv, CreditInv, TypeInv, TypeOK
  <2>4. \A b \in Actors \ {a} : Progress(b)'
    BY <2>3, IdleProgress DEF AfterIndex, Sessions
  <2>5. QED
    BY <2>1, <2>4
<1>4. ASSUME NEW a \in Actors,
             \/ AcquireLock(a) \/ Discover(a) \/ LoadSnapshot(a) \/ LoadFiles(a)
             \/ StartRunRead(a) \/ RaiseInRun(a) \/ Unwind(a) \/ Crash(a) \/ Release(a)
      PROVE  Standing' /\ \A b \in Actors : Progress(b)'
  <2>1. UNCHANGED <<tree, pushed, snapshot, files, runs, index>>
    BY <1>4 DEF AcquireLock, Discover, LoadSnapshot, LoadFiles, StartRunRead,
         RaiseInRun, Unwind, Crash, Release, github, postgres
  <2>2. Standing'
    BY <1>1, <1>2, <2>1, OutsideStep
  <2>3. /\ pc'[a] \notin {"index"} \cup AfterIndex
        /\ \A b \in Actors \ {a} :
             /\ pc'[b] = pc[b] /\ todo'[b] = todo[b] /\ manifest'[b] = manifest[b]
             /\ prevFiles'[b] = prevFiles[b] /\ prevSnap'[b] = prevSnap[b]
    <3> USE <1>1 DEF LedgerInv, AuditInv, CreditInv, TypeInv, TypeOK, AfterIndex,
                   Sessions
    <3>1. CASE AcquireLock(a) \/ Discover(a) \/ LoadSnapshot(a)
      BY <3>1 DEF AcquireLock, Discover, LoadSnapshot, Goto, locals, plan, session
    <3>2. CASE LoadFiles(a) \/ StartRunRead(a)
      BY <3>2 DEF LoadFiles, StartRunRead, Goto, plan
    <3>3. CASE RaiseInRun(a) \/ Unwind(a)
      BY <3>3 DEF RaiseInRun, Unwind, Goto, locals, plan, session
    <3>4. CASE Crash(a) \/ Release(a)
      BY <3>4 DEF Crash, Release, ForgetLocals, Goto
    <3>5. QED
      BY <1>4, <3>1, <3>2, <3>3, <3>4
  <2>4. \A b \in Actors \ {a} : Progress(b)'
    BY <1>1, <1>2, <2>1, <2>3, ProgressKept
  <2>5. QED
    BY <2>2, <2>3, <2>4, IdleProgress
<1>5. CASE Push \/ ResetRef \/ ExpireLock \/ UNCHANGED vars
  <2>1. UNCHANGED <<snapshot, files, runs, index, locals, pc>>
    BY <1>5 DEF Push, ResetRef, ExpireLock, vars, postgres
  <2>2. pushed \subseteq pushed' /\ \A c \in pushed : tree'[c] = tree[c]
    BY <1>1, <1>5 DEF Push, ResetRef, ExpireLock, vars, github, LedgerInv, AuditInv,
         CreditInv, TypeInv, TypeOK
  <2>3. Standing'
    BY <1>1, <1>2, <2>1, <2>2, OutsideStep
  <2>4. \A b \in Actors : Progress(b)'
    BY <1>1, <1>2, <2>1, <2>2, ProgressKept DEF locals, plan, session
  <2>5. QED
    BY <2>3, <2>4
<1>6. ASSUME NEW a \in Actors PROVE ~StartCliSync(a) /\ ~StartAdoption(a)
  BY DEF Exclusive, StartCliSync, StartAdoption
<1>7. ~BulkIndex
  BY DEF Exclusive, BulkIndex
<1>8. ASSUME NEW a \in Actors, SessionStep(a)
      PROVE  Standing' /\ \A b \in Actors : Progress(b)'
  <2>1. /\ pc[a] \in Sessions
        /\ UNCHANGED <<tree, pushed, snapshot, files, runs, index, plan>>
        /\ pc'[a] \in Sessions \cup {"failing"}
    BY <1>1, <1>8, SessionLocal DEF postgres, Sessions, LedgerInv, AuditInv, CreditInv,
         TypeInv, TypeOK
  <2>2. Standing'
    BY <1>1, <1>2, <2>1, OutsideStep
  <2>3. Progress(a)'
    <3>1. CASE pc'[a] = "failing"
      BY <3>1, IdleProgress DEF AfterIndex, Sessions
    <3>2. CASE pc'[a] \in Sessions
      <4>1. IndexStep(a)
        BY <2>1 DEF IndexStep, Sessions, Guarded, plan
      <4>2. /\ Unchanged(a)' = Unchanged(a) /\ Modified(a)' = Modified(a)
            /\ Deleted(a)' = Deleted(a) /\ New(a)' = New(a)
        BY <4>1, PlanKept
      <4>3. pc'[a] # "index" /\ manifest'[a] = manifest[a] /\ prevSnap'[a] = prevSnap[a]
        BY <2>1, <3>2 DEF Sessions, plan
      <4>4. pc[a] \in AfterIndex /\ pc[a] \in AfterModified /\ pc[a] \in AfterRemoved
        BY <2>1 DEF AfterIndex, AfterModified, AfterRemoved, Sessions
      <4>5. QED
        BY <1>2, <2>1, <4>2, <4>3, <4>4 DEF Progress, Labelled
    <3>3. QED
      BY <2>1, <3>1, <3>2
  <2>4. ASSUME NEW b \in Actors, b # a PROVE Progress(b)'
    <3>1. pc[b] = "idle" /\ SyncStep(a)
      BY <1>1, <1>8, <2>1, <2>4, Alone DEF SyncStep, SessionStep, Sessions
    <3>2. pc'[b] = "idle"
      BY <1>1, <2>4, <3>1, OthersKept DEF Kept, LedgerInv, AuditInv, CreditInv
    <3>3. QED
      BY <3>2, IdleProgress DEF AfterIndex, Sessions
  <2>5. QED
    BY <2>2, <2>3, <2>4
<1>9. QED
  BY <1>3, <1>4, <1>5, <1>6, <1>7, <1>8 DEF Next, SyncStep, SessionStep

LEMMA InitRecovery == Init => RecoveryInv
<1> SUFFICES ASSUME Init PROVE RecoveryInv
  OBVIOUS
<1>1. AuditInv
  BY InitAudit
<1>2. PinnedInv /\ CitedInv
  BY InitPublish, InitCited DEF Init, PinnedInv, Pinned, NoFiles, NoFile
<1>3. LedgerInv
  BY <1>1, <1>2 DEF Init, LedgerInv, NotAdopting, PrevSnapCurrent, PlanInUse, Guarded,
       RunIsLast, InRun, RunsPushed, SuccessPublished
<1>4. Standing
  BY DEF Init, Standing, Fresh
<1>5. \A a \in Actors : Progress(a)
  BY DEF Init, Progress, AfterIndex, AfterModified, AfterRemoved, Sessions
<1>6. QED
  BY <1>3, <1>4, <1>5 DEF RecoveryInv

\* With the lock, recovery needs no distributed transaction: whatever failures,
\* interrupts and crashes left in Qdrant, and however often, the successful
\* retry of the commit they were indexing leaves one copy of every chunked file
\* of the snapshot and nothing else.
THEOREM SyncRetryRepairs ==
  ASSUME Exclusive, ~CommitAckMayBeLost
  PROVE  Spec => []RetryRepairs
<1>1. RecoveryInv /\ [Next]_vars => RecoveryInv'
  BY NextRecovery
<1>2. RecoveryInv => RetryRepairs
  <2> SUFFICES ASSUME RecoveryInv, LastRunSucceeded, RetriedInPlace
               PROVE  IndexExact
    BY DEF RetryRepairs
  <2>1. Standing /\ LedgerInv
    BY DEF RecoveryInv
  <2>2. Len(runs) \in DOMAIN runs /\ runs[Len(runs)].status = "succeeded"
    <3>1. runs \in Seq(RunRow) /\ runs # <<>>
      BY <2>1 DEF LastRunSucceeded, LedgerInv, AuditInv, CreditInv, TypeInv, TypeOK
    <3>2. Len(runs) \in DOMAIN runs
      BY <3>1, EmptySeq, LenProperties
    <3>3. QED
      BY <3>2 DEF LastRunSucceeded
  <2>3. snapshot # NoCommit
    BY <2>1, <2>2 DEF LedgerInv, SuccessPublished
  <2>4. QED
    BY <2>1, <2>2, <2>3 DEF Standing
<1>3. QED
  BY <1>1, <1>2, InitRecovery, PTL DEF Spec

\* With the lock, a file that is in the snapshot and in the commit being
\* indexed has a point at every moment of the sync and after its failure:
\* retrieval never loses it between the old copy and the new.
THEOREM SyncNoRetrievalGap ==
  ASSUME Exclusive, ~CommitAckMayBeLost
  PROVE  Spec => []NoRetrievalGap
<1>1. RecoveryInv /\ [Next]_vars => RecoveryInv'
  BY NextRecovery
<1>2. RecoveryInv => NoRetrievalGap
  <2> SUFFICES ASSUME RecoveryInv, snapshot # NoCommit, RetriedInPlace,
                      NEW p \in Chunked(snapshot) \cap Chunked(runs[Len(runs)].commit)
               PROVE  \E c \in Commits : index[p][c] # NoCommit
    BY DEF NoRetrievalGap
  <2>1. Between(runs[Len(runs)].commit) /\ LedgerInv
    BY DEF RecoveryInv, Standing
  <2>2. Catalog = tree[snapshot]
    BY <2>1 DEF LedgerInv, AuditInv, PublishInv, StateMatchesManifest, CatalogOf
  <2>3. files[p].blob = tree[snapshot][p] /\ p \in FilesOf(snapshot)
    BY <2>2 DEF Catalog, Chunked, FilesOf
  <2>4. files[p].blob # NoBlob /\ files[p].blob \notin Chunkless
    BY <2>3 DEF Chunked, FilesOf
  <2>5. QED
    BY <2>1, <2>4 DEF Between
<1>3. QED
  BY <1>1, <1>2, InitRecovery, PTL DEF Spec
=============================================================================
