------------------------ MODULE SnapshotPublication ------------------------
(***************************************************************************)
(* What incremental ingestion promises the rest of the system about one    *)
(* source: the state store publishes whole snapshots.  A published         *)
(* snapshot is a commit the upstream repository has had, the file catalog  *)
(* beside it is that commit's file list, and both change in one step.      *)
(*                                                                         *)
(* SourceSync, with its runs, locks, crashes and vector index, implements  *)
(* this specification when every sync goes through the source lock.        *)
(***************************************************************************)
CONSTANTS Paths,      \* file paths the source selects
          Blobs,      \* Git blob SHAs
          Commits,    \* commit SHAs
          NoBlob,     \* the file is absent
          NoCommit    \* nothing is published

VARIABLES tree,       \* commit -> path -> blob, for commits upstream has had
          pushed,     \* the commits upstream has had
          published,  \* the source's current snapshot
          catalog     \* path -> blob, the file list published with it

vars == <<tree, pushed, published, catalog>>

Trees == [Paths -> Blobs \cup {NoBlob}]

EmptyCatalog == [p \in Paths |-> NoBlob]

Init ==
  /\ tree \in [Commits -> Trees]
  /\ pushed \subseteq Commits
  /\ published = NoCommit
  /\ catalog = EmptyCatalog

\* The repository gains a commit; nothing is published by that.
Push ==
  \E c \in Commits \ pushed, t \in Trees :
    /\ tree' = [tree EXCEPT ![c] = t]
    /\ pushed' = pushed \cup {c}
    /\ UNCHANGED <<published, catalog>>

\* A sync publishes the snapshot of a commit, whole.
Publish ==
  \E c \in pushed :
    /\ published' = c
    /\ catalog' = tree[c]
    /\ UNCHANGED <<tree, pushed>>

Next == Push \/ Publish

Spec == Init /\ [][Next]_vars
=============================================================================
