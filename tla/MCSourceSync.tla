---------------------------- MODULE MCSourceSync ----------------------------
(* Small instances of SourceSync for TLC. *)
EXTENDS SourceSync, TLC

\* Model values of one kind are interchangeable; no run with this symmetry
\* checks a liveness property.
Symmetry ==
  Permutations(Paths) \cup Permutations(Commits) \cup
  Permutations(Blobs \ Chunkless) \cup Permutations(Workers)

\* What is left of the source's first run, once it is over: the state of its
\* commit if it succeeded, here one that has every file; nothing if it failed,
\* as it does for a commit whose files give no chunk, here one without files.
FirstRunOver ==
  \E c \in Commits, t \in Trees, done \in BOOLEAN :
    /\ \A p \in Paths : (t[p] # NoBlob) = done
    /\ head = c
    /\ pushed = {c}
    /\ tree = [d \in Commits |-> IF d = c THEN t ELSE [p \in Paths |-> NoBlob]]
    /\ snapshot = IF done THEN c ELSE NoCommit
    /\ lastRun = IF done THEN 1 ELSE 0
    /\ files = [p \in Paths |->
                  IF done THEN [blob |-> t[p], content |-> c, seen |-> c]
                          ELSE NoFile]
    /\ runs = <<[commit |-> c, status |-> IF done THEN "succeeded" ELSE "failed"]>>
    /\ index = [p \in Paths |-> [d \in Commits |->
                  IF done /\ d = c /\ t[p] \in Blobs \ Chunkless THEN c ELSE NoCommit]]

\* The overlap run begins there: a run on its own adds nothing to it.
OverlapInit ==
  /\ FirstRunOver
  /\ lock = Free
  /\ faults = 0
  /\ pc = [a \in Actors |-> "idle"]
  /\ adopting = [a \in Actors |-> FALSE]
  /\ manifest = [a \in Actors |-> NoCommit]
  /\ prevSnap = [a \in Actors |-> NoCommit]
  /\ prevFiles = [a \in Actors |-> NoFiles]
  /\ stale = [a \in Actors |-> {}]
  /\ run = [a \in Actors |-> 0]
  /\ todo = [a \in Actors |-> {}]
  /\ readSource = [a \in Actors |-> NoCommit]
  /\ readFiles = [a \in Actors |-> NoFiles]
  /\ unflushed = [a \in Actors |-> {}]

OverlapSpec == OverlapInit /\ [][Next]_vars
=============================================================================
