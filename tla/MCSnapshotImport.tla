--------------------------- MODULE MCSnapshotImport ---------------------------
(* SnapshotImport on small files. *)
EXTENDS SnapshotImport

(* A table without primary key: the transactional COPY. *)
CopyTask ==
  [numLines |-> 7, badLines |-> {2, 5}, bigLines |-> {}, batchSizes |-> {2},
   stash |-> TRUE, noNewline |-> FALSE, primaryKey |-> FALSE,
   ignoreConflicts |-> FALSE, existing |-> {}, poison |-> {6},
   lateLanding |-> FALSE]

(* The fast path, with a row that is there, one that the target rejects, one *)
(* that overflows an empty batch, and another --batch-size on every start.   *)
FastTask ==
  [CopyTask EXCEPT !.numLines = 4, !.badLines = {3}, !.bigLines = {2},
     !.batchSizes = {1, 2}, !.primaryKey = TRUE, !.ignoreConflicts = TRUE,
     !.existing = {1}, !.poison = {4}]

(* The abort policy, with commits in doubt that land after the retry has looked. *)
AbortTask ==
  [CopyTask EXCEPT !.badLines = {7}, !.stash = FALSE, !.poison = {},
     !.lateLanding = TRUE]

MCTasks == {CopyTask, FastTask, AbortTask}
===============================================================================
