---------------------------- MODULE SchemaImport ----------------------------
(***************************************************************************)
(* The commands 'import schema' and 'finalize-schema-post-data-import'.    *)
(* Files are executed statement by statement on one connection; statements *)
(* that miss an object are deferred and tried again at the end; what       *)
(* fails is listed in failed.sql or ends the command, which may be run     *)
(* again over what is already in the target.                               *)
(***************************************************************************)
EXTENDS SchemaExport, TLC

CONSTANTS
  Unsupported,          \* statements the target never accepts
  Unrecognized,         \* session variables the target does not know
  DDL_MAX_RETRY_COUNT

\* Bound on the transient errors of the target.
MaxConflicts == Migrations[migration].conflicts

VARIABLES
  targetType,           \* "yugabytedb" or "yugabytedb-amp"
  target,               \* what exists: object -> [hash, opts, valid]
  failedSql,            \* the statements listed in schema/failed.sql
  completed,            \* the commands that ended well
  imp,                  \* the running command and where it is
  deferredSqlStmts,
  finalFailedSqlStmts,
  conn,                 \* session variables set on the connection
  orphaned,             \* history: indexes left invalid
  conflicts

importVars == <<imp, deferredSqlStmts, finalFailedSqlStmts, conn>>
targetVars == <<target, orphaned>>
schemaVars == <<targetType, targetVars, failedSql, completed, importVars, conflicts>>

SessionVars == {"yb_use_hash_splitting_by_default"}
                 \cup {Preamble[i].var : i \in DOMAIN Preamble}
NewTargetConn == [v \in SessionVars |-> "default"]

\* todo: the statements still to be executed; retry and drop: of the first of
\* them; round, max, pos and prev: of importDeferredStatements.
Off == [cmd |-> "none", todo |-> <<>>, retry |-> 0, drop |-> FALSE,
        round |-> 0, max |-> 0, pos |-> 1, prev |-> <<>>,
        continueOnError |-> FALSE, ignoreIfExists |-> FALSE]

\* The memory of the process is gone when it ends.
ProcessEnds ==
  imp' = Off /\ deferredSqlStmts' = <<>> /\ finalFailedSqlStmts' = {} /\ conn' = NewTargetConn

ImportInit ==
  /\ targetType \in {"yugabytedb", "yugabytedb-amp"}
  /\ target = <<>> /\ failedSql = {} /\ completed = {}
  /\ imp = Off /\ deferredSqlStmts = <<>> /\ finalFailedSqlStmts = {}
  /\ conn = NewTargetConn
  /\ orphaned = {} /\ conflicts = 0

-----------------------------------------------------------------------------
(* Which statements are executed, and in which order.                      *)

\* importSchemaInternal: the plain copies for a PostgreSQL-compatible target.
FileFor(type) ==
  LET o == IF type = "UNIQUE INDEX" THEN "INDEX" ELSE type
  IN IF targetType = "yugabytedb-amp" /\ backup[o] # <<>> THEN backup[o] ELSE files[o]

\* Statements left for the second pass over their file, or for "UNIQUE INDEX".
isSkipStatement(type, s) ==
  CASE type = "SEQUENCE" -> s.cmd \in {"ALTER SEQUENCE", "ALTER TABLE"}
    [] type = "TABLE" -> s.cmd = "ADD FOREIGN KEY"
    [] type = "UNIQUE INDEX" -> s.cmd # "CREATE UNIQUE INDEX"
    [] type = "INDEX" -> s.cmd = "CREATE UNIQUE INDEX"
    [] OTHER -> FALSE

IsAlterTable(s) ==
  s.cmd \in {"ADD PRIMARY KEY", "ADD CHECK", "ADD UNIQUE", "ADD FOREIGN KEY",
             "ATTACH PARTITION", "ALTER TABLE"}

\* Constraints that are NOT VALID, and nothing else, are applied after the data.
shouldSkipDDL(type, s, post) ==
  \/ s.cmd = "SET" /\ s.var \in {"client_min_messages", "transaction_timeout"}
  \/ /\ type = "TABLE"
     /\ \/ s.cmd = "REPLICA IDENTITY"
        \/ ~IsAlterTable(s) /\ post
        \/ IsAlterTable(s) /\ s.notValid # post

Pass(type, skip) == [type |-> type, skip |-> skip]

\* importSchema: all types in order and the unique indexes last, then what the
\* first pass over the sequences and the tables left out.
Passes(cmd) ==
  LET first == [i \in DOMAIN GetSchemaObjectList |-> Pass(GetSchemaObjectList[i], "later")]
      all == IF cmd = "finalize" THEN <<Pass("TABLE", "none")>>
             ELSE first \o <<Pass("UNIQUE INDEX", "later"),
                             Pass("SEQUENCE", "earlier"), Pass("TABLE", "earlier")>>
  IN SelectSeq(all, LAMBDA p : FileFor(p.type) # <<>>)

Skipped(p, s, post) ==
  \/ p.skip = "later" /\ isSkipStatement(p.type, s)
  \/ p.skip = "earlier" /\ ~isSkipStatement(p.type, s)
  \/ shouldSkipDDL(p.type, s, post)

\* executeSqlFile: the statements of a pass, each with the session variables
\* that were met before it; last says that the file, and its connection, end.
executeSqlFile(cmd, p) ==
  LET f == SelectSeq(FileFor(p.type), LAMBDA s : ~Skipped(p, s, cmd = "finalize"))
      isSet(s) == s.cmd = "SET"
      ddl == SelectSeq([i \in DOMAIN f |-> [at |-> i, stmt |-> f[i]]],
                       LAMBDA e : ~isSet(e.stmt))
  IN [k \in DOMAIN ddl |->
        [type |-> p.type, stmt |-> ddl[k].stmt,
         sessionVariables |-> SelectSeq(SubSeq(f, 1, ddl[k].at), isSet),
         last |-> k = Len(ddl)]]

Work(cmd) == FlattenSeq([i \in DOMAIN Passes(cmd) |-> executeSqlFile(cmd, Passes(cmd)[i])])

-----------------------------------------------------------------------------
(* The connection and the target.                                          *)

\* ApplySessionVariables: a variable the target does not know ends the loop.
ApplySessionVariables(c, sets) ==
  LET known == {i \in DOMAIN sets : \A j \in 1 .. i : sets[j].var \notin Unrecognized}
      of(v) == {i \in known : sets[i].var = v}
  IN [v \in SessionVars |->
        IF of(v) = {} THEN c[v]
        ELSE sets[CHOOSE i \in of(v) : \A j \in of(v) : j <= i].val]

ResetSessionVariables(c, sets) ==
  [v \in SessionVars |->
     IF \E i \in DOMAIN sets : sets[i].var = v THEN "default" ELSE c[v]]

\* What the target answers (external).
Answer(s) ==
  IF s.id \in Unsupported THEN "other"
  ELSE IF s.cmd # "ALTER SEQUENCE" /\ s.makes \cap DOMAIN target # {} THEN "exists"
  ELSE IF s.needs \subseteq DOMAIN target THEN "ok" ELSE "missing"

\* The setting of hash splitting decides on keys whose order is not given.
Created(s, c, valid) ==
  LET hash == IF s.key # "none" \/ s.cmd = "ADD UNIQUE"
              THEN c["yb_use_hash_splitting_by_default"] ELSE "none"
  IN [o \in s.makes |-> [hash |-> hash, opts |-> s.opts, valid |-> valid]] @@ target

-----------------------------------------------------------------------------
(* The command, up to the last file.                                       *)

\* createTargetSchemas drops what is there if --start-clean is given.
StartSchemaCommand(cmd, continue, ignore, clean) ==
  /\ imp.cmd = "none" /\ cmd \notin completed
  /\ cmd = "finalize" => ~continue /\ ~clean
  /\ imp' = [Off EXCEPT !.cmd = cmd, !.todo = Work(cmd),
                        !.continueOnError = continue, !.ignoreIfExists = ignore]
  /\ IF clean THEN target' = <<>> /\ orphaned' = {}
     ELSE UNCHANGED targetVars
  /\ UNCHANGED <<targetType, failedSql, completed, deferredSqlStmts, finalFailedSqlStmts,
                 conn, conflicts>>

Executing == imp.todo # <<>>
Item == Head(imp.todo)
Stmt == Item.stmt
Tries == Executing /\ ~imp.drop /\ imp.retry <= DDL_MAX_RETRY_COUNT

\* The session variables are applied before the first attempt.
Session == IF imp.retry = 0 THEN ApplySessionVariables(conn, Item.sessionVariables) ELSE conn

\* On to the next statement, on the connection c, or on a new one for a new file.
GoOn(c) ==
  /\ imp' = [imp EXCEPT !.todo = Tail(@), !.retry = 0]
  /\ conn' = IF Item.last THEN NewTargetConn ELSE c

\* executeSqlStmtWithRetries: the statement is accepted.
StatementExecuted ==
  /\ Tries /\ Answer(Stmt) = "ok"
  /\ target' = Created(Stmt, Session, TRUE)
  /\ GoOn(Session)
  /\ UNCHANGED <<targetType, orphaned, failedSql, completed, deferredSqlStmts,
                 finalFailedSqlStmts, conflicts>>

\* A conflict with a transaction of higher priority: again, on a new connection.
StatementConflicts ==
  /\ Tries /\ Answer(Stmt) = "ok" /\ conflicts < MaxConflicts
  /\ conflicts' = conflicts + 1
  /\ imp' = [imp EXCEPT !.retry = @ + 1]
  /\ conn' = NewTargetConn
  /\ UNCHANGED <<targetType, target, orphaned, failedSql, completed, deferredSqlStmts,
                 finalFailedSqlStmts>>

\* A schema version mismatch leaves an invalid index behind; it is dropped
\* before the next attempt, but a unique index has neither drop nor attempt.
IndexMismatch ==
  /\ Tries /\ Answer(Stmt) = "ok" /\ Item.type \in {"INDEX", "UNIQUE INDEX"}
  /\ conflicts < MaxConflicts
  /\ conflicts' = conflicts + 1
  /\ target' = Created(Stmt, Session, FALSE)
  /\ imp' = [imp EXCEPT !.retry = IF Item.type = "INDEX" THEN @ + 1 ELSE DDL_MAX_RETRY_COUNT + 1,
                        !.drop = Item.type = "INDEX"]
  /\ conn' = NewTargetConn
  /\ UNCHANGED <<targetType, orphaned, failedSql, completed, deferredSqlStmts,
                 finalFailedSqlStmts>>

dropIdx_Never == UNCHANGED target
dropIdx == target' = [o \in DOMAIN target \ Stmt.makes |-> target[o]]

DropInvalidIndex ==
  /\ Executing /\ imp.drop
  /\ dropIdx
  /\ imp' = [imp EXCEPT !.drop = FALSE]
  /\ UNCHANGED <<targetType, orphaned, failedSql, completed, conn,
                 deferredSqlStmts, finalFailedSqlStmts, conflicts>>

\* An object is missing: the statement is deferred with its session variables.
StatementDeferred ==
  /\ Tries /\ Answer(Stmt) = "missing"
  /\ deferredSqlStmts' = Append(deferredSqlStmts, Item)
  /\ GoOn(NewTargetConn)
  /\ UNCHANGED <<targetType, targetVars, failedSql, completed, finalFailedSqlStmts, conflicts>>

AlreadyExistsIgnored ==
  /\ Tries /\ Answer(Stmt) = "exists" /\ imp.ignoreIfExists
  /\ GoOn(Session)
  /\ UNCHANGED <<targetType, targetVars, failedSql, completed, deferredSqlStmts,
                 finalFailedSqlStmts, conflicts>>

\* Any other error, or one retry too many: noted for failed.sql, or the end.
StatementFails ==
  /\ Executing /\ ~imp.drop
  /\ \/ imp.retry > DDL_MAX_RETRY_COUNT
     \/ Answer(Stmt) = "other"
     \/ Answer(Stmt) = "exists" /\ ~imp.ignoreIfExists
  /\ orphaned' = orphaned \cup {o \in Stmt.makes \cap DOMAIN target : ~target[o].valid}
  /\ IF imp.continueOnError
     THEN /\ finalFailedSqlStmts' = finalFailedSqlStmts \cup {Stmt.id}
          /\ GoOn(NewTargetConn)
          /\ UNCHANGED deferredSqlStmts
     ELSE ProcessEnds
  /\ UNCHANGED <<targetType, target, failedSql, completed, conflicts>>

-----------------------------------------------------------------------------
(* importDeferredStatements: rounds over the deferred statements, each     *)
(* ended by the first that succeeds; as many rounds as there were          *)
(* statements, and none after a round without success.                     *)

AllFilesRead(cmd) == imp.cmd = cmd /\ imp.todo = <<>>

ImportDeferredStatements ==
  /\ AllFilesRead("import schema") /\ imp.round = 0
  /\ imp' = [imp EXCEPT !.round = 1, !.max = Len(deferredSqlStmts)]
  /\ UNCHANGED <<targetType, targetVars, failedSql, completed, deferredSqlStmts,
                 finalFailedSqlStmts, conn, conflicts>>

InRound == imp.round \in 1 .. imp.max /\ imp.pos <= Len(deferredSqlStmts)
Deferred == deferredSqlStmts[imp.pos]
DeferredSession ==
  ApplySessionVariables(ResetSessionVariables(conn, imp.prev), Deferred.sessionVariables)

AfterDeferred_SameRound == [imp EXCEPT !.pos = @ + 1, !.prev = Deferred.sessionVariables]
AfterDeferred == [imp EXCEPT !.round = @ + 1, !.pos = 1, !.prev = Deferred.sessionVariables]

DeferredExecuted ==
  /\ InRound /\ Answer(Deferred.stmt) = "ok"
  /\ target' = Created(Deferred.stmt, DeferredSession, TRUE)
  /\ deferredSqlStmts' = RemoveAt(deferredSqlStmts, imp.pos)
  /\ imp' = AfterDeferred
  /\ conn' = DeferredSession
  /\ UNCHANGED <<targetType, orphaned, failedSql, completed, finalFailedSqlStmts, conflicts>>

DeferredFails ==
  /\ InRound
  /\ \/ Answer(Deferred.stmt) # "ok" /\ UNCHANGED conflicts
     \/ conflicts < MaxConflicts /\ conflicts' = conflicts + 1
  /\ imp' = [imp EXCEPT !.pos = @ + 1, !.prev = Deferred.sessionVariables]
  /\ conn' = NewTargetConn
  /\ UNCHANGED <<targetType, target, orphaned, failedSql, completed, deferredSqlStmts,
                 finalFailedSqlStmts>>

\* The deferred statements join the failed ones when the last round was without
\* success.
FailedStatements_NotDeferred == finalFailedSqlStmts
FailedStatements ==
  finalFailedSqlStmts \cup
    (IF imp.round <= imp.max THEN {d.stmt.id : d \in Range(deferredSqlStmts)} ELSE {})

\* dumpStatements rewrites failed.sql; finalize leaves it alone.
EndImportSchema ==
  /\ AllFilesRead("import schema") /\ imp.round > 0 /\ ~InRound
  /\ failedSql' = FailedStatements
  /\ completed' = completed \cup {"import schema"}
  /\ ProcessEnds
  /\ UNCHANGED <<targetType, targetVars, conflicts>>

EndFinalize ==
  /\ AllFilesRead("finalize")
  /\ completed' = completed \cup {"finalize"}
  /\ ProcessEnds
  /\ UNCHANGED <<targetType, targetVars, failedSql, conflicts>>

SchemaSteps ==
  \/ StatementExecuted \/ StatementConflicts \/ IndexMismatch \/ DropInvalidIndex
  \/ StatementDeferred \/ AlreadyExistsIgnored \/ StatementFails
  \/ ImportDeferredStatements \/ DeferredExecuted \/ DeferredFails
  \/ EndImportSchema \/ EndFinalize

\* The process is killed: the target keeps what it has.
KillSchemaCommand ==
  /\ imp.cmd # "none"
  /\ ProcessEnds
  /\ orphaned' = orphaned \cup {o \in DOMAIN target : ~target[o].valid}
  /\ UNCHANGED <<targetType, target, failedSql, completed, conflicts>>
=============================================================================
