---------------------------- MODULE SchemaDrift ----------------------------
(***************************************************************************)
(* Schema snapshots and drift checks around a live migration: the captures *)
(* that export schema and export data store while users run DDL on the     *)
(* source, and the three checks that read them (detect-drift, the one      *)
(* before a cutover and the one after a failed export).                    *)
(*                                                                         *)
(* A capture is stored as the version of the catalog it read, the number   *)
(* of statements run before it.  A capture takes two steps, the read and the stamp with the save: *)
(* CapturedAt is taken after the read.  Snapshots are listed by            *)
(* captured_at, which is the order of the stamps.                          *)
(***************************************************************************)
EXTENDS SchemaDiff, Functions, TLC

CONSTANTS
    Catalog0,       \* the catalog of the source at the start
    Schemas,        \* the schemas being migrated
    Budgets         \* bounds, one of which holds for a behaviour: [ddls, ddl, schemaSets,
                    \* types, hooks, schemaRuns, runs, periodic, failures, checks]: the
                    \* statements users may run and how many, the schemas and export
                    \* types they give, how runs are stopped, how often export schema and export data run,
                    \* periodic captures, failed captures, commands that check

VARIABLES
    hist,    \* the statements run on the source so far
    snaps,   \* the stored captures [label, reason, schemas, placeholder, ver, spans]
    msr,     \* [exportType, exported, requestedAt, processed] of the status record
    data,    \* data directory: "empty", "snapshot" or "streaming"
    exp,     \* export data: [pc, reason, type, tables]
    cap,     \* the captures in flight, by who takes them
    check,   \* the drift check: [pc, kind, info, exported, listed, live, schemas, stale, report]
    ghost,   \* [freshVer, reqVer]: the version at the last fresh start and at the request
    left     \* what is left of the budget

vars == <<hist, snaps, msr, data, exp, cap, check, ghost, left>>

-----------------------------------------------------------------------------
(* The DDL that the users of a PostgreSQL source run while it is migrated, *)
(* on the catalogs of SchemaDiff.  External: only the effects on pg_class, *)
(* pg_attribute, pg_constraint, pg_index and pg_inherits that              *)
(* src/schemasnapshot/postgres.go reads.                                   *)
(*                                                                         *)
(* A statement is [op, oid, arg]: oid is the OID of the table it is about  *)
(* (the one it gets, for CREATE TABLE), arg its operand.                   *)

\* Is the name free?
NameFree(catalog, ref) == \A o \in DOMAIN catalog.tables : RefOf(catalog.tables[o]) # ref

PartitionsOf(catalog, oid) == {l.child : l \in {x \in catalog.links : x.parent = oid /\ x.isPartition}}

HasParent(catalog, oid) == \E l \in catalog.links : l.child = oid

\* The tables the statement gives a copy of oid's index: itself and its partitions.
WithPartitions(catalog, oid) == {oid} \cup PartitionsOf(catalog, oid)

\* OIDs are never reused: the n-th statement makes the objects 100 * n + table.
NewOid(n, oid) == 100 * n + oid

AddObject(t, id, kind, copy) ==
    [t EXCEPT !.objects = @ @@ (id :> [kind |-> kind, name |-> "obj", fromParent |-> copy])]

OnColumn(t, F(_)) == [t EXCEPT !.columns[1] = F(@)]

\* Can PostgreSQL execute the statement?
Executable(catalog, d) ==
    LET T == catalog.tables IN
    IF d.op = "create" THEN d.oid \notin DOMAIN T /\ NameFree(catalog, d.arg)
    ELSE /\ d.oid \in DOMAIN T
         /\ CASE d.op = "drop"     -> \A l \in catalog.links : l.parent # d.oid
              [] d.op = "rename"   -> NameFree(catalog, [schema |-> T[d.oid].schema, name |-> d.arg])
              [] d.op = "move"     -> /\ T[d.oid].schema # d.arg
                                      /\ NameFree(catalog, [schema |-> d.arg, name |-> T[d.oid].name])
              [] d.op \in {"attach", "inherit"} ->
                                      d.arg \in DOMAIN T /\ ~HasParent(catalog, d.oid)
              [] d.op \in {"detach", "uninherit"} ->
                    [child |-> d.oid, parent |-> d.arg, isPartition |-> d.op = "detach"] \in catalog.links
              [] d.op = "add column"  -> 2 \notin DOMAIN T[d.oid].columns
              [] d.op = "drop column" -> 2 \in DOMAIN T[d.oid].columns
              [] d.op = "alter column" -> 1 \in DOMAIN T[d.oid].columns
              [] d.op = "add object"  -> \A o \in DOMAIN T[d.oid].objects : T[d.oid].objects[o].kind # d.arg
              [] d.op \in {"drop object", "rename object"} ->
                    \E o \in DOMAIN T[d.oid].objects : ~T[d.oid].objects[o].fromParent

\* The catalog after the n-th statement.
Execute(catalog, d, n) ==
    LET T == catalog.tables
        On(t) == [catalog EXCEPT !.tables[d.oid] = t]
        own == {o \in DOMAIN T[d.oid].objects : ~T[d.oid].objects[o].fromParent}
        obj == CHOOSE o \in own : TRUE
    IN
    CASE d.op = "create" ->
            [catalog EXCEPT !.tables = @ @@ (d.oid :>
                [schema |-> d.arg.schema, name |-> d.arg.name, kind |-> "ordinary",
                 columns |-> (1 :> [name |-> "id", type |-> "int", notNull |-> FALSE, default |-> ""]),
                 objects |-> <<>>])]
      [] d.op = "drop" ->
            [tables |-> Restrict(T, DOMAIN T \ {d.oid}),
             links  |-> {l \in catalog.links : l.child # d.oid}]
      [] d.op = "rename" -> On([T[d.oid] EXCEPT !.name = d.arg])
      [] d.op = "move"   -> On([T[d.oid] EXCEPT !.schema = d.arg])
      [] d.op = "attach" ->
            \* the partition gets a copy of every index of its new parent
            [tables |-> [T EXCEPT ![d.oid].objects = @ @@
                [o \in {NewOid(n, p) : p \in DOMAIN T[d.arg].objects} |->
                    [kind |-> "INDEX", name |-> "obj", fromParent |-> TRUE]]],
             links  |-> catalog.links \cup {[child |-> d.oid, parent |-> d.arg, isPartition |-> TRUE]}]
      [] d.op = "detach" ->
            \* the copies become the table's own
            [tables |-> [T EXCEPT ![d.oid].objects =
                            [o \in DOMAIN @ |-> [@[o] EXCEPT !.fromParent = FALSE]]],
             links  |-> catalog.links \ {[child |-> d.oid, parent |-> d.arg, isPartition |-> TRUE]}]
      [] d.op = "inherit" ->
            [catalog EXCEPT !.links = @ \cup {[child |-> d.oid, parent |-> d.arg, isPartition |-> FALSE]}]
      [] d.op = "uninherit" ->
            [catalog EXCEPT !.links = @ \ {[child |-> d.oid, parent |-> d.arg, isPartition |-> FALSE]}]
      [] d.op = "add column" ->
            On([T[d.oid] EXCEPT !.columns = @ @@ (2 :> [name |-> "c", type |-> "int",
                                                        notNull |-> FALSE, default |-> ""])])
      [] d.op = "drop column" -> On([T[d.oid] EXCEPT !.columns = Restrict(@, {1})])
      [] d.op = "alter column" ->
            On(OnColumn(T[d.oid], LAMBDA c :
                CASE d.arg = "name"    -> [c EXCEPT !.name = "id2"]
                  [] d.arg = "type"    -> [c EXCEPT !.type = "bigint"]
                  [] d.arg = "notNull" -> [c EXCEPT !.notNull = ~@]
                  [] d.arg = "default" -> [c EXCEPT !.default = "0"]))
      [] d.op = "add object" ->
            [catalog EXCEPT !.tables =
                [o \in DOMAIN T |-> IF o \in WithPartitions(catalog, d.oid)
                                    THEN AddObject(T[o], NewOid(n, o), d.arg, o # d.oid)
                                    ELSE T[o]]]
      [] d.op = "drop object"   -> On([T[d.oid] EXCEPT !.objects = Restrict(@, DOMAIN @ \ {obj})])
      [] d.op = "rename object" -> On([T[d.oid] EXCEPT !.objects[obj].name = "obj2"])

-----------------------------------------------------------------------------
(* What really changed between two catalogs, told by OIDs: the reference   *)
(* the diff of two captures is compared with.  sub is the name of the      *)
(* column, constraint or index, as the finding gives it.                   *)

Change(type, oid, subs) == [type |-> type, oid |-> oid, subs |-> subs]

LinkedTo(catalog, oid, isPartition) ==
    {l.parent : l \in {x \in catalog.links : x.child = oid /\ x.isPartition = isPartition}}

LinkedFrom(catalog, oid, isPartition) ==
    {l.child : l \in {x \in catalog.links : x.parent = oid /\ x.isPartition = isPartition}}

TableChanges(A, B, oid) ==
    LET tA == A.tables[oid]
        tB == B.tables[oid]
        If(type, P) == IF P THEN {Change(type, oid, {""})} ELSE {}
        Lost(Links(_, _, _), part)   == Links(A, oid, part) \ Links(B, oid, part) # {}
        Gained(Links(_, _, _), part) == Links(B, oid, part) \ Links(A, oid, part) # {}
        common == DOMAIN tA.columns \cap DOMAIN tB.columns
        Cols(type, P(_, _)) ==
            {Change(type, oid, {tA.columns[n].name, tB.columns[n].name}) :
                n \in {m \in common : P(tA.columns[m], tB.columns[m])}}
        Own(t, o) == o \in DOMAIN t.objects /\ ~t.objects[o].fromParent
        objs == DOMAIN tA.objects \cup DOMAIN tB.objects
    IN       If("TABLE_NAME_CHANGED", tA.name # tB.name)
        \cup If("TABLE_SCHEMA_CHANGED", tA.schema # tB.schema)
        \cup If("TABLE_PARTITION_DETACHED", Lost(LinkedTo, TRUE))
        \cup If("TABLE_PARTITION_ATTACHED", Gained(LinkedTo, TRUE))
        \cup If("TABLE_PARTITION_CHILDREN_CHANGED", Lost(LinkedFrom, TRUE) \/ Gained(LinkedFrom, TRUE))
        \cup If("TABLE_INHERIT_REMOVED", Lost(LinkedTo, FALSE))
        \cup If("TABLE_INHERIT_ADDED", Gained(LinkedTo, FALSE))
        \cup If("TABLE_INHERITED_BY_REMOVED", Lost(LinkedFrom, FALSE))
        \cup If("TABLE_INHERITED_BY_ADDED", Gained(LinkedFrom, FALSE))
        \cup Cols("COLUMN_NAME_CHANGED", LAMBDA c, d : c.name # d.name)
        \cup Cols("COLUMN_TYPE_CHANGED", LAMBDA c, d : c.type # d.type)
        \cup Cols("COLUMN_NOT_NULL_SET", LAMBDA c, d : d.notNull /\ ~c.notNull)
        \cup Cols("COLUMN_NOT_NULL_DROPPED", LAMBDA c, d : c.notNull /\ ~d.notNull)
        \cup Cols("COLUMN_DEFAULT_CHANGED", LAMBDA c, d : c.default # d.default)
        \cup {Change("COLUMN_DROPPED", oid, {tA.columns[n].name}) : n \in DOMAIN tA.columns \ common}
        \cup {Change("COLUMN_ADDED", oid, {tB.columns[n].name}) : n \in DOMAIN tB.columns \ common}
        \cup {Change(TypesOf(tA.objects[o].kind).dropped, oid, {tA.objects[o].name}) :
                o \in {x \in objs : Own(tA, x) /\ x \notin DOMAIN tB.objects}}
        \cup {Change(TypesOf(tB.objects[o].kind).added, oid, {tB.objects[o].name}) :
                o \in {x \in objs : Own(tB, x) /\ x \notin DOMAIN tA.objects}}
        \cup {Change(TypesOf(tA.objects[o].kind).renamed, oid, {tA.objects[o].name, tB.objects[o].name}) :
                o \in {x \in objs : Own(tA, x) /\ Own(tB, x) /\ tA.objects[x].name # tB.objects[x].name}}

TrueChanges(A, B) ==
         {Change("TABLE_DROPPED", oid, {""}) : oid \in DOMAIN A.tables \ DOMAIN B.tables}
    \cup {Change("TABLE_ADDED", oid, {""})   : oid \in DOMAIN B.tables \ DOMAIN A.tables}
    \cup UNION {TableChanges(A, B, oid) : oid \in DOMAIN A.tables \cap DOMAIN B.tables}

-----------------------------------------------------------------------------
(* The commands, and the versions of the catalog they read.               *)

Now == Len(hist)

\* The catalog at a version.
CatalogAt(ver) ==
    LET cat[n \in 0 .. ver] == IF n = 0 THEN Catalog0 ELSE Execute(cat[n - 1], hist[n], n)
    IN  cat[ver]

Live == {"snapshot-and-changes", "changes-only"}

NoCapture == [label |-> "", reason |-> "", schemas |-> {}, ver |-> 0, spans |-> FALSE]

NoLive == 99

NoReport == [error |-> "", intervals |-> {}, drifts |-> {}]

NoCheck == [pc |-> "idle", kind |-> "", info |-> [exportType |-> "", requestedAt |-> 0],
            exported |-> {}, listed |-> 0, live |-> NoLive, schemas |-> {}, stale |-> FALSE,
            report |-> NoReport]

Off == [pc |-> "off", reason |-> "", type |-> "", tables |-> {}]

\* The tables of the migrated schemas.
TablesNow == {RefOf(t) : t \in TakeSnapshot(CatalogAt(Now), Schemas)}

Init ==
    /\ hist = <<>>
    /\ snaps = <<>>
    /\ msr = [exportType |-> "none", exported |-> {}, requestedAt |-> NotRequested,
              processed |-> FALSE]
    /\ data = "empty"
    /\ exp = Off
    /\ cap = [c \in {"main", "periodic"} |-> NoCapture]
    /\ check = NoCheck
    /\ ghost = [freshVer |-> NotRequested, reqVer |-> NotRequested]
    /\ left \in Budgets

-----------------------------------------------------------------------------
(* The source.                                                             *)

SourceDdl(d) ==
    /\ left.ddl > 0
    /\ Executable(CatalogAt(Now), d)
    /\ hist' = Append(hist, d)
    /\ left' = [left EXCEPT !.ddl = @ - 1]
    /\ UNCHANGED <<snaps, msr, data, exp, cap, check, ghost>>

-----------------------------------------------------------------------------
(* Captures.                                                               *)

InFlight(who) == cap[who] # NoCapture

\* The read: one point of the catalog.
Reading(label, reason, schemas) ==
    [label |-> label, reason |-> reason, schemas |-> schemas, ver |-> Now, spans |-> FALSE]

Stored(c, placeholder) ==
    [label |-> c.label, reason |-> c.reason, schemas |-> c.schemas, placeholder |-> placeholder,
     ver |-> c.ver, spans |-> c.spans]

\* The stamp and the save.
CaptureAndSaveSnapshot(who) ==
    /\ InFlight(who)
    /\ snaps' = Append(snaps, Stored(cap[who], FALSE))
    /\ cap' = [cap EXCEPT ![who] = NoCapture]
    /\ UNCHANGED <<hist, msr, data, exp, check, ghost, left>>

\* The read failed or timed out: a placeholder marks the moment.
SavePlaceholder(who) ==
    /\ InFlight(who) /\ left.failures > 0
    /\ snaps' = Append(snaps, Stored([cap[who] EXCEPT !.ver = Now], TRUE))
    /\ cap' = [cap EXCEPT ![who] = NoCapture]
    /\ left' = [left EXCEPT !.failures = @ - 1]
    /\ UNCHANGED <<hist, msr, data, exp, check, ghost>>

\* The save failed (or the placeholder's): nothing marks the moment.
LoseCapture(who) ==
    /\ InFlight(who) /\ left.failures > 0
    /\ cap' = [cap EXCEPT ![who] = NoCapture]
    /\ left' = [left EXCEPT !.failures = @ - 1]
    /\ UNCHANGED <<hist, snaps, msr, data, exp, check, ghost>>

\* export schema captures the schemas it was given, perhaps not all.  Nothing that
\* matters here runs beside it, so its capture is one step.
ExportSchema(schemas, failed) ==
    /\ exp.pc = "off" /\ left.schemaRuns > 0 /\ (failed => left.failures > 0)
    /\ snaps' = Append(snaps, Stored(Reading("export_schema", "", schemas), failed))
    /\ left' = [left EXCEPT !.schemaRuns = @ - 1, !.failures = IF failed THEN @ - 1 ELSE @]
    /\ UNCHANGED <<hist, msr, data, exp, cap, check, ghost>>

-----------------------------------------------------------------------------
(* Export data.                                                            *)

\* From the state of the data directory before it is cleaned.
snapshotStartReasonFor(clean) ==
    CASE data = "empty"           -> "initial"
      [] data # "empty" /\ clean  -> "clean_restart"
      [] data # "empty" /\ ~clean -> "resume"

\* A start that clearMigrationStateIfRequired and handleCutoverAlreadyProcessed
\* let through.
Admissible(clean, type) ==
    /\ ~msr.processed
    /\ clean => type # "changes-only"
    /\ ~clean => data = "empty" \/ (data = "streaming" /\ type \in Live)

\* Up to the migration status record cleared by --start-clean.
ExportDataStart(clean, type) ==
    /\ exp.pc = "off" /\ ~InFlight("main") /\ left.runs > 0
    /\ Admissible(clean, type)
    /\ exp' = [pc |-> "started", reason |-> snapshotStartReasonFor(clean), type |-> type, tables |-> {}]
    /\ data' = IF clean THEN "empty" ELSE data
    /\ msr' = IF clean THEN [msr EXCEPT !.exportType = "none", !.exported = {}] ELSE msr
    /\ ghost' = IF clean THEN [ghost EXCEPT !.freshVer = NotRequested] ELSE ghost
    /\ left' = [left EXCEPT !.runs = @ - 1]
    /\ UNCHANGED <<hist, snaps, cap, check>>

\* The export type is saved, unless another one was; then the tables are listed.
saveExportTypeInMSR ==
    /\ exp.pc = "started"
    /\ IF msr.exportType \in {"none", exp.type}
       THEN /\ msr' = [msr EXCEPT !.exportType = exp.type]
            /\ exp' = [exp EXCEPT !.pc = "saved",
                                  !.tables = IF msr.exported = {} THEN TablesNow ELSE msr.exported]
            /\ check' = [check EXCEPT !.stale = @ \/ check.info.exportType = "none"]
       ELSE exp' = Off /\ UNCHANGED <<msr, check>>
    /\ UNCHANGED <<hist, snaps, data, cap, ghost, left>>

StartCapture ==
    /\ exp.pc = "saved"
    /\ exp' = [exp EXCEPT !.pc = "capturing"]
    /\ cap' = [cap EXCEPT !["main"] = Reading("start", exp.reason, Schemas)]
    /\ ghost' = IF exp.reason = "resume" THEN ghost ELSE [ghost EXCEPT !.freshVer = Now]
    /\ UNCHANGED <<hist, snaps, msr, data, check, left>>

\* With the start capture behind it the export stores its table list and runs.
RunExport ==
    /\ exp.pc = "capturing" /\ ~InFlight("main")
    /\ exp' = [exp EXCEPT !.pc = "running"]
    /\ msr' = [msr EXCEPT !.exported = exp.tables]
    /\ data' = IF data = "streaming" THEN data
               ELSE IF exp.type = "changes-only" THEN "streaming" ELSE "snapshot"
    /\ UNCHANGED <<hist, snaps, cap, check, ghost, left>>

StartStreaming ==
    /\ exp.pc = "running" /\ exp.type \in Live /\ data = "snapshot"
    /\ data' = "streaming"
    /\ UNCHANGED <<hist, snaps, msr, exp, cap, check, ghost, left>>

PeriodicCapture ==
    /\ exp.pc = "running" /\ ~InFlight("periodic") /\ left.periodic > 0
    /\ cap' = [cap EXCEPT !["periodic"] = Reading("periodic", "", Schemas)]
    /\ left' = [left EXCEPT !.periodic = @ - 1]
    /\ UNCHANGED <<hist, snaps, msr, data, exp, check, ghost>>

\* How the run can end: with its snapshot, with the cutover, or failing.
ExitReasons ==
    {"error"} \cup (IF exp.type \in Live THEN {} ELSE {"complete"})
              \cup (IF data = "streaming" /\ msr.requestedAt # NotRequested THEN {"cutover"} ELSE {})

\* A return from exportData: the deferred function stops the periodic captures
\* first.  One in flight leaves a placeholder, or nothing.
ExitByReturn(reason, marked) ==
    /\ exp.pc = "running" /\ reason \in ExitReasons
    /\ marked => InFlight("periodic")
    /\ snaps' = IF marked THEN Append(snaps, Stored([cap["periodic"] EXCEPT !.ver = Now], TRUE))
                ELSE snaps
    /\ cap' = [main |-> Reading("exit", reason, Schemas), periodic |-> NoCapture]
    /\ exp' = [exp EXCEPT !.pc = "exiting", !.reason = reason]
    /\ msr' = [msr EXCEPT !.processed = reason = "cutover"]
    /\ UNCHANGED <<hist, data, check, ghost, left>>

\* utils.ErrExit or a signal: the atexit hook captures, periodic captures go on.
ExitByHook(reason) ==
    /\ exp.pc = "running"
    /\ cap' = [cap EXCEPT !["main"] = Reading("exit", reason, Schemas)]
    /\ exp' = [exp EXCEPT !.pc = "dying", !.reason = reason]
    /\ UNCHANGED <<hist, snaps, msr, data, check, ghost, left>>

\* The process ends once its exit capture is over.  After an error while it was
\* streaming it checks for drift, without a live read.
ExportDataEnd ==
    /\ exp.pc \in {"exiting", "dying"} /\ ~InFlight("main")
    /\ exp' = Off
    /\ cap' = [cap EXCEPT !["periodic"] = NoCapture]
    /\ check' = IF exp.pc = "exiting" /\ exp.reason = "error" /\ data = "streaming" /\ check.pc = "idle"
                THEN [NoCheck EXCEPT !.pc = "started", !.kind = "failure", !.schemas = Schemas,
                                     !.info = [exportType |-> msr.exportType,
                                               requestedAt |-> msr.requestedAt]]
                ELSE check
    /\ UNCHANGED <<hist, snaps, msr, data, ghost, left>>

\* Killed, or ended by a second signal while its exit capture runs.
Kill ==
    /\ exp.pc # "off"
    /\ exp' = Off
    /\ cap' = [c \in DOMAIN cap |-> NoCapture]
    /\ UNCHANGED <<hist, snaps, msr, data, check, ghost, left>>

-----------------------------------------------------------------------------
(* Checks.                                                                 *)

\* The migration status record is read first.
CheckStart(kind, schemas) ==
    /\ check.pc = "idle" /\ left.checks > 0
    /\ kind = "cutover" =>
        /\ schemas = Schemas
        /\ data = "streaming" /\ msr.requestedAt = NotRequested
        /\ \E i \in DOMAIN snaps : ~snaps[i].placeholder
    /\ check' = [NoCheck EXCEPT !.pc = "started", !.kind = kind, !.schemas = schemas,
                                !.exported = IF kind = "cutover" THEN msr.exported ELSE {},
                                !.info = [exportType |-> msr.exportType,
                                          requestedAt |-> msr.requestedAt]]
    /\ left' = [left EXCEPT !.checks = @ - 1]
    /\ UNCHANGED <<hist, snaps, msr, data, exp, cap, ghost>>

PointOf(label, reason, schemas, placeholder, ver) ==
    [label |-> label, reason |-> reason, schemas |-> schemas, placeholder |-> placeholder,
     content |-> IF placeholder THEN {} ELSE TakeSnapshot(CatalogAt(ver), schemas)]

\* The capture points of a report, and the report.
Points(c) ==
    [i \in 1 .. c.listed |-> PointOf(snaps[i].label, snaps[i].reason, snaps[i].schemas,
                                     snaps[i].placeholder, snaps[i].ver)]
    \o IF c.live = NoLive THEN <<>> ELSE <<PointOf("live", "", c.schemas, FALSE, c.live)>>

Scope(c) ==
    resolveDriftScope(Points(c), c.schemas, [tableList |-> c.exported, excludeTableList |-> {}])

checkSchemaDrift(c) ==
    LET points == Points(c)
        scope  == Scope(c)
    IN  IF scope.error THEN [NoReport EXCEPT !.error = "unknown tables"]
        ELSE BuildReport(points, scope, c.info)

\* Then the stored captures are listed, the live schema is read and the report
\* built.  (A capture stored between the list and the live read is just not seen.)
CheckReport ==
    /\ check.pc = "started"
    /\ LET c == [check EXCEPT !.pc = "reported", !.listed = Len(snaps),
                              !.live = IF check.kind = "failure" THEN NoLive ELSE Now]
       IN  check' = [c EXCEPT !.report = checkSchemaDrift(c)]
    /\ UNCHANGED <<hist, snaps, msr, data, exp, cap, ghost, left>>

CheckEnd ==
    /\ check.pc = "reported" /\ check.kind # "cutover"
    /\ check' = NoCheck
    /\ UNCHANGED <<hist, snaps, msr, data, exp, cap, ghost, left>>

\* The request itself: captures in flight were read before it and are stamped after.
Request ==
    /\ msr' = [msr EXCEPT !.requestedAt = Len(snaps)]
    /\ ghost' = [ghost EXCEPT !.reqVer = Now]
    /\ cap' = [c \in DOMAIN cap |-> IF InFlight(c) THEN [cap[c] EXCEPT !.spans = TRUE] ELSE cap[c]]

\* The user confirms, or the report is empty, or gives up (also on an error).
CutoverAfterCheck(go) ==
    /\ check.pc = "reported" /\ check.kind = "cutover"
    /\ go => check.report.error = ""
    /\ ~go => check.report.error # "" \/ check.report.drifts # {}
    /\ check' = NoCheck
    /\ IF go THEN Request ELSE UNCHANGED <<msr, ghost, cap>>
    /\ UNCHANGED <<hist, snaps, data, exp, left>>

\* --skip-pre-checks, or no usable capture at all.
CutoverUnchecked ==
    /\ data = "streaming" /\ msr.requestedAt = NotRequested
    /\ check.kind # "cutover"
    /\ Request
    /\ UNCHANGED <<hist, snaps, data, exp, check, left>>

-----------------------------------------------------------------------------
\* A report that only has to be printed is printed before anything else happens.
Printing == check.pc = "reported" /\ check.kind # "cutover"

Next ==
    \/ CheckEnd
    \/ /\ ~Printing
       /\ \/ \E d \in left.ddls : SourceDdl(d)
          \/ \E s \in left.schemaSets, failed \in BOOLEAN : ExportSchema(s, failed)
          \/ \E who \in DOMAIN cap :
                CaptureAndSaveSnapshot(who) \/ SavePlaceholder(who) \/ LoseCapture(who)
          \/ \E clean \in BOOLEAN, type \in left.types : ExportDataStart(clean, type)
          \/ saveExportTypeInMSR \/ StartCapture \/ RunExport \/ StartStreaming \/ PeriodicCapture
          \/ \E reason \in {"error", "complete", "cutover"}, marked \in BOOLEAN :
                ExitByReturn(reason, marked)
          \/ \E reason \in left.hooks : ExitByHook(reason)
          \/ ExportDataEnd \/ Kill
          \/ \E kind \in {"detect", "cutover"}, s \in left.schemaSets : CheckStart(kind, s)
          \/ CheckReport
          \/ \E go \in BOOLEAN : CutoverAfterCheck(go)
          \/ CutoverUnchecked

Spec == Init /\ [][Next]_vars

-----------------------------------------------------------------------------
(* Properties.  Each is about the report a check has just built.           *)

Reported(c) == c.pc = "reported" /\ c.report.error = ""

VerOf(c, i) == IF i > c.listed THEN c.live ELSE snaps[i].ver

\* The change a finding between two contents is about, told by the OID of its table.
Resolved(f, A, B) ==
    LET ids == {i \in {f.objectA, f.objectB} : i # NoIdent}
        ref == anchorTableOf(f)
        t   == CHOOSE x \in (IF f.objectA = NoIdent THEN B ELSE A) : RefOf(x) = ref
    IN  Change(f.type, t.id, {i.sub : i \in ids})

\* An unfiltered report says of each interval it compares exactly what changed in
\* the source's catalog between the two reads, told by OIDs: no finding of it is a
\* phantom (a renamed parent, a schema that was not captured) and none is missing.
DriftExact ==
    Reported(check) /\ check.exported = {} /\ check.schemas = Schemas =>
        LET points == Points(check)
            report == check.report
        IN  \A v \in report.intervals :
                {Resolved(e.diff, points[v[1]].content, points[v[2]].content) :
                    e \in {x \in report.drifts : x.prev = v[1]}}
                  = TrueChanges(CatalogAt(VerOf(check, v[1])), CatalogAt(VerOf(check, v[2])))

\* A change is called "after cutover" only if it was made after the cutover was
\* requested, and "before export data" only if it was made before the export now
\* in force read the schema.  Two windows of the code are excepted: a capture read
\* before the request and stamped after it, and an export that saves its type
\* after the check has read the status record.
TimingSound ==
    Reported(check) =>
        \A e \in check.report.drifts :
            /\ e.timing = "after_cutover" =>
                    VerOf(check, e.prev) >= ghost.reqVer \/ snaps[e.prev].spans
            /\ e.timing = "before_export_data" =>
                    VerOf(check, e.next) <= ghost.freshVer \/ check.stale

\* The start of the export in force.
FreshStarts(c) ==
    {i \in 1 .. c.listed : snaps[i].label = "start" /\ snaps[i].reason \in {"initial", "clean_restart"}}

\* A table that a live export captured at its start and that is renamed, moved or
\* dropped before the cutover is requested is reported as an unrecoverable break,
\* however many captures in between failed.
BreakingReported ==
    Reported(check) /\ check.exported = {} /\ check.info.exportType \in Live /\ FreshStarts(check) # {} =>
        LET points == Points(check)
            report == check.report
            f      == Max(FreshStarts(check))
            usable == {i \in DOMAIN points : ~points[i].placeholder /\ check.schemas \subseteq points[i].schemas}
            Before(p) == Max({i \in usable : i < p})
        IN  f \in usable =>
            \A p \in {i \in usable : i > f /\ Before(i) <= msr.requestedAt} :
                ({RefOf(t) : t \in {x \in points[f].content : x.schema \in check.schemas}}
                    \ {RefOf(t) : t \in points[p].content} # {})
                => \E e \in report.drifts : /\ f <= e.prev /\ e.next <= p
                                            /\ e.severity = "breaks_unrecoverable"

\* What a report says of a change besides that it happened: its moment and its
\* consequence.
DriftJudged == TimingSound /\ BreakingReported

\* The check before a cutover sees every change of an exported table that the
\* start capture of the export recorded: with one, the user is asked.
CutoverSeesDrift ==
    Reported(check) /\ check.kind = "cutover" /\ FreshStarts(check) # {} =>
        LET points == Points(check)
            f      == Max(FreshStarts(check))
            Fate(t) == {x \in points[check.listed + 1].content : x.id = t.id}
        IN  (/\ ~points[f].placeholder
             /\ \E t \in points[f].content :
                    /\ RefOf(t) \in check.exported
                    /\ \/ Fate(t) = {}
                       \/ \E x \in Fate(t) : \/ RefOf(x) # RefOf(t)
                                             \/ x.columns # t.columns)
            => check.report.drifts # {}
=============================================================================
