---------------------------- MODULE IndexLifecycle ----------------------------
(***************************************************************************)
(* The life of persisted symbol indexes: what inspect_symbol_index,        *)
(* migrate_symbol_index, refresh_symbol_index and a load for a query do to *)
(* a database that may be missing, half written, of another program, of an *)
(* older or an unknown version, or written by another analysis             *)
(* (symbol_index_state, index_migration, index_schema, workspace_scan).    *)
(*                                                                         *)
(* A SQLite transaction is one step, and so is each group of reads between *)
(* two of which another process may commit.  A call may fail at any step   *)
(* (its deadline, a file it cannot read, SQLITE_BUSY, a crash) and leaves  *)
(* what was committed.                                                     *)
(*                                                                         *)
(* Abstracted: fingerprints are the texts; the rows of a file are its text *)
(* and whether this build's analysis derived them; a call sees all files   *)
(* of its workspace at one moment (IndexStore has them read one by one,    *)
(* and the edges between symbols); the supported old versions are one.     *)
(***************************************************************************)
EXTENDS Naturals, FiniteSets

CONSTANTS
    Files,           \* source files
    Texts,           \* what a file may hold
    Holds,           \* Holds[f]: what other programs may put at f
    Length,          \* Length[t]: bytes of text t
    Reach,           \* Reach[t]: the end of its last symbol, 0 without symbols
    Databases,       \* database files, one for each workspace
    WorkspaceOf,     \* WorkspaceOf[d]: the files under the root d indexes
    Processes,       \* processes that use the indexes
    OneMigration,    \* are two migrations kept from overlapping
    DefaultMaxFiles, \* DEFAULT_WORKSPACE_MAX_FILES
    ScanCap,         \* MAX_WORKSPACE_SCAN_FILES
    Absent,          \* no file, no file_state row or no symbol rows
    Idle             \* the process has no call in flight

ASSUME LifecycleAssumption ==
    /\ \A f \in Files : Holds[f] \subseteq Texts \cup {Absent}
    /\ Absent \notin Texts
    /\ Length \in [Texts -> Nat]
    /\ Reach \in [Texts -> Nat]
    /\ WorkspaceOf \in [Databases -> SUBSET Files]
    /\ IsFiniteSet(Files)
    /\ OneMigration \in BOOLEAN
    /\ DefaultMaxFiles \in Nat \ {0}
    /\ ScanCap \in Nat /\ DefaultMaxFiles <= ScanCap

Row == [text: Texts, current: BOOLEAN]

ASSUME RowAssumption == Absent \notin Row

Sources == [Files -> Texts \cup {Absent}]
Rows == [Files -> Row \cup {Absent}]
NoSources == [f \in Files |-> Absent]

\* unfinished: created by a rebuild that has not published an index.
Schemas == {"missing", "unfinished", "foreign", "unknown", "old", "current"}

\* provenance: do the metadata name this build's analysis and languages.
Database == [schema: Schemas, provenance: BOOLEAN, count: Nat, states: Sources, rows: Rows]

Kinds == {"inspect", "refresh", "migrate", "query"}
Phases == {"metadata", "file states", "symbols", "health",
           "validate", "collect", "tables", "stored states", "stored symbols",
           "read", "persist", "preflight", "recheck", "schema",
           "answer", "done"}

\* What a call returns, or has found so far.  unsupported: a rebuild is
\* advised and the version is not the expected one.
Findings == {"none", "healthy", "rebuild", "migrate", "manual", "unsupported",
             "refreshed", "answered", "refused", "failed"}

\* found: the paths of a scan; now: the texts a rebuild has read.
Call == [kind: Kinds, db: Databases, limit: 1 .. ScanCap, deadline: Nat, pc: Phases,
         says: Findings, count: Nat, found: SUBSET Files,
         states: Sources, rows: Rows, now: Sources]

ASSUME IdleAssumption == Idle \notin Call

VARIABLES
    disk,   \* what each file holds
    db,     \* the database files
    op,     \* the call each process has in flight, with its locals, or Idle
    clock,  \* time since the request that set a deadline came in
    calm,   \* have other programs and failures come to rest
    torn    \* history: the databases of which a rebuild loaded file states and rows
            \* with a commit between the two loads

vars == <<disk, db, op, clock, calm, torn>>
-----------------------------------------------------------------------------
FirstPhase == [kind \in Kinds |->
    CASE kind = "refresh" -> "validate"
      [] kind = "migrate" -> "preflight"
      [] kind \in {"inspect", "query"} -> "metadata"]

\* deadline 0: the call has no timeout.
NewCall(kind, d, limit, deadline) ==
    [kind |-> kind, db |-> d, limit |-> limit, deadline |-> deadline,
     pc |-> FirstPhase[kind], says |-> "none", count |-> 0, found |-> {},
     states |-> NoSources, rows |-> NoSources, now |-> NoSources]

Expired(p) == op[p].deadline # 0 /\ clock >= op[p].deadline

At(p, pc) == op[p] # Idle /\ op[p].pc = pc /\ ~Expired(p)
Finished(p) == op[p] # Idle /\ op[p].pc = "done"
Index(p) == db[op[p].db]
Continue(p, call) == op' = [op EXCEPT ![p] = call]

\* The locals of a call end with it; an answer keeps its rows.
Ended(call, says) ==
    [NewCall(call.kind, call.db, call.limit, call.deadline) EXCEPT !.pc = "done", !.says = says]
Return(p, says) == Continue(p, Ended(op[p], says))

\* What an inspection found has the counts it read: the metadata's and the
\* number of file states.
Report(p, says) ==
    Continue(p, [Ended(op[p], says) EXCEPT !.count = op[p].count, !.states = op[p].states])
Answer(p) == Continue(p, [Ended(op[p], "answered") EXCEPT !.rows = op[p].rows])

\* A rebuild of the same index has loaded its file states and not its rows.
BetweenLoads(p) ==
    \E q \in Processes \ {p} :
        op[q] # Idle /\ op[q].db = op[p].db /\ op[q].pc = "stored symbols"

\* A transaction.  The statements that load an index are in none.
Commit(p, index) ==
    /\ db' = [db EXCEPT ![op[p].db] = index]
    /\ torn' = IF BetweenLoads(p) THEN torn \cup {op[p].db} ELSE torn

Overlaps(p) == \E q \in Processes \ {p} : op[q] # Idle /\ op[q].kind = "migrate"

Start(p, kind, d, limit, deadline) ==
    /\ kind = "migrate" /\ OneMigration => ~Overlaps(p)
    /\ Continue(p, NewCall(kind, d, limit, deadline))
    /\ UNCHANGED <<disk, db, calm, torn>>
-----------------------------------------------------------------------------
(* What texts, rows and scans say.                                         *)

Stored(states) == {f \in Files : states[f] # Absent}
SourceFiles(d) == {f \in WorkspaceOf[d] : disk[f] # Absent}

\* Mutant: a scan stops at its limit and reports what it has.
ScansUpTo(d, limit) ==
    {found \in SUBSET SourceFiles(d) :
        Cardinality(found) = IF Cardinality(SourceFiles(d)) <= limit
                             THEN Cardinality(SourceFiles(d)) ELSE limit}

\* A scan that meets more files than its limit fails: it has no result.
Scans(d, limit) == {found \in {SourceFiles(d)} : Cardinality(found) <= limit}

\* Rows belong to files with a state, and their byte ranges lie in the text
\* the file holds now.
PathsAreValid(states, rows) ==
    \A f \in Files : rows[f] # Absent =>
        /\ states[f] # Absent
        /\ disk[f] # Absent => Reach[rows[f].text] <= Length[disk[f]]

IsFresh(states) == \A f \in Stored(states) : disk[f] = states[f]

UnindexedLimit(states) ==
    IF Cardinality(Stored(states)) + DefaultMaxFiles <= ScanCap
    THEN Cardinality(Stored(states)) + DefaultMaxFiles
    ELSE ScanCap

\* Mutant: files that are not indexed are left to the next refresh.
NoneUnindexedUnchecked(d, states) == Scans(d, UnindexedLimit(states)) # {}

NoneUnindexed(d, states) ==
    \E found \in Scans(d, UnindexedLimit(states)) : found \subseteq Stored(states)

\* Everything an inspection and a load compare with the files.
IsHealthy(call) ==
    /\ call.count = Cardinality(Stored(call.states))
    /\ PathsAreValid(call.states, call.rows)
    /\ IsFresh(call.states)
    /\ NoneUnindexed(call.db, call.states)

IsCurrent(index) == index.schema = "current" /\ index.provenance

\* The rows an index holds for a text once this analysis has derived them.
Derived(text) ==
    IF text = Absent \/ Reach[text] = 0 THEN Absent ELSE [text |-> text, current |-> TRUE]

\* The tables without a row.
Unfinished ==
    [schema |-> "unfinished", provenance |-> FALSE, count |-> 0,
     states |-> NoSources, rows |-> NoSources]

Missing == [Unfinished EXCEPT !.schema = "missing"]

\* What a process may find at a database path: no file, what an interrupted
\* rebuild or another program left, or an index some build has published.
Leftover(index) ==
    /\ index.schema \in {"missing", "unfinished"} => index \in {Missing, Unfinished}
    /\ index.schema \in {"old", "current"} =>
        /\ index.count = Cardinality(Stored(index.states))
        /\ \A f \in Files : index.rows[f] # Absent => index.states[f] = index.rows[f].text
    /\ IsCurrent(index) => \A f \in Files : index.rows[f] = Derived(index.states[f])

Init ==
    /\ disk \in {d \in Sources : \A f \in Files : d[f] \in Holds[f]}
    /\ db \in [Databases -> {index \in Database : Leftover(index)}]
    /\ op = [p \in Processes |-> Idle]
    /\ clock = 0
    /\ calm = FALSE
    /\ torn = {}
-----------------------------------------------------------------------------
(* inspect_symbol_index: reads what is there and advises; it never writes. *)

Advice(index) ==
    CASE index.schema = "missing"                    -> "rebuild"
      [] index.schema \in {"unfinished", "foreign"}  -> "manual"
      [] index.schema = "unknown"                    -> "unsupported"
      [] index.schema = "old"                        -> "migrate"
      [] index.schema = "current"                    ->
            IF index.provenance THEN "none" ELSE "rebuild"

InspectMetadata(p) ==
    /\ op[p] # Idle /\ op[p].kind \in {"inspect", "migrate"}
    /\ At(p, "metadata")
    /\ IF Index(p).schema \in {"missing", "unfinished", "foreign"}
       THEN Return(p, Advice(Index(p)))
       ELSE Continue(p, [op[p] EXCEPT !.pc = "file states", !.says = Advice(Index(p)),
                                      !.count = Index(p).count])
    /\ UNCHANGED <<disk, db, clock, calm, torn>>

LoadFileStates(p) ==
    /\ At(p, "file states")
    /\ Continue(p, [op[p] EXCEPT !.pc = "symbols", !.states = Index(p).states])
    /\ UNCHANGED <<disk, db, clock, calm, torn>>

\* An inspection goes on to the files, a query to its answer.
LoadSymbols(p) ==
    /\ At(p, "symbols")
    /\ Continue(p, [op[p] EXCEPT !.pc = IF op[p].kind = "query" THEN "answer" ELSE "health",
                                 !.rows = Index(p).rows])
    /\ UNCHANGED <<disk, db, clock, calm, torn>>

InspectHealth(p) ==
    /\ At(p, "health")
    /\ Report(p, IF op[p].says # "none" THEN op[p].says
                 ELSE IF IsHealthy(op[p]) THEN "healthy" ELSE "rebuild")
    /\ UNCHANGED <<disk, db, clock, calm, torn>>
-----------------------------------------------------------------------------
(* Loading an index for a query.                                           *)

QueryMetadata(p) ==
    /\ op[p] # Idle /\ op[p].kind = "query"
    /\ At(p, "metadata")
    /\ IF IsCurrent(Index(p))
       THEN Continue(p, [op[p] EXCEPT !.pc = "file states", !.count = Index(p).count])
       ELSE Return(p, "refused")
    /\ UNCHANGED <<disk, db, clock, calm, torn>>

\* Mutant: the files are compared with the states the index has by now.
AnswerQueryReloading(p) ==
    /\ At(p, "answer")
    /\ IF IsHealthy([op[p] EXCEPT !.states = Index(p).states]) THEN Answer(p)
       ELSE Return(p, "refused")
    /\ UNCHANGED <<disk, db, clock, calm, torn>>

AnswerQuery(p) ==
    /\ At(p, "answer")
    /\ IF IsHealthy(op[p]) THEN Answer(p) ELSE Return(p, "refused")
    /\ UNCHANGED <<disk, db, clock, calm, torn>>
-----------------------------------------------------------------------------
(* refresh_symbol_index, which is rebuild_symbol_index.                    *)

\* Mutant: the provenance of the index is not compared.
ValidateIndexVersion(p) ==
    /\ At(p, "validate")
    /\ IF Index(p).schema \in {"missing", "current"}
       THEN Continue(p, [op[p] EXCEPT !.pc = "collect"])
       ELSE Return(p, "refused")
    /\ UNCHANGED <<disk, db, clock, calm, torn>>

ValidateIndex(p) ==
    /\ At(p, "validate")
    /\ IF Index(p).schema = "missing" \/ IsCurrent(Index(p))
       THEN Continue(p, [op[p] EXCEPT !.pc = "collect"])
       ELSE Return(p, "refused")
    /\ UNCHANGED <<disk, db, clock, calm, torn>>

Collect(p) ==
    /\ At(p, "collect")
    /\ \/ \E found \in Scans(op[p].db, op[p].limit) :
            Continue(p, [op[p] EXCEPT !.pc = "tables", !.found = found])
       \/ /\ Scans(op[p].db, op[p].limit) = {}
          /\ Return(p, "refused")
    /\ UNCHANGED <<disk, db, clock, calm, torn>>

\* Opening the database creates the file.
EnsureTables(p) ==
    /\ At(p, "tables")
    /\ db' = [db EXCEPT ![op[p].db] = IF @.schema = "missing" THEN Unfinished ELSE @]
    /\ Continue(p, [op[p] EXCEPT !.pc = "stored states"])
    /\ UNCHANGED <<disk, clock, calm, torn>>

LoadStoredStates(p) ==
    /\ At(p, "stored states")
    /\ Continue(p, [op[p] EXCEPT !.pc = "stored symbols", !.states = Index(p).states])
    /\ UNCHANGED <<disk, db, clock, calm, torn>>

LoadStoredSymbols(p) ==
    /\ At(p, "stored symbols")
    /\ Continue(p, [op[p] EXCEPT !.pc = "read", !.rows = Index(p).rows])
    /\ UNCHANGED <<disk, db, clock, calm, torn>>

\* A file that has gone since the scan cannot be read.
ReadSources(p) ==
    /\ At(p, "read")
    /\ IF \A f \in op[p].found : disk[f] # Absent
       THEN Continue(p, [op[p] EXCEPT !.pc = "persist",
                                      !.now = [f \in Files |-> IF f \in op[p].found
                                                               THEN disk[f] ELSE Absent]])
       ELSE Return(p, "failed")
    /\ UNCHANGED <<disk, db, clock, calm, torn>>

\* A file is analysed again unless its fingerprint is the stored one and it
\* has stored symbols.
Reuses(call, f) == call.states[f] = call.now[f] /\ call.rows[f] # Absent

RowsOf(call) ==
    [f \in Files |->
        IF f \notin call.found THEN Absent
        ELSE IF Reuses(call, f) THEN call.rows[f]
        ELSE IF Reach[call.now[f]] = 0 THEN Absent
        ELSE [text |-> call.now[f], current |-> TRUE]]

\* Mutant: files without symbols get no state.
PersistFilesWithSymbols(p) ==
    /\ At(p, "persist")
    /\ LET kept == {f \in Files : RowsOf(op[p])[f] # Absent}
       IN  Commit(p, [schema |-> "current", provenance |-> TRUE, count |-> Cardinality(kept),
                      states |-> [f \in Files |-> IF f \in kept THEN op[p].now[f] ELSE Absent],
                      rows |-> RowsOf(op[p])])
    /\ IF op[p].kind = "migrate"
       THEN Continue(p, [Ended(op[p], "none") EXCEPT !.pc = "metadata"])
       ELSE Return(p, "refreshed")
    /\ UNCHANGED <<disk, clock, calm>>

\* One transaction replaces what the index holds.
Persist(p) ==
    /\ At(p, "persist")
    /\ Commit(p, [schema |-> "current", provenance |-> TRUE,
                  count |-> Cardinality(op[p].found),
                  states |-> op[p].now, rows |-> RowsOf(op[p])])
    /\ IF op[p].kind = "migrate"
       THEN Continue(p, [Ended(op[p], "none") EXCEPT !.pc = "metadata"])
       ELSE Return(p, "refreshed")
    /\ UNCHANGED <<disk, clock, calm>>
-----------------------------------------------------------------------------
(* migrate_symbol_index: checks, one transaction, a rebuild, an inspection.*)

\* Only an old index goes on, and only one whose rows still lie in its files.
Preflight(p) ==
    /\ At(p, "preflight")
    /\ IF /\ Index(p).schema = "old"
          /\ Index(p).count = Cardinality(Stored(Index(p).states))
          /\ PathsAreValid(Index(p).states, Index(p).rows)
       THEN Continue(p, [op[p] EXCEPT !.pc = "recheck"])
       ELSE Return(p, "refused")
    /\ UNCHANGED <<disk, db, clock, calm, torn>>

Recheck(p) ==
    /\ At(p, "recheck")
    /\ IF Index(p).schema = "old"
       THEN Continue(p, [op[p] EXCEPT !.pc = "schema"])
       ELSE Return(p, "refused")
    /\ UNCHANGED <<disk, db, clock, calm, torn>>

\* Mutant: a migration leaves the states of the files.
EmptiedOfNothing(index) ==
    [schema |-> "current", provenance |-> TRUE, count |-> index.count,
     states |-> index.states,
     rows |-> [f \in Files |-> IF index.rows[f] = Absent THEN Absent
                               ELSE [text |-> index.rows[f].text, current |-> FALSE]]]

\* Rows keep what the old columns hold, without what only this analysis
\* finds; no file has a state any more.
Emptied(index) ==
    [schema |-> "current", provenance |-> TRUE, count |-> index.count,
     states |-> NoSources,
     rows |-> [f \in Files |-> IF index.rows[f] = Absent THEN Absent
                               ELSE [text |-> index.rows[f].text, current |-> FALSE]]]

\* The transaction does not look at the version again.  What follows has the
\* default limit and no deadline.
MigrateSchema(p) ==
    /\ At(p, "schema")
    /\ Commit(p, Emptied(Index(p)))
    /\ Continue(p, [op[p] EXCEPT !.pc = "validate", !.deadline = 0, !.limit = DefaultMaxFiles])
    /\ UNCHANGED <<disk, clock, calm>>
-----------------------------------------------------------------------------
\* A call that meets its deadline at its next check.
Expire(p) ==
    /\ op[p] # Idle /\ op[p].pc # "done" /\ Expired(p)
    /\ Return(p, "failed")
    /\ UNCHANGED <<disk, db, clock, calm, torn>>

InspectionStep(p) ==
    InspectMetadata(p) \/ LoadFileStates(p) \/ LoadSymbols(p) \/ InspectHealth(p)
QueryStep(p) == QueryMetadata(p) \/ AnswerQuery(p)
RefreshStep(p) ==
    \/ ValidateIndex(p) \/ Collect(p) \/ EnsureTables(p) \/ LoadStoredStates(p)
    \/ LoadStoredSymbols(p) \/ ReadSources(p) \/ Persist(p)
MigrationStep(p) == Preflight(p) \/ Recheck(p) \/ MigrateSchema(p)

\* What a process with a call in flight does.
Step(p) ==
    InspectionStep(p) \/ QueryStep(p) \/ RefreshStep(p) \/ MigrationStep(p) \/ Expire(p)

\* An error at any point of a call.
Fail(p) ==
    /\ ~calm
    /\ op[p] # Idle /\ op[p].pc # "done"
    /\ Return(p, "failed")
    /\ UNCHANGED <<disk, db, clock, calm, torn>>

\* Another program changes, creates or deletes a source file.
ExternalWrite(f) ==
    /\ ~calm
    /\ \E text \in Holds[f] \ {disk[f]} : disk' = [disk EXCEPT ![f] = text]
    /\ UNCHANGED <<db, op, clock, calm, torn>>

\* Somebody deletes a database nobody has open.
DeleteDatabase(d) ==
    /\ ~calm
    /\ db[d].schema # "missing"
    /\ \A p \in Processes : op[p] # Idle => op[p].db # d
    /\ db' = [db EXCEPT ![d] = Missing]
    /\ UNCHANGED <<disk, op, clock, calm, torn>>

\* The caller takes the result, or goes away with the call.
Leave(p) ==
    /\ op[p] # Idle
    /\ Continue(p, Idle)
    /\ UNCHANGED <<disk, db, calm, torn>>

Elsewhere ==
    \/ \E f \in Files : ExternalWrite(f)
    \/ \E d \in Databases : DeleteDatabase(d)

\* Time passes or starts anew with a request; programs and failures rest.
Pass ==
    /\ clock' \in Nat
    /\ calm' \in BOOLEAN
    /\ UNCHANGED <<disk, db, op, torn>>

Next ==
    \/ \E p \in Processes :
        \/ \E kind \in Kinds, d \in Databases, limit \in 1 .. ScanCap, deadline \in Nat :
            Start(p, kind, d, limit, deadline) /\ clock' \in Nat
        \/ Leave(p) /\ clock' \in Nat
        \/ Step(p) \/ Fail(p)
    \/ Elsewhere
    \/ Pass

Spec == Init /\ [][Next]_vars
-----------------------------------------------------------------------------
TypeOK ==
    /\ disk \in Sources
    /\ db \in [Databases -> Database]
    /\ op \in [Processes -> Call \cup {Idle}]
    /\ clock \in Nat
    /\ calm \in BOOLEAN
    /\ torn \subseteq Databases

\* Rows stored under a fingerprint are what this analysis finds in the text
\* of that fingerprint: a rebuild that finds the fingerprint unchanged takes
\* whatever rows are there, and an inspection never looks (incremental.rs:68).
\* The one way to other rows is a commit between the two loads of a rebuild.
FingerprintedRowsAreDerived ==
    \A d \in Databases \ torn : IsCurrent(db[d]) =>
        \A f \in Stored(db[d].states) : db[d].rows[f] = Derived(db[d].states[f])

\* A query never answers with rows another analysis left, even one that
\* loads an index while it is migrated and rebuilt (loading.rs:67).
AnswersAreOfThisAnalysis ==
    \A p \in Processes : Finished(p) /\ op[p].says = "answered" =>
        \A f \in Files : op[p].rows[f] # Absent => op[p].rows[f].current

\* An index passes for healthy, and a query answers from it, only when it
\* has each source file of its workspace as it is: also when the workspace
\* has outgrown what a scan takes (walker.rs:117, paths.rs:257).
HealthyIndexesCoverTheirWorkspace ==
    [][\A p \in Processes :
        /\ op[p] # Idle /\ op[p].pc \in {"health", "answer"}
        /\ op'[p] # Idle /\ op'[p].says \in {"healthy", "answered"}
        => \A f \in WorkspaceOf[op[p].db] : op[p].states[f] = disk[f]]_vars

\* A refresh stores the rows of the texts it has read, with the same exception.
RefreshesStoreWhatTheyRead ==
    [][\A p \in Processes : Persist(p) /\ op[p].db \notin torn =>
        \A f \in Files : db'[op[p].db].rows[f] = Derived(op[p].now[f])]_vars

\* What an index is to its user; one with fewer states than its count has
\* been migrated and not yet rebuilt.
Stage(index) ==
    IF index.schema # "current" THEN index.schema
    ELSE IF ~index.provenance THEN "outdated"
    ELSE IF index.count # Cardinality(Stored(index.states)) THEN "emptied"
    ELSE "indexed"

Life == INSTANCE IndexLife WITH stage <- [d \in Databases |-> Stage(db[d])]

\* The program creates, upgrades and rewrites only the databases IndexLife
\* lets it, whatever calls overlap, fail or are interrupted.
LifeSpec == Life!Spec
=============================================================================
