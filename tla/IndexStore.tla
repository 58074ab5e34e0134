----------------------------- MODULE IndexStore -----------------------------
(***************************************************************************)
(* The persisted symbol index of arborist-core: one SQLite database per    *)
(* workspace, written by rebuilds and refreshes (symbols/index_queries/    *)
(* index.rs, index_store) and read by queries (symbol_index_state/         *)
(* loading.rs).  The gateway, the index watcher and command lines are      *)
(* separate processes on the same database, and other programs write the   *)
(* source files meanwhile.                                                 *)
(*                                                                         *)
(* A transaction is one step; everything between transactions interleaves: *)
(* each query of a load, each read of a source file.  A process may fail   *)
(* between any two steps: a deadline, a file it cannot read, SQLITE_BUSY,  *)
(* or a crash, which all leave what was committed and nothing else.        *)
(*                                                                         *)
(* Abstracted: a text defines at most one symbol, and either imports the   *)
(* names it calls from one module or, defining nothing, re-exports one;    *)
(* fingerprints are the texts themselves; the graph search for dependents  *)
(* and the resolution of names each read the files at one moment.          *)
(***************************************************************************)
EXTENDS Naturals, FiniteSets

CONSTANTS
    Files,      \* source files of the workspace, numbered in the order of paths
    Names,      \* names of symbols
    Holds,      \* Holds[f]: what other programs may put at f
    Writers,    \* processes that rebuild and refresh the index
    Readers,    \* processes that query it
    Recurring,  \* may a file return to a text some process or the index knows
    Absent,     \* no file, no file_state row or no symbol rows
    NoName,     \* a text that defines no symbol
    NoFile,     \* a text that imports nothing
    NoSymbol,   \* no symbol has this id
    Idle        \* the process has no call in flight

Text == [defines: Names \cup {NoName}, calls: SUBSET Names, from: Files \cup {NoFile}]

ASSUME IndexAssumption ==
    /\ \A f \in Files : Holds[f] \subseteq Text \cup {Absent}
    /\ Absent \notin Text
    /\ NoName \notin Names
    /\ NoFile \notin Files
    /\ Recurring \in BOOLEAN
    /\ Writers \cap Readers = {}
    /\ IsFiniteSet(Files) /\ Files \subseteq Nat

\* The id of a symbol holds its file and its semantic path.
Ids == Files \X Names
Subgraph == INSTANCE RefreshSubgraph

ASSUME SentinelAssumption == NoSymbol \notin Subgraph!Symbol \cup Subgraph!Node

Sources == [Files -> Text \cup {Absent}]
NothingStored == [f \in Files |-> Absent]
EmptyGraph == [id \in Ids |-> NoSymbol]

\* absent: no database file.  incomplete: a file without all the tables or
\* without metadata.  indexed: what one transaction or more have written.
DatabasePhases == {"absent", "incomplete", "indexed"}

Database == [phase: DatabasePhases, count: Nat, states: Sources, rows: Sources,
             graph: Subgraph!Graphs]

WriterPhases == {"validate", "collect", "tables", "graph", "rows", "states",
                 "expand", "read", "return"}
ReaderPhases == {"validate", "states", "graph", "fresh", "return"}

\* count: the metadata of the index (readers), the files indexed (writers).
Call == [kind: {"rebuild", "refresh", "query"}, file: Files \cup {NoFile},
         pc: WriterPhases \cup ReaderPhases, todo: SUBSET Files, changed: SUBSET Files,
         states: Sources, was: Sources, now: Sources, graph: Subgraph!Graphs,
         count: Nat, rebuilt: Nat, reused: Nat]

VARIABLES
    disk,   \* what each file holds
    db,     \* the SQLite database
    op      \* the call each process has in flight, with its locals, or Idle

vars == <<disk, db, op>>

Processes == Writers \cup Readers
At(p, pc) == op[p] # Idle /\ op[p].pc = pc
Rebuilding(p) == op[p].kind = "rebuild"
Continue(p, call) == op' = [op EXCEPT ![p] = call]

\* Files are read in the order of their paths.
First(todo) == {f \in todo : \A g \in todo : f <= g}

Init ==
    /\ disk \in {d \in Sources : \A f \in Files : d[f] \in Holds[f]}
    /\ db = [phase |-> "absent", count |-> 0, states |-> NothingStored,
             rows |-> NothingStored, graph |-> EmptyGraph]
    /\ op = [p \in Processes |-> Idle]

-----------------------------------------------------------------------------
(* Parsing and resolution: what texts say.                                 *)

\* A file without symbols leaves no rows.
RowsOf(text) == IF text = Absent \/ text.defines = NoName THEN Absent ELSE text

RawOf(texts) ==
    [id \in Ids |->
        LET t == texts[id[1]]
        IN  IF t # Absent /\ t.defines = id[2]
            THEN [file |-> id[1], name |-> id[2], calls |-> t.calls]
            ELSE NoSymbol]

\* The module that the re-exports starting at a file lead to; a missing file
\* or a cycle leads nowhere.
Terminal(sources) ==
    LET after[n \in 0 .. Cardinality(Files)] ==
            [f \in Files |->
                IF n = 0 \/ sources[f] = Absent THEN NoFile
                ELSE IF sources[f].defines # NoName \/ sources[f].from = NoFile THEN f
                ELSE after[n - 1][sources[f].from]]
    IN  after[Cardinality(Files)]

\* What name resolves to in file f: through its import, or for a name that is
\* not imported the only other symbol of that name.
Targets(raw, sources, f, name) ==
    LET named == {g \in Files : raw[<<g, name>>] # NoSymbol}
        module == IF sources[f] = Absent \/ sources[f].from = NoFile THEN NoFile
                  ELSE Terminal(sources)[sources[f].from]
        found == IF sources[f] # Absent /\ sources[f].from # NoFile
                 THEN named \cap {module}
                 ELSE IF Cardinality(named) = 1 THEN named ELSE {}
    IN  {<<g, name>> : g \in found \ {f}}

\* Import contexts come from the files as they are when names are resolved.
Dependencies(raw, sources) ==
    [id \in Ids |->
        IF raw[id] = NoSymbol THEN {}
        ELSE UNION {Targets(raw, sources, id[1], name) : name \in raw[id].calls}]

\* The files whose imports lead to f, transitively, over files that exist.
Dependents(sources, f) ==
    LET importers(found) ==
            {g \in Files : sources[g] # Absent /\ sources[g].from \in
                              {m \in found : sources[m] # Absent}}
        after[n \in 0 .. Cardinality(Files)] ==
            IF n = 0 THEN {f} ELSE after[n - 1] \cup importers(after[n - 1])
    IN  {g \in Files : g \in after[Cardinality(Files)]}

-----------------------------------------------------------------------------
(* Calls of writers and readers.                                           *)

Started(kind, f) ==
    [kind |-> kind, file |-> f, pc |-> "validate", todo |-> {}, changed |-> {},
     states |-> NothingStored, was |-> NothingStored, now |-> NothingStored,
     graph |-> EmptyGraph, count |-> 0, rebuilt |-> 0, reused |-> 0]

BeginRebuild(p) ==
    /\ op[p] = Idle
    /\ Continue(p, Started("rebuild", NoFile))
    /\ UNCHANGED <<disk, db>>

BeginRefresh(p, f) ==
    /\ op[p] = Idle
    /\ Continue(p, Started("refresh", f))
    /\ UNCHANGED <<disk, db>>

\* An existing database must be a complete index; without one a refresh is a
\* rebuild.
ValidateWriter(p) ==
    /\ At(p, "validate")
    /\ db.phase # "incomplete"
    /\ Continue(p, IF Rebuilding(p) \/ db.phase = "absent"
                   THEN [op[p] EXCEPT !.kind = "rebuild", !.file = NoFile, !.pc = "collect"]
                   ELSE [op[p] EXCEPT !.pc = "graph"])
    /\ UNCHANGED <<disk, db>>

\* A deadline, an unreadable file, a busy database, a crash: the locals are
\* lost and nothing else.
Fail(p) ==
    /\ op[p] # Idle /\ op[p].pc # "return"
    /\ Continue(p, Idle)
    /\ UNCHANGED <<disk, db>>

Return(p) ==
    /\ At(p, "return")
    /\ Continue(p, Idle)
    /\ UNCHANGED <<disk, db>>

-----------------------------------------------------------------------------
(* A rebuild: collect the files, make sure of the tables, load what is     *)
(* stored, read every file and reuse the rows of those that did not change.*)

CollectFiles(p) ==
    /\ At(p, "collect")
    /\ Continue(p, [op[p] EXCEPT !.pc = "tables", !.todo = {f \in Files : disk[f] # Absent}])
    /\ UNCHANGED <<disk, db>>

\* Opening creates the database file, and each table is committed by itself.
EnsureTables(p) ==
    /\ At(p, "tables")
    /\ db' = IF db.phase = "absent" THEN [db EXCEPT !.phase = "incomplete"] ELSE db
    /\ Continue(p, [op[p] EXCEPT !.pc = "states"])
    /\ UNCHANGED disk

\* Of what a refresh loads (the graph, the rows, the fingerprints) a rebuild
\* needs the last two, in the other order.
LoadGraph(p) ==
    /\ p \in Writers
    /\ At(p, "graph")
    /\ Continue(p, [op[p] EXCEPT !.graph = db.graph, !.pc = "rows"])
    /\ UNCHANGED <<disk, db>>

LoadRows(p) ==
    /\ At(p, "rows")
    /\ Continue(p, [op[p] EXCEPT !.was = db.rows,
                                 !.now = IF Rebuilding(p) THEN @ ELSE db.rows,
                                 !.pc = IF Rebuilding(p) THEN "read" ELSE "states"])
    /\ UNCHANGED <<disk, db>>

LoadStates(p) ==
    /\ p \in Writers
    /\ At(p, "states")
    /\ Continue(p, [op[p] EXCEPT !.states = db.states,
                                 !.pc = IF Rebuilding(p) THEN "rows" ELSE "expand"])
    /\ UNCHANGED <<disk, db>>

\* Mutation: rows are reused whenever there are any.
ReusableAlways(call, f, text) == call.was[f] # Absent

\* Stored rows stand for a text when its fingerprint is the stored one.
Reusable(call, f, text) == call.states[f] = text /\ call.was[f] # Absent

\* A file that went missing since it was collected fails the rebuild.
ReadIncremental(p) ==
    /\ At(p, "read")
    /\ Rebuilding(p)
    /\ \E f \in First(op[p].todo) :
        LET reuse == Reusable(op[p], f, disk[f])
        IN /\ disk[f] # Absent
           /\ Continue(p, [op[p] EXCEPT
                  !.todo = @ \ {f},
                  !.states[f] = disk[f],
                  !.now[f] = IF reuse THEN op[p].was[f] ELSE RowsOf(disk[f]),
                  !.changed = @ \cup {f},
                  !.reused = IF reuse THEN @ + 1 ELSE @,
                  !.rebuilt = IF reuse THEN @ ELSE @ + 1])
    /\ UNCHANGED <<disk, db>>

-----------------------------------------------------------------------------
(* A refresh for one file: parse it and its dependents again, keep the rest.*)

\* Every symbol row belongs to an indexed file, every edge has its other end.
ValidSnapshot(graph, states) ==
    /\ \A id \in Ids : graph[id] # NoSymbol => states[id[1]] # Absent
    /\ Subgraph!Paired(graph)

ExpandRefreshFiles(p) ==
    /\ At(p, "expand")
    /\ ValidSnapshot(op[p].graph, op[p].states)
    /\ LET again == {op[p].file} \cup Dependents(disk, op[p].file)
       IN  Continue(p, [op[p] EXCEPT !.todo = again, !.changed = again, !.pc = "read"])
    /\ UNCHANGED <<disk, db>>

\* A file whose text is not the stored one is read when fingerprints are
\* compared, any other when it is parsed: one read each, in no fixed order.
ReadRefreshed(p, f) ==
    /\ At(p, "read")
    /\ ~Rebuilding(p)
    /\ f \in op[p].todo
    /\ LET known == op[p].states[f] # Absent \/ op[p].now[f] # Absent
           counted == disk[f] # Absent \/ known
       IN  Continue(p, [op[p] EXCEPT !.todo = @ \ {f},
                                     !.states[f] = disk[f],
                                     !.now[f] = RowsOf(disk[f]),
                                     !.rebuilt = IF counted THEN @ + 1 ELSE @])
    /\ UNCHANGED <<disk, db>>

-----------------------------------------------------------------------------
(* Resolution and the transaction that stores the result.  Resolution does *)
(* not look at the database, so it is part of the same step.               *)

Stored(states) == {f \in Files : states[f] # Absent}

\* To resolve a symbol of a file with imports the file is read again; one that
\* went missing fails the call.
ContextsReadable(texts, ids) ==
    \A id \in ids : disk[id[1]] = Absent => texts[id[1]].from = NoFile

\* A writer that returns keeps the statistics it reports.
Reported(call, count, reused) ==
    [Started(call.kind, NoFile) EXCEPT
        !.pc = "return", !.count = count, !.rebuilt = call.rebuilt, !.reused = reused]

PersistRebuild(p) ==
    /\ At(p, "read")
    /\ Rebuilding(p)
    /\ op[p].todo = {}
    /\ LET kept == [f \in Files |-> IF f \in op[p].changed THEN op[p].states[f] ELSE Absent]
           raw == RawOf(op[p].now)
           files == Cardinality(op[p].changed)
       IN  /\ ContextsReadable(op[p].now, Subgraph!Defined(raw))
           /\ db' = [phase |-> "indexed", count |-> files, states |-> kept,
                     rows |-> op[p].now,
                     graph |-> Subgraph!FromScratch(raw, Dependencies(raw, disk))]
           /\ Continue(p, Reported(op[p], files, op[p].reused))
    /\ UNCHANGED disk

\* Mutation: the count of files from before the refresh is kept.
RefreshedCountKept(call) == Cardinality(Stored(db.states))

\* The count is that of the file states this refresh loaded and changed.
RefreshedCount(call) == Cardinality(Stored(call.states))

\* Mutation: the difference is taken without saturating.
ReusedFilesUnchecked(call) == Cardinality(Stored(call.states)) - call.rebuilt

ReusedFiles(call) ==
    IF Cardinality(Stored(call.states)) < call.rebuilt THEN 0
    ELSE Cardinality(Stored(call.states)) - call.rebuilt

\* The rows of the files read again are replaced, impacted rows of other
\* files are updated if they are still there.
PersistRefresh(p) ==
    /\ At(p, "read")
    /\ ~Rebuilding(p)
    /\ op[p].todo = {}
    /\ LET call == op[p]
           was == RawOf(call.was)
           now == RawOf(call.now)
           deps == Dependencies(now, disk)
           result == Subgraph!Refreshed(was, now, call.graph, deps, call.changed)
           resolved == Subgraph!ImpactedIds(was, now, call.graph, call.changed)
           impacted == Subgraph!PersistenceImpacted(was, now, call.graph, deps, call.changed)
       IN  /\ ContextsReadable(call.now, resolved \cap Subgraph!Defined(now))
           /\ db' = [db EXCEPT
                  !.phase = "indexed",
                  !.count = RefreshedCount(call),
                  !.states = [f \in Files |-> IF f \in call.changed THEN call.states[f] ELSE @[f]],
                  !.rows = [f \in Files |-> IF f \in call.changed THEN call.now[f] ELSE @[f]],
                  !.graph = [id \in Ids |->
                      IF id[1] \in call.changed
                      THEN IF now[id] = NoSymbol THEN NoSymbol ELSE result[id]
                      ELSE IF id \in impacted /\ result[id] # NoSymbol /\ @[id] # NoSymbol
                      THEN result[id]
                      ELSE @[id]]]
           /\ Continue(p, Reported(call, Cardinality(Stored(call.states)), ReusedFiles(call)))
    /\ UNCHANGED disk

-----------------------------------------------------------------------------
(* A query loads the whole index, checks it, and answers from it.          *)

BeginQuery(p) ==
    /\ op[p] = Idle
    /\ Continue(p, Started("query", NoFile))
    /\ UNCHANGED <<disk, db>>

LoadCount(p) ==
    /\ At(p, "validate")
    /\ db.phase = "indexed"
    /\ Continue(p, [op[p] EXCEPT !.count = db.count, !.pc = "states"])
    /\ UNCHANGED <<disk, db>>

LoadQueryStates(p) ==
    /\ At(p, "states")
    /\ Continue(p, [op[p] EXCEPT !.states = db.states, !.pc = "graph"])
    /\ UNCHANGED <<disk, db>>

\* One query returns the rows with their edges; the checks of what was loaded
\* follow.
LoadResolved(p) ==
    /\ At(p, "graph")
    /\ op[p].count = Cardinality(Stored(op[p].states))
    /\ ValidSnapshot(db.graph, op[p].states)
    /\ Continue(p, [op[p] EXCEPT !.graph = db.graph, !.count = 0, !.pc = "fresh",
                                 !.todo = Stored(op[p].states)])
    /\ UNCHANGED <<disk, db>>

\* Mutation: a missing file is not an issue.
CheckFreshUnlessMissing(p) ==
    /\ At(p, "fresh")
    /\ \E f \in First(op[p].todo) :
        /\ disk[f] \in {op[p].states[f], Absent}
        /\ Continue(p, [op[p] EXCEPT !.todo = @ \ {f}])
    /\ UNCHANGED <<disk, db>>

CheckFresh(p) ==
    /\ At(p, "fresh")
    /\ \E f \in First(op[p].todo) :
        /\ disk[f] = op[p].states[f]
        /\ Continue(p, [op[p] EXCEPT !.todo = @ \ {f}])
    /\ UNCHANGED <<disk, db>>

ScanUnindexed(p) ==
    /\ At(p, "fresh")
    /\ op[p].todo = {}
    /\ \A f \in Files : disk[f] # Absent => op[p].states[f] # Absent
    /\ Continue(p, [op[p] EXCEPT !.pc = "return"])
    /\ UNCHANGED <<disk, db>>

-----------------------------------------------------------------------------
(* Other programs.                                                         *)

\* The texts of f that the index goes by, or a call in flight that loaded or
\* read some.
OnRecord(f) ==
    LET informed == {p \in Processes : op[p] # Idle /\ op[p].states # NothingStored}
    IN  {db.states[f]} \cup {op[p].states[f] : p \in informed}

ExternalWrite(f) ==
    \E t \in Holds[f] \ {disk[f]} :
        /\ Recurring \/ t \notin OnRecord(f)
        /\ disk' = [disk EXCEPT ![f] = t]
        /\ UNCHANGED <<db, op>>

WriterStep(p) ==
    \/ BeginRebuild(p) \/ ValidateWriter(p) \/ CollectFiles(p) \/ EnsureTables(p)
    \/ LoadGraph(p) \/ LoadRows(p) \/ LoadStates(p) \/ ExpandRefreshFiles(p)
    \/ ReadIncremental(p) \/ PersistRebuild(p) \/ PersistRefresh(p)
    \/ \E f \in Files : BeginRefresh(p, f) \/ ReadRefreshed(p, f)

ReaderStep(p) ==
    \/ BeginQuery(p) \/ LoadCount(p) \/ LoadQueryStates(p) \/ LoadResolved(p)
    \/ CheckFresh(p) \/ ScanUnindexed(p)

Next ==
    \/ \E p \in Writers : WriterStep(p)
    \/ \E p \in Readers : ReaderStep(p)
    \/ \E p \in Processes : Fail(p) \/ Return(p)
    \/ \E f \in Files : ExternalWrite(f)

Spec == Init /\ [][Next]_vars

-----------------------------------------------------------------------------
(* Properties.                                                             *)

\* The variables keep their types: in particular no statistic is negative and
\* no row of the graph outlives its symbol's id.
TypeOK ==
    /\ disk \in Sources
    /\ db \in Database
    /\ op \in [Processes -> Call \cup {Idle}]

\* What a query reports is complete: the symbols and edges are those that
\* resolving the texts it found fresh gives, although it loads the index and
\* looks at the files one by one while others write both.
AnswersAreComplete ==
    \A p \in Readers :
        At(p, "return") =>
            LET raw == RawOf(op[p].states)
            IN  op[p].graph = Subgraph!FromScratch(raw, Dependencies(raw, op[p].states))

\* An index that queries accept, whose fingerprints are those of the files, has
\* every edge of those files: a refresh resolves enough symbols again.
FreshIndexIsComplete ==
    db.phase = "indexed" /\ db.states = disk =>
        LET raw == RawOf(disk)
        IN  db.graph = Subgraph!FromScratch(raw, Dependencies(raw, disk))

\* The stored rows of a file are those of the text with the stored
\* fingerprint, so that a rebuild may reuse them.
RowsMatchFingerprints ==
    db.phase = "indexed" => \A f \in Files : db.rows[f] = RowsOf(db.states[f])

\* The indexed_files metadata counts the file_state rows, or every query
\* would refuse the index.
CountMatchesStates ==
    db.phase = "indexed" => db.count = Cardinality(Stored(db.states))

\* Dependencies and references are the two ends of the same edges, or every
\* query and refresh would refuse the index.
StoredEdgesArePaired ==
    db.phase = "indexed" => ValidSnapshot(db.graph, db.states)

-----------------------------------------------------------------------------
(* What the documentation promises and the code does not do.               *)

\* model/query_results/index_results.rs:60 "expected indexed_files to equal
\* rebuilt_files + reused_files": what a persisted refresh reports adds up.
StatisticsAddUp ==
    \A p \in Writers : At(p, "return") => op[p].rebuilt + op[p].reused = op[p].count
=============================================================================
