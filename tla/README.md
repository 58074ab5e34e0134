# Arborist: a TLA+ model of its stateful core

Arborist serves code-navigation and patching tools over JSON-RPC. A Python
gateway (`src/python/arborist_mcp`) reads one request at a time and calls a Rust
core (`src/crates/arborist-core`) through a binding (`src/crates/arborist-py`).
The core keeps editor buffers in memory and symbol indexes in SQLite files. The
files themselves, and the SQLite files, are shared with other programs:
editors, build tools, a second gateway or command line. This directory models
what is stateful in that system, checks it with TLC and proves part of it with
TLAPS.

Paths below are relative to `src/`; CORE is `crates/arborist-core/src`, PY is
`python/arborist_mcp`; section 5 leaves out CORE before files of the core.

## 1. The system

### Components

| component | state | operations | interacts with |
|---|---|---|---|
| editor buffers: CORE/vfs/buffer, CORE/vfs/state.rs | per path: disk text last read, source, tree, version, dirty, index_sync_pending | did_open / read, did_change, commit, discard, did_close, list | files on disk; registered indexes on commit |
| virtual patching: CORE/vfs/patch_context | none of its own | patch_virtual_ast_node, patch_ast_node | buffers; the patch gate |
| registered indexes: CORE/vfs/indexes.rs | workspace to database path | register, unregister, refresh all, sync on commit | the persisted index |
| workspace queries through buffers: CORE/vfs/queries | none | search, trace, read, list with overrides | refresh every loaded buffer first |
| persisted index: CORE/symbols/index_queries/index.rs, symbol_index_workspace, index_store | SQLite tables metadata, symbols, file_state | rebuild, refresh for a file, load | files on disk; other processes on the same database |
| schema and provenance: CORE/index_schema, symbol_index_state, index_migration | schema version, workspace root, counts in metadata | validate, inspect, migrate | the persisted index |
| index watch: PY/index_watch*.py | the targets, its place in the loop, `all_healthy`, the exit status; it keeps no fingerprints | inspect a target, migrate or refresh it, sleep, report, exit | inspection, migration and refresh of the persisted index |
| incremental dependency refresh: CORE/symbol_dependency/refresh.rs | none | recompute the impacted part of the graph | persisted index |
| workspace scan: CORE/workspace_scan | counters of one walk | walk with file, size and time limits | all workspace operations |
| gateway: PY/gateway*.py, jsonrpc.py, batch_tools.py, mcp_lifecycle.py | the line it works on; the deadline of a batch (the handshake keeps none) | read a line, dispatch, run a batch, answer | everything above |
| patch gate and reviews: CORE/patching, CORE/api_patch_validation | those of one call | judge a patch, bypass with a reason, trace it before and after, replay its evidence, quote its neighborhood | virtual patching; the files on disk, once per query |
| trace and neighborhood: CORE/symbol_trace, symbol_query_execution, symbol_read.rs | the queue of one search; texts read for quotes | trace a symbol, expand its neighborhood within limits, quote its nodes | workspace load; reviews |
| language front ends, per-language resolution, search, lists and summaries | none | pure functions of texts or of a loaded index | |
| schemas and catalogue: PY/tool_specs.py, tool_result_schemas.py | none | declarations | |

### Where it is hard

* **Files change under a call.** A call is not a transaction on the disk: it
  reads the same file when it loads a buffer, again when it refreshes it, again
  when an index is synced. Other programs write in between.
* **A call can fail at every deadline check.** Each operation has its own way of
  putting buffers back: some restore the map, some one entry, some only when
  the request carried a timeout, and a failed index sync after the file was
  replaced must *not* be put back.
* **Two stores move in sequence.** A commit replaces the file, then syncs every
  registered index that covers it, in the unspecified order of a hash map, and
  stops at the first failure.
* **Stale knowledge.** A buffer's `dirty` flag compares with the disk text it
  last read; an index entry compares with the fingerprint it last stored; the watch
  acts on an inspection that is over when it starts to migrate or refresh.
* **Shared databases.** SQLite transactions are atomic, but an operation spans
  several of them, and the text of the files it reads. A migration is a
  transaction that empties the index, then a rebuild in others; it may stop in
  between, and other processes see the index empty.
* **One answer, several loads.** A review judges, traces and expands in queries
  that load the workspace each for itself, and quotes read the files once more.
* **Shared time.** The calls of a batch have one deadline. What is left of it is
  computed before each call, in whole milliseconds.

### What makes each component correct

* Buffers: unsaved text is lost only at the client's word; a clean buffer that
  is reported is what the file held during the call; versions identify
  snapshots; a failed call leaves no edit; every call looks atomic.
* Registered indexes: what a buffer wrote reaches every registered index, or
  the buffer remembers that it has not.
* Persisted index: what it says of a file is what one text of that file says;
  symbols, fingerprints and counts agree; an interrupted operation leaves the
  old index or the new one.
* Life cycle: what an interrupted operation leaves, a later one repairs or
  refuses, and no query takes it for an index. An index that passes for healthy
  has every source file of its workspace.
* Watch: once files stop changing, the index catches up and is left alone.
* Gateway: each request has one answer, in order; a batch only reads, and its
  calls end with it.
* Dependency refresh: the result equals a rebuild from nothing.
* Neighborhood: the nearest part of what is reachable, with all the edges in it,
  and never one that its own checks refuse.
* Reviews: what an answer says of one symbol in several places agrees, and a
  good patch is not refused for what the answer looks like.

## 2. What is modelled

### VirtualFiles: buffers, patches, registered indexes

`VirtualFiles.tla` models one gateway process. Its state:

| variable | code |
|---|---|
| `disk` | the files, as `read_virtual_disk_source` reads them (missing is the empty text) |
| `entries` | `VirtualFileSystem.entries` |
| `registered` | the keys of `VirtualFileSystem.symbol_indexes` |
| `indexed` | per workspace and file, the text the persisted index reflects |
| `op` | the call in flight: its kind, its program counter, its locals |
| `seen`, `owed` | history: the texts each file held during the call; the indexes that have not read what a buffer wrote |

The binding is an unsendable class over a `RefCell` and the gateway loop is
single-threaded, so at most one call is in flight (`op`). Within it each disk
read is a step: `EnsureLoaded`, `RefreshLoaded` (one buffer), `RefreshNext`
(each buffer of a sweep), then the action of the kind of call, for a commit
`CommitLoadedFile` (the rename) and one `SyncRegisteredIndex` per index, in any
order. `ExternalWrite` may come between any two of them, and `Fail` wherever
the code has a deadline check or a fallible read. `AfterFailure` and
`RollbackAtCall` say what each kind of call restores; the response is the
`return` phase, where properties look at what the client is told.

Abstractions: a text is a model value; parsing is a function of the text and
left out; an edit may produce any text; the patch gate is a choice between
applied and blocked; a rebuild of an index is one step.

`EditorBuffers.tla` is the abstract specification: buffers with a base, a text
and a version, and calls that are atomic. `CallsAreAtomic` says that
`VirtualFiles`, seen at the ends of calls, implements it.

Operators introduced as *Mutation* in a module are not part of the model. Each
is a bug the definition beside it might have; replacing the definition by it
makes the named property fail, which shows that the property is about that
code.

### IndexStore and RefreshSubgraph: the persisted index

`IndexStore.tla` models one workspace and its SQLite database, shared by
processes: the gateway, the watcher, command lines. Its state:

| variable | code |
|---|---|
| `disk` | what each source file holds, or `Absent` |
| `db` | the database: no file, tables without metadata, or an index; the `indexed_files` metadata, the `file_state` rows, the `symbols` rows (parsed part and edges) |
| `op` | per process, the call in flight with its locals, or `Idle` |

A rebuild (`symbols/index_queries/index.rs:66`, `incremental.rs:34`) validates,
collects the files, ensures the tables, loads fingerprints and rows, reads
every file, resolves and replaces everything in one transaction. A refresh for
a file (`index.rs:167`) validates, loads edges, rows and fingerprints, reads
the file and its dependents, resolves the symbols it believes impacted and
updates in one transaction. A query (`symbol_index_state/loading.rs:55`) loads
with separate statements, validates, then compares every file with its
fingerprint. Each statement or file read is a step, each transaction is one
step, and between any two steps other processes run, other programs write
files, and the call may fail; a crash is a failure of which nobody hears.

What a text says is abstracted to the symbol it defines, the names that symbol
calls, and the module it imports them from or re-exports. Resolution follows
imports and re-exports, and takes the only symbol of a name that is not
imported. Fingerprints are the texts (no hash collisions). The search for
dependents and the resolution read all the files at one moment, which hides
only mixtures of texts within one call.

`RefreshSubgraph.tla` holds the pure part: which symbols a refresh resolves
again, which references it recomputes, which rows it updates, and the graph
resolved from nothing to compare with.

`Recurring = FALSE` assumes that a file never returns to a text that the index
or a call in flight knows. Without it freshness by fingerprint shows little: a
file read while it held another text, and then put back, looks as if nothing
happened (`Recurring = TRUE` violates `AnswersAreComplete` with one writer).

### IndexLife and IndexLifecycle: versions, provenance, migration

`IndexStore` is about one healthy schema and edges. `IndexLifecycle.tla` is
about whole databases: several of them, each for a workspace, and what any call
finds there: no file, tables without an index, another program's file, an index
of a version that is unknown, old or current, written by this build's analysis
or by another. `Leftover` says which contents that may be. Its state:

| variable | code |
|---|---|
| `disk` | what each source file holds, or `Absent` |
| `db` | per database: schema version, provenance, `indexed_files`, the `file_state` rows, the `symbols` rows |
| `op` | per process the call in flight: kind, database, file limit, deadline, program counter, locals |
| `clock` | time as calls with a deadline see it |
| `calm` | no other program writes and nothing fails any more (for "once changes stop") |
| `torn` | history: the databases of which a rebuild loaded states and rows with a commit between the two |

Four kinds of calls run step by step: `inspect` (CORE/index_migration/plan.rs),
`query` (the load before every answer from an index), `refresh`, and `migrate`
(checks, the schema transaction, a rebuild, an inspection). A transaction is one
step, and so is each group of reads between two of which another process may
commit. Any step may fail; a call with a deadline ends at the first check past it.
A scan that meets more files than its limit has no result.

Abstractions: fingerprints are the texts. The rows of a file are the text they
were derived from and whether this build's analysis derived them, which is what
tells a migrated row from a rebuilt one. The old versions the program migrates
are one. A call sees the files of its workspace at one moment; `IndexStore` has
them read one by one, and has the edges.

A rebuild loads the stored states and the stored rows with two statements
(`incremental.rs:47`, `:49`), and any other process may commit between them. The
model has those schedules. What the rebuild then stores may be rows of one text
under the fingerprint of another (section 5), so a commit at that place puts the
database into `torn`, and the two properties about stored rows,
`FingerprintedRowsAreDerived` and `RefreshesStoreWhatTheyRead`, are about the
databases outside it: they say that this is the only way to such rows.
No action reads `torn`.

One constant assumes something of schedules: `OneMigration`, that no two
migrations overlap. Without it the code does what section 5 says; each theorem
that needs it names it.

`IndexLife.tla` is the abstract specification: which database files the program
creates, upgrades and rewrites. `LifeSpec` says that `IndexLifecycle` implements
it under the mapping `Stage`.

### IndexWatch, Gateway and System

`IndexWatch.tla` is the command `arborist-index-watch`: `watch` has its options
(a loop, one pass, either as a dry run, `--check`), its targets, its place among
them, and its exit status. An action reads what the last call reported and
starts the next or goes on; an error ends the command. The report of an
inspection is checked before anything is made of it (`Inspected`, `RejectResult`):
it must count as many indexed files as stored states, which it does not after an
interrupted migration, and then the watch exits (section 5). It may be interrupted
anywhere and started again. `--timeout-ms` is left out, as any step may fail.

`Gateway.tla` is the gateway on its standard input: lines that are blank, not
UTF-8, no request, a method that answers at once, a call of a tool on an index, or
a batch of such calls. The input is decoded a chunk at a time, so bytes that are
not UTF-8 may take lines with them that come before and were not yet read
(`ReadGarbled`). The clock counts ticks, `PerMs` of them in a millisecond, so that
the rounding of what is left of a batch shows. The lines it has answered are kept
as `server.answers`. Tools on buffers are `VirtualFiles`.

`System.tla` composes the two as processes of `IndexLifecycle`, with whatever
else writes files and deletes databases. A step of one is a step of the database
model with the other unchanged. `MCSystem.tla` gives it two nested workspaces.

**Fairness.** `SystemSpec` assumes weak fairness of what the watch and of what the
gateway do by themselves, and nothing else: the operating system runs a process
that can go on, and no call waits for another process. Only `OneMigration` puts a
step off, the start of a migration while another is under way. Nothing makes other
programs, failures, interrupts, restarts or the end of a pause between them
happen, and the liveness properties hold whether or not they do. Only `CalmDown`
lets `calm` become true, never by force, and the properties that need quiet say so
as a premise.

### Neighborhood and PatchReview

`Neighborhood.tla` is the expansion of a symbol
(CORE/symbol_trace/neighborhood.rs): the queue, the limits on depth and on nodes,
the edges, and the checks of the result (CORE/model/query_results.rs). A graph is
what the resolution wrote, two lists for each symbol. The nodes that were not
popped yet are the queue, since the code pushes a node to both at once. A list
never names the symbol it belongs to (`NoSelf`): resolution leaves it out
(CORE/symbol_dependency/resolution/references.rs:298, `:326`), and the check of
the result refuses edges from a symbol to itself. An action pops a node or follows
one edge. `Within` is the reference: the symbols at most n steps away, with no
queue.

`PatchReview.tla` is one call of `validate_patch_with_{trace,graph,neighborhood,
discovery}_context` or of `read_symbol_discovery_context`. Its state:

| variable | code |
|---|---|
| `disk` | the files |
| `review` | the tool, the patch, the direction, whether a bypass reason is given |
| `stage`, `loaded` | which of its queries the call is at, and the texts that query has read |
| `gate`, `baseline`, `trace`, `decision` | `commit_gate` with its evidence, the two traces, the outcome of the replay |
| `cache`, `reads` | `source_cache`, the quotes |

plus the variables of `Neighborhood`. Each file a query reads is a step
(`ReadFile`), and so is each quote; other programs write in between
(`ExternalWrite`), and any step may fail. `Stages` says which queries a tool
makes and which of them share a load.

Abstractions: a text is the sequence of its definitions, and the place of a
definition in it stands for its byte range. The resolution sees every name that
is defined, as in C files that include each other; evidence is found as in C
(CORE/patching/c_validation/accessibility.rs), in the included files on disk, and
names a local, which is patch scope, or a definition. What the resolvers read
again to find imports is taken not to change. A patch that does not parse is
one flag. One call is a whole behaviour, as a call leaves nothing behind.

`FairReviewSpec` assumes weak fairness of the steps of the call and of nothing
else: the call runs in its own thread and waits for nobody.

### Runs

| run | instance | checks |
|---|---|---|
| sync_one_file | 1 file, 3 texts, 2 nested workspaces, batches of up to 2 edits | the type invariant, five safety invariants, two action properties and the refinement |
| two_files | 2 files that include each other, 2 texts, 1 workspace | what needs several buffers: sweeps, and syncs that re-index another file |
| index_one_writer | caller, re-exporting module, leaf; 2 or 3 contents each; one rebuilding and refreshing process, one querying | the type invariant (no statistic wraps), what queries accept is complete, the three agreements between what is stored |
| stats_refused | one file that comes and goes, one writer | a statement about a single call (section 5) |
| lost_edge | two files that call each other by name, two writers | what two refreshes from one snapshot leave (section 5) |
| deleted_barrel | the three files, the middle one deleted, one writer | what the search for dependents misses (section 5) |
| watch_and_gateway | 3 files, 3 texts, 2 nested workspaces; 21 scenarios: the watch alone in each mode, the watch beside a gateway, the gateway alone with tools, batches and broken lines; databases of every kind | types; the abstract life of databases; health; rows and answers; answers and deadlines of the gateway; four liveness properties |
| emptied_watch | an old index, a watch of it that may be interrupted | what the watch makes of an interrupted migration (section 5) |
| patch_review | 3 files, 6 symbols, texts in which a symbol moves, vanishes or starts to call the patched one; 5 patches, each tool and direction, with and without bypass; one write by another program | types; what the search finds, twice compared with a definition; gate, trace and neighborhood agree; quotes; every call ends |
| stale_commit, dropped_retry, unwritten_patch | 1 file, 3 texts, 1 workspace | three statements of the documentation the code does not keep (section 5) |

Bounds. Three texts are enough to tell apart the text a buffer is based on, the
text it has and the text another program wrote; a property that compares two of
them never needs a fourth. Two indexes let a sync fail between them. `MaxVersion`
bounds how often an entry changes while it is open (it is a guard on starting a
call, so a call in flight always completes); closing starts over, so call
sequences are not bounded. Two files need only two texts, because
`sync_one_file` covers the single-file cases. Texts, workspaces and files are
interchangeable in these instances and the properties do not single one out, so
they are symmetry sets. Every run of `VirtualFiles` and `IndexStore` checks
deadlock. They state only safety and assume no fairness.

The index runs need no bound: texts are finite and calls have no counters but
those over files. Three files in a chain are the least in which a change of one
file (what the middle one re-exports) must change an edge between two others,
and in which an edge has both ends outside the changed file. Two writers are
enough to lose an update. Files have an order in the code, so there is no
symmetry among them.

`watch_and_gateway` does not check deadlock: a watch that has exited and a
gateway at the end of its input stop. The scan limit of two files is exceeded
when the third appears, which is the file without symbols: that way a workspace
outgrows its limit, a count includes files that have no rows, and a deleted file
leaves none behind. Two texts of different length make stored byte ranges point
past a file's end. The inner workspace makes one write matter to two targets.
Two ticks in a millisecond are the least with which a rounded timeout exceeds
what is left; `MaxClock` (6) is past the longest batch deadline (2 ms, 4 ticks)
with its rounding. `MaxCalls` is 2, the longest batch tried. The scenarios are
not a product of all options: a watch and a gateway on one index meet in few
calls, as each interleaving of two calls is explored from each of their starts.

`patch_review` stops when its call has answered, so deadlock is not checked. The
patches cover what the replay tells apart: a name from a file, a local, the
symbol itself, one that a write may take away, and a symbol on both sides. One
write can fall between any two reads of a call, which is all that a property
about one call can tell; two files can change only one after the other, and no
property compares more than two loads. With `depth` 3 and 9 nodes the search
meets cycles and finds everything; with `depth` 2 and 3 nodes it runs out of
room first in one list and then in the other.

## 3. What is proved

### The buffers

`VirtualFilesProofs.tla` and, for what is said of whole calls,
`AtomicCallsProofs.tla` prove for every set of paths, texts and workspaces, every
placement of files in workspaces, every include relation and every bound:

| theorem | property |
|---|---|
| TypeCorrect | `TypeOK` |
| DirtyFlagCorrect | `DirtyIffUnsaved` |
| DebtIsTracked | `SyncDebtTracked` |
| CommitsSettle | `CommitSettlesDebt` |
| VersionsName | `VersionNamesSource` |
| FailuresLeaveNoEdits | `FailedCallsLeaveNoEdits` |
| ReportsAreFresh | `CleanReportsAreFresh` |
| UnsavedTextIsKept | `UnsavedTextSurvives` |
| CallsImplementBuffers | `CallsAreAtomic` (the refinement of `EditorBuffers`) |

The assumptions are `ConstantsAssumption` (types of the constants) and
`SentinelAssumption` (model values such as `NotLoaded` are none of the values
they stand beside, here and in `EditorBuffers`).

The argument. None of the properties is inductive, for one reason: a failing
call puts back what it kept at its start, so what holds of the entries must
hold of `op.rollback` as well, and remain true of it while the call runs.

* `TypeInv` adds to the type that a call past its loading phase works on a
  loaded entry (`WorksOnLoaded`): every operator on entries needs it.
* `DirtyInv` says every entry *and every entry kept for rollback* is coherent.
* `SyncInv` says the same of "an entry that owes a sync says so", that only
  covering indexes are owed anything, and, in the sync phase, that what is still
  owed for the file is what is still to be synced and that the entry is clean
  with its flag set. That last part is why the failure of a sync must not be
  rolled back, and `CommitSettlesDebt` is what remains of it when the phase ends.
* `VersionInv` relates entries, and rollback, to the entries before the call:
  no version is behind, and an equal version has the equal source.

A property about calls speaks of the step that ends one, when the entries the
client knew are history (`op.before`). So three more invariants say, at each place
in a call, how its entries came from those:

* `CallInv` gives them their `Shape`: in a sweep each entry is untouched until its
  turn and then refreshed at most once; in any other call all entries but one are
  untouched, and that one was loaded, refreshed, opened, edited or committed as
  far as the call has come. That a refresh and an edit happen in this order, once
  each, is why a version grows by what `EditorBuffers` says it does.
* `RollbackInv` says that what a failure restores is what was there before the call
  or, for an edit and a patch, that with the file loaded and refreshed
  (`Brought`). `FailuresLeaveNoEdits` follows, since both have no edit in them.
* `FreshInv` says which buffers the call has compared with their files by now
  (`FreshAt`): every entry a sweep has passed, and the file of any other reading
  call from its refresh on.

For the refinement, every step is a stutter of `EditorBuffers` but those that end a
call; of those there is one lemma per kind of call, which takes the entry's `Shape`
for the operation of `EditorBuffers` it amounts to.

### The refresh of a graph

`RefreshSubgraphProofs.tla` is about the operators of `RefreshSubgraph`, for
every set of ids, files and names. `Refresh` names what a refresh starts from:
tables, a graph with a node for each symbol, agreement of the tables outside the
changed files.

| theorem | says |
|---|---|
| UpdatedRowsSuffice | a row outside `PersistenceImpacted` keeps its node, so writing only those rows loses nothing |
| RefreshKeepsPairs | if the old graph has every edge at both ends, so has the new one, whatever names resolve to now |
| RefreshIsExact | if the old graph was resolved from nothing and symbols that are not impacted depend on what they did, the result is the graph resolved from nothing |

The last premise of `RefreshIsExact` is what a language's resolution rules owe
the refresh, and what deleted_barrel (section 5) shows to be missing. The
argument for all three: a symbol outside `ReferenceImpacted` is in no edge that
an impacted symbol has before or after, so both the symbols that depend on it
and what it depends on are as they were (`NodeAfterRefresh`).

### The persisted index

`IndexStoreProofs.tla` is about `IndexStore`, for every workspace, every set of
texts its files may hold and any number of readers; the first four results also
with files that return to earlier texts (`Recurring` is not constrained).

| theorem | assumes | property |
|---|---|---|
| StoreTypeCorrect | | `TypeOK` |
| OneWriterRowsMatch | `OneWriter` | `RowsMatchFingerprints` |
| OneWriterCountMatches | `OneWriter` | `CountMatchesStates` |
| OneWriterEdgesArePaired | `OneWriter` | `StoredEdgesArePaired` |
| FreshIsComplete | `OneWriter`, not `Recurring`, `ForwardersStay` | `FreshIndexIsComplete` |
| AnswersComplete | the same | `AnswersAreComplete` |

`OneWriter` says that one process at most rebuilds and refreshes. It is needed:
with two writers TLC finds `RowsMatchFingerprints` and `StoredEdgesArePaired`
violated (see lost_edge in section 5). `ForwardersStay` says that a module which
is imported and may be deleted re-exports nothing. The passing run satisfies it,
deleted_barrel is the instance that does not, and there TLC finds
`FreshIndexIsComplete` violated. So it does with `Recurring = TRUE` in the
instance of the passing run. Every one of the three is thus needed. The other
assumptions are `IndexAssumption` and `SentinelAssumption`.

The argument. The properties say that parts of the database agree, and a
transaction writes what its call has collected over many steps, so the
invariant (`StoreInv`) has to say what a call in flight has collected:

* `Consistent` is the agreement itself. That each symbol of the rows has its
  node in the graph is part of it: the refresh of the graph needs it.
* `RebuildInStep`: while a rebuild reads, the files it has read stand with the
  rows of the text it read, the others with the stored fingerprint and no rows.
  That the loaded rows are those of the loaded fingerprints is why reuse by
  fingerprint is right.
* `RefreshInStep`: what a refresh loaded is still what is stored, and its texts
  differ from the stored ones in the files it reads again and nowhere else.
* `RefreshCommits` then needs `UpdatedRowsSuffice`: the graph assembled from
  replaced, updated and untouched rows is the computed one, to which
  `RefreshKeepsPairs` applies. `RebuildCommits` rests on `ScratchIsPaired`.

`WriterCalls` (a refresh that goes on is for a file) completes the types.

The last two need more, since a refresh resolves names against the files as they
are at its end, which need not be the texts it read, and resolves only some of
the symbols. A bad edge may thus be stored, as long as a later fingerprint
check is sure to notice. The second invariant (`WholeInv`, on top of
`StoreInv`) says why it is:

* `EdgesSettled`: the stored edges of a symbol are right unless a file that its
  imports lead through has left the stored text behind. `Settled` names those
  files: a set closed under re-exports (`SameWay`), except at modules that
  neither lead on nor define what the symbol calls. An index whose fingerprints
  are those of the files settles every symbol, which gives `FreshIndexIsComplete`
  by `FreshIsWhole`.
* `Overtakes`: what a writer is about to store of a file is what is stored
  already, or the file has left the stored text. So a commit never makes an
  edge settled that was not resolved for it, unless the refresh resolves it again.
* `LeavesNoImporter`: a file that a refresh does not read imports none of those it
  reads, but for a missing one that leads nowhere. Here `ForwardersStay` is used:
  the search for dependents stops at missing files.
* `ReaderInv`: a query that has loaded fingerprints and edges in two reads holds the
  edges of those fingerprints, or there is a file yet to be checked that
  differs (`WillRefuse`). A load of no fingerprints accepts no edge either
  (`NothingIsWhole`).

`Terminal` and `Dependents` are recursive functions over the number of files. Their
equations are proved by `NaturalInduction` (`TerminalFollows`), and that the search
for dependents is closed because a set of files cannot grow more often than
there are files (`DependentsAreClosed`). `SameDependencies` then says that what a
symbol resolves to is the same in two versions of the sources that are
`SameWay` for it; `RebuildSettles` and `RefreshSettles` apply it to the two
transactions, and `WriteKeepsWhole` to a write by another program.

### The life of indexes

`IndexLifecycleProofs.tla` is about `IndexLifecycle`, for every number of files,
texts, databases and processes, every limit, every placement of workspaces and
every content a database may have at the start.

| theorem | assumes | property |
|---|---|---|
| LifecycleTypeCorrect | | `TypeOK` |
| HealthIsWhole | | `HealthyIndexesCoverTheirWorkspace` |
| AnswersAreSound | `OneMigration` | `AnswersAreOfThisAnalysis` |
| LifecycleImplementsLife | `OneMigration` | `LifeSpec` |
| FingerprintedRowsDerived | `OneMigration` | `FingerprintedRowsAreDerived` |
| RefreshesAreFaithful | `OneMigration` | `RefreshesStoreWhatTheyRead` |

The assumptions on constants are `LifecycleAssumption`, `RowAssumption` and
`IdleAssumption`: types, and that the sentinels are none of the values.

The argument, in three invariants, each on top of the one before:

* `Sound`: types, and what a call's phase says of its kind and its findings; a
  rebuild about to persist has read exactly the files it found. `HealthIsWhole`
  follows from it alone, since an inspection and a query find nothing before
  they have compared the files with what they loaded.
* `KeptInv`: what a call has validated stays true until it writes (`IndexIsKept`):
  from `validate` on an index may get newer, and no other call makes of it what
  a rebuild must not touch. And what a call has loaded at two moments is of this
  analysis at both (`LoadsAreOfThisAnalysis`): a migration empties the states
  with the same transaction that marks the rows, so rows of another analysis
  never stand beside a state, whichever of the two was loaded first.
  `Rewrites` names the ways an index changes under a call; each phase is shown
  to survive each of them.
* `PairsInv`: outside `torn`, loaded fingerprints and rows are of each other. A
  commit of another process between the two loads of a rebuild breaks that, and
  puts the database into `torn` with the same step; every other commit keeps it,
  since what it replaces was of each other and what it writes is.

### Watch and gateway

`SystemProofs.tla` is about `System`, for every watch, every input, every number
of calls in a batch, every resolution of the clock.

| theorem | assumes | property |
|---|---|---|
| SystemTypeCorrect | | `SystemTypeOK` |
| SystemImplementsLifecycle | | `Spec` of `IndexLifecycle` |
| SystemHealthIsWhole | | `HealthyIndexesCoverTheirWorkspace` |
| SystemImplementsLife | `OneMigration` | `LifeSpec` |
| CallsEndWithBatches | | `CallsEndWithTheirBatch` |
| BatchesAreReadOnly | | `BatchesWriteNothing` |
| RequestsAreAnsweredOnce | | `EachRequestIsAnsweredOnce` |

`SystemInv` ties the place of watch and gateway to the call each has in flight: a
batch runs only calls that read, at one of its positions, with a deadline not past
the batch's but for rounding, and all its calls read before the first runs. Every
step of the system is then a step or a stutter of `IndexLifecycle`, and its
theorems carry over. `AnswersInv` adds that the line being worked on has no answer
yet. The further assumptions are `WatchAssumption`, `GatewayAssumption` and
`ScenarioAssumption`.

### Neighborhood and reviews

`NeighborhoodProofs.tla` is about the search by itself, for every graph in which
no list names its own symbol, even one whose lists repeat symbols, name unknown
ones or run in circles, and every depth and number of nodes.
`PatchReviewProofs.tla` is about reviews, for every workspace, patch, limit and
number of writes.

| theorem | property |
|---|---|
| NeighborhoodAccepted, ReviewedNeighborhoodAccepted | `NeighborhoodIsAccepted` |
| NeighborhoodEdges, ReviewedNeighborhoodEdges | `EdgesAreOfTheNodes` |
| NeighborhoodIsClosed | `UntruncatedIsClosed`: unless truncated, the neighbours of each node nearer than `max_depth` are nodes |
| NearestNodes, ReviewedNearestNodes | `NodesAreTheNearest` |
| ReviewsSearch | `SearchSpec` of `Neighborhood` |
| ReviewTypeCorrect | `ReviewTypeOK` |
| ReviewQuotesAreOfOneText | `QuotesAreOfOneText` |
| ReplayConfirmsTheGate | `TraceConfirmsTheGate` |
| AnswersAgree | `TraceAndNeighborhoodAgree` |

The assumptions are those named in `PatchReview`: types of the constants, and
that the resolution writes a set of symbols as a list of them.

The argument. `SearchInv` has two parts. `Ordered`: nodes come by depth, and none
is more than one step deeper than the node being expanded, which is why
appending keeps the order. `Kept`: of the edges *followed so far*, those between
two nodes are reported once each, and one that leads elsewhere was left out for
lack of room. The hard case is a node that becomes included after an edge to it
was left out, which cannot be: once there is no room, nothing is included
(`truncated => Len(nodes) >= request.maxNodes`).

`NodesAreTheNearest` compares the search with `Within`, a recursive function of the
distance. `NearInv` says of the queue, without it, that each node was found by an
edge of a node one nearer, that no edge followed would have been a shorter way,
that a layer is begun only when the one before is complete, and that what was left
out is next to a node. `WithinUnfolds` proves that `Within` satisfies its
own equation, and two inductions over the distance (`NaturalInduction`: for *sets*
of numbers, from the well-foundedness of `<`) connect it with the depths.

`LoadInv` says that what a query has loaded is what the files held, so that each
search starts from a request, with no symbol in a list of its own
(`SearchIsARequest`), and `ReviewsSearch` follows; the theorems of the search then
hold of reviews. `QuoteInv` says that quotes are made only in the last query of a
call, of symbols of that load, and that each was cut out of the one text its file
was read from. `ReviewTypeInv` adds that a rejected patch goes no further.

For the agreement of gate, trace and neighborhood, the operators of a query are
stated again for any texts (`EvidenceIn`, `TraceIn`, `Ring`). While nothing has
been written, every load of the call is one of the same texts (`Settled`,
`LoadsSettle`), and as no write is taken back, a call that is quiet at its end was
quiet all the time (`OnceQuiet`). `AgreeInv` then says what gate, trace and the
first layer of the search are of those texts. What remains is about the texts
alone: that the evidence of the gate is what a replay finds in the trace
(`ReplayAgrees`: the two are computed from the imports and from the edges), and that
the neighbours the search starts from are the first layer it reports
(`FirstRingIsTheRing`).

### A convention

A function is updated at one argument, `[op EXCEPT ![p] = ...]`
with the whole record as its value, never at two fields of the same argument.
This version of the proof system reads two updates of one argument as two
equations about it, from which anything follows.

## 4. Plan

In this order; each step adds its module, its runs and then its theorems.

1. **Buffers** (done): `EditorBuffers`, `VirtualFiles`, `VirtualFilesProofs`.
2. **Persisted index** (done): `RefreshSubgraph`, `IndexStore`, and the proofs
   about both.
3. **Life of an index** (done): `IndexLife`, `IndexLifecycle` and its proofs,
   `IndexWatch` with its liveness.
4. **Gateway** (done): `Gateway`, and `System` with the watch beside it.
5. **Patch gate and traces** (done): `Neighborhood`, `PatchReview` and the proofs
   about both. Left: reviews through buffers and through a stored index, whose
   queries share loads in other ways, and evidence in other languages.
6. **Composition**: the commit of a buffer refreshing an index of `IndexStore`,
   with `VirtualFiles`' one-step rebuild as the abstraction.

Abstract specifications worth stating beside `EditorBuffers` and `IndexLife`: an
index as an atomic function of the workspace, with `IndexStore` refining it for
one writer.

## 5. Where the code and its documentation disagree

Each is a run whose property states the documentation, violated by the code.

* **stale_commit**: `docs/tools.md:715` "Registered indexes are refreshed when a
  committed file belongs to that workspace." A commit of a clean buffer syncs
  only when the text changed during the commit. If another program wrote the
  file and an earlier call that loaded or refreshed the buffer has taken the new
  text up, the commit succeeds and the indexes stay behind.
* **dropped_retry**: `docs/protocol.md:214` lets "a later commit or close" retry
  a failed sync. A close that does not persist (the default) discards instead
  and forgets the pending sync with the entry.
* **unwritten_patch**: `patch_ast_node` persists source files
  (`docs/tool-catalog.json:33907`). When the patched text equals the disk text
  the buffer last read, while the disk has changed since, the buffer counts as
  clean, nothing is written and the patch is reported as applied.
* **lost_edge**: `docs/tools.md:728` has queries fail closed to prevent silently
  incomplete results. Two refreshes of different files, each from the snapshot
  without the other, both commit; the edge between the files is missing and
  nothing notices. The same interleavings break `RowsMatchFingerprints` with two
  writers: a rebuild loads the new fingerprint of a file, a slower rebuild
  commits the rows of its old text, the first one loads those
  (`incremental.rs:47` and `:49` are two statements) and stores them under the
  new fingerprint, which every later rebuild then reuses.
* **deleted_barrel**: importers are refreshed with the module they import
  (`tests/persisted_index/rebuild_refresh.rs:486`), except when that module only
  re-exports and was deleted: its importers keep edges through it.
* **stats_refused**: the statistics of a refresh must satisfy
  `indexed = rebuilt + reused` (`model/query_results/index_results.rs:58`). They
  do not when deleted files outnumber the reused ones, and the call fails after
  its commit. The counts are otherwise right: `CountMatchesStates` holds.
* **emptied_watch**: `docs/tools.md:694` has the watch refresh a "current-schema
  index with freshness issues". A migration that is stopped between its schema
  transaction and its rebuild leaves an index of the current version whose
  `indexed_files` counts the states that the transaction has cleared
  (`index_schema/migration.rs:86`). The watch checks of every inspection that the
  two agree, before it looks at the advice (`index_watch_runtime.py:297`), and so
  exits with status 1 at every start, `--dry-run` and `--check` included. A
  refresh by anybody else repairs the index. `Repairable`, the premise of the
  liveness of the watch, leaves such indexes out.

Met while modelling, without a run of their own:

* Rows of one text under the fingerprint of another, as under lost_edge: when the
  file goes back to the text of the loaded fingerprint, a rebuild stores them
  for good, although `docs/tools.md:667` has it parse changed files. Every
  inspection finds the index healthy from then on. These are the databases in
  `torn`; without the exemption TLC finds `RefreshesStoreWhatTheyRead` violated.
* A first rebuild that fails after the tables were created leaves a file without
  metadata, which later rebuilds refuse as an incomplete schema, as
  `docs/tools.md:664` says they do: somebody has to delete it.
* A symbol that a patch makes both a caller and a callee of the patched one, or
  stops being both, makes the review fail: the check of its result wants no
  symbol in two lists of the impact (`model/trace_patch_results/patch_context.rs:105`),
  while the summary and `docs/tools.md:636` count distinct ones.
* A snippet is cut at the byte range the symbol had when the workspace was
  loaded, out of the file as read again later (`symbol_read.rs:97`). If the file was
  written in between, the snippet is not the symbol's. Hence the last premise in
  `QuotesAreOfOneText`.
* `impact` compares two loads, so what other programs write between them is
  listed as the effect of the patch.
* `truncated` is about room only: what lies beyond `max_depth` is left out without
  it (`symbol_trace/neighborhood.rs:41`), where `docs/tools.md:607` speaks of bounds.
* A patch that renames its symbol has no review with `impact`: the text before it
  has no symbol of the new name, and the call fails.
* With direction `callers`, the replay misses the evidence of whatever the symbol
  calls in other files and rejects the patch; a test expects that
  (`tests/patch_replay/replay/guards.rs:39`).
* A patch allowed with a bypass for an issue found before parsing (a decorator
  without its definition) is refused by the replay tool, which recomputes the
  syntax errors of the text (`api_patch_validation/replay.rs:36`).
* Two overlapping migrations. A migration looks at the version before its
  transaction and not in it (`index_schema/migration.rs:20`), so the second one
  empties the index the first has rebuilt; `docs/tools.md` has it reject current
  indexes without rewriting them. With `OneMigration = FALSE` TLC finds
  `LifeSpec` violated.
* One target that cannot be repaired ends the watch, and `--check`, before the
  targets after it (`index_watch_runtime.py:546`, `:666`); the documentation has it
  reported and left unchanged, and each target's status emitted.
* An index of an unknown version, or of this version written by another
  analysis: the inspection advises a rebuild (`index_migration/plan.rs:69`, `:85`), and
  the rebuild refuses it (`symbols/index_queries/index.rs:90`).
* An old index whose files have become shorter: the migration refuses it for its
  byte ranges (`symbol_index_state/paths.rs:184`), the rebuild for its version.
* The migration that the documentation describes is from versions 1 to 3 to 4;
  the code's is from 1 to 5 to 6. And the schema transaction does check its
  deadline (`index_schema/migration.rs:89`, `:92`, `:98`), still before the commit.
* The rebuild of a migration has the default file limit, whatever limit the
  workspace is indexed with (`symbol_index_state/migration.rs:163`).

## 6. What is not modelled, and what is only model-checked

Not modelled:

* Search, list and summary queries: filters over a loaded index.
* Reviews through buffers and through a stored index, the replay tool by itself,
  and the rules by which each language finds its evidence.
* The language front ends and per-language resolution. They are more than two
  thirds of the implementation (`symbol_dependency/resolution/references.rs` alone is
  25,000 lines): case analysis of syntax trees, each a pure function of texts.
  A model of them would repeat them. `IndexStore` keeps of them what a refresh relies on:
  a resolution that follows imports and otherwise takes the only symbol of a name.
* Result schemas, the tool catalogue and parameter checks: declarations.
* In `IndexStore`: ignored paths, buffers' overrides, several symbols with one id
  (which renames the others), and the check of byte ranges (`IndexLifecycle` has it).
* In `IndexLifecycle`: the byte limit of a scan, which is one more way to fail,
  symbolic links and skipped directories.
* In `IndexWatch` and `Gateway`: configuration files, what is printed, and the
  checks of parameters and payloads, each an error like any other.

Model-checked only: the liveness properties `WatchCatchesUp`,
`UpToDateIndexesAreOnlyInspected`, `SinglePassEnds`, `EveryLineIsServed` and
`CallsEnd`. Out of the prover's reach and for TLC alone are liveness under
fairness and whatever speaks of ENABLED. The induction theorems of the library
take an operator as a parameter, which the provers cannot instantiate; where a
recursive function is part of a property, its equation and the inductions are
proved from the well-foundedness of `<` on numbers instead. No module declares a
RECURSIVE operator.
