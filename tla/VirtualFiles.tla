---------------------------- MODULE VirtualFiles ----------------------------
(***************************************************************************)
(* The virtual file system of arborist-core (crates/arborist-core/src/vfs):*)
(* the in-memory editor buffers one gateway process keeps over files that  *)
(* other programs also write, and the symbol indexes registered with it.   *)
(*                                                                         *)
(* The gateway serves one request at a time (the Python binding is an      *)
(* unsendable class over a RefCell), so at most one call is in flight.     *)
(* What does interleave with a call is the rest of the machine: the code   *)
(* reads the same file several times during one call, and every read is a  *)
(* step of its own here, with writes of other programs between them.  Each *)
(* deadline check or fallible read is a point where the call may fail.     *)
(*                                                                         *)
(* Abstracted: a source text is an element of Sources (a missing file is   *)
(* read as the empty text, one of them); parse trees follow the text; the  *)
(* contents of a symbol index are, per file, the text last indexed.        *)
(***************************************************************************)
EXTENDS Naturals

CONSTANTS
    Paths,        \* normalized paths of source files
    Sources,      \* source texts
    Workspaces,   \* workspace roots an index can be registered for
    Covers,       \* Covers[w]: the paths inside workspace w
    Includers,    \* Includers[p]: the files re-indexed along with p
    Requests,     \* the kinds of call the client issues
    MaxEdits,     \* bound: edits in one did_change batch
    MaxVersion,   \* bound: no call that can grow a version starts above it
    NotLoaded,    \* the value of entries[p] when the map has no key p
    NotIndexed,   \* the value of indexed[w][p] when w has no file_state for p
    NoRollback,   \* the call in flight restores nothing when it fails
    Idle          \* no call is in flight

Entry == [disk_source: Sources, source: Sources, version: Nat,
          dirty: BOOLEAN, index_sync_pending: BOOLEAN]

Entries == [Paths -> Entry \cup {NotLoaded}]

\* read and open are did_open without and with a source; edit is
\* apply_buffer_edit and did_change; patch is patch_virtual_ast_node and
\* patch_commit is patch_ast_node; query is any request that analyses a
\* workspace through the buffers.
Reading  == {"read", "open"}
Sweeping == {"list", "query"}
Patching == {"patch", "patch_commit"}
Discards == {"discard", "close_discard"}
Commits  == {"commit", "close_persist"}
Closing  == {"close_persist", "close_discard"}
Kinds    == Reading \cup Sweeping \cup Patching \cup Discards \cup Commits \cup {"edit"}

Phases == {"load", "refresh", "act", "gate", "sync", "return"}

Call == [kind: Kinds, path: Paths, pc: Phases, ok: BOOLEAN, changed: BOOLEAN,
         left: Nat, sweep: SUBSET Paths, sync: SUBSET Workspaces,
         before: Entries, rollback: Entries \cup {NoRollback}]

ASSUME ConstantsAssumption ==
    /\ Covers \in [Workspaces -> SUBSET Paths]
    /\ Includers \in [Paths -> SUBSET Paths]
    /\ Requests \subseteq Kinds
    /\ MaxEdits \in Nat
    /\ MaxVersion \in Nat
    /\ NotIndexed \notin Sources

ASSUME SentinelAssumption ==
    /\ NotLoaded \notin Entry
    /\ NotLoaded \notin [base: Sources, text: Sources, version: Nat]
    /\ NoRollback \notin Entries
    /\ Idle \notin Call

VARIABLES
    disk,        \* what each path holds on disk
    entries,     \* VirtualFileSystem.entries
    registered,  \* the keys of VirtualFileSystem.symbol_indexes
    indexed,     \* the text of each file the index of a workspace reflects
    op,          \* the call in flight with its local variables, or Idle
    seen,        \* history: the texts each path held since the call began
    owed         \* history: the registered indexes that have not read p since
                 \* the open entry p last wrote it

vars == <<disk, entries, registered, indexed, op, seen, owed>>

Loaded(p) == entries[p] # NotLoaded
InFlight(pc) == op # Idle /\ op.pc = pc
CoveringIndexes(p) == {w \in registered : p \in Covers[w]}
Nothing == [p \in Paths |-> {}]

Init ==
    /\ disk \in [Paths -> Sources]
    /\ entries = [p \in Paths |-> NotLoaded]
    /\ registered = {}
    /\ indexed = [w \in Workspaces |-> [p \in Paths |-> NotIndexed]]
    /\ op = Idle
    /\ seen = Nothing
    /\ owed = Nothing

-----------------------------------------------------------------------------
(* Entries, as the buffer operations compute them.  An operator introduced *)
(* as "Mutation" is no part of the model: it is a bug its neighbour might   *)
(* have, kept to show that a property notices it.                           *)

\* The None branch of ensure_loaded_inner.
InitialEntry(onDisk, source) ==
    [disk_source |-> onDisk, source |-> source, version |-> 0,
     dirty |-> source # onDisk, index_sync_pending |-> FALSE]

\* Mutation: replacing the source of an open buffer keeps its version.
OverriddenEntryKeepsVersion(e, onDisk, source) ==
    [e EXCEPT !.disk_source = onDisk, !.source = source, !.dirty = (source # onDisk)]

\* The Some branch of ensure_loaded_inner, when the client passes a source.
OverriddenEntry(e, onDisk, source) ==
    [e EXCEPT !.disk_source = onDisk, !.source = source,
              !.version = @ + 1, !.dirty = (source # onDisk)]

\* Mutations: a refresh that does nothing, that does not ask whether the
\* entry is dirty, and that does not advance the version.
RefreshIfCleanNever(e, onDisk) == e
RefreshIfCleanAlways(e, onDisk) ==
    IF onDisk = e.disk_source THEN e
    ELSE [e EXCEPT !.disk_source = onDisk, !.source = onDisk, !.version = @ + 1, !.dirty = FALSE]
RefreshIfCleanSilently(e, onDisk) ==
    IF e.dirty \/ onDisk = e.disk_source THEN e
    ELSE [e EXCEPT !.disk_source = onDisk, !.source = onDisk]

\* A dirty entry is left alone; a clean one follows the disk.
RefreshIfClean(e, onDisk) ==
    IF e.dirty \/ onDisk = e.disk_source THEN e
    ELSE [e EXCEPT !.disk_source = onDisk, !.source = onDisk, !.version = @ + 1]

\* Mutation: any edit makes the entry dirty.
EditedEntryAlwaysDirty(e, source) ==
    [e EXCEPT !.source = source, !.version = @ + 1, !.dirty = TRUE]

\* dirty compares with the disk text the entry last read, not with the disk.
EditedEntry(e, source) ==
    [e EXCEPT !.source = source, !.version = @ + 1,
              !.dirty = (source # e.disk_source)]

\* Mutations: a discard that undoes the version count, and one that forgets
\* the pending sync together with the edits.
DiscardedEntryCountsBack(e, onDisk) ==
    [e EXCEPT !.disk_source = onDisk, !.source = onDisk, !.version = @ - 1, !.dirty = FALSE]
DiscardedEntryForgetsSync(e, onDisk) ==
    [e EXCEPT !.disk_source = onDisk, !.source = onDisk, !.version = @ + 1, !.dirty = FALSE,
              !.index_sync_pending = FALSE]

DiscardedEntry(e, onDisk) ==
    IF e.source = onDisk /\ e.disk_source = onDisk THEN e
    ELSE [e EXCEPT !.disk_source = onDisk, !.source = onDisk,
                   !.version = @ + 1, !.dirty = FALSE]

\* Mutation: the entry keeps the disk text it was based on.
PersistedEntryKeepsBase(e, pending) ==
    [e EXCEPT !.dirty = FALSE, !.index_sync_pending = pending]

\* The entry once its source is on disk, while the indexes are being synced.
PersistedEntry(e, pending) ==
    [e EXCEPT !.disk_source = IF e.dirty THEN e.source ELSE @,
              !.dirty = FALSE, !.index_sync_pending = pending]

\* Mutation: a failed sync is rolled back like any other failure.
VirtualPatchSourceNeverPersisted(e) == FALSE

\* virtual_patch_source_persisted; the entry still holds the patched source.
VirtualPatchSourcePersisted(e) == ~e.dirty /\ e.source = e.disk_source

-----------------------------------------------------------------------------
(* Starting a call.                                                        *)

\* The entries a failure restores: discard always, the others when the
\* request carries a timeout.
RollbackAtCall(kind, timed) ==
    IF kind \in Discards \/ (timed /\ kind \in Reading \cup {"list", "edit"})
    THEN entries ELSE NoRollback

\* Bound: versions stop growing.  A close that discards is always possible, as
\* it drops the version or, when it fails, restores it.
Headroom(kind) ==
    kind = "close_discard" \/ \A q \in Paths : Loaded(q) => entries[q].version < MaxVersion

Start(kind, p, timed, edits) ==
    /\ op = Idle
    /\ Headroom(kind)
    /\ op' = [kind |-> kind, path |-> p,
              pc |-> IF kind \in Sweeping THEN "refresh" ELSE "load",
              ok |-> FALSE, changed |-> FALSE, left |-> edits,
              sweep |-> IF kind \in Sweeping THEN {q \in Paths : Loaded(q)} ELSE {},
              sync |-> {}, before |-> entries,
              rollback |-> RollbackAtCall(kind, timed)]
    /\ seen' = [q \in Paths |-> {disk[q]}]
    /\ UNCHANGED <<disk, entries, registered, indexed, owed>>

BeginCall ==
    \E kind \in Requests, p \in Paths :
        \/ /\ kind \notin Patching \cup {"edit"}
           /\ \E timed \in BOOLEAN : Start(kind, p, timed, 0)
        \/ /\ kind \in Patching
           /\ Start(kind, p, FALSE, 1)
        \/ /\ kind = "edit"
           /\ \E timed \in BOOLEAN, n \in 0 .. MaxEdits : Start(kind, p, timed, n)

-----------------------------------------------------------------------------
(* The end of a call: its result, and for did_close the removal that       *)
(* follows a successful commit or discard.                                 *)

Succeed(e) ==
    /\ entries' = IF op.kind \in Closing THEN [e EXCEPT ![op.path] = NotLoaded] ELSE e
    /\ owed' = IF op.kind \in Closing THEN [owed EXCEPT ![op.path] = {}] ELSE owed
    /\ op' = [op EXCEPT !.pc = "return", !.ok = TRUE]

\* Mutation: nothing is restored.
AfterFailureKeepsAll == entries

\* What a failed call leaves behind.
AfterFailure ==
    IF \/ op.rollback = NoRollback
       \/ op.pc = "sync" /\ VirtualPatchSourcePersisted(entries[op.path])
    THEN entries ELSE op.rollback

\* Every check before the gate may fail, the write itself, and the sync of
\* an index; nothing after the last index is synced.
Fail ==
    /\ op # Idle
    /\ \/ op.pc \in {"load", "refresh", "act", "gate"}
       \/ op.pc = "sync" /\ op.sync # {}
    /\ entries' = AfterFailure
    /\ op' = [op EXCEPT !.pc = "return", !.ok = FALSE]
    /\ UNCHANGED <<disk, registered, indexed, seen, owed>>

Return ==
    /\ InFlight("return")
    /\ op' = Idle
    /\ seen' = Nothing
    /\ UNCHANGED <<disk, entries, registered, indexed, owed>>

-----------------------------------------------------------------------------
(* Loading and refreshing, shared by every call.                           *)

EnsureLoaded ==
    /\ InFlight("load")
    /\ LET p == op.path
           choices == IF op.kind = "open" THEN Sources ELSE {disk[p]}
       IN  \/ /\ Loaded(p)
              /\ op.kind # "open"
              /\ UNCHANGED entries
           \/ /\ Loaded(p)
              /\ op.kind = "open"
              /\ \E s \in choices :
                    entries' = [entries EXCEPT ![p] = OverriddenEntry(@, disk[p], s)]
           \/ /\ ~Loaded(p)
              /\ \E s \in choices :
                    entries' = [entries EXCEPT ![p] = InitialEntry(disk[p], s)]
    /\ op' = [op EXCEPT !.pc = IF op.kind \in Discards THEN "act" ELSE "refresh"]
    /\ UNCHANGED <<disk, registered, indexed, seen, owed>>

\* An edit batch and a patch keep the entry they start from; a commit
\* remembers whether the refresh changed the source.
RefreshLoaded ==
    /\ InFlight("refresh")
    /\ op.kind \notin Sweeping
    /\ LET p == op.path
           refreshed == [entries EXCEPT ![p] = RefreshIfClean(@, disk[p])]
           keeps == op.kind \in Patching \cup {"edit"} /\ op.rollback = NoRollback
       IN  /\ entries' = refreshed
           /\ op' = [op EXCEPT
                  !.pc = IF op.kind \in Commits THEN "gate" ELSE "act",
                  !.changed = op.kind \in Commits /\ refreshed # entries,
                  !.rollback = IF keeps THEN refreshed ELSE @]
    /\ UNCHANGED <<disk, registered, indexed, seen, owed>>

\* Mutation: the sweep takes the disk text whatever the entry holds.
RefreshNextDiscards(q) ==
    /\ InFlight("refresh")
    /\ q \in op.sweep
    /\ entries' = [entries EXCEPT ![q] = DiscardedEntry(@, disk[q])]
    /\ op' = [op EXCEPT !.sweep = @ \ {q}]
    /\ UNCHANGED <<disk, registered, indexed, seen, owed>>

\* Listing and workspace queries refresh every loaded entry, one at a time.
RefreshNext(q) ==
    /\ InFlight("refresh")
    /\ q \in op.sweep
    /\ entries' = [entries EXCEPT ![q] = RefreshIfClean(@, disk[q])]
    /\ op' = [op EXCEPT !.sweep = @ \ {q}]
    /\ UNCHANGED <<disk, registered, indexed, seen, owed>>

\* Mutation: the sweep may stop before the last entry.
SweepDoneEarly ==
    /\ InFlight("refresh")
    /\ op.kind \in Sweeping
    /\ op' = [op EXCEPT !.pc = "act"]
    /\ UNCHANGED <<disk, entries, registered, indexed, seen, owed>>

SweepDone ==
    /\ InFlight("refresh")
    /\ op.kind \in Sweeping
    /\ op.sweep = {}
    /\ op' = [op EXCEPT !.pc = "act"]
    /\ UNCHANGED <<disk, entries, registered, indexed, seen, owed>>

-----------------------------------------------------------------------------
(* What each kind of call then does.                                       *)

\* The snapshot, statuses or overrides are built and validated.
Report ==
    /\ InFlight("act")
    /\ op.kind \in Reading \cup Sweeping
    /\ Succeed(entries)
    /\ UNCHANGED <<disk, registered, indexed, seen>>

\* One edit of a batch.
ApplyLoadedEdit ==
    /\ InFlight("act")
    /\ op.kind = "edit"
    /\ op.left > 0
    /\ \E s \in Sources :
          entries' = [entries EXCEPT ![op.path] = EditedEntry(@, s)]
    /\ op' = [op EXCEPT !.left = @ - 1]
    /\ UNCHANGED <<disk, registered, indexed, seen, owed>>

EditsDone ==
    /\ InFlight("act")
    /\ op.kind = "edit"
    /\ op.left = 0
    /\ Succeed(entries)
    /\ UNCHANGED <<disk, registered, indexed, seen>>

\* The commit gate refuses the patch: the call succeeds with applied = false.
PatchBlocked ==
    /\ InFlight("act")
    /\ op.kind \in Patching
    /\ Succeed(entries)
    /\ UNCHANGED <<disk, registered, indexed, seen>>

PatchApplied ==
    /\ InFlight("act")
    /\ op.kind \in Patching
    /\ \E s \in Sources :
          entries' = [entries EXCEPT ![op.path] = EditedEntry(@, s)]
    /\ op' = [op EXCEPT !.pc = "gate", !.left = 0]
    /\ UNCHANGED <<disk, registered, indexed, seen, owed>>

VirtualPatchDone ==
    /\ InFlight("gate")
    /\ op.kind = "patch"
    /\ Succeed(entries)
    /\ UNCHANGED <<disk, registered, indexed, seen>>

DiscardFile ==
    /\ InFlight("act")
    /\ op.kind \in Discards
    /\ Succeed([entries EXCEPT ![op.path] = DiscardedEntry(@, disk[op.path])])
    /\ UNCHANGED <<disk, registered, indexed, seen>>

\* Mutation: a sync that failed before is not retried.
SyncNeededForgetsRetry(e) == op.changed \/ e.dirty

\* A commit syncs the indexes when its refresh changed the source, when it
\* writes, or when an earlier sync did not complete.
SyncNeeded(e) == op.changed \/ e.dirty \/ e.index_sync_pending

\* commit_loaded_file up to the index sync.  A dirty source is renamed over
\* the file whatever the file holds by now; a clean one is not written.
CommitLoadedFile ==
    /\ InFlight("gate")
    /\ op.kind \in Commits \cup {"patch_commit"}
    /\ LET p == op.path
           e == entries[p]
           pending == SyncNeeded(e)
       IN  /\ disk' = IF e.dirty THEN [disk EXCEPT ![p] = e.source] ELSE disk
           /\ seen' = [seen EXCEPT ![p] = @ \cup {disk'[p]}]
           /\ entries' = [entries EXCEPT ![p] = PersistedEntry(@, pending)]
           /\ owed' = IF e.dirty THEN [owed EXCEPT ![p] = CoveringIndexes(p)] ELSE owed
           /\ op' = [op EXCEPT !.pc = "sync",
                               !.sync = IF pending THEN CoveringIndexes(p) ELSE {}]
    /\ UNCHANGED <<registered, indexed>>

\* refresh_symbol_index_for_file on one registered index, in map order
\* (unspecified): the file and the files that include it are read again.
SyncRegisteredIndex(w) ==
    /\ InFlight("sync")
    /\ w \in op.sync
    /\ LET refreshed == ({op.path} \cup Includers[op.path]) \cap Covers[w]
       IN  /\ indexed' = [indexed EXCEPT ![w] =
                  [q \in Paths |-> IF q \in refreshed THEN disk[q] ELSE indexed[w][q]]]
           /\ owed' = [q \in Paths |-> IF q \in refreshed THEN owed[q] \ {w} ELSE owed[q]]
    /\ op' = [op EXCEPT !.sync = @ \ {w}]
    /\ UNCHANGED <<disk, entries, registered, seen>>

CommitDone ==
    /\ InFlight("sync")
    /\ op.sync = {}
    /\ Succeed([entries EXCEPT ![op.path] = [@ EXCEPT !.index_sync_pending = FALSE]])
    /\ UNCHANGED <<disk, registered, indexed, seen>>

-----------------------------------------------------------------------------
(* Registered indexes.  A rebuild reads every file of the workspace; its   *)
(* own interleavings belong to the index, not to the buffers, so here it   *)
(* is one step.                                                            *)

Rebuilt(ws) ==
    [w \in Workspaces |->
        IF w \in ws
        THEN [p \in Paths |-> IF p \in Covers[w] THEN disk[p] ELSE NotIndexed]
        ELSE indexed[w]]

RegisterSymbolIndex(w) ==
    /\ op = Idle
    /\ indexed' = Rebuilt({w})
    /\ registered' = registered \cup {w}
    /\ owed' = [p \in Paths |-> owed[p] \ {w}]
    /\ UNCHANGED <<disk, entries, op, seen>>

UnregisterSymbolIndex(w) ==
    /\ op = Idle
    /\ w \in registered
    /\ registered' = registered \ {w}
    /\ owed' = [p \in Paths |-> owed[p] \ {w}]
    /\ UNCHANGED <<disk, entries, indexed, op, seen>>

\* The rebuilds stop at the first index that fails, so any of them may have
\* been done.
RefreshRegisteredSymbolIndexes ==
    /\ op = Idle
    /\ \E ws \in SUBSET registered :
          /\ indexed' = Rebuilt(ws)
          /\ owed' = [p \in Paths |-> owed[p] \ ws]
    /\ UNCHANGED <<disk, entries, registered, op, seen>>

-----------------------------------------------------------------------------
\* Another program changes, creates or deletes a file.
ExternalWrite(p, s) ==
    /\ disk' = [disk EXCEPT ![p] = s]
    /\ seen' = IF op = Idle THEN seen ELSE [seen EXCEPT ![p] = @ \cup {s}]
    /\ UNCHANGED <<entries, registered, indexed, op, owed>>

Next ==
    \/ BeginCall
    \/ EnsureLoaded
    \/ RefreshLoaded
    \/ \E q \in Paths : RefreshNext(q)
    \/ SweepDone
    \/ Report
    \/ ApplyLoadedEdit
    \/ EditsDone
    \/ PatchBlocked
    \/ PatchApplied
    \/ VirtualPatchDone
    \/ DiscardFile
    \/ CommitLoadedFile
    \/ \E w \in Workspaces : SyncRegisteredIndex(w)
    \/ CommitDone
    \/ Fail
    \/ Return
    \/ \E w \in Workspaces : RegisterSymbolIndex(w) \/ UnregisterSymbolIndex(w)
    \/ RefreshRegisteredSymbolIndexes
    \/ \E p \in Paths, s \in Sources : ExternalWrite(p, s)

Spec == Init /\ [][Next]_vars

-----------------------------------------------------------------------------
(* Properties.                                                             *)

\* Every variable, the locals of the call in flight included, has its type.
TypeOK ==
    /\ disk \in [Paths -> Sources]
    /\ entries \in Entries
    /\ registered \subseteq Workspaces
    /\ indexed \in [Workspaces -> [Paths -> Sources \cup {NotIndexed}]]
    /\ op \in Call \cup {Idle}
    /\ seen \in [Paths -> SUBSET Sources]
    /\ owed \in [Paths -> SUBSET Workspaces]

\* An entry is marked dirty exactly when its source differs from the disk
\* text it is based on, through every edit, rollback, refresh and commit.
\* A clean flag over unsaved text would let a refresh overwrite the text.
DirtyIffUnsaved ==
    \A p \in Paths : Loaded(p) =>
        (entries[p].dirty <=> entries[p].source # entries[p].disk_source)

\* While some registered index has not read a file since its open entry wrote
\* it, that entry is still there and remembers that a sync is pending:
\* failed syncs, later edits, discards, timeouts and rollbacks included.
SyncDebtTracked ==
    \A p \in Paths : owed[p] # {} => Loaded(p) /\ entries[p].index_sync_pending

\* A commit that succeeds, at the first try or as a retry, leaves no
\* registered index behind what the buffer wrote.
CommitSettlesDebt ==
    InFlight("return") /\ op.ok /\ op.kind \in Commits \cup {"patch_commit"} =>
        (op.kind = "patch_commit" /\ op.left > 0) \/ owed[op.path] = {}

\* What a successful call reports of a clean buffer is a text the file held
\* during that call, whatever other programs wrote meanwhile.  Edits and
\* patches are left out: they compare with the disk text last read.
CleanReportsAreFresh ==
    InFlight("return") /\ op.ok /\ op.kind \notin Patching \cup {"edit"} =>
        \A p \in Paths :
            Loaded(p) /\ ~entries[p].dirty /\ (op.kind \in Sweeping \/ p = op.path) =>
                entries[p].source \in seen[p]

\* The entries as clients know them: those left by the last call that ended.
Visible == IF op = Idle \/ op.pc = "return" THEN entries ELSE op.before

\* A call that fails leaves no edit behind: a buffer that is dirty after it
\* is the one the client had before it, whole.  (An open without a timeout
\* has no rollback once it replaced the source.)
FailedCallsLeaveNoEdits ==
    InFlight("return") /\ ~op.ok /\ (op.kind = "open" => op.rollback # NoRollback) =>
        \A p \in Paths : Loaded(p) /\ entries[p].dirty => entries[p] = op.before[p]

KeepsUnsaved ==
    \A p \in Paths :
        Visible[p] # NotLoaded /\ Visible[p].dirty =>
            \/ /\ Visible'[p] # NotLoaded /\ Visible'[p].source = Visible[p].source
               /\ Visible'[p].dirty \/ Visible[p].source \in seen'[p]
            \/ /\ op'.path = p
               /\ op'.kind \in Patching \cup Discards \cup {"open", "edit", "close_persist"}
               /\ op'.kind = "close_persist" => Visible[p].source \in seen'[p]

\* Unsaved text disappears only at the client's word: by an open with a new
\* source, an edit, a patch, a discard or a close of that very file, or by
\* reaching the disk during the call.
UnsavedTextSurvives == [][KeepsUnsaved]_vars

\* What clients see of a file that stays open moves to a later version, or
\* keeps its version and source.
VersionStep ==
    \A p \in Paths :
        Visible[p] # NotLoaded /\ Visible'[p] # NotLoaded =>
            \/ Visible[p].version < Visible'[p].version
            \/ /\ Visible[p].version = Visible'[p].version
               /\ Visible[p].source = Visible'[p].source

\* While a file stays open its version never goes back between calls, and two
\* snapshots with the same version have the same source.
VersionNamesSource == [][VersionStep]_vars

\* An entry as a buffer of EditorBuffers.
View(e) ==
    IF e = NotLoaded THEN NotLoaded
    ELSE [base |-> e.disk_source, text |-> e.source, version |-> e.version]

\* Every call is atomic to the client: the entries left by ended calls behave
\* as EditorBuffers, however many reads, rollbacks and partial steps the call
\* took and whatever other programs wrote in between.
Buffers == INSTANCE EditorBuffers WITH
    Closed <- NotLoaded, buf <- [p \in Paths |-> View(Visible[p])]

CallsAreAtomic == Buffers!Spec

-----------------------------------------------------------------------------
(* What the documentation promises and the code does not do.               *)

\* docs/tools.md:715 "Registered indexes are refreshed when a committed file
\* belongs to that workspace": after a successful commit of a buffer every
\* registered index of the file's workspaces reflects a text the file held
\* during the call.  The commit compares the file with the buffer, and an earlier
\* call that loaded or refreshed the buffer has taken the change up already.
CommitRefreshesIndexes ==
    InFlight("return") /\ op.ok /\ op.kind = "commit" /\ op.before[op.path] # NotLoaded =>
        \A w \in CoveringIndexes(op.path) : indexed[w][op.path] \in seen[op.path]

\* docs/protocol.md:214 "A post-persistence index-sync error leaves the clean
\* entry open so a later commit or close can retry synchronization": an entry
\* some index still owes a sync to is not dropped.  did_close without
\* persist, the default, drops it.
SyncRetryNotDropped ==
    [][\A p \in Paths : owed[p] # {} => entries'[p] # NotLoaded]_vars

\* docs/tool-catalog.json:33907 "Patch persisted source files through Arborist
\* semantic targeting": an applied patch_ast_node puts the patched source on
\* disk.  When the patched text equals the stale disk text of a dirty entry,
\* nothing is written.
AppliedPatchReachesDisk ==
    InFlight("return") /\ op.ok /\ op.kind = "patch_commit" /\ op.left = 0 =>
        entries[op.path].source \in seen[op.path]
=============================================================================
