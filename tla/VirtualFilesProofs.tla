------------------------- MODULE VirtualFilesProofs -------------------------
(***************************************************************************)
(* Theorems about VirtualFiles, for any files, texts, workspaces and bounds.*)
(*                                                                         *)
(* Each theorem has its inductive invariant: the property, what the calls   *)
(* in flight must not forget for it to survive their next step, and the     *)
(* invariants proved before.                                               *)
(***************************************************************************)
EXTENDS VirtualFiles, TLAPS

-----------------------------------------------------------------------------
(* Type correctness.                                                       *)

\* A call works only on entries it has loaded, and a sweep only visits loaded
\* ones.
WorksOnLoaded ==
    op # Idle =>
        /\ op.kind \notin Sweeping /\ op.pc \in {"refresh", "act", "gate", "sync"}
              => Loaded(op.path)
        /\ op.pc \in {"load", "gate", "sync"} => op.kind \notin Sweeping
        /\ op.pc \in {"load", "refresh"} => \A q \in op.sweep : Loaded(q)

TypeInv == TypeOK /\ WorksOnLoaded

\* A first load yields an entry.
LEMMA InitialEntryType ==
    ASSUME NEW s \in Sources, NEW t \in Sources
    PROVE  InitialEntry(s, t) \in Entry
<1>1. (t # s) \in BOOLEAN
  OBVIOUS
<1> QED
  BY <1>1 DEF InitialEntry, Entry

\* Each way an entry is computed from another yields an entry.
LEMMA EntryTypes ==
    ASSUME NEW e \in Entry, NEW s \in Sources, NEW t \in Sources, NEW b \in BOOLEAN
    PROVE  /\ OverriddenEntry(e, s, t) \in Entry
           /\ RefreshIfClean(e, s) \in Entry
           /\ EditedEntry(e, s) \in Entry
           /\ DiscardedEntry(e, s) \in Entry
           /\ PersistedEntry(e, b) \in Entry
<1>1. /\ e.version \in Nat /\ e.version + 1 \in Nat
      /\ e.dirty = TRUE \/ e.dirty = FALSE
  BY DEF Entry
<1>2. /\ (s # t) \in BOOLEAN /\ (t # s) \in BOOLEAN
      /\ (s # e.disk_source) \in BOOLEAN
  OBVIOUS
<1>3. OverriddenEntry(e, s, t) \in Entry
  BY <1>1, <1>2, Zenon DEF OverriddenEntry, Entry
<1>4. RefreshIfClean(e, s) \in Entry
  BY <1>1 DEF RefreshIfClean, Entry
<1>5. EditedEntry(e, s) \in Entry
  BY <1>1, <1>2, Zenon DEF EditedEntry, Entry
<1>6. DiscardedEntry(e, s) \in Entry
  BY <1>1 DEF DiscardedEntry, Entry
<1>7. PersistedEntry(e, b) \in Entry
  <2>1. CASE e.dirty = TRUE
    BY <2>1 DEF PersistedEntry, Entry
  <2>2. CASE e.dirty = FALSE
    BY <2>2 DEF PersistedEntry, Entry
  <2> QED
    BY <1>1, <2>1, <2>2
<1> QED
  BY <1>3, <1>4, <1>5, <1>6, <1>7

\* Init establishes the type invariant.
LEMMA InitTypeInv == Init => TypeInv
BY ConstantsAssumption DEF Init, TypeInv, TypeOK, WorksOnLoaded, Entries, Nothing

\* The end of a call keeps the types.
LEMMA SucceedType ==
    ASSUME TypeInv, op # Idle, NEW e \in Entries, Succeed(e),
           disk' \in [Paths -> Sources], UNCHANGED <<registered, indexed, seen>>
    PROVE  TypeInv'
<1>1. op \in Call /\ op.path \in Paths
  BY DEF TypeInv, TypeOK, Call
<1>2. entries' \in Entries
  BY <1>1 DEF Succeed, Entries
<1>3. owed' \in [Paths -> SUBSET Workspaces]
  BY <1>1 DEF Succeed, TypeInv, TypeOK
<1>4. op' \in Call /\ op'.pc = "return"
  BY <1>1 DEF Succeed, Call, Phases
<1> QED
  BY <1>2, <1>3, <1>4 DEF TypeInv, TypeOK, WorksOnLoaded

\* Every step keeps the types.
LEMMA NextTypeInv ==
    ASSUME TypeInv, [Next]_vars
    PROVE  TypeInv'
<1> USE DEF TypeInv
<1>a. CASE UNCHANGED vars
  BY <1>a DEF vars, TypeOK, WorksOnLoaded, Loaded
<1>b. op # Idle => op \in Call /\ op.path \in Paths
  BY DEF TypeOK, Call
<1>1. CASE BeginCall
  <2>1. ASSUME NEW kind \in Kinds, NEW p \in Paths, NEW timed \in BOOLEAN, NEW n \in Nat,
               Start(kind, p, timed, n)
        PROVE  TypeInv'
    <3>1. RollbackAtCall(kind, timed) \in Entries \cup {NoRollback}
      BY DEF TypeOK, RollbackAtCall
    <3>2. op' \in Call
      BY <2>1, <3>1 DEF Start, Call, Phases, TypeOK
    <3>3. seen' \in [Paths -> SUBSET Sources]
      BY <2>1 DEF Start, TypeOK
    <3>4. WorksOnLoaded'
      BY <2>1 DEF Start, WorksOnLoaded, Loaded
    <3> QED
      BY <2>1, <3>2, <3>3, <3>4 DEF Start, TypeOK
  <2>2. PICK kind \in Requests, p \in Paths :
           \/ \E timed \in BOOLEAN : Start(kind, p, timed, 0)
           \/ Start(kind, p, FALSE, 1)
           \/ \E timed \in BOOLEAN, n \in 0 .. MaxEdits : Start(kind, p, timed, n)
    BY <1>1 DEF BeginCall
  <2>3. kind \in Kinds /\ \A n \in 0 .. MaxEdits : n \in Nat
    BY ConstantsAssumption
  <2>4. FALSE \in BOOLEAN /\ 0 \in Nat /\ 1 \in Nat
    OBVIOUS
  <2> QED
    BY <2>1, <2>2, <2>3, <2>4, Zenon
<1>2. CASE EnsureLoaded
  <2>1. op' \in Call
    BY <1>2, <1>b DEF EnsureLoaded, InFlight, Call, Phases
  <2>2. PICK e \in Entry : entries' = [entries EXCEPT ![op.path] = e]
    <3>1. disk[op.path] \in Sources /\ (Loaded(op.path) => entries[op.path] \in Entry)
      BY <1>2, <1>b DEF EnsureLoaded, InFlight, TypeOK, Entries, Loaded
    <3>2. CASE Loaded(op.path) /\ op.kind # "open"
      BY <1>2, <1>b, <3>1, <3>2 DEF EnsureLoaded, InFlight, TypeOK, Entries
    <3>3. CASE Loaded(op.path) /\ op.kind = "open"
      BY <1>2, <3>1, <3>3, EntryTypes DEF EnsureLoaded
    <3>4. CASE ~Loaded(op.path)
      BY <1>2, <3>1, <3>4, InitialEntryType DEF EnsureLoaded
    <3> QED
      BY <3>2, <3>3, <3>4
  <2>3. entries' \in Entries /\ entries'[op.path] # NotLoaded
    BY <1>2, <1>b, <2>2, SentinelAssumption DEF EnsureLoaded, InFlight, TypeOK, Entries
  <2>4. \A q \in Paths : Loaded(q) => entries'[q] # NotLoaded
    BY <2>2, SentinelAssumption DEF Loaded, TypeOK, Entries
  <2>5. WorksOnLoaded'
    BY <1>2, <1>b, <2>3, <2>4 DEF EnsureLoaded, InFlight, WorksOnLoaded, Loaded, Call
  <2> QED
    BY <1>2, <2>1, <2>3, <2>5 DEF EnsureLoaded, TypeOK
<1>3. CASE RefreshLoaded
  <2>1. entries[op.path] \in Entry /\ disk[op.path] \in Sources
    BY <1>3, <1>b DEF RefreshLoaded, InFlight, TypeOK, WorksOnLoaded, Loaded, Entries
  <2>2. entries' \in Entries /\ entries'[op.path] # NotLoaded
    BY <1>3, <1>b, <2>1, EntryTypes, SentinelAssumption DEF RefreshLoaded, InFlight, TypeOK, Entries
  <2>3. op' \in Call
    BY <1>3, <1>b, <2>2 DEF RefreshLoaded, InFlight, Call, Phases
  <2>4. WorksOnLoaded'
    BY <1>3, <1>b, <2>2 DEF RefreshLoaded, InFlight, WorksOnLoaded, Loaded, Call
  <2> QED
    BY <1>3, <2>2, <2>3, <2>4 DEF RefreshLoaded, TypeOK
<1>4. CASE \E q \in Paths : RefreshNext(q)
  <2>1. PICK q \in Paths : RefreshNext(q)
    BY <1>4
  <2>2. entries[q] \in Entry /\ disk[q] \in Sources
    BY <2>1 DEF RefreshNext, InFlight, TypeOK, WorksOnLoaded, Loaded, Entries
  <2>3. entries' \in Entries /\ \A r \in Paths : Loaded(r) => entries'[r] # NotLoaded
    BY <2>1, <2>2, EntryTypes, SentinelAssumption DEF RefreshNext, TypeOK, Entries, Loaded
  <2>4. op' \in Call
    BY <1>b, <2>1 DEF RefreshNext, InFlight, Call
  <2>5. WorksOnLoaded'
    BY <1>b, <2>1, <2>3 DEF RefreshNext, InFlight, WorksOnLoaded, Loaded, Call
  <2> QED
    BY <2>1, <2>3, <2>4, <2>5 DEF RefreshNext, TypeOK
<1>5. CASE SweepDone
  BY <1>5, <1>b DEF SweepDone, InFlight, Call, Phases, TypeOK, WorksOnLoaded, Loaded
<1>6. CASE Report
  BY <1>6, SucceedType DEF Report, InFlight, TypeOK
<1>7. CASE ApplyLoadedEdit
  <2>1. PICK s \in Sources : entries' = [entries EXCEPT ![op.path] = EditedEntry(@, s)]
    BY <1>7 DEF ApplyLoadedEdit
  <2>2. entries[op.path] \in Entry
    BY <1>7, <1>b DEF ApplyLoadedEdit, InFlight, TypeOK, WorksOnLoaded, Loaded, Entries, Sweeping
  <2>3. EditedEntry(entries[op.path], s) \in Entry
    BY <2>2, EntryTypes
  <2>4. entries' \in Entries /\ entries'[op.path] # NotLoaded
    BY <1>7, <1>b, <2>1, <2>3, SentinelAssumption DEF ApplyLoadedEdit, InFlight, TypeOK, Entries
  <2>5. op' \in Call
    BY <1>7, <1>b DEF ApplyLoadedEdit, InFlight, Call
  <2> QED
    BY <1>7, <1>b, <2>4, <2>5 DEF ApplyLoadedEdit, InFlight, TypeOK, Sweeping, Patching, WorksOnLoaded, Loaded, Call
<1>8. CASE EditsDone
  BY <1>8, SucceedType DEF EditsDone, InFlight, TypeOK
<1>9. CASE PatchBlocked
  BY <1>9, SucceedType DEF PatchBlocked, InFlight, TypeOK
<1>10. CASE PatchApplied
  <2>1. PICK s \in Sources : entries' = [entries EXCEPT ![op.path] = EditedEntry(@, s)]
    BY <1>10 DEF PatchApplied
  <2>2. entries[op.path] \in Entry
    BY <1>10, <1>b DEF PatchApplied, InFlight, TypeOK, WorksOnLoaded, Loaded, Entries, Sweeping, Patching
  <2>3. EditedEntry(entries[op.path], s) \in Entry
    BY <2>2, EntryTypes
  <2>4. entries' \in Entries /\ entries'[op.path] # NotLoaded
    BY <1>10, <1>b, <2>1, <2>3, SentinelAssumption DEF PatchApplied, InFlight, TypeOK, Entries
  <2>5. op' \in Call
    BY <1>10, <1>b DEF PatchApplied, InFlight, Call, Phases
  <2> QED
    BY <1>10, <1>b, <2>4, <2>5 DEF PatchApplied, InFlight, TypeOK, Sweeping, Patching, WorksOnLoaded, Loaded, Call
<1>11. CASE VirtualPatchDone
  BY <1>11, SucceedType DEF VirtualPatchDone, InFlight, TypeOK
<1>12. CASE DiscardFile
  <2>1. entries[op.path] \in Entry /\ disk[op.path] \in Sources
    BY <1>12, <1>b DEF DiscardFile, InFlight, TypeOK, WorksOnLoaded, Loaded, Entries, Sweeping, Discards
  <2> DEFINE e == [entries EXCEPT ![op.path] = DiscardedEntry(@, disk[op.path])]
  <2>2. e \in Entries
    BY <2>1, EntryTypes DEF TypeOK, Entries
  <2>3. op # Idle /\ Succeed(e) /\ UNCHANGED <<disk, registered, indexed, seen>>
    BY <1>12 DEF DiscardFile, InFlight
  <2> HIDE DEF e
  <2> QED
    BY <2>2, <2>3, SucceedType DEF TypeOK
<1>13. CASE CommitLoadedFile
  <2> DEFINE e == entries[op.path]
             pending == SyncNeeded(e)
  <2>1. e \in Entry
    BY <1>13, <1>b DEF CommitLoadedFile, InFlight, TypeOK, WorksOnLoaded, Loaded, Entries,
                       Sweeping, Commits
  <2>2. e.source \in Sources /\ pending \in BOOLEAN
    BY <2>1 DEF Entry, SyncNeeded
  <2>3. disk' \in [Paths -> Sources]
    BY <1>13, <2>2 DEF CommitLoadedFile, TypeOK
  <2>4. seen' \in [Paths -> SUBSET Sources]
    BY <1>13, <1>b, <2>3 DEF CommitLoadedFile, InFlight, TypeOK
  <2>5. entries' \in Entries /\ entries'[op.path] # NotLoaded
    BY <1>13, <1>b, <2>1, <2>2, EntryTypes, SentinelAssumption
       DEF CommitLoadedFile, InFlight, TypeOK, Entries
  <2>6. CoveringIndexes(op.path) \in SUBSET Workspaces
    BY DEF CoveringIndexes, TypeOK
  <2>7. owed' \in [Paths -> SUBSET Workspaces]
    BY <1>13, <2>6 DEF CommitLoadedFile, TypeOK
  <2>8. op' \in Call
    BY <1>13, <1>b, <2>6 DEF CommitLoadedFile, InFlight, Call, Phases
  <2> QED
    BY <1>13, <1>b, <2>3, <2>4, <2>5, <2>7, <2>8
       DEF CommitLoadedFile, InFlight, TypeOK, WorksOnLoaded, Loaded, Call
<1>14. CASE \E w \in Workspaces : SyncRegisteredIndex(w)
  <2>1. PICK w \in Workspaces : SyncRegisteredIndex(w)
    BY <1>14
  <2>2. indexed' \in [Workspaces -> [Paths -> Sources \cup {NotIndexed}]]
    BY <2>1 DEF SyncRegisteredIndex, TypeOK
  <2>3. owed' \in [Paths -> SUBSET Workspaces]
    BY <2>1 DEF SyncRegisteredIndex, TypeOK
  <2>4. op' \in Call
    BY <1>b, <2>1 DEF SyncRegisteredIndex, InFlight, Call
  <2> QED
    BY <1>b, <2>1, <2>2, <2>3, <2>4 DEF SyncRegisteredIndex, InFlight, TypeOK, WorksOnLoaded, Loaded, Call
<1>15. CASE CommitDone
  <2> DEFINE e == [entries EXCEPT ![op.path] = [@ EXCEPT !.index_sync_pending = FALSE]]
  <2>1. op # Idle /\ Succeed(e) /\ UNCHANGED <<disk, registered, indexed, seen>>
    BY <1>15 DEF CommitDone, InFlight
  <2>2. entries[op.path] \in Entry
    BY <1>15, <1>b DEF CommitDone, InFlight, TypeOK, WorksOnLoaded, Loaded, Entries
  <2>3. e \in Entries
    BY <2>2 DEF TypeOK, Entries, Entry
  <2> HIDE DEF e
  <2> QED
    BY <2>1, <2>3, SucceedType DEF TypeOK
<1>16. CASE Fail
  <2>1. AfterFailure \in Entries
    BY <1>16, <1>b DEF Fail, AfterFailure, TypeOK, Call
  <2>2. op' \in Call
    BY <1>16, <1>b DEF Fail, Call, Phases
  <2> QED
    BY <1>16, <1>b, <2>1, <2>2 DEF Fail, TypeOK, WorksOnLoaded, Call
<1>17. CASE Return
  BY <1>17 DEF Return, TypeOK, WorksOnLoaded, Nothing
<1>18. CASE \E w \in Workspaces : RegisterSymbolIndex(w)
  <2>1. PICK w \in Workspaces : RegisterSymbolIndex(w)
    BY <1>18
  <2> QED
    BY <2>1 DEF RegisterSymbolIndex, Rebuilt, TypeOK, WorksOnLoaded
<1>19. CASE \E w \in Workspaces : UnregisterSymbolIndex(w)
  <2>1. PICK w \in Workspaces : UnregisterSymbolIndex(w)
    BY <1>19
  <2> QED
    BY <2>1 DEF UnregisterSymbolIndex, TypeOK, WorksOnLoaded
<1>20. CASE RefreshRegisteredSymbolIndexes
  BY <1>20 DEF RefreshRegisteredSymbolIndexes, Rebuilt, TypeOK, WorksOnLoaded
<1>21. CASE \E p \in Paths, s \in Sources : ExternalWrite(p, s)
  BY <1>21 DEF ExternalWrite, TypeOK, WorksOnLoaded, Loaded
<1> QED
  BY <1>a, <1>1, <1>2, <1>3, <1>4, <1>5, <1>6, <1>7, <1>8, <1>9, <1>10, <1>11, <1>12,
     <1>13, <1>14, <1>15, <1>16, <1>17, <1>18, <1>19, <1>20, <1>21 DEF Next

\* Every variable keeps its type, for any number of files, workspaces and
\* requests: no interleaving makes a call use an entry that is not loaded, and
\* no version goes below zero.
THEOREM TypeCorrect == Spec => []TypeOK
<1>1. Spec => []TypeInv
  BY InitTypeInv, NextTypeInv, PTL DEF Spec
<1>2. TypeInv => TypeOK
  BY DEF TypeInv
<1> QED
  BY <1>1, <1>2, PTL

-----------------------------------------------------------------------------
(* The dirty flag.  A rollback brings entries back, so what a call keeps   *)
(* must be coherent too.                                                   *)

CoherentEntry(e) == e.dirty <=> e.source # e.disk_source
Coherent(es) == \A p \in Paths : es[p] # NotLoaded => CoherentEntry(es[p])

DirtyInv ==
    /\ Coherent(entries)
    /\ op # Idle /\ op.rollback # NoRollback => Coherent(op.rollback)

\* A first load yields a coherent entry.
LEMMA InitialEntryCoherent ==
    ASSUME NEW s \in Sources, NEW t \in Sources
    PROVE  CoherentEntry(InitialEntry(s, t))
<1>1. (t # s) \in BOOLEAN
  OBVIOUS
<1> QED
  BY <1>1 DEF InitialEntry, CoherentEntry

\* Replacing, editing, discarding and persisting yield a coherent entry;
\* refreshing keeps one.
LEMMA EntriesCoherent ==
    ASSUME NEW e \in Entry, CoherentEntry(e),
           NEW s \in Sources, NEW t \in Sources, NEW b \in BOOLEAN
    PROVE  /\ CoherentEntry(OverriddenEntry(e, s, t))
           /\ CoherentEntry(RefreshIfClean(e, s))
           /\ CoherentEntry(EditedEntry(e, s))
           /\ CoherentEntry(DiscardedEntry(e, s))
           /\ CoherentEntry(PersistedEntry(e, b))
           /\ CoherentEntry([e EXCEPT !.index_sync_pending = FALSE])
<1>1. e.dirty = TRUE \/ e.dirty = FALSE
  BY DEF Entry
<1>2. CoherentEntry(OverriddenEntry(e, s, t))
  BY DEF OverriddenEntry, CoherentEntry, Entry
<1>3. CoherentEntry(RefreshIfClean(e, s))
  BY DEF RefreshIfClean, CoherentEntry, Entry
<1>4. CoherentEntry(EditedEntry(e, s))
  BY DEF EditedEntry, CoherentEntry, Entry
<1>5. CoherentEntry(DiscardedEntry(e, s))
  BY DEF DiscardedEntry, CoherentEntry, Entry
<1>6. CoherentEntry(PersistedEntry(e, b))
  BY DEF PersistedEntry, CoherentEntry, Entry
<1>7. CoherentEntry([e EXCEPT !.index_sync_pending = FALSE])
  BY DEF CoherentEntry, Entry
<1> QED
  BY <1>2, <1>3, <1>4, <1>5, <1>6, <1>7

\* Putting a coherent entry keeps the entries coherent.
LEMMA PutCoherent ==
    ASSUME NEW es \in Entries, Coherent(es), NEW p \in Paths, NEW e, CoherentEntry(e)
    PROVE  Coherent([es EXCEPT ![p] = e])
BY DEF Coherent, Entries

\* The end of a call keeps the entries coherent.
LEMMA SucceedCoherent ==
    ASSUME TypeInv, DirtyInv, op # Idle, NEW e \in Entries, Coherent(e), Succeed(e)
    PROVE  DirtyInv'
<1>1. op \in Call /\ op.path \in Paths
  BY DEF TypeInv, TypeOK, Call
<1>2. Coherent(entries')
  BY <1>1 DEF Succeed, Coherent, Entries
<1>3. op'.rollback = op.rollback
  BY <1>1 DEF Succeed, Call
<1> QED
  BY <1>2, <1>3 DEF DirtyInv

\* Every step keeps the entries coherent, those a rollback restores included.
LEMMA NextDirtyInv ==
    ASSUME TypeInv, DirtyInv, [Next]_vars
    PROVE  DirtyInv'
<1> USE DEF TypeInv
<1>a. CASE UNCHANGED vars
  BY <1>a DEF vars, DirtyInv
<1>b. op # Idle => op \in Call /\ op.path \in Paths
  BY DEF TypeOK, Call
<1>c. entries \in Entries /\ Coherent(entries)
  BY DEF TypeOK, DirtyInv
<1>d. ASSUME op # Idle, Loaded(op.path)
      PROVE  entries[op.path] \in Entry /\ CoherentEntry(entries[op.path])
  BY <1>b, <1>c, <1>d DEF Entries, Coherent, Loaded
<1>1. CASE BeginCall
  <2>1. PICK kind \in Requests, p \in Paths, timed \in BOOLEAN, n \in Nat :
           Start(kind, p, timed, n)
    <3>1. FALSE \in BOOLEAN /\ 0 \in Nat /\ 1 \in Nat /\ \A n \in 0 .. MaxEdits : n \in Nat
      BY ConstantsAssumption
    <3> QED
      BY <1>1, <3>1, Zenon DEF BeginCall
  <2>2. entries' = entries /\ op'.rollback \in {entries, NoRollback}
    BY <2>1 DEF Start, RollbackAtCall
  <2> QED
    BY <1>c, <2>2 DEF DirtyInv
<1>2. CASE EnsureLoaded
  <2>1. op'.rollback = op.rollback /\ op # Idle
    BY <1>2, <1>b DEF EnsureLoaded, InFlight, Call
  <2>2. disk[op.path] \in Sources
    BY <1>b, <2>1 DEF TypeOK
  <2>3. Coherent(entries')
    <3>1. CASE Loaded(op.path) /\ op.kind # "open"
      BY <1>2, <1>c, <3>1 DEF EnsureLoaded
    <3>2. CASE Loaded(op.path) /\ op.kind = "open"
      <4>1. PICK s \in Sources :
               entries' = [entries EXCEPT ![op.path] = OverriddenEntry(@, disk[op.path], s)]
        BY <1>2, <3>2 DEF EnsureLoaded
      <4>2. CoherentEntry(OverriddenEntry(entries[op.path], disk[op.path], s))
        BY <1>d, <2>1, <2>2, <3>2, EntriesCoherent
      <4> QED
        BY <1>b, <1>c, <2>1, <4>1, <4>2, PutCoherent
    <3>3. CASE ~Loaded(op.path)
      <4>1. PICK s \in Sources :
               entries' = [entries EXCEPT ![op.path] = InitialEntry(disk[op.path], s)]
        BY <1>2, <2>2, <3>3 DEF EnsureLoaded
      <4>2. CoherentEntry(InitialEntry(disk[op.path], s))
        BY <2>2, InitialEntryCoherent
      <4> QED
        BY <1>b, <1>c, <2>1, <4>1, <4>2, PutCoherent
    <3> QED
      BY <3>1, <3>2, <3>3
  <2> QED
    BY <2>1, <2>3 DEF DirtyInv
<1>3. CASE RefreshLoaded
  <2>1. op # Idle /\ Loaded(op.path) /\ disk[op.path] \in Sources
    BY <1>3, <1>b DEF RefreshLoaded, InFlight, TypeOK, WorksOnLoaded
  <2>2. CoherentEntry(RefreshIfClean(entries[op.path], disk[op.path]))
    BY <1>d, <2>1, EntriesCoherent
  <2>3. Coherent(entries')
    BY <1>3, <1>b, <1>c, <2>1, <2>2, PutCoherent DEF RefreshLoaded
  <2>4. op'.rollback \in {entries', op.rollback}
    BY <1>3, <1>b DEF RefreshLoaded, InFlight, Call
  <2> QED
    BY <2>1, <2>3, <2>4 DEF DirtyInv
<1>4. CASE \E q \in Paths : RefreshNext(q)
  <2>1. PICK q \in Paths : RefreshNext(q)
    BY <1>4
  <2>2. op # Idle /\ entries[q] \in Entry /\ disk[q] \in Sources /\ CoherentEntry(entries[q])
    BY <1>c, <2>1 DEF RefreshNext, InFlight, TypeOK, WorksOnLoaded, Loaded, Entries, Coherent
  <2>3. CoherentEntry(RefreshIfClean(entries[q], disk[q]))
    BY <2>2, EntriesCoherent
  <2>4. Coherent(entries')
    BY <1>c, <2>1, <2>3, PutCoherent DEF RefreshNext
  <2>5. op'.rollback = op.rollback
    BY <1>b, <2>1, <2>2 DEF RefreshNext, Call
  <2> QED
    BY <2>2, <2>4, <2>5 DEF DirtyInv
<1>5. CASE SweepDone
  <2>1. op # Idle /\ op'.rollback = op.rollback
    BY <1>5, <1>b DEF SweepDone, InFlight, Call
  <2> QED
    BY <1>5, <2>1 DEF SweepDone, DirtyInv
<1>6. CASE Report \/ EditsDone \/ PatchBlocked \/ VirtualPatchDone
  BY <1>6, <1>c, SucceedCoherent DEF Report, EditsDone, PatchBlocked, VirtualPatchDone, InFlight
<1>7. CASE ApplyLoadedEdit \/ PatchApplied
  <2>1. PICK s \in Sources : entries' = [entries EXCEPT ![op.path] = EditedEntry(@, s)]
    BY <1>7 DEF ApplyLoadedEdit, PatchApplied
  <2>2. op # Idle /\ Loaded(op.path)
    BY <1>7 DEF ApplyLoadedEdit, PatchApplied, InFlight, WorksOnLoaded, Sweeping, Patching
  <2>3. CoherentEntry(EditedEntry(entries[op.path], s))
    BY <1>d, <2>2, EntriesCoherent
  <2>4. Coherent(entries')
    BY <1>b, <1>c, <2>1, <2>2, <2>3, PutCoherent
  <2>5. op'.rollback = op.rollback
    BY <1>7, <1>b, <2>2 DEF ApplyLoadedEdit, PatchApplied, Call
  <2> QED
    BY <2>2, <2>4, <2>5 DEF DirtyInv
<1>8. CASE DiscardFile
  <2> DEFINE d == DiscardedEntry(entries[op.path], disk[op.path])
             e == [entries EXCEPT ![op.path] = d]
  <2>1. op # Idle /\ Loaded(op.path) /\ disk[op.path] \in Sources
    BY <1>8, <1>b DEF DiscardFile, InFlight, TypeOK, WorksOnLoaded, Sweeping, Discards
  <2>2. d \in Entry /\ CoherentEntry(d)
    BY <1>d, <2>1, EntriesCoherent, EntryTypes
  <2>3. e \in Entries
    BY <1>c, <2>2 DEF Entries
  <2>4. Coherent(e)
    BY <1>b, <1>c, <2>1, <2>2, PutCoherent
  <2>5. Succeed(e)
    BY <1>8 DEF DiscardFile
  <2> QED
    BY <2>1, <2>3, <2>4, <2>5, SucceedCoherent
<1>9. CASE CommitLoadedFile
  <2> DEFINE pending == SyncNeeded(entries[op.path])
  <2>1. op # Idle /\ Loaded(op.path)
    BY <1>9 DEF CommitLoadedFile, InFlight, WorksOnLoaded
  <2>2. pending \in BOOLEAN
    BY <1>b, <1>d, <2>1 DEF SyncNeeded, Entry, Call
  <2>3. \E s \in Sources : TRUE
    BY <1>b, <2>1 DEF TypeOK
  <2>4. CoherentEntry(PersistedEntry(entries[op.path], pending))
    BY <1>d, <2>1, <2>2, <2>3, EntriesCoherent
  <2>5. Coherent(entries')
    BY <1>9, <1>b, <1>c, <2>1, <2>4, PutCoherent DEF CommitLoadedFile
  <2>6. op'.rollback = op.rollback
    BY <1>9, <1>b, <2>1 DEF CommitLoadedFile, Call
  <2> QED
    BY <2>1, <2>5, <2>6 DEF DirtyInv
<1>10. CASE CommitDone
  <2> DEFINE d == [entries[op.path] EXCEPT !.index_sync_pending = FALSE]
             e == [entries EXCEPT ![op.path] = d]
  <2>1. op # Idle /\ Loaded(op.path)
    BY <1>10 DEF CommitDone, InFlight, WorksOnLoaded
  <2>2. d \in Entry /\ CoherentEntry(d)
    BY <1>d, <2>1 DEF Entry, CoherentEntry
  <2>3. e \in Entries
    BY <1>c, <2>2 DEF Entries
  <2>4. Coherent(e)
    BY <1>b, <1>c, <2>1, <2>2, PutCoherent
  <2>5. Succeed(e)
    BY <1>10 DEF CommitDone
  <2> QED
    BY <2>1, <2>3, <2>4, <2>5, SucceedCoherent
<1>11. CASE Fail
  <2>1. op # Idle /\ op'.rollback = op.rollback
    BY <1>11, <1>b DEF Fail, Call
  <2> QED
    BY <1>11, <2>1 DEF Fail, AfterFailure, DirtyInv
<1>12. CASE Return
  BY <1>12 DEF Return, DirtyInv
<1>13. CASE \E w \in Workspaces : SyncRegisteredIndex(w)
  <2>1. op # Idle /\ entries' = entries /\ op'.rollback = op.rollback
    BY <1>13, <1>b DEF SyncRegisteredIndex, InFlight, Call
  <2> QED
    BY <2>1 DEF DirtyInv
<1>14. ASSUME \/ \E w \in Workspaces : RegisterSymbolIndex(w) \/ UnregisterSymbolIndex(w)
              \/ RefreshRegisteredSymbolIndexes
              \/ \E p \in Paths, s \in Sources : ExternalWrite(p, s)
       PROVE  DirtyInv'
  BY <1>14 DEF RegisterSymbolIndex, UnregisterSymbolIndex, RefreshRegisteredSymbolIndexes,
               ExternalWrite, DirtyInv
<1> QED
  BY <1>a, <1>1, <1>2, <1>3, <1>4, <1>5, <1>6, <1>7, <1>8, <1>9, <1>10, <1>11, <1>12,
     <1>13, <1>14 DEF Next

\* An entry is dirty exactly when its source differs from the disk text it is
\* based on: no edit, refresh, commit or rollback separates the two.
THEOREM DirtyFlagCorrect == Spec => []DirtyIffUnsaved
<1>1. Init => DirtyInv
  BY DEF Init, DirtyInv, Coherent
<1>2. DirtyInv => DirtyIffUnsaved
  BY DEF DirtyInv, DirtyIffUnsaved, Coherent, CoherentEntry, Loaded
<1> QED
  BY <1>1, <1>2, InitTypeInv, NextTypeInv, NextDirtyInv, PTL DEF Spec

-----------------------------------------------------------------------------
(* The debt to the indexes.  Besides the entries, those a rollback would   *)
(* restore must track it; a call that syncs still has every index the file *)
(* is owed to on its list, and its entry can no longer be rolled back.      *)

Tracked(es, debt) ==
    \A p \in Paths : debt[p] # {} => es[p] # NotLoaded /\ es[p].index_sync_pending

SyncInv ==
    /\ Tracked(entries, owed)
    /\ \A p \in Paths : owed[p] \subseteq CoveringIndexes(p)
    /\ op # Idle =>
        /\ op.pc \in {"load", "refresh", "act", "gate"} /\ op.rollback # NoRollback
              => Tracked(op.rollback, owed)
        /\ op.pc = "sync" =>
              /\ owed[op.path] \subseteq op.sync
              /\ op.sync \subseteq CoveringIndexes(op.path)
              /\ VirtualPatchSourcePersisted(entries[op.path])
        /\ op.pc \in {"load", "refresh", "act"} /\ op.kind \in Patching => op.left > 0
        /\ op.pc = "gate" => op.kind \in Commits \cup Patching
    /\ CommitSettlesDebt

\* Every operation on an entry but a commit leaves the pending sync alone.
LEMMA PendingKept ==
    ASSUME NEW e \in Entry, NEW s \in Sources, NEW t \in Sources
    PROVE  /\ OverriddenEntry(e, s, t).index_sync_pending = e.index_sync_pending
           /\ RefreshIfClean(e, s).index_sync_pending = e.index_sync_pending
           /\ EditedEntry(e, s).index_sync_pending = e.index_sync_pending
           /\ DiscardedEntry(e, s).index_sync_pending = e.index_sync_pending
<1>1. OverriddenEntry(e, s, t).index_sync_pending = e.index_sync_pending
  BY DEF OverriddenEntry, Entry
<1>2. RefreshIfClean(e, s).index_sync_pending = e.index_sync_pending
  BY DEF RefreshIfClean, Entry
<1>3. EditedEntry(e, s).index_sync_pending = e.index_sync_pending
  BY DEF EditedEntry, Entry
<1>4. DiscardedEntry(e, s).index_sync_pending = e.index_sync_pending
  BY DEF DiscardedEntry, Entry
<1> QED
  BY <1>1, <1>2, <1>3, <1>4

\* Putting an entry that keeps the pending sync of its predecessor keeps the
\* debt tracked.
LEMMA PutTracked ==
    ASSUME NEW es \in Entries, NEW debt, Tracked(es, debt), NEW p \in Paths, NEW e \in Entry,
           es[p] # NotLoaded => e.index_sync_pending = es[p].index_sync_pending
    PROVE  Tracked([es EXCEPT ![p] = e], debt)
BY SentinelAssumption DEF Tracked, Entries

\* A persisted entry is coherent with the disk and has the pending flag given.
LEMMA PersistedEntryPersisted ==
    ASSUME NEW e \in Entry, CoherentEntry(e), NEW b \in BOOLEAN
    PROVE  /\ VirtualPatchSourcePersisted(PersistedEntry(e, b))
           /\ PersistedEntry(e, b).index_sync_pending = b
<1>1. CASE e.dirty = TRUE
  BY <1>1 DEF PersistedEntry, VirtualPatchSourcePersisted, Entry
<1>2. CASE e.dirty = FALSE
  BY <1>2 DEF PersistedEntry, VirtualPatchSourcePersisted, CoherentEntry, Entry
<1> QED
  BY <1>1, <1>2 DEF Entry

\* The end of a call keeps the debt tracked, if what it commits is settled.
LEMMA SucceedSync ==
    ASSUME TypeInv, SyncInv, op # Idle, NEW e \in Entries, Tracked(e, owed), Succeed(e),
           UNCHANGED registered,
           op.kind \in Commits \cup {"patch_commit"} =>
               (op.kind = "patch_commit" /\ op.left > 0) \/ owed[op.path] = {}
    PROVE  SyncInv'
<1>1. op \in Call /\ op.path \in Paths /\ owed \in [Paths -> SUBSET Workspaces]
  BY DEF TypeInv, TypeOK, Call
<1>2. op' # Idle => op'.pc = "return" /\ op'.kind = op.kind /\ op'.path = op.path /\ op'.left = op.left
  BY <1>1 DEF Succeed, Call
<1>3. Tracked(entries', owed')
  BY <1>1 DEF Succeed, Tracked, Entries
<1>4. \A p \in Paths : owed'[p] \subseteq owed[p]
  BY <1>1 DEF Succeed
<1>5. \A p \in Paths : owed'[p] \subseteq CoveringIndexes(p)'
  BY <1>4 DEF SyncInv, CoveringIndexes
<1>6. CommitSettlesDebt'
  BY <1>1, <1>2, <1>4 DEF CommitSettlesDebt, InFlight
<1> QED
  BY <1>2, <1>3, <1>5, <1>6 DEF SyncInv

\* A step within a call that keeps the debt, the registrations and every
\* field of the call but those named here keeps the debt tracked.
LEMMA StepWithinCall ==
    ASSUME TypeInv, SyncInv, op # Idle,
           op.pc \in {"load", "refresh", "act"}, op'.pc \in {"refresh", "act", "gate"},
           op'.kind = op.kind, Tracked(entries', owed),
           op'.rollback # NoRollback => Tracked(op'.rollback, owed),
           op'.pc # "gate" /\ op.kind \in Patching => op'.left > 0,
           op'.pc = "gate" => op.kind \in Commits \cup Patching,
           UNCHANGED <<registered, owed>>
    PROVE  SyncInv'
BY DEF SyncInv, CommitSettlesDebt, InFlight, CoveringIndexes

\* Every step keeps the debt tracked.
LEMMA NextSyncInv ==
    ASSUME TypeInv, DirtyInv, SyncInv, [Next]_vars
    PROVE  SyncInv'
<1>a. CASE UNCHANGED vars
  BY <1>a DEF vars, SyncInv, CommitSettlesDebt, InFlight, CoveringIndexes
<1>b. op # Idle => op \in Call /\ op.path \in Paths
  BY DEF TypeInv, TypeOK, Call
<1>c. entries \in Entries /\ Tracked(entries, owed)
  BY DEF TypeInv, TypeOK, SyncInv
<1>d. ASSUME op # Idle, Loaded(op.path)
      PROVE  entries[op.path] \in Entry
  BY <1>b, <1>c, <1>d DEF Entries, Loaded
<1>e. \A p \in Paths : disk[p] \in Sources
  BY DEF TypeInv, TypeOK
<1>f. \A p \in Paths : ~Loaded(p) => owed[p] = {}
  BY <1>c DEF Tracked, Loaded
<1>1. CASE BeginCall
  <2>1. PICK kind \in Requests, p \in Paths, timed \in BOOLEAN, n \in Nat :
           Start(kind, p, timed, n) /\ (kind \in Patching => n = 1)
    <3>1. FALSE \in BOOLEAN /\ 0 \in Nat /\ 1 \in Nat /\ \A n \in 0 .. MaxEdits : n \in Nat
      BY ConstantsAssumption
    <3>2. "edit" \notin Patching
      BY DEF Patching
    <3> QED
      BY <1>1, <3>1, <3>2, Zenon DEF BeginCall
  <2>2. /\ UNCHANGED <<entries, registered, owed>>
        /\ op # Idle => FALSE
        /\ op'.rollback \in {entries, NoRollback}
        /\ op'.pc \in {"load", "refresh"}
        /\ op'.kind \in Patching => op'.left > 0
    BY <2>1 DEF Start, RollbackAtCall
  <2> QED
    BY <1>c, <2>2 DEF SyncInv, CommitSettlesDebt, InFlight, CoveringIndexes
<1>2. CASE EnsureLoaded
  <2>1. /\ op # Idle /\ op.pc = "load" /\ op'.pc \in {"refresh", "act"}
        /\ op'.kind = op.kind /\ op'.rollback = op.rollback /\ op'.left = op.left
        /\ UNCHANGED <<registered, owed>>
    BY <1>2, <1>b DEF EnsureLoaded, InFlight, Call
  <2>2. Tracked(entries', owed)
    <3>1. CASE Loaded(op.path) /\ op.kind # "open"
      BY <1>2, <1>c, <3>1 DEF EnsureLoaded
    <3>2. CASE Loaded(op.path) /\ op.kind = "open"
      <4>1. PICK s \in Sources :
               entries' = [entries EXCEPT ![op.path] = OverriddenEntry(@, disk[op.path], s)]
        BY <1>2, <3>2 DEF EnsureLoaded
      <4> DEFINE e == OverriddenEntry(entries[op.path], disk[op.path], s)
      <4>2. e \in Entry /\ e.index_sync_pending = entries[op.path].index_sync_pending
        BY <1>b, <1>d, <1>e, <2>1, <3>2, EntryTypes, PendingKept
      <4> QED
        BY <1>b, <1>c, <2>1, <4>1, <4>2, PutTracked
    <3>3. CASE ~Loaded(op.path)
      <4>1. PICK s \in Sources :
               entries' = [entries EXCEPT ![op.path] = InitialEntry(disk[op.path], s)]
        BY <1>2, <1>b, <1>e, <2>1, <3>3 DEF EnsureLoaded
      <4>2. InitialEntry(disk[op.path], s) \in Entry
        BY <1>b, <1>e, <2>1, InitialEntryType
      <4> QED
        BY <1>b, <1>c, <2>1, <3>3, <4>1, <4>2, PutTracked DEF Loaded
    <3> QED
      BY <3>1, <3>2, <3>3
  <2>3. op.rollback # NoRollback => Tracked(op.rollback, owed)
    BY <2>1 DEF SyncInv
  <2>4. op.kind \in Patching => op.left > 0
    BY <2>1 DEF SyncInv
  <2> QED
    BY <2>1, <2>2, <2>3, <2>4, StepWithinCall
<1>3. CASE RefreshLoaded
  <2>1. /\ op # Idle /\ op.pc = "refresh" /\ op.kind \notin Sweeping
        /\ op'.pc = (IF op.kind \in Commits THEN "gate" ELSE "act")
        /\ op'.kind = op.kind /\ op'.left = op.left
        /\ op'.rollback \in {entries', op.rollback}
        /\ UNCHANGED <<registered, owed>>
    BY <1>3, <1>b DEF RefreshLoaded, InFlight, Call
  <2> DEFINE e == RefreshIfClean(entries[op.path], disk[op.path])
  <2>2. Loaded(op.path)
    BY <2>1 DEF TypeInv, WorksOnLoaded
  <2>3. e \in Entry /\ e.index_sync_pending = entries[op.path].index_sync_pending
    BY <1>b, <1>d, <1>e, <2>1, <2>2, EntryTypes, PendingKept
  <2>4. Tracked(entries', owed)
    BY <1>3, <1>b, <1>c, <2>1, <2>3, PutTracked DEF RefreshLoaded
  <2>5. op.rollback # NoRollback => Tracked(op.rollback, owed)
    BY <2>1 DEF SyncInv
  <2>6. op.kind \in Patching => op.left > 0
    BY <2>1 DEF SyncInv
  <2> QED
    BY <2>1, <2>4, <2>5, <2>6, StepWithinCall
<1>4. CASE \E q \in Paths : RefreshNext(q)
  <2>1. PICK q \in Paths : RefreshNext(q)
    BY <1>4
  <2>2. /\ op # Idle /\ op.pc = "refresh" /\ op'.pc = "refresh"
        /\ op'.kind = op.kind /\ op'.left = op.left
        /\ op'.rollback = op.rollback /\ UNCHANGED <<registered, owed>>
    BY <1>b, <2>1 DEF RefreshNext, InFlight, Call
  <2> DEFINE e == RefreshIfClean(entries[q], disk[q])
  <2>3. entries[q] \in Entry
    BY <1>c, <2>1, <2>2 DEF RefreshNext, TypeInv, WorksOnLoaded, Loaded, Entries
  <2>4. e \in Entry /\ e.index_sync_pending = entries[q].index_sync_pending
    BY <1>e, <2>3, EntryTypes, PendingKept
  <2>5. Tracked(entries', owed)
    BY <1>c, <2>1, <2>4, PutTracked DEF RefreshNext
  <2>6. op.rollback # NoRollback => Tracked(op.rollback, owed)
    BY <2>2 DEF SyncInv
  <2>7. op.kind \in Patching => op.left > 0
    BY <2>2 DEF SyncInv
  <2> QED
    BY <2>2, <2>5, <2>6, <2>7, StepWithinCall
<1>5. CASE SweepDone
  <2>1. /\ op # Idle /\ op.pc = "refresh" /\ op'.pc = "act"
        /\ op'.kind = op.kind /\ op'.left = op.left
        /\ op'.rollback = op.rollback /\ UNCHANGED <<entries, registered, owed>>
    BY <1>5, <1>b DEF SweepDone, InFlight, Call
  <2>2. op.rollback # NoRollback => Tracked(op.rollback, owed)
    BY <2>1 DEF SyncInv
  <2>3. op.kind \in Patching => op.left > 0
    BY <2>1 DEF SyncInv
  <2> QED
    BY <1>c, <2>1, <2>2, <2>3, StepWithinCall
<1>6. CASE Report \/ EditsDone \/ VirtualPatchDone
  <2>1. op # Idle /\ op.kind \notin Commits \cup {"patch_commit"}
    BY <1>6 DEF Report, EditsDone, VirtualPatchDone, InFlight, Reading, Sweeping, Commits
  <2> QED
    BY <1>6, <1>c, <2>1, SucceedSync DEF Report, EditsDone, VirtualPatchDone
<1>7. CASE PatchBlocked
  <2>1. op # Idle /\ op.pc = "act" /\ op.kind \in Patching /\ op.left > 0
    BY <1>7 DEF PatchBlocked, InFlight, SyncInv
  <2>2. op.kind \in Commits \cup {"patch_commit"} => op.kind = "patch_commit"
    BY <2>1 DEF Patching, Commits
  <2> QED
    BY <1>7, <1>c, <2>1, <2>2, SucceedSync DEF PatchBlocked
<1>8. CASE ApplyLoadedEdit \/ PatchApplied
  <2>1. PICK s \in Sources : entries' = [entries EXCEPT ![op.path] = EditedEntry(@, s)]
    BY <1>8 DEF ApplyLoadedEdit, PatchApplied
  <2>2. op # Idle /\ op.pc = "act" /\ Loaded(op.path)
    BY <1>8 DEF ApplyLoadedEdit, PatchApplied, InFlight, TypeInv, WorksOnLoaded, Sweeping, Patching
  <2>3. /\ op'.kind = op.kind /\ op'.rollback = op.rollback
        /\ \/ op'.pc = "act" /\ op.kind = "edit"
           \/ op'.pc = "gate" /\ op.kind \in Patching
        /\ UNCHANGED <<registered, owed>>
    <3>1. CASE ApplyLoadedEdit
      BY <1>b, <2>2, <3>1 DEF ApplyLoadedEdit, Call
    <3>2. CASE PatchApplied
      BY <1>b, <2>2, <3>2 DEF PatchApplied, Call
    <3> QED
      BY <1>8, <3>1, <3>2
  <2>4. EditedEntry(entries[op.path], s) \in Entry
    BY <1>d, <2>2, EntryTypes
  <2>5. EditedEntry(entries[op.path], s).index_sync_pending = entries[op.path].index_sync_pending
    BY <1>d, <2>2, PendingKept
  <2>6. Tracked(entries', owed)
    BY <1>b, <1>c, <2>1, <2>2, <2>4, <2>5, PutTracked
  <2>7. op.rollback # NoRollback => Tracked(op.rollback, owed)
    BY <2>2 DEF SyncInv
  <2> QED
    BY <2>2, <2>3, <2>6, <2>7, StepWithinCall DEF Patching
<1>9. CASE DiscardFile
  <2> DEFINE d == DiscardedEntry(entries[op.path], disk[op.path])
             e == [entries EXCEPT ![op.path] = d]
  <2>1. op # Idle /\ Loaded(op.path) /\ op.kind \notin Commits \cup {"patch_commit"}
    BY <1>9 DEF DiscardFile, InFlight, TypeInv, WorksOnLoaded, Sweeping, Discards, Commits
  <2>2. d \in Entry /\ d.index_sync_pending = entries[op.path].index_sync_pending
    BY <1>b, <1>d, <1>e, <2>1, EntryTypes, PendingKept
  <2>3. e \in Entries
    BY <1>c, <2>2 DEF Entries
  <2>4. Tracked(e, owed)
    BY <1>b, <1>c, <2>1, <2>2, PutTracked
  <2>5. Succeed(e) /\ UNCHANGED registered
    BY <1>9 DEF DiscardFile
  <2> QED
    BY <2>1, <2>3, <2>4, <2>5, SucceedSync
<1>10. CASE CommitLoadedFile
  <2> DEFINE e == entries[op.path]
             pending == SyncNeeded(e)
  <2>1. /\ op # Idle /\ op.pc = "gate" /\ Loaded(op.path)
        /\ op'.kind = op.kind /\ op'.path = op.path /\ op'.pc = "sync"
        /\ op'.sync = (IF pending THEN CoveringIndexes(op.path) ELSE {})
        /\ entries' = [entries EXCEPT ![op.path] = PersistedEntry(e, pending)]
        /\ owed' = (IF e.dirty THEN [owed EXCEPT ![op.path] = CoveringIndexes(op.path)] ELSE owed)
        /\ UNCHANGED registered
    BY <1>10, <1>b DEF CommitLoadedFile, InFlight, TypeInv, WorksOnLoaded, Call
  <2>2. e \in Entry /\ CoherentEntry(e) /\ pending \in BOOLEAN
    BY <1>b, <1>d, <2>1 DEF DirtyInv, Coherent, Loaded, SyncNeeded, Entry, Call
  <2>3. PersistedEntry(e, pending) \in Entry
    BY <1>b, <1>e, <2>1, <2>2, EntryTypes
  <2>4. /\ VirtualPatchSourcePersisted(PersistedEntry(e, pending))
        /\ PersistedEntry(e, pending).index_sync_pending = pending
    BY <2>2, PersistedEntryPersisted
  <2>5. entries'[op.path] = PersistedEntry(e, pending) /\ entries'[op.path] # NotLoaded
    BY <1>b, <1>c, <2>1, <2>3, SentinelAssumption DEF Entries
  <2>6. ~pending => owed[op.path] = {} /\ ~e.dirty
    BY <1>b, <1>c, <2>1 DEF SyncNeeded, Tracked
  <2>7. \A p \in Paths : p # op.path => entries'[p] = entries[p] /\ owed'[p] = owed[p]
    BY <1>b, <1>c, <2>1 DEF Entries, TypeInv, TypeOK
  <2>8. owed'[op.path] \subseteq CoveringIndexes(op.path) /\ owed'[op.path] \subseteq op'.sync
    BY <1>b, <2>1, <2>6 DEF SyncInv, TypeInv, TypeOK
  <2>9. owed'[op.path] # {} => pending
    BY <1>b, <2>1, <2>6
  <2>10. Tracked(entries', owed')
    BY <1>c, <2>4, <2>5, <2>7, <2>9 DEF Tracked
  <2>11. \A p \in Paths : CoveringIndexes(p)' = CoveringIndexes(p)
    BY <2>1 DEF CoveringIndexes
  <2>12. \A p \in Paths : owed'[p] \subseteq CoveringIndexes(p)'
    BY <2>7, <2>8, <2>11 DEF SyncInv
  <2>13. (op.sync \subseteq CoveringIndexes(op.path))'
    BY <2>1 DEF CoveringIndexes
  <2> QED
    BY <2>1, <2>4, <2>5, <2>8, <2>10, <2>12, <2>13 DEF SyncInv, CommitSettlesDebt, InFlight
<1>11. CASE CommitDone
  <2> DEFINE d == [entries[op.path] EXCEPT !.index_sync_pending = FALSE]
             e == [entries EXCEPT ![op.path] = d]
  <2>1. op # Idle /\ op.pc = "sync" /\ Loaded(op.path) /\ owed[op.path] = {}
    BY <1>11 DEF CommitDone, InFlight, TypeInv, WorksOnLoaded, SyncInv
  <2>2. d \in Entry
    BY <1>d, <2>1 DEF Entry
  <2>3. e \in Entries /\ Tracked(e, owed)
    BY <1>b, <1>c, <2>1, <2>2 DEF Entries, Tracked
  <2>4. Succeed(e) /\ UNCHANGED registered
    BY <1>11 DEF CommitDone
  <2> QED
    BY <2>1, <2>3, <2>4, SucceedSync
<1>12. CASE Fail
  <2>1. /\ op # Idle /\ op.pc # "return" /\ op'.pc = "return" /\ op'.ok = FALSE
        /\ entries' = AfterFailure /\ UNCHANGED <<registered, owed>>
    BY <1>12, <1>b DEF Fail, Call
  <2>2. Tracked(AfterFailure, owed)
    BY <1>12, <1>c, <2>1 DEF Fail, AfterFailure, SyncInv
  <2> QED
    BY <2>1, <2>2 DEF SyncInv, CommitSettlesDebt, InFlight, CoveringIndexes
<1>13. CASE Return
  BY <1>13 DEF Return, SyncInv, CommitSettlesDebt, InFlight, CoveringIndexes
<1>14. CASE \E w \in Workspaces : SyncRegisteredIndex(w)
  <2>1. PICK w \in Workspaces : SyncRegisteredIndex(w)
    BY <1>14
  <2>2. /\ op # Idle /\ op.pc = "sync" /\ w \in op.sync
        /\ op'.pc = "sync" /\ op'.path = op.path /\ op'.sync = op.sync \ {w}
        /\ UNCHANGED <<entries, registered>>
    BY <1>b, <2>1 DEF SyncRegisteredIndex, InFlight, Call
  <2>3. op.path \in Covers[w]
    BY <2>2 DEF SyncInv, CoveringIndexes
  <2>4. owed'[op.path] = owed[op.path] \ {w}
    BY <1>b, <2>1, <2>2, <2>3 DEF SyncRegisteredIndex
  <2>5. \A p \in Paths : owed'[p] \subseteq owed[p]
    BY <2>1 DEF SyncRegisteredIndex
  <2>6. Tracked(entries', owed')
    BY <1>c, <2>2, <2>5 DEF Tracked
  <2> QED
    BY <2>2, <2>4, <2>5, <2>6 DEF SyncInv, CommitSettlesDebt, InFlight, CoveringIndexes
<1>15. CASE \E w \in Workspaces : RegisterSymbolIndex(w) \/ UnregisterSymbolIndex(w)
  <2>1. PICK w \in Workspaces : RegisterSymbolIndex(w) \/ UnregisterSymbolIndex(w)
    BY <1>15
  <2>2. op = Idle /\ op' = Idle /\ UNCHANGED entries
    BY <2>1 DEF RegisterSymbolIndex, UnregisterSymbolIndex
  <2>3. \A p \in Paths : owed'[p] = owed[p] \ {w}
    BY <2>1 DEF RegisterSymbolIndex, UnregisterSymbolIndex
  <2>4. \A p \in Paths : CoveringIndexes(p) \ {w} \subseteq CoveringIndexes(p)'
    BY <2>1 DEF RegisterSymbolIndex, UnregisterSymbolIndex, CoveringIndexes
  <2>5. Tracked(entries', owed')
    BY <1>c, <2>2, <2>3 DEF Tracked
  <2> QED
    BY <2>2, <2>3, <2>4, <2>5 DEF SyncInv, CommitSettlesDebt, InFlight
<1>16. CASE RefreshRegisteredSymbolIndexes
  <2>1. op = Idle /\ op' = Idle /\ UNCHANGED <<entries, registered>>
    BY <1>16 DEF RefreshRegisteredSymbolIndexes
  <2>2. \A p \in Paths : owed'[p] \subseteq owed[p]
    BY <1>16 DEF RefreshRegisteredSymbolIndexes
  <2>3. Tracked(entries', owed')
    BY <1>c, <2>1, <2>2 DEF Tracked
  <2> QED
    BY <2>1, <2>2, <2>3 DEF SyncInv, CommitSettlesDebt, InFlight, CoveringIndexes
<1>17. CASE \E p \in Paths, s \in Sources : ExternalWrite(p, s)
  <2>1. UNCHANGED <<entries, registered, op, owed>>
    BY <1>17 DEF ExternalWrite
  <2> QED
    BY <2>1 DEF SyncInv, CommitSettlesDebt, InFlight, CoveringIndexes
<1> QED
  BY <1>a, <1>1, <1>2, <1>3, <1>4, <1>5, <1>6, <1>7, <1>8, <1>9, <1>10, <1>11, <1>12,
     <1>13, <1>14, <1>15, <1>16, <1>17 DEF Next

\* As long as a registered index has not read what an open buffer wrote, the
\* buffer is there and remembers it: neither a failed sync, nor a timeout and
\* its rollback, nor further edits and discards lose the debt.
THEOREM DebtIsTracked == Spec => []SyncDebtTracked
<1>1. Init => SyncInv
  BY DEF Init, SyncInv, Tracked, Nothing, CommitSettlesDebt, InFlight
<1>2. SyncInv => SyncDebtTracked
  BY DEF SyncInv, Tracked, SyncDebtTracked, Loaded
<1>3. Init => DirtyInv
  BY DEF Init, DirtyInv, Coherent
<1> QED
  BY <1>1, <1>2, <1>3, InitTypeInv, NextTypeInv, NextDirtyInv, NextSyncInv, PTL DEF Spec

\* A commit that succeeds leaves no registered index behind its file, whether
\* it is the first try or the retry of a failed sync.
THEOREM CommitsSettle == Spec => []CommitSettlesDebt
<1>1. Init => SyncInv
  BY DEF Init, SyncInv, Tracked, Nothing, CommitSettlesDebt, InFlight
<1>2. SyncInv => CommitSettlesDebt
  BY DEF SyncInv
<1>3. Init => DirtyInv
  BY DEF Init, DirtyInv, Coherent
<1> QED
  BY <1>1, <1>2, <1>3, InitTypeInv, NextTypeInv, NextDirtyInv, NextSyncInv, PTL DEF Spec

-----------------------------------------------------------------------------
(* Versions.  What a call works on, and what it would restore, are never   *)
(* behind what the client saw before the call.                             *)

Advances(e, f) == e.version < f.version \/ (e.version = f.version /\ e.source = f.source)

AllAdvance(es, fs) ==
    \A p \in Paths : es[p] # NotLoaded => fs[p] # NotLoaded /\ Advances(es[p], fs[p])

VersionInv ==
    op # Idle /\ op.pc # "return" =>
        /\ AllAdvance(op.before, entries)
        /\ op.rollback # NoRollback => AllAdvance(op.before, op.rollback)

\* Every operation on an entry advances it.
LEMMA EntryAdvances ==
    ASSUME NEW e \in Entry, NEW s \in Sources, NEW t \in Sources, NEW b \in BOOLEAN
    PROVE  /\ Advances(e, OverriddenEntry(e, s, t))
           /\ Advances(e, RefreshIfClean(e, s))
           /\ Advances(e, EditedEntry(e, s))
           /\ Advances(e, DiscardedEntry(e, s))
           /\ Advances(e, PersistedEntry(e, b))
           /\ Advances(e, [e EXCEPT !.index_sync_pending = FALSE])
<1>1. e.version \in Nat
  BY DEF Entry
<1>2. OverriddenEntry(e, s, t).version = e.version + 1
  BY DEF OverriddenEntry, Entry
<1>3. RefreshIfClean(e, s) = e \/ RefreshIfClean(e, s).version = e.version + 1
  BY DEF RefreshIfClean, Entry
<1>4. EditedEntry(e, s).version = e.version + 1
  BY DEF EditedEntry, Entry
<1>5. DiscardedEntry(e, s) = e \/ DiscardedEntry(e, s).version = e.version + 1
  BY DEF DiscardedEntry, Entry
<1>6. /\ PersistedEntry(e, b).version = e.version
      /\ PersistedEntry(e, b).source = e.source
  BY DEF PersistedEntry, Entry
<1>7. Advances(e, [e EXCEPT !.index_sync_pending = FALSE])
  BY DEF Advances, Entry
<1> QED
  BY <1>1, <1>2, <1>3, <1>4, <1>5, <1>6, <1>7 DEF Advances

\* Advancing is transitive.
LEMMA AdvanceTransitive ==
    ASSUME NEW es \in Entries, NEW fs \in Entries, NEW gs \in Entries,
           AllAdvance(es, fs), AllAdvance(fs, gs)
    PROVE  AllAdvance(es, gs)
<1>1. SUFFICES ASSUME NEW p \in Paths, es[p] # NotLoaded
               PROVE  gs[p] # NotLoaded /\ Advances(es[p], gs[p])
  BY DEF AllAdvance
<1>2. fs[p] # NotLoaded /\ gs[p] # NotLoaded
  BY <1>1 DEF AllAdvance
<1>3. es[p].version \in Nat /\ fs[p].version \in Nat /\ gs[p].version \in Nat
  BY <1>1, <1>2 DEF Entries, Entry
<1>4. Advances(es[p], fs[p]) /\ Advances(fs[p], gs[p])
  BY <1>1, <1>2 DEF AllAdvance
<1>5. Advances(es[p], gs[p])
  BY <1>3, <1>4 DEF Advances
<1> QED
  BY <1>2, <1>5

\* So is putting an advanced entry in place of its predecessor.
LEMMA PutAdvances ==
    ASSUME NEW es \in Entries, NEW p \in Paths, NEW e \in Entry,
           es[p] # NotLoaded => Advances(es[p], e)
    PROVE  AllAdvance(es, [es EXCEPT ![p] = e])
BY SentinelAssumption DEF AllAdvance, Advances, Entries

\* A step within a call that advances the entries advances what clients see.
LEMMA CallAdvances ==
    ASSUME TypeInv, TypeInv', VersionInv, op # Idle, op.pc # "return",
           AllAdvance(entries, entries'), op'.before = op.before,
           op'.rollback \in {op.rollback, entries', NoRollback}
    PROVE  VersionInv' /\ VersionStep
<1>1. op.before \in Entries /\ entries \in Entries /\ entries' \in Entries
  BY DEF TypeInv, TypeOK, Call
<1>2. AllAdvance(op.before, op.before)
  BY DEF AllAdvance, Advances
<1>3. AllAdvance(op.before, entries')
  BY <1>1, AdvanceTransitive DEF VersionInv
<1>4. VersionInv'
  BY <1>3 DEF VersionInv
<1>5. Visible = op.before /\ Visible' \in {entries', op.before}
  BY DEF Visible
<1> QED
  BY <1>2, <1>3, <1>4, <1>5 DEF VersionStep, AllAdvance, Advances

\* So does the end of a call.
LEMMA SucceedAdvances ==
    ASSUME TypeInv, VersionInv, op # Idle, op.pc # "return", NEW e \in Entries,
           AllAdvance(entries, e), Succeed(e)
    PROVE  VersionInv' /\ VersionStep
<1>1. op \in Call /\ op.before \in Entries /\ entries \in Entries
  BY DEF TypeInv, TypeOK, Call
<1>2. op'.pc = "return"
  BY <1>1 DEF Succeed, Call
<1>3. AllAdvance(op.before, e)
  BY <1>1, AdvanceTransitive DEF VersionInv
<1>4. Visible = op.before /\ Visible' = entries'
  BY <1>2 DEF Visible
<1>5. \A p \in Paths : entries'[p] # NotLoaded => entries'[p] = e[p]
  BY DEF Succeed, Entries
<1> QED
  BY <1>2, <1>3, <1>4, <1>5 DEF VersionStep, VersionInv, AllAdvance, Advances

\* Every step advances the entries clients see.
LEMMA NextVersionInv ==
    ASSUME TypeInv, TypeInv', VersionInv, [Next]_vars
    PROVE  VersionInv' /\ VersionStep
<1>a. \A es : AllAdvance(es, es)
  BY DEF AllAdvance, Advances
<1>b. op # Idle => op \in Call /\ op.path \in Paths
  BY DEF TypeInv, TypeOK, Call
<1>c. entries \in Entries
  BY DEF TypeInv, TypeOK
<1>d. ASSUME op # Idle, Loaded(op.path)
      PROVE  entries[op.path] \in Entry
  BY <1>b, <1>c, <1>d DEF Entries, Loaded
<1>e. \A p \in Paths : disk[p] \in Sources
  BY DEF TypeInv, TypeOK
<1>f. ASSUME UNCHANGED entries, op = Idle \/ op.pc = "return", op' = Idle \/ op' = op
      PROVE  VersionInv' /\ VersionStep
  <2>1. Visible = entries /\ Visible' = entries
    BY <1>f DEF Visible
  <2> QED
    BY <1>f, <2>1 DEF VersionInv, VersionStep
<1>0. CASE UNCHANGED <<entries, op>>
  <2>1. Visible' = Visible
    BY <1>0 DEF Visible
  <2> QED
    BY <1>0, <2>1 DEF VersionInv, VersionStep
<1>1. CASE BeginCall
  <2>1. PICK kind \in Requests, p \in Paths, timed \in BOOLEAN, n \in Nat :
           Start(kind, p, timed, n)
    <3>1. FALSE \in BOOLEAN /\ 0 \in Nat /\ 1 \in Nat /\ \A n \in 0 .. MaxEdits : n \in Nat
      BY ConstantsAssumption
    <3> QED
      BY <1>1, <3>1, Zenon DEF BeginCall
  <2>2. /\ op = Idle /\ UNCHANGED entries /\ op'.before = entries
        /\ op'.rollback \in {entries, NoRollback} /\ op'.pc # "return"
    BY <2>1 DEF Start, RollbackAtCall
  <2>3. Visible = entries /\ Visible' = entries
    BY <2>2 DEF Visible
  <2> QED
    BY <1>a, <2>2, <2>3 DEF VersionInv, VersionStep
<1>2. CASE EnsureLoaded
  <2>1. /\ op # Idle /\ op.pc # "return"
        /\ op'.before = op.before /\ op'.rollback = op.rollback
    BY <1>2, <1>b DEF EnsureLoaded, InFlight, Call
  <2>2. AllAdvance(entries, entries')
    <3>1. CASE Loaded(op.path) /\ op.kind # "open"
      BY <1>2, <1>a, <3>1 DEF EnsureLoaded
    <3>2. CASE Loaded(op.path) /\ op.kind = "open"
      <4>1. PICK s \in Sources :
               entries' = [entries EXCEPT ![op.path] = OverriddenEntry(@, disk[op.path], s)]
        BY <1>2, <3>2 DEF EnsureLoaded
      <4> DEFINE e == OverriddenEntry(entries[op.path], disk[op.path], s)
      <4>2. TRUE \in BOOLEAN
        OBVIOUS
      <4>3. e \in Entry /\ Advances(entries[op.path], e)
        BY <1>b, <1>d, <1>e, <2>1, <3>2, <4>2, EntryTypes, EntryAdvances
      <4> QED
        BY <1>b, <1>c, <2>1, <4>1, <4>3, PutAdvances
    <3>3. CASE ~Loaded(op.path)
      <4>1. PICK s \in Sources :
               entries' = [entries EXCEPT ![op.path] = InitialEntry(disk[op.path], s)]
        BY <1>2, <1>b, <1>e, <2>1, <3>3 DEF EnsureLoaded
      <4>2. InitialEntry(disk[op.path], s) \in Entry
        BY <1>b, <1>e, <2>1, InitialEntryType
      <4> QED
        BY <1>b, <1>c, <2>1, <3>3, <4>1, <4>2, PutAdvances DEF Loaded
    <3> QED
      BY <3>1, <3>2, <3>3
  <2> QED
    BY <2>1, <2>2, CallAdvances
<1>3. CASE RefreshLoaded
  <2> DEFINE e == RefreshIfClean(entries[op.path], disk[op.path])
  <2>1. /\ op # Idle /\ op.pc # "return" /\ Loaded(op.path)
        /\ op'.before = op.before /\ op'.rollback \in {op.rollback, entries'}
        /\ entries' = [entries EXCEPT ![op.path] = e]
    BY <1>3, <1>b DEF RefreshLoaded, InFlight, TypeInv, WorksOnLoaded, Call
  <2>2. e \in Entry /\ Advances(entries[op.path], e)
    BY <1>b, <1>d, <1>e, <2>1, EntryTypes, EntryAdvances
  <2>3. AllAdvance(entries, entries')
    BY <1>b, <1>c, <2>1, <2>2, PutAdvances
  <2> QED
    BY <2>1, <2>3, CallAdvances
<1>4. CASE \E q \in Paths : RefreshNext(q)
  <2>1. PICK q \in Paths : RefreshNext(q)
    BY <1>4
  <2> DEFINE e == RefreshIfClean(entries[q], disk[q])
  <2>2. /\ op # Idle /\ op.pc # "return" /\ entries[q] \in Entry
        /\ op'.before = op.before /\ op'.rollback = op.rollback
        /\ entries' = [entries EXCEPT ![q] = e]
    BY <1>b, <1>c, <2>1 DEF RefreshNext, InFlight, TypeInv, WorksOnLoaded, Loaded, Entries, Call
  <2>3. e \in Entry /\ Advances(entries[q], e)
    BY <1>e, <2>2, EntryTypes, EntryAdvances
  <2>4. AllAdvance(entries, entries')
    BY <1>c, <2>2, <2>3, PutAdvances
  <2> QED
    BY <2>2, <2>4, CallAdvances
<1>5. CASE SweepDone \/ \E w \in Workspaces : SyncRegisteredIndex(w)
  <2>1. /\ op # Idle /\ op.pc # "return" /\ UNCHANGED entries
        /\ op'.before = op.before /\ op'.rollback = op.rollback
    BY <1>5, <1>b DEF SweepDone, SyncRegisteredIndex, InFlight, Call
  <2> QED
    BY <1>a, <2>1, CallAdvances
<1>6. CASE Report \/ EditsDone \/ PatchBlocked \/ VirtualPatchDone
  <2>1. op # Idle /\ op.pc # "return" /\ Succeed(entries)
    BY <1>6 DEF Report, EditsDone, PatchBlocked, VirtualPatchDone, InFlight
  <2> QED
    BY <1>a, <1>c, <2>1, SucceedAdvances
<1>7. CASE ApplyLoadedEdit \/ PatchApplied
  <2>1. PICK s \in Sources : entries' = [entries EXCEPT ![op.path] = EditedEntry(@, s)]
    BY <1>7 DEF ApplyLoadedEdit, PatchApplied
  <2>2. op # Idle /\ op.pc # "return" /\ Loaded(op.path)
    BY <1>7 DEF ApplyLoadedEdit, PatchApplied, InFlight, TypeInv, WorksOnLoaded, Sweeping, Patching
  <2>3. op'.before = op.before /\ op'.rollback = op.rollback
    BY <1>7, <1>b, <2>2 DEF ApplyLoadedEdit, PatchApplied, Call
  <2>4. EditedEntry(entries[op.path], s) \in Entry
    BY <1>d, <2>2, EntryTypes
  <2>5. Advances(entries[op.path], EditedEntry(entries[op.path], s))
    BY <1>d, <2>2, EntryAdvances
  <2>6. AllAdvance(entries, entries')
    BY <1>b, <1>c, <2>1, <2>2, <2>4, <2>5, PutAdvances
  <2> QED
    BY <2>2, <2>3, <2>6, CallAdvances
<1>8. CASE DiscardFile
  <2> DEFINE d == DiscardedEntry(entries[op.path], disk[op.path])
             e == [entries EXCEPT ![op.path] = d]
  <2>1. op # Idle /\ op.pc # "return" /\ Loaded(op.path)
    BY <1>8 DEF DiscardFile, InFlight, TypeInv, WorksOnLoaded, Sweeping, Discards
  <2>2. d \in Entry /\ Advances(entries[op.path], d)
    BY <1>b, <1>d, <1>e, <2>1, EntryTypes, EntryAdvances
  <2>3. e \in Entries /\ AllAdvance(entries, e)
    BY <1>b, <1>c, <2>1, <2>2, PutAdvances DEF Entries
  <2>4. Succeed(e)
    BY <1>8 DEF DiscardFile
  <2> QED
    BY <2>1, <2>3, <2>4, SucceedAdvances
<1>9. CASE CommitLoadedFile
  <2> DEFINE pending == SyncNeeded(entries[op.path])
             e == PersistedEntry(entries[op.path], pending)
  <2>1. /\ op # Idle /\ op.pc # "return" /\ Loaded(op.path)
        /\ op'.before = op.before /\ op'.rollback = op.rollback
        /\ entries' = [entries EXCEPT ![op.path] = e]
    BY <1>9, <1>b DEF CommitLoadedFile, InFlight, TypeInv, WorksOnLoaded, Call
  <2>2. pending \in BOOLEAN
    BY <1>b, <1>d, <2>1 DEF SyncNeeded, Entry, Call
  <2>3. e \in Entry /\ Advances(entries[op.path], e)
    BY <1>b, <1>d, <1>e, <2>1, <2>2, EntryTypes, EntryAdvances
  <2>4. AllAdvance(entries, entries')
    BY <1>b, <1>c, <2>1, <2>3, PutAdvances
  <2> QED
    BY <2>1, <2>4, CallAdvances
<1>10. CASE CommitDone
  <2> DEFINE d == [entries[op.path] EXCEPT !.index_sync_pending = FALSE]
             e == [entries EXCEPT ![op.path] = d]
  <2>1. op # Idle /\ op.pc # "return" /\ Loaded(op.path)
    BY <1>10 DEF CommitDone, InFlight, TypeInv, WorksOnLoaded
  <2>2. d \in Entry /\ Advances(entries[op.path], d)
    BY <1>d, <2>1 DEF Entry, Advances
  <2>3. e \in Entries /\ AllAdvance(entries, e)
    BY <1>b, <1>c, <2>1, <2>2, PutAdvances DEF Entries
  <2>4. Succeed(e)
    BY <1>10 DEF CommitDone
  <2> QED
    BY <2>1, <2>3, <2>4, SucceedAdvances
<1>11. CASE Fail
  <2>1. /\ op # Idle /\ op.pc # "return" /\ op'.pc = "return"
        /\ entries' \in {entries, op.rollback}
        /\ op.rollback = NoRollback => entries' = entries
    BY <1>11, <1>b DEF Fail, AfterFailure, Call
  <2>2. AllAdvance(op.before, entries')
    BY <2>1 DEF VersionInv
  <2>3. Visible = op.before /\ Visible' = entries'
    BY <2>1 DEF Visible
  <2> QED
    BY <2>1, <2>2, <2>3 DEF VersionInv, VersionStep, AllAdvance, Advances
<1>12. CASE Return
  BY <1>12, <1>f DEF Return, InFlight
<1>13. ASSUME \/ \E w \in Workspaces : RegisterSymbolIndex(w) \/ UnregisterSymbolIndex(w)
              \/ RefreshRegisteredSymbolIndexes
              \/ \E p \in Paths, s \in Sources : ExternalWrite(p, s)
       PROVE  UNCHANGED <<entries, op>>
  BY <1>13 DEF RegisterSymbolIndex, UnregisterSymbolIndex, RefreshRegisteredSymbolIndexes,
               ExternalWrite
<1>14. CASE UNCHANGED vars
  BY <1>0, <1>14 DEF vars
<1> QED
  BY <1>0, <1>1, <1>2, <1>3, <1>4, <1>5, <1>6, <1>7, <1>8, <1>9, <1>10, <1>11, <1>12,
     <1>13, <1>14 DEF Next

\* While a file stays open its version never goes back between calls, and two
\* snapshots with the same version have the same source: no operation changes
\* the source without a new version, and a version that a rollback withdraws
\* was never shown.
THEOREM VersionsName == Spec => VersionNamesSource
<1>1. Init => VersionInv
  BY DEF Init, VersionInv
<1> QED
  BY <1>1, InitTypeInv, NextTypeInv, NextVersionInv, PTL DEF Spec, VersionNamesSource

=============================================================================
