------------------------- MODULE AtomicCallsProofs -------------------------
(***************************************************************************)
(* What a call of VirtualFiles makes of the buffers, from the entries its  *)
(* client knew to those it leaves, for any files, texts, workspaces and    *)
(* bounds: the theorems about whole calls, and that VirtualFiles implements*)
(* EditorBuffers.                                                          *)
(*                                                                         *)
(* An action property about calls speaks of the step that ends one, where  *)
(* the entries before it are only history.  The invariants therefore       *)
(* describe, at each place in a call, how the entries came from those the  *)
(* call started with.                                                      *)
(***************************************************************************)
EXTENDS VirtualFilesProofs

-----------------------------------------------------------------------------
(* Entries.                                                                *)

\* A clean entry: its text is the one its file was last seen with.
OnDisk(f) == ~f.dirty /\ f.source = f.disk_source

\* What refreshing the entry e may make of it: nothing or, if it is clean, a
\* new version that follows the file.
Refreshed(e, f) ==
    \/ f = e
    \/ ~e.dirty /\ f # NotLoaded /\ OnDisk(f) /\ f.version = e.version + 1

\* What loading makes of e, and loading and then refreshing.
Fetched(e, f) ==
    IF e = NotLoaded THEN OnDisk(f) /\ f.version = 0 ELSE f = e
Brought(e, f) ==
    IF e = NotLoaded THEN OnDisk(f) /\ f.version \in {0, 1} ELSE Refreshed(e, f)

\* What opening with a text makes of e, and opening and then refreshing.
Opened(e, f) == f.version = IF e = NotLoaded THEN 0 ELSE e.version + 1
OpenedAndRefreshed(e, f) ==
    \E g \in Entry : CoherentEntry(g) /\ Opened(e, g) /\ Refreshed(g, f)

\* Edits keep the base of what they started from and advance its version.
EditedFrom(b, f) == f.disk_source = b.disk_source /\ f.version > b.version
PatchedFrom(b, f) == f.disk_source = b.disk_source /\ f.version = b.version + 1

\* How the entry f that a call works on comes from e, the one the client knew.
Shape(e, f) ==
    /\ op.pc = "load" => f = e
    /\ op.pc = "refresh" => IF op.kind = "open" THEN Opened(e, f) ELSE Fetched(e, f)
    /\ op.pc = "act" =>
          CASE op.kind \in Discards -> Fetched(e, f)
            [] op.kind = "open" -> OpenedAndRefreshed(e, f)
            [] op.kind = "edit" ->
                  \E b \in Entry : Brought(e, b) /\ (f = b \/ EditedFrom(b, f))
            [] OTHER -> Brought(e, f)
    /\ op.pc = "gate" =>
          IF op.kind \in Commits THEN Brought(e, f)
          ELSE \E b \in Entry : Brought(e, b) /\ PatchedFrom(b, f)
    /\ op.pc = "sync" =>
          /\ OnDisk(f)
          /\ IF op.kind \in Commits
             THEN \E b \in Entry : /\ Brought(e, b)
                                   /\ f.source = b.source /\ f.version = b.version
             ELSE \E b \in Entry : Brought(e, b) /\ f.version = b.version + 1

Running == op # Idle /\ op.pc # "return"

EndsCall ==
    \/ Report \/ EditsDone \/ PatchBlocked \/ VirtualPatchDone \/ DiscardFile
    \/ CommitDone \/ Fail

\* A sweep refreshes each entry at most once; any other call leaves all
\* entries but its own alone.
CallInv ==
    Running =>
        /\ op.kind \in Sweeping =>
              \A q \in Paths :
                  /\ q \in op.sweep => entries[q] = op.before[q]
                  /\ IF op.before[q] = NotLoaded THEN entries[q] = NotLoaded
                     ELSE Refreshed(op.before[q], entries[q])
        /\ op.kind \notin Sweeping =>
              /\ op.sweep = {}
              /\ \A q \in Paths \ {op.path} : entries[q] = op.before[q]
              /\ Shape(op.before[op.path], entries[op.path])

\* What a failure restores: the entries before the call or, of an edit or a
\* patch, those entries with the file loaded and refreshed.
RollbackInv ==
    Running =>
        /\ Coherent(op.before)
        /\ op.kind \in Discards => op.rollback = op.before /\ op.pc \in {"load", "act"}
        /\ op.kind \in Patching \cup {"edit"} /\ op.pc \in {"act", "gate"}
              => op.rollback # NoRollback
        /\ op.pc = "sync" => op.kind \in Commits \cup {"patch_commit"}
        /\ \/ op.rollback \in {NoRollback, op.before}
           \/ /\ op.kind \in Patching \cup {"edit"}
              /\ \A q \in Paths \ {op.path} : op.rollback[q] = op.before[q]
              /\ op.rollback[op.path] # NotLoaded
              /\ Brought(op.before[op.path], op.rollback[op.path])

\* What a clean buffer is about to be reported as is a text its file held.
FreshAt(p) == Loaded(p) /\ ~entries[p].dirty => entries[p].source \in seen[p]
FreshInv ==
    op # Idle =>
        /\ \A p \in Paths : disk[p] \in seen[p]
        /\ op.kind \in Sweeping /\ op.pc = "refresh"
              => \A p \in Paths \ op.sweep : FreshAt(p)
        /\ op.kind \in Sweeping /\ op.pc = "act" => \A p \in Paths : FreshAt(p)
        /\ op.kind \in Reading \cup Commits /\ op.pc \in {"act", "gate", "sync"}
              => FreshAt(op.path)
        /\ CleanReportsAreFresh

-----------------------------------------------------------------------------
(* How one step of a call changes an entry.                                *)

LEMMA RefreshIsRefreshed ==
    ASSUME NEW e \in Entry, NEW s \in Sources
    PROVE  Refreshed(e, RefreshIfClean(e, s))
<1>1. CASE e.dirty \/ s = e.disk_source
  BY <1>1 DEF RefreshIfClean, Refreshed
<1>2. CASE ~e.dirty /\ s # e.disk_source
  <2>1. RefreshIfClean(e, s) =
           [e EXCEPT !.disk_source = s, !.source = s, !.version = e.version + 1]
    BY <1>2 DEF RefreshIfClean
  <2> QED
    BY <1>2, <2>1, EntryTypes, SentinelAssumption DEF Refreshed, OnDisk, Entry
<1> QED
  BY <1>1, <1>2

LEMMA FirstLoad ==
    ASSUME NEW s \in Sources, NEW t \in Sources
    PROVE  /\ Fetched(NotLoaded, InitialEntry(s, s))
           /\ Opened(NotLoaded, InitialEntry(s, t))
BY DEF InitialEntry, Fetched, OnDisk, Opened

LEMMA FetchedIsBrought ==
    ASSUME NEW e, NEW f, Fetched(e, f)
    PROVE  Brought(e, f)
BY DEF Fetched, Brought, Refreshed

LEMMA FetchedThenRefreshed ==
    ASSUME NEW e \in Entry \cup {NotLoaded}, NEW f \in Entry, Fetched(e, f), NEW s \in Sources
    PROVE  Brought(e, RefreshIfClean(f, s))
<1>1. Refreshed(f, RefreshIfClean(f, s))
  BY RefreshIsRefreshed
<1>2. CASE e = NotLoaded
  BY <1>1, <1>2 DEF Fetched, Brought, Refreshed
<1>3. CASE e # NotLoaded
  BY <1>1, <1>3 DEF Fetched, Brought
<1> QED
  BY <1>2, <1>3

\* An entry with unsaved text is the one there was before.
LEMMA BroughtKeepsUnsaved ==
    ASSUME NEW e, NEW f, Brought(e, f)
    PROVE  /\ e # NotLoaded /\ e.dirty => f = e
           /\ f.dirty => e # NotLoaded /\ f = e
BY DEF Brought, Refreshed, OnDisk

-----------------------------------------------------------------------------
(* The invariants are preserved.                                           *)

Inherited == TypeInv /\ DirtyInv /\ SyncInv

LEMMA CallTypes ==
    ASSUME TypeInv, op # Idle
    PROVE  /\ op \in Call /\ op.path \in Paths /\ op.kind \in Kinds
           /\ op.before \in Entries /\ entries \in Entries
           /\ Loaded(op.path) => entries[op.path] \in Entry
           /\ \A q \in Paths : disk[q] \in Sources /\ op.before[q] \in Entry \cup {NotLoaded}
BY DEF TypeInv, TypeOK, Call, Entries, Loaded

\* A step within a call that is no sweep: it works on the entry of its file.
LEMMA WorkKeepsCallInv ==
    ASSUME Inherited, CallInv, Running, op.kind \notin Sweeping,
           NEW f, entries' = [entries EXCEPT ![op.path] = f],
           op'.kind = op.kind, op'.path = op.path, op'.before = op.before,
           op'.sweep = op.sweep, Shape(op.before[op.path], f)'
    PROVE  CallInv'
<1>1. op.path \in Paths /\ entries \in Entries
  BY CallTypes DEF Running, Inherited
<1>2. entries'[op.path] = f /\ \A q \in Paths \ {op.path} : entries'[q] = entries[q]
  BY <1>1 DEF Entries
<1>3. \A q \in Paths \ {op.path} : entries[q] = op.before[q]
  BY DEF CallInv
<1> QED
  BY <1>2, <1>3 DEF CallInv

\* A step within a call that leaves what it restores as it is.
LEMMA WorkKeepsRollback ==
    ASSUME RollbackInv, Running, op'.kind = op.kind, op'.path = op.path,
           op'.before = op.before, op'.rollback = op.rollback,
           op'.pc = op.pc \/ op'.pc \in {"refresh", "act"} \/ op.pc \in {"act", "gate"},
           op'.pc \in {"act", "gate"} /\ op.pc \notin {"act", "gate"}
               => op.kind \notin Patching \cup {"edit"},
           op'.pc = "sync" => op.kind \in Commits \cup {"patch_commit"},
           op.kind \in Discards => op'.pc \in {"load", "act"}
    PROVE  RollbackInv'
BY DEF RollbackInv, Running

LEMMA BeginStarts ==
    ASSUME BeginCall
    PROVE  \E kind \in Requests, p \in Paths, timed \in BOOLEAN, n \in Nat :
               Start(kind, p, timed, n)
<1>1. FALSE \in BOOLEAN /\ 0 \in Nat /\ 1 \in Nat /\ \A n \in 0 .. MaxEdits : n \in Nat
  BY ConstantsAssumption
<1> QED
  BY <1>1, Zenon DEF BeginCall

LEMMA BeginKeepsCallInv ==
    ASSUME Inherited, BeginCall
    PROVE  CallInv' /\ RollbackInv'
<1>1. PICK kind \in Requests, p \in Paths, timed \in BOOLEAN, n \in Nat :
         Start(kind, p, timed, n)
  BY BeginStarts
<1>2. /\ entries' = entries /\ op'.before = entries /\ op'.kind = kind /\ op'.path = p
      /\ op'.rollback \in {entries, NoRollback}
      /\ op'.kind \in Discards => op'.rollback = entries
      /\ op'.pc \in {"load", "refresh"}
      /\ op'.kind \notin Sweeping => op'.pc = "load"
      /\ op'.sweep = IF kind \in Sweeping THEN {q \in Paths : Loaded(q)} ELSE {}
  BY <1>1 DEF Start, RollbackAtCall
<1>3. Coherent(entries)
  BY DEF Inherited, DirtyInv
<1>4. RollbackInv'
  <2>1. kind \in Discards => op'.pc = "load"
    BY <1>2 DEF Discards, Sweeping
  <2> QED
    BY <1>2, <1>3, <2>1 DEF RollbackInv, Running, Coherent
<1>5. CallInv'
  <2>1. CASE kind \in Sweeping
    BY <1>2, <2>1 DEF CallInv, Refreshed
  <2>2. CASE kind \notin Sweeping
    BY <1>2, <2>2 DEF CallInv, Shape
  <2> QED
    BY <2>1, <2>2
<1> QED
  BY <1>4, <1>5

LEMMA LoadKeepsCallInv ==
    ASSUME Inherited, CallInv, RollbackInv, EnsureLoaded
    PROVE  CallInv' /\ RollbackInv'
<1> DEFINE e == op.before[op.path]
<1>1. /\ Running /\ op # Idle /\ op.pc = "load" /\ op.kind \notin Sweeping
      /\ op'.kind = op.kind /\ op'.path = op.path /\ op'.before = op.before
      /\ op'.rollback = op.rollback /\ op'.sweep = op.sweep
      /\ op'.pc = IF op.kind \in Discards THEN "act" ELSE "refresh"
  BY CallTypes DEF EnsureLoaded, InFlight, Running, Inherited, TypeInv, WorksOnLoaded, Call
<1>2. /\ op.path \in Paths /\ disk[op.path] \in Sources /\ entries \in Entries
      /\ e = entries[op.path]
  BY <1>1, CallTypes DEF Inherited, CallInv, Shape
<1>3. PICK f : /\ entries' = [entries EXCEPT ![op.path] = f]
               /\ IF op.kind = "open" THEN Opened(e, f) ELSE Fetched(e, f)
  <2>1. CASE Loaded(op.path) /\ op.kind # "open"
    BY <1>1, <1>2, <2>1 DEF EnsureLoaded, Fetched, Loaded, Entries
  <2>2. CASE Loaded(op.path) /\ op.kind = "open"
    <3>1. PICK s \in Sources :
             entries' = [entries EXCEPT ![op.path] = OverriddenEntry(@, disk[op.path], s)]
      BY <2>2 DEF EnsureLoaded
    <3>2. entries[op.path] \in Entry
      BY <1>1, <2>2, CallTypes DEF Inherited
    <3>3. Opened(e, OverriddenEntry(entries[op.path], disk[op.path], s))
      BY <1>2, <2>2, <3>2 DEF OverriddenEntry, Opened, Loaded, Entry
    <3> QED
      BY <2>2, <3>1, <3>3
  <2>3. CASE ~Loaded(op.path)
    <3>1. PICK s \in Sources :
             /\ entries' = [entries EXCEPT ![op.path] = InitialEntry(disk[op.path], s)]
             /\ op.kind # "open" => s = disk[op.path]
      BY <1>2, <2>3 DEF EnsureLoaded
    <3>2. IF op.kind = "open" THEN Opened(e, InitialEntry(disk[op.path], s))
          ELSE Fetched(e, InitialEntry(disk[op.path], s))
      BY <1>2, <2>3, <3>1, FirstLoad DEF Loaded
    <3> QED
      BY <3>1, <3>2
  <2> QED
    BY <2>1, <2>2, <2>3
<1>4. Shape(op.before[op.path], f)'
  BY <1>1, <1>3 DEF Shape, Discards
<1>5. CallInv'
  BY <1>1, <1>3, <1>4, WorkKeepsCallInv
<1>6. op.kind \in Discards => op.kind \notin Patching \cup {"edit"}
  BY DEF Discards, Patching
<1>7. RollbackInv'
  BY <1>1, <1>6, WorkKeepsRollback
<1> QED
  BY <1>5, <1>7

LEMMA RefreshKeepsCallInv ==
    ASSUME Inherited, CallInv, RollbackInv, RefreshLoaded
    PROVE  CallInv' /\ RollbackInv'
<1> DEFINE e == op.before[op.path]
<1>1. /\ Running /\ op # Idle /\ op.pc = "refresh" /\ op.kind \notin Sweeping
      /\ op'.kind = op.kind /\ op'.path = op.path /\ op'.before = op.before
      /\ op'.sweep = op.sweep
      /\ op'.pc = IF op.kind \in Commits THEN "gate" ELSE "act"
      /\ op'.rollback =
            IF op.kind \in Patching \cup {"edit"} /\ op.rollback = NoRollback
            THEN entries' ELSE op.rollback
  BY CallTypes DEF RefreshLoaded, InFlight, Running, Inherited, Call
<1>2. /\ op.path \in Paths /\ disk[op.path] \in Sources /\ entries \in Entries
      /\ e \in Entry \cup {NotLoaded} /\ entries[op.path] \in Entry
  BY <1>1, CallTypes DEF Inherited, TypeInv, WorksOnLoaded
<1>3. PICK f : f = RefreshIfClean(entries[op.path], disk[op.path])
  OBVIOUS
<1>4. entries' = [entries EXCEPT ![op.path] = f] /\ f \in Entry
  BY <1>2, <1>3, EntryTypes DEF RefreshLoaded
<1>5. /\ op.kind = "open" => OpenedAndRefreshed(e, f)
      /\ op.kind # "open" => Brought(e, f)
  <2>1. CASE op.kind = "open"
    <3>1. Opened(e, entries[op.path])
      BY <1>1, <2>1 DEF CallInv, Shape
    <3>2. CoherentEntry(entries[op.path])
      BY <1>2, SentinelAssumption DEF Inherited, DirtyInv, Coherent
    <3>3. Refreshed(entries[op.path], f)
      BY <1>2, <1>3, RefreshIsRefreshed
    <3> QED
      BY <1>2, <2>1, <3>1, <3>2, <3>3 DEF OpenedAndRefreshed
  <2>2. CASE op.kind # "open"
    <3>1. Fetched(e, entries[op.path])
      BY <1>1, <2>2 DEF CallInv, Shape
    <3> QED
      BY <1>2, <1>3, <2>2, <3>1, FetchedThenRefreshed
  <2> QED
    BY <2>1, <2>2
<1>6. Shape(op.before[op.path], f)'
  <2>1. CASE op.kind \in Commits
    BY <1>1, <1>5, <2>1 DEF Shape, Commits
  <2>2. CASE op.kind \notin Commits /\ op.kind \notin Discards
    BY <1>1, <1>4, <1>5, <2>2 DEF Shape
  <2>3. op.kind \notin Discards
    BY <1>1 DEF RollbackInv
  <2> QED
    BY <2>1, <2>2, <2>3
<1>7. CallInv'
  BY <1>1, <1>4, <1>6, WorkKeepsCallInv
<1>8. RollbackInv'
  <2>1. CASE op.kind \in Patching \cup {"edit"}
    <3>1. op.kind \notin Discards \cup Commits /\ op.kind # "open"
      BY <2>1 DEF Patching, Discards, Commits
    <3>2. entries' # NoRollback
      BY <1>2, <1>4, SentinelAssumption DEF Entries
    <3>3. /\ \A q \in Paths \ {op.path} : entries'[q] = op.before[q]
          /\ Brought(op.before[op.path], entries'[op.path])
          /\ entries'[op.path] # NotLoaded
      BY <1>1, <1>2, <1>4, <1>5, <3>1, SentinelAssumption DEF CallInv, Entries
    <3>4. op'.rollback \in {entries', op.rollback} /\ op'.rollback # NoRollback
      BY <1>1, <2>1, <3>2
    <3> QED
      BY <1>1, <2>1, <3>1, <3>3, <3>4 DEF RollbackInv, Running
  <2>2. CASE op.kind \notin Patching \cup {"edit"}
    <3>1. op.kind \notin Discards /\ op'.rollback = op.rollback /\ op'.pc # "sync"
      BY <1>1, <2>2 DEF RollbackInv
    <3> QED
      BY <1>1, <2>2, <3>1 DEF RollbackInv, Running
  <2> QED
    BY <2>1, <2>2
<1> QED
  BY <1>7, <1>8

LEMMA SweepKeepsCallInv ==
    ASSUME Inherited, CallInv, RollbackInv,
           (\E q \in Paths : RefreshNext(q)) \/ SweepDone
    PROVE  CallInv' /\ RollbackInv'
<1>1. /\ Running /\ op # Idle /\ op.pc = "refresh"
      /\ op'.kind = op.kind /\ op'.path = op.path /\ op'.before = op.before
      /\ op'.rollback = op.rollback
  BY CallTypes DEF RefreshNext, SweepDone, InFlight, Running, Inherited, Call
<1>2. CASE SweepDone
  <2>1. op.kind \in Sweeping /\ op'.pc = "act" /\ op'.sweep = op.sweep /\ entries' = entries
    BY <1>1, <1>2, CallTypes DEF SweepDone, Inherited, Call
  <2>2. op.kind \notin Patching \cup {"edit"} \cup Discards
    BY <2>1 DEF Sweeping, Patching, Discards
  <2> QED
    BY <1>1, <2>1, <2>2 DEF CallInv, RollbackInv, Running
<1>3. CASE \E q \in Paths : RefreshNext(q)
  <2>1. PICK q \in Paths : RefreshNext(q)
    BY <1>3
  <2>2. /\ op'.pc = op.pc /\ op'.sweep = op.sweep \ {q} /\ q \in op.sweep
        /\ op.sweep \subseteq Paths
    BY <1>1, <2>1, CallTypes DEF RefreshNext, Inherited, Call
  <2>3. op.kind \in Sweeping
    BY <1>1, <2>2 DEF CallInv
  <2>4. PICK f : f = RefreshIfClean(entries[q], disk[q])
    OBVIOUS
  <2>5. entries' = [entries EXCEPT ![q] = f] /\ entries \in Entries
    BY <1>1, <2>1, <2>4, CallTypes DEF RefreshNext, Inherited
  <2>6. entries[q] = op.before[q] /\ entries[q] \in Entry /\ disk[q] \in Sources
    BY <1>1, <2>2, <2>3, <2>5, CallTypes DEF CallInv, Inherited, TypeInv, WorksOnLoaded, Loaded, Entries
  <2>7. op.before[q] # NotLoaded /\ Refreshed(op.before[q], f)
    BY <2>4, <2>6, SentinelAssumption, RefreshIsRefreshed
  <2>8. CallInv'
    <3> SUFFICES ASSUME NEW r \in Paths
                 PROVE  /\ r \in op'.sweep => entries'[r] = op'.before[r]
                        /\ IF op'.before[r] = NotLoaded THEN entries'[r] = NotLoaded
                           ELSE Refreshed(op'.before[r], entries'[r])
      BY <1>1, <2>3 DEF CallInv
    <3>1. CASE r = q
      BY <1>1, <2>2, <2>5, <2>7, <3>1 DEF Entries
    <3>2. CASE r # q
      <4>1. entries'[r] = entries[r]
        BY <2>5, <3>2 DEF Entries
      <4> QED
        BY <1>1, <2>2, <2>3, <4>1 DEF CallInv
    <3> QED
      BY <3>1, <3>2
  <2>9. op.kind \notin Patching \cup {"edit"} \cup Discards
    BY <2>3 DEF Sweeping, Patching, Discards
  <2> QED
    BY <1>1, <2>2, <2>8, <2>9 DEF RollbackInv, Running
<1> QED
  BY <1>2, <1>3

\* Edits of a batch add up, and a patch is one edit.
LEMMA EditKeepsCallInv ==
    ASSUME Inherited, CallInv, RollbackInv, ApplyLoadedEdit \/ PatchApplied
    PROVE  CallInv' /\ RollbackInv'
<1> DEFINE e == op.before[op.path]
<1>1. /\ Running /\ op # Idle /\ op.pc = "act" /\ op.kind \in Patching \cup {"edit"}
      /\ op'.kind = op.kind /\ op'.path = op.path /\ op'.before = op.before
      /\ op'.rollback = op.rollback /\ op'.sweep = op.sweep
      /\ op.kind = "edit" => op'.pc = "act"
      /\ op.kind \in Patching => op'.pc = "gate"
  BY CallTypes DEF ApplyLoadedEdit, PatchApplied, InFlight, Running, Inherited, Call, Patching
<1>2. /\ op.kind \notin Sweeping \cup Discards \cup Commits /\ op.kind # "open"
      /\ op.kind = "edit" \/ op.kind \in Patching
  BY <1>1 DEF Sweeping, Discards, Commits, Patching
<1>3. PICK s \in Sources : entries' = [entries EXCEPT ![op.path] = EditedEntry(@, s)]
  BY DEF ApplyLoadedEdit, PatchApplied
<1>4. /\ op.path \in Paths /\ entries \in Entries /\ entries[op.path] \in Entry
  BY <1>1, <1>2, CallTypes DEF Inherited, TypeInv, WorksOnLoaded
<1>5. PICK f : f = EditedEntry(entries[op.path], s)
  OBVIOUS
<1>6. PatchedFrom(entries[op.path], f) /\ f \in Entry
  BY <1>4, <1>5, EntryTypes DEF EditedEntry, PatchedFrom, Entry
<1>7. Shape(op.before[op.path], f)'
  <2>1. CASE op.kind \in Patching
    <3>1. Brought(e, entries[op.path])
      BY <1>1, <1>2, <2>1 DEF CallInv, Shape, Patching
    <3> QED
      BY <1>1, <1>2, <1>4, <1>6, <2>1, <3>1 DEF Shape
  <2>2. CASE op.kind = "edit"
    <3>1. PICK b \in Entry : Brought(e, b) /\ (entries[op.path] = b \/ EditedFrom(b, entries[op.path]))
      BY <1>1, <1>2, <2>2 DEF CallInv, Shape
    <3>2. EditedFrom(b, f)
      BY <1>4, <1>6, <3>1 DEF EditedFrom, PatchedFrom, Entry
    <3> QED
      BY <1>1, <1>2, <2>2, <3>1, <3>2 DEF Shape
  <2> QED
    BY <1>2, <2>1, <2>2
<1>8. CallInv'
  BY <1>1, <1>2, <1>3, <1>5, <1>7, WorkKeepsCallInv
<1>9. RollbackInv'
  BY <1>1, <1>2, WorkKeepsRollback DEF Patching
<1> QED
  BY <1>8, <1>9

LEMMA WriteKeepsCallInv ==
    ASSUME Inherited, CallInv, RollbackInv, CommitLoadedFile
    PROVE  CallInv' /\ RollbackInv'
<1> DEFINE e == op.before[op.path]
<1>1. /\ Running /\ op # Idle /\ op.pc = "gate" /\ op.kind \in Commits \cup {"patch_commit"}
      /\ op'.kind = op.kind /\ op'.path = op.path /\ op'.before = op.before
      /\ op'.rollback = op.rollback /\ op'.sweep = op.sweep /\ op'.pc = "sync"
  BY CallTypes DEF CommitLoadedFile, InFlight, Running, Inherited, Call
<1>2. /\ op.kind \notin Sweeping \cup Discards
      /\ op.kind = "patch_commit" <=> op.kind \notin Commits
      /\ op.kind \in Commits => op.kind \notin Patching \cup {"edit"}
  BY <1>1 DEF Sweeping, Discards, Commits, Patching
<1>3. /\ op.path \in Paths /\ entries \in Entries /\ entries[op.path] \in Entry
      /\ CoherentEntry(entries[op.path])
  BY <1>1, <1>2, CallTypes, SentinelAssumption DEF Inherited, TypeInv, WorksOnLoaded, DirtyInv, Coherent
<1>4. PICK f : f = PersistedEntry(entries[op.path], SyncNeeded(entries[op.path]))
  OBVIOUS
<1>5. entries' = [entries EXCEPT ![op.path] = f]
  BY <1>4 DEF CommitLoadedFile
<1>6. /\ OnDisk(f)
      /\ f.source = entries[op.path].source /\ f.version = entries[op.path].version
  BY <1>3, <1>4 DEF PersistedEntry, OnDisk, CoherentEntry, Entry
<1>7. Shape(op.before[op.path], f)'
  <2>1. CASE op.kind \in Commits
    <3>1. Brought(e, entries[op.path])
      BY <1>1, <1>2, <2>1 DEF CallInv, Shape
    <3> QED
      BY <1>1, <1>3, <1>6, <2>1, <3>1 DEF Shape
  <2>2. CASE op.kind \notin Commits
    <3>1. PICK b \in Entry : Brought(e, b) /\ PatchedFrom(b, entries[op.path])
      BY <1>1, <1>2, <2>2 DEF CallInv, Shape
    <3> QED
      BY <1>1, <1>6, <2>2, <3>1 DEF Shape, PatchedFrom
  <2> QED
    BY <2>1, <2>2
<1>8. CallInv'
  BY <1>1, <1>2, <1>5, <1>7, WorkKeepsCallInv
<1>9. RollbackInv'
  BY <1>1, <1>2, WorkKeepsRollback
<1> QED
  BY <1>8, <1>9

LEMMA SyncKeepsCallInv ==
    ASSUME Inherited, CallInv, RollbackInv, NEW w \in Workspaces, SyncRegisteredIndex(w)
    PROVE  CallInv' /\ RollbackInv'
<1>1. /\ Running /\ op # Idle /\ op'.pc = op.pc
      /\ op'.kind = op.kind /\ op'.path = op.path /\ op'.before = op.before
      /\ op'.rollback = op.rollback /\ op'.sweep = op.sweep
      /\ entries' = entries
  BY CallTypes DEF SyncRegisteredIndex, InFlight, Running, Inherited, Call
<1> QED
  BY <1>1 DEF CallInv, RollbackInv, Running, Shape

\* Steps that end a call, and steps outside of calls.
LEMMA EndKeepsCallInv ==
    ASSUME Inherited,
           \/ Report \/ EditsDone \/ PatchBlocked \/ VirtualPatchDone \/ DiscardFile
           \/ CommitDone \/ Fail \/ Return
    PROVE  ~Running'
BY CallTypes DEF Report, EditsDone, PatchBlocked, VirtualPatchDone, DiscardFile, CommitDone,
   Fail, Return, Succeed, InFlight, Running, Inherited, Call

LEMMA OutsideKeepsCallInv ==
    ASSUME CallInv, RollbackInv, UNCHANGED <<entries, op>>
    PROVE  CallInv' /\ RollbackInv'
BY DEF CallInv, RollbackInv, Running, Shape

LEMMA OutsideSteps ==
    ASSUME \/ \E w \in Workspaces : RegisterSymbolIndex(w) \/ UnregisterSymbolIndex(w)
           \/ RefreshRegisteredSymbolIndexes
           \/ \E p \in Paths, s \in Sources : ExternalWrite(p, s)
           \/ UNCHANGED vars
    PROVE  UNCHANGED <<entries, op>>
BY DEF RegisterSymbolIndex, UnregisterSymbolIndex, RefreshRegisteredSymbolIndexes,
   ExternalWrite, vars

LEMMA NextCallInv ==
    ASSUME Inherited, CallInv, RollbackInv, [Next]_vars
    PROVE  CallInv' /\ RollbackInv'
<1>1. ASSUME \/ Report \/ EditsDone \/ PatchBlocked \/ VirtualPatchDone \/ DiscardFile
             \/ CommitDone \/ Fail \/ Return
      PROVE  CallInv' /\ RollbackInv'
  BY <1>1, EndKeepsCallInv DEF CallInv, RollbackInv
<1>2. ASSUME \/ \E w \in Workspaces : RegisterSymbolIndex(w) \/ UnregisterSymbolIndex(w)
             \/ RefreshRegisteredSymbolIndexes
             \/ \E p \in Paths, s \in Sources : ExternalWrite(p, s)
             \/ UNCHANGED vars
      PROVE  CallInv' /\ RollbackInv'
  BY <1>2, OutsideSteps, OutsideKeepsCallInv
<1> QED
  BY <1>1, <1>2, BeginKeepsCallInv, LoadKeepsCallInv, RefreshKeepsCallInv, SweepKeepsCallInv,
     EditKeepsCallInv, WriteKeepsCallInv, SyncKeepsCallInv DEF Next

-----------------------------------------------------------------------------
(* Unsaved text and failed calls.                                          *)

LEMMA FailLeavesNoEdits ==
    ASSUME Inherited, CallInv, RollbackInv, Fail
    PROVE  FailedCallsLeaveNoEdits'
<1>1. /\ Running /\ op # Idle /\ op'.kind = op.kind /\ op'.before = op.before
      /\ op'.rollback = op.rollback /\ entries' = AfterFailure
  BY CallTypes DEF Fail, Running, Inherited, Call
<1>2. op.before \in Entries /\ op.before # NoRollback
  BY <1>1, CallTypes, SentinelAssumption DEF Inherited
<1> SUFFICES ASSUME op.kind = "open" => op.rollback # NoRollback,
                    NEW p \in Paths, entries'[p] # NotLoaded, entries'[p].dirty
             PROVE  entries'[p] = op.before[p]
  BY <1>1 DEF FailedCallsLeaveNoEdits, Loaded
<1>3. CASE entries' = op.rollback /\ op.rollback # NoRollback
  BY <1>1, <1>3, BroughtKeepsUnsaved DEF RollbackInv
<1>4. CASE entries' = entries /\ (op.rollback = NoRollback \/ op.pc = "sync")
  <2>1. CASE op.kind \in Sweeping
    BY <1>1, <1>4, <2>1 DEF CallInv, Refreshed, OnDisk
  <2>2. CASE op.kind \notin Sweeping /\ p # op.path
    BY <1>1, <1>4, <2>2 DEF CallInv
  <2>3. CASE op.kind \notin Sweeping /\ p = op.path
    <3>1. Shape(op.before[p], entries[p])
      BY <1>1, <2>3 DEF CallInv
    <3>2. CASE op.pc = "sync"
      BY <1>4, <3>1, <3>2 DEF Shape, OnDisk
    <3>3. CASE op.pc # "sync"
      <4>1. /\ op.kind \notin Discards /\ op.kind # "open"
            /\ op.kind \in Patching \cup {"edit"} => op.pc \notin {"act", "gate"}
        BY <1>1, <1>2, <1>4, <3>3 DEF RollbackInv
      <4>2. op.pc \in {"load", "refresh", "act", "gate"}
        BY <1>1, <3>3 DEF Fail
      <4>3. op.pc = "gate" => op.kind \in Commits
        BY <1>1, <4>1 DEF Inherited, SyncInv
      <4>4. entries[p] = op.before[p] \/ Brought(op.before[p], entries[p])
        BY <3>1, <4>1, <4>2, <4>3, FetchedIsBrought DEF Shape
      <4> QED
        BY <1>4, <4>4, BroughtKeepsUnsaved
    <3> QED
      BY <3>2, <3>3
  <2> QED
    BY <2>1, <2>2, <2>3
<1> QED
  BY <1>1, <1>3, <1>4 DEF AfterFailure

LEMMA NextFailedCalls ==
    ASSUME Inherited, CallInv, RollbackInv, FailedCallsLeaveNoEdits, [Next]_vars
    PROVE  FailedCallsLeaveNoEdits'
<1>1. CASE Fail
  BY <1>1, FailLeavesNoEdits
<1>2. ASSUME \/ Report \/ EditsDone \/ PatchBlocked \/ VirtualPatchDone \/ DiscardFile \/ CommitDone
      PROVE  op'.ok
  BY <1>2, CallTypes DEF Report, EditsDone, PatchBlocked, VirtualPatchDone, DiscardFile,
     CommitDone, Succeed, InFlight, Inherited, Call
<1>3. CASE UNCHANGED <<entries, op>>
  BY <1>3 DEF FailedCallsLeaveNoEdits, InFlight, Loaded
<1>4. CASE BeginCall
  BY <1>4, BeginStarts DEF Start, FailedCallsLeaveNoEdits, InFlight
<1>5. ASSUME \/ EnsureLoaded \/ RefreshLoaded \/ SweepDone \/ ApplyLoadedEdit \/ PatchApplied
             \/ CommitLoadedFile \/ Return
      PROVE  op' = Idle \/ op'.pc # "return"
  <2>1. EnsureLoaded => op'.pc \in {"act", "refresh"}
    BY CallTypes DEF EnsureLoaded, InFlight, Inherited, Call
  <2>2. RefreshLoaded => op'.pc \in {"act", "gate"}
    BY CallTypes DEF RefreshLoaded, InFlight, Inherited, Call
  <2> QED
    BY <1>5, <2>1, <2>2, CallTypes DEF SweepDone, ApplyLoadedEdit, PatchApplied,
       CommitLoadedFile, Return, InFlight, Inherited, Call
<1>6. ASSUME \/ \E q \in Paths : RefreshNext(q)
             \/ \E w \in Workspaces : SyncRegisteredIndex(w)
      PROVE  op'.pc # "return"
  BY <1>6, CallTypes DEF RefreshNext, SyncRegisteredIndex, InFlight, Inherited, Call
<1> QED
  BY <1>1, <1>2, <1>3, <1>4, <1>5, <1>6, OutsideSteps DEF Next, FailedCallsLeaveNoEdits, InFlight

LEMMA InitCallInv ==
    ASSUME Init
    PROVE  Inherited /\ CallInv /\ RollbackInv /\ FailedCallsLeaveNoEdits
<1>1. SyncInv
  BY DEF Init, SyncInv, Tracked, Nothing, CommitSettlesDebt, InFlight
<1>2. DirtyInv
  BY DEF Init, DirtyInv, Coherent
<1> QED
  BY <1>1, <1>2, InitTypeInv DEF Init, Inherited, CallInv, RollbackInv, Running,
     FailedCallsLeaveNoEdits, InFlight

LEMMA NextInherited ==
    ASSUME Inherited, [Next]_vars
    PROVE  Inherited'
BY NextTypeInv, NextDirtyInv, NextSyncInv DEF Inherited

\* A call that fails leaves no edit behind, wherever it fails: a buffer that
\* is dirty after it is the buffer from before it.
THEOREM FailuresLeaveNoEdits == Spec => []FailedCallsLeaveNoEdits
BY InitCallInv, NextInherited, NextCallInv, NextFailedCalls, PTL DEF Spec

-----------------------------------------------------------------------------
(* What calls report of clean buffers.                                     *)

\* A refreshed entry that is clean has the text of the disk.
LEMMA RefreshedIsFresh ==
    ASSUME NEW e \in Entry, CoherentEntry(e), NEW s \in Sources, ~RefreshIfClean(e, s).dirty
    PROVE  RefreshIfClean(e, s).source = s
<1>1. CASE e.dirty
  BY <1>1 DEF RefreshIfClean
<1>2. CASE ~e.dirty /\ s = e.disk_source
  BY <1>2 DEF RefreshIfClean, CoherentEntry, Entry
<1>3. CASE ~e.dirty /\ s # e.disk_source
  BY <1>3 DEF RefreshIfClean, Entry
<1> QED
  BY <1>1, <1>2, <1>3

LEMMA DiscardedIsFresh ==
    ASSUME NEW e \in Entry, NEW s \in Sources
    PROVE  DiscardedEntry(e, s).source = s
BY DEF DiscardedEntry, Entry

\* Where the texts a file held only grow, fresh entries stay fresh.
LEMMA FreshKept ==
    ASSUME NEW p, FreshAt(p), entries'[p] = entries[p], seen[p] \subseteq seen'[p]
    PROVE  FreshAt(p)'
BY DEF FreshAt, Loaded

LEMMA RefreshingIsFresh ==
    ASSUME Inherited, FreshInv, (RefreshLoaded \/ \E q \in Paths : RefreshNext(q))
    PROVE  FreshInv'
<1>1. /\ op # Idle /\ op.pc = "refresh" /\ op'.kind = op.kind /\ op'.path = op.path
      /\ seen' = seen /\ disk' = disk
  <2>1. op # Idle /\ op.pc = "refresh" /\ seen' = seen /\ disk' = disk
    BY DEF RefreshLoaded, RefreshNext, InFlight
  <2>2. op \in Call
    BY <2>1, CallTypes DEF Inherited
  <2>3. RefreshLoaded => op'.kind = op.kind /\ op'.path = op.path
    BY <2>2 DEF RefreshLoaded, Call
  <2>4. ASSUME NEW q \in Paths, RefreshNext(q)
        PROVE  op'.kind = op.kind /\ op'.path = op.path
    BY <2>2, <2>4 DEF RefreshNext, Call
  <2> QED
    BY <2>1, <2>3, <2>4
<1>2. \A q \in Paths : disk[q] \in Sources /\ disk[q] \in seen[q]
  BY <1>1, CallTypes DEF FreshInv, Inherited
<1>3. ASSUME NEW q \in Paths, Loaded(q),
             entries' = [entries EXCEPT ![q] = RefreshIfClean(@, disk[q])]
      PROVE  FreshAt(q)'
  <2>1. entries \in Entries /\ entries[q] \in Entry /\ CoherentEntry(entries[q])
    BY <1>1, <1>3, CallTypes DEF Inherited, DirtyInv, Coherent, Loaded, Entries
  <2>2. entries'[q] = RefreshIfClean(entries[q], disk[q])
    BY <1>3, <2>1 DEF Entries
  <2>3. ~entries'[q].dirty => entries'[q].source = disk[q]
    BY <1>2, <2>1, <2>2, RefreshedIsFresh
  <2> QED
    BY <1>1, <1>2, <2>3 DEF FreshAt
<1>4. CASE RefreshLoaded
  <2>1. op'.pc \in {"act", "gate"} /\ op.kind \notin Sweeping
    BY <1>4, <1>1, CallTypes DEF RefreshLoaded, Inherited, Call
  <2>2. FreshAt(op.path)'
    BY <1>1, <1>3, <1>4, <2>1, CallTypes DEF RefreshLoaded, Inherited, TypeInv, WorksOnLoaded
  <2> QED
    BY <1>1, <1>2, <2>1, <2>2 DEF FreshInv, CleanReportsAreFresh, InFlight
<1>5. CASE \E q \in Paths : RefreshNext(q)
  <2>1. PICK q \in Paths : RefreshNext(q)
    BY <1>5
  <2>2. /\ op'.pc = "refresh" /\ op'.sweep = op.sweep \ {q} /\ q \in op.sweep
        /\ entries' = [entries EXCEPT ![q] = RefreshIfClean(@, disk[q])]
        /\ Loaded(q) /\ entries \in Entries
    BY <1>1, <2>1, CallTypes DEF RefreshNext, Inherited, TypeInv, WorksOnLoaded, Call
  <2>3. FreshAt(q)'
    BY <1>3, <2>2
  <2>4. ASSUME NEW r \in Paths \ op.sweep, op.kind \in Sweeping
        PROVE  FreshAt(r)'
    <3>1. FreshAt(r)
      BY <1>1, <2>4 DEF FreshInv
    <3>2. entries'[r] = entries[r]
      BY <2>2, <2>4 DEF Entries
    <3> QED
      BY <1>1, <3>1, <3>2, FreshKept
  <2>5. \A r \in Paths \ op'.sweep : r = q \/ r \in Paths \ op.sweep
    BY <2>2
  <2> QED
    BY <1>1, <1>2, <2>2, <2>3, <2>4, <2>5 DEF FreshInv, CleanReportsAreFresh, InFlight
<1> QED
  BY <1>4, <1>5

LEMMA WritingIsFresh ==
    ASSUME Inherited, FreshInv, CommitLoadedFile
    PROVE  FreshInv'
<1> DEFINE e == entries[op.path]
<1>1. /\ op # Idle /\ op.pc = "gate" /\ op'.kind = op.kind /\ op'.path = op.path
      /\ op'.pc = "sync" /\ op.kind \in Commits \cup {"patch_commit"}
      /\ op.kind \notin Sweeping
  <2>1. op # Idle /\ op.pc = "gate" /\ op.kind \in Commits \cup {"patch_commit"}
    BY DEF CommitLoadedFile, InFlight
  <2>2. op'.kind = op.kind /\ op'.path = op.path /\ op'.pc = "sync"
    BY <2>1, CallTypes DEF CommitLoadedFile, Inherited, Call
  <2> QED
    BY <2>1, <2>2 DEF Commits, Sweeping
<1>2. /\ op.path \in Paths /\ entries \in Entries /\ e \in Entry
      /\ seen \in [Paths -> SUBSET Sources] /\ disk \in [Paths -> Sources]
  BY <1>1, CallTypes DEF Inherited, TypeInv, TypeOK, WorksOnLoaded
<1>3. /\ disk' = IF e.dirty THEN [disk EXCEPT ![op.path] = e.source] ELSE disk
      /\ seen' = [seen EXCEPT ![op.path] = @ \cup {disk'[op.path]}]
      /\ entries' = [entries EXCEPT ![op.path] = PersistedEntry(@, SyncNeeded(e))]
  BY DEF CommitLoadedFile
<1>4. \A p \in Paths : disk'[p] \in seen'[p]
  BY <1>1, <1>2, <1>3 DEF FreshInv
<1>5. ASSUME op.kind \in Commits
      PROVE  FreshAt(op.path)'
  <2>1. entries'[op.path].source = e.source
    BY <1>2, <1>3 DEF PersistedEntry, Entries, Entry
  <2>2. CASE e.dirty
    <3>1. disk'[op.path] = e.source
      BY <1>2, <1>3, <2>2
    <3> QED
      BY <1>1, <1>2, <1>4, <2>1, <3>1 DEF FreshAt
  <2>3. CASE ~e.dirty
    <3>1. e.source \in seen[op.path]
      BY <1>1, <1>2, <1>5, <2>3, SentinelAssumption DEF FreshInv, FreshAt, Loaded
    <3>2. seen[op.path] \subseteq seen'[op.path]
      BY <1>2, <1>3
    <3> QED
      BY <1>1, <2>1, <3>1, <3>2 DEF FreshAt
  <2> QED
    BY <2>2, <2>3
<1>6. op.kind \in Reading => op.kind \notin Commits \cup {"patch_commit"}
  BY DEF Reading, Commits
<1> QED
  BY <1>1, <1>4, <1>5, <1>6 DEF FreshInv, CleanReportsAreFresh, InFlight

\* The last step of a call touches nothing but the entries and the debt.
LEMMA EndOfCall ==
    ASSUME Inherited, EndsCall
    PROVE  /\ Running /\ op # Idle /\ op'.pc = "return"
           /\ op'.kind = op.kind /\ op'.path = op.path
           /\ UNCHANGED <<disk, seen>>
<1>1. op # Idle /\ op.pc # "return" /\ disk' = disk /\ seen' = seen
  BY DEF EndsCall, Report, EditsDone, PatchBlocked, VirtualPatchDone, DiscardFile, CommitDone,
         Fail, InFlight
<1>2. \E ok \in BOOLEAN : op' = [op EXCEPT !.pc = "return", !.ok = ok]
  BY Zenon DEF EndsCall, Report, EditsDone, PatchBlocked, VirtualPatchDone, DiscardFile,
     CommitDone, Fail, Succeed
<1> QED
  BY <1>1, <1>2, CallTypes DEF Inherited, Call, Running

\* The report at the end of a call.
LEMMA EndingIsFresh ==
    ASSUME Inherited, RollbackInv, FreshInv, EndsCall
    PROVE  FreshInv'
<1>1. /\ op # Idle /\ op'.pc = "return" /\ op'.kind = op.kind /\ op'.path = op.path
      /\ disk' = disk /\ seen' = seen
  BY EndOfCall
<1>2. op.path \in Paths /\ entries \in Entries /\ op \in Call
  BY <1>1, CallTypes DEF Inherited
<1>3. CASE EditsDone \/ PatchBlocked \/ VirtualPatchDone
  <2>1. op.kind \in Patching \cup {"edit"}
    BY <1>3 DEF EditsDone, PatchBlocked, VirtualPatchDone, Patching
  <2> QED
    BY <1>1, <2>1 DEF FreshInv, CleanReportsAreFresh
<1>4. CASE Fail
  <2>1. ~op'.ok
    BY <1>2, <1>4 DEF Fail, Call
  <2> QED
    BY <1>1, <2>1 DEF FreshInv, CleanReportsAreFresh
<1>5. CASE Report
  <2>1. op.pc = "act" /\ op.kind \in Reading \cup Sweeping /\ Succeed(entries)
    BY <1>5 DEF Report, InFlight
  <2>2. entries' = entries
    BY <2>1 DEF Succeed, Reading, Sweeping, Closing
  <2>3. \A p \in Paths : op.kind \in Sweeping \/ p = op.path => FreshAt(p)
    BY <1>1, <2>1 DEF FreshInv
  <2> QED
    BY <1>1, <2>2, <2>3 DEF FreshInv, CleanReportsAreFresh, FreshAt, Loaded
<1>6. CASE CommitDone
  <2> DEFINE es == [entries EXCEPT ![op.path] = [@ EXCEPT !.index_sync_pending = FALSE]]
  <2>1. op.pc = "sync" /\ Succeed(es) /\ entries[op.path] \in Entry /\ op.kind \notin Sweeping
    BY <1>1, <1>2, <1>6, CallTypes DEF CommitDone, InFlight, Inherited, TypeInv, WorksOnLoaded
  <2>2. op.kind \in Commits => FreshAt(op.path)
    BY <1>1, <2>1 DEF FreshInv
  <2>3. entries'[op.path] = NotLoaded \/ entries'[op.path] = [entries[op.path] EXCEPT !.index_sync_pending = FALSE]
    BY <1>2, <2>1 DEF Succeed, Entries
  <2>4. op.kind \in Commits => FreshAt(op.path)'
    BY <1>1, <2>1, <2>2, <2>3, SentinelAssumption DEF FreshAt, Loaded, Entry
  <2>5. op.kind \in Commits \cup Patching
    BY <1>1, <2>1 DEF RollbackInv, Running, Patching
  <2> QED
    BY <1>1, <2>1, <2>4, <2>5 DEF FreshInv, CleanReportsAreFresh, FreshAt
<1>7. CASE DiscardFile
  <2> DEFINE d == DiscardedEntry(entries[op.path], disk[op.path])
  <2>1. op.pc = "act" /\ op.kind \in Discards /\ Succeed([entries EXCEPT ![op.path] = d])
    BY <1>7 DEF DiscardFile, InFlight
  <2>2. op.kind \notin Sweeping
    BY <2>1 DEF Discards, Sweeping
  <2>3. entries[op.path] \in Entry /\ disk[op.path] \in Sources
    BY <1>1, <2>1, <2>2, CallTypes DEF Inherited, TypeInv, WorksOnLoaded
  <2>4. d.source = disk[op.path]
    BY <2>3, DiscardedIsFresh
  <2>5. entries'[op.path] = NotLoaded \/ entries'[op.path] = d
    BY <1>2, <2>1 DEF Succeed, Entries
  <2>6. FreshAt(op.path)'
    BY <1>1, <1>2, <2>4, <2>5 DEF FreshAt, Loaded, FreshInv
  <2> QED
    BY <1>1, <2>2, <2>6 DEF FreshInv, CleanReportsAreFresh, FreshAt
<1> QED
  BY <1>3, <1>4, <1>5, <1>6, <1>7 DEF EndsCall

LEMMA NextFreshInv ==
    ASSUME Inherited, RollbackInv, FreshInv, [Next]_vars
    PROVE  FreshInv'
<1>1. CASE BeginCall
  <2>1. PICK kind \in Requests, p \in Paths, timed \in BOOLEAN, n \in Nat :
           Start(kind, p, timed, n)
    BY <1>1, BeginStarts
  <2>2. /\ seen' = [q \in Paths |-> {disk[q]}] /\ disk' = disk /\ entries' = entries
        /\ op'.kind = kind /\ op'.pc = IF kind \in Sweeping THEN "refresh" ELSE "load"
        /\ op'.sweep = IF kind \in Sweeping THEN {q \in Paths : Loaded(q)} ELSE {}
    BY <2>1 DEF Start
  <2>3. \A q \in Paths \ {r \in Paths : Loaded(r)} : FreshAt(q)'
    BY <2>2 DEF FreshAt, Loaded
  <2> QED
    BY <2>2, <2>3 DEF FreshInv, CleanReportsAreFresh, InFlight
<1>2. CASE EnsureLoaded
  <2>1. /\ op # Idle /\ op'.kind = op.kind /\ disk' = disk /\ seen' = seen
        /\ op.kind \notin Sweeping
        /\ op'.pc = IF op.kind \in Discards THEN "act" ELSE "refresh"
    BY <1>2, CallTypes DEF EnsureLoaded, InFlight, Inherited, TypeInv, WorksOnLoaded, Call
  <2>2. op.kind \in Reading \cup Commits => op.kind \notin Discards
    BY DEF Reading, Commits, Discards
  <2> QED
    BY <2>1, <2>2 DEF FreshInv, CleanReportsAreFresh, InFlight
<1>3. CASE SweepDone
  <2>1. /\ op # Idle /\ op.pc = "refresh" /\ op.kind \in Sweeping /\ op.sweep = {}
        /\ op'.kind = op.kind /\ op'.pc = "act" /\ UNCHANGED <<disk, seen, entries>>
    BY <1>3, CallTypes DEF SweepDone, InFlight, Inherited, Call
  <2>2. op.kind \notin Reading \cup Commits
    BY <2>1 DEF Sweeping, Reading, Commits
  <2> QED
    BY <2>1, <2>2 DEF FreshInv, FreshAt, Loaded, CleanReportsAreFresh, InFlight
<1>4. CASE ApplyLoadedEdit \/ PatchApplied
  <2>1. /\ op # Idle /\ op.kind \in Patching \cup {"edit"} /\ op'.kind = op.kind
        /\ op'.pc \in {"act", "gate"} /\ UNCHANGED <<disk, seen>>
    BY <1>4, CallTypes DEF ApplyLoadedEdit, PatchApplied, InFlight, Inherited, Call
  <2>2. op.kind \notin Reading \cup Commits \cup Sweeping
    BY <2>1 DEF Patching, Reading, Commits, Sweeping
  <2> QED
    BY <2>1, <2>2 DEF FreshInv, CleanReportsAreFresh, InFlight
<1>5. CASE \E w \in Workspaces : SyncRegisteredIndex(w)
  <2>1. /\ op # Idle /\ op.pc = "sync" /\ op'.kind = op.kind /\ op'.pc = "sync"
        /\ op'.path = op.path /\ UNCHANGED <<disk, seen, entries>>
    BY <1>5, CallTypes DEF SyncRegisteredIndex, InFlight, Inherited, Call
  <2> QED
    BY <2>1 DEF FreshInv, FreshAt, Loaded, CleanReportsAreFresh, InFlight
<1>6. CASE Return
  BY <1>6 DEF Return, FreshInv
<1>7. CASE \E p \in Paths, s \in Sources : ExternalWrite(p, s)
  <2>1. PICK p \in Paths, s \in Sources : ExternalWrite(p, s)
    BY <1>7
  <2>2. SUFFICES ASSUME op # Idle PROVE FreshInv'
    BY <2>1 DEF ExternalWrite, FreshInv
  <2>3. /\ UNCHANGED <<entries, op>>
        /\ disk' = [disk EXCEPT ![p] = s] /\ seen' = [seen EXCEPT ![p] = @ \cup {s}]
        /\ disk \in [Paths -> Sources] /\ seen \in [Paths -> SUBSET Sources]
    BY <2>1, <2>2 DEF ExternalWrite, Inherited, TypeInv, TypeOK
  <2>4. \A q \in Paths : disk'[q] \in seen'[q] /\ seen[q] \subseteq seen'[q]
    BY <2>2, <2>3 DEF FreshInv
  <2>5. \A q \in Paths : FreshAt(q) => FreshAt(q)'
    BY <2>3, <2>4, FreshKept
  <2>6. CleanReportsAreFresh'
    BY <2>2, <2>3, <2>4 DEF FreshInv, CleanReportsAreFresh, InFlight, Loaded
  <2>7. op.path \in Paths
    BY <2>2, CallTypes DEF Inherited
  <2> QED
    BY <2>2, <2>3, <2>4, <2>5, <2>6, <2>7 DEF FreshInv
<1>8. ASSUME \/ \E w \in Workspaces : RegisterSymbolIndex(w) \/ UnregisterSymbolIndex(w)
             \/ RefreshRegisteredSymbolIndexes
             \/ UNCHANGED vars
      PROVE  FreshInv'
  <2>1. UNCHANGED <<disk, entries, op, seen>>
    BY <1>8 DEF RegisterSymbolIndex, UnregisterSymbolIndex, RefreshRegisteredSymbolIndexes, vars
  <2> QED
    BY <2>1 DEF FreshInv, FreshAt, Loaded, CleanReportsAreFresh, InFlight
<1> QED
  BY <1>1, <1>2, <1>3, <1>4, <1>5, <1>6, <1>7, <1>8, RefreshingIsFresh, WritingIsFresh,
     EndingIsFresh DEF Next, EndsCall

LEMMA InitFreshInv ==
    Init => FreshInv
BY DEF Init, FreshInv

\* What a call that succeeds reports of a clean buffer is a text its file held
\* while the call ran, although other programs write between any two of its
\* reads.
THEOREM ReportsAreFresh == Spec => []CleanReportsAreFresh
<1>1. FreshInv => CleanReportsAreFresh
  BY DEF FreshInv, CleanReportsAreFresh, InFlight
<1> QED
  BY <1>1, InitCallInv, InitFreshInv, NextInherited, NextCallInv, NextFreshInv, PTL DEF Spec

-----------------------------------------------------------------------------
(* What a whole call makes of the entry of its file.                       *)

\* Saving e; the text was on disk while the call ran.
Saved(e, f) ==
    /\ OnDisk(f)
    /\ \E b \in Entry : Brought(e, b) /\ f.source = b.source /\ f.version = b.version
Reached(e) == e # NotLoaded /\ e.dirty => e.source \in seen[op.path]

Reverted(e, f) ==
    OnDisk(f) /\ IF e = NotLoaded THEN f.version \in {0, 1} ELSE f.version = e.version + 1

\* How the entry f that a call leaves comes from e, the one the client knew.
Outcome(e, f) ==
    \/ f = e
    \/ f = NotLoaded /\ op.kind \in Closing /\ (op.kind = "close_persist" => Reached(e))
    \/ /\ f \in Entry
       /\ \/ Brought(e, f)
          \/ op.kind = "open" /\ (Opened(e, f) \/ OpenedAndRefreshed(e, f))
          \/ op.kind \in Patching \cup {"edit"} /\ \E b \in Entry : Brought(e, b) /\ EditedFrom(b, f)
          \/ op.kind \in Commits /\ Reached(e) /\ Saved(e, f)
          \/ /\ op.kind = "patch_commit" /\ OnDisk(f)
             /\ \E b \in Entry : Brought(e, b) /\ f.version = b.version + 1
          \/ op.kind \in Discards /\ Reverted(e, f)

CallsInv == Inherited /\ CallInv /\ RollbackInv /\ FreshInv

\* At any place in a call on one file, its entry is a possible outcome.
LEMMA ShapeIsOutcome ==
    ASSUME CallsInv, Running, op.kind \notin Sweeping
    PROVE  Outcome(op.before[op.path], entries[op.path])
<1> DEFINE e == op.before[op.path]
           f == entries[op.path]
<1>1. op # Idle /\ op \in Call /\ op.path \in Paths /\ op.pc # "return" /\ Shape(e, f)
  BY CallTypes DEF CallsInv, Inherited, CallInv, Running
<1>2. op.pc \in {"load", "refresh", "act", "gate", "sync"}
  BY <1>1 DEF Call, Phases
<1>3. op.pc # "load" => f \in Entry
  BY <1>1, <1>2, CallTypes DEF CallsInv, Inherited, TypeInv, WorksOnLoaded
<1> SUFFICES Outcome(e, f)
  OBVIOUS
<1> HIDE DEF e, f
<1>4. CASE op.pc = "load"
  BY <1>1, <1>4 DEF Outcome, Shape
<1>5. CASE op.pc = "refresh"
  BY <1>1, <1>3, <1>5, FetchedIsBrought DEF Outcome, Shape
<1>6. CASE op.pc = "act"
  <2>1. CASE op.kind \in Discards
    BY <1>1, <1>3, <1>6, <2>1, FetchedIsBrought DEF Outcome, Shape
  <2>2. CASE op.kind \notin Discards
    BY <1>1, <1>3, <1>6, <2>2 DEF Outcome, Shape
  <2> QED
    BY <2>1, <2>2
<1>7. CASE op.pc = "gate"
  <2>1. op.kind \in Commits \cup Patching
    BY <1>1, <1>7 DEF CallsInv, Inherited, SyncInv
  <2>2. CASE op.kind \in Commits
    BY <1>1, <1>3, <1>7, <2>2 DEF Outcome, Shape
  <2>3. CASE op.kind \notin Commits
    <3>1. PICK b \in Entry : Brought(e, b) /\ PatchedFrom(b, f)
      BY <1>1, <1>7, <2>3 DEF Shape
    <3>2. EditedFrom(b, f)
      BY <3>1 DEF PatchedFrom, EditedFrom, Entry
    <3> QED
      BY <1>3, <1>7, <2>1, <2>3, <3>1, <3>2 DEF Outcome
  <2> QED
    BY <2>2, <2>3
<1>8. CASE op.pc = "sync"
  <2>1. op.kind \in Commits \cup {"patch_commit"}
    BY <1>8 DEF CallsInv, RollbackInv
  <2>2. CASE op.kind \in Commits
    <3>1. PICK b \in Entry : Brought(e, b) /\ f.source = b.source /\ f.version = b.version
      BY <1>1, <1>8, <2>2 DEF Shape
    <3>2. OnDisk(f)
      BY <1>1, <1>8 DEF Shape
    <3>3. f.source \in seen[op.path]
      BY <1>1, <1>3, <1>8, <2>2, <3>2, SentinelAssumption
         DEF CallsInv, FreshInv, FreshAt, Loaded, OnDisk, f
    <3>4. Reached(e)
      BY <3>1, <3>3, BroughtKeepsUnsaved DEF Reached
    <3> QED
      BY <1>3, <1>8, <2>2, <3>1, <3>2, <3>4 DEF Outcome, Saved
  <2>3. CASE op.kind \notin Commits
    BY <1>1, <1>3, <1>8, <2>1, <2>3 DEF Outcome, Shape
  <2> QED
    BY <2>2, <2>3
<1> QED
  BY <1>2, <1>4, <1>5, <1>6, <1>7, <1>8

LEMMA DiscardOutcome ==
    ASSUME CallsInv, DiscardFile
    PROVE  Outcome(op.before[op.path], entries'[op.path])
<1> DEFINE e == op.before[op.path]
           f == entries[op.path]
<1>1. PICK d : d = DiscardedEntry(entries[op.path], disk[op.path])
  OBVIOUS
<1>2. /\ op # Idle /\ op.pc = "act" /\ op.kind \in Discards /\ Running
      /\ Succeed([entries EXCEPT ![op.path] = d])
  BY <1>1 DEF DiscardFile, InFlight, Running
<1>3. op.kind \notin Sweeping \cup Commits /\ op.kind # "close_persist"
  BY <1>2 DEF Discards, Sweeping, Commits
<1>4. /\ op.path \in Paths /\ disk[op.path] \in Sources /\ entries \in Entries /\ f \in Entry
      /\ CoherentEntry(f)
  BY <1>2, <1>3, CallTypes, SentinelAssumption
     DEF CallsInv, Inherited, TypeInv, WorksOnLoaded, DirtyInv, Coherent, Loaded
<1>5. Fetched(e, f)
  <2>1. Shape(e, f)
    BY <1>2, <1>3 DEF CallsInv, CallInv
  <2>2. op.pc = "act" /\ op.kind \in Discards
    BY <1>2
  <2> HIDE DEF e, f
  <2> QED
    BY <2>1, <2>2 DEF Shape, Discards
<1>6. entries'[op.path] = d \/ (entries'[op.path] = NotLoaded /\ op.kind \in Closing)
  BY <1>2, <1>4 DEF Succeed, Entries
<1>7. d \in Entry
  BY <1>1, <1>4, EntryTypes
<1>8. d = f \/ (OnDisk(d) /\ d.version = f.version + 1)
  BY <1>1, <1>4 DEF DiscardedEntry, OnDisk, Entry
<1> HIDE DEF e, f
<1>9. Brought(e, d) \/ Reverted(e, d)
  <2>1. CASE d = f
    BY <1>5, <2>1, FetchedIsBrought
  <2>2. CASE OnDisk(d) /\ d.version = f.version + 1
    BY <1>5, <2>2 DEF Fetched, Reverted
  <2> QED
    BY <1>8, <2>1, <2>2
<1> QED
  BY <1>2, <1>3, <1>6, <1>7, <1>9 DEF Outcome, e

LEMMA CommitOutcome ==
    ASSUME CallsInv, CommitDone
    PROVE  Outcome(op.before[op.path], entries'[op.path])
<1> DEFINE e == op.before[op.path]
           f == entries[op.path]
<1>1. PICK g : g = [f EXCEPT !.index_sync_pending = FALSE]
  OBVIOUS
<1>2. /\ op # Idle /\ op.pc = "sync" /\ Running
      /\ Succeed([entries EXCEPT ![op.path] = g])
  BY <1>1 DEF CommitDone, InFlight, Running
<1>3. op.kind \in Commits \cup {"patch_commit"}
  BY <1>2 DEF CallsInv, RollbackInv
<1>4. op.kind \notin Sweeping
  BY <1>3 DEF Commits, Sweeping
<1>5. op.path \in Paths /\ entries \in Entries /\ f \in Entry
  BY <1>2, <1>4, CallTypes DEF CallsInv, Inherited, TypeInv, WorksOnLoaded
<1>6. /\ g \in Entry /\ g.source = f.source /\ g.version = f.version
      /\ g.dirty = f.dirty /\ g.disk_source = f.disk_source
  BY <1>1, <1>5 DEF Entry
<1>7. entries'[op.path] = g \/ (entries'[op.path] = NotLoaded /\ op.kind \in Closing)
  BY <1>2, <1>5 DEF Succeed, Entries
<1>8. Shape(e, f) /\ FreshInv
  BY <1>2, <1>4 DEF CallsInv, CallInv
<1>9. op.kind \in Commits => f.source \in seen[op.path]
  BY <1>2, <1>5, <1>8, SentinelAssumption DEF FreshInv, FreshAt, Loaded, Shape, OnDisk
<1> HIDE DEF e, f
<1>10. CASE op.kind \in Commits
  <2>1. PICK b \in Entry : Brought(e, b) /\ f.source = b.source /\ f.version = b.version
    BY <1>2, <1>8, <1>10 DEF Shape
  <2>2. Reached(e)
    BY <1>9, <1>10, <2>1, BroughtKeepsUnsaved DEF Reached
  <2>3. Saved(e, g)
    BY <1>2, <1>6, <1>8, <2>1 DEF Shape, Saved, OnDisk
  <2> QED
    BY <1>6, <1>7, <1>10, <2>2, <2>3 DEF Outcome, e
<1>11. CASE op.kind \notin Commits
  <2>1. op.kind = "patch_commit" /\ op.kind \notin Closing
    BY <1>3, <1>11 DEF Closing
  <2>2. OnDisk(g) /\ \E b \in Entry : Brought(e, b) /\ g.version = b.version + 1
    BY <1>2, <1>6, <1>8, <1>11 DEF Shape, OnDisk
  <2> QED
    BY <1>6, <1>7, <2>1, <2>2 DEF Outcome, e
<1> QED
  BY <1>10, <1>11

\* What is left when a call fails: what it made so far or what it restores.
LEMMA FailOutcome ==
    ASSUME CallsInv, Fail, op.kind \notin Sweeping
    PROVE  /\ Outcome(op.before[op.path], entries'[op.path])
           /\ \A q \in Paths \ {op.path} : entries'[q] = op.before[q]
<1>1. /\ Running /\ op # Idle /\ op \in Call /\ op.path \in Paths /\ entries' = AfterFailure
  BY CallTypes DEF Fail, Running, CallsInv, Inherited
<1>2. CASE entries' = entries
  BY <1>1, <1>2, ShapeIsOutcome DEF CallsInv, CallInv
<1>3. CASE entries' = op.rollback /\ op.rollback # NoRollback
  <2>1. op.rollback \in Entries
    BY <1>1, <1>3 DEF Call
  <2>2. CASE op.rollback = op.before
    BY <1>3, <2>2 DEF Outcome
  <2>3. CASE op.rollback # op.before
    <3>1. /\ op.kind \in Patching \cup {"edit"}
          /\ \A q \in Paths \ {op.path} : op.rollback[q] = op.before[q]
          /\ Brought(op.before[op.path], op.rollback[op.path])
      BY <1>1, <1>3, <2>3 DEF CallsInv, RollbackInv
    <3>2. op.rollback[op.path] \in Entry
      BY <1>1, <1>3, <2>1, <2>3 DEF Entries, CallsInv, RollbackInv
    <3> QED
      BY <1>3, <3>1, <3>2 DEF Outcome
  <2> QED
    BY <2>2, <2>3
<1> QED
  BY <1>1, <1>2, <1>3 DEF AfterFailure

\* What each call leaves: a sweep refreshed entries, any other call an outcome
\* for its file.
LEMMA EndOutcome ==
    ASSUME CallsInv, EndsCall
    PROVE  /\ op.kind \in Sweeping =>
                \A q \in Paths : IF op.before[q] = NotLoaded THEN entries'[q] = NotLoaded
                                 ELSE Refreshed(op.before[q], entries'[q])
           /\ op.kind \notin Sweeping =>
                /\ Outcome(op.before[op.path], entries'[op.path])
                /\ \A q \in Paths \ {op.path} : entries'[q] = op.before[q]
<1>1. /\ Running /\ op # Idle /\ op.path \in Paths /\ op \in Call /\ entries \in Entries
      /\ op.before # NoRollback
  BY EndOfCall, CallTypes, SentinelAssumption DEF CallsInv, Inherited
<1>2. CASE UNCHANGED entries
  BY <1>1, <1>2, ShapeIsOutcome DEF CallsInv, CallInv
<1>3. CASE Fail
  <2>1. CASE op.kind \notin Sweeping
    BY <1>3, <2>1, FailOutcome
  <2>2. CASE op.kind \in Sweeping
    <3>1. entries' = entries \/ entries' = op.before
      <4>1. op.kind \notin Patching \cup {"edit"}
        BY <2>2 DEF Sweeping, Patching
      <4> QED
        BY <1>1, <1>3, <4>1 DEF Fail, AfterFailure, CallsInv, RollbackInv
    <3>2. CASE entries' = op.before
      BY <2>2, <3>2 DEF Refreshed
    <3> QED
      BY <1>2, <3>1, <3>2
  <2> QED
    BY <2>1, <2>2
<1>4. ASSUME Report \/ EditsDone \/ PatchBlocked \/ VirtualPatchDone
      PROVE  UNCHANGED entries
  <2>1. Succeed(entries) /\ op.kind \in Reading \cup Sweeping \cup Patching \cup {"edit"}
    BY <1>4 DEF Report, EditsDone, PatchBlocked, VirtualPatchDone, Patching
  <2>2. op.kind \notin Closing
    BY <2>1 DEF Reading, Sweeping, Patching, Closing
  <2> QED
    BY <2>1, <2>2 DEF Succeed
<1>5. ASSUME DiscardFile \/ CommitDone
      PROVE  /\ op.kind \notin Sweeping
             /\ \A q \in Paths \ {op.path} : entries'[q] = op.before[q]
  <2>1. PICK d : Succeed([entries EXCEPT ![op.path] = d])
    BY <1>5 DEF DiscardFile, CommitDone
  <2>2. op.kind \notin Sweeping
    BY <1>1, <1>5 DEF DiscardFile, CommitDone, InFlight, Discards, Sweeping, CallsInv,
                      Inherited, TypeInv, WorksOnLoaded
  <2>3. \A q \in Paths \ {op.path} : entries'[q] = entries[q]
    BY <1>1, <2>1 DEF Succeed, Entries
  <2> QED
    BY <1>1, <2>2, <2>3 DEF CallsInv, CallInv
<1> QED
  BY <1>2, <1>3, <1>4, <1>5, DiscardOutcome, CommitOutcome DEF EndsCall

-----------------------------------------------------------------------------
(* What clients see.                                                       *)

\* A step of a call stays in it unless it ends it.
LEMMA StaysInCall ==
    ASSUME Inherited, Inherited', Running,
           \/ EnsureLoaded \/ RefreshLoaded \/ (\E q \in Paths : RefreshNext(q)) \/ SweepDone
           \/ ApplyLoadedEdit \/ PatchApplied \/ CommitLoadedFile
           \/ \E w \in Workspaces : SyncRegisteredIndex(w)
    PROVE  op' # Idle /\ op'.pc # "return" /\ op'.before = op.before
<1>1. op # Idle /\ op \in Call /\ op.path \in Paths /\ entries' \in Entries
  BY CallTypes DEF Inherited, Running, TypeInv, TypeOK
<1> SUFFICES op' \in Call /\ op'.pc # "return" /\ op'.before = op.before
  BY SentinelAssumption
<1>2. CASE EnsureLoaded
  BY <1>1, <1>2 DEF EnsureLoaded, InFlight, Call, Phases
<1>3. CASE RefreshLoaded
  BY <1>1, <1>3 DEF RefreshLoaded, InFlight, Call, Phases
<1>4. CASE \E q \in Paths : RefreshNext(q)
  BY <1>1, <1>4 DEF RefreshNext, InFlight, Call, Phases
<1>5. CASE SweepDone
  BY <1>1, <1>5 DEF SweepDone, InFlight, Call, Phases
<1>6. CASE ApplyLoadedEdit
  BY <1>1, <1>6 DEF ApplyLoadedEdit, InFlight, Call, Phases
<1>7. CASE PatchApplied
  BY <1>1, <1>7 DEF PatchApplied, InFlight, Call, Phases
<1>8. CASE CommitLoadedFile
  <2>1. CoveringIndexes(op.path) \in SUBSET Workspaces
    BY DEF CoveringIndexes, Inherited, TypeInv, TypeOK
  <2> QED
    BY <1>1, <1>8, <2>1 DEF CommitLoadedFile, InFlight, Call, Phases
<1>9. CASE \E w \in Workspaces : SyncRegisteredIndex(w)
  BY <1>1, <1>9 DEF SyncRegisteredIndex, InFlight, Call, Phases
<1> QED
  BY <1>2, <1>3, <1>4, <1>5, <1>6, <1>7, <1>8, <1>9

\* What clients see changes only where a call ends.
LEMMA VisibleStep ==
    ASSUME Inherited, Inherited', [Next]_vars
    PROVE  EndsCall \/ UNCHANGED Visible
<1>1. CASE UNCHANGED <<entries, op>>
  BY <1>1 DEF Visible
<1>2. CASE BeginCall
  <2>1. PICK kind \in Requests, p \in Paths, timed \in BOOLEAN, n \in Nat :
           Start(kind, p, timed, n)
    BY <1>2, BeginStarts
  <2>2. op = Idle /\ entries' = entries /\ op'.before = entries
    BY <2>1 DEF Start
  <2> QED
    BY <2>2 DEF Visible
<1>3. CASE Return
  BY <1>3 DEF Return, InFlight, Visible
<1>4. ASSUME \/ EnsureLoaded \/ RefreshLoaded \/ (\E q \in Paths : RefreshNext(q)) \/ SweepDone
             \/ ApplyLoadedEdit \/ PatchApplied \/ CommitLoadedFile
             \/ \E w \in Workspaces : SyncRegisteredIndex(w)
      PROVE  UNCHANGED Visible
  <2>1. Running
    BY <1>4 DEF EnsureLoaded, RefreshLoaded, RefreshNext, SweepDone, ApplyLoadedEdit,
                PatchApplied, CommitLoadedFile, SyncRegisteredIndex, InFlight, Running
  <2>2. op' # Idle /\ op'.pc # "return" /\ op'.before = op.before
    BY <1>4, <2>1, StaysInCall
  <2> QED
    BY <2>1, <2>2 DEF Running, Visible
<1> QED
  BY <1>1, <1>2, <1>3, <1>4, OutsideSteps DEF Next, EndsCall

LEMMA CallsStep ==
    ASSUME CallsInv, [Next]_vars
    PROVE  CallsInv'
BY NextInherited, NextCallInv, NextFreshInv DEF CallsInv

LEMMA CallsStart == Init => CallsInv
BY InitCallInv, InitFreshInv DEF CallsInv

LEMMA UnsavedStep ==
    ASSUME CallsInv, CallsInv', [Next]_vars
    PROVE  KeepsUnsaved
<1> SUFFICES ASSUME NEW p \in Paths, Visible[p] # NotLoaded, Visible[p].dirty
             PROVE  \/ /\ Visible'[p] # NotLoaded /\ Visible'[p].source = Visible[p].source
                       /\ Visible'[p].dirty \/ Visible[p].source \in seen'[p]
                    \/ /\ op'.path = p
                       /\ op'.kind \in Patching \cup Discards \cup {"open", "edit", "close_persist"}
                       /\ op'.kind = "close_persist" => Visible[p].source \in seen'[p]
  BY DEF KeepsUnsaved
<1>1. CASE UNCHANGED Visible
  BY <1>1
<1>2. CASE EndsCall
  <2> DEFINE e == op.before[p]
             f == entries'[p]
  <2>1. /\ Visible[p] = e /\ Visible'[p] = f
        /\ op'.kind = op.kind /\ op'.path = op.path /\ seen' = seen
    BY <1>2, EndOfCall DEF CallsInv, Running, Visible
  <2>2. e # NotLoaded /\ e.dirty
    BY <2>1
  <2>3. CASE f = e
    BY <2>1, <2>2, <2>3
  <2>4. CASE op.kind \in Sweeping
    <3>1. Refreshed(e, f)
      BY <1>2, <2>2, <2>4, EndOutcome
    <3> QED
      BY <2>2, <2>3, <3>1 DEF Refreshed
  <2>5. CASE op.kind \notin Sweeping /\ p # op.path
    BY <1>2, <2>3, <2>5, EndOutcome
  <2>6. CASE op.kind \notin Sweeping /\ p = op.path
    <3>1. Outcome(e, f)
      BY <1>2, <2>6, EndOutcome
    <3> HIDE DEF e, f
    <3>2. CASE Brought(e, f)
      BY <2>2, <2>3, <3>2, BroughtKeepsUnsaved
    <3>3. CASE f = NotLoaded /\ op.kind \in Closing /\ (op.kind = "close_persist" => Reached(e))
      BY <2>1, <2>2, <2>6, <3>3 DEF Reached, Closing, Discards
    <3>4. CASE op.kind \in Patching \cup {"edit", "open"} \cup Discards
      <4>1. op.kind # "close_persist"
        BY <3>4 DEF Patching, Discards
      <4> QED
        BY <2>1, <2>6, <3>4, <4>1
    <3>5. CASE f \in Entry /\ op.kind \in Commits /\ Reached(e) /\ Saved(e, f)
      <4>1. PICK b \in Entry : Brought(e, b) /\ f.source = b.source
        BY <3>5 DEF Saved
      <4>2. b = e /\ f # NotLoaded
        BY <2>2, <3>5, <4>1, SentinelAssumption, BroughtKeepsUnsaved
      <4> QED
        BY <2>1, <2>2, <2>6, <3>5, <4>1, <4>2 DEF Reached
    <3> QED
      BY <2>3, <3>1, <3>2, <3>3, <3>4, <3>5 DEF Outcome, Patching
  <2> QED
    BY <2>4, <2>5, <2>6
<1> QED
  BY <1>1, <1>2, VisibleStep DEF CallsInv

\* Unsaved text is lost only by the client's own word about that file, or by
\* having been written to it, whatever fails, times out or is rolled back.
THEOREM UnsavedTextIsKept == Spec => UnsavedTextSurvives
BY CallsStart, CallsStep, UnsavedStep, PTL DEF Spec, UnsavedTextSurvives

-----------------------------------------------------------------------------
(* Calls are atomic.  Each lemma finds, among the buffers an operation of  *)
(* EditorBuffers allows, the view of an outcome of VirtualFiles.           *)

\* An entry is never taken for a closed buffer.
LEMMA ViewOfEntry ==
    ASSUME NEW e \in Entry
    PROVE  /\ View(e) = [base |-> e.disk_source, text |-> e.source, version |-> e.version]
           /\ View(e) # NotLoaded /\ e # NotLoaded
           /\ e.disk_source \in Sources /\ e.source \in Sources /\ e.version \in Nat
<1>1. /\ e # NotLoaded
      /\ e.disk_source \in Sources /\ e.source \in Sources /\ e.version \in Nat
  BY SentinelAssumption DEF Entry
<1>2. View(e) = [base |-> e.disk_source, text |-> e.source, version |-> e.version]
  BY <1>1 DEF View
<1>3. View(e) \in [base: Sources, text: Sources, version: Nat]
  BY <1>1, <1>2
<1> QED
  BY <1>1, <1>2, <1>3, SentinelAssumption

LEMMA ViewIsClean ==
    ASSUME NEW e \in Entry, CoherentEntry(e)
    PROVE  Buffers!Clean(View(e)) <=> ~e.dirty
BY ViewOfEntry DEF Buffers!Clean, CoherentEntry

\* Loading and refreshing make a buffer ready.
LEMMA BroughtIsReady ==
    ASSUME NEW e \in Entry \cup {NotLoaded}, e # NotLoaded => CoherentEntry(e),
           NEW f \in Entry, Brought(e, f)
    PROVE  View(f) \in Buffers!Ready(View(e))
<1>1. /\ View(f) = [base |-> f.disk_source, text |-> f.source, version |-> f.version]
      /\ f.disk_source \in Sources /\ f.source \in Sources /\ f.version \in Nat
  BY ViewOfEntry
<1>2. CASE e = NotLoaded
  <2>1. View(e) = NotLoaded /\ f.source = f.disk_source /\ f.version \in {0, 1}
    BY <1>2 DEF View, Brought, OnDisk
  <2> QED
    BY <1>1, <2>1 DEF Buffers!Ready
<1>3. CASE e # NotLoaded /\ f = e
  <2>1. View(e) # NotLoaded
    BY <1>3, ViewOfEntry
  <2> QED
    BY <1>3, <2>1 DEF Buffers!Ready
<1>4. CASE e # NotLoaded /\ ~e.dirty /\ OnDisk(f) /\ f.version = e.version + 1
  <2>1. /\ View(e) # NotLoaded /\ View(e).version = e.version
        /\ Buffers!Clean(View(e))
    BY <1>4, ViewOfEntry, ViewIsClean
  <2>2. View(f) = [base |-> f.source, text |-> f.source, version |-> View(e).version + 1]
    BY <1>1, <1>4, <2>1 DEF OnDisk
  <2> HIDE DEF View
  <2> QED
    BY <1>1, <2>1, <2>2 DEF Buffers!Ready
<1> QED
  BY <1>2, <1>3, <1>4 DEF Brought, Refreshed

\* The buffers clients see, and a step that puts one in its place.
Shown == [q \in Paths |-> View(Visible[q])]
Puts(p, e, f) == Shown[p] = View(e) /\ Shown' = [Shown EXCEPT ![p] = View(f)]

LEMMA PutIsPut ==
    ASSUME NEW p \in Paths, NEW e, NEW f, Puts(p, e, f)
    PROVE  Buffers!Put(p, View(f)) /\ Shown'[p] = View(f)
BY DEF Puts, Shown, Buffers!Put

LEMMA BroughtIsRead ==
    ASSUME NEW p \in Paths, NEW e, NEW f, Puts(p, e, f),
           View(f) \in Buffers!Ready(View(e))
    PROVE  Buffers!Read(p)
<1>1. Buffers!Put(p, View(f))
  BY PutIsPut
<1> HIDE DEF Buffers!Put
<1> QED
  BY <1>1 DEF Puts, Shown, Buffers!Read

LEMMA OpenedIsOpen ==
    ASSUME NEW p \in Paths, NEW e \in Entry \cup {NotLoaded}, NEW f \in Entry, Puts(p, e, f),
           Opened(e, f) \/ OpenedAndRefreshed(e, f)
    PROVE  Buffers!Open(p)
<1> DEFINE b == Shown[p]
           New(s, t) == [base |-> s, text |-> t,
                         version |-> IF b = NotLoaded THEN 0 ELSE b.version + 1]
<1>1. Buffers!Put(p, View(f)) /\ b = View(e)
  BY PutIsPut DEF Puts
<1>2. Buffers!Open(p) <=>
         \E s, t \in Sources :
            \/ Buffers!Put(p, New(s, t))
            \/ Buffers!Clean(New(s, t)) /\ \E c \in Buffers!Ready(New(s, t)) : Buffers!Put(p, c)
  BY DEF Shown, Buffers!Open
<1>3. ASSUME NEW g \in Entry, Opened(e, g)
      PROVE  View(g) = New(g.disk_source, g.source)
  <2>1. View(g) = [base |-> g.disk_source, text |-> g.source, version |-> g.version]
    BY ViewOfEntry
  <2>2. b = NotLoaded <=> e = NotLoaded
    BY <1>1, ViewOfEntry DEF View
  <2>3. e # NotLoaded => b.version = e.version
    BY <1>1, ViewOfEntry
  <2> QED
    BY <1>3, <2>1, <2>2, <2>3 DEF Opened
<1> HIDE DEF New, b
<1>4. CASE Opened(e, f)
  BY <1>1, <1>2, <1>3, <1>4, ViewOfEntry
<1>5. CASE OpenedAndRefreshed(e, f)
  <2>1. PICK g \in Entry : CoherentEntry(g) /\ Opened(e, g) /\ Refreshed(g, f)
    BY <1>5 DEF OpenedAndRefreshed
  <2>2. CASE g = f
    BY <1>4, <2>1, <2>2
  <2>3. CASE g # f
    <3>1. ~g.dirty /\ Brought(g, f) /\ g # NotLoaded
      BY <2>1, <2>3, SentinelAssumption DEF Refreshed, Brought
    <3>2. Buffers!Clean(View(g)) /\ View(f) \in Buffers!Ready(View(g))
      BY <2>1, <3>1, ViewIsClean, BroughtIsReady
    <3> QED
      BY <1>1, <1>2, <1>3, <2>1, <3>2, ViewOfEntry
  <2> QED
    BY <2>2, <2>3
<1> QED
  BY <1>4, <1>5

LEMMA EditedIsEdit ==
    ASSUME NEW p \in Paths, NEW e, NEW f \in Entry, Puts(p, e, f),
           NEW b \in Entry, View(b) \in Buffers!Ready(View(e)), EditedFrom(b, f)
    PROVE  Buffers!Edit(p)
<1>1. /\ View(f) = [base |-> f.disk_source, text |-> f.source, version |-> f.version]
      /\ View(f) # NotLoaded /\ f.source \in Sources
      /\ View(b) = [base |-> b.disk_source, text |-> b.source, version |-> b.version]
  BY ViewOfEntry
<1>2. /\ Buffers!Put(p, View(f)) /\ Shown'[p] = View(f) /\ Shown[p] = View(e)
  BY PutIsPut DEF Puts
<1>3. Buffers!Edit(p) <=>
         \E c \in Buffers!Ready(Shown[p]), t \in Sources :
            /\ Shown'[p] # NotLoaded
            /\ Shown'[p].version > c.version
            /\ Buffers!Put(p, [base |-> c.base, text |-> t, version |-> Shown'[p].version])
  BY DEF Shown, Buffers!Edit
<1>4. /\ View(f).version > View(b).version
      /\ View(f) = [base |-> View(b).base, text |-> f.source, version |-> View(f).version]
  BY <1>1 DEF EditedFrom
<1> QED
  BY <1>1, <1>2, <1>3, <1>4

LEMMA SavedIsSave ==
    ASSUME NEW p \in Paths, NEW e, NEW f \in Entry, Puts(p, e, f), OnDisk(f),
           NEW b \in Entry, View(b) \in Buffers!Ready(View(e)),
           f.source = b.source, f.version = b.version
    PROVE  Buffers!Save(p)
<1>1. Buffers!Put(p, View(f)) /\ Shown[p] = View(e)
  BY PutIsPut DEF Puts
<1>2. Buffers!Save(p) <=>
         \E c \in Buffers!Ready(Shown[p]) : Buffers!Put(p, [c EXCEPT !.base = c.text])
  BY DEF Shown, Buffers!Save
<1>3. /\ View(f) = [base |-> f.source, text |-> f.source, version |-> f.version]
      /\ View(b) = [base |-> b.disk_source, text |-> f.source, version |-> f.version]
  BY ViewOfEntry DEF OnDisk
<1>4. View(f) = [View(b) EXCEPT !.base = View(b).text]
  BY <1>3
<1> QED
  BY <1>1, <1>2, <1>4

LEMMA PatchedIsEditAndSave ==
    ASSUME NEW p \in Paths, NEW e, NEW f \in Entry, Puts(p, e, f), OnDisk(f),
           NEW b \in Entry, View(b) \in Buffers!Ready(View(e)), f.version = b.version + 1
    PROVE  Buffers!EditAndSave(p)
<1>1. Buffers!Put(p, View(f)) /\ Shown[p] = View(e)
  BY PutIsPut DEF Puts
<1>2. Buffers!EditAndSave(p) <=>
         \E c \in Buffers!Ready(Shown[p]), t \in Sources :
            Buffers!Put(p, [base |-> t, text |-> t, version |-> c.version + 1])
  BY DEF Shown, Buffers!EditAndSave
<1>3. View(f) = [base |-> f.source, text |-> f.source, version |-> View(b).version + 1]
  BY ViewOfEntry DEF OnDisk
<1> QED
  BY <1>1, <1>2, <1>3, ViewOfEntry

LEMMA RevertedIsRevert ==
    ASSUME NEW p \in Paths, NEW e \in Entry \cup {NotLoaded}, NEW f \in Entry, Puts(p, e, f),
           Reverted(e, f)
    PROVE  Buffers!Revert(p)
<1>1. Buffers!Put(p, View(f)) /\ Shown[p] = View(e)
  BY PutIsPut DEF Puts
<1>2. Buffers!Revert(p) <=>
         \E s \in Sources, v \in {0, 1} :
            \/ Shown[p] = NotLoaded /\ Buffers!Put(p, [base |-> s, text |-> s, version |-> v])
            \/ /\ Shown[p] # NotLoaded
               /\ Buffers!Put(p, [base |-> s, text |-> s, version |-> Shown[p].version + 1])
  BY DEF Shown, Buffers!Revert
<1>3. View(f) = [base |-> f.source, text |-> f.source, version |-> f.version] /\ f.source \in Sources
  BY ViewOfEntry DEF Reverted, OnDisk
<1>4. CASE e = NotLoaded
  <2>1. View(e) = NotLoaded /\ f.version \in {0, 1}
    BY <1>4 DEF View, Reverted
  <2> QED
    BY <1>1, <1>2, <1>3, <2>1
<1>5. CASE e # NotLoaded
  <2>1. View(e) # NotLoaded /\ f.version = View(e).version + 1
    BY <1>5, ViewOfEntry DEF Reverted
  <2> QED
    BY <1>1, <1>2, <1>3, <2>1
<1> QED
  BY <1>4, <1>5

\* What a call on the file p makes of its buffer, one operation makes.
LEMMA OutcomeIsOperation ==
    ASSUME NEW p \in Paths, NEW e \in Entry \cup {NotLoaded}, e # NotLoaded => CoherentEntry(e),
           NEW f, Puts(p, e, f), Outcome(e, f), f # e
    PROVE  \/ Buffers!Read(p) \/ Buffers!Open(p) \/ Buffers!Edit(p) \/ Buffers!Save(p)
           \/ Buffers!EditAndSave(p) \/ Buffers!Revert(p) \/ Buffers!Close(p)
<1>1. CASE f = NotLoaded
  <2>1. Buffers!Put(p, NotLoaded)
    BY <1>1, PutIsPut DEF View
  <2> QED
    BY <2>1 DEF Buffers!Close
<1>2. CASE f \in Entry
  <2>1. \A b \in Entry : Brought(e, b) => View(b) \in Buffers!Ready(View(e))
    BY BroughtIsReady
  <2>2. CASE Brought(e, f)
    BY <1>2, <2>1, <2>2, BroughtIsRead
  <2>3. CASE Opened(e, f) \/ OpenedAndRefreshed(e, f)
    BY <1>2, <2>3, OpenedIsOpen
  <2>4. CASE \E b \in Entry : Brought(e, b) /\ EditedFrom(b, f)
    BY <1>2, <2>1, <2>4, EditedIsEdit
  <2>5. CASE Saved(e, f)
    BY <1>2, <2>1, <2>5, SavedIsSave DEF Saved
  <2>6. CASE OnDisk(f) /\ \E b \in Entry : Brought(e, b) /\ f.version = b.version + 1
    BY <1>2, <2>1, <2>6, PatchedIsEditAndSave
  <2>7. CASE Reverted(e, f)
    BY <1>2, <2>7, RevertedIsRevert
  <2> QED
    BY <1>2, <2>2, <2>3, <2>4, <2>5, <2>6, <2>7, SentinelAssumption DEF Outcome
<1> QED
  BY <1>1, <1>2 DEF Outcome

\* A sweep lets clean buffers follow their files.
LEMMA RefreshedFollows ==
    ASSUME NEW e \in Entry \cup {NotLoaded}, e # NotLoaded => CoherentEntry(e),
           NEW f \in Entry \cup {NotLoaded},
           IF e = NotLoaded THEN f = NotLoaded ELSE Refreshed(e, f)
    PROVE  Buffers!Follows(View(e), View(f))
<1>1. CASE f = e
  BY <1>1 DEF Buffers!Follows
<1>2. CASE f # e
  <2>1. e \in Entry /\ ~e.dirty /\ OnDisk(f) /\ f.version = e.version + 1
    BY <1>2 DEF Refreshed
  <2>2. f \in Entry
    BY <1>2 DEF Refreshed
  <2>3. View(f) = [base |-> f.source, text |-> f.source, version |-> View(e).version + 1]
    BY <2>1, <2>2, ViewOfEntry DEF OnDisk
  <2>4. Buffers!Clean(View(e)) /\ f.source \in Sources
    BY <2>1, <2>2, ViewIsClean, ViewOfEntry, SentinelAssumption
  <2> QED
    BY <2>3, <2>4 DEF Buffers!Follows
<1> QED
  BY <1>1, <1>2

\* The end of a call is one operation, or changes nothing clients see.
LEMMA EndIsOperation ==
    ASSUME CallsInv, CallsInv', EndsCall
    PROVE  Buffers!Next \/ UNCHANGED Shown
<1>1. /\ op # Idle /\ op \in Call /\ op.path \in Paths /\ Coherent(op.before)
      /\ op.before \in Entries /\ entries' \in Entries
      /\ Visible = op.before /\ Visible' = entries'
  <2>1. Running /\ op # Idle /\ op'.pc = "return"
    BY EndOfCall DEF CallsInv
  <2>2. op \in Call /\ op.path \in Paths /\ op.before \in Entries
    BY <2>1, CallTypes DEF CallsInv, Inherited
  <2>3. entries' \in Entries /\ Coherent(op.before)
    <3>1. TypeOK' /\ RollbackInv
      BY DEF CallsInv, Inherited, TypeInv
    <3>2. entries' \in Entries
      BY <3>1 DEF TypeOK
    <3>3. Coherent(op.before)
      BY <2>1, <3>1 DEF RollbackInv
    <3> QED
      BY <3>2, <3>3
  <2>4. Visible = op.before /\ Visible' = entries'
    BY <2>1 DEF Visible, Running
  <2> QED
    BY <2>1, <2>2, <2>3, <2>4
<1>2. /\ Shown = [q \in Paths |-> View(op.before[q])]
      /\ Shown' = [q \in Paths |-> View(entries'[q])]
  BY <1>1, Zenon DEF Shown
<1>3. \A q \in Paths :
         /\ op.before[q] \in Entry \cup {NotLoaded} /\ entries'[q] \in Entry \cup {NotLoaded}
         /\ op.before[q] # NotLoaded => CoherentEntry(op.before[q])
  BY <1>1 DEF Entries, Coherent
<1>4. CASE op.kind \in Sweeping
  <2>1. \A q \in Paths : Buffers!Follows(Shown[q], Shown'[q])
    <3> TAKE q \in Paths
    <3> DEFINE e == op.before[q]
               f == entries'[q]
    <3>1. IF e = NotLoaded THEN f = NotLoaded ELSE Refreshed(e, f)
      BY <1>4, EndOutcome
    <3>2. Shown[q] = View(e) /\ Shown'[q] = View(f)
      BY <1>2
    <3> HIDE DEF e, f
    <3>3. Buffers!Follows(View(e), View(f))
      BY <1>3, <3>1, RefreshedFollows DEF e, f
    <3> QED
      BY <3>2, <3>3
  <2>2. Buffers!Follow
    BY <2>1 DEF Buffers!Follow, Shown
  <2> QED
    BY <2>2 DEF Buffers!Next
<1>5. CASE op.kind \notin Sweeping
  <2> DEFINE e == op.before[op.path]
             f == entries'[op.path]
  <2>1. Outcome(e, f) /\ \A q \in Paths \ {op.path} : entries'[q] = op.before[q]
    BY <1>5, EndOutcome
  <2>2. Puts(op.path, e, f)
    BY <1>1, <1>2, <2>1 DEF Puts
  <2>3. CASE f = e
    BY <1>2, <2>1, <2>3
  <2>4. CASE f # e
    <3>1. /\ e \in Entry \cup {NotLoaded}
          /\ e # NotLoaded => CoherentEntry(e)
      BY <1>1, <1>3
    <3> HIDE DEF e, f
    <3> DEFINE p == op.path
    <3>2. p \in Paths /\ Puts(p, e, f)
      BY <1>1, <2>2
    <3> HIDE DEF p
    <3>3. \/ Buffers!Read(p) \/ Buffers!Open(p) \/ Buffers!Edit(p) \/ Buffers!Save(p)
          \/ Buffers!EditAndSave(p) \/ Buffers!Revert(p) \/ Buffers!Close(p)
      BY <2>1, <2>4, <3>1, <3>2, OutcomeIsOperation
    <3> QED
      BY <3>2, <3>3 DEF Buffers!Next
  <2> QED
    BY <2>3, <2>4
<1> QED
  BY <1>4, <1>5

LEMMA StepIsOperation ==
    ASSUME CallsInv, CallsInv', [Next]_vars
    PROVE  Buffers!Next \/ UNCHANGED [p \in Paths |-> View(Visible[p])]
BY VisibleStep, EndIsOperation DEF CallsInv, Shown

LEMMA InitIsOperation ==
    ASSUME Init
    PROVE  Buffers!Init
BY DEF Init, Buffers!Init, Visible, View

\* Every call is atomic to the client: to those who only see the entries that
\* ended calls left, any run of VirtualFiles is one of EditorBuffers.
THEOREM CallsImplementBuffers == Spec => CallsAreAtomic
BY CallsStart, CallsStep, StepIsOperation, InitIsOperation, PTL
   DEF Spec, CallsAreAtomic, Buffers!Spec

=============================================================================
