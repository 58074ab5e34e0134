------------------------------ MODULE IndexWatch ------------------------------
(***************************************************************************)
(* arborist-index-watch (index_watch.py, index_watch_runtime.py): one      *)
(* process that goes over its targets in order, inspects each, and         *)
(* migrates or refreshes what the inspection says it can.  It loops with a *)
(* pause, makes one pass (--once), or only reports (--dry-run, --check).   *)
(*                                                                         *)
(* Each call it makes is a call of IndexLifecycle, step by step.  An error *)
(* ends the command, and so does an inspection that contradicts itself.    *)
(* Left out are what it prints and a database whose metadata name another  *)
(* workspace, which is one more error.                                     *)
(***************************************************************************)
EXTENDS IndexLifecycle, Sequences

CONSTANTS
    watcher,    \* the watch process
    WatchLimit  \* --max-files

ASSUME WatchAssumption ==
    /\ watcher \in Processes
    /\ WatchLimit \in 1 .. ScanCap

VARIABLE watch \* the command: its options, its place in the loop, its result

Modes == {"loop", "once", "dry loop", "dry once", "check"}

\* next: about to reconcile targets[at]; healthy: all_healthy of --check.
Watch == [mode: Modes, targets: Seq(Databases), at: Nat, healthy: BOOLEAN,
          pc: {"next", "inspecting", "migrating", "refreshing", "asleep", "exited"},
          status: {0, 1}]

DryRun == watch.mode \in {"dry loop", "dry once", "check"}
\* Mutant: --check loops.
LoopsUnlessOnce == watch.mode \notin {"once", "dry once"}

Loops == watch.mode \in {"loop", "dry loop"}
Target == watch.targets[watch.at]
Reported == op[watcher].says

Started(mode, targets) ==
    [mode |-> mode, targets |-> targets, at |-> 1, healthy |-> TRUE,
     pc |-> "next", status |-> 0]

\* No watch runs.
NoWatch == [Started("once", <<>>) EXCEPT !.pc = "exited"]
-----------------------------------------------------------------------------
Asks(kind) == Start(watcher, kind, Target, WatchLimit, 0) /\ UNCHANGED clock

InspectTarget ==
    /\ watch.pc = "next"
    /\ Asks("inspect")
    /\ watch' = [watch EXCEPT !.pc = "inspecting"]

Done(pc) == watch.pc = pc /\ Finished(watcher)

\* Mutant: one target too many.
NextTargetPastTheEnd(healthy) ==
    /\ Leave(watcher) /\ UNCHANGED clock
    /\ LET all == watch.healthy /\ healthy
       IN  watch' =
            IF watch.at <= Len(watch.targets)
            THEN [watch EXCEPT !.at = watch.at + 1, !.pc = "next", !.healthy = all]
            ELSE [watch EXCEPT !.pc = IF Loops THEN "asleep" ELSE "exited", !.healthy = all]

\* The loop goes on after a target it can do no more for.
NextTarget(healthy) ==
    /\ Leave(watcher) /\ UNCHANGED clock
    /\ LET all == watch.healthy /\ healthy
       IN  watch' =
            IF watch.at < Len(watch.targets)
            THEN [watch EXCEPT !.at = watch.at + 1, !.pc = "next", !.healthy = all]
            ELSE IF Loops
            THEN [watch EXCEPT !.pc = "asleep"]
            ELSE [watch EXCEPT !.pc = "exited", !.healthy = all,
                               !.status = IF watch.mode = "check" /\ ~all THEN 1 ELSE 0]

\* An error in one target ends the command before the targets that follow.
Abort ==
    /\ Leave(watcher) /\ UNCHANGED clock
    /\ watch' = [watch EXCEPT !.pc = "exited", !.status = 1]

\* The check of an inspection's result: indexed_files is file_state_entries.  The
\* fresh, stale, missing and unreadable files are those entries in any case.
CountsAgree(call) == call.count = Cardinality(Stored(call.states))

\* The result is checked before anything is made of it.
Inspected == Done("inspecting") /\ CountsAgree(op[watcher])
RejectResult == Done("inspecting") /\ ~CountsAgree(op[watcher]) /\ Abort

TargetHealthy == Inspected /\ Reported = "healthy" /\ NextTarget(TRUE)

WouldRepair ==
    Inspected /\ Reported \in {"migrate", "rebuild"} /\ DryRun /\ NextTarget(FALSE)

StartMigration ==
    /\ Inspected /\ Reported = "migrate" /\ ~DryRun
    /\ Asks("migrate")
    /\ watch' = [watch EXCEPT !.pc = "migrating"]

StartRefresh ==
    /\ Inspected /\ Reported = "rebuild" /\ ~DryRun
    /\ Asks("refresh")
    /\ watch' = [watch EXCEPT !.pc = "refreshing"]

CannotRepair ==
    Inspected /\ Reported \in {"manual", "unsupported", "failed"} /\ Abort

\* A migration must leave a healthy index, a refresh must only succeed.
TargetMigrated ==
    Done("migrating") /\ IF Reported = "healthy" THEN NextTarget(FALSE) ELSE Abort

TargetRefreshed ==
    Done("refreshing") /\ IF Reported = "refreshed" THEN NextTarget(FALSE) ELSE Abort

Wake ==
    /\ watch.pc = "asleep"
    /\ watch' = [watch EXCEPT !.pc = "next", !.at = 1]
    /\ UNCHANGED vars

\* What the watch process does by itself.
WatchStep ==
    \/ InspectTarget \/ TargetHealthy \/ WouldRepair \/ StartMigration \/ StartRefresh
    \/ RejectResult \/ CannotRepair \/ TargetMigrated \/ TargetRefreshed \/ Wake
    \/ Step(watcher) /\ UNCHANGED watch

\* An interrupt or a kill at any point, and somebody who starts it again.
Interrupt ==
    /\ ~calm
    /\ watch.pc # "exited"
    /\ watch' = [watch EXCEPT !.pc = "exited", !.status = 0]
    /\ op' = [op EXCEPT ![watcher] = Idle]
    /\ UNCHANGED <<disk, db, clock, calm, torn>>

Restart ==
    /\ ~calm
    /\ watch.pc = "exited" /\ watch.targets # <<>>
    /\ watch' = Started(watch.mode, watch.targets)
    /\ UNCHANGED vars

WatchFails == Fail(watcher) /\ UNCHANGED watch

WatchNext == WatchStep \/ Interrupt \/ Restart \/ WatchFails
-----------------------------------------------------------------------------
WatchTypeOK ==
    /\ watch \in Watch
    /\ watch.pc # "exited" => watch.at \in 1 .. Len(watch.targets)

\* An index the watch can bring up to date: none yet, a current one that no
\* interrupted migration has emptied, or an old one whose rows lie in the files;
\* no more files than its limits, and no rows of a torn load.
Repairable(d) ==
    /\ Cardinality(SourceFiles(d)) <= WatchLimit
    /\ Cardinality(SourceFiles(d)) <= DefaultMaxFiles
    /\ \/ db[d].schema = "missing"
       \/ IsCurrent(db[d]) /\ CountsAgree(db[d])
       \/ db[d].schema = "old" /\ PathsAreValid(db[d].states, db[d].rows)
    /\ d \notin torn

Watched == {watch.targets[i] : i \in 1 .. Len(watch.targets)}

UpToDate(d) ==
    /\ IsCurrent(db[d])
    /\ \A f \in WorkspaceOf[d] :
        db[d].states[f] = disk[f] /\ db[d].rows[f] = Derived(disk[f])

\* Once nothing else changes and nothing fails, a sleeping watch brings every
\* index it can repair up to date, and they stay so, whatever failures, writes
\* and interrupted refreshes came before.
WatchCatchesUp ==
    (/\ calm /\ watch.pc = "asleep" /\ watch.mode = "loop"
     /\ \A d \in Watched : Repairable(d))
    ~> [](\A d \in Watched : UpToDate(d))

\* And then it only looks: an up-to-date index is not written again.
UpToDateIndexesAreOnlyInspected ==
    (/\ calm /\ watch.pc = "asleep" /\ watch.mode = "loop"
     /\ \A d \in Watched : Repairable(d))
    ~> [](op[watcher] # Idle => op[watcher].kind = "inspect")

\* The watch's own check "`indexed_files` must equal `file_state_entries`"
\* (index_watch_runtime.py:301) and docs/tools.md:694 "refreshes only a missing
\* index or a current-schema index with freshness issues": what an inspection says
\* of an index of this build that needs a refresh passes the check, so that the
\* watch goes on to refresh it.
CurrentIndexesAreRefreshed ==
    Done("inspecting") /\ Reported = "rebuild" /\ IsCurrent(db[Target]) =>
        CountsAgree(op[watcher])

\* A single pass ends, even over files that keep changing and calls that fail.
SinglePassEnds == watch.mode \in {"once", "dry once", "check"} ~> watch.pc = "exited"
=============================================================================
