------------------------------ MODULE IndexLife ------------------------------
(***************************************************************************)
(* What a user may rely on about the database files of persisted indexes:  *)
(* which of them the program creates, upgrades and rewrites, and which it  *)
(* leaves as they are, whatever calls overlap, fail or are interrupted.    *)
(*                                                                         *)
(* A database file is missing; unfinished (tables and no metadata yet);    *)
(* foreign (not an index); unknown (an index of a version this build does  *)
(* not know); outdated (of this version, written by another analysis); old *)
(* (of a version this build migrates); emptied (migrated, its rows not yet *)
(* derived again); or indexed.                                             *)
(***************************************************************************)
CONSTANT Databases

VARIABLE stage

Stages == {"missing", "unfinished", "foreign", "unknown", "outdated", "old",
           "emptied", "indexed"}

Init == stage \in [Databases -> Stages]

Becomes(d, next) == stage' = [stage EXCEPT ![d] = next]

\* A rebuild creates a file where there is none.
Create(d) == stage[d] = "missing" /\ Becomes(d, "unfinished")

\* It publishes an index over a file a rebuild has created, an emptied index
\* or an earlier one.
Publish(d) == stage[d] \in {"unfinished", "emptied", "indexed"} /\ Becomes(d, "indexed")

\* A migration upgrades only an old index; one of no files needs no rebuild.
Migrate(d) == stage[d] = "old" /\ \E next \in {"emptied", "indexed"} : Becomes(d, next)

\* Somebody deletes the file.
Delete(d) == Becomes(d, "missing")

Next == \E d \in Databases : Create(d) \/ Publish(d) \/ Migrate(d) \/ Delete(d)

Spec == Init /\ [][Next]_stage
=============================================================================
