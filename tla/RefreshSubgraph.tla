--------------------------- MODULE RefreshSubgraph ---------------------------
(***************************************************************************)
(* The dependency graph of an index, and how arborist-core brings it up to *)
(* date when some files changed (symbol_dependency/refresh.rs) instead of  *)
(* resolving every symbol again (symbol_dependency/resolution/graph.rs).   *)
(*                                                                         *)
(* A table raw gives for each symbol id the symbol parsed from the sources,*)
(* or NoSymbol.  A graph gives for each id the ids its symbol depends on   *)
(* and those that refer to it.  What a symbol's names resolve to is decided*)
(* by the rules of its language; here it is an argument, deps.             *)
(*                                                                         *)
(* Abstracted: symbols that share an id are one symbol, with the names of  *)
(* all of them (overloads resolve together in the code as well); the rule  *)
(* that any change to a C# file impacts every C# symbol is left out, it    *)
(* only adds to the impacted symbols.                                      *)
(***************************************************************************)

CONSTANTS
    Ids,       \* symbol ids
    Files,     \* source files
    Names,     \* base names of symbols
    NoSymbol   \* no symbol has this id

Symbol == [file: Files, name: Names, calls: SUBSET Names]
Node   == [deps: SUBSET Ids, refs: SUBSET Ids]

Tables == [Ids -> Symbol \cup {NoSymbol}]
Graphs == [Ids -> Node \cup {NoSymbol}]

Defined(table) == {id \in Ids : table[id] # NoSymbol}

\* Who depends on id, among the nodes of a graph.
Callers(graph, id) == {c \in Defined(graph) : id \in graph[c].deps}

\* Every edge is in the graph at both of its ends.
Paired(graph) ==
    \A a \in Defined(graph) :
        /\ \A b \in graph[a].deps : b \in Defined(graph) /\ a \in graph[b].refs
        /\ \A b \in graph[a].refs : b \in Defined(graph) /\ a \in graph[b].deps

-----------------------------------------------------------------------------
(* A graph resolved from nothing.                                          *)

FromScratch(raw, deps) ==
    [id \in Ids |->
        IF raw[id] = NoSymbol THEN NoSymbol
        ELSE [deps |-> deps[id], refs |-> {c \in Defined(raw) : id \in deps[c]}]]

-----------------------------------------------------------------------------
(* A graph brought up to date after the files in changed were parsed again:*)
(* was and now are the tables before and after, old the graph before.      *)

ChangedSymbols(raw, changed) == {id \in Defined(raw) : raw[id].file \in changed}

ChangedNames(was, now, changed) ==
    {was[id].name : id \in ChangedSymbols(was, changed)}
        \cup {now[id].name : id \in ChangedSymbols(now, changed)}

ChangedReferenceNames(was, now, changed) ==
    UNION ({was[id].calls : id \in ChangedSymbols(was, changed)}
        \cup {now[id].calls : id \in ChangedSymbols(now, changed)})

Neighbours(graph, ids) ==
    UNION {graph[id].deps \cup graph[id].refs : id \in ids \cap Defined(graph)}

\* Mutation: only the symbols of the changed files are resolved again.
SeedsChangedOnly(was, now, changed) ==
    ChangedSymbols(was, changed) \cup ChangedSymbols(now, changed)

\* The changed symbols, and the unchanged ones that call a changed name or
\* whose name a changed symbol calls.
Seeds(was, now, changed) ==
    ChangedSymbols(was, changed) \cup ChangedSymbols(now, changed)
        \cup {id \in Defined(now) :
                 /\ now[id].file \notin changed
                 /\ \/ now[id].calls \cap ChangedNames(was, now, changed) # {}
                    \/ now[id].name \in ChangedReferenceNames(was, now, changed)}

ImpactedIds(was, now, old, changed) ==
    Seeds(was, now, changed) \cup Neighbours(old, Seeds(was, now, changed))

\* Impacted symbols resolved again, the others as they were.
Reresolved(now, old, deps, impacted) ==
    [id \in Ids |->
        IF id \notin impacted THEN old[id]
        ELSE IF now[id] = NoSymbol THEN NoSymbol
        ELSE [deps |-> deps[id], refs |-> {}]]

\* Mutation: references are recomputed for the impacted symbols alone.
ReferenceImpactedOnlySelf(old, map, impacted) == impacted

\* Those whose references may differ: whatever an impacted symbol depends
\* on or is referred to by, before or after.
ReferenceImpacted(old, map, impacted) ==
    impacted \cup Neighbours(old, impacted) \cup Neighbours(map, impacted)

\* The rows a refresh has to update besides those of the changed files.
PersistenceImpacted(was, now, old, deps, changed) ==
    LET impacted == ImpactedIds(was, now, old, changed)
    IN  ReferenceImpacted(old, Reresolved(now, old, deps, impacted), impacted)

Refreshed(was, now, old, deps, changed) ==
    LET impacted == ImpactedIds(was, now, old, changed)
        map == Reresolved(now, old, deps, impacted)
        again == ReferenceImpacted(old, map, impacted)
    IN  [id \in Ids |->
            IF map[id] = NoSymbol THEN NoSymbol
            ELSE IF id \in again THEN [map[id] EXCEPT !.refs = Callers(map, id)]
            ELSE map[id]]
=============================================================================
