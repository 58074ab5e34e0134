------------------------ MODULE RefreshSubgraphProofs ------------------------
(***************************************************************************)
(* What a refresh of a dependency graph is worth: it keeps the two ends of *)
(* every edge together, and it gives what resolving every symbol again     *)
(* would give, as long as a language's rules do not change what an         *)
(* unimpacted symbol depends on.                                           *)
(***************************************************************************)
EXTENDS RefreshSubgraph, TLAPS

\* The tables and the graph a refresh starts from: the graph has a node for
\* each symbol there was, and symbols outside the changed files stay.
Refresh(was, now, old, deps, changed) ==
    /\ NoSymbol \notin Node
    /\ was \in Tables /\ now \in Tables
    /\ old \in Graphs
    /\ deps \in [Ids -> SUBSET Ids]
    /\ Defined(old) = Defined(was)
    /\ \A id \in Ids \ (ChangedSymbols(was, changed) \cup ChangedSymbols(now, changed)) :
           now[id] = was[id]

\* An impacted symbol has its neighbours in the old graph among those whose
\* references are recomputed, and a seed has them among the impacted ones.
LEMMA NeighboursAreReached ==
    ASSUME NEW was, NEW now, NEW old, NEW map, NEW changed,
           NEW a \in Defined(old), NEW b \in old[a].deps \cup old[a].refs
    PROVE  /\ a \in Seeds(was, now, changed) => b \in ImpactedIds(was, now, old, changed)
           /\ \A impacted : a \in impacted => b \in ReferenceImpacted(old, map, impacted)
BY DEF ImpactedIds, ReferenceImpacted, Neighbours

\* Outside the impacted symbols nothing appeared or disappeared.
LEMMA UnimpactedStay ==
    ASSUME NEW was, NEW now, NEW old, NEW deps, NEW changed,
           Refresh(was, now, old, deps, changed),
           NEW id \in Ids, id \notin Seeds(was, now, changed)
    PROVE  now[id] = was[id]
BY DEF Refresh, Seeds

\* The refreshed graph has a node for each symbol there is.
LEMMA NodesAfterRefresh ==
    ASSUME NEW was, NEW now, NEW old, NEW deps, NEW changed,
           Refresh(was, now, old, deps, changed)
    PROVE  LET impacted == ImpactedIds(was, now, old, changed)
               map == Reresolved(now, old, deps, impacted)
           IN  /\ map \in Graphs
               /\ Defined(map) = Defined(now)
               /\ Refreshed(was, now, old, deps, changed) \in Graphs
               /\ Defined(Refreshed(was, now, old, deps, changed)) = Defined(now)
<1> DEFINE impacted == ImpactedIds(was, now, old, changed)
           map == Reresolved(now, old, deps, impacted)
           result == Refreshed(was, now, old, deps, changed)
<1>1. \A id \in Ids : map[id] \in Node \cup {NoSymbol}
  BY DEF Refresh, Graphs, Node, Reresolved
<1>2. map \in Graphs
  BY <1>1 DEF Graphs, Reresolved
<1>3. ASSUME NEW id \in Ids PROVE map[id] = NoSymbol <=> now[id] = NoSymbol
  <2>1. CASE id \in impacted
    BY <2>1 DEF Reresolved, Refresh, Node
  <2>2. CASE id \notin impacted
    <3>1. now[id] = was[id]
      BY <2>2, UnimpactedStay DEF ImpactedIds
    <3>2. old[id] = NoSymbol <=> was[id] = NoSymbol
      BY DEF Refresh, Defined
    <3> QED BY <2>2, <3>1, <3>2 DEF Reresolved
  <2> QED BY <2>1, <2>2
<1>4. Defined(map) = Defined(now)
  BY <1>3 DEF Defined
<1>5. ASSUME NEW id \in Ids
      PROVE  /\ result[id] \in Node \cup {NoSymbol}
             /\ result[id] = NoSymbol <=> map[id] = NoSymbol
  <2>1. Callers(map, id) \in SUBSET Ids
    BY DEF Callers, Defined
  <2>2. map[id] # NoSymbol => [map[id] EXCEPT !.refs = Callers(map, id)] \in Node
    BY <1>1, <2>1 DEF Node
  <2> QED BY <1>1, <2>2 DEF Refreshed, Refresh
<1>6. result \in Graphs
  BY <1>5 DEF Graphs, Refreshed
<1>7. Defined(result) = Defined(map)
  BY <1>5 DEF Defined
<1> QED BY <1>2, <1>4, <1>6, <1>7

-----------------------------------------------------------------------------
(* Both theorems compare a symbol's references with the symbols whose      *)
(* dependencies name it.  They are recomputed for the reached symbols; for *)
(* any other symbol no edge at all has changed.                            *)

\* The nodes of the refreshed graph, by where they come from.
LEMMA NodeAfterRefresh ==
    ASSUME NEW was, NEW now, NEW old, NEW deps, NEW changed,
           Refresh(was, now, old, deps, changed),
           NEW id \in Defined(now)
    PROVE  LET impacted == ImpactedIds(was, now, old, changed)
               map == Reresolved(now, old, deps, impacted)
               again == ReferenceImpacted(old, map, impacted)
               result == Refreshed(was, now, old, deps, changed)
           IN  /\ impacted \subseteq again
               /\ result[id].deps = map[id].deps
               /\ id \in again => result[id].refs = Callers(map, id)
               /\ id \notin again => result[id] = old[id]
               /\ id \in impacted => map[id].deps = deps[id]
               /\ id \notin impacted => map[id] = old[id] /\ id \in Defined(old)
<1> DEFINE impacted == ImpactedIds(was, now, old, changed)
           map == Reresolved(now, old, deps, impacted)
           again == ReferenceImpacted(old, map, impacted)
           result == Refreshed(was, now, old, deps, changed)
<1>1. impacted \subseteq again
  BY DEF ReferenceImpacted
<1>2. id \in Ids /\ now[id] # NoSymbol /\ map[id] # NoSymbol /\ map[id] \in Node
  BY NodesAfterRefresh DEF Defined, Graphs
<1>3. result[id] = IF id \in again THEN [map[id] EXCEPT !.refs = Callers(map, id)] ELSE map[id]
  BY <1>2 DEF Refreshed
<1>4. /\ result[id].deps = map[id].deps
      /\ id \in again => result[id].refs = Callers(map, id)
  <2> HIDE DEF map, again, result
  <2> QED BY <1>2, <1>3 DEF Node
<1>5. id \in impacted => map[id].deps = deps[id]
  BY <1>2 DEF Reresolved
<1>6. id \notin impacted => map[id] = old[id]
  BY <1>2 DEF Reresolved
<1>7. id \notin impacted => id \in Defined(old)
  BY <1>2, <1>6 DEF Defined
<1>8. id \notin again => result[id] = old[id]
  BY <1>1, <1>3, <1>6
<1> QED BY <1>1, <1>4, <1>5, <1>6, <1>7, <1>8

\* The rows that a refresh updates besides those of the changed files are all
\* that differ: every other symbol keeps its edges.
THEOREM UpdatedRowsSuffice ==
    ASSUME NEW was, NEW now, NEW old, NEW deps, NEW changed,
           Refresh(was, now, old, deps, changed),
           NEW id \in Ids, id \notin PersistenceImpacted(was, now, old, deps, changed)
    PROVE  Refreshed(was, now, old, deps, changed)[id] = old[id]
<1> DEFINE impacted == ImpactedIds(was, now, old, changed)
           map == Reresolved(now, old, deps, impacted)
           again == ReferenceImpacted(old, map, impacted)
<1>1. id \notin again /\ id \notin impacted
  BY DEF PersistenceImpacted, ReferenceImpacted
<1>2. map[id] = old[id]
  BY <1>1 DEF Reresolved
<1> QED BY <1>1, <1>2 DEF Refreshed

\* A refresh of a graph that has both ends of every edge gives a graph that
\* has: what validate_resolved_symbol_edges demands of every index that is
\* loaded survives a partial update of the rows.
THEOREM RefreshKeepsPairs ==
    ASSUME NEW was, NEW now, NEW old, NEW deps, NEW changed,
           Refresh(was, now, old, deps, changed),
           \A id \in Ids : deps[id] \subseteq Defined(now),
           Paired(old)
    PROVE  Paired(Refreshed(was, now, old, deps, changed))
<1> DEFINE impacted == ImpactedIds(was, now, old, changed)
           map == Reresolved(now, old, deps, impacted)
           again == ReferenceImpacted(old, map, impacted)
           result == Refreshed(was, now, old, deps, changed)
<1>1. Defined(map) = Defined(now) /\ Defined(result) = Defined(now)
  BY NodesAfterRefresh
<1> SUFFICES ASSUME NEW a \in Defined(now)
             PROVE  /\ \A b \in result[a].deps : b \in Defined(now) /\ a \in result[b].refs
                    /\ \A b \in result[a].refs : b \in Defined(now) /\ a \in result[b].deps
  BY <1>1 DEF Paired
<1>2. ASSUME NEW b \in result[a].deps
      PROVE  b \in Defined(now) /\ a \in result[b].refs
  <2>1. b \in map[a].deps
    BY NodeAfterRefresh
  <2>2. b \in Defined(now)
    <3>1. CASE a \in impacted
      BY <2>1, <3>1, NodeAfterRefresh DEF Defined
    <3>2. CASE a \notin impacted
      <4>1. a \in Defined(old) /\ b \in old[a].deps
        BY <2>1, <3>2, NodeAfterRefresh
      <4>2. b \in Defined(old) /\ a \in old[b].refs
        BY <4>1 DEF Paired
      <4>3. b \notin Seeds(was, now, changed)
        BY <4>2, <3>2, NeighboursAreReached
      <4>4. now[b] = was[b]
        BY <4>2, <4>3, UnimpactedStay DEF Defined
      <4> QED BY <4>2, <4>4 DEF Defined, Refresh
    <3> QED BY <3>1, <3>2
  <2>3. CASE b \in again
    BY <2>1, <2>2, <2>3, <1>1, NodeAfterRefresh DEF Callers
  <2>4. CASE b \notin again
    <3>1. a \notin impacted
      <4> SUFFICES ASSUME a \in impacted PROVE FALSE
        OBVIOUS
      <4> QED BY <2>1, <2>4, <1>1 DEF ReferenceImpacted, Neighbours
    <3>2. a \in Defined(old) /\ b \in old[a].deps
      BY <2>1, <3>1, NodeAfterRefresh
    <3> QED BY <2>2, <2>4, <3>2, NodeAfterRefresh DEF Paired
  <2> QED BY <2>2, <2>3, <2>4
<1>3. ASSUME NEW b \in result[a].refs
      PROVE  b \in Defined(now) /\ a \in result[b].deps
  <2>1. CASE a \in again
    <3>1. b \in Callers(map, a)
      BY <2>1, NodeAfterRefresh
    <3>2. b \in Defined(now) /\ a \in map[b].deps
      BY <3>1, <1>1 DEF Callers
    <3> QED BY <3>2, NodeAfterRefresh
  <2>2. CASE a \notin again
    <3>1. a \notin impacted /\ a \in Defined(old) /\ b \in old[a].refs
      BY <2>2, NodeAfterRefresh
    <3>2. b \in Defined(old) /\ a \in old[b].deps
      BY <3>1 DEF Paired
    <3>3. b \notin impacted
      BY <2>2, <3>2, NeighboursAreReached
    <3>4. now[b] = was[b]
      BY <3>2, <3>3, UnimpactedStay DEF Defined, ImpactedIds
    <3>5. b \in Defined(now)
      BY <3>2, <3>4 DEF Defined, Refresh
    <3> QED BY <3>2, <3>3, <3>5, NodeAfterRefresh
  <2> QED BY <2>1, <2>2
<1> QED BY <1>2, <1>3

\* A graph resolved from nothing has both ends of every edge between symbols
\* that there are.
THEOREM ScratchIsPaired ==
    ASSUME NEW raw, NEW deps \in [Ids -> SUBSET Ids], NoSymbol \notin Node,
           \A id \in Ids : deps[id] \subseteq Defined(raw)
    PROVE  LET graph == FromScratch(raw, deps)
           IN  /\ graph \in Graphs
               /\ Defined(graph) = Defined(raw)
               /\ Paired(graph)
<1> DEFINE graph == FromScratch(raw, deps)
<1>1. \A id \in Ids : raw[id] # NoSymbol =>
          graph[id] = [deps |-> deps[id], refs |-> {c \in Defined(raw) : id \in deps[c]}]
  BY DEF FromScratch
<1>2. \A id \in Ids : raw[id] = NoSymbol => graph[id] = NoSymbol
  BY DEF FromScratch
<1>3. ASSUME NEW id \in Ids, raw[id] # NoSymbol PROVE graph[id] \in Node
  <2> DEFINE callers == {c \in Defined(raw) : id \in deps[c]}
  <2>1. callers \in SUBSET Ids
    BY DEF Defined
  <2>2. graph[id] = [deps |-> deps[id], refs |-> callers]
    BY <1>1, <1>3
  <2> HIDE DEF graph, callers
  <2> QED BY <2>1, <2>2 DEF Node
<1>4. graph \in Graphs
  BY <1>2, <1>3 DEF FromScratch, Graphs
<1>5. Defined(graph) = Defined(raw)
  BY <1>2, <1>3 DEF Defined
<1>6. Paired(graph)
  <2> HIDE DEF graph
  <2> SUFFICES ASSUME NEW a \in Defined(raw)
               PROVE  /\ \A b \in graph[a].deps : b \in Defined(raw) /\ a \in graph[b].refs
                      /\ \A b \in graph[a].refs : b \in Defined(raw) /\ a \in graph[b].deps
    BY <1>5 DEF Paired
  <2>1. ASSUME NEW c \in Defined(raw)
        PROVE  /\ c \in Ids
               /\ graph[c].deps = deps[c]
               /\ graph[c].refs = {d \in Defined(raw) : c \in deps[d]}
    <3>1. c \in Ids /\ raw[c] # NoSymbol
      BY DEF Defined
    <3>2. graph[c] = [deps |-> deps[c], refs |-> {d \in Defined(raw) : c \in deps[d]}]
      BY <1>1, <3>1
    <3> QED BY <3>1, <3>2
  <2>2. ASSUME NEW b \in graph[a].deps PROVE b \in Defined(raw) /\ a \in graph[b].refs
    <3>1. b \in deps[a] /\ b \in Defined(raw)
      BY <2>1
    <3> QED BY <3>1, <2>1
  <2>3. ASSUME NEW b \in graph[a].refs PROVE b \in Defined(raw) /\ a \in graph[b].deps
    BY <2>1
  <2> QED BY <2>2, <2>3
<1> QED BY <1>4, <1>5, <1>6

\* A refresh gives what resolving every symbol again gives, when the old graph
\* was resolved from nothing and no unimpacted symbol depends on others than
\* before: the rules of the languages owe the refresh that much, and no more.
THEOREM RefreshIsExact ==
    ASSUME NEW was, NEW now, NEW depsWas, NEW deps, NEW changed,
           Refresh(was, now, FromScratch(was, depsWas), deps, changed),
           depsWas \in [Ids -> SUBSET Ids],
           \A id \in Defined(now) \
                ImpactedIds(was, now, FromScratch(was, depsWas), changed) :
               deps[id] = depsWas[id]
    PROVE  Refreshed(was, now, FromScratch(was, depsWas), deps, changed)
               = FromScratch(now, deps)
<1> DEFINE old == FromScratch(was, depsWas)
           impacted == ImpactedIds(was, now, old, changed)
           map == Reresolved(now, old, deps, impacted)
           again == ReferenceImpacted(old, map, impacted)
           result == Refreshed(was, now, old, deps, changed)
           scratch == FromScratch(now, deps)
<1>1. /\ Defined(map) = Defined(now) /\ Defined(result) = Defined(now)
      /\ result \in Graphs
  BY NodesAfterRefresh
<1>2. ASSUME NEW c \in Defined(old)
      PROVE  /\ c \in Defined(was)
             /\ old[c].deps = depsWas[c]
             /\ old[c].refs = {d \in Defined(was) : c \in depsWas[d]}
  BY DEF Refresh, FromScratch, Defined
<1>3. ASSUME NEW c \in Defined(now) PROVE map[c].deps = deps[c]
  <2>1. CASE c \in impacted
    BY <2>1, NodeAfterRefresh
  <2>2. CASE c \notin impacted
    <3>1. map[c] = old[c] /\ c \in Defined(old)
      BY <2>2, NodeAfterRefresh
    <3>2. deps[c] = depsWas[c]
      BY <2>2
    <3> QED BY <3>1, <3>2, <1>2
  <2> QED BY <2>1, <2>2
<1>4. ASSUME NEW id \in Defined(now)
      PROVE  result[id].refs = {c \in Defined(now) : id \in deps[c]}
  <2>1. CASE id \in again
    <3>1. result[id].refs = Callers(map, id)
      BY <2>1, NodeAfterRefresh
    <3>2. Callers(map, id) = {c \in Defined(now) : id \in map[c].deps}
      BY <1>1 DEF Callers
    <3> QED BY <3>1, <3>2, <1>3
  <2>2. CASE id \notin again
    <3>1. result[id] = old[id] /\ id \in Defined(old)
      BY <2>2, NodeAfterRefresh
    <3>2. result[id].refs = {d \in Defined(was) : id \in depsWas[d]}
      BY <3>1, <1>2
    <3>3. ASSUME NEW d \in Defined(was), id \in depsWas[d]
          PROVE  d \in Defined(now) /\ id \in deps[d]
      <4>1. d \in Defined(old) /\ id \in old[d].deps
        BY <3>3, <1>2 DEF Refresh
      <4>2. d \notin impacted
        BY <2>2, <4>1, NeighboursAreReached
      <4>3. now[d] = was[d]
        BY <4>2, UnimpactedStay DEF Defined, ImpactedIds
      <4>4. d \in Defined(now)
        BY <4>3 DEF Defined
      <4> QED BY <3>3, <4>2, <4>4
    <3>4. ASSUME NEW d \in Defined(now), id \in deps[d]
          PROVE  d \in Defined(was) /\ id \in depsWas[d]
      <4>1. id \in map[d].deps
        BY <3>4, <1>3
      <4>2. d \notin impacted
        <5> SUFFICES ASSUME d \in impacted PROVE FALSE
          OBVIOUS
        <5> QED BY <2>2, <4>1, <1>1 DEF ReferenceImpacted, Neighbours
      <4>3. d \in Defined(was)
        BY <4>2, NodeAfterRefresh DEF Refresh
      <4> QED BY <3>4, <4>2, <4>3
    <3> QED BY <3>2, <3>3, <3>4
  <2> QED BY <2>1, <2>2
<1>5. ASSUME NEW id \in Ids PROVE result[id] = scratch[id]
  <2>1. CASE now[id] = NoSymbol
    BY <2>1, <1>1 DEF Defined, FromScratch
  <2>2. CASE now[id] # NoSymbol
    <3>1. id \in Defined(now)
      BY <2>2 DEF Defined
    <3>2. result[id].deps = deps[id]
      BY <3>1, <1>3, NodeAfterRefresh
    <3>3. result[id].refs = {c \in Defined(now) : id \in deps[c]}
      BY <3>1, <1>4
    <3>4. result[id] \in Node
      BY <3>1, <1>1 DEF Graphs, Defined
    <3>5. scratch[id] = [deps |-> deps[id], refs |-> {c \in Defined(now) : id \in deps[c]}]
      BY <2>2 DEF FromScratch
    <3> QED BY <3>2, <3>3, <3>4, <3>5 DEF Node
  <2> QED BY <2>1, <2>2
<1> QED BY <1>5, <1>1 DEF FromScratch, Graphs, Refreshed
=============================================================================
