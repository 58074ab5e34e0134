-------------------------- MODULE IndexStoreProofs --------------------------
(***************************************************************************)
(* What IndexStore keeps true for every workspace: the types, and for a    *)
(* database with one writing process the agreements between what the       *)
(* transactions store, with other programs writing the files in any order  *)
(* and bringing old texts back (Recurring is not constrained). In the last *)
(* part, where no file returns to a text on record: that the stored edges  *)
(* are those of the stored texts, and that what a query reports is whole.  *)
(***************************************************************************)
EXTENDS IndexStore, FiniteSetTheorems, WellFoundedInduction, TLAPS

Facts == INSTANCE RefreshSubgraphProofs

-----------------------------------------------------------------------------
(* The results about refreshes of graphs, for the symbols of texts.        *)

\* Tables and graphs have the types their operators expect.
LEMMA RawType ==
    ASSUME NEW texts \in Sources
    PROVE  RawOf(texts) \in Subgraph!Tables
<1> SUFFICES ASSUME NEW id \in Ids
             PROVE  RawOf(texts)[id] \in Subgraph!Symbol \cup {NoSymbol}
  BY DEF RawOf, Subgraph!Tables
<1>1. id[1] \in Files /\ id[2] \in Names
  BY DEF Ids
<1>2. texts[id[1]] \in Text \cup {Absent}
  BY <1>1 DEF Sources
<1> QED BY <1>1, <1>2 DEF RawOf, Text, Subgraph!Symbol

\* A symbol's id is that of its file and name, and it is there if its text
\* defines it.
LEMMA RawSymbol ==
    ASSUME NEW texts \in Sources, NEW id \in Ids
    PROVE  /\ RawOf(texts)[id] # NoSymbol <=>
                  texts[id[1]] # Absent /\ texts[id[1]].defines = id[2]
           /\ RawOf(texts)[id] # NoSymbol => RawOf(texts)[id].file = id[1]
<1>1. id[1] \in Files /\ id[2] \in Names
  BY DEF Ids
<1>2. texts[id[1]] \in Text \cup {Absent}
  BY <1>1 DEF Sources
<1> DEFINE symbol == [file |-> id[1], name |-> id[2], calls |-> texts[id[1]].calls]
<1>3. texts[id[1]] # Absent => symbol \in Subgraph!Symbol
  BY <1>1, <1>2 DEF Text, Subgraph!Symbol
<1>4. texts[id[1]] # Absent => symbol # NoSymbol
  BY <1>3, SentinelAssumption
<1>5. RawOf(texts)[id] = IF texts[id[1]] # Absent /\ texts[id[1]].defines = id[2]
                         THEN symbol ELSE NoSymbol
  BY DEF RawOf
<1> QED BY <1>4, <1>5

\* Names resolve to symbols that there are.
LEMMA DependenciesType ==
    ASSUME NEW texts \in Sources, NEW sources
    PROVE  LET raw == RawOf(texts)
           IN  /\ Dependencies(raw, sources) \in [Ids -> SUBSET Ids]
               /\ \A id \in Ids : Dependencies(raw, sources)[id] \subseteq Subgraph!Defined(raw)
<1> DEFINE raw == RawOf(texts)
<1> HIDE DEF raw
<1>1. ASSUME NEW id \in Ids, NEW name \in Names
      PROVE  Targets(raw, sources, id[1], name) \subseteq Subgraph!Defined(raw)
  <2> DEFINE named == {g \in Files : raw[<<g, name>>] # NoSymbol}
  <2>1. ASSUME NEW target \in Targets(raw, sources, id[1], name)
        PROVE  \E g \in named : target = <<g, name>>
    BY DEF Targets
  <2>2. ASSUME NEW g \in named PROVE <<g, name>> \in Subgraph!Defined(raw)
    BY DEF Subgraph!Defined, Ids
  <2> QED BY <2>1, <2>2
<1>2. ASSUME NEW id \in Ids, raw[id] # NoSymbol
      PROVE  raw[id].calls \subseteq Names
  BY <1>2, RawType DEF raw, Subgraph!Tables, Subgraph!Symbol
<1>3. ASSUME NEW id \in Ids
      PROVE  Dependencies(raw, sources)[id] \subseteq Subgraph!Defined(raw)
  BY <1>1, <1>2 DEF Dependencies
<1>4. Subgraph!Defined(raw) \subseteq Ids
  BY DEF Subgraph!Defined
<1> QED BY <1>3, <1>4 DEF Dependencies, raw

\* What resolving from nothing stores.
LEMMA ScratchStored ==
    ASSUME NEW texts \in Sources, NEW sources
    PROVE  LET raw == RawOf(texts)
               graph == Subgraph!FromScratch(raw, Dependencies(raw, sources))
           IN  /\ graph \in Subgraph!Graphs
               /\ Subgraph!Defined(graph) = Subgraph!Defined(raw)
               /\ Subgraph!Paired(graph)
<1> DEFINE raw == RawOf(texts)
           deps == Dependencies(raw, sources)
<1>1. /\ deps \in [Ids -> SUBSET Ids]
      /\ \A id \in Ids : deps[id] \subseteq Facts!Defined(raw)
  BY DependenciesType DEF Facts!Defined, Subgraph!Defined
<1>2. NoSymbol \notin Facts!Node
  BY SentinelAssumption DEF Facts!Node, Subgraph!Node
<1> HIDE DEF raw, deps
<1>3. /\ Facts!FromScratch(raw, deps) \in Facts!Graphs
      /\ Facts!Defined(Facts!FromScratch(raw, deps)) = Facts!Defined(raw)
      /\ Facts!Paired(Facts!FromScratch(raw, deps))
  BY <1>1, <1>2, Facts!ScratchIsPaired
<1> QED BY <1>3 DEF raw, deps, Facts!FromScratch, Subgraph!FromScratch, Facts!Graphs, Subgraph!Graphs,
               Facts!Node, Subgraph!Node, Facts!Defined, Subgraph!Defined, Facts!Paired, Subgraph!Paired

\* A refresh of texts is one of the tables they give.
LEMMA RefreshOfTexts ==
    ASSUME NEW wasTexts \in Sources, NEW nowTexts \in Sources, NEW old \in Subgraph!Graphs,
           NEW sources, NEW changed,
           \A f \in Files \ changed : nowTexts[f] = wasTexts[f],
           Subgraph!Defined(old) = Subgraph!Defined(RawOf(wasTexts))
    PROVE  Facts!Refresh(RawOf(wasTexts), RawOf(nowTexts), old,
                         Dependencies(RawOf(nowTexts), sources), changed)
<1> DEFINE was == RawOf(wasTexts)
           now == RawOf(nowTexts)
           deps == Dependencies(now, sources)
<1>1. deps \in [Ids -> SUBSET Ids]
  BY DependenciesType
<1>2. was \in Subgraph!Tables /\ now \in Subgraph!Tables
  BY RawType
<1>3. ASSUME NEW id \in Ids,
             id \notin Subgraph!ChangedSymbols(was, changed) \cup Subgraph!ChangedSymbols(now, changed)
      PROVE  now[id] = was[id]
  <2>1. id[1] \in Files
    BY DEF Ids
  <2>2. CASE id[1] \in changed
    BY <1>3, <2>2, RawSymbol DEF Subgraph!ChangedSymbols, Subgraph!Defined
  <2>3. CASE id[1] \notin changed
    BY <2>1, <2>3 DEF RawOf
  <2> QED BY <2>2, <2>3
<1> HIDE DEF was, now, deps
<1>4. Facts!Refresh(was, now, old, deps, changed)
  BY <1>1, <1>2, <1>3, SentinelAssumption
     DEF was, Facts!Refresh, Facts!Node, Subgraph!Node, Facts!Tables, Subgraph!Tables,
         Facts!Symbol, Subgraph!Symbol, Facts!Graphs, Subgraph!Graphs, Facts!Defined, Subgraph!Defined,
         Facts!ChangedSymbols, Subgraph!ChangedSymbols
<1> QED BY <1>4 DEF was, now, deps

\* The graph a refresh computes is the same whichever way its module is named.
LEMMA RefreshIsRefresh ==
    ASSUME NEW was, NEW now, NEW old, NEW deps, NEW changed
    PROVE  /\ Facts!Refreshed(was, now, old, deps, changed)
                  = Subgraph!Refreshed(was, now, old, deps, changed)
           /\ Facts!PersistenceImpacted(was, now, old, deps, changed)
                  = Subgraph!PersistenceImpacted(was, now, old, deps, changed)
           /\ Facts!ImpactedIds(was, now, old, changed)
                  = Subgraph!ImpactedIds(was, now, old, changed)
BY Zenon DEF Facts!Refreshed, Subgraph!Refreshed, Facts!PersistenceImpacted, Subgraph!PersistenceImpacted,
       Facts!ImpactedIds, Subgraph!ImpactedIds, Facts!Seeds, Subgraph!Seeds,
       Facts!ChangedSymbols, Subgraph!ChangedSymbols, Facts!ChangedNames, Subgraph!ChangedNames,
       Facts!ChangedReferenceNames, Subgraph!ChangedReferenceNames, Facts!Neighbours, Subgraph!Neighbours,
       Facts!Reresolved, Subgraph!Reresolved, Facts!ReferenceImpacted, Subgraph!ReferenceImpacted,
       Facts!Callers, Subgraph!Callers, Facts!Defined, Subgraph!Defined

\* What a refresh stores: the graph keeps its type and pairs, has a node for
\* each symbol, and differs from the old one in the rows it updates; its
\* dependencies are resolved again for the impacted symbols, the others keep
\* theirs.
LEMMA RefreshStored ==
    ASSUME NEW wasTexts \in Sources, NEW nowTexts \in Sources, NEW old \in Subgraph!Graphs,
           NEW sources, NEW changed,
           \A f \in Files \ changed : nowTexts[f] = wasTexts[f],
           Subgraph!Defined(old) = Subgraph!Defined(RawOf(wasTexts)),
           Subgraph!Paired(old)
    PROVE  LET was == RawOf(wasTexts)
               now == RawOf(nowTexts)
               deps == Dependencies(now, sources)
               result == Subgraph!Refreshed(was, now, old, deps, changed)
               impacted == Subgraph!PersistenceImpacted(was, now, old, deps, changed)
           IN  /\ result \in Subgraph!Graphs
               /\ Subgraph!Defined(result) = Subgraph!Defined(now)
               /\ Subgraph!Paired(result)
               /\ \A id \in Ids \ impacted : result[id] = old[id]
               /\ \A id \in Subgraph!Defined(now) :
                      result[id].deps = IF id \in Subgraph!ImpactedIds(was, now, old, changed)
                                        THEN deps[id] ELSE old[id].deps
<1> DEFINE was == RawOf(wasTexts)
           now == RawOf(nowTexts)
           deps == Dependencies(now, sources)
<1>1. /\ deps \in [Ids -> SUBSET Ids]
      /\ \A id \in Ids : deps[id] \subseteq Subgraph!Defined(now)
  BY DependenciesType
<1>2. Facts!Refresh(was, now, old, deps, changed)
  BY RefreshOfTexts
<1>3. Subgraph!Defined(old) = Subgraph!Defined(was)
  OBVIOUS
<1> HIDE DEF was, now, deps
<1>5. Facts!Paired(old) /\ \A id \in Ids : deps[id] \subseteq Facts!Defined(now)
  BY <1>1 DEF Facts!Paired, Subgraph!Paired, Facts!Defined, Subgraph!Defined
<1> DEFINE result == Facts!Refreshed(was, now, old, deps, changed)
           impacted == Facts!PersistenceImpacted(was, now, old, deps, changed)
<1>6. /\ result \in Facts!Graphs
      /\ Facts!Defined(result) = Facts!Defined(now)
  BY <1>2, Facts!NodesAfterRefresh
<1>7. Facts!Paired(result)
  BY <1>2, <1>5, Facts!RefreshKeepsPairs
<1>8. \A id \in Ids \ impacted : result[id] = old[id]
  BY <1>2, Facts!UpdatedRowsSuffice
<1>9. /\ result = Subgraph!Refreshed(was, now, old, deps, changed)
      /\ impacted = Subgraph!PersistenceImpacted(was, now, old, deps, changed)
      /\ Facts!ImpactedIds(was, now, old, changed) = Subgraph!ImpactedIds(was, now, old, changed)
  BY RefreshIsRefresh
<1>10. ASSUME NEW id \in Facts!Defined(now)
       PROVE  result[id].deps = IF id \in Facts!ImpactedIds(was, now, old, changed)
                                THEN deps[id] ELSE old[id].deps
  BY <1>2, Facts!NodeAfterRefresh
<1> HIDE DEF result, impacted
<1> QED BY <1>6, <1>7, <1>8, <1>9, <1>10
        DEF was, now, deps, Facts!Graphs, Subgraph!Graphs, Facts!Node, Subgraph!Node,
            Facts!Defined, Subgraph!Defined, Facts!Paired, Subgraph!Paired

-----------------------------------------------------------------------------
(* Types.                                                                  *)

LEMMA SmallTypes ==
    /\ NothingStored \in Sources
    /\ EmptyGraph \in Subgraph!Graphs
    /\ \A text \in Text \cup {Absent} : RowsOf(text) \in Text \cup {Absent}
    /\ \A files \in SUBSET Files : Cardinality(files) \in Nat
<1>1. \A files \in SUBSET Files : Cardinality(files) \in Nat
  BY IndexAssumption, FS_Subset, FS_CardinalityType
<1> QED BY <1>1 DEF NothingStored, Sources, EmptyGraph, Subgraph!Graphs, RowsOf

LEMMA StartedType ==
    \A kind \in {"rebuild", "refresh", "query"}, f \in Files \cup {NoFile} : Started(kind, f) \in Call
BY SmallTypes DEF Started, Call, WriterPhases, ReaderPhases

LEMMA InitType == Init => TypeOK
<1> SUFFICES ASSUME Init PROVE TypeOK
  OBVIOUS
<1>1. disk \in Sources
  BY DEF Init
<1>2. db \in Database
  BY SmallTypes DEF Init, Database, DatabasePhases
<1> QED BY <1>1, <1>2 DEF Init, TypeOK

\* A writer's call is no query, and a refresh that goes on is for a file.
WriterCall(call) ==
    /\ call.kind # "query"
    /\ (call.kind = "refresh" /\ call.pc # "return") \/ call.pc = "expand" => call.file \in Files

WriterCalls == \A p \in Writers : op[p] # Idle => WriterCall(op[p])

\* A step in which one process goes on with its call.
LEMMA CallStep ==
    ASSUME TypeOK, NEW p \in Processes, NEW call \in Call \cup {Idle},
           Continue(p, call), disk' \in Sources, db' \in Database
    PROVE  TypeOK'
BY DEF TypeOK, Continue

\* What a refresh stores is a graph, whatever it has read.
LEMMA RefreshedType ==
    ASSUME NEW was, NEW now, NEW old \in Subgraph!Graphs, NEW deps \in [Ids -> SUBSET Ids], NEW changed
    PROVE  Subgraph!Refreshed(was, now, old, deps, changed) \in Subgraph!Graphs
<1> DEFINE map == Subgraph!Reresolved(now, old, deps, Subgraph!ImpactedIds(was, now, old, changed))
           result == Subgraph!Refreshed(was, now, old, deps, changed)
<1>1. \A id \in Ids : map[id] \in Subgraph!Node \cup {NoSymbol}
  BY DEF Subgraph!Reresolved, Subgraph!Graphs, Subgraph!Node
<1>2. ASSUME NEW id \in Ids PROVE result[id] \in Subgraph!Node \cup {NoSymbol}
  <2> DEFINE node == [map[id] EXCEPT !.refs = Subgraph!Callers(map, id)]
  <2>1. map[id] # NoSymbol => node \in Subgraph!Node
    <3>1. Subgraph!Callers(map, id) \in SUBSET Ids
      BY DEF Subgraph!Callers, Subgraph!Defined
    <3> HIDE DEF map
    <3> QED BY <1>1, <3>1 DEF Subgraph!Node
  <2> QED BY <1>1, <2>1 DEF Subgraph!Refreshed
<1> QED BY <1>2 DEF Subgraph!Graphs, Subgraph!Refreshed

\* The statistics a writer reports.
LEMMA ReportedType ==
    ASSUME NEW call \in Call, call.kind # "query", NEW count \in Nat, NEW reused \in Nat
    PROVE  Reported(call, count, reused) \in Call
<1>1. Started(call.kind, NoFile) \in Call
  BY StartedType DEF Call
<1> QED BY <1>1 DEF Reported, Call, WriterPhases

\* The next file is one of those to read.
LEMMA ReadingFile ==
    ASSUME NEW todo \in SUBSET Files, NEW f \in First(todo) PROVE f \in Files
BY DEF First

LEMMA ReadIncrementalType ==
    ASSUME TypeOK, NEW p \in Processes, ReadIncremental(p)
    PROVE  TypeOK'
<1>1. /\ op[p] \in Call /\ op[p].pc = "read"
      /\ disk \in Sources /\ UNCHANGED <<disk, db>>
  BY DEF TypeOK, ReadIncremental, At
<1>2. PICK f \in First(op[p].todo) :
          LET reuse == Reusable(op[p], f, disk[f])
          IN  Continue(p, [op[p] EXCEPT
                  !.todo = @ \ {f},
                  !.states[f] = disk[f],
                  !.now[f] = IF reuse THEN op[p].was[f] ELSE RowsOf(disk[f]),
                  !.changed = @ \cup {f},
                  !.reused = IF reuse THEN @ + 1 ELSE @,
                  !.rebuilt = IF reuse THEN @ ELSE @ + 1])
  BY DEF ReadIncremental
<1> DEFINE reuse == Reusable(op[p], f, disk[f])
           rows == IF reuse THEN op[p].was[f] ELSE RowsOf(disk[f])
           states == [op[p].states EXCEPT ![f] = disk[f]]
           now == [op[p].now EXCEPT ![f] = rows]
           reused == IF reuse THEN op[p].reused + 1 ELSE op[p].reused
           rebuilt == IF reuse THEN op[p].rebuilt ELSE op[p].rebuilt + 1
           call == [op[p] EXCEPT !.todo = @ \ {f}, !.states = states, !.now = now,
                                 !.changed = @ \cup {f}, !.reused = reused, !.rebuilt = rebuilt]
<1>3. f \in Files
  BY <1>1, ReadingFile DEF Call
<1>4. disk[f] \in Text \cup {Absent} /\ rows \in Text \cup {Absent}
  BY <1>1, <1>3, SmallTypes DEF Sources, Call
<1> HIDE DEF reuse, rows
<1>5. states \in Sources /\ now \in Sources
  BY <1>1, <1>3, <1>4 DEF Sources, Call
<1>6. reused \in Nat /\ rebuilt \in Nat
  BY <1>1 DEF Call
<1>7. Continue(p, call)
  BY <1>2 DEF reuse, rows
<1> HIDE DEF states, now, reused, rebuilt
<1>8. call \in Call
  BY <1>1, <1>3, <1>5, <1>6 DEF Call
<1> HIDE DEF call
<1> QED BY <1>1, <1>7, <1>8, CallStep DEF TypeOK

LEMMA ReadRefreshedType ==
    ASSUME TypeOK, NEW p \in Processes, NEW f \in Files, ReadRefreshed(p, f)
    PROVE  TypeOK'
<1>1. /\ op[p] \in Call /\ op[p].pc = "read"
      /\ disk \in Sources /\ UNCHANGED <<disk, db>>
  BY DEF TypeOK, ReadRefreshed, At
<1> DEFINE counted == disk[f] # Absent \/ op[p].states[f] # Absent \/ op[p].now[f] # Absent
           states == [op[p].states EXCEPT ![f] = disk[f]]
           now == [op[p].now EXCEPT ![f] = RowsOf(disk[f])]
           rebuilt == IF counted THEN op[p].rebuilt + 1 ELSE op[p].rebuilt
           call == [op[p] EXCEPT !.todo = @ \ {f}, !.states = states, !.now = now,
                                 !.rebuilt = rebuilt]
<1>2. Continue(p, call)
  BY DEF ReadRefreshed
<1> HIDE DEF counted
<1>3. disk[f] \in Text \cup {Absent} /\ RowsOf(disk[f]) \in Text \cup {Absent}
  BY <1>1, SmallTypes DEF Sources
<1>4. states \in Sources /\ now \in Sources
  BY <1>1, <1>3 DEF Sources, Call
<1>5. rebuilt \in Nat
  BY <1>1 DEF Call
<1> HIDE DEF states, now, rebuilt
<1>6. call \in Call
  BY <1>1, <1>4, <1>5 DEF Call
<1> HIDE DEF call
<1> QED BY <1>1, <1>2, <1>6, CallStep DEF TypeOK

LEMMA PersistRebuildType ==
    ASSUME TypeOK, NEW p \in Processes, PersistRebuild(p)
    PROVE  TypeOK'
<1> DEFINE c == op[p]
           raw == RawOf(c.now)
           kept == [f \in Files |-> IF f \in c.changed THEN c.states[f] ELSE Absent]
           graph == Subgraph!FromScratch(raw, Dependencies(raw, disk))
<1>1. /\ c \in Call /\ c.kind = "rebuild"
      /\ disk \in Sources /\ disk' = disk
  BY DEF TypeOK, PersistRebuild, At, Rebuilding
<1>2. /\ db' = [phase |-> "indexed", count |-> Cardinality(c.changed), states |-> kept,
                rows |-> c.now, graph |-> graph]
      /\ Continue(p, Reported(c, Cardinality(c.changed), c.reused))
  BY DEF PersistRebuild
<1>3. Cardinality(c.changed) \in Nat /\ c.reused \in Nat
  BY <1>1, SmallTypes DEF Call
<1>4. c.now \in Sources /\ kept \in Sources
  BY <1>1 DEF Call, Sources
<1>5. graph \in Subgraph!Graphs
  BY <1>4, ScratchStored
<1>6. Reported(c, Cardinality(c.changed), c.reused) \in Call
  BY <1>1, <1>3, ReportedType
<1> HIDE DEF c, raw, kept, graph
<1>7. db' \in Database
  BY <1>2, <1>3, <1>4, <1>5 DEF Database, DatabasePhases
<1> QED BY <1>1, <1>2, <1>6, <1>7, CallStep

LEMMA PersistRefreshType ==
    ASSUME TypeOK, NEW p \in Processes, op[p] # Idle => op[p].kind # "query", PersistRefresh(p)
    PROVE  TypeOK'
<1> DEFINE c == op[p]
           was == RawOf(c.was)
           now == RawOf(c.now)
           deps == Dependencies(now, disk)
           result == Subgraph!Refreshed(was, now, c.graph, deps, c.changed)
           impacted == Subgraph!PersistenceImpacted(was, now, c.graph, deps, c.changed)
           states == [f \in Files |-> IF f \in c.changed THEN c.states[f] ELSE db.states[f]]
           rows == [f \in Files |-> IF f \in c.changed THEN c.now[f] ELSE db.rows[f]]
           graph == [id \in Ids |->
                        IF id[1] \in c.changed
                        THEN IF now[id] = NoSymbol THEN NoSymbol ELSE result[id]
                        ELSE IF id \in impacted /\ result[id] # NoSymbol /\ db.graph[id] # NoSymbol
                        THEN result[id]
                        ELSE db.graph[id]]
<1>1. /\ c \in Call /\ c.kind # "query"
      /\ disk \in Sources /\ disk' = disk /\ db \in Database
  BY DEF TypeOK, PersistRefresh, At
<1>2. /\ db' = [db EXCEPT !.phase = "indexed", !.count = RefreshedCount(c), !.states = states,
                          !.rows = rows, !.graph = graph]
      /\ Continue(p, Reported(c, Cardinality(Stored(c.states)), ReusedFiles(c)))
  BY DEF PersistRefresh
<1>3. /\ RefreshedCount(c) \in Nat /\ Cardinality(Stored(c.states)) \in Nat
      /\ ReusedFiles(c) \in Nat
  <2>1. Stored(c.states) \in SUBSET Files /\ c.rebuilt \in Nat
    BY <1>1 DEF Stored, Call
  <2>2. Cardinality(Stored(c.states)) \in Nat
    BY <2>1, SmallTypes
  <2> QED BY <2>1, <2>2 DEF RefreshedCount, ReusedFiles
<1>4. states \in Sources /\ rows \in Sources /\ c.now \in Sources /\ c.graph \in Subgraph!Graphs
  BY <1>1 DEF Call, Sources, Database
<1>5. result \in Subgraph!Graphs
  <2>1. deps \in [Ids -> SUBSET Ids]
    BY <1>4, DependenciesType
  <2> HIDE DEF was, now, deps
  <2> QED BY <1>4, <2>1, RefreshedType
<1>6. graph \in Subgraph!Graphs
  <2>1. db.graph \in Subgraph!Graphs
    BY <1>1 DEF Database
  <2> HIDE DEF was, now, deps, result, impacted
  <2> QED BY <1>5, <2>1 DEF Subgraph!Graphs
<1>7. Reported(c, Cardinality(Stored(c.states)), ReusedFiles(c)) \in Call
  BY <1>1, <1>3, ReportedType
<1> HIDE DEF c, states, rows, graph
<1>8. db' \in Database
  BY <1>1, <1>2, <1>3, <1>4, <1>6 DEF Database, DatabasePhases
<1> QED BY <1>1, <1>2, <1>7, <1>8, CallStep

LEMMA WriterStepType ==
    ASSUME TypeOK, WriterCalls, NEW p \in Writers, WriterStep(p)
    PROVE  TypeOK'
<1>0. /\ p \in Processes
      /\ disk \in Sources /\ db \in Database
      /\ op[p] # Idle => op[p] \in Call /\ WriterCall(op[p])
  BY DEF TypeOK, WriterCalls, Processes
<1>1. CASE BeginRebuild(p)
  BY <1>0, <1>1, CallStep, StartedType DEF BeginRebuild
<1>2. CASE \E f \in Files : BeginRefresh(p, f)
  BY <1>0, <1>2, CallStep, StartedType DEF BeginRefresh
<1>3. CASE ValidateWriter(p)
  <2>1. PICK call \in Call : Continue(p, call)
    <3>1. /\ [op[p] EXCEPT !.kind = "rebuild", !.file = NoFile, !.pc = "collect"] \in Call
          /\ [op[p] EXCEPT !.pc = "graph"] \in Call
      BY <1>0, <1>3 DEF ValidateWriter, At, Call, WriterPhases
    <3> QED BY <1>3, <3>1 DEF ValidateWriter
  <2> QED BY <1>0, <1>3, <2>1, CallStep DEF ValidateWriter
<1>4. CASE CollectFiles(p)
  <2>1. [op[p] EXCEPT !.pc = "tables", !.todo = {f \in Files : disk[f] # Absent}] \in Call
    BY <1>0, <1>4 DEF CollectFiles, At, Call, WriterPhases
  <2> QED BY <1>0, <1>4, <2>1, CallStep DEF CollectFiles
<1>5. CASE EnsureTables(p)
  <2>1. [op[p] EXCEPT !.pc = "states"] \in Call
    BY <1>0, <1>5 DEF EnsureTables, At, Call, WriterPhases
  <2>2. db' \in Database
    BY <1>0, <1>5 DEF EnsureTables, Database, DatabasePhases
  <2> QED BY <1>0, <1>5, <2>1, <2>2, CallStep DEF EnsureTables
<1>6. CASE LoadGraph(p)
  <2>1. [op[p] EXCEPT !.graph = db.graph, !.pc = "rows"] \in Call
    BY <1>0, <1>6 DEF LoadGraph, At, Call, WriterPhases, Database
  <2> QED BY <1>0, <1>6, <2>1, CallStep DEF LoadGraph
<1>7. CASE LoadStates(p)
  <2> DEFINE phase == IF Rebuilding(p) THEN "rows" ELSE "expand"
  <2>1. phase \in WriterPhases
    BY DEF WriterPhases
  <2>2. Continue(p, [op[p] EXCEPT !.states = db.states, !.pc = phase])
    BY <1>7 DEF LoadStates
  <2> HIDE DEF phase
  <2>3. [op[p] EXCEPT !.states = db.states, !.pc = phase] \in Call
    BY <1>0, <1>7, <2>1 DEF LoadStates, At, Call, Database
  <2> QED BY <1>0, <1>7, <2>2, <2>3, CallStep DEF LoadStates
<1>8. CASE LoadRows(p)
  <2> DEFINE phase == IF Rebuilding(p) THEN "read" ELSE "states"
             now == IF Rebuilding(p) THEN op[p].now ELSE db.rows
  <2>1. /\ op[p] \in Call
        /\ phase \in WriterPhases /\ now \in Sources
    BY <1>0, <1>8 DEF LoadRows, At, WriterPhases, Call, Database
  <2>2. Continue(p, [op[p] EXCEPT !.was = db.rows, !.now = now, !.pc = phase])
    BY <1>8 DEF LoadRows
  <2> HIDE DEF phase, now
  <2>3. [op[p] EXCEPT !.was = db.rows, !.now = now, !.pc = phase] \in Call
    BY <1>0, <2>1 DEF Call, Database
  <2> QED BY <1>0, <1>8, <2>2, <2>3, CallStep DEF LoadRows
<1>9. CASE ExpandRefreshFiles(p)
  <2> DEFINE again == {op[p].file} \cup Dependents(disk, op[p].file)
  <2>1. op[p] \in Call /\ op[p].pc = "expand"
    BY <1>0, <1>9 DEF ExpandRefreshFiles, At
  <2>2. again \in SUBSET Files
    <3>1. op[p].file \in Files
      BY <1>0, <1>9, <2>1 DEF ExpandRefreshFiles, At, WriterCall
    <3>2. Dependents(disk, op[p].file) \in SUBSET Files
      BY DEF Dependents
    <3> QED BY <3>1, <3>2
  <2>3. Continue(p, [op[p] EXCEPT !.todo = again, !.changed = again, !.pc = "read"])
    BY <1>9 DEF ExpandRefreshFiles
  <2> HIDE DEF again
  <2>4. [op[p] EXCEPT !.todo = again, !.changed = again, !.pc = "read"] \in Call
    BY <2>1, <2>2 DEF Call, WriterPhases
  <2> QED BY <1>0, <1>9, <2>3, <2>4, CallStep DEF ExpandRefreshFiles
<1>10. CASE ReadIncremental(p)
  BY <1>0, <1>10, ReadIncrementalType
<1>11. CASE \E f \in Files : ReadRefreshed(p, f)
  BY <1>0, <1>11, ReadRefreshedType
<1>12. CASE PersistRebuild(p)
  BY <1>0, <1>12, PersistRebuildType
<1>13. CASE PersistRefresh(p)
  BY <1>0, <1>13, PersistRefreshType DEF WriterCall
<1> QED BY <1>1, <1>2, <1>3, <1>4, <1>5, <1>6, <1>7, <1>8, <1>9, <1>10, <1>11, <1>12, <1>13
        DEF WriterStep

LEMMA ReaderStepType ==
    ASSUME TypeOK, NEW p \in Readers, ReaderStep(p)
    PROVE  TypeOK' /\ UNCHANGED <<disk, db>>
<1>0. /\ p \in Processes
      /\ disk \in Sources /\ db \in Database
      /\ op[p] # Idle => op[p] \in Call
  BY DEF TypeOK, Processes
<1>1. CASE BeginQuery(p)
  BY <1>0, <1>1, CallStep, StartedType DEF BeginQuery
<1>2. CASE LoadCount(p)
  <2>1. [op[p] EXCEPT !.count = db.count, !.pc = "states"] \in Call
    BY <1>0, <1>2 DEF LoadCount, At, Call, WriterPhases, Database
  <2> QED BY <1>0, <1>2, <2>1, CallStep DEF LoadCount
<1>3. CASE LoadQueryStates(p)
  <2>1. [op[p] EXCEPT !.states = db.states, !.pc = "graph"] \in Call
    BY <1>0, <1>3 DEF LoadQueryStates, At, Call, WriterPhases, Database
  <2> QED BY <1>0, <1>3, <2>1, CallStep DEF LoadQueryStates
<1>4. CASE LoadResolved(p)
  <2>1. Stored(op[p].states) \in SUBSET Files
    BY DEF Stored
  <2>2. [op[p] EXCEPT !.graph = db.graph, !.count = 0, !.pc = "fresh",
                      !.todo = Stored(op[p].states)] \in Call
    BY <1>0, <1>4, <2>1 DEF LoadResolved, At, Call, ReaderPhases, Database
  <2> QED BY <1>0, <1>4, <2>2, CallStep DEF LoadResolved
<1>5. CASE CheckFresh(p)
  <2>1. PICK f \in First(op[p].todo) : Continue(p, [op[p] EXCEPT !.todo = @ \ {f}])
    BY <1>5 DEF CheckFresh
  <2>2. [op[p] EXCEPT !.todo = @ \ {f}] \in Call
    BY <1>0, <1>5 DEF CheckFresh, At, Call
  <2> QED BY <1>0, <1>5, <2>1, <2>2, CallStep DEF CheckFresh
<1>6. CASE ScanUnindexed(p)
  <2>1. [op[p] EXCEPT !.pc = "return"] \in Call
    BY <1>0, <1>6 DEF ScanUnindexed, At, Call, ReaderPhases
  <2> QED BY <1>0, <1>6, <2>1, CallStep DEF ScanUnindexed
<1> QED BY <1>1, <1>2, <1>3, <1>4, <1>5, <1>6 DEF ReaderStep

LEMMA OtherStepType ==
    ASSUME TypeOK, \/ \E p \in Processes : Fail(p) \/ Return(p)
                   \/ \E f \in Files : ExternalWrite(f)
                   \/ UNCHANGED vars
    PROVE  TypeOK' /\ db' = db
<1>1. CASE \E p \in Processes : Fail(p) \/ Return(p)
  BY <1>1, CallStep DEF Fail, Return, TypeOK
<1>2. CASE \E f \in Files : ExternalWrite(f)
  <2>1. PICK f \in Files : ExternalWrite(f)
    BY <1>2
  <2>2. PICK t \in Holds[f] : disk' = [disk EXCEPT ![f] = t] /\ UNCHANGED <<db, op>>
    BY <2>1 DEF ExternalWrite
  <2>3. disk' \in Sources
    BY <2>2, IndexAssumption DEF TypeOK, Sources
  <2> QED BY <2>2, <2>3 DEF TypeOK
<1>3. CASE UNCHANGED vars
  BY <1>3 DEF TypeOK, vars
<1> QED BY <1>1, <1>2, <1>3

\* Each step keeps what it is to be a writer's call.
LEMMA WriterCallsStep ==
    ASSUME TypeOK, WriterCalls, [Next]_vars
    PROVE  WriterCalls'
<1>0. ASSUME NEW p \in Writers
      PROVE  p \in Processes /\ (op[p] # Idle => op[p] \in Call /\ WriterCall(op[p]))
  BY <1>0 DEF TypeOK, WriterCalls, Processes
<1>1. ASSUME NEW p \in Processes, NEW call, Continue(p, call),
             p \in Writers /\ call # Idle => WriterCall(call)
      PROVE  WriterCalls'
  BY <1>1 DEF TypeOK, WriterCalls, Continue
<1>2. ASSUME NEW p \in Writers, WriterStep(p) PROVE WriterCalls'
  <2>1. CASE BeginRebuild(p)
    BY <1>0, <1>1, <2>1 DEF BeginRebuild, Started, WriterCall
  <2>2. CASE \E f \in Files : BeginRefresh(p, f)
    BY <1>0, <1>1, <2>2 DEF BeginRefresh, Started, WriterCall
  <2>3. CASE ValidateWriter(p)
    <3>1. op[p] \in Call /\ WriterCall(op[p]) /\ op[p].pc = "validate"
      BY <1>0, <2>3 DEF ValidateWriter, At
    <3>2. CASE Rebuilding(p) \/ db.phase = "absent"
      <4>1. WriterCall([op[p] EXCEPT !.kind = "rebuild", !.file = NoFile, !.pc = "collect"])
        BY <3>1 DEF WriterCall, Call
      <4> QED BY <1>0, <1>1, <2>3, <3>2, <4>1 DEF ValidateWriter
    <3>3. CASE ~(Rebuilding(p) \/ db.phase = "absent")
      <4>1. WriterCall([op[p] EXCEPT !.pc = "graph"])
        BY <3>1 DEF WriterCall, Call
      <4> QED BY <1>0, <1>1, <2>3, <3>3, <4>1 DEF ValidateWriter
    <3> QED BY <3>2, <3>3
  <2>4. CASE CollectFiles(p)
    BY <1>0, <1>1, <2>4 DEF CollectFiles, At, WriterCall, Call
  <2>5. CASE EnsureTables(p)
    BY <1>0, <1>1, <2>5 DEF EnsureTables, At, WriterCall, Call
  <2>6. CASE LoadGraph(p)
    BY <1>0, <1>1, <2>6 DEF LoadGraph, At, WriterCall, Call
  <2>7. CASE LoadStates(p)
    BY <1>0, <1>1, <2>7 DEF LoadStates, At, Rebuilding, WriterCall, Call
  <2>8. CASE LoadRows(p)
    BY <1>0, <1>1, <2>8 DEF LoadRows, At, Rebuilding, WriterCall, Call
  <2>9. CASE ExpandRefreshFiles(p)
    BY <1>0, <1>1, <2>9 DEF ExpandRefreshFiles, At, WriterCall, Call
  <2>10. CASE ReadIncremental(p)
    BY <1>0, <1>1, <2>10 DEF ReadIncremental, At, WriterCall, Call
  <2>11. CASE \E f \in Files : ReadRefreshed(p, f)
    BY <1>0, <1>1, <2>11 DEF ReadRefreshed, At, WriterCall, Call
  <2>12. CASE PersistRebuild(p)
    BY <1>0, <1>1, <2>12 DEF PersistRebuild, At, Reported, Started, WriterCall, Call
  <2>13. CASE PersistRefresh(p)
    BY <1>0, <1>1, <2>13 DEF PersistRefresh, At, Reported, Started, WriterCall, Call
  <2> QED BY <1>2, <2>1, <2>2, <2>3, <2>4, <2>5, <2>6, <2>7, <2>8, <2>9, <2>10, <2>11, <2>12, <2>13
          DEF WriterStep
<1>3. ASSUME NEW p \in Readers, ReaderStep(p) PROVE WriterCalls'
  <2>1. p \in Processes /\ p \notin Writers
    BY IndexAssumption DEF Processes
  <2>2. \E call : Continue(p, call)
    BY <1>3 DEF ReaderStep, BeginQuery, LoadCount, LoadQueryStates, LoadResolved, CheckFresh, ScanUnindexed
  <2> QED BY <1>1, <2>1, <2>2
<1>4. ASSUME NEW p \in Processes, Fail(p) \/ Return(p) PROVE WriterCalls'
  BY <1>1, <1>4 DEF Fail, Return
<1>5. CASE (\E f \in Files : ExternalWrite(f)) \/ UNCHANGED vars
  BY <1>5 DEF ExternalWrite, vars, WriterCalls
<1> QED BY <1>2, <1>3, <1>4, <1>5 DEF Next

\* The variables keep their types: a statistic is never negative, what a
\* process has of the index is of the index's shape.
THEOREM StoreTypeCorrect == Spec => []TypeOK
<1>1. Init => TypeOK /\ WriterCalls
  BY InitType DEF Init, WriterCalls, Processes
<1>2. TypeOK /\ WriterCalls /\ [Next]_vars => (TypeOK /\ WriterCalls)'
  BY WriterStepType, ReaderStepType, OtherStepType, WriterCallsStep DEF Next
<1> QED BY <1>1, <1>2, PTL DEF Spec
-----------------------------------------------------------------------------
(* One writing process: what the transactions leave agrees with itself.    *)

\* One process at most rebuilds and refreshes the index.
OneWriter == \A p, q \in Writers : p = q

\* The parts of the database agree.
Consistent(d) ==
    /\ \A f \in Files : d.rows[f] = RowsOf(d.states[f])
    /\ d.count = Cardinality(Stored(d.states))
    /\ Subgraph!Defined(d.graph) = Subgraph!Defined(RawOf(d.rows))
    /\ Subgraph!Paired(d.graph)

\* What a rebuild has when it is to load the rows or to read files: a file it
\* has read stands as it was read, any other as it was stored.
RebuildInStep(call, d) ==
    /\ call.pc \notin {"graph", "expand"}
    /\ call.pc \in {"states", "rows"} => call.now = NothingStored /\ call.changed = {}
    /\ call.pc = "rows" => call.states = d.states
    /\ call.pc = "read" =>
           /\ call.was = d.rows
           /\ call.todo \cap call.changed = {}
           /\ \A f \in Files :
                  IF f \in call.changed
                  THEN call.states[f] # Absent /\ call.now[f] = RowsOf(call.states[f])
                  ELSE call.states[f] = d.states[f] /\ call.now[f] = Absent

\* What a refresh has loaded, and the texts it has instead of loaded ones.
RefreshInStep(call, d) ==
    /\ call.pc \notin {"collect", "tables"}
    /\ call.pc \in {"rows", "states", "expand", "read"} => call.graph = d.graph
    /\ call.pc \in {"states", "expand", "read"} => call.was = d.rows
    /\ call.pc \in {"states", "expand"} => call.now = d.rows
    /\ call.pc = "expand" => call.states = d.states
    /\ call.pc = "read" =>
           /\ call.todo \subseteq call.changed
           /\ \A f \in Files :
                  /\ call.now[f] = RowsOf(call.states[f])
                  /\ f \notin call.changed =>
                         call.states[f] = d.states[f] /\ call.now[f] = d.rows[f]

InStep(call, d) ==
    /\ call.pc \in {"validate", "collect", "tables"} => call.now = NothingStored /\ call.changed = {}
    /\ call.kind = "rebuild" => RebuildInStep(call, d)
    /\ call.kind = "refresh" => RefreshInStep(call, d)

WritersInStep == \A p \in Writers : op[p] # Idle => InStep(op[p], db)

\* An index in step with its fingerprints passes the checks of a load.
LEMMA ConsistentIsValid ==
    ASSUME NEW d \in Database, Consistent(d)
    PROVE  ValidSnapshot(d.graph, d.states)
<1> SUFFICES ASSUME NEW id \in Ids, d.graph[id] # NoSymbol
             PROVE  d.states[id[1]] # Absent
  BY DEF Consistent, ValidSnapshot
<1>1. d.rows \in Sources /\ id[1] \in Files
  BY DEF Database, Ids
<1>2. RawOf(d.rows)[id] # NoSymbol
  BY DEF Consistent, Subgraph!Defined
<1>3. d.rows[id[1]] # Absent
  BY <1>1, <1>2, RawSymbol
<1> QED BY <1>1, <1>3 DEF Consistent, RowsOf

\* The transaction of a rebuild: the files it has read are what it stores.
LEMMA RebuildCommits ==
    ASSUME TypeOK, NEW p \in Processes, op[p] # Idle => InStep(op[p], db), PersistRebuild(p)
    PROVE  Consistent(db')
<1> DEFINE c == op[p]
           raw == RawOf(c.now)
           kept == [f \in Files |-> IF f \in c.changed THEN c.states[f] ELSE Absent]
           graph == Subgraph!FromScratch(raw, Dependencies(raw, disk))
<1>1. /\ c \in Call /\ c.kind = "rebuild" /\ c.pc = "read"
      /\ RebuildInStep(c, db)
  BY DEF TypeOK, PersistRebuild, At, Rebuilding, InStep
<1>2. db' = [phase |-> "indexed", count |-> Cardinality(c.changed), states |-> kept,
             rows |-> c.now, graph |-> graph]
  BY DEF PersistRebuild
<1>3. \A f \in Files : c.now[f] = RowsOf(kept[f])
  BY <1>1 DEF RebuildInStep, RowsOf
<1>4. Stored(kept) = c.changed
  BY <1>1 DEF RebuildInStep, Stored, Call
<1>5. Subgraph!Defined(graph) = Subgraph!Defined(raw) /\ Subgraph!Paired(graph)
  BY <1>1, ScratchStored DEF Call
<1> HIDE DEF kept, graph
<1> QED BY <1>2, <1>3, <1>4, <1>5 DEF Consistent

\* The transaction of a refresh: the rows it does not update are what they
\* would be in the graph it has computed.
LEMMA RefreshCommits ==
    ASSUME TypeOK, Consistent(db), NEW p \in Processes, op[p] # Idle => InStep(op[p], db),
           op[p] # Idle => WriterCall(op[p]), PersistRefresh(p)
    PROVE  /\ Consistent(db')
           /\ db'.states = op[p].states /\ db'.rows = op[p].now
           /\ db'.graph = LET now == RawOf(op[p].now)
                          IN  Subgraph!Refreshed(RawOf(op[p].was), now, op[p].graph,
                                                 Dependencies(now, disk), op[p].changed)
<1> DEFINE c == op[p]
           was == RawOf(c.was)
           now == RawOf(c.now)
           deps == Dependencies(now, disk)
           result == Subgraph!Refreshed(was, now, c.graph, deps, c.changed)
           impacted == Subgraph!PersistenceImpacted(was, now, c.graph, deps, c.changed)
           states == [f \in Files |-> IF f \in c.changed THEN c.states[f] ELSE db.states[f]]
           rows == [f \in Files |-> IF f \in c.changed THEN c.now[f] ELSE db.rows[f]]
           graph == [id \in Ids |->
                        IF id[1] \in c.changed
                        THEN IF now[id] = NoSymbol THEN NoSymbol ELSE result[id]
                        ELSE IF id \in impacted /\ result[id] # NoSymbol /\ db.graph[id] # NoSymbol
                        THEN result[id]
                        ELSE db.graph[id]]
<1>1. c \in Call /\ c.pc = "read" /\ c.kind = "refresh"
  BY DEF TypeOK, PersistRefresh, At, Rebuilding, WriterCall, Call
<1>2. /\ c.graph = db.graph /\ c.was = db.rows
      /\ \A f \in Files : /\ c.now[f] = RowsOf(c.states[f])
                          /\ f \notin c.changed => c.states[f] = db.states[f] /\ c.now[f] = db.rows[f]
  BY <1>1 DEF PersistRefresh, At, InStep, RefreshInStep
<1>3. db' = [db EXCEPT !.phase = "indexed", !.count = RefreshedCount(c), !.states = states,
                       !.rows = rows, !.graph = graph]
  BY DEF PersistRefresh
<1>4. /\ db \in Database
      /\ c.now \in Sources /\ c.was \in Sources /\ c.states \in Sources
  BY <1>1 DEF TypeOK, Call
<1>5. states = c.states /\ rows = c.now
  BY <1>2, <1>4 DEF Sources
<1>6. /\ result \in Subgraph!Graphs
      /\ Subgraph!Defined(result) = Subgraph!Defined(now)
      /\ Subgraph!Paired(result)
      /\ \A id \in Ids \ impacted : result[id] = db.graph[id]
  <2>1. /\ \A f \in Files \ c.changed : c.now[f] = c.was[f]
        /\ db.graph \in Subgraph!Graphs
        /\ Subgraph!Defined(db.graph) = Subgraph!Defined(RawOf(c.was))
        /\ Subgraph!Paired(db.graph)
    BY <1>2, <1>4 DEF Consistent, Database
  <2> HIDE DEF c
  <2> QED BY <1>2, <1>4, <2>1, RefreshStored
<1>7. ASSUME NEW id \in Ids PROVE graph[id] = result[id]
  <2>1. id[1] \in Files
    BY DEF Ids
  <2>2. result[id] = NoSymbol <=> now[id] = NoSymbol
    BY <1>6 DEF Subgraph!Defined
  <2>3. db.graph[id] = NoSymbol <=> was[id] = NoSymbol
    BY <1>2 DEF Consistent, Subgraph!Defined
  <2>4. id[1] \notin c.changed => now[id] = was[id]
    BY <1>2, <2>1 DEF RawOf
  <2> HIDE DEF c, was, now, result, impacted
  <2> QED BY <1>6, <2>2, <2>3, <2>4
<1>8. graph = result
  BY <1>6, <1>7 DEF Subgraph!Graphs
<1>9. result = Subgraph!Refreshed(RawOf(op[p].was), now, op[p].graph,
                                   Dependencies(now, disk), op[p].changed)
  OBVIOUS
<1> HIDE DEF states, rows, graph, result
<1>10. /\ db'.states = c.states /\ db'.rows = c.now
      /\ db'.graph = result /\ db'.count = Cardinality(Stored(c.states))
  BY <1>3, <1>4, <1>5, <1>8 DEF Database, RefreshedCount
<1>11. Consistent(db')
  <2> HIDE DEF c
  <2> QED BY <1>2, <1>6, <1>10 DEF Consistent, now
<1> QED BY <1>9, <1>10, <1>11

\* A file that a rebuild reads gets the rows of its text, also if it reuses
\* those that are stored.
LEMMA IncrementalInStep ==
    ASSUME TypeOK, Consistent(db), NEW p \in Processes, op[p] # Idle => InStep(op[p], db),
           ReadIncremental(p)
    PROVE  \E call : Continue(p, call) /\ InStep(call, db)
<1>1. /\ op[p] \in Call /\ op[p].pc = "read" /\ op[p].kind = "rebuild"
      /\ disk \in Sources /\ RebuildInStep(op[p], db)
  BY DEF TypeOK, ReadIncremental, At, Rebuilding, InStep
<1>2. PICK f \in First(op[p].todo) :
          LET reuse == Reusable(op[p], f, disk[f])
          IN  /\ disk[f] # Absent
              /\ Continue(p, [op[p] EXCEPT
                     !.todo = @ \ {f},
                     !.states[f] = disk[f],
                     !.now[f] = IF reuse THEN op[p].was[f] ELSE RowsOf(disk[f]),
                     !.changed = @ \cup {f},
                     !.reused = IF reuse THEN @ + 1 ELSE @,
                     !.rebuilt = IF reuse THEN @ ELSE @ + 1])
  BY DEF ReadIncremental
<1> DEFINE reuse == Reusable(op[p], f, disk[f])
           rows == IF reuse THEN op[p].was[f] ELSE RowsOf(disk[f])
           states == [op[p].states EXCEPT ![f] = disk[f]]
           now == [op[p].now EXCEPT ![f] = rows]
           reused == IF reuse THEN op[p].reused + 1 ELSE op[p].reused
           rebuilt == IF reuse THEN op[p].rebuilt ELSE op[p].rebuilt + 1
           todo == op[p].todo \ {f}
           changed == op[p].changed \cup {f}
           call == [op[p] EXCEPT !.todo = todo, !.states = states, !.now = now,
                                 !.changed = changed, !.reused = reused, !.rebuilt = rebuilt]
<1>3. f \in Files /\ f \notin op[p].changed
  BY <1>1 DEF First, RebuildInStep, Call
<1>4. rows = RowsOf(disk[f])
  BY <1>1, <1>3 DEF RebuildInStep, Consistent, Reusable
<1>5. /\ states[f] = disk[f] /\ now[f] = rows
      /\ \A g \in Files \ {f} : states[g] = op[p].states[g] /\ now[g] = op[p].now[g]
  BY <1>1, <1>3 DEF Call, Sources
<1>6. todo \cap changed = {}
  BY <1>1 DEF RebuildInStep
<1>7. Continue(p, call)
  BY <1>2
<1> HIDE DEF rows, states, now, reused, rebuilt
<1>8. \A g \in Files :
          IF g \in changed
          THEN states[g] # Absent /\ now[g] = RowsOf(states[g])
          ELSE states[g] = db.states[g] /\ now[g] = Absent
  BY <1>1, <1>2, <1>3, <1>4, <1>5 DEF RebuildInStep
<1> HIDE DEF todo, changed
<1>9. /\ call.kind = "rebuild" /\ call.pc = "read" /\ call.was = op[p].was
      /\ call.todo = todo /\ call.changed = changed
      /\ call.states = states /\ call.now = now
  BY <1>1 DEF Call
<1>10. InStep(call, db)
  <2> HIDE DEF call
  <2> QED BY <1>1, <1>6, <1>8, <1>9 DEF InStep, RebuildInStep
<1> QED BY <1>7, <1>10

\* A file that a refresh reads gets the rows of its text.
LEMMA RefreshedInStep ==
    ASSUME TypeOK, NEW p \in Processes,
           op[p] # Idle => InStep(op[p], db) /\ WriterCall(op[p]),
           NEW f \in Files, ReadRefreshed(p, f)
    PROVE  \E call : Continue(p, call) /\ InStep(call, db)
<1>1. /\ op[p] \in Call /\ op[p].pc = "read" /\ op[p].kind = "refresh"
      /\ f \in op[p].todo /\ RefreshInStep(op[p], db)
  BY DEF TypeOK, ReadRefreshed, At, Rebuilding, InStep, WriterCall, Call
<1> DEFINE counted == disk[f] # Absent \/ op[p].states[f] # Absent \/ op[p].now[f] # Absent
           states == [op[p].states EXCEPT ![f] = disk[f]]
           now == [op[p].now EXCEPT ![f] = RowsOf(disk[f])]
           rebuilt == IF counted THEN op[p].rebuilt + 1 ELSE op[p].rebuilt
           todo == op[p].todo \ {f}
           call == [op[p] EXCEPT !.todo = todo, !.states = states, !.now = now, !.rebuilt = rebuilt]
<1>2. Continue(p, call)
  BY DEF ReadRefreshed
<1>3. /\ states[f] = disk[f] /\ now[f] = RowsOf(disk[f])
      /\ \A g \in Files \ {f} : states[g] = op[p].states[g] /\ now[g] = op[p].now[g]
  BY <1>1 DEF Call, Sources
<1> HIDE DEF counted, states, now, rebuilt
<1>4. f \in op[p].changed /\ todo \subseteq op[p].changed
  BY <1>1 DEF RefreshInStep
<1>5. \A g \in Files :
          /\ now[g] = RowsOf(states[g])
          /\ g \notin op[p].changed => states[g] = db.states[g] /\ now[g] = db.rows[g]
  BY <1>1, <1>3, <1>4 DEF RefreshInStep
<1> HIDE DEF todo
<1>6. /\ call.kind = "refresh" /\ call.pc = "read"
      /\ call.was = op[p].was /\ call.graph = op[p].graph
      /\ call.todo = todo /\ call.changed = op[p].changed
      /\ call.states = states /\ call.now = now
  BY <1>1 DEF Call
<1>7. InStep(call, db)
  <2> HIDE DEF call
  <2> QED BY <1>1, <1>4, <1>5, <1>6 DEF InStep, RefreshInStep
<1> QED BY <1>2, <1>7

\* A writer's own step keeps the database consistent and its call in step.
LEMMA WriterKeepsStep ==
    ASSUME TypeOK, WriterCalls, Consistent(db), NEW p \in Writers,
           op[p] # Idle => InStep(op[p], db), WriterStep(p)
    PROVE  /\ Consistent(db')
           /\ \E call : Continue(p, call) /\ InStep(call, db')
<1>0. /\ p \in Processes /\ disk \in Sources /\ db \in Database
      /\ op[p] # Idle => op[p] \in Call /\ WriterCall(op[p]) /\ InStep(op[p], db)
  BY DEF TypeOK, WriterCalls, Processes
<1>1. CASE BeginRebuild(p)
  BY <1>0, <1>1 DEF BeginRebuild, Started, InStep, RebuildInStep
<1>2. CASE \E f \in Files : BeginRefresh(p, f)
  BY <1>0, <1>2 DEF BeginRefresh, Started, InStep, RefreshInStep
<1>3. CASE ValidateWriter(p)
  <2>1. op[p] \in Call /\ op[p].pc = "validate" /\ InStep(op[p], db) /\ WriterCall(op[p])
    BY <1>0, <1>3 DEF ValidateWriter, At
  <2>2. CASE Rebuilding(p) \/ db.phase = "absent"
    <3>1. InStep([op[p] EXCEPT !.kind = "rebuild", !.file = NoFile, !.pc = "collect"], db)
      BY <2>1 DEF InStep, RebuildInStep, Call
    <3> QED BY <1>0, <1>3, <2>2, <3>1 DEF ValidateWriter
  <2>3. CASE ~(Rebuilding(p) \/ db.phase = "absent")
    <3>1. InStep([op[p] EXCEPT !.pc = "graph"], db)
      BY <2>1, <2>3 DEF InStep, RefreshInStep, Rebuilding, Call
    <3> QED BY <1>0, <1>3, <2>3, <3>1 DEF ValidateWriter
  <2> QED BY <2>2, <2>3
<1>4. CASE CollectFiles(p)
  <2>1. InStep([op[p] EXCEPT !.pc = "tables", !.todo = {f \in Files : disk[f] # Absent}], db)
    BY <1>0, <1>4 DEF CollectFiles, At, InStep, RebuildInStep, RefreshInStep, Call
  <2> QED BY <1>0, <1>4, <2>1 DEF CollectFiles
<1>5. CASE EnsureTables(p)
  <2>1. /\ db'.rows = db.rows /\ db'.states = db.states
        /\ db'.graph = db.graph /\ db'.count = db.count
    BY <1>0, <1>5 DEF EnsureTables, Database
  <2>2. op[p].kind = "rebuild"
    BY <1>0, <1>5 DEF EnsureTables, At, InStep, RefreshInStep, WriterCall, Call
  <2>3. InStep([op[p] EXCEPT !.pc = "states"], db')
    BY <1>0, <1>5, <2>2 DEF EnsureTables, At, InStep, RebuildInStep, Call
  <2> QED BY <1>0, <1>5, <2>1, <2>3 DEF EnsureTables, Consistent
<1>6. CASE LoadGraph(p)
  <2>1. op[p].kind = "refresh" /\ op[p] \in Call
    BY <1>0, <1>6 DEF LoadGraph, At, InStep, RebuildInStep, WriterCall, Call
  <2>2. InStep([op[p] EXCEPT !.graph = db.graph, !.pc = "rows"], db)
    BY <2>1 DEF InStep, RefreshInStep, Call
  <2> QED BY <1>0, <1>6, <2>2 DEF LoadGraph
<1>7. CASE LoadStates(p)
  <2>1. op[p] \in Call /\ op[p].pc = "states" /\ InStep(op[p], db) /\ WriterCall(op[p])
    BY <1>0, <1>7 DEF LoadStates, At
  <2>2. CASE Rebuilding(p)
    <3>1. InStep([op[p] EXCEPT !.states = db.states, !.pc = "rows"], db)
      BY <2>1, <2>2 DEF InStep, RebuildInStep, Rebuilding, Call
    <3> QED BY <1>0, <1>7, <2>2, <3>1 DEF LoadStates
  <2>3. CASE ~Rebuilding(p)
    <3>1. InStep([op[p] EXCEPT !.states = db.states, !.pc = "expand"], db)
      BY <2>1, <2>3 DEF InStep, RefreshInStep, Rebuilding, Call
    <3> QED BY <1>0, <1>7, <2>3, <3>1 DEF LoadStates
  <2> QED BY <2>2, <2>3
<1>8. CASE LoadRows(p)
  <2>1. op[p] \in Call /\ op[p].pc = "rows" /\ InStep(op[p], db) /\ WriterCall(op[p])
    BY <1>0, <1>8 DEF LoadRows, At
  <2>2. CASE Rebuilding(p)
    <3>1. \A f \in Files : op[p].states[f] = db.states[f] /\ op[p].now[f] = Absent
      BY <2>1, <2>2 DEF InStep, RebuildInStep, Rebuilding, NothingStored
    <3>2. op[p].changed = {}
      BY <2>1, <2>2 DEF InStep, RebuildInStep, Rebuilding
    <3>3. InStep([op[p] EXCEPT !.was = db.rows, !.now = op[p].now, !.pc = "read"], db)
      BY <2>1, <2>2, <3>1, <3>2 DEF InStep, RebuildInStep, Rebuilding, Call
    <3> QED BY <1>0, <1>8, <2>2, <3>3 DEF LoadRows
  <2>3. CASE ~Rebuilding(p)
    <3>1. InStep([op[p] EXCEPT !.was = db.rows, !.now = db.rows, !.pc = "states"], db)
      BY <2>1, <2>3 DEF InStep, RefreshInStep, Rebuilding, Call
    <3> QED BY <1>0, <1>8, <2>3, <3>1 DEF LoadRows
  <2> QED BY <2>2, <2>3
<1>9. CASE ExpandRefreshFiles(p)
  <2> DEFINE again == {op[p].file} \cup Dependents(disk, op[p].file)
  <2>1. op[p] \in Call /\ op[p].pc = "expand" /\ op[p].kind = "refresh" /\ RefreshInStep(op[p], db)
    BY <1>0, <1>9 DEF ExpandRefreshFiles, At, InStep, RebuildInStep, WriterCall, Call
  <2>2. \A f \in Files : /\ op[p].now[f] = db.rows[f] /\ op[p].states[f] = db.states[f]
                         /\ op[p].now[f] = RowsOf(op[p].states[f])
    BY <2>1 DEF RefreshInStep, Consistent
  <2> HIDE DEF again
  <2>3. InStep([op[p] EXCEPT !.todo = again, !.changed = again, !.pc = "read"], db)
    BY <2>1, <2>2 DEF InStep, RefreshInStep, Call
  <2> QED BY <1>0, <1>9, <2>3 DEF ExpandRefreshFiles, again
<1>10. CASE ReadIncremental(p)
  BY <1>0, <1>10, IncrementalInStep DEF ReadIncremental
<1>11. CASE \E f \in Files : ReadRefreshed(p, f)
  BY <1>0, <1>11, RefreshedInStep DEF ReadRefreshed
<1>12. CASE PersistRebuild(p)
  <2>1. op[p].kind = "rebuild"
    BY <1>12 DEF PersistRebuild, Rebuilding
  <2>2. InStep(Reported(op[p], Cardinality(op[p].changed), op[p].reused), db')
    BY <2>1 DEF Reported, Started, InStep, RebuildInStep
  <2> QED BY <1>0, <1>12, <2>2, RebuildCommits DEF PersistRebuild
<1>13. CASE PersistRefresh(p)
  <2>1. op[p].kind = "refresh"
    BY <1>0, <1>13 DEF PersistRefresh, At, Rebuilding, WriterCall, Call
  <2>2. InStep(Reported(op[p], Cardinality(Stored(op[p].states)), ReusedFiles(op[p])), db')
    BY <2>1 DEF Reported, Started, InStep, RefreshInStep
  <2> QED BY <1>0, <1>13, <2>2, RefreshCommits DEF PersistRefresh
<1> QED BY <1>1, <1>2, <1>3, <1>4, <1>5, <1>6, <1>7, <1>8, <1>9, <1>10, <1>11, <1>12, <1>13
        DEF WriterStep

\* The inductive invariant: nobody but the one writer changes the database.
StoreInv == TypeOK /\ WriterCalls /\ Consistent(db) /\ WritersInStep

LEMMA InitStoreInv == Init => StoreInv
<1> SUFFICES ASSUME Init PROVE StoreInv
  OBVIOUS
<1>1. TypeOK /\ WriterCalls /\ WritersInStep
  BY InitType DEF Init, WriterCalls, WritersInStep, Processes
<1>2. /\ db.states = NothingStored /\ db.rows = NothingStored
      /\ db.graph = EmptyGraph /\ db.count = 0
  BY DEF Init
<1>3. \A f \in Files : db.rows[f] = RowsOf(db.states[f])
  BY <1>2 DEF NothingStored, RowsOf
<1>4. db.count = Cardinality(Stored(db.states))
  BY <1>2, FS_EmptySet DEF NothingStored, Stored
<1>5. Subgraph!Defined(db.graph) = {} /\ Subgraph!Defined(RawOf(db.rows)) = {}
  <2>1. ASSUME NEW id \in Ids PROVE RawOf(NothingStored)[id] = NoSymbol
    BY SmallTypes, RawSymbol DEF NothingStored, Ids
  <2> QED BY <1>2, <2>1 DEF EmptyGraph, Subgraph!Defined
<1> QED BY <1>1, <1>3, <1>4, <1>5 DEF StoreInv, Consistent, Subgraph!Paired

LEMMA StoreInvStep ==
    ASSUME OneWriter, StoreInv, [Next]_vars
    PROVE  StoreInv'
<1>1. TypeOK' /\ WriterCalls'
  BY WriterStepType, ReaderStepType, OtherStepType, WriterCallsStep DEF StoreInv, Next
<1>2. CASE \E p \in Writers : WriterStep(p)
  <2>1. PICK p \in Writers : WriterStep(p)
    BY <1>2
  <2>2. PICK call : Continue(p, call) /\ InStep(call, db') /\ Consistent(db')
    BY <2>1, WriterKeepsStep DEF StoreInv, WritersInStep
  <2>3. WritersInStep'
    <3>1. ASSUME NEW q \in Writers PROVE op'[q] = call
      BY <2>2, <3>1 DEF OneWriter, Continue, StoreInv, TypeOK, Processes
    <3> QED BY <2>2, <3>1 DEF WritersInStep
  <2> QED BY <1>1, <2>2, <2>3 DEF StoreInv
<1>3. CASE \E p \in Readers : ReaderStep(p)
  <2>1. PICK p \in Readers : ReaderStep(p)
    BY <1>3
  <2>2. db' = db
    BY <2>1, ReaderStepType DEF StoreInv
  <2>3. \E call : Continue(p, call)
    BY <2>1 DEF ReaderStep, BeginQuery, LoadCount, LoadQueryStates, LoadResolved, CheckFresh, ScanUnindexed
  <2>4. \A q \in Writers : op'[q] = op[q]
    BY <2>3, IndexAssumption DEF Continue, StoreInv, TypeOK, Processes
  <2> QED BY <1>1, <2>2, <2>4 DEF StoreInv, WritersInStep
<1>4. CASE \E p \in Processes : Fail(p) \/ Return(p)
  <2>1. PICK p \in Processes : Continue(p, Idle) /\ db' = db
    BY <1>4 DEF Fail, Return
  <2>2. \A q \in Writers : op'[q] \in {op[q], Idle}
    BY <2>1 DEF Continue, StoreInv, TypeOK, Processes
  <2> QED BY <1>1, <2>1, <2>2 DEF StoreInv, WritersInStep
<1>5. CASE (\E f \in Files : ExternalWrite(f)) \/ UNCHANGED vars
  <2>1. op' = op /\ db' = db
    BY <1>5 DEF ExternalWrite, vars
  <2> QED BY <1>1, <2>1 DEF StoreInv, WritersInStep
<1> QED BY <1>2, <1>3, <1>4, <1>5 DEF Next

\* The rows of each file are those of the text with its stored fingerprint,
\* however the files changed while a rebuild or a refresh was reading them.
THEOREM OneWriterRowsMatch == ASSUME OneWriter PROVE Spec => []RowsMatchFingerprints
<1>1. StoreInv => RowsMatchFingerprints
  BY DEF StoreInv, Consistent, RowsMatchFingerprints
<1>2. StoreInv /\ [Next]_vars => StoreInv'
  BY StoreInvStep
<1> QED BY <1>1, <1>2, InitStoreInv, PTL DEF Spec

\* The metadata counts the file states: no query refuses what is stored.
THEOREM OneWriterCountMatches == ASSUME OneWriter PROVE Spec => []CountMatchesStates
<1>1. StoreInv => CountMatchesStates
  BY DEF StoreInv, Consistent, CountMatchesStates
<1>2. StoreInv /\ [Next]_vars => StoreInv'
  BY StoreInvStep
<1> QED BY <1>1, <1>2, InitStoreInv, PTL DEF Spec

\* Each edge is stored at both of its ends, and each symbol in an indexed
\* file: no load refuses what is stored.
THEOREM OneWriterEdgesArePaired == ASSUME OneWriter PROVE Spec => []StoredEdgesArePaired
<1>1. StoreInv => StoredEdgesArePaired
  BY ConsistentIsValid DEF StoreInv, TypeOK, StoredEdgesArePaired
<1>2. StoreInv /\ [Next]_vars => StoreInv'
  BY StoreInvStep
<1> QED BY <1>1, <1>2, InitStoreInv, PTL DEF Spec
-----------------------------------------------------------------------------
(* Functions that recur a bounded number of times.                         *)

LEMMA NaturalInduction ==
    ASSUME NEW S, 0 \in S, \A n \in Nat : n \in S => n + 1 \in S
    PROVE  Nat \subseteq S
<1> DEFINE Missing == {n \in Nat : n \notin S}
           Less == OpToRel(<, Nat)
<1> SUFFICES ASSUME Missing # {} PROVE FALSE
  OBVIOUS
<1>1. \E n \in Missing : \A m \in Missing : ~ (<<m, n>> \in Less)
  <2>1. IsWellFoundedOn(Less, Nat) /\ Missing \in SUBSET Nat
    BY NatLessThanWellFounded
  <2> HIDE DEF Less, Missing
  <2> QED BY <2>1, WFMin
<1>2. PICK n \in Missing : \A m \in Missing : ~ (<<m, n>> \in Less)
  BY <1>1
<1>3. \A m \in Missing : ~(m < n)
  BY <1>2 DEF OpToRel
<1>4. n # 0 /\ n - 1 \in Nat /\ n - 1 < n /\ (n - 1) + 1 = n
  OBVIOUS
<1>5. n - 1 \in S
  BY <1>3, <1>4
<1> QED BY <1>4, <1>5

\* h is the first n values after the given one, each the step of the one
\* before.
Iterates(h, n, A, first, step) ==
    /\ h \in [0 .. n -> A] /\ h[0] = first
    /\ \A i \in 1 .. n : h[i] = step[h[i - 1]]

LEMMA IteratesExist ==
    ASSUME NEW A, NEW first \in A, NEW step \in [A -> A]
    PROVE  \A n \in Nat : \E h : Iterates(h, n, A, first, step)
<1> DEFINE has == {n \in Nat : \E h : Iterates(h, n, A, first, step)}
<1>1. 0 \in has
  <2>1. Iterates([i \in 0 .. 0 |-> first], 0, A, first, step)
    BY DEF Iterates
  <2> QED BY <2>1
<1>2. ASSUME NEW n \in Nat, n \in has PROVE n + 1 \in has
  <2>1. PICK g : Iterates(g, n, A, first, step)
    BY <1>2
  <2> DEFINE h == [i \in 0 .. n + 1 |-> IF i = n + 1 THEN step[g[n]] ELSE g[i]]
  <2>2. \A i \in 0 .. n : g[i] \in A
    BY <2>1 DEF Iterates
  <2>3. \A i \in 0 .. n + 1 : i # n + 1 => i \in 0 .. n
    OBVIOUS
  <2>4. h \in [0 .. n + 1 -> A] /\ h[0] = first
    BY <2>1, <2>2, <2>3 DEF Iterates
  <2>5. ASSUME NEW i \in 1 .. n + 1 PROVE h[i] = step[h[i - 1]]
    <3>1. /\ i - 1 \in 0 .. n + 1 /\ i - 1 # n + 1 /\ i \in 0 .. n + 1
          /\ i = n + 1 => i - 1 = n
          /\ i # n + 1 => i \in 1 .. n
      OBVIOUS
    <3>2. h[i - 1] = g[i - 1]
      BY <3>1
    <3>3. CASE i = n + 1
      BY <3>1, <3>2, <3>3
    <3>4. CASE i # n + 1
      <4>1. g[i] = step[g[i - 1]]
        BY <2>1, <3>1, <3>4 DEF Iterates
      <4> QED BY <3>1, <3>2, <3>4, <4>1
    <3> QED BY <3>3, <3>4
  <2>6. Iterates(h, n + 1, A, first, step)
    <3> HIDE DEF h
    <3> QED BY <2>4, <2>5 DEF Iterates
  <2> QED BY <2>6
<1> HIDE DEF has
<1>3. Nat \subseteq has
  BY <1>1, <1>2, NaturalInduction
<1> QED BY <1>3 DEF has

FileCount == Cardinality(Files)

LEMMA FileCountType == FileCount \in Nat
BY IndexAssumption, FS_CardinalityType DEF FileCount

\* The re-exports followed from a file, a number of steps at most.
OneStepOn(sources, f, ends) ==
    IF sources[f] = Absent THEN NoFile
    ELSE IF sources[f].defines # NoName \/ sources[f].from = NoFile THEN f
    ELSE ends[sources[f].from]

Follows(after, sources) ==
    /\ after \in [0 .. FileCount -> [Files -> Files \cup {NoFile}]]
    /\ \A f \in Files : after[0][f] = NoFile
    /\ \A n \in 1 .. FileCount : \A f \in Files : after[n][f] = OneStepOn(sources, f, after[n - 1])

FollowBody(after, sources) ==
    [n \in 0 .. Cardinality(Files) |->
        [f \in Files |->
            IF n = 0 \/ sources[f] = Absent THEN NoFile
            ELSE IF sources[f].defines # NoName \/ sources[f].from = NoFile THEN f
            ELSE after[n - 1][sources[f].from]]]

LEMMA TerminalFollows ==
    ASSUME NEW sources \in Sources
    PROVE  \E after : Follows(after, sources) /\ Terminal(sources) = after[FileCount]
<1> DEFINE A == [Files -> Files \cup {NoFile}]
           first == [f \in Files |-> NoFile]
           step == [ends \in A |-> [f \in Files |-> OneStepOn(sources, f, ends)]]
<1>1. first \in A /\ step \in [A -> A]
  <2>1. ASSUME NEW ends \in A, NEW f \in Files PROVE OneStepOn(sources, f, ends) \in Files \cup {NoFile}
    BY DEF OneStepOn, Sources, Text
  <2> QED BY <2>1
<1>2. PICK h : Iterates(h, FileCount, A, first, step)
  <2> HIDE DEF A, first, step
  <2> QED BY <1>1, FileCountType, IteratesExist
<1>3. h = FollowBody(h, sources)
  <2>1. ASSUME NEW n \in 0 .. FileCount
        PROVE  h[n] = FollowBody(h, sources)[n]
    <3>1. CASE n = 0
      BY <1>2, <2>1, <3>1 DEF Iterates, FollowBody, FileCount
    <3>2. CASE n # 0
      <4>1. n \in 1 .. FileCount /\ n - 1 \in 0 .. FileCount
        BY <2>1, <3>2, FileCountType
      <4>2. h[n] = step[h[n - 1]] /\ h[n - 1] \in A
        BY <1>2, <4>1 DEF Iterates
      <4>3. h[n] = [f \in Files |-> OneStepOn(sources, f, h[n - 1])]
        BY <4>2
      <4>4. FollowBody(h, sources)[n] = [f \in Files |-> OneStepOn(sources, f, h[n - 1])]
        BY <2>1, <3>2 DEF FollowBody, FileCount, OneStepOn
      <4> QED BY <4>3, <4>4
    <3> QED BY <3>1, <3>2
  <2>2. h = [n \in 0 .. FileCount |-> h[n]]
    BY <1>2 DEF Iterates
  <2>3. FollowBody(h, sources) = [n \in 0 .. FileCount |-> FollowBody(h, sources)[n]]
    BY DEF FollowBody, FileCount
  <2> QED BY <2>1, <2>2, <2>3
<1> DEFINE after == CHOOSE after : after = FollowBody(after, sources)
<1>4. after = FollowBody(after, sources)
  BY <1>3
<1>5. Terminal(sources) = after[FileCount]
  BY DEF Terminal, FollowBody, FileCount
<1> HIDE DEF after
<1>6. \A n \in 0 .. FileCount : \A f \in Files :
          after[n][f] = IF n = 0 THEN NoFile ELSE OneStepOn(sources, f, after[n - 1])
  <2> SUFFICES ASSUME NEW n \in 0 .. FileCount, NEW f \in Files
               PROVE  after[n][f] = IF n = 0 THEN NoFile ELSE OneStepOn(sources, f, after[n - 1])
    OBVIOUS
  <2>1. after[n][f] = FollowBody(after, sources)[n][f]
    BY <1>4
  <2> QED BY <2>1 DEF FollowBody, FileCount, OneStepOn
<1>7. Follows(after, sources)
  <2> DEFINE typed == {n \in Nat : n <= FileCount => after[n] \in A}
  <2>0. \A n \in 0 .. FileCount : after[n] = [f \in Files |-> after[n][f]]
    <3> SUFFICES ASSUME NEW n \in 0 .. FileCount PROVE after[n] = [f \in Files |-> after[n][f]]
      OBVIOUS
    <3>1. after[n] = FollowBody(after, sources)[n]
      BY <1>4
    <3> QED BY <3>1 DEF FollowBody, FileCount
  <2>1. 0 \in typed
    <3>1. 0 \in 0 .. FileCount
      BY FileCountType
    <3> QED BY <1>6, <2>0, <3>1
  <2>2. ASSUME NEW n \in Nat, n \in typed PROVE n + 1 \in typed
    <3> SUFFICES ASSUME n + 1 <= FileCount PROVE after[n + 1] \in A
      OBVIOUS
    <3>1. n + 1 \in 0 .. FileCount /\ n + 1 # 0 /\ (n + 1) - 1 = n /\ n <= FileCount
      BY FileCountType
    <3>2. after[n] \in A
      BY <2>2, <3>1
    <3>3. \A f \in Files : after[n + 1][f] = OneStepOn(sources, f, after[n])
      BY <1>6, <3>1
    <3>4. ASSUME NEW f \in Files PROVE OneStepOn(sources, f, after[n]) \in Files \cup {NoFile}
      BY <3>2 DEF OneStepOn, Sources, Text
    <3>5. after[n + 1] = [f \in Files |-> after[n + 1][f]]
      BY <2>0, <3>1
    <3> QED BY <3>3, <3>4, <3>5
  <2>3. Nat \subseteq typed
    <3> HIDE DEF typed
    <3> QED BY <2>1, <2>2, NaturalInduction
  <2>4. \A n \in 0 .. FileCount : after[n] \in A
    BY <2>3, FileCountType
  <2>5. after = [n \in 0 .. FileCount |-> after[n]]
    <3>1. FollowBody(after, sources) = [n \in 0 .. FileCount |-> FollowBody(after, sources)[n]]
      BY DEF FollowBody, FileCount
    <3> QED BY <1>4, <3>1
  <2>6. after \in [0 .. FileCount -> A]
    BY <2>4, <2>5
  <2> QED BY <1>6, <2>6, FileCountType DEF Follows
<1> QED BY <1>5, <1>7

\* The files that import one of those found.
Importers(sources, found) ==
    {g \in Files : sources[g] # Absent /\ sources[g].from \in
                      {m \in found : sources[m] # Absent}}

SearchBody(after, sources, f) ==
    [n \in 0 .. Cardinality(Files) |->
        IF n = 0 THEN {f} ELSE after[n - 1] \cup Importers(sources, after[n - 1])]

\* The search for dependents finds all: it takes as many rounds as there are
\* files, and a round that finds nothing is the last that could.
LEMMA DependentsAreClosed ==
    ASSUME NEW sources \in Sources, NEW f \in Files
    PROVE  /\ f \in Dependents(sources, f)
           /\ Importers(sources, Dependents(sources, f)) \subseteq Dependents(sources, f)
<1> DEFINE A == SUBSET Files
           step == [found \in A |-> found \cup Importers(sources, found)]
<1>1. {f} \in A /\ step \in [A -> A]
  BY DEF Importers
<1>2. PICK h : Iterates(h, FileCount, A, {f}, step)
  <2> HIDE DEF A, step
  <2> QED BY <1>1, FileCountType, IteratesExist
<1>3. h = SearchBody(h, sources, f)
  <2>1. ASSUME NEW n \in 0 .. FileCount PROVE h[n] = SearchBody(h, sources, f)[n]
    <3>1. CASE n = 0
      BY <1>2, <2>1, <3>1 DEF Iterates, SearchBody, FileCount
    <3>2. CASE n # 0
      <4>1. n \in 1 .. FileCount /\ n - 1 \in 0 .. FileCount
        BY <2>1, <3>2, FileCountType
      <4>2. h[n] = step[h[n - 1]] /\ h[n - 1] \in A
        BY <1>2, <4>1 DEF Iterates
      <4>3. h[n] = h[n - 1] \cup Importers(sources, h[n - 1])
        BY <4>2
      <4>4. SearchBody(h, sources, f)[n] = h[n - 1] \cup Importers(sources, h[n - 1])
        BY <2>1, <3>2 DEF SearchBody, FileCount
      <4> QED BY <4>3, <4>4
    <3> QED BY <3>1, <3>2
  <2>2. h = [n \in 0 .. FileCount |-> h[n]]
    BY <1>2 DEF Iterates
  <2>3. SearchBody(h, sources, f) = [n \in 0 .. FileCount |-> SearchBody(h, sources, f)[n]]
    BY DEF SearchBody, FileCount
  <2> QED BY <2>1, <2>2, <2>3
<1> DEFINE after == CHOOSE after : after = SearchBody(after, sources, f)
<1>4. after = SearchBody(after, sources, f)
  BY <1>3
<1>5. Dependents(sources, f) = {g \in Files : g \in after[FileCount]}
  BY DEF Dependents, SearchBody, Importers, FileCount
<1> HIDE DEF after
<1>6. \A n \in 0 .. FileCount :
          after[n] = IF n = 0 THEN {f} ELSE after[n - 1] \cup Importers(sources, after[n - 1])
  <2> SUFFICES ASSUME NEW n \in 0 .. FileCount
               PROVE  after[n] = IF n = 0 THEN {f} ELSE after[n - 1] \cup Importers(sources, after[n - 1])
    OBVIOUS
  <2>1. after[n] = SearchBody(after, sources, f)[n]
    BY <1>4
  <2> QED BY <2>1 DEF SearchBody, FileCount
<1> DEFINE ended(n) == Importers(sources, after[n]) \subseteq after[n]
           ok == {n \in Nat : n <= FileCount =>
                     /\ f \in after[n] /\ after[n] \subseteq Files
                     /\ ended(n) \/ Cardinality(after[n]) >= n + 1}
<1>7. 0 \in ok
  <2>1. 0 \in 0 .. FileCount
    BY FileCountType
  <2>2. after[0] = {f}
    BY <1>6, <2>1
  <2> QED BY <2>2, FS_Singleton
<1>8. ASSUME NEW n \in Nat, n \in ok PROVE n + 1 \in ok
  <2> SUFFICES ASSUME n + 1 <= FileCount
               PROVE  /\ f \in after[n + 1] /\ after[n + 1] \subseteq Files
                      /\ ended(n + 1) \/ Cardinality(after[n + 1]) >= (n + 1) + 1
    OBVIOUS
  <2>1. n + 1 \in 0 .. FileCount /\ n + 1 # 0 /\ (n + 1) - 1 = n /\ n <= FileCount
    BY FileCountType
  <2>2. after[n + 1] = after[n] \cup Importers(sources, after[n])
    BY <1>6, <2>1
  <2>3. /\ f \in after[n] /\ after[n] \subseteq Files
        /\ ended(n) \/ Cardinality(after[n]) >= n + 1
    BY <1>8, <2>1
  <2>4. f \in after[n + 1] /\ after[n + 1] \subseteq Files
    BY <2>2, <2>3 DEF Importers
  <2>5. CASE ended(n)
    <3>1. after[n + 1] = after[n]
      BY <2>2, <2>5
    <3> QED BY <2>4, <2>5, <3>1
  <2>6. CASE ~ended(n)
    <3>1. /\ IsFiniteSet(after[n + 1])
          /\ after[n] \in SUBSET after[n + 1] /\ after[n] # after[n + 1]
      BY <2>2, <2>4, <2>6, FS_Subset, IndexAssumption
    <3>2. /\ Cardinality(after[n]) <= Cardinality(after[n + 1])
          /\ Cardinality(after[n]) # Cardinality(after[n + 1])
      BY <3>1, FS_Subset
    <3>3. Cardinality(after[n]) \in Nat /\ Cardinality(after[n + 1]) \in Nat
      BY <2>3, <2>4, SmallTypes
    <3> QED BY <2>3, <2>4, <2>6, <3>2, <3>3
  <2> QED BY <2>5, <2>6
<1>9. Nat \subseteq ok
  <2> HIDE DEF ok
  <2> QED BY <1>7, <1>8, NaturalInduction
<1>10. /\ f \in after[FileCount] /\ after[FileCount] \subseteq Files
       /\ ended(FileCount) \/ Cardinality(after[FileCount]) >= FileCount + 1
  BY <1>9, FileCountType
<1>11. Cardinality(after[FileCount]) <= FileCount /\ Cardinality(after[FileCount]) \in Nat
  BY <1>10, FS_Subset, IndexAssumption, SmallTypes DEF FileCount
<1>12. ended(FileCount)
  BY <1>10, <1>11, FileCountType
<1>13. Dependents(sources, f) = after[FileCount]
  BY <1>5, <1>10
<1> QED BY <1>10, <1>12, <1>13
-----------------------------------------------------------------------------
(* One writing process, files that do not return to old texts, and modules *)
(* that stay: the index has the edges of what it stores.                   *)

\* A text of which importers get what another module defines.
Reexports(text) == text # Absent /\ text.defines = NoName /\ text.from # NoFile

NeverForwards(f) == \A text \in Holds[f] : ~Reexports(text)

\* A module that files import and that may be deleted re-exports nothing.  It
\* is what the search for dependents relies on, and what the run of
\* IndexStoreDeletedBarrel leaves out.
ForwardersStay ==
    \A f \in Files : \A text \in Holds[f] \ {Absent} :
        text.from # NoFile /\ Absent \in Holds[text.from] => NeverForwards(text.from)

\* Texts that the files may have.
Held(sources) == \A f \in Files : sources[f] \in Holds[f] \cup {Absent}

\* No name that a symbol calls is one that file g defines.
DefinesNone(raw, g, id) == \A name \in raw[id].calls : raw[<<g, name>>] = NoSymbol

\* What a symbol's names resolve to is the same in two versions of the sources:
\* its imports lead through files that are the same in both, to where they end
\* or to files that neither lead on nor define what it calls.
SameWay(s, t, raw, id, P) ==
    /\ s[id[1]].from \in P
    /\ \A g \in P :
        \/ s[g] = t[g] /\ (Reexports(s[g]) => s[g].from \in P)
        \/ NeverForwards(g) /\ DefinesNone(raw, g, id)

Settled(s, t, raw, id) ==
    /\ s[id[1]] = t[id[1]]
    /\ s[id[1]].from = NoFile \/ \E P \in SUBSET Files : SameWay(s, t, raw, id, P)

\* Where an import leads that gives a symbol nothing.
Nowhere(raw, id, module) == module = NoFile \/ DefinesNone(raw, module, id)

\* Imports that go the same way end at the same module, or nowhere.
LEMMA SameEnds ==
    ASSUME NEW s \in Sources, NEW t \in Sources, Held(s), Held(t),
           NEW raw, NEW id \in Ids, NEW P \in SUBSET Files, SameWay(s, t, raw, id, P),
           NEW g \in P
    PROVE  \/ Terminal(s)[g] = Terminal(t)[g]
           \/ Nowhere(raw, id, Terminal(s)[g]) /\ Nowhere(raw, id, Terminal(t)[g])
<1>1. PICK a : Follows(a, s) /\ Terminal(s) = a[FileCount]
  BY TerminalFollows
<1>2. PICK b : Follows(b, t) /\ Terminal(t) = b[FileCount]
  BY TerminalFollows
<1> DEFINE agree(m, n) == m = n \/ (Nowhere(raw, id, m) /\ Nowhere(raw, id, n))
           ok == {n \in Nat : n <= FileCount => \A f \in P : agree(a[n][f], b[n][f])}
<1>3. 0 \in ok
  BY <1>1, <1>2 DEF Follows
<1>4. ASSUME NEW n \in Nat, n \in ok PROVE n + 1 \in ok
  <2> SUFFICES ASSUME n + 1 <= FileCount, NEW f \in P
               PROVE  agree(a[n + 1][f], b[n + 1][f])
    OBVIOUS
  <2>1. n + 1 \in 1 .. FileCount /\ (n + 1) - 1 = n /\ n <= FileCount
    BY FileCountType
  <2>2. f \in Files /\ \A m \in P : agree(a[n][m], b[n][m])
    BY <1>4, <2>1
  <2>3. a[n + 1][f] = OneStepOn(s, f, a[n]) /\ b[n + 1][f] = OneStepOn(t, f, b[n])
    <3>1. a[n + 1][f] = OneStepOn(s, f, a[(n + 1) - 1]) /\ b[n + 1][f] = OneStepOn(t, f, b[(n + 1) - 1])
      BY <1>1, <1>2, <2>1, <2>2 DEF Follows
    <3> QED BY <2>1, <3>1
  <2> HIDE DEF ok, agree
  <2>4. CASE s[f] = t[f] /\ (Reexports(s[f]) => s[f].from \in P)
    <3>1. CASE Reexports(s[f])
      <4>1. OneStepOn(s, f, a[n]) = a[n][s[f].from] /\ OneStepOn(t, f, b[n]) = b[n][s[f].from]
        BY <2>4, <3>1 DEF Reexports, OneStepOn
      <4> QED BY <2>2, <2>3, <2>4, <3>1, <4>1
    <3>2. CASE ~Reexports(s[f])
      <4>1. OneStepOn(s, f, a[n]) = OneStepOn(t, f, b[n])
        BY <2>4, <3>2 DEF Reexports, OneStepOn
      <4> QED BY <2>3, <4>1 DEF agree
    <3> QED BY <3>1, <3>2
  <2>5. CASE NeverForwards(f) /\ DefinesNone(raw, f, id)
    <3>1. ~Reexports(s[f]) /\ ~Reexports(t[f])
      BY <2>2, <2>5 DEF Held, NeverForwards, Reexports
    <3>2. OneStepOn(s, f, a[n]) \in {NoFile, f} /\ OneStepOn(t, f, b[n]) \in {NoFile, f}
      BY <3>1 DEF Reexports, OneStepOn
    <3> QED BY <2>3, <2>5, <3>2 DEF agree, Nowhere
  <2> QED BY <2>4, <2>5 DEF SameWay
<1>5. Nat \subseteq ok
  <2> HIDE DEF ok
  <2> QED BY <1>3, <1>4, NaturalInduction
<1>6. agree(a[FileCount][g], b[FileCount][g])
  BY <1>5, FileCountType
<1> QED BY <1>1, <1>2, <1>6

\* A symbol that is settled between two versions of the sources depends on the
\* same, if the tables say the same of the names it calls.
LEMMA SameDependencies ==
    ASSUME NEW s \in Sources, NEW t \in Sources, Held(s), Held(t),
           NEW raw \in Subgraph!Tables, NEW other \in Subgraph!Tables, NEW id \in Ids,
           raw[id] # NoSymbol, other[id] = raw[id],
           \A g \in Files : \A name \in raw[id].calls :
               raw[<<g, name>>] = NoSymbol <=> other[<<g, name>>] = NoSymbol,
           s[id[1]] # Absent, Settled(s, t, raw, id)
    PROVE  Dependencies(raw, s)[id] = Dependencies(other, t)[id]
<1> DEFINE f == id[1]
           named(name) == {g \in Files : raw[<<g, name>>] # NoSymbol}
<1>1. f \in Files /\ s[f] = t[f] /\ s[f] \in Text
  BY DEF Ids, Sources, Settled
<1>2. ASSUME NEW name \in raw[id].calls
      PROVE  Targets(raw, s, f, name) = Targets(other, t, f, name)
  <2>1. named(name) = {g \in Files : other[<<g, name>>] # NoSymbol}
    BY <1>2
  <2>2. CASE s[f].from = NoFile
    <3> DEFINE found == IF Cardinality(named(name)) = 1 THEN named(name) ELSE {}
    <3>1. Targets(raw, s, f, name) = {<<g, name>> : g \in found \ {f}}
      BY <2>2 DEF Targets
    <3>2. Targets(other, t, f, name) = {<<g, name>> : g \in found \ {f}}
      BY <1>1, <2>1, <2>2 DEF Targets
    <3> QED BY <3>1, <3>2
  <2>3. CASE s[f].from # NoFile
    <3>1. PICK P \in SUBSET Files : SameWay(s, t, raw, id, P)
      BY <2>3 DEF Settled
    <3> DEFINE m == Terminal(s)[s[f].from]
               n == Terminal(t)[s[f].from]
    <3>2. m = n \/ (Nowhere(raw, id, m) /\ Nowhere(raw, id, n))
      <4>1. s[f].from \in P
        BY <3>1 DEF SameWay
      <4> QED BY <3>1, <4>1, SameEnds
    <3>3. Targets(raw, s, f, name) = {<<g, name>> : g \in (named(name) \cap {m}) \ {f}}
      BY <1>1, <2>3, IndexAssumption DEF Targets
    <3>4. Targets(other, t, f, name) = {<<g, name>> : g \in (named(name) \cap {n}) \ {f}}
      BY <1>1, <2>1, <2>3, IndexAssumption DEF Targets
    <3>5. named(name) \cap {m} = named(name) \cap {n}
      <4>1. ASSUME NEW k, Nowhere(raw, id, k) PROVE k \notin named(name)
        BY <1>2, <4>1, IndexAssumption DEF Nowhere, DefinesNone
      <4> HIDE DEF m, n, named
      <4> QED BY <3>2, <4>1
    <3> QED BY <3>3, <3>4, <3>5
  <2> QED BY <2>2, <2>3
<1>3. Dependencies(raw, s)[id] = UNION {Targets(raw, s, f, name) : name \in raw[id].calls}
  BY DEF Dependencies
<1>4. Dependencies(other, t)[id] = UNION {Targets(other, t, f, name) : name \in raw[id].calls}
  BY DEF Dependencies
<1>5. {Targets(raw, s, f, name) : name \in raw[id].calls} = {Targets(other, t, f, name) : name \in raw[id].calls}
  BY <1>2
<1> QED BY <1>3, <1>4, <1>5

\* The dependencies of a symbol are those that its fingerprints tell, unless
\* they have been overtaken: no file goes back to a text on record.
EdgesSettled(d, sources) ==
    LET raw == RawOf(d.rows)
    IN  \A id \in Subgraph!Defined(raw) :
            Settled(sources, d.states, raw, id)
                => d.graph[id].deps = Dependencies(raw, d.states)[id]

\* A file that a refresh does not read imports none of those it reads, but
\* for a missing one that leads nowhere.
LeavesNoImporter(call, d, sources) ==
    call.kind = "refresh" /\ call.pc = "read" =>
        \A f \in Files \ call.changed :
            /\ sources[f] = d.states[f] /\ sources[f] # Absent
            /\ sources[f].from \in call.changed
            => NeverForwards(sources[f].from)

\* What a writer is about to store of a file is what is stored, or the file
\* has left that text behind.
Overtakes(call, d, sources) ==
    \/ call.kind = "rebuild" /\ call.pc \in {"tables", "states", "rows", "read"}
    \/ call.kind = "refresh" /\ call.pc = "read"
    =>
        \A f \in Files \ call.todo :
            \/ d.states[f] = IF call.kind = "refresh" \/ f \in call.changed
                             THEN call.states[f] ELSE Absent
            \/ sources[f] # d.states[f]

WriterInv(call, d, sources) ==
    Held(call.states) /\ LeavesNoImporter(call, d, sources) /\ Overtakes(call, d, sources)

\* The symbols and edges of the texts.
IsWhole(graph, states) ==
    LET raw == RawOf(states)
    IN  graph = Subgraph!FromScratch(raw, Dependencies(raw, states))

\* A query that will find a file that is not as it was indexed.
WillRefuse(call, sources) ==
    \E f \in Files : sources[f] # call.states[f] /\ (f \in call.todo \/ call.states[f] = Absent)

ReaderInv(call, d, sources) ==
    /\ call.pc = "graph" /\ call.states # NothingStored =>
        \A f \in Files : d.states[f] = call.states[f] \/ sources[f] # call.states[f]
    /\ call.pc = "fresh" =>
        \/ IsWhole(call.graph, call.states)
        \/ call.states # NothingStored /\ WillRefuse(call, sources)
    /\ call.pc = "return" => IsWhole(call.graph, call.states)

WholeInv ==
    /\ Held(db.states) /\ \A f \in Files : disk[f] \in Holds[f]
    /\ EdgesSettled(db, disk)
    /\ \A p \in Writers : op[p] # Idle => WriterInv(op[p], db, disk)
    /\ \A p \in Readers : op[p] # Idle => ReaderInv(op[p], db, disk)

\* Names resolved against the files are resolved as against what is stored.
LEMMA ResolvedIsSettled ==
    ASSUME NEW rows \in Sources, NEW states \in Sources, NEW sources \in Sources,
           \A f \in Files : rows[f] = RowsOf(states[f]),
           Held(states), Held(sources),
           NEW id \in Subgraph!Defined(RawOf(rows)), Settled(sources, states, RawOf(rows), id)
    PROVE  Dependencies(RawOf(rows), sources)[id] = Dependencies(RawOf(rows), states)[id]
<1> DEFINE raw == RawOf(rows)
<1>1. id \in Ids /\ raw[id] # NoSymbol /\ raw \in Subgraph!Tables
  BY RawType DEF Subgraph!Defined
<1>2. id[1] \in Files
  BY <1>1 DEF Ids
<1>3. rows[id[1]] # Absent
  BY <1>1, RawSymbol
<1>4. sources[id[1]] = states[id[1]]
  BY DEF Settled
<1>5. sources[id[1]] # Absent
  BY <1>2, <1>3, <1>4 DEF RowsOf
<1> HIDE DEF raw
<1> QED BY <1>1, <1>5, SameDependencies DEF raw

\* The files that the transaction of a rebuild found overtaken have no edges to
\* show for it.
LEMMA RebuildSettles ==
    ASSUME TypeOK, NEW p \in Processes, op[p] # Idle => InStep(op[p], db), PersistRebuild(p),
           Held(disk), Held(op[p].states)
    PROVE  EdgesSettled(db', disk) /\ Held(db'.states)
<1> DEFINE c == op[p]
           raw == RawOf(c.now)
           kept == [f \in Files |-> IF f \in c.changed THEN c.states[f] ELSE Absent]
           deps == Dependencies(raw, disk)
           graph == Subgraph!FromScratch(raw, deps)
<1>1. /\ c \in Call /\ c.kind = "rebuild" /\ c.pc = "read"
      /\ RebuildInStep(c, db) /\ disk \in Sources
  BY DEF TypeOK, PersistRebuild, At, Rebuilding, InStep
<1>2. db'.states = kept /\ db'.rows = c.now /\ db'.graph = graph
  BY DEF PersistRebuild
<1>3. \A f \in Files : c.now[f] = RowsOf(kept[f])
  BY <1>1 DEF RebuildInStep, RowsOf
<1>4. kept \in Sources /\ c.now \in Sources
  BY <1>1 DEF Call, Sources
<1>5. Held(kept)
  BY DEF Held
<1>6. ASSUME NEW id \in Subgraph!Defined(raw), Settled(disk, kept, raw, id)
      PROVE  graph[id].deps = Dependencies(raw, kept)[id]
  <2>1. deps[id] = Dependencies(raw, kept)[id]
    <3> HIDE DEF c, kept
    <3> QED BY <1>1, <1>3, <1>4, <1>5, <1>6, ResolvedIsSettled
  <2>2. graph[id].deps = deps[id]
    <3> HIDE DEF raw, deps
    <3> QED BY DEF Subgraph!FromScratch, Subgraph!Defined
  <2> QED BY <2>1, <2>2
<1> HIDE DEF c, kept, graph
<1> QED BY <1>2, <1>5, <1>6 DEF EdgesSettled, raw

\* An unimpacted symbol calls no name that a changed file defines, before or
\* after.
LEMMA UnimpactedCalls ==
    ASSUME NEW was \in Sources, NEW now \in Sources, NEW old, NEW changed,
           \A f \in Files \ changed : now[f] = was[f],
           NEW id \in Subgraph!Defined(RawOf(now)),
           id \notin Subgraph!ImpactedIds(RawOf(was), RawOf(now), old, changed)
    PROVE  /\ id \in Ids /\ id[1] \in Files \ changed
           /\ RawOf(was)[id] = RawOf(now)[id]
           /\ \A g \in Files \cap changed :
                  DefinesNone(RawOf(was), g, id) /\ DefinesNone(RawOf(now), g, id)
           /\ \A g \in Files : \A name \in RawOf(now)[id].calls :
                  RawOf(was)[<<g, name>>] = NoSymbol <=> RawOf(now)[<<g, name>>] = NoSymbol
<1> DEFINE w == RawOf(was)
           n == RawOf(now)
           names == Subgraph!ChangedNames(w, n, changed)
<1>1. id \in Ids /\ id[1] \in Files /\ n[id] # NoSymbol /\ n[id].calls \subseteq Names
  BY RawType DEF Subgraph!Defined, Subgraph!Tables, Subgraph!Symbol, Ids
<1>2. id \notin Subgraph!Seeds(w, n, changed)
  BY DEF Subgraph!ImpactedIds
<1>3. id[1] \notin changed
  BY <1>1, <1>2, RawSymbol DEF Subgraph!Seeds, Subgraph!ChangedSymbols, Subgraph!Defined
<1>4. w[id] = n[id]
  BY <1>1, <1>3 DEF RawOf
<1>5. n[id].calls \cap names = {}
  BY <1>1, <1>2, <1>3, RawSymbol DEF Subgraph!Seeds, Subgraph!Defined
<1>6. ASSUME NEW texts \in {was, now}, NEW g \in Files \cap changed, NEW name \in n[id].calls,
             RawOf(texts)[<<g, name>>] # NoSymbol
      PROVE  FALSE
  <2> DEFINE other == <<g, name>>
             symbol == RawOf(texts)[other]
  <2>1. other \in Ids /\ texts \in Sources
    BY <1>1, <1>6 DEF Ids
  <2>2. symbol.file = g /\ symbol.name = name
    BY <1>6, <2>1, RawSymbol DEF RawOf
  <2>3. other \in Subgraph!ChangedSymbols(RawOf(texts), changed)
    BY <1>6, <2>1, <2>2 DEF Subgraph!ChangedSymbols, Subgraph!Defined
  <2>4. name \in names
    <3> HIDE DEF other
    <3> QED BY <2>2, <2>3 DEF Subgraph!ChangedNames
  <2> QED BY <1>5, <1>6, <2>4
<1>7. ASSUME NEW g \in Files, g \notin changed, NEW name \in n[id].calls
      PROVE  w[<<g, name>>] = n[<<g, name>>]
  <2>1. <<g, name>> \in Ids
    BY <1>1, <1>7 DEF Ids
  <2> QED BY <1>7, <2>1 DEF RawOf
<1> HIDE DEF w, n
<1> QED BY <1>1, <1>3, <1>4, <1>6, <1>7 DEF DefinesNone, w, n

\* A symbol that a refresh leaves alone was settled before, if it is after: its
\* imports do not lead through a file that was read again, but for one that
\* leads nowhere.
LEMMA WasSettled ==
    ASSUME NEW s \in Sources, NEW t \in Sources, NEW sources \in Sources, NEW changed \in SUBSET Files,
           \A f \in Files \ changed : t[f] = s[f],
           NEW was, NEW now, NEW id \in Ids, id[1] \in Files \ changed,
           sources[id[1]] # Absent, was[id] = now[id],
           \A g \in Files \cap changed : DefinesNone(was, g, id),
           \A g \in Files : \A name \in now[id].calls :
               was[<<g, name>>] = NoSymbol <=> now[<<g, name>>] = NoSymbol,
           \A f \in Files \ changed :
               sources[f] = s[f] /\ sources[f] # Absent /\ sources[f].from \in changed
                   => NeverForwards(sources[f].from),
           Settled(sources, t, now, id)
    PROVE  Settled(sources, s, was, id) /\ Settled(s, t, was, id)
<1> DEFINE f == id[1]
<1>1. sources[f] = t[f] /\ t[f] = s[f] /\ f \in Files \ changed
  BY DEF Settled
<1>2. CASE sources[f].from = NoFile
  BY <1>1, <1>2 DEF Settled
<1>3. CASE sources[f].from # NoFile
  <2>1. PICK P \in SUBSET Files : SameWay(sources, t, now, id, P)
    BY <1>3 DEF Settled
  <2> DEFINE Q == {g \in P : g \notin changed \/ NeverForwards(g)}
  <2>2. Q \in SUBSET Files
    OBVIOUS
  <2>3. \A g \in Q : DefinesNone(now, g, id) => DefinesNone(was, g, id)
    BY DEF DefinesNone
  <2>4. \A g \in P : sources[g] = s[g] /\ g \notin changed /\ Reexports(sources[g]) /\ sources[g].from \in P
                       => sources[g].from \in Q
    BY DEF Reexports
  <2>5. sources[f].from \in Q
    <3>1. sources[f].from \in P
      BY <2>1 DEF SameWay
    <3> QED BY <1>1, <3>1
  <2> HIDE DEF Q
  <2>6. ASSUME NEW g \in Q
        PROVE  \/ /\ sources[g] = s[g] /\ s[g] = t[g]
                  /\ Reexports(sources[g]) => sources[g].from \in Q
               \/ s[g] = t[g] /\ NeverForwards(g) /\ DefinesNone(was, g, id)
               \/ NeverForwards(g) /\ DefinesNone(was, g, id)
    <3>1. g \in P /\ g \in Files /\ (g \notin changed \/ NeverForwards(g))
      BY DEF Q
    <3>2. CASE g \in changed
      BY <3>1, <3>2
    <3>3. CASE g \notin changed
      <4>1. t[g] = s[g]
        BY <3>1, <3>3
      <4>2. CASE sources[g] = t[g] /\ (Reexports(sources[g]) => sources[g].from \in P)
        BY <2>4, <3>1, <3>3, <4>1, <4>2
      <4>3. CASE NeverForwards(g) /\ DefinesNone(now, g, id)
        BY <2>3, <4>3
      <4> QED BY <2>1, <3>1, <4>2, <4>3 DEF SameWay
    <3> QED BY <3>2, <3>3
  <2>7. SameWay(sources, s, was, id, Q)
    BY <2>5, <2>6 DEF SameWay
  <2>8. SameWay(s, t, was, id, Q)
    BY <1>1, <2>5, <2>6 DEF SameWay
  <2> QED BY <1>1, <2>2, <2>7, <2>8 DEF Settled
<1> QED BY <1>2, <1>3

\* The transaction of a refresh: impacted symbols are resolved against the files,
\* the others have the dependencies they had, and would have them again.
LEMMA RefreshSettles ==
    ASSUME TypeOK, Consistent(db), NEW p \in Processes, op[p] # Idle => InStep(op[p], db),
           op[p] # Idle => WriterCall(op[p]), PersistRefresh(p),
           Held(disk), Held(db.states), Held(op[p].states),
           EdgesSettled(db, disk), LeavesNoImporter(op[p], db, disk)
    PROVE  EdgesSettled(db', disk) /\ Held(db'.states)
<1> DEFINE c == op[p]
           was == RawOf(c.was)
           now == RawOf(c.now)
           deps == Dependencies(now, disk)
           result == Subgraph!Refreshed(was, now, c.graph, deps, c.changed)
           resolved == Subgraph!ImpactedIds(was, now, c.graph, c.changed)
<1>1. /\ c \in Call /\ c.pc = "read" /\ c.kind = "refresh"
      /\ disk \in Sources /\ db \in Database
  BY DEF TypeOK, PersistRefresh, At, Rebuilding, WriterCall, Call
<1>2. /\ c.graph = db.graph /\ c.was = db.rows
      /\ \A f \in Files : /\ c.now[f] = RowsOf(c.states[f])
                          /\ f \notin c.changed => c.states[f] = db.states[f] /\ c.now[f] = db.rows[f]
  BY <1>1 DEF PersistRefresh, At, InStep, RefreshInStep
<1>3. db'.states = c.states /\ db'.rows = c.now /\ db'.graph = result
  BY RefreshCommits
<1>4. /\ db.states \in Sources /\ db.graph \in Subgraph!Graphs
      /\ c.now \in Sources /\ c.was \in Sources /\ c.states \in Sources
      /\ c.changed \in SUBSET Files
  BY <1>1 DEF Call, Database
<1>5. \A id \in Subgraph!Defined(now) :
          result[id].deps = IF id \in resolved THEN deps[id] ELSE db.graph[id].deps
  <2>1. /\ \A f \in Files \ c.changed : c.now[f] = c.was[f]
        /\ Subgraph!Defined(db.graph) = Subgraph!Defined(RawOf(c.was))
        /\ Subgraph!Paired(db.graph)
    BY <1>2 DEF Consistent
  <2> HIDE DEF c
  <2> QED BY <1>2, <1>4, <2>1, RefreshStored
<1>6. ASSUME NEW id \in Subgraph!Defined(now), Settled(disk, c.states, now, id)
      PROVE  result[id].deps = Dependencies(now, c.states)[id]
  <2> HIDE DEF c, result, resolved
  <2>1. deps[id] = Dependencies(now, c.states)[id]
    BY <1>1, <1>2, <1>4, <1>6, ResolvedIsSettled DEF c
  <2>2. CASE id \in resolved
    BY <1>5, <2>1, <2>2
  <2>3. CASE id \notin resolved
    <3>1. \A f \in Files \ c.changed : c.now[f] = c.was[f]
      BY <1>2
    <3>2. /\ id \in Ids /\ id[1] \in Files \ c.changed
          /\ was[id] = now[id]
          /\ \A g \in Files \cap c.changed : DefinesNone(was, g, id)
          /\ \A g \in Files : \A name \in now[id].calls :
                 was[<<g, name>>] = NoSymbol <=> now[<<g, name>>] = NoSymbol
      BY <1>4, <2>3, <3>1, UnimpactedCalls DEF resolved
    <3>3. now[id] # NoSymbol
      BY DEF Subgraph!Defined
    <3>4. disk[id[1]] # Absent
      <4>1. c.now[id[1]] # Absent
        BY <1>4, <3>2, <3>3, RawSymbol
      <4> QED BY <1>2, <1>6, <3>2, <4>1 DEF RowsOf, Settled
    <3>5. \A f \in Files \ c.changed :
              disk[f] = db.states[f] /\ disk[f] # Absent /\ disk[f].from \in c.changed
                  => NeverForwards(disk[f].from)
      BY <1>1 DEF LeavesNoImporter, c
    <3>6. \A f \in Files \ c.changed : c.states[f] = db.states[f]
      BY <1>2
    <3> HIDE DEF was, now
    <3>7. Settled(disk, db.states, was, id) /\ Settled(db.states, c.states, was, id)
      <4>1. PICK s, t, sources, changed :
                s = db.states /\ t = c.states /\ sources = disk /\ changed = c.changed
        OBVIOUS
      <4>2. /\ s \in Sources /\ t \in Sources /\ sources \in Sources /\ changed \in SUBSET Files
            /\ \A f \in Files \ changed : t[f] = s[f]
            /\ id \in Ids /\ id[1] \in Files \ changed
            /\ sources[id[1]] # Absent /\ was[id] = now[id]
            /\ Settled(sources, t, now, id)
        BY <1>1, <1>4, <1>6, <3>2, <3>4, <3>6, <4>1
      <4>3. /\ \A g \in Files \cap changed : DefinesNone(was, g, id)
            /\ \A g \in Files : \A name \in now[id].calls :
                   was[<<g, name>>] = NoSymbol <=> now[<<g, name>>] = NoSymbol
            /\ \A f \in Files \ changed :
                   sources[f] = s[f] /\ sources[f] # Absent /\ sources[f].from \in changed
                       => NeverForwards(sources[f].from)
        BY <3>2, <3>5, <4>1
      <4>4. Settled(sources, s, was, id) /\ Settled(s, t, was, id)
        BY <4>2, <4>3, WasSettled
      <4> QED BY <4>1, <4>4
    <3>8. db.graph[id].deps = Dependencies(was, db.states)[id]
      BY <1>2, <3>2, <3>3, <3>7 DEF EdgesSettled, was, Subgraph!Defined
    <3>9. was \in Subgraph!Tables /\ now \in Subgraph!Tables
      BY <1>4, RawType DEF was, now
    <3>10. db.states[id[1]] # Absent
      BY <3>4, <3>7 DEF Settled
    <3>11. Dependencies(was, db.states)[id] = Dependencies(now, c.states)[id]
      BY <1>4, <3>2, <3>3, <3>7, <3>9, <3>10, SameDependencies DEF c
    <3> QED BY <1>5, <2>3, <3>8, <3>11
  <2> QED BY <2>2, <2>3
<1> HIDE DEF c, result
<1> QED BY <1>3, <1>6 DEF EdgesSettled, now, c

\* The rows of a text tell of its symbols what the text does.
LEMMA RowsTellAll ==
    ASSUME NEW rows \in Sources, NEW states \in Sources, \A f \in Files : rows[f] = RowsOf(states[f])
    PROVE  RawOf(rows) = RawOf(states)
<1>1. ASSUME NEW id \in Ids PROVE RawOf(rows)[id] = RawOf(states)[id]
  <2>1. id[1] \in Files /\ id[2] \in Names /\ id[2] # NoName
    BY IndexAssumption DEF Ids
  <2>2. rows[id[1]] = RowsOf(states[id[1]])
    BY <2>1
  <2>3. CASE states[id[1]] = Absent \/ states[id[1]].defines = NoName
    BY <2>1, <2>2, <2>3 DEF RowsOf, RawOf
  <2>4. CASE ~(states[id[1]] = Absent \/ states[id[1]].defines = NoName)
    BY <2>2, <2>4 DEF RowsOf, RawOf
  <2> QED BY <2>3, <2>4
<1> QED BY <1>1 DEF RawOf

\* An index with the fingerprints of the files is what resolving them gives.
LEMMA FreshIsWhole ==
    ASSUME TypeOK, Consistent(db), EdgesSettled(db, disk), db.states = disk
    PROVE  IsWhole(db.graph, disk)
<1> DEFINE raw == RawOf(disk)
           deps == Dependencies(raw, disk)
           graph == db.graph
<1>1. disk \in Sources /\ db.rows \in Sources /\ graph \in Subgraph!Graphs
  BY DEF TypeOK, Database
<1>2. RawOf(db.rows) = raw
  BY <1>1, RowsTellAll DEF Consistent
<1>3. Subgraph!Defined(graph) = Subgraph!Defined(raw) /\ Subgraph!Paired(graph)
  BY <1>2 DEF Consistent
<1>4. ASSUME NEW id \in Subgraph!Defined(raw) PROVE graph[id].deps = deps[id]
  <2>1. id[1] \in Files /\ disk[id[1]] \in Text
    <3>1. id \in Ids /\ raw[id] # NoSymbol
      BY DEF Subgraph!Defined
    <3>2. id[1] \in Files
      BY <3>1 DEF Ids
    <3>3. disk[id[1]] # Absent
      BY <1>1, <3>1, RawSymbol
    <3> QED BY <1>1, <3>2, <3>3 DEF Sources
  <2>2. disk[id[1]].from = NoFile \/ SameWay(disk, disk, raw, id, Files)
    BY <1>1, <2>1 DEF SameWay, Reexports, Sources, Text
  <2>3. Settled(disk, disk, raw, id)
    BY <2>2 DEF Settled
  <2> QED BY <1>2, <2>3 DEF EdgesSettled
<1> HIDE DEF raw, deps, graph
<1>5. ASSUME NEW id \in Ids PROVE graph[id] = Subgraph!FromScratch(raw, deps)[id]
  <2>1. CASE raw[id] = NoSymbol
    BY <1>3, <2>1 DEF Subgraph!FromScratch, Subgraph!Defined
  <2>2. CASE raw[id] # NoSymbol
    <3>1. id \in Subgraph!Defined(raw) /\ id \in Subgraph!Defined(graph)
      BY <1>3, <2>2 DEF Subgraph!Defined
    <3>2. graph[id] \in Subgraph!Node
      BY <1>1, <3>1 DEF Subgraph!Graphs, Subgraph!Defined
    <3>3. graph[id].refs = {c \in Subgraph!Defined(raw) : id \in deps[c]}
      <4>1. \A c \in graph[id].refs : c \in Subgraph!Defined(raw) /\ id \in deps[c]
        BY <1>3, <1>4, <3>1 DEF Subgraph!Paired
      <4>2. \A c \in Subgraph!Defined(raw) : id \in deps[c] => c \in graph[id].refs
        BY <1>3, <1>4, <3>1 DEF Subgraph!Paired
      <4> QED BY <4>1, <4>2
    <3>4. graph[id] = [deps |-> deps[id], refs |-> {c \in Subgraph!Defined(raw) : id \in deps[c]}]
      BY <1>4, <3>1, <3>2, <3>3 DEF Subgraph!Node
    <3> QED BY <2>2, <3>4 DEF Subgraph!FromScratch
  <2> QED BY <2>1, <2>2
<1>6. graph = Subgraph!FromScratch(raw, deps)
  BY <1>1, <1>5 DEF Subgraph!Graphs, Subgraph!FromScratch
<1> QED BY <1>6 DEF IsWhole, raw, deps, graph

-----------------------------------------------------------------------------
(* The writes of other programs.                                           *)

\* A write of a text that is not the stored one leaves settled what it was.
LEMMA SettledBeforeAWrite ==
    ASSUME NEW sources, NEW written, NEW states, NEW f,
           \A g \in Files \ {f} : written[g] = sources[g], written[f] # states[f],
           NEW raw, NEW id \in Ids, Settled(written, states, raw, id)
    PROVE  Settled(sources, states, raw, id)
<1>1. id[1] \in Files /\ id[1] # f
  BY DEF Ids, Settled
<1>2. ASSUME NEW P \in SUBSET Files, SameWay(written, states, raw, id, P)
      PROVE  SameWay(sources, states, raw, id, P)
  <2>1. \A g \in P : written[g] = states[g] => sources[g] = written[g]
    OBVIOUS
  <2> QED BY <1>1, <1>2, <2>1 DEF SameWay
<1> QED BY <1>1, <1>2 DEF Settled

LEMMA WriteKeepsWhole ==
    ASSUME WholeInv, ~Recurring, TypeOK, NEW f \in Files, ExternalWrite(f)
    PROVE  WholeInv'
<1>1. PICK t \in Holds[f] : /\ disk' = [disk EXCEPT ![f] = t] /\ t \notin OnRecord(f)
                            /\ UNCHANGED <<db, op>>
  BY DEF ExternalWrite
<1>2. /\ disk'[f] = t /\ \A g \in Files \ {f} : disk'[g] = disk[g]
      /\ t # db.states[f]
      /\ \A p \in Processes : op[p] # Idle /\ op[p].states # NothingStored => t # op[p].states[f]
  BY <1>1 DEF TypeOK, Sources, OnRecord
<1>3. Held(db.states)' /\ \A g \in Files : disk'[g] \in Holds[g]
  BY <1>1, <1>2 DEF WholeInv, Held
<1>4. EdgesSettled(db, disk')
  <2> SUFFICES ASSUME NEW id \in Subgraph!Defined(RawOf(db.rows)),
                      Settled(disk', db.states, RawOf(db.rows), id)
               PROVE  Settled(disk, db.states, RawOf(db.rows), id)
    BY DEF WholeInv, EdgesSettled
  <2>1. id \in Ids
    BY DEF Subgraph!Defined
  <2>2. PICK old, new, states, raw :
            old = disk /\ new = disk' /\ states = db.states /\ raw = RawOf(db.rows)
    OBVIOUS
  <2>3. /\ \A g \in Files \ {f} : new[g] = old[g]
        /\ new[f] # states[f] /\ Settled(new, states, raw, id)
    BY <1>2, <2>2
  <2>4. Settled(old, states, raw, id)
    BY <2>1, <2>3, SettledBeforeAWrite
  <2> QED BY <2>2, <2>4
<1>5. ASSUME NEW p \in Writers, op[p] # Idle
      PROVE  WriterInv(op[p], db, disk')
  <2>1. WriterInv(op[p], db, disk)
    BY <1>5 DEF WholeInv
  <2>2. LeavesNoImporter(op[p], db, disk')
    BY <1>2, <2>1 DEF WriterInv, LeavesNoImporter
  <2>3. Overtakes(op[p], db, disk')
    BY <1>2, <2>1 DEF WriterInv, Overtakes
  <2> QED BY <2>1, <2>2, <2>3 DEF WriterInv
<1>6. ASSUME NEW p \in Readers, op[p] # Idle PROVE ReaderInv(op[p], db, disk')
  <2>1. ReaderInv(op[p], db, disk) /\ p \in Processes
    BY <1>6 DEF WholeInv, Processes
  <2>2. op[p].states # NothingStored => \A g \in Files : disk[g] # op[p].states[g] => disk'[g] # op[p].states[g]
    BY <1>2, <1>6, <2>1
  <2> QED BY <2>1, <2>2 DEF ReaderInv, WillRefuse
<1> QED BY <1>1, <1>3, <1>4, <1>5, <1>6 DEF WholeInv

-----------------------------------------------------------------------------
(* The steps of the writer.                                                *)

\* What a writer changes of the stored fingerprints is overtaken.
OnlyOvertaken(d, e, sources) ==
    \A f \in Files : e.states[f] = d.states[f] \/ sources[f] # d.states[f]

\* A refresh reads every importer of what it reads that is left by a file that
\* is there.
LEMMA ExpandLeavesNoImporter ==
    ASSUME ForwardersStay, NEW sources \in Sources, \A f \in Files : sources[f] \in Holds[f],
           NEW file \in Files, NEW g \in Files,
           g \notin {file} \cup Dependents(sources, file), sources[g] # Absent,
           sources[g].from \in {file} \cup Dependents(sources, file)
    PROVE  NeverForwards(sources[g].from)
<1> DEFINE found == Dependents(sources, file)
           m == sources[g].from
<1>1. file \in found /\ Importers(sources, found) \subseteq found
  BY DependentsAreClosed
<1>2. found \subseteq Files
  BY DEF Dependents
<1>3. m \in found /\ m \in Files /\ g \notin found
  BY <1>1, <1>2
<1>4. sources[m] = Absent
  <2> HIDE DEF found
  <2> QED BY <1>1, <1>3 DEF Importers
<1>5. sources[g] \in Holds[g] \ {Absent} /\ m # NoFile /\ Absent \in Holds[m]
  BY <1>3, <1>4, IndexAssumption
<1> QED BY <1>5 DEF ForwardersStay

LEMMA IncrementalKeepsWriter ==
    ASSUME TypeOK, NEW p \in Processes, op[p] # Idle => InStep(op[p], db) /\ WriterInv(op[p], db, disk),
           \A f \in Files : disk[f] \in Holds[f], ReadIncremental(p)
    PROVE  \E call : Continue(p, call) /\ WriterInv(call, db, disk)
<1>1. /\ op[p] \in Call /\ op[p].pc = "read" /\ op[p].kind = "rebuild"
      /\ disk \in Sources /\ WriterInv(op[p], db, disk)
  BY DEF TypeOK, ReadIncremental, At, Rebuilding
<1>2. PICK f \in First(op[p].todo) : \E now, reused, rebuilt :
          Continue(p, [op[p] EXCEPT
              !.todo = @ \ {f}, !.states[f] = disk[f], !.now = now,
              !.changed = @ \cup {f}, !.reused = reused, !.rebuilt = rebuilt])
  BY DEF ReadIncremental
<1>3. PICK now, reused, rebuilt :
          Continue(p, [op[p] EXCEPT
              !.todo = @ \ {f}, !.states[f] = disk[f], !.now = now,
              !.changed = @ \cup {f}, !.reused = reused, !.rebuilt = rebuilt])
  BY <1>2
<1> DEFINE states == [op[p].states EXCEPT ![f] = disk[f]]
           todo == op[p].todo \ {f}
           changed == op[p].changed \cup {f}
           call == [op[p] EXCEPT !.todo = todo, !.states = states, !.now = now,
                                 !.changed = changed, !.reused = reused, !.rebuilt = rebuilt]
<1>4. f \in Files
  BY <1>1 DEF First, Call
<1>5. states[f] = disk[f] /\ \A g \in Files \ {f} : states[g] = op[p].states[g]
  BY <1>1, <1>4 DEF Call, Sources
<1>6. Continue(p, call)
  BY <1>3
<1> HIDE DEF states
<1>7. Held(states)
  BY <1>1, <1>4, <1>5 DEF WriterInv, Held
<1>8. \A g \in Files \ todo :
          \/ db.states[g] = IF g \in changed THEN states[g] ELSE Absent
          \/ disk[g] # db.states[g]
  BY <1>1, <1>4, <1>5 DEF WriterInv, Overtakes
<1> HIDE DEF todo, changed
<1>9. /\ call.kind = "rebuild" /\ call.pc = "read" /\ call.todo = todo
      /\ call.changed = changed /\ call.states = states
  BY <1>1 DEF Call
<1> HIDE DEF call
<1> QED BY <1>6, <1>7, <1>8, <1>9 DEF WriterInv, LeavesNoImporter, Overtakes

LEMMA RefreshedKeepsWriter ==
    ASSUME TypeOK, NEW p \in Processes, op[p] # Idle => WriterCall(op[p]) /\ WriterInv(op[p], db, disk),
           \A f \in Files : disk[f] \in Holds[f], NEW f \in Files, ReadRefreshed(p, f)
    PROVE  \E call : Continue(p, call) /\ WriterInv(call, db, disk)
<1>1. /\ op[p] \in Call /\ op[p].pc = "read" /\ op[p].kind = "refresh"
      /\ disk \in Sources /\ WriterInv(op[p], db, disk)
  BY DEF TypeOK, ReadRefreshed, At, Rebuilding, WriterCall, Call
<1> DEFINE counted == disk[f] # Absent \/ op[p].states[f] # Absent \/ op[p].now[f] # Absent
           states == [op[p].states EXCEPT ![f] = disk[f]]
           now == [op[p].now EXCEPT ![f] = RowsOf(disk[f])]
           rebuilt == IF counted THEN op[p].rebuilt + 1 ELSE op[p].rebuilt
           todo == op[p].todo \ {f}
           call == [op[p] EXCEPT !.todo = todo, !.states = states, !.now = now, !.rebuilt = rebuilt]
<1>2. Continue(p, call)
  BY DEF ReadRefreshed
<1>3. states[f] = disk[f] /\ \A g \in Files \ {f} : states[g] = op[p].states[g]
  BY <1>1 DEF Call, Sources
<1> HIDE DEF counted, states, now, rebuilt
<1>4. Held(states)
  BY <1>1, <1>3 DEF WriterInv, Held
<1>5. \A g \in Files \ todo : db.states[g] = states[g] \/ disk[g] # db.states[g]
  BY <1>1, <1>3 DEF WriterInv, Overtakes
<1> HIDE DEF todo
<1>6. /\ call.kind = "refresh" /\ call.pc = "read" /\ call.todo = todo
      /\ call.changed = op[p].changed /\ call.states = states
  BY <1>1 DEF Call
<1> HIDE DEF call
<1> QED BY <1>1, <1>2, <1>4, <1>5, <1>6 DEF WriterInv, LeavesNoImporter, Overtakes

SettledStep(p) ==
    /\ disk' = disk /\ Held(db'.states) /\ EdgesSettled(db', disk)
    /\ OnlyOvertaken(db, db', disk)
    /\ \E call : Continue(p, call) /\ WriterInv(call, db', disk)

\* A writer's own step: what it stores is settled, and what it has read is what
\* is stored or is newer.
LEMMA WriterKeepsWhole ==
    ASSUME ForwardersStay, StoreInv, WholeInv, NEW p \in Writers, WriterStep(p)
    PROVE  SettledStep(p)
<1>0. /\ p \in Processes /\ disk \in Sources /\ db \in Database
      /\ TypeOK /\ Consistent(db) /\ Held(db.states) /\ EdgesSettled(db, disk)
      /\ \A f \in Files : disk[f] \in Holds[f]
      /\ op[p] # Idle => /\ op[p] \in Call /\ WriterCall(op[p]) /\ InStep(op[p], db)
                         /\ WriterInv(op[p], db, disk)
  BY DEF StoreInv, WholeInv, TypeOK, WriterCalls, WritersInStep, Processes
<1>a. ASSUME UNCHANGED <<disk, db>>, NEW call, Continue(p, call), WriterInv(call, db, disk)
      PROVE  SettledStep(p)
  BY <1>0, <1>a DEF SettledStep, OnlyOvertaken
<1>b. ASSUME NEW call, call.pc \in {"validate", "collect", "graph", "expand", "return"}, Held(call.states)
      PROVE  \A d, sources : WriterInv(call, d, sources)
  BY <1>b DEF WriterInv, LeavesNoImporter, Overtakes
<1>c. Held(NothingStored)
  BY DEF Held, NothingStored
<1>1. CASE BeginRebuild(p)
  <2>1. \A d, sources : WriterInv(Started("rebuild", NoFile), d, sources)
    BY <1>b, <1>c DEF Started
  <2> QED BY <1>a, <1>1, <2>1 DEF BeginRebuild
<1>2. CASE \E f \in Files : BeginRefresh(p, f)
  <2>1. PICK f \in Files : BeginRefresh(p, f)
    BY <1>2
  <2>2. \A d, sources : WriterInv(Started("refresh", f), d, sources)
    BY <1>b, <1>c DEF Started
  <2> QED BY <1>a, <2>1, <2>2 DEF BeginRefresh
<1>3. CASE ValidateWriter(p)
  <2>1. op[p] \in Call /\ Held(op[p].states)
    BY <1>0, <1>3 DEF ValidateWriter, At, WriterInv
  <2>2. \A d, sources : WriterInv([op[p] EXCEPT !.kind = "rebuild", !.file = NoFile, !.pc = "collect"], d, sources)
    <3> DEFINE call == [op[p] EXCEPT !.kind = "rebuild", !.file = NoFile, !.pc = "collect"]
    <3>1. call.pc = "collect" /\ call.states = op[p].states
      BY <2>1 DEF Call
    <3> HIDE DEF call
    <3>2. \A d, sources : WriterInv(call, d, sources)
      BY <1>b, <2>1, <3>1
    <3> QED BY <3>2 DEF call
  <2>5. \A d, sources : WriterInv([op[p] EXCEPT !.pc = "graph"], d, sources)
    <3> DEFINE call == [op[p] EXCEPT !.pc = "graph"]
    <3>1. call.pc = "graph" /\ call.states = op[p].states
      BY <2>1 DEF Call
    <3> HIDE DEF call
    <3>2. \A d, sources : WriterInv(call, d, sources)
      BY <1>b, <2>1, <3>1
    <3> QED BY <3>2 DEF call
  <2>3. CASE Rebuilding(p) \/ db.phase = "absent"
    BY <1>a, <1>3, <2>2, <2>3 DEF ValidateWriter
  <2>4. CASE ~(Rebuilding(p) \/ db.phase = "absent")
    BY <1>a, <1>3, <2>5, <2>4 DEF ValidateWriter
  <2> QED BY <2>3, <2>4
<1>4. CASE CollectFiles(p)
  <2> DEFINE present == {f \in Files : disk[f] # Absent}
             call == [op[p] EXCEPT !.pc = "tables", !.todo = present]
  <2>1. /\ op[p] \in Call /\ op[p].kind = "rebuild" /\ op[p].changed = {} /\ Held(op[p].states)
    BY <1>0, <1>4 DEF CollectFiles, At, WriterInv, InStep, RefreshInStep, WriterCall, Call
  <2>2. /\ call.kind = "rebuild" /\ call.pc = "tables" /\ call.todo = present
        /\ call.changed = {} /\ call.states = op[p].states
    BY <2>1 DEF Call
  <2>3. Continue(p, call) /\ UNCHANGED <<disk, db>>
    BY <1>4 DEF CollectFiles
  <2> HIDE DEF call
  <2>4. WriterInv(call, db, disk)
    BY <2>1, <2>2 DEF WriterInv, LeavesNoImporter, Overtakes
  <2> QED BY <1>a, <2>3, <2>4
<1>5. CASE EnsureTables(p)
  <2> DEFINE call == [op[p] EXCEPT !.pc = "states"]
  <2>1. /\ op[p] \in Call /\ op[p].kind = "rebuild" /\ op[p].pc = "tables" /\ WriterInv(op[p], db, disk)
    BY <1>0, <1>5 DEF EnsureTables, At, InStep, RefreshInStep, WriterCall, Call
  <2>2. /\ db'.rows = db.rows /\ db'.states = db.states /\ db'.graph = db.graph
    BY <1>0, <1>5 DEF EnsureTables, Database
  <2>3. /\ call.kind = "rebuild" /\ call.pc = "states" /\ call.todo = op[p].todo
        /\ call.changed = op[p].changed /\ call.states = op[p].states
    BY <2>1 DEF Call
  <2>4. Continue(p, call) /\ disk' = disk
    BY <1>5 DEF EnsureTables
  <2> HIDE DEF call
  <2>5. WriterInv(call, db', disk)
    BY <2>1, <2>2, <2>3 DEF WriterInv, LeavesNoImporter, Overtakes
  <2>6. EdgesSettled(db', disk)
    BY <1>0, <2>2 DEF EdgesSettled
  <2> QED BY <1>0, <2>2, <2>4, <2>5, <2>6 DEF SettledStep, OnlyOvertaken
<1>6. CASE LoadGraph(p)
  <2>1. op[p] \in Call /\ op[p].kind = "refresh" /\ Held(op[p].states)
    BY <1>0, <1>6 DEF LoadGraph, At, InStep, RebuildInStep, WriterCall, Call, WriterInv
  <2>2. WriterInv([op[p] EXCEPT !.graph = db.graph, !.pc = "rows"], db, disk)
    BY <2>1 DEF Call, WriterInv, LeavesNoImporter, Overtakes
  <2> QED BY <1>a, <1>6, <2>2 DEF LoadGraph
<1>7. CASE LoadStates(p)
  <2>1. /\ op[p] \in Call /\ op[p].pc = "states" /\ WriterInv(op[p], db, disk)
        /\ InStep(op[p], db) /\ WriterCall(op[p])
    BY <1>0, <1>7 DEF LoadStates, At
  <2>2. CASE Rebuilding(p)
    <3> DEFINE call == [op[p] EXCEPT !.states = db.states, !.pc = "rows"]
    <3>1. /\ call.kind = "rebuild" /\ call.pc = "rows" /\ call.todo = op[p].todo
          /\ call.changed = {} /\ op[p].changed = {} /\ call.states = db.states
      BY <2>1, <2>2 DEF Call, Rebuilding, InStep, RebuildInStep
    <3>2. Continue(p, call) /\ UNCHANGED <<disk, db>>
      BY <1>7, <2>2 DEF LoadStates
    <3> HIDE DEF call
    <3>3. WriterInv(call, db, disk)
      BY <1>0, <2>1, <2>2, <3>1 DEF WriterInv, LeavesNoImporter, Overtakes, Rebuilding
    <3> QED BY <1>a, <3>2, <3>3
  <2>3. CASE ~Rebuilding(p)
    <3> DEFINE call == [op[p] EXCEPT !.states = db.states, !.pc = "expand"]
    <3>1. call.pc = "expand" /\ call.states = db.states
      BY <2>1 DEF Call
    <3>2. Continue(p, call) /\ UNCHANGED <<disk, db>>
      BY <1>7, <2>3 DEF LoadStates
    <3> HIDE DEF call
    <3>3. WriterInv(call, db, disk)
      BY <1>0, <1>b, <3>1
    <3> QED BY <1>a, <3>2, <3>3
  <2> QED BY <2>2, <2>3
<1>8. CASE LoadRows(p)
  <2>1. /\ op[p] \in Call /\ op[p].pc = "rows" /\ WriterInv(op[p], db, disk)
        /\ InStep(op[p], db) /\ WriterCall(op[p])
    BY <1>0, <1>8 DEF LoadRows, At
  <2>2. CASE Rebuilding(p)
    <3> DEFINE call == [op[p] EXCEPT !.was = db.rows, !.now = op[p].now, !.pc = "read"]
    <3>1. /\ call.kind = "rebuild" /\ call.pc = "read" /\ call.todo = op[p].todo
          /\ call.changed = op[p].changed /\ call.states = op[p].states
      BY <2>1, <2>2 DEF Call, Rebuilding
    <3>2. Continue(p, call) /\ UNCHANGED <<disk, db>>
      BY <1>8, <2>2 DEF LoadRows
    <3> HIDE DEF call
    <3>3. WriterInv(call, db, disk)
      BY <2>1, <2>2, <3>1 DEF WriterInv, LeavesNoImporter, Overtakes, Rebuilding
    <3> QED BY <1>a, <3>2, <3>3
  <2>3. CASE ~Rebuilding(p)
    <3> DEFINE call == [op[p] EXCEPT !.was = db.rows, !.now = db.rows, !.pc = "states"]
    <3>1. call.kind = "refresh" /\ call.pc = "states" /\ call.states = op[p].states
      BY <2>1, <2>3 DEF Call, Rebuilding, WriterCall
    <3>2. Continue(p, call) /\ UNCHANGED <<disk, db>>
      BY <1>8, <2>3 DEF LoadRows
    <3> HIDE DEF call
    <3>3. WriterInv(call, db, disk)
      BY <2>1, <3>1 DEF WriterInv, LeavesNoImporter, Overtakes
    <3> QED BY <1>a, <3>2, <3>3
  <2> QED BY <2>2, <2>3
<1>9. CASE ExpandRefreshFiles(p)
  <2> DEFINE again == {op[p].file} \cup Dependents(disk, op[p].file)
             call == [op[p] EXCEPT !.todo = again, !.changed = again, !.pc = "read"]
  <2>1. /\ op[p] \in Call /\ op[p].kind = "refresh" /\ op[p].file \in Files
        /\ op[p].states = db.states
    BY <1>0, <1>9 DEF ExpandRefreshFiles, At, InStep, RebuildInStep, RefreshInStep, WriterCall, Call
  <2>2. /\ call.kind = "refresh" /\ call.pc = "read" /\ call.todo = again
        /\ call.changed = again /\ call.states = db.states
    BY <2>1 DEF Call
  <2>3. Continue(p, call) /\ UNCHANGED <<disk, db>>
    BY <1>9 DEF ExpandRefreshFiles
  <2>4. \A f \in Files \ again : disk[f] # Absent /\ disk[f].from \in again => NeverForwards(disk[f].from)
    BY <1>0, <2>1, ExpandLeavesNoImporter
  <2> HIDE DEF call, again
  <2>5. WriterInv(call, db, disk)
    BY <1>0, <2>2, <2>4 DEF WriterInv, LeavesNoImporter, Overtakes
  <2> QED BY <1>a, <2>3, <2>5
<1>10. CASE ReadIncremental(p)
  <2>1. \E call : Continue(p, call) /\ WriterInv(call, db, disk)
    BY <1>0, <1>10, IncrementalKeepsWriter
  <2> QED BY <1>a, <1>10, <2>1 DEF ReadIncremental
<1>11. CASE \E f \in Files : ReadRefreshed(p, f)
  <2>1. PICK f \in Files : ReadRefreshed(p, f)
    BY <1>11
  <2>2. \E call : Continue(p, call) /\ WriterInv(call, db, disk)
    BY <1>0, <2>1, RefreshedKeepsWriter
  <2> QED BY <1>a, <2>1, <2>2 DEF ReadRefreshed
<1>12. CASE PersistRebuild(p)
  <2> DEFINE c == op[p]
             kept == [f \in Files |-> IF f \in c.changed THEN c.states[f] ELSE Absent]
             call == Reported(c, Cardinality(c.changed), c.reused)
  <2>1. /\ WriterInv(c, db, disk) /\ c.kind = "rebuild" /\ c.pc = "read" /\ c.todo = {}
        /\ Held(disk)
    BY <1>0, <1>12 DEF PersistRebuild, At, Rebuilding, Held
  <2>2. EdgesSettled(db', disk) /\ Held(db'.states)
    BY <1>0, <1>12, <2>1, RebuildSettles DEF WriterInv
  <2>3. db'.states = kept /\ disk' = disk /\ Continue(p, call)
    BY <1>12 DEF PersistRebuild
  <2>4. \A f \in Files : kept[f] = db.states[f] \/ disk[f] # db.states[f]
    BY <2>1 DEF WriterInv, Overtakes
  <2>5. WriterInv(call, db', disk)
    <3>1. call.pc = "return" /\ call.states = NothingStored
      BY DEF Reported, Started
    <3> HIDE DEF call
    <3> QED BY <1>b, <1>c, <3>1
  <2> HIDE DEF kept, call
  <2> QED BY <2>2, <2>3, <2>4, <2>5 DEF SettledStep, OnlyOvertaken
<1>13. CASE PersistRefresh(p)
  <2> DEFINE c == op[p]
             call == Reported(c, Cardinality(Stored(c.states)), ReusedFiles(c))
  <2>1. /\ WriterInv(c, db, disk) /\ c.kind = "refresh" /\ c.pc = "read" /\ c.todo = {}
        /\ Held(disk)
    BY <1>0, <1>13 DEF PersistRefresh, At, Rebuilding, Held, WriterCall, Call
  <2>2. EdgesSettled(db', disk) /\ Held(db'.states)
    BY <1>0, <1>13, <2>1, RefreshSettles DEF WriterInv
  <2>3. db'.states = c.states
    BY <1>0, <1>13, RefreshCommits
  <2>4. disk' = disk /\ Continue(p, call)
    BY <1>13 DEF PersistRefresh
  <2>5. \A f \in Files : c.states[f] = db.states[f] \/ disk[f] # db.states[f]
    BY <2>1 DEF WriterInv, Overtakes
  <2>6. WriterInv(call, db', disk)
    <3>1. call.pc = "return" /\ call.states = NothingStored
      BY DEF Reported, Started
    <3> HIDE DEF call
    <3> QED BY <1>b, <1>c, <3>1
  <2> HIDE DEF c, call
  <2> QED BY <2>2, <2>3, <2>4, <2>5, <2>6 DEF SettledStep, OnlyOvertaken
<1> QED BY <1>1, <1>2, <1>3, <1>4, <1>5, <1>6, <1>7, <1>8, <1>9, <1>10, <1>11, <1>12, <1>13
        DEF WriterStep

\* Nothing is what an index of nothing holds.
LEMMA NothingIsWhole ==
    ASSUME NEW graph \in Subgraph!Graphs, ValidSnapshot(graph, NothingStored)
    PROVE  IsWhole(graph, NothingStored)
<1> DEFINE raw == RawOf(NothingStored)
<1>1. ASSUME NEW id \in Ids PROVE graph[id] = NoSymbol /\ raw[id] = NoSymbol
  <2>1. NothingStored[id[1]] = Absent
    BY DEF Ids, NothingStored
  <2>2. raw[id] = NoSymbol
    BY <2>1 DEF RawOf
  <2> QED BY <2>1, <2>2 DEF ValidSnapshot
<1>2. graph = [id \in Ids |-> NoSymbol]
  BY <1>1 DEF Subgraph!Graphs
<1>3. Subgraph!FromScratch(raw, Dependencies(raw, NothingStored)) = [id \in Ids |-> NoSymbol]
  BY <1>1 DEF Subgraph!FromScratch
<1> QED BY <1>2, <1>3 DEF IsWhole

\* A reader's own step: what it holds is the index of the texts it goes by, or
\* it will meet a file that has changed.
LEMMA ReaderKeepsWhole ==
    ASSUME StoreInv, WholeInv, NEW p \in Readers, ReaderStep(p)
    PROVE  /\ UNCHANGED <<disk, db>>
           /\ \E call : Continue(p, call) /\ ReaderInv(call, db, disk)
<1>0. /\ p \in Processes /\ disk \in Sources /\ db \in Database /\ TypeOK
      /\ UNCHANGED <<disk, db>>
      /\ op[p] # Idle => op[p] \in Call /\ ReaderInv(op[p], db, disk)
  BY ReaderStepType DEF StoreInv, WholeInv, TypeOK, Processes
<1>a. ASSUME NEW call, Continue(p, call), ReaderInv(call, db, disk)
      PROVE  \E c : Continue(p, c) /\ ReaderInv(c, db, disk)
  BY <1>a
<1>1. CASE BeginQuery(p)
  <2>1. ReaderInv(Started("query", NoFile), db, disk)
    BY DEF Started, ReaderInv
  <2> QED BY <1>0, <1>1, <2>1 DEF BeginQuery
<1>2. CASE LoadCount(p)
  <2> DEFINE call == [op[p] EXCEPT !.count = db.count, !.pc = "states"]
  <2>1. op[p] \in Call /\ Continue(p, call)
    BY <1>0, <1>2 DEF LoadCount, At
  <2>2. call.pc = "states"
    BY <2>1 DEF Call
  <2> HIDE DEF call
  <2>3. ReaderInv(call, db, disk)
    BY <2>2 DEF ReaderInv
  <2> QED BY <1>0, <2>1, <2>3
<1>3. CASE LoadQueryStates(p)
  <2> DEFINE call == [op[p] EXCEPT !.states = db.states, !.pc = "graph"]
  <2>1. op[p] \in Call /\ Continue(p, call)
    BY <1>0, <1>3 DEF LoadQueryStates, At
  <2>2. call.pc = "graph" /\ call.states = db.states
    BY <2>1 DEF Call
  <2> HIDE DEF call
  <2>3. ReaderInv(call, db, disk)
    BY <2>2 DEF ReaderInv
  <2> QED BY <1>0, <2>1, <2>3
<1>4. CASE LoadResolved(p)
  <2> DEFINE states == op[p].states
             call == [op[p] EXCEPT !.graph = db.graph, !.count = 0, !.pc = "fresh", !.todo = Stored(states)]
  <2>1. /\ op[p] \in Call /\ Continue(p, call) /\ op[p].pc = "graph"
        /\ ValidSnapshot(db.graph, states) /\ ReaderInv(op[p], db, disk)
    BY <1>0, <1>4 DEF LoadResolved, At
  <2>2. call.pc = "fresh" /\ call.states = states /\ call.graph = db.graph /\ call.todo = Stored(states)
    BY <2>1 DEF Call
  <2>3. /\ states \in Sources /\ db.states \in Sources /\ db.graph \in Subgraph!Graphs
    BY <1>0, <2>1 DEF Call, Database
  <2> HIDE DEF call, states
  <2>4. CASE states = NothingStored
    <3>1. IsWhole(db.graph, states)
      BY <2>1, <2>3, <2>4, NothingIsWhole
    <3>2. ReaderInv(call, db, disk)
      BY <2>2, <3>1 DEF ReaderInv
    <3> QED BY <1>0, <2>1, <3>2
  <2>5. CASE states # NothingStored /\ disk = states
    <3>1. \A f \in Files : db.states[f] = disk[f]
      BY <2>1, <2>5 DEF ReaderInv, states
    <3>2. db.states = disk
      BY <1>0, <2>3, <3>1 DEF Sources
    <3>3. IsWhole(db.graph, disk)
      BY <3>2, FreshIsWhole DEF StoreInv, WholeInv
    <3>4. ReaderInv(call, db, disk)
      BY <2>2, <2>5, <3>3 DEF ReaderInv
    <3> QED BY <1>0, <2>1, <3>4
  <2>6. CASE states # NothingStored /\ disk # states
    <3>1. PICK f \in Files : disk[f] # states[f]
      BY <1>0, <2>3, <2>6 DEF Sources
    <3>2. WillRefuse(call, disk)
      BY <2>2, <3>1 DEF WillRefuse, Stored
    <3>3. ReaderInv(call, db, disk)
      BY <2>2, <2>6, <3>2 DEF ReaderInv
    <3> QED BY <1>0, <2>1, <3>3
  <2> QED BY <2>4, <2>5, <2>6
<1>5. CASE CheckFresh(p)
  <2>1. PICK f \in First(op[p].todo) :
            disk[f] = op[p].states[f] /\ Continue(p, [op[p] EXCEPT !.todo = @ \ {f}])
    BY <1>5 DEF CheckFresh
  <2> DEFINE call == [op[p] EXCEPT !.todo = @ \ {f}]
  <2>2. op[p] \in Call /\ op[p].pc = "fresh" /\ ReaderInv(op[p], db, disk)
    BY <1>0, <1>5 DEF CheckFresh, At
  <2>3. /\ call.pc = "fresh" /\ call.states = op[p].states /\ call.graph = op[p].graph
        /\ call.todo = op[p].todo \ {f}
    BY <2>2 DEF Call
  <2> HIDE DEF call
  <2>4. WillRefuse(op[p], disk) => WillRefuse(call, disk)
    BY <2>1, <2>3 DEF WillRefuse
  <2>5. ReaderInv(call, db, disk)
    BY <2>2, <2>3, <2>4 DEF ReaderInv
  <2> QED BY <1>0, <2>1, <2>5 DEF call
<1>6. CASE ScanUnindexed(p)
  <2> DEFINE call == [op[p] EXCEPT !.pc = "return"]
  <2>1. /\ op[p] \in Call /\ op[p].pc = "fresh" /\ ReaderInv(op[p], db, disk)
        /\ Continue(p, call) /\ op[p].todo = {}
        /\ \A f \in Files : disk[f] # Absent => op[p].states[f] # Absent
    BY <1>0, <1>6 DEF ScanUnindexed, At
  <2>2. call.pc = "return" /\ call.states = op[p].states /\ call.graph = op[p].graph
    BY <2>1 DEF Call
  <2> HIDE DEF call
  <2>3. ~WillRefuse(op[p], disk)
    BY <2>1 DEF WillRefuse
  <2>4. ReaderInv(call, db, disk)
    BY <2>1, <2>2, <2>3 DEF ReaderInv
  <2> QED BY <1>0, <2>1, <2>4
<1> QED BY <1>1, <1>2, <1>3, <1>4, <1>5, <1>6 DEF ReaderStep

LEMMA InitWholeInv == Init => WholeInv
<1> SUFFICES ASSUME Init PROVE WholeInv
  OBVIOUS
<1>1. /\ db.states = NothingStored /\ db.rows = NothingStored
      /\ \A p \in Processes : op[p] = Idle
  BY DEF Init
<1>2. Held(db.states) /\ \A f \in Files : disk[f] \in Holds[f]
  BY <1>1 DEF Init, Held, NothingStored
<1>3. Subgraph!Defined(RawOf(db.rows)) = {}
  <2>1. ASSUME NEW id \in Ids PROVE RawOf(NothingStored)[id] = NoSymbol
    BY DEF NothingStored, Ids, RawOf
  <2> QED BY <1>1, <2>1 DEF Subgraph!Defined
<1>4. EdgesSettled(db, disk)
  BY <1>3 DEF EdgesSettled
<1> QED BY <1>1, <1>2, <1>4 DEF WholeInv, Processes

\* What a writer commits does not put back what a query's file has left behind.
LEMMA ReaderOvertaken ==
    ASSUME NEW call, NEW d, NEW e, NEW sources, ReaderInv(call, d, sources), OnlyOvertaken(d, e, sources)
    PROVE  ReaderInv(call, e, sources)
<1>1. ASSUME NEW f \in Files, d.states[f] = call.states[f] \/ sources[f] # call.states[f]
      PROVE  e.states[f] = call.states[f] \/ sources[f] # call.states[f]
  BY <1>1 DEF OnlyOvertaken
<1> QED BY <1>1 DEF ReaderInv

LEMMA WholeInvStep ==
    ASSUME OneWriter, ~Recurring, ForwardersStay, StoreInv, WholeInv, [Next]_vars
    PROVE  WholeInv'
<1>0. TypeOK
  BY DEF StoreInv
<1>1. CASE \E p \in Writers : WriterStep(p)
  <2>1. PICK p \in Writers : WriterStep(p)
    BY <1>1
  <2>2. SettledStep(p)
    BY <2>1, WriterKeepsWhole
  <2>3. PICK call : Continue(p, call) /\ WriterInv(call, db', disk)
    BY <2>2 DEF SettledStep
  <2>4. /\ \A q \in Writers : op'[q] = call
        /\ \A q \in Readers : op'[q] = op[q]
    BY <1>0, <2>1, <2>3, IndexAssumption DEF OneWriter, Continue, TypeOK, Processes
  <2>5. ASSUME NEW q \in Readers, op[q] # Idle PROVE ReaderInv(op[q], db', disk)
    <3>1. ReaderInv(op[q], db, disk) /\ OnlyOvertaken(db, db', disk)
      BY <2>2, <2>5 DEF WholeInv, SettledStep
    <3>2. PICK now, before, after, sources : now = op[q] /\ before = db /\ after = db' /\ sources = disk
      OBVIOUS
    <3>3. ReaderInv(now, before, sources) /\ OnlyOvertaken(before, after, sources)
      BY <3>1, <3>2
    <3>4. ReaderInv(now, after, sources)
      BY <3>3, ReaderOvertaken
    <3> QED BY <3>2, <3>4
  <2>6. /\ disk' = disk /\ Held(db'.states) /\ EdgesSettled(db', disk)
        /\ \A f \in Files : disk[f] \in Holds[f]
    BY <2>2 DEF SettledStep, WholeInv
  <2> QED BY <2>3, <2>4, <2>5, <2>6 DEF WholeInv
<1>2. CASE \E p \in Readers : ReaderStep(p)
  <2>1. PICK p \in Readers : ReaderStep(p)
    BY <1>2
  <2>2. PICK call : Continue(p, call) /\ ReaderInv(call, db, disk)
    BY <2>1, ReaderKeepsWhole
  <2>3. disk' = disk /\ db' = db
    BY <2>1, ReaderKeepsWhole
  <2>4. /\ op'[p] = call
        /\ \A q \in Processes \ {p} : op'[q] = op[q]
    BY <1>0, <2>1, <2>2 DEF Continue, TypeOK, Processes
  <2>5. ASSUME NEW q \in Readers, op'[q] # Idle PROVE ReaderInv(op'[q], db, disk)
    BY <2>2, <2>4, <2>5 DEF WholeInv, Processes
  <2>6. \A q \in Writers : op'[q] = op[q]
    BY <2>1, <2>4, IndexAssumption DEF Processes
  <2> QED BY <2>3, <2>5, <2>6 DEF WholeInv
<1>3. CASE \E p \in Processes : Fail(p) \/ Return(p)
  <2>1. PICK p \in Processes : Continue(p, Idle) /\ disk' = disk /\ db' = db
    BY <1>3 DEF Fail, Return
  <2>2. \A q \in Processes : op'[q] \in {op[q], Idle}
    BY <1>0, <2>1 DEF Continue, TypeOK
  <2> QED BY <2>1, <2>2 DEF WholeInv, Processes
<1>4. CASE \E f \in Files : ExternalWrite(f)
  BY <1>0, <1>4, WriteKeepsWhole
<1>5. CASE UNCHANGED vars
  BY <1>5 DEF vars, WholeInv
<1> QED BY <1>1, <1>2, <1>3, <1>4, <1>5 DEF Next

LEMMA WholeIsInvariant ==
    ASSUME OneWriter, ~Recurring, ForwardersStay PROVE Spec => [](StoreInv /\ WholeInv)
<1>1. Init => StoreInv /\ WholeInv
  BY InitStoreInv, InitWholeInv
<1>2. StoreInv /\ WholeInv /\ [Next]_vars => (StoreInv /\ WholeInv)'
  BY StoreInvStep, WholeInvStep
<1> QED BY <1>1, <1>2, PTL DEF Spec

\* With one writing process, files that do not return to a text on record and
\* modules that stay: an index that queries accept, whose fingerprints are
\* those of the files, has the edges a rebuild would give it, although each
\* refresh resolves only the names of what it read and of who depended on it.
THEOREM FreshIsComplete ==
    ASSUME OneWriter, ~Recurring, ForwardersStay PROVE Spec => []FreshIndexIsComplete
<1>1. StoreInv /\ WholeInv => FreshIndexIsComplete
  BY FreshIsWhole DEF StoreInv, WholeInv, IsWhole, FreshIndexIsComplete
<1> QED BY <1>1, WholeIsInvariant, PTL

\* Under the same assumptions a query that returns reports exactly the symbols
\* and edges of the texts it went by, although it loads them in several reads
\* and checks the files one by one while the index and the files change.
THEOREM AnswersComplete ==
    ASSUME OneWriter, ~Recurring, ForwardersStay PROVE Spec => []AnswersAreComplete
<1>1. StoreInv /\ WholeInv => AnswersAreComplete
  <2> SUFFICES ASSUME StoreInv, WholeInv, NEW p \in Readers, At(p, "return")
               PROVE  IsWhole(op[p].graph, op[p].states)
    BY DEF AnswersAreComplete, IsWhole
  <2> QED BY DEF WholeInv, ReaderInv, At
<1> QED BY <1>1, WholeIsInvariant, PTL
=============================================================================
