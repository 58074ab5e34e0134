-------------------------- MODULE PatchReviewProofs ---------------------------
(***************************************************************************)
(* A review of a patch, for every workspace, every patch, every limit and  *)
(* every way in which other programs write the files meanwhile: its        *)
(* searches are searches of Neighborhood, and what it quotes of a file is  *)
(* of one text.                                                            *)
(***************************************************************************)
EXTENDS PatchReview, NeighborhoodProofs

\* What a query has loaded is what the files held, or the text in place of one.
LoadInv ==
    /\ review \in Reviews
    /\ disk \in [Files -> Seq(Definition)]
    /\ seen \in [Files -> SUBSET Seq(Definition)]
    /\ \A f \in Files : disk[f] \in seen[f]
    /\ stage \in 1 .. Len(Stages(review.kind))
    /\ \A f \in DOMAIN loaded : f \in Files /\ loaded[f] \in Held(f)

LEMMA StagesOfATool ==
    ASSUME NEW kind \in Kinds
    PROVE  /\ Len(Stages(kind)) \in 1 .. 3
           /\ \A i \in 1 .. Len(Stages(kind)) :
                Stages(kind)[i] \in {"context", "discovery"} => i = Len(Stages(kind))
<1>1. CASE kind = "trace"
  BY <1>1 DEF Stages
<1>2. CASE kind = "graph"
  BY <1>2 DEF Stages
<1>3. CASE kind = "neighborhood"
  BY <1>3 DEF Stages
<1>4. CASE kind = "discovery"
  BY <1>4 DEF Stages
<1>5. CASE kind = "read"
  BY <1>5 DEF Stages
<1> QED BY <1>1, <1>2, <1>3, <1>4, <1>5 DEF Kinds

LEMMA ReviewFields ==
    ASSUME LoadInv
    PROVE  /\ review.kind \in Kinds /\ review.root \in Symbols
           /\ review.direction \in Directions
           /\ Patch.before \in Seq(Definition) /\ Patch.after \in Seq(Definition)
           /\ OverrideText \in Seq(Definition)
<1>1. review \in [kind: Kinds, patch: Patches, root: Symbols, direction: Directions, bypass: BOOLEAN]
  BY DEF LoadInv, Reviews
<1>2. Patch \in [target: Symbols, before: Seq(Definition), after: Seq(Definition), broken: BOOLEAN]
  BY <1>1, PatchesAssumption DEF Patch
<1> QED BY <1>1, <1>2 DEF OverrideText

LEMMA HeldTexts ==
    ASSUME LoadInv, NEW f \in Files
    PROVE  Held(f) \subseteq Seq(Definition) /\ SourceNow(f) \in Held(f)
<1>1. CASE f = Own
  BY <1>1, ReviewFields DEF Held, SourceNow
<1>2. CASE f # Own
  BY <1>2 DEF LoadInv, Held, SourceNow
<1> QED BY <1>1, <1>2

\* A resolved symbol has a place in the text of a file.
LEMMA DefinedSymbols ==
    ASSUME LoadInv, NEW s \in Defined
    PROVE  /\ s \in Symbols
           /\ FileOf(s) \in DOMAIN loaded /\ FileOf(s) \in Files
           /\ loaded[FileOf(s)] \in Seq(Definition)
           /\ PlaceOf(s) \in 1 .. Len(loaded[FileOf(s)])
           /\ loaded[FileOf(s)][PlaceOf(s)].name = s
<1>1. \E f \in DOMAIN loaded : s \in Names(loaded[f])
  BY DEF Defined
<1>2. FileOf(s) \in DOMAIN loaded /\ s \in Names(loaded[FileOf(s)])
  BY <1>1 DEF FileOf
<1>3. FileOf(s) \in Files /\ loaded[FileOf(s)] \in Seq(Definition)
  BY <1>2, HeldTexts DEF LoadInv
<1>4. \E i \in 1 .. Len(loaded[FileOf(s)]) : loaded[FileOf(s)][i].name = s
  BY <1>2 DEF Names
<1>5. PlaceOf(s) \in 1 .. Len(loaded[FileOf(s)]) /\ loaded[FileOf(s)][PlaceOf(s)].name = s
  BY <1>4 DEF PlaceOf, Place
<1>6. loaded[FileOf(s)][PlaceOf(s)] \in Definition
  BY <1>3, <1>5
<1> QED BY <1>2, <1>3, <1>5, <1>6 DEF Definition

\* Every search that a review starts is a request that Neighborhood knows.
LEMMA SearchIsARequest ==
    ASSUME LoadInv, Root \in Defined, NEW bounds \in Bounds
    PROVE  Search(bounds) \in Requests
<1>1. Defined \subseteq Symbols
  BY DefinedSymbols
<1>2. \A s \in Defined : Sorted(Callers(s)) \in Seq(Symbols) /\ Sorted(Callees(s)) \in Seq(Symbols)
  BY <1>1, SortedAssumption DEF Callers, Callees
<1>3. Resolved \in [Defined -> Lists]
  BY <1>2 DEF Resolved, Lists
<1>4. Resolved \in Graphs
  <2>1. ASSUME NEW s \in Defined
        PROVE  s \notin Listed(Sorted(Callers(s))) \cup Listed(Sorted(Callees(s)))
    BY <1>1, SortedAssumption DEF Callers, Callees
  <2>2. NoSelf(Resolved)
    BY <2>1 DEF NoSelf, Resolved
  <2> QED BY <1>1, <1>3, <2>2 DEF Graphs
<1>5. bounds.depth \in Nat /\ bounds.nodes \in Nat \ {0}
  BY BoundsAssumption
<1>6. Root \in Symbols /\ review.direction \in Directions
  BY ReviewFields DEF Root
<1>7. DOMAIN Resolved = Defined
  BY DEF Resolved
<1>8. Search(bounds) \in [graph: Graphs, root: Symbols, direction: Directions, maxDepth: Nat,
                          maxNodes: Nat \ {0}]
  BY <1>4, <1>5, <1>6 DEF Search
<1>9. Search(bounds).root \in DOMAIN Search(bounds).graph
  BY <1>7 DEF Search
<1> QED BY <1>8, <1>9 DEF Requests
-----------------------------------------------------------------------------
LEMMA InitLoads ==
    ReviewInit => LoadInv
<1> SUFFICES ASSUME ReviewInit PROVE LoadInv
  OBVIOUS
<1>1. review \in Reviews /\ stage = 1 /\ DOMAIN loaded = {}
  BY DEF ReviewInit, Nothing
<1>2. disk \in [Files -> Seq(Definition)]
  <2>1. disk \in [Files -> UNION {Texts[f] : f \in Files}] /\ \A f \in Files : disk[f] \in Texts[f]
    BY DEF ReviewInit
  <2>2. \A f \in Files : Texts[f] \subseteq Seq(Definition)
    BY TextsAssumption
  <2> QED BY <2>1, <2>2
<1>3. seen = [f \in Files |-> {disk[f]}]
  BY DEF ReviewInit
<1>4. review.kind \in Kinds
  BY <1>1 DEF Reviews
<1>5. stage \in 1 .. Len(Stages(review.kind))
  BY <1>1, <1>4, StagesOfATool
<1> QED BY <1>1, <1>2, <1>3, <1>5 DEF LoadInv

\* The stage changes only with nothing loaded.
LEMMA NextStageKeepsLoads ==
    ASSUME LoadInv, NextStage, UNCHANGED <<disk, seen, review>>
    PROVE  LoadInv'
<1>1. Len(Stages(review.kind)) \in Nat /\ stage \in 1 .. Len(Stages(review.kind))
  BY ReviewFields, StagesOfATool DEF LoadInv
<1>2. CASE stage < Len(Stages(review.kind))
  <2>1. stage' = stage + 1 /\ DOMAIN loaded' = {}
    BY <1>2 DEF NextStage, Nothing
  <2>2. stage' \in 1 .. Len(Stages(review'.kind))
    BY <1>1, <1>2, <2>1
  <2> QED BY <2>1, <2>2 DEF LoadInv
<1>3. CASE ~(stage < Len(Stages(review.kind)))
  <2>1. stage' = stage /\ loaded' = loaded
    BY <1>3 DEF NextStage
  <2> QED BY <2>1 DEF LoadInv, Held, OverrideText, Stage, Patch
<1> QED BY <1>2, <1>3

LEMMA GiveUpKeepsLoads ==
    ASSUME LoadInv, GiveUp
    PROVE  LoadInv'
<1>1. /\ stage' = 1 /\ DOMAIN loaded' = {}
      /\ UNCHANGED <<disk, seen, review>>
  BY DEF GiveUp, Nothing
<1>2. Len(Stages(review.kind)) \in 1 .. 3
  BY ReviewFields, StagesOfATool
<1>3. 1 \in 1 .. Len(Stages(review.kind))
  <2>1. \A n \in 1 .. 3 : 1 \in 1 .. n
    OBVIOUS
  <2> QED BY <1>2, <2>1, Zenon
<1> QED BY <1>1, <1>3 DEF LoadInv

LEMMA StutterKeepsLoads ==
    ASSUME LoadInv, UNCHANGED <<disk, seen, review, stage, loaded>>
    PROVE  LoadInv'
BY DEF LoadInv, Held, OverrideText, Stage, Patch

LEMMA ReadKeepsLoads ==
    ASSUME LoadInv, NEW f \in Files, ReadFile(f)
    PROVE  LoadInv'
<1>1. /\ UNCHANGED <<disk, seen, review, stage>>
      /\ loaded' = With(loaded, f, SourceNow(f))
  BY DEF ReadFile
<1>2. \A g \in Files : Held(g)' = Held(g)
  BY <1>1 DEF Held, OverrideText, Stage, Patch
<1>3. SourceNow(f) \in Held(f)
  BY HeldTexts
<1>4. DOMAIN loaded' = DOMAIN loaded \cup {f}
      /\ \A g \in DOMAIN loaded' : loaded'[g] = IF g = f THEN SourceNow(f) ELSE loaded[g]
  BY <1>1 DEF With
<1>5. \A g \in DOMAIN loaded' : g \in Files /\ loaded'[g] \in Held(g)'
  BY <1>2, <1>3, <1>4 DEF LoadInv
<1> QED BY <1>1, <1>5 DEF LoadInv

LEMMA WriteKeepsLoads ==
    ASSUME LoadInv, NEW f \in Files, NEW text \in Texts[f], ExternalWrite(f, text)
    PROVE  LoadInv'
<1>1. /\ disk' = [disk EXCEPT ![f] = text]
      /\ seen' = [seen EXCEPT ![f] = @ \cup {text}]
      /\ UNCHANGED <<review, stage, loaded>>
  BY DEF ExternalWrite
<1>2. text \in Seq(Definition)
  BY TextsAssumption
<1>3. /\ disk' \in [Files -> Seq(Definition)]
      /\ seen' \in [Files -> SUBSET Seq(Definition)]
      /\ \A g \in Files : disk'[g] \in seen'[g] /\ seen[g] \subseteq seen'[g]
  BY <1>1, <1>2 DEF LoadInv
<1>4. \A g \in Files : Held(g) \subseteq Held(g)'
  BY <1>1, <1>3 DEF Held, OverrideText, Stage, Patch
<1>5. \A g \in DOMAIN loaded' : g \in Files /\ loaded'[g] \in Held(g)'
  BY <1>1, <1>4 DEF LoadInv
<1> QED BY <1>1, <1>3, <1>5 DEF LoadInv

LEMMA LoadsStayTrue ==
    LoadInv /\ [ReviewNext]_vars => LoadInv'
<1> SUFFICES ASSUME LoadInv, [ReviewNext]_vars PROVE LoadInv'
  OBVIOUS
<1>1. CASE \E f \in Files : ReadFile(f)
  BY <1>1, ReadKeepsLoads
<1>2. CASE JudgePatch
  BY <1>2, NextStageKeepsLoads, StutterKeepsLoads DEF JudgePatch
<1>3. CASE TraceBaseline
  BY <1>3, NextStageKeepsLoads DEF TraceBaseline
<1>4. CASE TracePatched
  BY <1>4, NextStageKeepsLoads DEF TracePatched
<1>5. CASE ExpandPatched
  BY <1>5, StutterKeepsLoads DEF ExpandPatched
<1>6. CASE ReadDiscovered
  BY <1>6, StutterKeepsLoads DEF ReadDiscovered
<1>7. CASE ExpandStep
  BY <1>7, StutterKeepsLoads DEF ExpandStep, reviewVars
<1>8. CASE SearchReturns
  BY <1>8, NextStageKeepsLoads, StutterKeepsLoads DEF SearchReturns
<1>9. CASE ReadNode
  BY <1>9, StutterKeepsLoads DEF ReadNode
<1>10. CASE ReadsReturn
  BY <1>10, NextStageKeepsLoads DEF ReadsReturn
<1>11. CASE Decide
  BY <1>11, StutterKeepsLoads DEF Decide
<1>12. CASE Reject \/ Fail
  BY <1>12, GiveUpKeepsLoads DEF Reject, Fail
<1>13. CASE \E f \in Files : \E text \in Texts[f] : ExternalWrite(f, text)
  BY <1>13, WriteKeepsLoads
<1>14. CASE UNCHANGED vars
  BY <1>14, StutterKeepsLoads DEF vars, reviewVars
<1> QED BY <1>1, <1>2, <1>3, <1>4, <1>5, <1>6, <1>7, <1>8, <1>9, <1>10, <1>11, <1>12, <1>13, <1>14
     DEF ReviewNext, ReviewStep

LEMMA LoadInvHolds == ReviewSpec => []LoadInv
BY InitLoads, LoadsStayTrue, PTL DEF ReviewSpec
-----------------------------------------------------------------------------
\* A step of a review is a step of its search, or none.
LEMMA ReviewStepsSearch ==
    LoadInv /\ [ReviewNext]_vars => [SearchNext]_searchVars
<1> SUFFICES ASSUME LoadInv, [ReviewNext]_vars PROVE [SearchNext]_searchVars
  OBVIOUS
<1>1. CASE ExpandPatched \/ ReadDiscovered
  <2>1. Root \in Defined /\ \E bounds \in Bounds : StartSearch(Search(bounds))
    BY <1>1 DEF ExpandPatched, ReadDiscovered
  <2>2. PICK bounds \in Bounds : StartSearch(Search(bounds))
    BY <2>1
  <2>3. Search(bounds) \in Requests
    BY <2>1, SearchIsARequest
  <2> QED BY <2>2, <2>3 DEF SearchNext
<1>2. CASE ExpandStep
  BY <1>2 DEF ExpandStep, SearchNext
<1>3. CASE \/ \E f \in Files : ReadFile(f)
           \/ JudgePatch \/ TraceBaseline \/ TracePatched \/ SearchReturns
           \/ ReadNode \/ ReadsReturn \/ Decide \/ Reject \/ Fail
           \/ \E f \in Files : \E text \in Texts[f] : ExternalWrite(f, text)
           \/ UNCHANGED vars
  <2>1. UNCHANGED searchVars
    BY <1>3 DEF ReadFile, JudgePatch, TraceBaseline, TracePatched, SearchReturns, ReadNode,
       ReadsReturn, Decide, Reject, Fail, GiveUp, ExternalWrite, vars
  <2> QED BY <2>1
<1> QED BY <1>1, <1>2, <1>3 DEF ReviewNext, ReviewStep

\* Whatever the files hold and however they change, each search of a review is
\* one that Neighborhood describes: the lists a resolution writes are all that
\* the expansion relies on.
THEOREM ReviewsSearch == ReviewSpec => SearchSpec
<1>1. ReviewInit => SearchInit
  <2> SUFFICES ASSUME ReviewInit PROVE SearchInit
    OBVIOUS
  <2>1. PICK s \in Symbols : s = CHOOSE t \in Symbols : TRUE
    BY FilesAssumption
  <2> DEFINE graph == [t \in Symbols |-> [references |-> <<>>, dependencies |-> <<>>]]
  <2>2. graph \in [Symbols -> Lists] /\ DOMAIN graph = Symbols
    BY DEF Lists
  <2>3. graph \in Graphs
    <3>1. NoSelf(graph)
      BY DEF NoSelf, Listed
    <3> QED BY <2>2, <3>1 DEF Graphs
  <2>4. "both" \in Directions /\ 0 \in Nat /\ 1 \in Nat \ {0}
    BY DEF Directions
  <2>5. NoSearch = [graph |-> graph, root |-> s, direction |-> "both", maxDepth |-> 0, maxNodes |-> 1]
    BY <2>1 DEF NoSearch
  <2> HIDE DEF graph
  <2>6. NoSearch \in Requests
    BY <2>1, <2>2, <2>3, <2>4, <2>5 DEF Requests
  <2> QED BY <2>6 DEF ReviewInit, SearchInit
<1> QED BY <1>1, LoadInvHolds, ReviewStepsSearch, PTL DEF ReviewSpec, SearchSpec

\* No review is lost to the checks of its neighborhood.
THEOREM ReviewedNeighborhoodAccepted == ReviewSpec => []NeighborhoodIsAccepted
BY ReviewsSearch, NeighborhoodAccepted, PTL

\* What a review says of the edges between the nodes is all there is.
THEOREM ReviewedNeighborhoodEdges == ReviewSpec => []EdgesAreOfTheNodes
BY ReviewsSearch, NeighborhoodEdges, PTL

\* What a review shows of a neighborhood is the nearest part of it, and it says
\* so when there is more.
THEOREM ReviewedNearestNodes == ReviewSpec => []NodesAreTheNearest
BY ReviewsSearch, NearestNodes, PTL
-----------------------------------------------------------------------------
\* A quote is cut out of the text its file was read from for quotes.
CutOutOf(quote) ==
    /\ quote.symbol \in Defined
    /\ FileOf(quote.symbol) \in DOMAIN cache
    /\ PlaceOf(quote.symbol) \in 1 .. Len(cache[FileOf(quote.symbol)])
    /\ quote.snippet = cache[FileOf(quote.symbol)][PlaceOf(quote.symbol)]

Quoting == Stage \in {"context", "discovery"} /\ step # "loading"

\* Quotes are made in the last query of a call, of what that query has loaded,
\* and each file is read once for them.
QuoteInv ==
    /\ step = "searching" => /\ Stage \in {"neighborhood", "context", "discovery"}
                             /\ DOMAIN Graph = Defined /\ status # "off"
    /\ step = "reading" => /\ Stage \in {"context", "discovery"}
                           /\ DOMAIN Graph = Defined /\ status = "done"
    /\ step \in {"searching", "reading"} /\ Stage = "discovery" => reads # <<>>
    /\ DOMAIN cache # {} \/ reads # <<>> => Quoting
    /\ \A f \in DOMAIN cache : f \in Files /\ cache[f] \in Held(f)
    /\ reads \in Seq([symbol: Symbols, snippet: Definition])
    /\ \A i \in 1 .. Len(reads) : CutOutOf(reads[i])

LEMMA QuotesCut ==
    ASSUME QuoteInv
    PROVE  \A r \in Listed(reads) : CutOutOf(r)
BY DEF QuoteInv, Listed

\* What stays the same while nothing is loaded and the query goes on.
LEMMA SameQuery ==
    ASSUME UNCHANGED <<review, stage, loaded>>
    PROVE  /\ Stage' = Stage /\ Defined' = Defined
           /\ \A s : FileOf(s)' = FileOf(s) /\ PlaceOf(s)' = PlaceOf(s)
           /\ OverrideText' = OverrideText
BY DEF Stage, Defined, FileOf, PlaceOf, OverrideText, Patch

LEMMA QuotesStay ==
    ASSUME QuoteInv, UNCHANGED <<review, stage, loaded, cache, reads>>,
           \A f \in Files : Held(f) \subseteq Held(f)',
           step' = "loading" => step = "loading"
    PROVE  /\ DOMAIN cache' # {} \/ reads' # <<>> => Quoting'
           /\ \A f \in DOMAIN cache' : f \in Files /\ cache'[f] \in Held(f)'
           /\ reads' \in Seq([symbol: Symbols, snippet: Definition])
           /\ \A i \in 1 .. Len(reads') : CutOutOf(reads[i])'
<1>1. \A r : CutOutOf(r)' = CutOutOf(r)
  BY SameQuery DEF CutOutOf
<1>2. \A i \in 1 .. Len(reads') : CutOutOf(reads[i])'
  BY <1>1 DEF QuoteInv
<1>3. Quoting => Quoting'
  BY SameQuery DEF Quoting
<1> QED BY <1>2, <1>3 DEF QuoteInv

LEMMA SameHeld ==
    ASSUME UNCHANGED <<review, stage, seen>>
    PROVE  \A f \in Files : Held(f) \subseteq Held(f)'
BY DEF Held, OverrideText, Stage, Patch
LEMMA QuoteIsCut ==
    ASSUME LoadInv, QuoteInv, NEW s \in Defined, Quote(s),
           Stage \in {"context", "discovery"}, step' # "loading",
           UNCHANGED <<disk, seen, review, stage, loaded>>
    PROVE  /\ DOMAIN cache' # {} \/ reads' # <<>> => Quoting'
           /\ reads' # <<>>
           /\ \A f \in DOMAIN cache' : f \in Files /\ cache'[f] \in Held(f)'
           /\ reads' \in Seq([symbol: Symbols, snippet: Definition])
           /\ \A i \in 1 .. Len(reads') : CutOutOf(reads[i])'
<1> DEFINE f == FileOf(s)
           quote == [symbol |-> s, snippet |-> CachedSource(f)[PlaceOf(s)]]
<1>1. /\ PlaceOf(s) <= Len(CachedSource(f))
      /\ reads' = Append(reads, quote)
      /\ cache' = With(cache, f, CachedSource(f))
  BY DEF Quote, Quotable
<1>2. /\ s \in Symbols /\ f \in Files /\ PlaceOf(s) \in Nat \ {0}
  <2>1. loaded[f] \in Seq(Definition) /\ PlaceOf(s) \in 1 .. Len(loaded[f])
    BY DefinedSymbols
  <2>2. PlaceOf(s) \in Nat \ {0}
    BY <2>1
  <2> QED BY <2>2, DefinedSymbols
<1> HIDE DEF f
<1>3. CachedSource(f) \in Held(f) /\ CachedSource(f) \in Seq(Definition)
  BY <1>2, HeldTexts DEF CachedSource, QuoteInv
<1>4. PlaceOf(s) \in 1 .. Len(CachedSource(f)) /\ quote \in [symbol: Symbols, snippet: Definition]
  <2>1. PlaceOf(s) \in 1 .. Len(CachedSource(f))
    BY <1>1, <1>2, <1>3
  <2>2. CachedSource(f)[PlaceOf(s)] \in Definition
    BY <1>3, <2>1
  <2> QED BY <1>2, <2>1, <2>2
<1>5. /\ DOMAIN cache' = DOMAIN cache \cup {f} /\ cache'[f] = CachedSource(f)
      /\ \A g \in DOMAIN cache : cache'[g] = cache[g]
  BY <1>1 DEF With, CachedSource
<1>6. \A g \in DOMAIN cache' : g \in Files /\ cache'[g] \in Held(g)'
  BY <1>2, <1>3, <1>5, SameHeld DEF QuoteInv
<1>7. \A r : CutOutOf(r) => CutOutOf(r)'
  BY <1>5, SameQuery DEF CutOutOf
<1>8. PICK q : q = quote
  OBVIOUS
<1>9. CutOutOf(q)' /\ q \in [symbol: Symbols, snippet: Definition] /\ reads' = Append(reads, q)
  <2>1. q.symbol = s /\ q.snippet = CachedSource(f)[PlaceOf(s)]
    BY <1>8
  <2>2. CutOutOf(q)'
    BY <1>4, <1>5, <2>1, SameQuery DEF CutOutOf, f
  <2> QED BY <1>1, <1>4, <1>8, <2>2
<1>10. reads' \in Seq([symbol: Symbols, snippet: Definition])
  BY <1>9 DEF QuoteInv
<1>11. \A i \in 1 .. Len(reads') : CutOutOf(reads[i])'
  <2> SUFFICES ASSUME NEW i \in 1 .. Len(reads') PROVE CutOutOf(reads[i])'
    OBVIOUS
  <2>1. PICK r : r = reads'[i]
    OBVIOUS
  <2>2. CASE i <= Len(reads)
    <3>1. r = reads[i] /\ i \in 1 .. Len(reads)
      BY <1>9, <2>1, <2>2 DEF QuoteInv
    <3>2. CutOutOf(r)
      BY <3>1 DEF QuoteInv, CutOutOf
    <3> QED BY <1>7, <2>1, <3>2 DEF CutOutOf
  <2>3. CASE ~(i <= Len(reads))
    <3>1. r = q
      BY <1>9, <2>1, <2>3 DEF QuoteInv
    <3> QED BY <1>9, <2>1, <3>1 DEF CutOutOf
  <2> QED BY <2>2, <2>3
<1>12. Quoting'
  BY SameQuery DEF Quoting
<1>13. reads' # <<>>
  BY <1>9 DEF QuoteInv
<1> QED BY <1>6, <1>10, <1>11, <1>12, <1>13
LEMMA NothingIsQuoted ==
    ASSUME DOMAIN cache' = {}, reads' = <<>>, step' \notin {"searching", "reading"}
    PROVE  QuoteInv'
<1>1. reads' \in Seq([symbol: Symbols, snippet: Definition]) /\ Len(reads') = 0
  OBVIOUS
<1>2. \A i \in 1 .. Len(reads') : CutOutOf(reads[i])'
  BY <1>1
<1> QED BY <1>1, <1>2 DEF QuoteInv

LEMMA QuotesGoOn ==
    ASSUME QuoteInv, UNCHANGED <<review, stage, loaded, cache, reads>>,
           \A f \in Files : Held(f) \subseteq Held(f)',
           step' = "loading" => step = "loading",
           step' \notin {"searching", "reading"} \/ UNCHANGED <<step, request, status>>
    PROVE  QuoteInv'
<1>1. /\ DOMAIN cache' # {} \/ reads' # <<>> => Quoting'
      /\ \A f \in DOMAIN cache' : f \in Files /\ cache'[f] \in Held(f)'
      /\ reads' \in Seq([symbol: Symbols, snippet: Definition])
      /\ \A i \in 1 .. Len(reads') : CutOutOf(reads[i])'
  BY QuotesStay
<1>2. /\ step' = "searching" => /\ Stage' \in {"neighborhood", "context", "discovery"}
                                /\ DOMAIN Graph' = Defined' /\ status' # "off"
      /\ step' = "reading" => /\ Stage' \in {"context", "discovery"}
                              /\ DOMAIN Graph' = Defined' /\ status' = "done"
      /\ step' \in {"searching", "reading"} /\ Stage' = "discovery" => reads' # <<>>
  BY SameQuery DEF QuoteInv, Graph
<1> QED BY <1>1, <1>2 DEF QuoteInv

\* The stages after which another follows quote nothing.
LEMMA NextStageKeepsQuotes ==
    ASSUME LoadInv, QuoteInv, NextStage, UNCHANGED <<seen, review, cache, reads>>
    PROVE  QuoteInv'
<1>1. stage \in 1 .. Len(Stages(review.kind)) /\ review.kind \in Kinds
  BY ReviewFields DEF LoadInv
<1>2. CASE stage < Len(Stages(review.kind))
  <2>1. ~Quoting
    <3>1. stage # Len(Stages(review.kind))
      BY <1>1, <1>2, StagesOfATool
    <3> QED BY <1>1, <3>1, StagesOfATool DEF Quoting, Stage
  <2>2. DOMAIN cache' = {} /\ reads' = <<>> /\ step' = "loading"
    BY <1>2, <2>1 DEF QuoteInv, NextStage
  <2> QED BY <2>2, NothingIsQuoted
<1>3. CASE ~(stage < Len(Stages(review.kind)))
  <2>1. UNCHANGED <<stage, loaded>> /\ step' \in {"answered", "deciding"}
    BY <1>3 DEF NextStage
  <2>2. \A f \in Files : Held(f) \subseteq Held(f)'
    BY <2>1, SameHeld
  <2> QED BY <2>1, <2>2, QuotesGoOn
<1> QED BY <1>2, <1>3

LEMMA InitQuotes ==
    ReviewInit => QuoteInv
<1> SUFFICES ASSUME ReviewInit PROVE QuoteInv
  OBVIOUS
<1>1. DOMAIN cache = {} /\ reads = <<>> /\ step = "loading"
  BY DEF ReviewInit, Nothing
<1>2. reads \in Seq([symbol: Symbols, snippet: Definition]) /\ Len(reads) = 0
  BY <1>1
<1>3. \A i \in 1 .. Len(reads) : CutOutOf(reads[i])
  BY <1>2
<1> QED BY <1>1, <1>2, <1>3 DEF QuoteInv

\* A search starts on the graph of what is loaded.
LEMMA StartsOnTheLoad ==
    ASSUME NEW bounds \in Bounds, StartSearch(Search(bounds)), UNCHANGED loaded
    PROVE  DOMAIN Graph' = Defined' /\ status' = "expanding"
<1>1. request' = Search(bounds) /\ status' = "expanding"
  BY DEF StartSearch
<1>2. request'.graph = Resolved
  BY <1>1 DEF Search
<1>3. DOMAIN Resolved = Defined /\ Defined' = Defined
  BY DEF Resolved, Defined
<1> QED BY <1>1, <1>2, <1>3 DEF Graph

LEMMA ExpandKeepsQuotes ==
    ASSUME QuoteInv, ExpandPatched
    PROVE  QuoteInv'
<1>1. /\ step = "loading" /\ step' = "searching" /\ Stage \in {"neighborhood", "context"}
      /\ UNCHANGED <<seen, review, stage, loaded, cache, reads>>
  BY DEF ExpandPatched, Complete, Loading
<1>2. DOMAIN cache' = {} /\ reads' = <<>>
  BY <1>1 DEF QuoteInv, Quoting
<1>3. DOMAIN Graph' = Defined' /\ status' # "off"
  BY <1>1, StartsOnTheLoad DEF ExpandPatched
<1>4. reads' \in Seq([symbol: Symbols, snippet: Definition]) /\ Len(reads') = 0
  BY <1>2
<1>5. \A i \in 1 .. Len(reads') : CutOutOf(reads[i])'
  BY <1>4
<1>6. Stage' \in {"neighborhood", "context"}
  BY <1>1, SameQuery
<1> QED BY <1>1, <1>2, <1>3, <1>4, <1>5, <1>6 DEF QuoteInv

LEMMA DiscoveryKeepsQuotes ==
    ASSUME LoadInv, QuoteInv, ReadDiscovered
    PROVE  QuoteInv'
<1>1. /\ step' = "searching" /\ Stage = "discovery" /\ Root \in Defined /\ Quote(Root)
      /\ UNCHANGED <<disk, seen, review, stage, loaded>>
  BY DEF ReadDiscovered
<1>2. /\ DOMAIN cache' # {} \/ reads' # <<>> => Quoting'
      /\ reads' # <<>>
      /\ \A f \in DOMAIN cache' : f \in Files /\ cache'[f] \in Held(f)'
      /\ reads' \in Seq([symbol: Symbols, snippet: Definition])
      /\ \A i \in 1 .. Len(reads') : CutOutOf(reads[i])'
  BY <1>1, QuoteIsCut
<1>3. DOMAIN Graph' = Defined' /\ status' # "off"
  BY <1>1, StartsOnTheLoad DEF ReadDiscovered
<1>4. Stage' \in {"neighborhood", "context", "discovery"}
  BY <1>1, SameQuery
<1> QED BY <1>1, <1>2, <1>3, <1>4 DEF QuoteInv

LEMMA SearchStepKeepsQuotes ==
    ASSUME QuoteInv, ExpandStep
    PROVE  QuoteInv'
<1>1. /\ step = "searching" /\ step' = step
      /\ UNCHANGED <<seen, review, stage, loaded, cache, reads, request>>
      /\ status' # "off"
  BY DEF ExpandStep, reviewVars, Expand, PopNode, FollowEdge, FinishSearch, Popping, QuoteInv
<1>2. \A f \in Files : Held(f) \subseteq Held(f)'
  BY <1>1, SameHeld
<1>3. /\ DOMAIN cache' # {} \/ reads' # <<>> => Quoting'
      /\ \A f \in DOMAIN cache' : f \in Files /\ cache'[f] \in Held(f)'
      /\ reads' \in Seq([symbol: Symbols, snippet: Definition])
      /\ \A i \in 1 .. Len(reads') : CutOutOf(reads[i])'
  BY <1>1, <1>2, QuotesStay
<1>4. /\ Stage' \in {"neighborhood", "context", "discovery"} /\ DOMAIN Graph' = Defined'
      /\ Stage' = "discovery" => reads' # <<>>
  BY <1>1, SameQuery DEF QuoteInv, Graph
<1> QED BY <1>1, <1>3, <1>4 DEF QuoteInv

LEMMA ReturnKeepsQuotes ==
    ASSUME LoadInv, SearchInv, QuoteInv, SearchReturns
    PROVE  QuoteInv'
<1>1. /\ step = "searching" /\ status # "expanding"
      /\ Stage \in {"neighborhood", "context", "discovery"}
      /\ UNCHANGED <<seen, review, cache, reads, request, status>>
  BY DEF SearchReturns, QuoteInv, searchVars
<1>2. CASE status = "refused"
  <2>1. step' = "refused" /\ UNCHANGED <<stage, loaded>>
    BY <1>2 DEF SearchReturns
  <2> QED BY <1>1, <2>1, SameHeld, QuotesGoOn
<1>3. CASE status # "refused" /\ Stage = "neighborhood"
  BY <1>1, <1>3, NextStageKeepsQuotes DEF SearchReturns
<1>4. CASE status # "refused" /\ Stage # "neighborhood"
  <2>1. /\ step' = "reading" /\ UNCHANGED <<stage, loaded>>
        /\ Stage \in {"context", "discovery"}
    BY <1>1, <1>4 DEF SearchReturns
  <2>2. status' = "done"
    BY <1>1, <1>4 DEF SearchInv, SearchTypeOK, QuoteInv
  <2>3. \A f \in Files : Held(f) \subseteq Held(f)'
    BY <1>1, <2>1, SameHeld
  <2>4. /\ DOMAIN cache' # {} \/ reads' # <<>> => Quoting'
        /\ \A f \in DOMAIN cache' : f \in Files /\ cache'[f] \in Held(f)'
        /\ reads' \in Seq([symbol: Symbols, snippet: Definition])
        /\ \A i \in 1 .. Len(reads') : CutOutOf(reads[i])'
    BY <1>1, <2>1, <2>3, QuotesStay
  <2>5. /\ Stage' \in {"context", "discovery"} /\ DOMAIN Graph' = Defined'
        /\ Stage' = "discovery" => reads' # <<>>
    BY <1>1, <2>1, SameQuery DEF QuoteInv, Graph
  <2> QED BY <2>1, <2>2, <2>4, <2>5 DEF QuoteInv
<1> QED BY <1>2, <1>3, <1>4

LEMMA ReadNodeKeepsQuotes ==
    ASSUME LoadInv, SearchInv, QuoteInv, ReadNode
    PROVE  QuoteInv'
<1>1. /\ step = "reading" /\ status = "done" /\ Stage \in {"context", "discovery"}
      /\ DOMAIN Graph = Defined
      /\ NodesRead < Len(nodes) /\ Quote(nodes[NodesRead + 1].symbol)
      /\ UNCHANGED <<disk, seen, review, step, stage, loaded, request, status>>
  BY DEF ReadNode, QuoteInv, searchVars
<1>2. NodesRead + 1 \in 1 .. Len(nodes)
  <2>1. Len(reads) \in Nat /\ Len(nodes) \in Nat
    BY DEF QuoteInv, SearchInv, SearchTypeOK
  <2>2. Stage = "discovery" => Len(reads) # 0
    BY <1>1 DEF QuoteInv
  <2> QED BY <1>1, <2>1, <2>2 DEF NodesRead
<1>3. nodes[NodesRead + 1].symbol \in Defined
  BY <1>1, <1>2 DEF SearchInv, Ordered
<1>4. /\ DOMAIN cache' # {} \/ reads' # <<>> => Quoting'
      /\ reads' # <<>>
      /\ \A f \in DOMAIN cache' : f \in Files /\ cache'[f] \in Held(f)'
      /\ reads' \in Seq([symbol: Symbols, snippet: Definition])
      /\ \A i \in 1 .. Len(reads') : CutOutOf(reads[i])'
  BY <1>1, <1>3, QuoteIsCut
<1>5. Stage' \in {"context", "discovery"} /\ DOMAIN Graph' = Defined' /\ status' = "done"
  BY <1>1, SameQuery DEF Graph
<1> QED BY <1>1, <1>4, <1>5 DEF QuoteInv
LEMMA QuotesStayTrue ==
    LoadInv /\ SearchInv /\ QuoteInv /\ [ReviewNext]_vars => QuoteInv'
<1> SUFFICES ASSUME LoadInv, SearchInv, QuoteInv, [ReviewNext]_vars PROVE QuoteInv'
  OBVIOUS
<1>1. CASE \E f \in Files : ReadFile(f)
  <2>1. /\ step = "loading" /\ step' = step /\ cache' = cache /\ reads' = reads
    BY <1>1 DEF ReadFile, Loading
  <2> QED BY <2>1, NothingIsQuoted DEF QuoteInv, Quoting
<1>2. CASE JudgePatch
  <2>1. /\ step = "loading" /\ cache' = cache /\ reads' = reads
        /\ step' \in {"loading", "answered", "deciding"}
    BY <1>2 DEF JudgePatch, Loading, NextStage
  <2> QED BY <2>1, NothingIsQuoted DEF QuoteInv, Quoting
<1>3. CASE TraceBaseline
  BY <1>3, NextStageKeepsQuotes DEF TraceBaseline
<1>4. CASE TracePatched
  BY <1>4, NextStageKeepsQuotes DEF TracePatched
<1>5. CASE ExpandPatched
  BY <1>5, ExpandKeepsQuotes
<1>6. CASE ReadDiscovered
  BY <1>6, DiscoveryKeepsQuotes
<1>7. CASE ExpandStep
  BY <1>7, SearchStepKeepsQuotes
<1>8. CASE SearchReturns
  BY <1>8, ReturnKeepsQuotes
<1>9. CASE ReadNode
  BY <1>9, ReadNodeKeepsQuotes
<1>10. CASE ReadsReturn
  BY <1>10, NextStageKeepsQuotes DEF ReadsReturn
<1>11. CASE Decide
  <2>1. /\ UNCHANGED <<seen, review, stage, loaded, cache, reads>>
        /\ step' \in {"refused", "answered"}
    BY <1>11 DEF Decide
  <2> QED BY <2>1, SameHeld, QuotesGoOn
<1>12. CASE Reject \/ Fail
  <2>1. DOMAIN cache' = {} /\ reads' = <<>> /\ step' = "failed"
    BY <1>12 DEF Reject, Fail, GiveUp, Nothing
  <2> QED BY <2>1, NothingIsQuoted
<1>13. CASE \E f \in Files : \E text \in Texts[f] : ExternalWrite(f, text)
  <2>1. PICK f \in Files : \E text \in Texts[f] : ExternalWrite(f, text)
    BY <1>13
  <2>2. PICK text \in Texts[f] : ExternalWrite(f, text)
    BY <2>1
  <2>3. /\ seen' = [seen EXCEPT ![f] = @ \cup {text}]
        /\ UNCHANGED <<review, step, stage, loaded, cache, reads, request, status>>
    BY <2>2 DEF ExternalWrite, searchVars
  <2>4. \A g \in Files : seen[g] \subseteq seen'[g]
    BY <2>3 DEF LoadInv
  <2>5. \A g \in Files : Held(g) \subseteq Held(g)'
    BY <2>3, <2>4, SameQuery DEF Held
  <2> QED BY <2>3, <2>5, QuotesGoOn
<1>14. CASE UNCHANGED vars
  <2>1. UNCHANGED <<seen, review, step, stage, loaded, cache, reads, request, status>>
    BY <1>14 DEF vars, reviewVars, searchVars
  <2> QED BY <2>1, SameHeld, QuotesGoOn
<1> QED BY <1>1, <1>2, <1>3, <1>4, <1>5, <1>6, <1>7, <1>8, <1>9, <1>10, <1>11, <1>12, <1>13, <1>14
     DEF ReviewNext, ReviewStep

\* However often other programs write while a call runs, what it quotes of one
\* file is cut out of one text that the file held during the call, and is the
\* symbol's own if the file had no other.
THEOREM ReviewQuotesAreOfOneText == ReviewSpec => []QuotesAreOfOneText
<1>1. LoadInv /\ QuoteInv => QuotesAreOfOneText
  <2> SUFFICES ASSUME LoadInv, QuoteInv, NEW k \in 1 .. Len(reads)
               PROVE  \E text \in Held(FileOf(reads[k].symbol)) : \A i \in 1 .. Len(reads) :
                        FileOf(reads[i].symbol) = FileOf(reads[k].symbol) =>
                            /\ PlaceOf(reads[i].symbol) <= Len(text)
                            /\ reads[i].snippet = text[PlaceOf(reads[i].symbol)]
                            /\ Held(FileOf(reads[k].symbol)) = {text} =>
                                reads[i].snippet.name = reads[i].symbol
    BY DEF QuotesAreOfOneText
  <2> DEFINE f == FileOf(reads[k].symbol)
  <2>1. f \in DOMAIN cache /\ cache[f] \in Held(f)
    BY DEF QuoteInv, CutOutOf
  <2>2. ASSUME NEW i \in 1 .. Len(reads), FileOf(reads[i].symbol) = f
        PROVE  /\ PlaceOf(reads[i].symbol) <= Len(cache[f])
               /\ reads[i].snippet = cache[f][PlaceOf(reads[i].symbol)]
               /\ Held(f) = {cache[f]} => reads[i].snippet.name = reads[i].symbol
    <3>1. /\ reads[i].symbol \in Defined /\ PlaceOf(reads[i].symbol) \in 1 .. Len(cache[f])
          /\ reads[i].snippet = cache[f][PlaceOf(reads[i].symbol)]
      BY <2>2 DEF QuoteInv, CutOutOf
    <3>2. /\ f \in DOMAIN loaded /\ loaded[f] \in Held(f)
          /\ loaded[f][PlaceOf(reads[i].symbol)].name = reads[i].symbol
      BY <2>2, <3>1, DefinedSymbols DEF LoadInv
    <3>3. Held(f) = {cache[f]} => cache[f] = loaded[f]
      BY <3>2
    <3>4. PlaceOf(reads[i].symbol) <= Len(cache[f])
      BY <3>1
    <3> QED BY <3>1, <3>2, <3>3, <3>4
  <2> HIDE DEF f
  <2>3. \E text \in Held(f) : \A i \in 1 .. Len(reads) : FileOf(reads[i].symbol) = f =>
            /\ PlaceOf(reads[i].symbol) <= Len(text)
            /\ reads[i].snippet = text[PlaceOf(reads[i].symbol)]
            /\ Held(f) = {text} => reads[i].snippet.name = reads[i].symbol
    BY <2>1, <2>2
  <2> QED BY <2>3 DEF f
<1>2. ReviewSpec => []SearchInv
  BY ReviewsSearch, SearchInvHolds, PTL
<1> QED BY <1>1, <1>2, LoadInvHolds, InitQuotes, QuotesStayTrue, PTL DEF ReviewSpec
-----------------------------------------------------------------------------
\* A rejected patch is not looked at any further.
ReviewTypeInv ==
    /\ ReviewTypeOK
    /\ gate.status = "rejected" => step = "answered"

LEMMA TraceTypes ==
    ASSUME LoadInv, Root \in Defined
    PROVE  TraceOf(Root).callers \cup TraceOf(Root).callees \subseteq Symbols
<1>1. Defined \subseteq Symbols
  BY DefinedSymbols
<1> QED BY <1>1 DEF TraceOf, Callers, Callees

LEMMA InitTypes ==
    ReviewInit => ReviewTypeInv
<1> SUFFICES ASSUME ReviewInit PROVE ReviewTypeInv
  OBVIOUS
<1>1. LoadInv /\ QuoteInv
  BY InitLoads, InitQuotes
<1>2. /\ disk \in [Files -> UNION {Texts[f] : f \in Files}]
      /\ \A f \in Files : disk[f] \in Texts[f] /\ seen[f] = {disk[f]}
      /\ writes = 0 /\ step = "loading" /\ decision = "none"
      /\ gate.status = "none" /\ DOMAIN loaded = {} /\ DOMAIN cache = {} /\ Len(reads) = 0
  BY DEF ReviewInit, NotJudged, Nothing
<1>3. \A t \in {baseline, trace} : t.callers \cup t.callees \subseteq Symbols
  BY DEF ReviewInit, NoTrace
<1>4. writes \in 0 .. MaxWrites
  BY <1>2, MaxWritesAssumption
<1> QED BY <1>1, <1>2, <1>3, <1>4 DEF ReviewTypeInv, ReviewTypeOK, LoadInv

LEMMA ElementsOfASequence ==
    ASSUME NEW S, NEW list \in Seq(S)
    PROVE  \A i \in 1 .. Len(list) : list[i] \in S
OBVIOUS

LEMMA TypesStayTrue ==
    LoadInv /\ SearchInv /\ QuoteInv /\ ReviewTypeInv /\ [ReviewNext]_vars => ReviewTypeInv'
<1> SUFFICES ASSUME LoadInv, SearchInv, QuoteInv, ReviewTypeInv, [ReviewNext]_vars
             PROVE  ReviewTypeInv'
  OBVIOUS
<1>1. LoadInv' /\ QuoteInv'
  BY LoadsStayTrue, QuotesStayTrue
<1>2. /\ review' \in Reviews /\ stage' \in 1 .. Len(Stages(review'.kind))
      /\ DOMAIN loaded' \subseteq Files /\ DOMAIN cache' \subseteq Files
      /\ \A i \in 1 .. Len(reads') : reads'[i] \in [symbol : Symbols, snippet : Definition]
  <2>1. /\ review' \in Reviews /\ stage' \in 1 .. Len(Stages(review'.kind))
        /\ DOMAIN loaded' \subseteq Files
    BY <1>1 DEF LoadInv
  <2>2. DOMAIN cache' \subseteq Files /\ reads' \in Seq([symbol : Symbols, snippet : Definition])
    BY <1>1 DEF QuoteInv
  <2>3. \A i \in 1 .. Len(reads') : reads'[i] \in [symbol : Symbols, snippet : Definition]
    BY <2>2, ElementsOfASequence
  <2> QED BY <2>1, <2>2, <2>3
<1> DEFINE Disk == /\ disk \in [Files -> UNION {Texts[f] : f \in Files}]
                   /\ \A f \in Files : disk[f] \in seen[f] /\ seen[f] \subseteq Texts[f]
                   /\ writes \in 0 .. MaxWrites
           Judged == /\ gate.status \in {"none", "allowed", "allowed_with_bypass", "rejected"}
                     /\ gate.status = "rejected" => step = "answered"
           Traced == \A t \in {baseline, trace} : t.callers \cup t.callees \subseteq Symbols
           Going == /\ step \in {"loading", "searching", "reading", "deciding", "answered",
                                 "refused", "failed"}
                    /\ decision \in {"none", "skipped", "allowed", "allowed_with_bypass",
                                     "rejected_by_trace_replay"}
<1>3. Disk /\ Judged /\ Traced /\ Going
  BY DEF ReviewTypeInv, ReviewTypeOK
<1> HIDE DEF Disk, Judged, Traced, Going
<1>4. SUFFICES Disk' /\ Judged' /\ Traced' /\ Going'
  BY <1>2 DEF ReviewTypeInv, ReviewTypeOK, Disk, Judged, Traced, Going
<1>5. CASE \E f \in Files : ReadFile(f)
  BY <1>3, <1>5 DEF ReadFile, Disk, Judged, Traced, Going
<1>6. CASE JudgePatch
  <2>1. /\ UNCHANGED <<disk, seen, writes, baseline, trace>> /\ step = "loading"
        /\ gate' = [status |-> GateStatus(Evidence), evidence |-> Evidence]
    BY <1>6 DEF JudgePatch, Loading
  <2>2. gate'.status \in {"allowed", "allowed_with_bypass", "rejected"}
    BY <2>1 DEF GateStatus
  <2>3. CASE Patch.broken \/ gate'.status = "rejected"
    <3>1. step' = "answered" /\ decision' = "skipped"
      BY <1>6, <2>3 DEF JudgePatch
    <3> QED BY <1>3, <2>1, <2>2, <3>1 DEF Disk, Judged, Traced, Going
  <2>4. CASE ~(Patch.broken \/ gate'.status = "rejected")
    <3>1. step' \in {"loading", "answered", "deciding"} /\ decision' = decision
      BY <1>6, <2>4 DEF JudgePatch, NextStage
    <3> QED BY <1>3, <2>1, <2>2, <2>4, <3>1 DEF Disk, Judged, Traced, Going
  <2> QED BY <2>3, <2>4
<1>7. CASE TraceBaseline \/ TracePatched
  <2>1. /\ UNCHANGED <<disk, seen, writes, gate, decision>> /\ step = "loading"
        /\ step' \in {"loading", "answered", "deciding"} /\ Root \in Defined
    BY <1>7 DEF TraceBaseline, TracePatched, Complete, Loading, NextStage
  <2>2. /\ baseline' = baseline \/ baseline' = TraceOf(Root)
        /\ trace' = trace \/ trace' = TraceOf(Root)
    BY <1>7 DEF TraceBaseline, TracePatched
  <2>3. Traced'
    BY <1>3, <2>1, <2>2, TraceTypes DEF Traced
  <2> QED BY <1>3, <2>1, <2>3 DEF Disk, Judged, Going
<1>8. CASE ReadDiscovered
  <2>1. /\ UNCHANGED <<disk, seen, writes, gate, baseline, decision>> /\ step = "loading"
        /\ step' = "searching" /\ Root \in Defined /\ trace' = TraceOf(Root)
    BY <1>8 DEF ReadDiscovered, Complete, Loading
  <2>2. Traced'
    BY <1>3, <2>1, TraceTypes DEF Traced
  <2> QED BY <1>3, <2>1, <2>2 DEF Disk, Judged, Going
<1>9. CASE ExpandPatched \/ ExpandStep \/ SearchReturns \/ ReadNode \/ ReadsReturn
  <2>1. /\ UNCHANGED <<disk, seen, writes, gate, baseline, trace, decision>>
        /\ step \in {"loading", "searching", "reading"}
        /\ step' \in {"loading", "searching", "reading", "deciding", "answered", "refused"}
    BY <1>9 DEF ExpandPatched, ExpandStep, SearchReturns, ReadNode, ReadsReturn, Complete, Loading,
       NextStage, reviewVars
  <2> QED BY <1>3, <2>1 DEF Disk, Judged, Traced, Going
<1>10. CASE Decide
  <2>1. /\ UNCHANGED <<disk, seen, writes, gate, baseline, trace>> /\ step = "deciding"
        /\ step' \in {"answered", "refused"} /\ decision' = Decision
    BY <1>10 DEF Decide
  <2>2. gate.status # "rejected"
    BY <1>3, <2>1 DEF Judged
  <2>3. decision' \in {"rejected_by_trace_replay", gate.status}
    BY <2>1 DEF Decision
  <2> QED BY <1>3, <2>1, <2>2, <2>3 DEF Disk, Judged, Traced, Going
<1>11. CASE Reject \/ Fail
  <2>1. /\ UNCHANGED <<disk, seen, writes, decision>> /\ step' = "failed"
        /\ gate'.status = "none" /\ baseline' = NoTrace /\ trace' = NoTrace
    BY <1>11 DEF Reject, Fail, GiveUp, NotJudged
  <2>2. Traced'
    BY <2>1 DEF Traced, NoTrace
  <2> QED BY <1>3, <2>1, <2>2 DEF Disk, Judged, Going
<1>12. CASE \E f \in Files : \E text \in Texts[f] : ExternalWrite(f, text)
  <2>1. PICK f \in Files : \E text \in Texts[f] : ExternalWrite(f, text)
    BY <1>12
  <2>2. PICK text \in Texts[f] : ExternalWrite(f, text)
    BY <2>1
  <2>3. /\ disk' = [disk EXCEPT ![f] = text] /\ seen' = [seen EXCEPT ![f] = @ \cup {text}]
        /\ writes < MaxWrites /\ writes' = writes + 1
        /\ UNCHANGED <<gate, baseline, trace, step, decision>>
    BY <2>2 DEF ExternalWrite
  <2>4. writes' \in 0 .. MaxWrites
    BY <1>3, <2>3, MaxWritesAssumption DEF Disk
  <2>5. seen \in [Files -> SUBSET Seq(Definition)]
    BY DEF LoadInv
  <2>6. disk' \in [Files -> UNION {Texts[g] : g \in Files}]
    BY <1>3, <2>3 DEF Disk
  <2>7. \A g \in Files : disk'[g] \in seen'[g] /\ seen'[g] \subseteq Texts[g]
    BY <1>3, <2>3, <2>5 DEF Disk
  <2> QED BY <1>3, <2>3, <2>4, <2>6, <2>7 DEF Disk, Judged, Traced, Going
<1>13. CASE UNCHANGED vars
  BY <1>3, <1>13 DEF vars, reviewVars, Disk, Judged, Traced, Going
<1> QED BY <1>5, <1>6, <1>7, <1>8, <1>9, <1>10, <1>11, <1>12, <1>13 DEF ReviewNext, ReviewStep

LEMMA ReviewTypeInvHolds == ReviewSpec => []ReviewTypeInv
<1>1. ReviewSpec => []SearchInv
  BY ReviewsSearch, SearchInvHolds, PTL
<1> QED BY <1>1, LoadInvHolds, InitQuotes, QuotesStayTrue, InitTypes, TypesStayTrue, PTL
     DEF ReviewSpec

\* Every part of a review keeps its type: the query it is at is one of its
\* tool's, what it quotes are definitions, and a rejected patch is not decided on.
THEOREM ReviewTypeCorrect == ReviewSpec => []ReviewTypeOK
<1>1. ReviewTypeInv => ReviewTypeOK
  BY DEF ReviewTypeInv
<1> QED BY <1>1, ReviewTypeInvHolds, PTL
-----------------------------------------------------------------------------
(* What the gate, the trace and the search of one review made of the files. *)
(* The operators of a load, for any texts.                                  *)

DefinedIn(texts) == UNION {Names(texts[f]) : f \in DOMAIN texts}
FileIn(texts, s) == CHOOSE f \in DOMAIN texts : s \in Names(texts[f])
CallsIn(texts, s) == texts[FileIn(texts, s)][Place(texts[FileIn(texts, s)], s)].calls

CalleesIn(texts, s) == (CallsIn(texts, s) \cap DefinedIn(texts)) \ {s}
CallersIn(texts, s) == {t \in DefinedIn(texts) \ {s} : s \in CallsIn(texts, t)}

EvidenceIn(texts) ==
    IF Root \notin DefinedIn(texts) THEN {}
    ELSE {[name |-> n,
           status |-> IF n \in Locals \cup DefinedIn(texts) THEN "passed" ELSE "blocked",
           scoped |-> n \in Locals] : n \in CallsIn(texts, Root)}

TraceIn(texts) ==
    [callers |-> IF review.direction = "callees" THEN {} ELSE CallersIn(texts, Root),
     callees |-> IF review.direction = "callers" THEN {} ELSE CalleesIn(texts, Root)]

\* The texts that every query but the one before the patch loads, if no file
\* changes.
Settled ==
    [f \in Files |-> IF f = Own THEN IF review.kind = "read" THEN Patch.before ELSE Patch.after
                     ELSE disk[f]]

\* The trace of the answer was made.
TraceTaken ==
    \/ \E i \in 1 .. Len(Stages(review.kind)) : i < stage /\ Stages(review.kind)[i] = "trace"
    \/ Stage \in {"trace", "discovery"} /\ step \notin {"loading", "failed"}

\* The neighbours that the search starts from.
Ring == Neighbours(request.root) \ {request.root}

StepsInv ==
    /\ loaded = [f \in DOMAIN loaded |-> loaded[f]]
    /\ Running => decision = "none"
    /\ step = "deciding" => review.kind # "read"
    /\ step = "deciding" \/ (step = "answered" /\ decision # "skipped") =>
        stage = Len(Stages(review.kind))

GateInv ==
    review.kind # "read" /\ stage > 1 =>
        /\ gate.status = GateStatus(gate.evidence) /\ gate.status # "rejected"
        /\ Quiet => gate.evidence = EvidenceIn(Settled)

TraceInv == TraceTaken /\ Quiet => trace = TraceIn(Settled)

RingInv ==
    /\ status # "off" /\ Quiet => Ring = TraceIn(Settled).callers \cup TraceIn(Settled).callees
    /\ Stage = "discovery" /\ step \notin {"loading", "failed"} =>
        Ring = trace.callers \cup trace.callees

VerdictInv ==
    decision \notin {"none", "skipped"} /\ Quiet /\ review.direction # "callers" =>
        decision = gate.status

AgreeInv == StepsInv /\ GateInv /\ TraceInv /\ RingInv /\ VerdictInv

LEMMA ReviewStays ==
    [ReviewNext]_vars => review' = review
BY DEF ReviewNext, ReviewStep, ReadFile, JudgePatch, TraceBaseline, TracePatched, ExpandPatched,
   ReadDiscovered, ExpandStep, SearchReturns, ReadNode, ReadsReturn, Decide, Reject, Fail, GiveUp,
   ExternalWrite, reviewVars, vars

\* No write is taken back: a call that was quiet to its end was so all the time,
\* and the texts are those it began with.
LEMMA OnceQuiet ==
    ASSUME LoadInv, [ReviewNext]_vars, Quiet'
    PROVE  Quiet /\ Settled' = Settled
<1>1. review' = review
  BY ReviewStays
<1>2. CASE \E f \in Files : \E text \in Texts[f] : ExternalWrite(f, text)
  <2>1. PICK f \in Files : \E text \in Texts[f] : ExternalWrite(f, text)
    BY <1>2
  <2>2. PICK text \in Texts[f] : ExternalWrite(f, text)
    BY <2>1
  <2>3. /\ disk' = [disk EXCEPT ![f] = text] /\ seen' = [seen EXCEPT ![f] = @ \cup {text}]
    BY <2>2 DEF ExternalWrite
  <2>4. \A g \in Files : seen[g] \subseteq seen'[g] /\ disk[g] \in seen[g]
    BY <2>3 DEF LoadInv
  <2>5. \A g \in Files \ {Own} : seen[g] = {disk[g]} /\ disk'[g] = disk[g]
    BY <2>4 DEF Quiet
  <2> QED BY <1>1, <2>5 DEF Quiet, Settled, Patch
<1>3. CASE ~ \E f \in Files : \E text \in Texts[f] : ExternalWrite(f, text)
  <2>1. UNCHANGED <<disk, seen>>
    BY <1>3 DEF ReviewNext, ReviewStep, ReadFile, JudgePatch, TraceBaseline, TracePatched,
       ExpandPatched, ReadDiscovered, ExpandStep, SearchReturns, ReadNode, ReadsReturn, Decide,
       Reject, Fail, GiveUp, reviewVars, vars
  <2> QED BY <1>1, <2>1 DEF Quiet, Settled, Patch
<1> QED BY <1>2, <1>3

LEMMA SameTexts ==
    ASSUME review' = review, Settled' = Settled
    PROVE  TraceIn(Settled)' = TraceIn(Settled) /\ EvidenceIn(Settled)' = EvidenceIn(Settled)
BY DEF TraceIn, EvidenceIn, CallersIn, CalleesIn, CallsIn, DefinedIn, FileIn, Root

LEMMA LoadsSettle ==
    ASSUME LoadInv, StepsInv, Quiet, DOMAIN loaded = Files, Stage # "baseline"
    PROVE  loaded = Settled
<1>1. ASSUME NEW f \in Files PROVE loaded[f] = Settled[f]
  <2>1. loaded[f] \in Held(f)
    BY DEF LoadInv
  <2>2. CASE f = Own
    BY <2>1, <2>2 DEF Held, OverrideText, Settled
  <2>3. CASE f # Own
    BY <2>1, <2>3 DEF Held, Quiet, Settled
  <2> QED BY <2>2, <2>3
<1>2. loaded = [f \in Files |-> loaded[f]]
  BY DEF StepsInv
<1>3. Settled = [f \in Files |-> Settled[f]]
  BY DEF Settled
<1> QED BY <1>1, <1>2, <1>3

\* A query reads the texts it has loaded and nothing else.
LEMMA WhatAQuerySays ==
    /\ Defined = DefinedIn(loaded)
    /\ TraceOf(Root) = TraceIn(loaded)
    /\ ~Patch.broken => Evidence = EvidenceIn(loaded)
<1>1. Defined = DefinedIn(loaded) /\ \A s : CallsOf(s) = CallsIn(loaded, s)
  BY DEF Defined, DefinedIn, CallsOf, CallsIn, FileOf, FileIn, PlaceOf
<1>2. \A s : Callers(s) = CallersIn(loaded, s) /\ Callees(s) = CalleesIn(loaded, s)
  BY <1>1 DEF Callers, CallersIn, Callees, CalleesIn
<1>3. TraceOf(Root) = TraceIn(loaded)
  BY <1>2 DEF TraceOf, TraceIn
<1>4. ~Patch.broken => Evidence = EvidenceIn(loaded)
  BY <1>1 DEF Evidence, EvidenceIn, EvidenceOf
<1> QED BY <1>1, <1>3, <1>4

LEMMA NextStageOfACall ==
    ASSUME LoadInv, NextStage
    PROVE  \/ /\ stage < Len(Stages(review.kind)) /\ step' = "loading" /\ stage' = stage + 1
              /\ loaded' = Nothing
           \/ /\ stage = Len(Stages(review.kind)) /\ UNCHANGED <<stage, loaded>>
              /\ step' = IF review.kind = "read" THEN "answered" ELSE "deciding"
<1>1. stage \in 1 .. Len(Stages(review.kind)) /\ Len(Stages(review.kind)) \in Nat
  BY ReviewFields, StagesOfATool DEF LoadInv
<1> QED BY <1>1 DEF NextStage
-----------------------------------------------------------------------------
LEMMA NextStageKeepsSteps ==
    ASSUME LoadInv, StepsInv, NextStage, Running, decision' = decision, review' = review
    PROVE  StepsInv'
<1>1. decision' = "none"
  BY DEF StepsInv
<1>2. CASE /\ step' = "loading" /\ loaded' = Nothing
  <2>1. loaded' = [f \in DOMAIN loaded' |-> loaded'[f]]
    BY <1>2 DEF Nothing
  <2> QED BY <1>1, <1>2, <2>1 DEF StepsInv
<1>3. CASE /\ stage = Len(Stages(review.kind)) /\ UNCHANGED <<stage, loaded>>
           /\ step' = IF review.kind = "read" THEN "answered" ELSE "deciding"
  BY <1>1, <1>3 DEF StepsInv
<1> QED BY <1>2, <1>3, NextStageOfACall

LEMMA StepsStayTrue ==
    LoadInv /\ StepsInv /\ [ReviewNext]_vars => StepsInv'
<1> SUFFICES ASSUME LoadInv, StepsInv, [ReviewNext]_vars PROVE StepsInv'
  OBVIOUS
<1>a. review' = review
  BY ReviewStays
<1>1. CASE \E f \in Files : ReadFile(f)
  <2>1. PICK f \in Files : ReadFile(f)
    BY <1>1
  <2>2. /\ UNCHANGED <<step, stage, decision>> /\ loaded' = With(loaded, f, SourceNow(f))
    BY <2>1 DEF ReadFile
  <2>3. loaded' = [g \in DOMAIN loaded' |-> loaded'[g]]
    BY <2>2 DEF With
  <2> QED BY <1>a, <2>2, <2>3 DEF StepsInv, Running
<1>2. CASE JudgePatch
  <2>1. Running
    BY <1>2 DEF JudgePatch, Loading, Running
  <2>2. CASE NextStage /\ UNCHANGED decision
    BY <1>a, <2>1, <2>2, NextStageKeepsSteps
  <2>3. CASE step' = "answered" /\ decision' = "skipped" /\ UNCHANGED <<stage, loaded>>
    BY <2>3 DEF StepsInv, Running
  <2> QED BY <1>2, <2>2, <2>3 DEF JudgePatch
<1>3. CASE TraceBaseline \/ TracePatched \/ ReadsReturn
  <2>1. Running /\ NextStage /\ decision' = decision
    BY <1>3 DEF TraceBaseline, TracePatched, ReadsReturn, Complete, Loading, Running
  <2> QED BY <1>a, <2>1, NextStageKeepsSteps
<1>4. CASE SearchReturns
  <2>1. Running /\ decision' = decision
    BY <1>4 DEF SearchReturns, Running
  <2>2. CASE NextStage
    BY <1>a, <2>1, <2>2, NextStageKeepsSteps
  <2>3. CASE step' \in {"refused", "reading"} /\ UNCHANGED <<stage, loaded>>
    BY <2>1, <2>3 DEF StepsInv, Running
  <2> QED BY <1>4, <2>2, <2>3 DEF SearchReturns
<1>5. CASE ExpandPatched \/ ReadDiscovered
  <2>1. Running /\ step' = "searching" /\ UNCHANGED <<loaded, decision>>
    BY <1>5 DEF ExpandPatched, ReadDiscovered, Complete, Loading, Running
  <2> QED BY <2>1 DEF StepsInv, Running
<1>6. CASE Decide
  <2>1. /\ step = "deciding" /\ step' \in {"refused", "answered"}
        /\ UNCHANGED <<review, stage, loaded>>
    BY <1>6 DEF Decide
  <2> QED BY <2>1 DEF StepsInv, Running
<1>7. CASE Reject \/ Fail
  <2>1. step' = "failed" /\ loaded' = Nothing
    BY <1>7 DEF Reject, Fail, GiveUp
  <2>2. loaded' = [f \in DOMAIN loaded' |-> loaded'[f]]
    BY <2>1 DEF Nothing
  <2> QED BY <2>1, <2>2 DEF StepsInv, Running
<1>8. CASE \/ ExpandStep \/ ReadNode
           \/ \E f \in Files : \E text \in Texts[f] : ExternalWrite(f, text)
           \/ UNCHANGED vars
  <2>1. UNCHANGED <<review, step, stage, loaded, decision>>
    BY <1>8 DEF ExpandStep, ReadNode, ExternalWrite, vars, reviewVars
  <2> QED BY <2>1 DEF StepsInv, Running
<1> QED BY <1>1, <1>2, <1>3, <1>4, <1>5, <1>6, <1>7, <1>8 DEF ReviewNext, ReviewStep

\* A tool begins with the gate, a query by itself has none.
LEMMA GateComesFirst ==
    ASSUME LoadInv, review.kind # "read", stage = 1
    PROVE  Stage = "gate" /\ Len(Stages(review.kind)) \in 2 .. 3
<1>1. review.kind \in Kinds
  BY ReviewFields
<1> QED BY <1>1 DEF Kinds, Stage, Stages

LEMMA GateStaysTrue ==
    LoadInv /\ QuoteInv /\ StepsInv /\ GateInv /\ [ReviewNext]_vars => GateInv'
<1> SUFFICES ASSUME LoadInv, QuoteInv, StepsInv, GateInv, [ReviewNext]_vars,
                    review'.kind # "read", stage' > 1
             PROVE  /\ gate'.status = GateStatus(gate.evidence)' /\ gate'.status # "rejected"
                    /\ Quiet' => gate'.evidence = EvidenceIn(Settled)'
  BY DEF GateInv
<1>1. review' = review /\ stage \in Nat /\ stage >= 1
  BY ReviewStays, ReviewFields, StagesOfATool DEF LoadInv
<1>2. Quiet' => Quiet /\ EvidenceIn(Settled)' = EvidenceIn(Settled)
  BY <1>1, OnceQuiet, SameTexts
<1>3. CASE JudgePatch
  <2>1. Stage = "gate" /\ Loading /\ gate' = [status |-> GateStatus(Evidence), evidence |-> Evidence]
    BY <1>3 DEF JudgePatch
  <2>2. ~Patch.broken /\ gate'.status # "rejected"
    <3>1. SUFFICES ASSUME Patch.broken \/ gate'.status = "rejected" PROVE FALSE
      OBVIOUS
    <3>2. step' = "answered" /\ stage' = stage
      BY <1>3, <3>1 DEF JudgePatch
    <3>3. stage > 1
      BY <3>2
    <3>4. review.kind \in Kinds /\ stage \in 1 .. Len(Stages(review.kind)) /\ review.kind # "read"
      BY <1>1, ReviewFields DEF LoadInv
    <3>5. Stage # "gate"
      BY <3>3, <3>4 DEF Kinds, Stage, Stages
    <3> QED BY <2>1, <3>5
  <2>3. gate'.status = GateStatus(gate.evidence)'
    BY <1>1, <2>1 DEF GateStatus, Patch
  <2>4. Quiet' => Evidence = EvidenceIn(Settled)
    <3>1. DOMAIN loaded = Files
      BY <1>3, <2>2 DEF JudgePatch, SkipsTheLoad, Complete
    <3>2. Quiet => loaded = Settled
      BY <2>1, <3>1, LoadsSettle
    <3> QED BY <1>2, <2>2, <3>2, WhatAQuerySays
  <2> QED BY <1>2, <2>1, <2>2, <2>3, <2>4
<1>4. CASE Reject \/ Fail
  BY <1>4 DEF Reject, Fail, GiveUp
<1>5. CASE ~(JudgePatch \/ Reject \/ Fail)
  <2>1. gate' = gate
    BY <1>5 DEF ReviewNext, ReviewStep, ReadFile, TraceBaseline, TracePatched, ExpandPatched,
       ReadDiscovered, ExpandStep, SearchReturns, ReadNode, ReadsReturn, Decide,
       ExternalWrite, reviewVars, vars
  <2>2. stage > 1
    <3> SUFFICES ASSUME stage = 1 PROVE FALSE
      BY <1>1
    <3>1. Stage = "gate"
      BY <1>1, GateComesFirst
    <3>2. ~(TraceBaseline \/ TracePatched \/ SearchReturns \/ ReadsReturn)
      BY <3>1 DEF TraceBaseline, TracePatched, SearchReturns, ReadsReturn, QuoteInv
    <3>3. stage' = stage
      BY <1>5, <3>2 DEF ReviewNext, ReviewStep, ReadFile, ExpandPatched,
         ReadDiscovered, ExpandStep, ReadNode, Decide, ExternalWrite, reviewVars, vars
    <3> QED BY <3>3
  <2>3. GateStatus(gate.evidence)' = GateStatus(gate.evidence)
    BY <1>1, <2>1 DEF GateStatus, Patch
  <2> QED BY <1>1, <1>2, <2>1, <2>2, <2>3 DEF GateInv
<1> QED BY <1>3, <1>4, <1>5
-----------------------------------------------------------------------------
LEMMA NextStageKeepsTaken ==
    ASSUME LoadInv, NextStage, step \in {"loading", "searching", "reading"}, review' = review,
           TraceTaken'
    PROVE  TraceTaken \/ Stage = "trace" \/ (Stage = "discovery" /\ step = "loading")
<1>1. stage \in Nat
  BY ReviewFields, StagesOfATool DEF LoadInv
<1>2. CASE step' = "loading" /\ stage' = stage + 1
  <2>1. PICK i \in 1 .. Len(Stages(review.kind)) : i < stage + 1 /\ Stages(review.kind)[i] = "trace"
    BY <1>2 DEF TraceTaken
  <2>2. i < stage \/ i = stage
    BY <1>1, <2>1
  <2> QED BY <2>1, <2>2 DEF TraceTaken, Stage
<1>3. CASE stage' = stage
  BY <1>3 DEF TraceTaken, Stage
<1> QED BY <1>2, <1>3, NextStageOfACall

LEMMA SameTaken ==
    ASSUME UNCHANGED <<review, stage>>, TraceTaken',
           step' \in {"loading", "failed"} \/ step \notin {"loading", "failed"}
               \/ Stage \notin {"trace", "discovery"}
    PROVE  TraceTaken
BY DEF TraceTaken, Stage

LEMMA TraceStaysTrue ==
    LoadInv /\ QuoteInv /\ StepsInv /\ TraceInv /\ [ReviewNext]_vars => TraceInv'
<1> SUFFICES ASSUME LoadInv, QuoteInv, StepsInv, TraceInv, [ReviewNext]_vars, TraceTaken', Quiet'
             PROVE  trace' = TraceIn(Settled)'
  BY DEF TraceInv
<1>1. review' = review /\ Quiet /\ TraceIn(Settled)' = TraceIn(Settled)
  BY ReviewStays, OnceQuiet, SameTexts
<1>2. CASE TracePatched \/ ReadDiscovered
  <2>1. Complete /\ Stage \in {"trace", "discovery"} /\ trace' = TraceOf(Root)
    BY <1>2 DEF TracePatched, ReadDiscovered
  <2>2. loaded = Settled
    BY <1>1, <2>1, LoadsSettle DEF Complete
  <2> QED BY <1>1, <2>1, <2>2, WhatAQuerySays
<1>3. CASE Reject \/ Fail
  <2>1. stage' = 1 /\ step' = "failed"
    BY <1>3 DEF Reject, Fail, GiveUp
  <2>2. \A i \in 1 .. Len(Stages(review'.kind)) : ~(i < stage')
    BY <2>1
  <2> QED BY <2>1, <2>2 DEF TraceTaken
<1>4. CASE ~(TracePatched \/ ReadDiscovered \/ Reject \/ Fail)
  <2>1. trace' = trace
    BY <1>4 DEF ReviewNext, ReviewStep, ReadFile, JudgePatch, TraceBaseline, ExpandPatched,
       ExpandStep, SearchReturns, ReadNode, ReadsReturn, Decide, ExternalWrite, reviewVars, vars
  <2>2. TraceTaken
    <3>1. CASE JudgePatch \/ TraceBaseline
      <4>1. Stage \in {"gate", "baseline"} /\ step = "loading"
        BY <3>1 DEF JudgePatch, TraceBaseline, Complete, Loading
      <4>2. CASE NextStage
        BY <1>1, <4>1, <4>2, NextStageKeepsTaken
      <4>3. CASE stage' = stage
        BY <1>1, <4>1, <4>3, SameTaken
      <4> QED BY <3>1, <4>2, <4>3 DEF JudgePatch, TraceBaseline
    <3>2. CASE SearchReturns \/ ReadsReturn
      <4>1. step \in {"searching", "reading"}
        BY <3>2 DEF SearchReturns, ReadsReturn
      <4>2. CASE NextStage
        <5>1. TraceTaken \/ Stage = "trace"
          BY <1>1, <4>1, <4>2, NextStageKeepsTaken
        <5> QED BY <4>1, <5>1 DEF TraceTaken
      <4>3. CASE stage' = stage
        BY <1>1, <4>1, <4>3, SameTaken
      <4> QED BY <3>2, <4>2, <4>3 DEF SearchReturns, ReadsReturn
    <3>3. CASE ExpandPatched \/ Decide
      <4>1. /\ stage' = stage
            /\ Stage \in {"neighborhood", "context"} \/ step = "deciding"
        BY <3>3 DEF ExpandPatched, Decide
      <4> QED BY <1>1, <4>1, SameTaken
    <3>4. CASE \/ \E f \in Files : ReadFile(f)
               \/ ExpandStep \/ ReadNode
               \/ \E f \in Files : \E text \in Texts[f] : ExternalWrite(f, text)
               \/ UNCHANGED vars
      <4>1. UNCHANGED <<stage, step>>
        BY <3>4 DEF ReadFile, ExpandStep, ReadNode, ExternalWrite, reviewVars, vars
      <4> QED BY <1>1, <4>1 DEF TraceTaken, Stage
    <3> QED BY <1>4, <3>1, <3>2, <3>3, <3>4 DEF ReviewNext, ReviewStep
  <2> QED BY <1>1, <2>1, <2>2 DEF TraceInv
<1> QED BY <1>2, <1>3, <1>4
-----------------------------------------------------------------------------
\* What the lists of the resolution say of a symbol's neighbours is what the
\* trace says.
LEMMA RingOfALoad ==
    ASSUME LoadInv, Root \in Defined, NEW bounds \in Bounds, request' = Search(bounds)
    PROVE  Ring' = TraceOf(Root).callers \cup TraceOf(Root).callees
<1>1. /\ Graph' = Resolved /\ request'.root = Root /\ request'.direction = review.direction
  BY DEF Graph, Search
<1> DEFINE callers == Callers(Root)
           callees == Callees(Root)
<1>2. /\ callers \subseteq Defined /\ callees \subseteq Defined
      /\ Root \notin callers /\ Root \notin callees
      /\ Defined \subseteq Symbols
  BY DefinedSymbols DEF Callers, Callees
<1>3. /\ Sorted(callers) \in Seq(Symbols) /\ Listed(Sorted(callers)) = callers
      /\ Sorted(callees) \in Seq(Symbols) /\ Listed(Sorted(callees)) = callees
  BY <1>2, SortedAssumption
<1>4. /\ DOMAIN Resolved = Defined
      /\ Resolved[Root] = [references |-> Sorted(callers), dependencies |-> Sorted(callees)]
  BY DEF Resolved
<1> HIDE DEF callers, callees
<1> DEFINE into == CallerEdges(Resolved, Root)
           from == CalleeEdges(Resolved, Root)
<1>5. /\ into = [i \in 1 .. Len(Sorted(callers)) |-> <<Sorted(callers)[i], Root>>]
      /\ from = [i \in 1 .. Len(Sorted(callees)) |-> <<Root, Sorted(callees)[i]>>]
  BY <1>4 DEF CallerEdges, CalleeEdges
<1>6. /\ into \in Seq(Symbols \X Symbols) /\ from \in Seq(Symbols \X Symbols)
      /\ Len(into) = Len(Sorted(callers)) /\ Len(from) = Len(Sorted(callees))
  <2>1. Root \in Symbols
    BY <1>2
  <2>2. /\ Len(Sorted(callers)) \in Nat /\ Len(Sorted(callees)) \in Nat
        /\ \A i \in 1 .. Len(Sorted(callers)) : Sorted(callers)[i] \in Symbols
        /\ \A i \in 1 .. Len(Sorted(callees)) : Sorted(callees)[i] \in Symbols
    BY <1>3
  <2> HIDE DEF into, from
  <2> QED BY <1>5, <2>1, <2>2
<1>7. /\ {OtherEnd(e, Root) : e \in Listed(into)} = callers
      /\ {OtherEnd(e, Root) : e \in Listed(from)} = callees
  <2> HIDE DEF into, from
  <2>1. /\ Listed(into) = {<<t, Root>> : t \in callers}
        /\ Listed(from) = {<<Root, t>> : t \in callees}
    <3>1. /\ callers = {Sorted(callers)[i] : i \in 1 .. Len(Sorted(callers))}
          /\ callees = {Sorted(callees)[i] : i \in 1 .. Len(Sorted(callees))}
      BY <1>3 DEF Listed
    <3>2. /\ \A i \in 1 .. Len(into) : into[i] = <<Sorted(callers)[i], Root>>
          /\ \A i \in 1 .. Len(from) : from[i] = <<Root, Sorted(callees)[i]>>
      BY <1>5, <1>6
    <3>3. Listed(into) = {into[i] : i \in 1 .. Len(Sorted(callers))}
          /\ Listed(from) = {from[i] : i \in 1 .. Len(Sorted(callees))}
      BY <1>6 DEF Listed
    <3>4. Listed(into) \subseteq {<<t, Root>> : t \in callers}
      BY <1>6, <3>1, <3>2, <3>3
    <3>5. {<<t, Root>> : t \in callers} \subseteq Listed(into)
      <4> SUFFICES ASSUME NEW t \in callers PROVE <<t, Root>> \in Listed(into)
        OBVIOUS
      <4>1. PICK i \in 1 .. Len(Sorted(callers)) : t = Sorted(callers)[i]
        BY <3>1
      <4>2. into[i] = <<t, Root>>
        BY <1>6, <3>2, <4>1
      <4> QED BY <3>3, <4>2
    <3>6. Listed(from) \subseteq {<<Root, t>> : t \in callees}
      BY <1>6, <3>1, <3>2, <3>3
    <3>7. {<<Root, t>> : t \in callees} \subseteq Listed(from)
      <4> SUFFICES ASSUME NEW t \in callees PROVE <<Root, t>> \in Listed(from)
        OBVIOUS
      <4>1. PICK i \in 1 .. Len(Sorted(callees)) : t = Sorted(callees)[i]
        BY <3>1
      <4>2. from[i] = <<Root, t>>
        BY <1>6, <3>2, <4>1
      <4> QED BY <3>3, <4>2
    <3> QED BY <3>4, <3>5, <3>6, <3>7
  <2>2. \A t : OtherEnd(<<t, Root>>, Root) = t /\ OtherEnd(<<Root, t>>, Root) = t
    BY OtherEndOfAPair
  <2> DEFINE In(e) == OtherEnd(e, Root)
  <2>3. /\ \A t : In(<<t, Root>>) = t
        /\ \A t : In(<<Root, t>>) = t
    BY <2>2
  <2> HIDE DEF In
  <2>4. {In(e) : e \in {<<t, Root>> : t \in callers}} = callers
    BY <2>3
  <2>5. {In(e) : e \in {<<Root, t>> : t \in callees}} = callees
    BY <2>3
  <2> QED BY <2>1, <2>4, <2>5 DEF In
<1>8. Listed(EdgesOf(Resolved, Root, review.direction)) =
        (IF review.direction = "callees" THEN {} ELSE Listed(into))
            \cup (IF review.direction = "callers" THEN {} ELSE Listed(from))
  <2> DEFINE one == IF review.direction = "callees" THEN <<>> ELSE into
             two == IF review.direction = "callers" THEN <<>> ELSE from
  <2>1. EdgesOf(Resolved, Root, review.direction) = one \o two
    BY DEF EdgesOf
  <2>2. one \in Seq(Symbols \X Symbols) /\ two \in Seq(Symbols \X Symbols)
    BY <1>6
  <2>3. /\ Listed(one) = IF review.direction = "callees" THEN {} ELSE Listed(into)
        /\ Listed(two) = IF review.direction = "callers" THEN {} ELSE Listed(from)
    BY DEF Listed
  <2> HIDE DEF one, two
  <2>4. Listed(one \o two) = Listed(one) \cup Listed(two)
    <3>1. /\ Len(one) \in Nat /\ Len(two) \in Nat /\ Len(one \o two) = Len(one) + Len(two)
          /\ \A i \in 1 .. Len(one) + Len(two) :
                (one \o two)[i] = IF i <= Len(one) THEN one[i] ELSE two[i - Len(one)]
      BY <2>2
    <3>2. Listed(one \o two) \subseteq Listed(one) \cup Listed(two)
      BY <3>1 DEF Listed
    <3>3. ASSUME NEW i \in 1 .. Len(one) PROVE one[i] \in Listed(one \o two)
      BY <3>1 DEF Listed
    <3>4. ASSUME NEW i \in 1 .. Len(two) PROVE two[i] \in Listed(one \o two)
      <4>1. /\ Len(one) + i \in 1 .. Len(one \o two) /\ (Len(one) + i) - Len(one) = i
            /\ ~(Len(one) + i <= Len(one))
        BY <3>1
      <4>2. (one \o two)[Len(one) + i] = two[i]
        BY <3>1, <4>1
      <4> QED BY <4>1, <4>2 DEF Listed
    <3> QED BY <3>2, <3>3, <3>4 DEF Listed
  <2> QED BY <2>1, <2>3, <2>4
<1>9. Ring' = ({OtherEnd(e, Root) : e \in Listed(EdgesOf(Resolved, Root, review.direction))}
                \cap Defined) \ {Root}
  BY <1>1, <1>4 DEF Ring, Neighbours, EdgesOf, CallerEdges, CalleeEdges, OtherEnd, Listed
<1>10. TraceOf(Root) = [callers |-> IF review.direction = "callees" THEN {} ELSE callers,
                        callees |-> IF review.direction = "callers" THEN {} ELSE callees]
  BY DEF TraceOf, callers, callees
<1> HIDE DEF into, from
<1> QED BY <1>2, <1>7, <1>8, <1>9, <1>10

LEMMA SameRing ==
    ASSUME request' = request
    PROVE  Ring' = Ring
BY DEF Ring, Neighbours, EdgesOf, CallerEdges, CalleeEdges, Graph, OtherEnd, Listed

LEMMA RingStaysTrue ==
    LoadInv /\ QuoteInv /\ StepsInv /\ RingInv /\ [ReviewNext]_vars => RingInv'
<1> SUFFICES ASSUME LoadInv, QuoteInv, StepsInv, RingInv, [ReviewNext]_vars
             PROVE  RingInv'
  OBVIOUS
<1>1. /\ review' = review
      /\ Quiet' => Quiet /\ TraceIn(Settled)' = TraceIn(Settled)
  BY ReviewStays, OnceQuiet, SameTexts
<1>2. CASE ExpandPatched \/ ReadDiscovered
  <2>1. /\ Complete /\ Stage \in {"neighborhood", "context", "discovery"} /\ Root \in Defined
        /\ \E bounds \in Bounds : StartSearch(Search(bounds))
        /\ UNCHANGED <<review, stage>>
    BY <1>2 DEF ExpandPatched, ReadDiscovered
  <2>2. PICK bounds \in Bounds : StartSearch(Search(bounds))
    BY <2>1
  <2>3. Ring' = TraceOf(Root).callers \cup TraceOf(Root).callees
    BY <2>1, <2>2, RingOfALoad DEF StartSearch
  <2>4. Quiet' => Ring' = TraceIn(Settled)'.callers \cup TraceIn(Settled)'.callees
    <3>1. Quiet => loaded = Settled
      BY <2>1, LoadsSettle DEF Complete
    <3> QED BY <1>1, <2>3, <3>1, WhatAQuerySays
  <2>5. Stage' = "discovery" => trace' = TraceOf(Root)
    BY <1>2, <2>1 DEF ExpandPatched, ReadDiscovered, Stage
  <2> QED BY <2>3, <2>4, <2>5 DEF RingInv
<1>3. CASE ~(ExpandPatched \/ ReadDiscovered)
  <2>1. request' = request /\ (status' # "off" => status # "off")
    BY <1>3 DEF ReviewNext, ReviewStep, ReadFile, JudgePatch, TraceBaseline, TracePatched,
       ExpandStep, Expand, PopNode, FollowEdge, FinishSearch, Popping,
       SearchReturns, ReadNode, ReadsReturn, Decide, Reject, Fail, GiveUp, ExternalWrite,
       reviewVars, searchVars, vars
  <2>2. Ring' = Ring
    BY <2>1, SameRing
  <2>3. (status # "off" /\ Quiet => Ring = TraceIn(Settled).callers \cup TraceIn(Settled).callees)'
    BY <1>1, <2>1, <2>2 DEF RingInv
  <2>4. ASSUME Stage' = "discovery", step' \notin {"loading", "failed"}
        PROVE  Ring' = trace'.callers \cup trace'.callees
    <3>1. ~(Reject \/ Fail)
      BY <2>4 DEF Reject, Fail, GiveUp
    <3>2. CASE NextStage
      <4>1. stage' = stage
        BY <2>4, <3>2, NextStageOfACall
      <4>2. Stage = "discovery"
        BY <1>1, <2>4, <4>1 DEF Stage
      <4>3. ReadsReturn \/ SearchReturns \/ ~NextStage
            \/ UNCHANGED <<stage, step, trace>> \/ Decide
        BY <1>3, <3>1, <4>2 DEF ReviewNext, ReviewStep, ReadFile, JudgePatch, TraceBaseline,
           TracePatched, ExpandStep, ReadNode, ExternalWrite, reviewVars, vars
      <4>4. step \notin {"loading", "failed"} /\ trace' = trace
        BY <2>4, <3>2, <4>3 DEF ReadsReturn, SearchReturns, Decide
      <4> QED BY <2>2, <4>2, <4>4 DEF RingInv
    <3>3. CASE ~NextStage
      <4>1. /\ stage' = stage /\ trace' = trace
        BY <1>3, <3>1, <3>3 DEF ReviewNext, ReviewStep, ReadFile, JudgePatch, TraceBaseline,
           TracePatched, ExpandStep, SearchReturns, ReadNode, ReadsReturn, Decide, ExternalWrite,
           reviewVars, vars
      <4>2. Stage = "discovery"
        BY <1>1, <2>4, <4>1 DEF Stage
      <4>3. step \notin {"loading", "failed"}
        BY <1>3, <2>4, <3>1, <3>3, <4>2 DEF ReviewNext, ReviewStep, ReadFile, JudgePatch,
           TraceBaseline, TracePatched, ExpandStep, SearchReturns, ReadNode, ReadsReturn, Decide,
           ExternalWrite, reviewVars, vars
      <4> QED BY <2>2, <4>1, <4>2, <4>3 DEF RingInv
    <3> QED BY <3>2, <3>3
  <2> QED BY <2>3, <2>4 DEF RingInv
<1> QED BY <1>2, <1>3
-----------------------------------------------------------------------------
\* What an answer is decided on.
LEMMA DecidedOn ==
    ASSUME LoadInv, StepsInv, GateInv, TraceInv, step = "deciding"
    PROVE  /\ review.kind # "read" /\ stage > 1 /\ TraceTaken
           /\ gate.status = GateStatus(gate.evidence) /\ gate.status # "rejected"
           /\ Quiet => gate.evidence = EvidenceIn(Settled) /\ trace = TraceIn(Settled)
<1>1. review.kind # "read" /\ stage = Len(Stages(review.kind)) /\ review.kind \in Kinds
  BY ReviewFields DEF StepsInv
<1>2. stage > 1
  BY <1>1 DEF Kinds, Stages
<1>3. TraceTaken
  <2>1. CASE review.kind = "trace"
    <3>1. Stage = "trace"
      BY <1>1, <2>1 DEF Stage, Stages
    <3> QED BY <3>1 DEF TraceTaken
  <2>2. CASE review.kind \in {"graph", "neighborhood"}
    <3>1. 2 \in 1 .. Len(Stages(review.kind)) /\ 2 < stage /\ Stages(review.kind)[2] = "trace"
      BY <1>1, <2>2 DEF Stages
    <3> QED BY <3>1 DEF TraceTaken
  <2>3. CASE review.kind = "discovery"
    <3>1. Stage = "discovery"
      BY <1>1, <2>3 DEF Stage, Stages
    <3> QED BY <3>1 DEF TraceTaken
  <2> QED BY <1>1, <2>1, <2>2, <2>3 DEF Kinds
<1> QED BY <1>1, <1>2, <1>3 DEF GateInv, TraceInv

\* The replay finds each name that the gate passed in the trace, if both saw the
\* same texts and the trace has the callees.
LEMMA ReplayAgrees ==
    ASSUME LoadInv, StepsInv, GateInv, TraceInv, step = "deciding", Quiet,
           review.direction # "callers"
    PROVE  Decision = gate.status
<1>1. /\ gate.status = GateStatus(gate.evidence) /\ gate.status # "rejected"
      /\ gate.evidence = EvidenceIn(Settled) /\ trace = TraceIn(Settled)
  BY DecidedOn
<1>2. ASSUME NEW e \in gate.evidence, e.status = "passed" PROVE Matched(e)
  <2>1. Root \in DefinedIn(Settled)
    BY <1>1 DEF EvidenceIn
  <2>2. PICK n \in CallsIn(Settled, Root) :
            e = [name |-> n,
                 status |-> IF n \in Locals \cup DefinedIn(Settled) THEN "passed" ELSE "blocked",
                 scoped |-> n \in Locals]
    BY <1>1, <2>1 DEF EvidenceIn
  <2>3. e.name = n /\ e.scoped = (n \in Locals)
    BY <2>2, Zenon
  <2>4. n \in Locals \cup DefinedIn(Settled)
    BY <1>2, <2>2
  <2>5. CASE n \in Locals
    <3>1. e.scoped
      BY <2>3, <2>5, Zenon
    <3> QED BY <3>1, Zenon DEF Matched
  <2>6. CASE n \notin Locals
    <3>1. n = Root \/ n \in CalleesIn(Settled, Root)
      BY <2>4, <2>6 DEF CalleesIn
    <3>2. trace.callees = CalleesIn(Settled, Root)
      BY <1>1 DEF TraceIn
    <3> QED BY <2>3, <3>1, <3>2, Zenon DEF Matched
  <2> QED BY <2>5, <2>6
<1>3. ASSUME NEW e \in gate.evidence, e.status = "blocked"
      PROVE  gate.status = "allowed_with_bypass"
  BY <1>1, <1>3 DEF GateStatus
<1> QED BY <1>2, <1>3 DEF Decision

LEMMA VerdictStaysTrue ==
    LoadInv /\ StepsInv /\ GateInv /\ TraceInv /\ VerdictInv /\ [ReviewNext]_vars => VerdictInv'
<1> SUFFICES ASSUME LoadInv, StepsInv, GateInv, TraceInv, VerdictInv, [ReviewNext]_vars,
                    decision' \notin {"none", "skipped"}, Quiet', review'.direction # "callers"
             PROVE  decision' = gate'.status
  BY DEF VerdictInv
<1>1. review' = review /\ Quiet
  BY ReviewStays, OnceQuiet
<1>2. CASE Decide
  <2>1. step = "deciding" /\ decision' = Decision /\ gate' = gate
    BY <1>2 DEF Decide
  <2> QED BY <1>1, <2>1, ReplayAgrees
<1>3. CASE ~Decide
  <2>1. ~Running
    <3> SUFFICES ASSUME Running PROVE FALSE
      OBVIOUS
    <3>1. decision = "none"
      BY DEF StepsInv
    <3> QED BY <1>3, <3>1 DEF ReviewNext, ReviewStep, ReadFile, JudgePatch, TraceBaseline,
           TracePatched, ExpandPatched, ReadDiscovered, ExpandStep, SearchReturns, ReadNode,
           ReadsReturn, Reject, Fail, GiveUp, ExternalWrite, reviewVars, vars
  <2>2. UNCHANGED <<decision, gate>>
    BY <1>3, <2>1 DEF ReviewNext, ReviewStep, ReadFile, JudgePatch, TraceBaseline,
           TracePatched, ExpandPatched, ReadDiscovered, ExpandStep, SearchReturns, ReadNode,
           ReadsReturn, Reject, Fail, RootIsMissing, QuoteIsOut, ExternalWrite, Running, Complete,
           Loading, reviewVars, vars
  <2> QED BY <1>1, <2>2 DEF VerdictInv
<1> QED BY <1>2, <1>3

LEMMA InitAgrees ==
    ReviewInit => AgreeInv
<1> SUFFICES ASSUME ReviewInit PROVE AgreeInv
  OBVIOUS
<1>1. /\ step = "loading" /\ stage = 1 /\ loaded = Nothing /\ decision = "none"
      /\ status = "off"
  BY DEF ReviewInit, IsOff
<1>2. StepsInv
  <2>1. loaded = [f \in DOMAIN loaded |-> loaded[f]]
    BY <1>1 DEF Nothing
  <2> QED BY <1>1, <2>1 DEF StepsInv
<1>3. ~TraceTaken
  <2>1. \A i \in 1 .. Len(Stages(review.kind)) : ~(i < stage)
    BY <1>1
  <2> QED BY <1>1, <2>1 DEF TraceTaken
<1> QED BY <1>1, <1>2, <1>3 DEF AgreeInv, GateInv, TraceInv, RingInv, VerdictInv

LEMMA AgreeInvHolds == ReviewSpec => [](LoadInv /\ AgreeInv)
<1>1. LoadInv /\ QuoteInv /\ AgreeInv /\ [ReviewNext]_vars => AgreeInv'
  BY StepsStayTrue, GateStaysTrue, TraceStaysTrue, RingStaysTrue, VerdictStaysTrue DEF AgreeInv
<1>2. ReviewSpec => []SearchInv
  BY ReviewsSearch, SearchInvHolds, PTL
<1> QED BY <1>1, <1>2, LoadInvHolds, InitQuotes, QuotesStayTrue, InitAgrees, PTL DEF ReviewSpec

\* Whatever a patch calls, a review of it in which no other file changed ends
\* with the verdict of the gate: the replay of the evidence against the trace
\* overrules the gate only for a change on disk, or a trace without callees.
THEOREM ReplayConfirmsTheGate == ReviewSpec => []TraceConfirmsTheGate
<1>1. AgreeInv => TraceConfirmsTheGate
  BY DEF AgreeInv, VerdictInv, TraceConfirmsTheGate
<1> QED BY <1>1, AgreeInvHolds, PTL

\* The nodes one step from the root of an answer that is not truncated are the
\* neighbours of the root.
LEMMA FirstRingIsTheRing ==
    ASSUME SearchInv, NearWhileExpanding, status = "done", ~truncated, request.maxDepth > 0
    PROVE  FirstRing = Ring
<1>1. SearchTypeOK /\ Ordered /\ NearInv /\ request.maxDepth \in Nat
  BY AllFollowed, DepthsAreNumbers DEF NearWhileExpanding
<1>2. \A i \in 1 .. Len(nodes) : nodes[i].depth \in Nat /\ nodes[i].symbol \in Within[nodes[i].depth]
  BY <1>1, DepthsAreNumbers, NodesAreWithin DEF NearInv
<1>3. Within[0] = {request.root} /\ Within[1] = {request.root} \cup Neighbours(request.root)
  <2>1. Within[0] = {request.root} /\ Within[0 + 1] = Grown(Within[0])
    BY WithinUnfolds
  <2> QED BY <2>1 DEF Grown
<1>4. 1 \in 1 .. Len(nodes) /\ nodes[1].symbol = request.root /\ nodes[1].depth = 0
  <2>1. Len(nodes) \in Nat /\ nodes \in Seq(Node) /\ nodes # <<>>
    BY <1>1 DEF Ordered, SearchTypeOK
  <2>2. Len(nodes) # 0
    BY <2>1
  <2> QED BY <1>1, <2>1, <2>2 DEF Ordered
<1>5. ASSUME NEW t \in FirstRing PROVE t \in Ring
  <2>1. PICK i \in 1 .. Len(nodes) : nodes[i].depth = 1 /\ t = nodes[i].symbol
    BY DEF FirstRing
  <2>2. t \in Within[1]
    BY <1>2, <2>1
  <2>3. i # 1 /\ 1 < i
    BY <1>4, <2>1
  <2>4. t # request.root
    BY <1>1, <1>4, <2>1, <2>3 DEF Ordered
  <2> QED BY <1>3, <2>2, <2>4 DEF Ring
<1>6. ASSUME NEW t \in Ring PROVE t \in FirstRing
  <2>1. t \in Within[1] /\ t # request.root
    BY <1>3 DEF Ring
  <2>2. PICK i \in 1 .. Len(nodes) : nodes[i].symbol = t /\ nodes[i].depth <= 1
    BY <1>1, <2>1, WithinIsFound
  <2>3. nodes[i].depth # 0
    BY <1>2, <1>3, <2>1, <2>2
  <2>4. nodes[i].depth = 1
    BY <1>2, <2>2, <2>3
  <2> QED BY <2>2, <2>4 DEF FirstRing
<1> QED BY <1>5, <1>6

\* The trace and the first ring of an answer never contradict each other: not at
\* all in the tools that take both from one load, and in the others only when
\* a file changed between the two.
THEOREM AnswersAgree == ReviewSpec => []TraceAndNeighborhoodAgree
<1>1. LoadInv /\ AgreeInv /\ SearchInv /\ NearWhileExpanding => TraceAndNeighborhoodAgree
  <2> SUFFICES ASSUME LoadInv, AgreeInv, SearchInv, NearWhileExpanding,
                      step = "answered", status = "done", decision # "skipped",
                      review.kind \in {"discovery", "read"} \/ Quiet,
                      ~truncated, request.maxDepth > 0
               PROVE  FirstRing = trace.callers \cup trace.callees
    BY DEF TraceAndNeighborhoodAgree
  <2>1. FirstRing = Ring
    BY FirstRingIsTheRing
  <2>2. stage = Len(Stages(review.kind)) /\ review.kind \in Kinds
    BY ReviewFields DEF AgreeInv, StepsInv
  <2>3. CASE review.kind \in {"discovery", "read"}
    <3>1. Stage = "discovery"
      BY <2>2, <2>3 DEF Stage, Stages
    <3> QED BY <2>1, <3>1 DEF AgreeInv, RingInv
  <2>4. CASE review.kind \notin {"discovery", "read"}
    <3>1. TraceTaken
      <4>1. CASE review.kind = "trace"
        <5>1. Stage = "trace"
          BY <2>2, <4>1 DEF Stage, Stages
        <5> QED BY <5>1 DEF TraceTaken
      <4>2. CASE review.kind \in {"graph", "neighborhood"}
        <5>1. 2 \in 1 .. Len(Stages(review.kind)) /\ 2 < stage /\ Stages(review.kind)[2] = "trace"
          BY <2>2, <4>2 DEF Stages
        <5> QED BY <5>1 DEF TraceTaken
      <4> QED BY <2>2, <2>4, <4>1, <4>2 DEF Kinds
    <3>2. trace = TraceIn(Settled)
      BY <2>4, <3>1 DEF AgreeInv, TraceInv
    <3> QED BY <2>1, <2>4, <3>2 DEF AgreeInv, RingInv
  <2> QED BY <2>3, <2>4
<1> QED BY <1>1, AgreeInvHolds, ReviewsSearch, NearWhileExpandingHolds, PTL
=============================================================================
