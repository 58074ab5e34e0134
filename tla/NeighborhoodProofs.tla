-------------------------- MODULE NeighborhoodProofs --------------------------
(***************************************************************************)
(* What the bounded expansion returns, for every graph, depth and number   *)
(* of nodes.                                                               *)
(***************************************************************************)
EXTENDS Neighborhood, TLAPS, WellFoundedInduction

SearchTypeOK ==
    /\ request \in Requests
    /\ status \in {"off", "expanding", "done", "refused"}
    /\ nodes \in Seq(Node)
    /\ edges \in Seq(Edge)
    /\ popped \in 0 .. Len(nodes)
    /\ followed \in Nat
    /\ truncated \in BOOLEAN

\* The nodes come by depth, once each, from the root, and none is more than a
\* step deeper than the one being expanded.
Ordered ==
    /\ nodes # <<>>
    /\ nodes[1] = [symbol |-> request.root, depth |-> 0]
    /\ \A i \in 1 .. Len(nodes) :
        /\ nodes[i].symbol \in DOMAIN Graph
        /\ nodes[i].depth <= request.maxDepth
        /\ nodes[i].depth <= IF popped = 0 THEN 0 ELSE nodes[popped].depth + 1
    /\ \A i, j \in 1 .. Len(nodes) : i < j =>
        nodes[i].depth <= nodes[j].depth /\ nodes[i].symbol # nodes[j].symbol

\* The edges followed so far.
Followed(i, k) ==
    /\ i \in 1 .. popped
    /\ k \in 1 .. Len(EdgesFrom(nodes[i]))
    /\ i = popped => k <= followed

Ends(i, k) == OtherEnd(EdgesFrom(nodes[i])[k], nodes[i].symbol)

\* Of the edges followed, those between two nodes are reported, once each; one
\* that leads to a resolved symbol was left out only for lack of room.
Kept ==
    /\ followed <= Len(Following)
    /\ \A i, j \in 1 .. Len(edges) : i # j => edges[i] # edges[j]
    /\ \A n \in 1 .. Len(edges) :
        /\ edges[n] \in Found \X Found
        /\ \E i, k \in Nat : Followed(i, k) /\ edges[n] = EdgesFrom(nodes[i])[k]
    /\ \A i, k \in Nat : Followed(i, k) =>
        /\ Ends(i, k) \in Found => EdgesFrom(nodes[i])[k] \in Listed(edges)
        /\ Ends(i, k) \in DOMAIN Graph \ Found => truncated
    /\ truncated => Len(nodes) >= request.maxNodes

SearchInv ==
    /\ SearchTypeOK
    /\ status \in {"expanding", "done"} => Ordered /\ Kept
    /\ status = "done" => popped = Len(nodes) /\ followed = Len(Following)
    /\ NeighborhoodIsAccepted
-----------------------------------------------------------------------------
LEMMA OtherEndOfAPair ==
    ASSUME NEW s, NEW t
    PROVE  OtherEnd(<<s, t>>, s) = t /\ OtherEnd(<<t, s>>, s) = t
BY DEF OtherEnd

\* An edge of a node has the node as one end, and the other end is another
\* symbol that is known.
LEMMA EdgesFromType ==
    ASSUME SearchTypeOK, NEW node \in Node
    PROVE  /\ EdgesFrom(node) \in Seq(Edge)
           /\ \A k \in 1 .. Len(EdgesFrom(node)) :
                /\ EdgesFrom(node)[k] \in Edge
                /\ node.symbol \in DOMAIN Graph /\ node.depth < request.maxDepth
                /\ OtherEnd(EdgesFrom(node)[k], node.symbol) \in Symbols
                /\ EdgesFrom(node)[k][1] # EdgesFrom(node)[k][2]
                /\ \/ EdgesFrom(node)[k] = <<node.symbol, OtherEnd(EdgesFrom(node)[k], node.symbol)>>
                   \/ EdgesFrom(node)[k] = <<OtherEnd(EdgesFrom(node)[k], node.symbol), node.symbol>>
<1> DEFINE s == node.symbol
<1>1. CASE TooDeep(node.depth) \/ s \notin DOMAIN Graph
  BY <1>1 DEF EdgesFrom
<1>2. CASE ~TooDeep(node.depth) /\ s \in DOMAIN Graph
  <2>1. /\ Graph[s].references \in Seq(Symbols)
        /\ Graph[s].dependencies \in Seq(Symbols)
        /\ s \in Symbols /\ node.depth \in Nat /\ request.maxDepth \in Nat
        /\ s \notin Listed(Graph[s].references) /\ s \notin Listed(Graph[s].dependencies)
    <3>1. PICK defined \in SUBSET Symbols : Graph \in [defined -> Lists]
      BY DEF SearchTypeOK, Requests, Graphs, Graph
    <3>2. Graph[s] \in Lists
      BY <1>2, <3>1
    <3>3. request.maxDepth \in Nat
      BY DEF SearchTypeOK, Requests
    <3>4. NoSelf(Graph)
      BY DEF SearchTypeOK, Requests, Graphs, Graph
    <3> QED
      BY <1>2, <3>2, <3>3, <3>4 DEF Lists, Node, NoSelf
  <2> DEFINE callers == IF request.direction = "callees" THEN <<>> ELSE CallerEdges(Graph, s)
             callees == IF request.direction = "callers" THEN <<>> ELSE CalleeEdges(Graph, s)
  <2>2. /\ callers \in Seq(Edge)
        /\ \A k \in 1 .. Len(callers) :
                callers[k] = <<callers[k][1], s>> /\ callers[k][1] \in Symbols \ {s}
    <3>1. /\ CallerEdges(Graph, s) \in Seq(Edge)
          /\ \A k \in 1 .. Len(CallerEdges(Graph, s)) :
                /\ CallerEdges(Graph, s)[k] = <<CallerEdges(Graph, s)[k][1], s>>
                /\ CallerEdges(Graph, s)[k][1] \in Symbols \ {s}
      <4> DEFINE refs == Graph[s].references
      <4>1. \A k \in 1 .. Len(refs) : <<refs[k], s>> \in Edge
        BY <2>1 DEF Edge
      <4>2. CallerEdges(Graph, s) \in Seq(Edge) /\ Len(CallerEdges(Graph, s)) = Len(refs)
        BY <2>1, <4>1 DEF CallerEdges
      <4>3. \A k \in 1 .. Len(refs) : CallerEdges(Graph, s)[k] = <<refs[k], s>>
        BY DEF CallerEdges
      <4>4. \A k \in 1 .. Len(refs) : refs[k] \in Symbols \ {s}
        BY <2>1 DEF Listed
      <4> QED BY <2>1, <4>2, <4>3, <4>4
    <3>2. <<>> \in Seq(Edge) /\ Len(<<>>) = 0
      OBVIOUS
    <3> QED BY <3>1, <3>2
  <2>3. /\ callees \in Seq(Edge)
        /\ \A k \in 1 .. Len(callees) :
                callees[k] = <<s, callees[k][2]>> /\ callees[k][2] \in Symbols \ {s}
    <3>1. /\ CalleeEdges(Graph, s) \in Seq(Edge)
          /\ \A k \in 1 .. Len(CalleeEdges(Graph, s)) :
                /\ CalleeEdges(Graph, s)[k] = <<s, CalleeEdges(Graph, s)[k][2]>>
                /\ CalleeEdges(Graph, s)[k][2] \in Symbols \ {s}
      <4> DEFINE deps == Graph[s].dependencies
      <4>1. \A k \in 1 .. Len(deps) : <<s, deps[k]>> \in Edge
        BY <2>1 DEF Edge
      <4>2. CalleeEdges(Graph, s) \in Seq(Edge) /\ Len(CalleeEdges(Graph, s)) = Len(deps)
        BY <2>1, <4>1 DEF CalleeEdges
      <4>3. \A k \in 1 .. Len(deps) : CalleeEdges(Graph, s)[k] = <<s, deps[k]>>
        BY DEF CalleeEdges
      <4>4. \A k \in 1 .. Len(deps) : deps[k] \in Symbols \ {s}
        BY <2>1 DEF Listed
      <4> QED BY <2>1, <4>2, <4>3, <4>4
    <3>2. <<>> \in Seq(Edge) /\ Len(<<>>) = 0
      OBVIOUS
    <3> QED BY <3>1, <3>2
  <2>4. EdgesFrom(node) = callers \o callees
    BY <1>2 DEF EdgesFrom, EdgesOf
  <2>5. EdgesFrom(node) \in Seq(Edge)
    BY <2>2, <2>3, <2>4
  <2>6. ASSUME NEW k \in 1 .. Len(EdgesFrom(node))
        PROVE  \E t \in Symbols \ {s} :
                    EdgesFrom(node)[k] = <<t, s>> \/ EdgesFrom(node)[k] = <<s, t>>
    <3> HIDE DEF callers, callees
    <3>1. CASE k <= Len(callers)
      BY <2>2, <2>3, <2>4, <3>1
    <3>2. CASE k > Len(callers)
      <4>1. /\ EdgesFrom(node)[k] = callees[k - Len(callers)]
            /\ k - Len(callers) \in 1 .. Len(callees)
        BY <2>2, <2>3, <2>4, <3>2
      <4> QED BY <4>1, <2>3
    <3> QED BY <3>1, <3>2, <2>2
  <2>7. node.depth < request.maxDepth
    BY <1>2, <2>1 DEF TooDeep
  <2>8. ASSUME NEW k \in 1 .. Len(EdgesFrom(node))
        PROVE  /\ EdgesFrom(node)[k] \in Edge
               /\ OtherEnd(EdgesFrom(node)[k], s) \in Symbols
               /\ EdgesFrom(node)[k][1] # EdgesFrom(node)[k][2]
               /\ \/ EdgesFrom(node)[k] = <<s, OtherEnd(EdgesFrom(node)[k], s)>>
                  \/ EdgesFrom(node)[k] = <<OtherEnd(EdgesFrom(node)[k], s), s>>
    <3>1. PICK t \in Symbols \ {s} :
                EdgesFrom(node)[k] = <<t, s>> \/ EdgesFrom(node)[k] = <<s, t>>
      BY <2>6
    <3>2. OtherEnd(EdgesFrom(node)[k], s) = t
      BY <3>1, OtherEndOfAPair
    <3>3. EdgesFrom(node)[k] \in Edge
      BY <2>5
    <3>4. CASE EdgesFrom(node)[k] = <<t, s>>
      BY <3>2, <3>3, <3>4
    <3>5. CASE EdgesFrom(node)[k] = <<s, t>>
      BY <3>2, <3>3, <3>5
    <3> QED BY <3>1, <3>4, <3>5
  <2> QED BY <1>2, <2>5, <2>7, <2>8
<1> QED BY <1>1, <1>2

\* What the checks ask for is what the search maintains.
LEMMA InvariantIsAccepted ==
    SearchTypeOK /\ Ordered /\ Kept => Accepted
<1> SUFFICES ASSUME SearchTypeOK, Ordered, Kept PROVE Accepted
  OBVIOUS
<1>1. request.maxNodes # 0
  BY DEF SearchTypeOK, Requests
<1>2. Listed(edges) \subseteq Found \X Found
  BY DEF Kept, Listed
<1>3. \A i, j \in 1 .. Len(edges) : i # j => edges[i] # edges[j]
  BY DEF Kept
<1>4. ASSUME NEW n \in 1 .. Len(edges) PROVE edges[n][1] # edges[n][2]
  <2>1. PICK i, k \in Nat : Followed(i, k) /\ edges[n] = EdgesFrom(nodes[i])[k]
    BY DEF Kept
  <2>2. nodes[i] \in Node /\ k \in 1 .. Len(EdgesFrom(nodes[i]))
    BY <2>1 DEF Followed, SearchTypeOK
  <2> QED BY <2>1, <2>2, EdgesFromType
<1> QED BY <1>1, <1>2, <1>3, <1>4 DEF Ordered, Accepted

\* The edge being followed, and where it leads.
LEMMA NextEdgeType ==
    ASSUME SearchTypeOK, Ordered, popped # 0, followed < Len(Following)
    PROVE  /\ popped \in 1 .. Len(nodes) /\ nodes[popped] \in Node
           /\ Following = EdgesFrom(nodes[popped])
           /\ followed + 1 \in 1 .. Len(EdgesFrom(nodes[popped]))
           /\ NextEdge \in Edge /\ Reached \in Symbols
           /\ nodes[popped].symbol \in Found
           /\ nodes[popped].depth < request.maxDepth
           /\ \/ NextEdge = <<nodes[popped].symbol, Reached>>
              \/ NextEdge = <<Reached, nodes[popped].symbol>>
<1>1. popped \in 1 .. Len(nodes) /\ nodes[popped] \in Node
  BY DEF SearchTypeOK
<1>2. Following = EdgesFrom(nodes[popped])
  BY DEF Following
<1>3. EdgesFrom(nodes[popped]) \in Seq(Edge)
  BY <1>1, EdgesFromType
<1>4. followed + 1 \in 1 .. Len(EdgesFrom(nodes[popped]))
  BY <1>2, <1>3 DEF SearchTypeOK
<1>5. nodes[popped].symbol \in Found
  BY <1>1 DEF Found
<1> QED
  BY <1>1, <1>2, <1>4, <1>5, EdgesFromType DEF NextEdge, Reached

\* Reporting an edge between two nodes adds just that edge.
LEMMA WithNextEdgeIsKept ==
    ASSUME SearchTypeOK, NextEdge \in Edge,
           \A i, j \in 1 .. Len(edges) : i # j => edges[i] # edges[j]
    PROVE  /\ WithNextEdge \in Seq(Edge)
           /\ \A i, j \in 1 .. Len(WithNextEdge) : i # j => WithNextEdge[i] # WithNextEdge[j]
           /\ Listed(WithNextEdge) = Listed(edges) \cup {NextEdge}
<1>1. edges \in Seq(Edge)
  BY DEF SearchTypeOK
<1>2. CASE NextEdge \in Listed(edges)
  BY <1>1, <1>2 DEF WithNextEdge, Listed
<1>3. CASE NextEdge \notin Listed(edges)
  <2>1. /\ WithNextEdge \in Seq(Edge) /\ Len(WithNextEdge) = Len(edges) + 1
        /\ \A i \in 1 .. Len(edges) : WithNextEdge[i] = edges[i]
        /\ WithNextEdge[Len(edges) + 1] = NextEdge
    BY <1>1, <1>3 DEF WithNextEdge
  <2>2. Len(edges) \in Nat
    BY <1>1
  <2>3. \A i \in 1 .. Len(edges) : edges[i] # NextEdge
    BY <1>3 DEF Listed
  <2>4. \A i, j \in 1 .. Len(WithNextEdge) : i # j => WithNextEdge[i] # WithNextEdge[j]
    BY <2>1, <2>2, <2>3
  <2>5. Listed(WithNextEdge) \subseteq Listed(edges) \cup {NextEdge}
    BY <2>1, <2>2 DEF Listed
  <2>6. Listed(edges) \subseteq Listed(WithNextEdge)
    BY <2>1, <2>2 DEF Listed
  <2>7. NextEdge \in Listed(WithNextEdge)
    BY <2>1, <2>2 DEF Listed
  <2> QED BY <2>1, <2>4, <2>5, <2>6, <2>7
<1> QED BY <1>2, <1>3

-----------------------------------------------------------------------------
LEMMA InitIsInductive ==
    SearchInit => SearchInv
<1> SUFFICES ASSUME NEW r \in Requests, IsOff(r) PROVE SearchInv
  BY DEF SearchInit
<1>1. /\ request \in Requests /\ status = "off" /\ nodes \in Seq(Node) /\ edges \in Seq(Edge)
      /\ Len(nodes) = 0 /\ popped = 0 /\ followed = 0 /\ truncated = FALSE
  BY DEF IsOff
<1>2. SearchTypeOK
  <2>1. popped \in 0 .. Len(nodes)
    BY <1>1
  <2> QED BY <1>1, <2>1 DEF SearchTypeOK
<1> QED BY <1>1, <1>2 DEF SearchInv, NeighborhoodIsAccepted

LEMMA StartKeepsInvariant ==
    ASSUME SearchInv, NEW r \in Requests, StartSearch(r)
    PROVE  SearchInv'
<1> DEFINE node == [symbol |-> r.root, depth |-> 0]
<1>1. /\ r.root \in DOMAIN r.graph /\ r.root \in Symbols
      /\ r.maxDepth \in Nat /\ node \in Node
  BY DEF Requests, Node
<1>2. /\ nodes' = <<node>> /\ edges' = <<>> /\ popped' = 0 /\ followed' = 0
      /\ request' = r /\ status' = "expanding" /\ truncated' = FALSE
  BY DEF StartSearch
<1>3. SearchTypeOK'
  <2>1. nodes' \in Seq(Node) /\ edges' \in Seq(Edge) /\ Len(nodes') = 1
    BY <1>1, <1>2
  <2>a. popped' = 0 /\ followed' = 0
    BY <1>2
  <2>b. popped' \in 0 .. Len(nodes') /\ followed' \in Nat
    BY <2>a, <2>1
  <2>2. popped' \in 0 .. Len(nodes') /\ followed' \in Nat /\ truncated' \in BOOLEAN
    BY <1>2, <2>b
  <2>3. request' \in Requests /\ status' \in {"off", "expanding", "done", "refused"}
    BY <1>2
  <2> QED BY <2>1, <2>2, <2>3 DEF SearchTypeOK
<1>4. Ordered'
  BY <1>1, <1>2 DEF Ordered, Graph
<1>5. Following' = <<>>
  BY <1>2 DEF Following
<1>6. \A i, k : ~Followed(i, k)'
  BY <1>2 DEF Followed
<1>7. Kept'
  BY <1>2, <1>5, <1>6 DEF Kept
<1> QED BY <1>2, <1>3, <1>4, <1>7 DEF SearchInv, NeighborhoodIsAccepted

LEMMA FinishKeepsInvariant ==
    ASSUME SearchInv, FinishSearch
    PROVE  SearchInv'
<1>1. /\ SearchTypeOK /\ Ordered /\ Kept /\ status = "expanding"
      /\ popped = Len(nodes) /\ followed = Len(Following)
  BY DEF SearchInv, FinishSearch, Popping
<1>2. status' = "done"
  BY <1>1, InvariantIsAccepted DEF FinishSearch
<1>3. UNCHANGED <<request, nodes, edges, popped, followed, truncated>>
  BY DEF FinishSearch
<1>4. SearchTypeOK' /\ Ordered' /\ Kept' /\ popped' = Len(nodes)' /\ followed' = Len(Following)'
  BY <1>1, <1>2, <1>3 DEF SearchTypeOK, Ordered, Kept, Graph, Found, Listed, Following,
     Followed, Ends, EdgesFrom, TooDeep
<1> QED BY <1>2, <1>4 DEF SearchInv, NeighborhoodIsAccepted

LEMMA PopKeepsInvariant ==
    ASSUME SearchInv, PopNode
    PROVE  SearchInv'
<1>1. /\ SearchTypeOK /\ Ordered /\ Kept /\ status = "expanding"
      /\ followed = Len(Following) /\ popped < Len(nodes)
      /\ popped' = popped + 1 /\ followed' = 0
      /\ UNCHANGED <<request, status, nodes, edges, truncated>>
  BY DEF SearchInv, PopNode, Popping
<1>2. /\ popped \in Nat /\ Len(nodes) \in Nat /\ nodes \in Seq(Node)
      /\ popped' \in 1 .. Len(nodes) /\ popped' # 0
  BY <1>1 DEF SearchTypeOK
<1>3. SearchTypeOK'
  BY <1>1, <1>2 DEF SearchTypeOK
<1>a. PICK n \in 1 .. Len(nodes) : n = popped'
  BY <1>2
<1>4. Ordered'
  <2>1. \A i \in 1 .. Len(nodes) : nodes[i].depth <= nodes[n].depth + 1
    <3> TAKE i \in 1 .. Len(nodes)
    <3>1. /\ nodes[i].depth \in Nat /\ nodes[n].depth \in Nat
          /\ popped # 0 => popped \in 1 .. Len(nodes) /\ nodes[popped].depth \in Nat
      <4>1. \A j \in 1 .. Len(nodes) : nodes[j] \in Node
        BY <1>2
      <4>2. \A j \in 1 .. Len(nodes) : nodes[j].depth \in Nat
        BY <4>1 DEF Node
      <4>3. popped # 0 => popped \in 1 .. Len(nodes)
        BY <1>1, <1>2
      <4> QED BY <4>2, <4>3
    <3>2. CASE popped = 0
      BY <1>1, <3>1, <3>2 DEF Ordered
    <3>3. CASE popped # 0
      <4>1. nodes[popped].depth <= nodes[n].depth
        BY <1>1, <1>2, <1>a, <3>1, <3>3 DEF Ordered
      <4>2. nodes[i].depth <= nodes[popped].depth + 1
        BY <1>1, <3>3 DEF Ordered
      <4> QED BY <3>1, <3>3, <4>1, <4>2
    <3> QED BY <3>2, <3>3
  <2> QED BY <1>1, <1>2, <1>a, <2>1 DEF Ordered, Graph
<1>5. \A i, k \in Nat : Followed(i, k)' <=> Followed(i, k)
  <2> SUFFICES ASSUME NEW i \in Nat, NEW k \in Nat PROVE Followed(i, k)' <=> Followed(i, k)
    OBVIOUS
  <2>1. EdgesFrom(nodes[i])' = EdgesFrom(nodes[i])
    BY <1>1 DEF EdgesFrom, TooDeep, Graph
  <2>2. CASE i = popped
    BY <1>1, <1>2, <2>1, <2>2 DEF Followed, Following
  <2>3. CASE i = popped + 1
    BY <1>1, <1>2, <2>1, <2>3 DEF Followed
  <2>4. CASE i # popped /\ i # popped + 1
    BY <1>1, <1>2, <2>1, <2>4 DEF Followed
  <2> QED BY <2>2, <2>3, <2>4
<1>6. Kept'
  <2>1. (followed <= Len(Following))'
    <3>1. Following' = EdgesFrom(nodes[n])'
      BY <1>2, <1>a DEF Following
    <3>2. nodes[n] \in Node
      BY <1>2
    <3>3. EdgesFrom(nodes[n])' = EdgesFrom(nodes[n])
      BY <1>1 DEF EdgesFrom, TooDeep, Graph
    <3>4. EdgesFrom(nodes[n]) \in Seq(Edge)
      BY <1>1, <3>2, EdgesFromType
    <3> QED BY <1>1, <3>1, <3>3, <3>4
  <2>2. \A i \in Nat : EdgesFrom(nodes[i])' = EdgesFrom(nodes[i])
    BY <1>1 DEF EdgesFrom, TooDeep, Graph
  <2>3. \A i, k \in Nat : Ends(i, k)' = Ends(i, k)
    BY <1>1, <2>2 DEF Ends, OtherEnd
  <2>4. Found' = Found /\ Graph' = Graph /\ Listed(edges)' = Listed(edges)
    BY <1>1 DEF Found, Graph, Listed
  <2>5. \A i, j \in 1 .. Len(edges') : i # j => edges'[i] # edges'[j]
    BY <1>1 DEF Kept
  <2>6. \A m \in 1 .. Len(edges) :
            /\ edges[m] \in Found' \X Found'
            /\ \E i, k \in Nat : Followed(i, k)' /\ edges[m] = EdgesFrom(nodes[i])'[k]
    <3> TAKE m \in 1 .. Len(edges)
    <3>1. PICK i \in Nat, k \in Nat : Followed(i, k) /\ edges[m] = EdgesFrom(nodes[i])[k]
      BY <1>1 DEF Kept
    <3>2. Followed(i, k)' /\ edges[m] = EdgesFrom(nodes[i])'[k]
      BY <1>5, <2>2, <3>1
    <3>3. edges[m] \in Found' \X Found'
      BY <1>1, <2>4 DEF Kept
    <3> QED BY <3>2, <3>3
  <2>7. \A i, k \in Nat : Followed(i, k)' =>
            /\ Ends(i, k)' \in Found' => EdgesFrom(nodes[i])'[k] \in Listed(edges)'
            /\ Ends(i, k)' \in DOMAIN Graph' \ Found' => truncated'
    <3> TAKE i, k \in Nat
    <3>1. Followed(i, k) =>
              /\ Ends(i, k) \in Found => EdgesFrom(nodes[i])[k] \in Listed(edges)
              /\ Ends(i, k) \in DOMAIN Graph \ Found => truncated
      BY <1>1 DEF Kept
    <3> QED BY <1>1, <1>5, <2>2, <2>3, <2>4, <3>1
  <2>8. truncated' => Len(nodes') >= request'.maxNodes
    BY <1>1 DEF Kept
  <2>9. edges' = edges
    BY <1>1
  <2> QED BY <2>1, <2>5, <2>6, <2>7, <2>8, <2>9 DEF Kept
<1> QED BY <1>1, <1>3, <1>4, <1>6 DEF SearchInv, NeighborhoodIsAccepted

\* What following an edge leaves of the nodes and of the edges followed before.
LEMMA FollowFacts ==
    ASSUME SearchTypeOK, Ordered, FollowEdge
    PROVE  /\ popped # 0
           /\ popped \in 1 .. Len(nodes)
           /\ \/ SkipUnresolved \/ LeaveOut \/ Include \/ ReachAgain
           /\ Found \subseteq DOMAIN Graph /\ Graph' = Graph
           /\ nodes' \in Seq(Node)
           /\ Len(nodes') \in Nat /\ Len(nodes') >= Len(nodes)
           /\ \A i \in 1 .. Len(nodes) : nodes'[i] = nodes[i]
           /\ \/ nodes' = nodes
              \/ /\ Include /\ Len(nodes') = Len(nodes) + 1
                 /\ nodes'[Len(nodes) + 1] = [symbol |-> Reached, depth |-> nodes[popped].depth + 1]
           /\ Found' = IF Include THEN Found \cup {Reached} ELSE Found
           /\ \A i \in 1 .. popped :
                nodes'[i] = nodes[i] /\ EdgesFrom(nodes[i])' = EdgesFrom(nodes[i])
           /\ \A i \in 1 .. popped : \A k : Ends(i, k)' = Ends(i, k)
           /\ \A i, k \in Nat :
                Followed(i, k)' <=> (Followed(i, k) \/ (i = popped /\ k = followed + 1))
           /\ NextEdge = EdgesFrom(nodes[popped])[followed + 1]
           /\ Reached = Ends(popped, followed + 1)
<1>1. /\ SearchTypeOK /\ Ordered /\ status = "expanding"
      /\ followed < Len(Following) /\ followed' = followed + 1
      /\ UNCHANGED <<request, status, popped>>
  BY DEF FollowEdge
<1>2. popped # 0
  <2> SUFFICES ASSUME popped = 0 PROVE FALSE
    OBVIOUS
  <2>1. Len(Following) = 0 /\ followed \in Nat
    BY <1>1 DEF Following, SearchTypeOK
  <2> QED BY <1>1, <2>1
<1>3. /\ popped \in 1 .. Len(nodes) /\ nodes[popped] \in Node
      /\ Following = EdgesFrom(nodes[popped])
      /\ followed + 1 \in 1 .. Len(EdgesFrom(nodes[popped]))
      /\ NextEdge \in Edge /\ Reached \in Symbols
      /\ nodes[popped].symbol \in Found
      /\ nodes[popped].depth < request.maxDepth
      /\ \/ NextEdge = <<nodes[popped].symbol, Reached>>
         \/ NextEdge = <<Reached, nodes[popped].symbol>>
  BY <1>1, <1>2, NextEdgeType
<1>4. /\ nodes \in Seq(Node) /\ Len(nodes) \in Nat /\ edges \in Seq(Edge)
      /\ followed \in Nat /\ request.maxNodes \in Nat /\ request.maxDepth \in Nat
  BY <1>1 DEF SearchTypeOK, Requests
<1>5. \/ SkipUnresolved \/ LeaveOut \/ Include \/ ReachAgain
  BY DEF FollowEdge
<1>6. Found \subseteq DOMAIN Graph /\ Graph' = Graph
  BY <1>1 DEF Found, Ordered, Graph
<1>7. /\ nodes' \in Seq(Node)
      /\ \A i \in 1 .. Len(nodes) : nodes'[i] = nodes[i]
      /\ \/ nodes' = nodes
         \/ /\ Include /\ Len(nodes') = Len(nodes) + 1
            /\ nodes'[Len(nodes) + 1] = [symbol |-> Reached, depth |-> nodes[popped].depth + 1]
  <2>1. CASE Include
    <3> DEFINE node == [symbol |-> Reached, depth |-> nodes[popped].depth + 1]
    <3>1. node \in Node
      BY <1>3 DEF Node
    <3>2. nodes' = Append(nodes, node)
      BY <2>1 DEF Include
    <3> HIDE DEF node
    <3>3. /\ nodes' \in Seq(Node) /\ Len(nodes') = Len(nodes) + 1
          /\ \A i \in 1 .. Len(nodes) : nodes'[i] = nodes[i]
          /\ nodes'[Len(nodes) + 1] = node
      BY <1>4, <3>1, <3>2
    <3> QED BY <2>1, <3>3 DEF node
  <2>2. CASE ~Include
    <3>1. nodes' = nodes
      BY <1>5, <2>2 DEF SkipUnresolved, LeaveOut, ReachAgain
    <3> QED BY <1>4, <3>1
  <2> QED BY <2>1, <2>2
<1>8. Len(nodes') \in Nat /\ Len(nodes') >= Len(nodes)
  BY <1>4, <1>7
<1>9. Found' = IF Include THEN Found \cup {Reached} ELSE Found
  <2>1. CASE Include
    <3>1. /\ Len(nodes') = Len(nodes) + 1
          /\ nodes'[Len(nodes) + 1].symbol = Reached
      BY <1>4, <2>1 DEF Include
    <3>2. \A i \in 1 .. Len(nodes') : i \in 1 .. Len(nodes) \/ i = Len(nodes) + 1
      BY <1>4, <3>1
    <3>3. Found \cup {Reached} \subseteq Found'
      BY <1>4, <1>7, <3>1 DEF Found
    <3>4. Found' \subseteq Found \cup {Reached}
      BY <1>4, <1>7, <3>1, <3>2 DEF Found
    <3> QED BY <2>1, <3>3, <3>4
  <2>2. CASE ~Include
    BY <1>5, <2>2 DEF SkipUnresolved, LeaveOut, ReachAgain, Found
  <2> QED BY <2>1, <2>2
<1>14. ASSUME NEW i \in 1 .. popped
       PROVE  nodes'[i] = nodes[i] /\ EdgesFrom(nodes[i])' = EdgesFrom(nodes[i])
  <2>1. i \in 1 .. Len(nodes)
    BY <1>3, <1>4
  <2>2. nodes'[i] = nodes[i]
    BY <1>7, <2>1
  <2> QED BY <1>1, <2>2 DEF EdgesFrom, TooDeep, Graph
<1>15. ASSUME NEW i \in 1 .. popped, NEW k
       PROVE  Ends(i, k)' = Ends(i, k)
  BY <1>14 DEF Ends, OtherEnd
<1>16. ASSUME NEW i \in Nat, NEW k \in Nat
       PROVE  Followed(i, k)' <=> (Followed(i, k) \/ (i = popped /\ k = followed + 1))
  <2>1. CASE i \in 1 .. popped
    <3>1. CASE i = popped
      BY <1>1, <1>3, <1>4, <1>14, <2>1, <3>1 DEF Followed
    <3>2. CASE i # popped
      BY <1>1, <1>14, <2>1, <3>2 DEF Followed
    <3> QED BY <3>1, <3>2
  <2>2. CASE i \notin 1 .. popped
    BY <1>1, <1>3, <2>2 DEF Followed
  <2> QED BY <2>1, <2>2
<1>17. /\ NextEdge = EdgesFrom(nodes[popped])[followed + 1]
       /\ Reached = Ends(popped, followed + 1)
  BY <1>3 DEF NextEdge, Reached, Ends
<1> QED BY <1>2, <1>3, <1>5, <1>6, <1>7, <1>8, <1>9, <1>14, <1>15, <1>16, <1>17

LEMMA FollowKeepsInvariant ==
    ASSUME SearchInv, FollowEdge
    PROVE  SearchInv'
<1>1. /\ SearchTypeOK /\ Ordered /\ Kept /\ status = "expanding"
      /\ followed < Len(Following) /\ followed' = followed + 1
      /\ UNCHANGED <<request, status, popped>>
  BY DEF SearchInv, FollowEdge
<1>2. popped # 0
  BY <1>1, FollowFacts
<1>3. /\ popped \in 1 .. Len(nodes) /\ nodes[popped] \in Node
      /\ Following = EdgesFrom(nodes[popped])
      /\ followed + 1 \in 1 .. Len(EdgesFrom(nodes[popped]))
      /\ NextEdge \in Edge /\ Reached \in Symbols
      /\ nodes[popped].symbol \in Found
      /\ nodes[popped].depth < request.maxDepth
      /\ \/ NextEdge = <<nodes[popped].symbol, Reached>>
         \/ NextEdge = <<Reached, nodes[popped].symbol>>
  BY <1>1, <1>2, NextEdgeType
<1>4. /\ nodes \in Seq(Node) /\ Len(nodes) \in Nat /\ edges \in Seq(Edge)
      /\ followed \in Nat /\ request.maxNodes \in Nat /\ request.maxDepth \in Nat
  BY <1>1 DEF SearchTypeOK, Requests
<1>5. \/ SkipUnresolved \/ LeaveOut \/ Include \/ ReachAgain
  BY DEF FollowEdge
<1>6. Found \subseteq DOMAIN Graph /\ Graph' = Graph
  BY <1>1 DEF Found, Ordered, Graph
\* The new node, if there is one.
<1>7. /\ nodes' \in Seq(Node)
      /\ \A i \in 1 .. Len(nodes) : nodes'[i] = nodes[i]
      /\ \/ nodes' = nodes
         \/ /\ Include /\ Len(nodes') = Len(nodes) + 1
            /\ nodes'[Len(nodes) + 1] = [symbol |-> Reached, depth |-> nodes[popped].depth + 1]
  BY <1>1, FollowFacts
<1>8. Len(nodes') \in Nat /\ Len(nodes') >= Len(nodes)
  BY <1>4, <1>7
<1>9. Found' = IF Include THEN Found \cup {Reached} ELSE Found
  BY <1>1, FollowFacts
\* The new edge, if there is one.
<1>10. /\ edges' \in Seq(Edge)
       /\ \A i, j \in 1 .. Len(edges') : i # j => edges'[i] # edges'[j]
       /\ Listed(edges)' = IF Include \/ ReachAgain THEN Listed(edges) \cup {NextEdge}
                           ELSE Listed(edges)
  <2>1. \A i, j \in 1 .. Len(edges) : i # j => edges[i] # edges[j]
    BY <1>1 DEF Kept
  <2>2. CASE Include \/ ReachAgain
    <3>1. edges' = WithNextEdge
      BY <2>2 DEF Include, ReachAgain
    <3>2. Listed(edges)' = Listed(WithNextEdge)
      BY <3>1 DEF Listed
    <3> QED BY <1>1, <1>3, <2>1, <2>2, <3>1, <3>2, WithNextEdgeIsKept
  <2>3. CASE ~(Include \/ ReachAgain)
    <3>1. edges' = edges
      BY <1>5, <2>3 DEF SkipUnresolved, LeaveOut
    <3> QED BY <1>4, <2>1, <2>3, <3>1 DEF Listed
  <2> QED BY <2>2, <2>3
<1>11. truncated' \in BOOLEAN /\ (truncated => truncated')
  BY <1>1, <1>5 DEF SkipUnresolved, LeaveOut, Include, ReachAgain, SearchTypeOK
<1>12. SearchTypeOK'
  <2>1. request' \in Requests /\ status' \in {"off", "expanding", "done", "refused"}
    BY <1>1 DEF SearchTypeOK
  <2>2. popped' \in 0 .. Len(nodes') /\ followed' \in Nat
    BY <1>1, <1>3, <1>4, <1>8
  <2> QED BY <1>7, <1>10, <1>11, <2>1, <2>2 DEF SearchTypeOK
<1>13. Ordered'
  <2>1. nodes' # <<>> /\ nodes'[1] = [symbol |-> request.root, depth |-> 0]
    <3>1. 1 \in 1 .. Len(nodes)
      BY <1>3, <1>4
    <3>2. nodes'[1] = nodes[1]
      BY <1>7, <3>1
    <3>3. Len(nodes') # 0
      BY <1>4, <1>8, <3>1
    <3>4. nodes' # <<>>
      BY <1>7, <3>3
    <3> QED BY <1>1, <3>2, <3>4 DEF Ordered
  <2>2. ASSUME NEW i \in 1 .. Len(nodes)
        PROVE  /\ nodes'[i] = nodes[i] /\ nodes[i].depth \in Nat
               /\ nodes[i].symbol \in DOMAIN Graph /\ nodes[i].symbol \in Found
               /\ nodes[i].depth <= request.maxDepth
               /\ nodes[i].depth <= nodes[popped].depth + 1
    <3>1. nodes[i] \in Node
      BY <1>4
    <3>2. nodes[i].depth \in Nat
      BY <3>1 DEF Node
    <3> QED BY <1>1, <1>2, <1>7, <3>2 DEF Ordered, Found
  <2>3. /\ \A i, j \in 1 .. Len(nodes) : i < j =>
            nodes[i].depth <= nodes[j].depth /\ nodes[i].symbol # nodes[j].symbol
    BY <1>1 DEF Ordered
  <2>4. CASE nodes' = nodes
    <3>1. nodes'[popped].depth = nodes[popped].depth
      BY <2>4
    <3> QED BY <1>1, <1>2, <1>6, <2>1, <2>2, <2>3, <2>4 DEF Ordered
  <2>5. CASE /\ Include /\ Len(nodes') = Len(nodes) + 1
             /\ nodes'[Len(nodes) + 1] = [symbol |-> Reached, depth |-> nodes[popped].depth + 1]
    <3> DEFINE last == Len(nodes) + 1
    <3>1. /\ nodes'[last].symbol = Reached /\ nodes'[last].depth = nodes[popped].depth + 1
          /\ Reached \in DOMAIN Graph /\ Reached \notin Found
      BY <2>5 DEF Include
    <3>2. nodes[popped].depth \in Nat
      BY <1>3, <2>2
    <3>3. nodes'[last].depth \in Nat /\ nodes'[last].depth <= request.maxDepth
      BY <1>3, <1>4, <3>1, <3>2
    <3>4. \A i \in 1 .. Len(nodes') : i \in 1 .. Len(nodes) \/ i = last
      BY <1>4, <2>5
    <3>5. ASSUME NEW i \in 1 .. Len(nodes')
          PROVE  /\ nodes'[i].symbol \in DOMAIN Graph
                 /\ nodes'[i].depth <= request.maxDepth
                 /\ nodes'[i].depth <= nodes'[popped].depth + 1
      <4>1. nodes'[popped] = nodes[popped]
        BY <1>3, <2>2
      <4>2. CASE i \in 1 .. Len(nodes)
        BY <2>2, <4>1, <4>2
      <4>3. CASE i = last
        BY <3>1, <3>2, <3>3, <4>1, <4>3
      <4> QED BY <3>4, <4>2, <4>3
    <3>6. ASSUME NEW i \in 1 .. Len(nodes'), NEW j \in 1 .. Len(nodes'), i < j
          PROVE  nodes'[i].depth <= nodes'[j].depth /\ nodes'[i].symbol # nodes'[j].symbol
      <4>1. i \in 1 .. Len(nodes)
        BY <1>4, <2>5, <3>6
      <4>2. CASE j \in 1 .. Len(nodes)
        BY <2>2, <2>3, <3>6, <4>1, <4>2
      <4>3. CASE j = last
        BY <2>2, <3>1, <4>1, <4>3
      <4> QED BY <3>4, <4>2, <4>3
    <3> QED BY <1>1, <1>2, <1>6, <2>1, <3>5, <3>6 DEF Ordered
  <2> QED BY <1>7, <2>4, <2>5
\* The edge just followed joins those followed before.
<1>14. ASSUME NEW i \in 1 .. popped
       PROVE  nodes'[i] = nodes[i] /\ EdgesFrom(nodes[i])' = EdgesFrom(nodes[i])
  BY <1>1, FollowFacts
<1>15. ASSUME NEW i \in 1 .. popped, NEW k
       PROVE  Ends(i, k)' = Ends(i, k)
  BY <1>1, FollowFacts
<1>16. ASSUME NEW i \in Nat, NEW k \in Nat
       PROVE  Followed(i, k)' <=> (Followed(i, k) \/ (i = popped /\ k = followed + 1))
  BY <1>1, FollowFacts
<1>17. /\ NextEdge = EdgesFrom(nodes[popped])[followed + 1]
       /\ Reached = Ends(popped, followed + 1)
  BY <1>1, FollowFacts
<1>18. (followed <= Len(Following))'
  <2>1. PICK n \in 1 .. popped : n = popped
    BY <1>3
  <2>2. Following' = EdgesFrom(nodes[n])'
    BY <1>1, <1>2, <2>1 DEF Following
  <2>3. Following' = Following
    BY <1>3, <1>14, <2>1, <2>2
  <2> QED BY <1>1, <1>3, <1>4, <2>3
<1>19. ASSUME NEW e \in Listed(edges)'
       PROVE  /\ e \in Found' \X Found'
              /\ \E i, k \in Nat : Followed(i, k)' /\ e = EdgesFrom(nodes[i])'[k]
  <2>1. CASE e \in Listed(edges)
    <3>a. PICK n \in 1 .. Len(edges) : e = edges[n]
      BY <2>1 DEF Listed
    <3>b. /\ edges[n] \in Found \X Found
          /\ \E i, k \in Nat : Followed(i, k) /\ edges[n] = EdgesFrom(nodes[i])[k]
      BY <1>1 DEF Kept
    <3>1. /\ e \in Found \X Found
          /\ \E i, k \in Nat : Followed(i, k) /\ e = EdgesFrom(nodes[i])[k]
      BY <3>a, <3>b
    <3>2. PICK i \in Nat, k \in Nat : Followed(i, k) /\ e = EdgesFrom(nodes[i])[k]
      BY <3>1
    <3>3. i \in 1 .. popped
      BY <3>2 DEF Followed
    <3>4. Followed(i, k)' /\ e = EdgesFrom(nodes[i])'[k]
      BY <1>14, <1>16, <3>2, <3>3
    <3> QED BY <1>9, <3>1, <3>4
  <2>2. CASE e \notin Listed(edges)
    <3>1. e = NextEdge /\ (Include \/ ReachAgain)
      BY <1>10, <2>2
    <3>2. Reached \in Found' /\ nodes[popped].symbol \in Found'
      BY <1>3, <1>9, <3>1 DEF ReachAgain
    <3>3. PICK n \in 1 .. popped : n = popped
      BY <1>3
    <3>4. PICK m \in Nat : m = followed + 1
      BY <1>4
    <3>5. Followed(n, m)' /\ e = EdgesFrom(nodes[n])'[m]
      BY <1>14, <1>16, <1>17, <3>1, <3>3, <3>4
    <3>6. e \in Found' \X Found'
      BY <1>3, <3>1, <3>2
    <3>7. n \in Nat
      OBVIOUS
    <3> QED BY <3>5, <3>6, <3>7
  <2> QED BY <2>1, <2>2
<1>20. ASSUME NEW i \in Nat, NEW k \in Nat, Followed(i, k)'
       PROVE  /\ Ends(i, k)' \in Found' => EdgesFrom(nodes[i])'[k] \in Listed(edges)'
              /\ Ends(i, k)' \in DOMAIN Graph \ Found' => truncated'
  <2>1. CASE Followed(i, k)
    <3>1. i \in 1 .. popped
      BY <2>1 DEF Followed
    <3>2. Ends(i, k)' = Ends(i, k) /\ EdgesFrom(nodes[i])' = EdgesFrom(nodes[i])
      BY <1>14, <1>15, <3>1
    <3>3. /\ Ends(i, k) \in Found => EdgesFrom(nodes[i])[k] \in Listed(edges)
          /\ Ends(i, k) \in DOMAIN Graph \ Found => truncated
      BY <1>1, <2>1 DEF Kept
    <3>4. Ends(i, k) \in Found' => Ends(i, k) \in Found
      <4>1. CASE Include
        <5>1. Reached \in DOMAIN Graph \ Found /\ Len(nodes) < request.maxNodes
          BY <4>1 DEF Include
        <5>2. ~truncated
          BY <1>1, <1>4, <5>1 DEF Kept
        <5> QED BY <1>9, <3>3, <5>1, <5>2
      <4>2. CASE ~Include
        BY <1>9, <4>2
      <4> QED BY <4>1, <4>2
    <3>5. Listed(edges) \subseteq Listed(edges)'
      BY <1>10
    <3>6. Ends(i, k) \in DOMAIN Graph \ Found' => truncated'
      BY <1>9, <1>11, <3>3
    <3> QED BY <3>2, <3>3, <3>4, <3>5, <3>6
  <2>2. CASE ~Followed(i, k)
    <3>1. i = popped /\ k = followed + 1
      BY <1>16, <1>20, <2>2
    <3>2. i \in 1 .. popped
      BY <1>3, <3>1
    <3>3. Ends(i, k)' = Reached /\ EdgesFrom(nodes[i])'[k] = NextEdge
      BY <1>14, <1>15, <1>17, <3>1, <3>2
    <3>4. CASE SkipUnresolved
      BY <1>6, <1>9, <3>3, <3>4 DEF SkipUnresolved, Include
    <3>5. CASE LeaveOut
      <4>1. Len(nodes) >= request.maxNodes
        BY <3>5 DEF LeaveOut
      <4>2. ~Include
        BY <1>4, <4>1 DEF Include
      <4>3. Reached \notin Found' /\ truncated'
        BY <1>9, <3>5, <4>2 DEF LeaveOut
      <4> QED BY <3>3, <4>3
    <3>6. CASE Include \/ ReachAgain
      <4>1. NextEdge \in Listed(edges)'
        BY <1>10, <3>6
      <4>2. Reached \in Found'
        BY <1>9, <3>6 DEF ReachAgain
      <4> QED BY <3>3, <4>1, <4>2
    <3> QED BY <1>5, <3>4, <3>5, <3>6
  <2> QED BY <2>1, <2>2
<1>21. truncated' => Len(nodes') >= request.maxNodes
  <2>1. truncated => Len(nodes) >= request.maxNodes
    BY <1>1 DEF Kept
  <2>2. CASE LeaveOut
    BY <1>4, <1>8, <2>2 DEF LeaveOut
  <2>3. CASE ~LeaveOut
    <3>1. truncated' = truncated
      BY <1>5, <2>3 DEF SkipUnresolved, Include, ReachAgain
    <3> QED BY <1>4, <1>8, <2>1, <3>1
  <2> QED BY <2>2, <2>3
<1>22. Kept'
  <2>1. request' = request /\ Graph' = Graph
    BY <1>1, <1>6
  <2>2. \A n \in 1 .. Len(edges') : edges'[n] \in Listed(edges)'
    BY DEF Listed
  <2>3. \A n \in 1 .. Len(edges') :
            /\ edges'[n] \in Found' \X Found'
            /\ \E i, k \in Nat : Followed(i, k)' /\ edges'[n] = EdgesFrom(nodes[i])'[k]
    BY <1>19, <2>2
  <2> QED BY <1>10, <1>18, <1>20, <1>21, <2>1, <2>3 DEF Kept
<1> QED BY <1>1, <1>12, <1>13, <1>22 DEF SearchInv, NeighborhoodIsAccepted

THEOREM SearchInvHolds == SearchSpec => []SearchInv
<1>1. SearchInv /\ [SearchNext]_searchVars => SearchInv'
  <2> SUFFICES ASSUME SearchInv, [SearchNext]_searchVars PROVE SearchInv'
    OBVIOUS
  <2>1. CASE \E r \in Requests : StartSearch(r)
    BY <2>1, StartKeepsInvariant
  <2>2. CASE PopNode
    BY <2>2, PopKeepsInvariant
  <2>3. CASE FollowEdge
    BY <2>3, FollowKeepsInvariant
  <2>4. CASE FinishSearch
    BY <2>4, FinishKeepsInvariant
  <2>5. CASE UNCHANGED searchVars
    BY <2>5 DEF searchVars, SearchInv, NeighborhoodIsAccepted, SearchTypeOK, Ordered, Kept,
       Graph, Found, Listed, Following, Followed, Ends, EdgesFrom, TooDeep
  <2> QED BY <2>1, <2>2, <2>3, <2>4, <2>5 DEF SearchNext, Expand
<1> QED BY <1>1, InitIsInductive, PTL DEF SearchSpec

\* The checks of the result never refuse what the search found, for every graph,
\* depth and number of nodes: they cannot fail, and are no way to lose an answer.
THEOREM NeighborhoodAccepted == SearchSpec => []NeighborhoodIsAccepted
<1>1. SearchInv => NeighborhoodIsAccepted
  BY DEF SearchInv
<1> QED BY <1>1, SearchInvHolds, PTL

\* When the search is done, every edge of every node was followed.
LEMMA AllFollowed ==
    ASSUME SearchInv, status = "done"
    PROVE  /\ SearchTypeOK /\ Ordered /\ Kept
           /\ \A i \in 1 .. Len(nodes) :
                /\ nodes[i] \in Node /\ nodes[i].symbol \in Found
                /\ \A k \in 1 .. Len(EdgesFrom(nodes[i])) :
                    i \in Nat /\ k \in Nat /\ Followed(i, k)
<1>1. /\ SearchTypeOK /\ Ordered /\ Kept
      /\ popped = Len(nodes) /\ followed = Len(Following)
  BY DEF SearchInv
<1>2. nodes \in Seq(Node) /\ Len(nodes) \in Nat
  BY <1>1 DEF SearchTypeOK
<1>3. ASSUME NEW i \in 1 .. Len(nodes)
      PROVE  nodes[i] \in Node /\ nodes[i].symbol \in Found
  BY <1>2 DEF Found
<1>4. ASSUME NEW i \in 1 .. Len(nodes), NEW k \in 1 .. Len(EdgesFrom(nodes[i]))
      PROVE  i \in Nat /\ k \in Nat /\ Followed(i, k)
  <2>1. EdgesFrom(nodes[i]) \in Seq(Edge)
    BY <1>1, <1>3, EdgesFromType
  <2>2. i = popped => k <= followed
    BY <1>1, <1>2, <2>1 DEF Following
  <2> QED BY <1>1, <2>2 DEF Followed
<1> QED BY <1>1, <1>3, <1>4

\* For every graph, depth and number of nodes, the edges of an answer are those
\* the nodes nearer than max_depth have with other nodes, truncated or not.
THEOREM NeighborhoodEdges == SearchSpec => []EdgesAreOfTheNodes
<1>1. SearchInv => EdgesAreOfTheNodes
  <2> SUFFICES ASSUME SearchInv, status = "done"
               PROVE  Listed(edges) = InnerEdges \cap (Found \X Found)
    BY DEF EdgesAreOfTheNodes
  <2>1. /\ SearchTypeOK /\ Ordered /\ Kept
        /\ \A i \in 1 .. Len(nodes) :
                /\ nodes[i] \in Node /\ nodes[i].symbol \in Found
                /\ \A k \in 1 .. Len(EdgesFrom(nodes[i])) :
                    i \in Nat /\ k \in Nat /\ Followed(i, k)
    BY AllFollowed
  <2>2. ASSUME NEW e \in Listed(edges)
        PROVE  e \in InnerEdges \cap (Found \X Found)
    <3>1. PICK n \in 1 .. Len(edges) : e = edges[n]
      BY DEF Listed
    <3>2. /\ edges[n] \in Found \X Found
          /\ \E i, k \in Nat : Followed(i, k) /\ edges[n] = EdgesFrom(nodes[i])[k]
      BY <2>1 DEF Kept
    <3>3. PICK i \in Nat, k \in Nat : Followed(i, k) /\ edges[n] = EdgesFrom(nodes[i])[k]
      BY <3>2
    <3>4. i \in 1 .. Len(nodes)
      BY <2>1, <3>3 DEF Followed, SearchTypeOK
    <3>5. e \in Listed(EdgesFrom(nodes[i]))
      BY <3>1, <3>3 DEF Followed, Listed
    <3> QED BY <3>1, <3>2, <3>4, <3>5 DEF InnerEdges
  <2>3. ASSUME NEW e \in InnerEdges, e \in Found \X Found
        PROVE  e \in Listed(edges)
    <3>1. PICK i \in 1 .. Len(nodes) : e \in Listed(EdgesFrom(nodes[i]))
      BY DEF InnerEdges
    <3>2. PICK k \in 1 .. Len(EdgesFrom(nodes[i])) : e = EdgesFrom(nodes[i])[k]
      BY <3>1 DEF Listed
    <3>3. i \in Nat /\ k \in Nat /\ Followed(i, k)
      BY <2>1
    <3>4. e[1] \in Found /\ e[2] \in Found
      BY <2>3
    <3>5. Ends(i, k) \in Found
      BY <3>2, <3>4 DEF Ends, OtherEnd
    <3> QED BY <2>1, <3>2, <3>3, <3>5 DEF Kept
  <2> QED BY <2>2, <2>3
<1> QED BY <1>1, SearchInvHolds, PTL

\* An answer that does not say that it is truncated is closed: every resolved
\* neighbour of a node nearer than max_depth is a node too.
UntruncatedIsClosed ==
    status = "done" /\ ~truncated =>
        \A i \in 1 .. Len(nodes) :
            nodes[i].depth < request.maxDepth => Neighbours(nodes[i].symbol) \subseteq Found

THEOREM NeighborhoodIsClosed == SearchSpec => []UntruncatedIsClosed
<1>1. SearchInv => UntruncatedIsClosed
  <2> SUFFICES ASSUME SearchInv, status = "done", ~truncated,
                      NEW i \in 1 .. Len(nodes), nodes[i].depth < request.maxDepth,
                      NEW t \in Neighbours(nodes[i].symbol)
               PROVE  t \in Found
    BY DEF UntruncatedIsClosed
  <2>1. /\ SearchTypeOK /\ Ordered /\ Kept
        /\ \A j \in 1 .. Len(nodes) :
                /\ nodes[j] \in Node /\ nodes[j].symbol \in Found
                /\ \A k \in 1 .. Len(EdgesFrom(nodes[j])) :
                    j \in Nat /\ k \in Nat /\ Followed(j, k)
    BY AllFollowed
  <2>2. nodes[i].depth \in Nat /\ request.maxDepth \in Nat
    <3>1. nodes[i] \in Node
      BY <2>1
    <3>2. request.maxDepth \in Nat
      BY <2>1 DEF SearchTypeOK, Requests
    <3> QED BY <3>1, <3>2 DEF Node
  <2>3. nodes[i].symbol \in DOMAIN Graph
    BY <2>1 DEF Ordered
  <2>4. EdgesFrom(nodes[i]) = EdgesOf(Graph, nodes[i].symbol, request.direction)
    BY <2>2, <2>3 DEF EdgesFrom, TooDeep
  <2>5. PICK e \in Listed(EdgesFrom(nodes[i])) : t = OtherEnd(e, nodes[i].symbol)
    BY <2>4 DEF Neighbours
  <2>6. PICK k \in 1 .. Len(EdgesFrom(nodes[i])) : e = EdgesFrom(nodes[i])[k]
    BY <2>5 DEF Listed
  <2>7. i \in Nat /\ k \in Nat /\ Followed(i, k) /\ t = Ends(i, k)
    BY <2>1, <2>5, <2>6 DEF Ends
  <2>8. t \in DOMAIN Graph
    BY DEF Neighbours
  <2> QED BY <2>1, <2>7, <2>8 DEF Kept
<1> QED BY <1>1, SearchInvHolds, PTL
-----------------------------------------------------------------------------
(* Induction over the natural numbers, with a set in the place of the      *)
(* predicate.                                                              *)
LEMMA NaturalInduction ==
    ASSUME NEW S, 0 \in S, \A n \in Nat : n \in S => n + 1 \in S
    PROVE  Nat \subseteq S
<1> DEFINE Missing == {n \in Nat : n \notin S}
           Less == OpToRel(<, Nat)
<1> SUFFICES ASSUME Missing # {} PROVE FALSE
  OBVIOUS
<1>1. \E n \in Missing : \A m \in Missing : ~ (<<m, n>> \in Less)
  <2>1. IsWellFoundedOn(Less, Nat) /\ Missing \in SUBSET Nat
    BY NatLessThanWellFounded
  <2> HIDE DEF Less, Missing
  <2> QED BY <2>1, WFMin
<1>2. PICK n \in Missing : \A m \in Missing : ~ (<<m, n>> \in Less)
  BY <1>1
<1>3. \A m \in Missing : ~(m < n)
  BY <1>2 DEF OpToRel
<1>4. n # 0 /\ n - 1 \in Nat /\ n - 1 < n /\ (n - 1) + 1 = n
  OBVIOUS
<1>5. n - 1 \in S
  BY <1>3, <1>4
<1> QED BY <1>4, <1>5

Grown(T) == T \cup UNION {Neighbours(s) : s \in T}

\* The first values of Within, n of them after the root.
UpTo(n, g) ==
    /\ g = [i \in 0 .. n |-> g[i]] /\ g[0] = {request.root}
    /\ \A i \in 0 .. n : i # 0 => g[i] = Grown(g[i - 1])

\* Within is what its equation says: there is a function that satisfies it.
LEMMA WithinUnfolds ==
    /\ Within[0] = {request.root}
    /\ \A n \in Nat : Within[n + 1] = Grown(Within[n])
<1> DEFINE has == {n \in Nat : \E g : UpTo(n, g)}
<1>1. Nat \subseteq has
  <2>1. 0 \in has
    <3>1. UpTo(0, [i \in 0 .. 0 |-> {request.root}])
      BY DEF UpTo
    <3> QED BY <3>1
  <2>2. ASSUME NEW n \in Nat, n \in has PROVE n + 1 \in has
    <3>1. PICK g : UpTo(n, g)
      BY <2>2
    <3> DEFINE h == [i \in 0 .. n + 1 |-> IF i = n + 1 THEN Grown(g[n]) ELSE g[i]]
    <3>2. h[0] = {request.root}
      BY <3>1 DEF UpTo
    <3>3. ASSUME NEW i \in 0 .. n + 1, i # 0 PROVE h[i] = Grown(h[i - 1])
      <4>1. i - 1 \in 0 .. n /\ i - 1 # n + 1 /\ (i = n + 1 => i - 1 = n) /\ (i # n + 1 => i \in 0 .. n)
        BY <3>3
      <4>2. h[i - 1] = g[i - 1]
        BY <4>1
      <4>3. CASE i = n + 1
        BY <4>1, <4>2, <4>3
      <4>4. CASE i # n + 1
        BY <3>1, <3>3, <4>1, <4>2, <4>4 DEF UpTo
      <4> QED BY <4>3, <4>4
    <3>4. h = [i \in 0 .. n + 1 |-> h[i]]
      OBVIOUS
    <3>5. UpTo(n + 1, h)
      BY <3>2, <3>3, <3>4 DEF UpTo
    <3> QED BY <3>5
  <2> HIDE DEF has
  <2> QED BY <2>1, <2>2, NaturalInduction
<1>2. ASSUME NEW n \in Nat, NEW g, NEW h, UpTo(n, g), UpTo(n + 1, h)
      PROVE  g[n] = h[n]
  <2> DEFINE same == {i \in Nat : i <= n => g[i] = h[i]}
  <2>1. 0 \in same
    BY <1>2 DEF UpTo
  <2>2. ASSUME NEW i \in Nat, i \in same PROVE i + 1 \in same
    <3>1. CASE i + 1 <= n
      <4>1. i + 1 \in 0 .. n /\ i + 1 \in 0 .. n + 1 /\ i + 1 # 0 /\ (i + 1) - 1 = i /\ i <= n
        BY <3>1
      <4>2. g[i + 1] = Grown(g[i])
        <5>1. g[i + 1] = Grown(g[(i + 1) - 1])
          BY <1>2, <4>1 DEF UpTo
        <5> QED BY <4>1, <5>1
      <4>3. h[i + 1] = Grown(h[i])
        <5>1. h[i + 1] = Grown(h[(i + 1) - 1])
          BY <1>2, <4>1 DEF UpTo
        <5> QED BY <4>1, <5>1
      <4>4. g[i] = h[i]
        BY <2>2, <4>1
      <4> QED BY <4>2, <4>3, <4>4
    <3> QED BY <3>1
  <2>3. Nat \subseteq same
    <3> HIDE DEF same
    <3> QED BY <2>1, <2>2, NaturalInduction
  <2> QED BY <2>3
<1> DEFINE g(n) == CHOOSE g : UpTo(n, g)
           f == [n \in Nat |-> g(n)[n]]
<1>3. \A n \in Nat : UpTo(n, g(n))
  BY <1>1
<1>4. f[0] = {request.root} /\ \A n \in Nat : f[n + 1] = Grown(f[n])
  <2>1. g(0)[0] = {request.root}
    BY <1>3 DEF UpTo
  <2>2. ASSUME NEW n \in Nat PROVE g(n + 1)[n + 1] = Grown(g(n)[n])
    <3>1. UpTo(n, g(n)) /\ UpTo(n + 1, g(n + 1))
      BY <1>3
    <3> HIDE DEF g
    <3>2. g(n)[n] = g(n + 1)[n]
      BY <1>2, <3>1
    <3>3. g(n + 1)[n + 1] = Grown(g(n + 1)[(n + 1) - 1]) 
      BY <3>1 DEF UpTo
    <3> QED BY <3>2, <3>3
  <2> HIDE DEF g
  <2> QED BY <2>1, <2>2
<1>5. f = [n \in Nat |-> IF n = 0 THEN {request.root}
                         ELSE f[n - 1] \cup UNION {Neighbours(s) : s \in f[n - 1]}]
  <2> HIDE DEF g
  <2>1. \A n \in Nat : n # 0 => f[n] = Grown(f[n - 1])
    <3> TAKE n \in Nat
    <3> HAVE n # 0
    <3> HIDE DEF f
    <3>1. n - 1 \in Nat /\ (n - 1) + 1 = n
      OBVIOUS
    <3>2. f[(n - 1) + 1] = Grown(f[n - 1])
      BY <1>4, <3>1
    <3> QED BY <3>1, <3>2
  <2>2. \A n \in Nat : f[n] = IF n = 0 THEN {request.root}
                              ELSE f[n - 1] \cup UNION {Neighbours(s) : s \in f[n - 1]}
    <3> HIDE DEF f
    <3> QED BY <1>4, <2>1 DEF Grown
  <2> QED BY <2>2
<1>6. Within = [n \in Nat |-> IF n = 0 THEN {request.root}
                              ELSE Within[n - 1] \cup UNION {Neighbours(s) : s \in Within[n - 1]}]
  <2> HIDE DEF f
  <2> QED BY <1>5 DEF Within
<1> QED BY <1>6 DEF Grown

LEMMA WithinGrows ==
    ASSUME NEW m \in Nat, NEW n \in Nat, m <= n
    PROVE  Within[m] \subseteq Within[n]
<1> DEFINE S == {k \in Nat : Within[m] \subseteq Within[m + k]}
<1>1. 0 \in S
  OBVIOUS
<1>2. ASSUME NEW k \in Nat, k \in S PROVE k + 1 \in S
  <2>1. m + (k + 1) = (m + k) + 1 /\ m + k \in Nat
    OBVIOUS
  <2>2. Within[m + k] \subseteq Within[(m + k) + 1]
    BY <2>1, WithinUnfolds DEF Grown
  <2> QED BY <1>2, <2>1, <2>2
<1>3. Nat \subseteq S
  <2> HIDE DEF S
  <2> QED BY <1>1, <1>2, NaturalInduction
<1>4. n - m \in Nat /\ m + (n - m) = n
  OBVIOUS
<1> QED BY <1>3, <1>4
-----------------------------------------------------------------------------
\* Every node but the root was reached by an edge of a node one step nearer.
FoundByAnEdge ==
    \A m \in 1 .. Len(nodes) : m # 1 =>
        \E i \in 1 .. Len(nodes) : \E k \in 1 .. Len(EdgesFrom(nodes[i])) :
            nodes[m].symbol = Ends(i, k) /\ nodes[m].depth = nodes[i].depth + 1

\* No edge followed is a shorter way to a node.
NoShortcut ==
    \A i, k \in Nat : Followed(i, k) =>
        \A m \in 1 .. Len(nodes) :
            nodes[m].symbol = Ends(i, k) => nodes[m].depth <= nodes[i].depth + 1

\* A layer is begun when the one before is complete.
LayersAreComplete ==
    \A i, m \in 1 .. Len(nodes) : nodes[i].depth + 1 < nodes[m].depth =>
        \A k \in 1 .. Len(EdgesFrom(nodes[i])) : Ends(i, k) \in DOMAIN Graph => Ends(i, k) \in Found

\* What is left out is a neighbour of a node that is expanded.
LeftOutNextToANode ==
    truncated => \E i \in 1 .. Len(nodes) : \E k \in 1 .. Len(EdgesFrom(nodes[i])) :
        Ends(i, k) \in DOMAIN Graph \ Found

NearInv == FoundByAnEdge /\ NoShortcut /\ LayersAreComplete /\ LeftOutNextToANode

LEMMA DepthsAreNumbers ==
    ASSUME SearchTypeOK
    PROVE  /\ request.maxDepth \in Nat /\ Len(nodes) \in Nat
           /\ \A i \in 1 .. Len(nodes) : nodes[i] \in Node /\ nodes[i].depth \in Nat
<1>1. request.maxDepth \in Nat /\ nodes \in Seq(Node) /\ Len(nodes) \in Nat
  BY DEF SearchTypeOK, Requests
<1>2. \A i \in 1 .. Len(nodes) : nodes[i] \in Node
  BY <1>1
<1> QED BY <1>1, <1>2 DEF Node

LEMMA StartIsNear ==
    ASSUME NEW r \in Requests, StartSearch(r)
    PROVE  NearInv'
<1>1. Len(nodes') = 1 /\ truncated' = FALSE /\ popped' = 0 /\ nodes'[1].depth = 0
  BY DEF StartSearch
<1>2. \A i, k : ~Followed(i, k)'
  BY <1>1 DEF Followed
<1>3. \A i \in 1 .. Len(nodes') : i = 1
  BY <1>1
<1>4. FoundByAnEdge'
  BY <1>3 DEF FoundByAnEdge
<1>5. NoShortcut'
  BY <1>2 DEF NoShortcut
<1>6. LayersAreComplete'
  BY <1>1, <1>3 DEF LayersAreComplete
<1>7. LeftOutNextToANode'
  BY <1>1 DEF LeftOutNextToANode
<1> QED BY <1>4, <1>5, <1>6, <1>7 DEF NearInv

\* The edges of the nodes stay while the nodes stay.
LEMMA SameNodes ==
    ASSUME UNCHANGED <<request, nodes, truncated>>, NearInv,
           \A i, k \in Nat : Followed(i, k)' => Followed(i, k)
    PROVE  NearInv'
<1>1. \A i : EdgesFrom(nodes[i])' = EdgesFrom(nodes[i])
  BY DEF EdgesFrom, TooDeep, Graph
<1>2. \A i, k : Ends(i, k)' = Ends(i, k)
  BY <1>1 DEF Ends, OtherEnd
<1>3. Found' = Found /\ Graph' = Graph /\ Len(nodes') = Len(nodes)
  BY DEF Found, Graph
<1>4. FoundByAnEdge'
  BY <1>1, <1>2, <1>3 DEF NearInv, FoundByAnEdge
<1>5. NoShortcut'
  BY <1>2, <1>3 DEF NearInv, NoShortcut
<1>6. LayersAreComplete'
  BY <1>1, <1>2, <1>3 DEF NearInv, LayersAreComplete
<1>7. LeftOutNextToANode'
  BY <1>1, <1>2, <1>3 DEF NearInv, LeftOutNextToANode
<1> QED BY <1>4, <1>5, <1>6, <1>7 DEF NearInv

\* A new node is the far end of the edge being followed, a step deeper than the
\* node that has the edge; no edge followed before leads to it, for then there
\* would have been no room for it.
LEMMA FollowIsNear ==
    ASSUME SearchInv, status = "expanding", NearInv, FollowEdge
    PROVE  NearInv'
<1>1. SearchTypeOK /\ Ordered /\ Kept
  BY DEF SearchInv
<1>2. /\ popped \in 1 .. Len(nodes)
      /\ \/ SkipUnresolved \/ LeaveOut \/ Include \/ ReachAgain
      /\ Found \subseteq DOMAIN Graph /\ Graph' = Graph
      /\ Len(nodes') \in Nat /\ Len(nodes') >= Len(nodes)
      /\ \A i \in 1 .. Len(nodes) : nodes'[i] = nodes[i]
      /\ \/ nodes' = nodes
         \/ /\ Include /\ Len(nodes') = Len(nodes) + 1
            /\ nodes'[Len(nodes) + 1] = [symbol |-> Reached, depth |-> nodes[popped].depth + 1]
      /\ Found' = IF Include THEN Found \cup {Reached} ELSE Found
      /\ Reached = Ends(popped, followed + 1)
      /\ popped # 0
      /\ request' = request
  BY <1>1, FollowFacts DEF FollowEdge
<1>3. /\ Len(nodes) \in Nat /\ request.maxDepth \in Nat /\ request.maxNodes \in Nat /\ followed \in Nat
      /\ \A i \in 1 .. Len(nodes) : nodes[i].depth \in Nat
  BY <1>1, DepthsAreNumbers DEF SearchTypeOK, Requests
<1>4. followed + 1 \in 1 .. Len(EdgesFrom(nodes[popped]))
  BY <1>1, <1>2, NextEdgeType DEF FollowEdge
<1>5. ASSUME NEW i \in 1 .. Len(nodes)
      PROVE  /\ EdgesFrom(nodes[i])' = EdgesFrom(nodes[i])
             /\ \A k : Ends(i, k)' = Ends(i, k)
             /\ nodes[i].symbol \in Found
  <2>1. nodes'[i] = nodes[i]
    BY <1>2
  <2>2. EdgesFrom(nodes[i])' = EdgesFrom(nodes[i])
    BY <1>2, <2>1 DEF EdgesFrom, TooDeep, Graph
  <2>3. \A k : Ends(i, k)' = Ends(i, k)
    BY <2>1, <2>2 DEF Ends, OtherEnd
  <2> QED BY <2>2, <2>3 DEF Found
<1>6. \A i, k \in Nat : Followed(i, k)' <=> (Followed(i, k) \/ (i = popped /\ k = followed + 1))
  BY <1>1, FollowFacts
<1>7. Include => ~truncated
  <2>1. Include => Len(nodes) < request.maxNodes
    BY DEF Include
  <2> QED BY <1>1, <1>3, <2>1 DEF Kept
<1>8. \A i \in 1 .. Len(nodes) : nodes[i].depth <= nodes[popped].depth + 1
  BY <1>1, <1>2 DEF Ordered
\* Of the edges followed before, none leads to a new node.
<1>9. ASSUME Include, NEW i \in Nat, NEW k \in Nat, Followed(i, k)
      PROVE  Ends(i, k) \in DOMAIN Graph => Ends(i, k) \in Found
  <2>1. Ends(i, k) \in DOMAIN Graph \ Found => truncated
    BY <1>1, <1>9 DEF Kept
  <2> QED BY <1>7, <1>9, <2>1
<1> DEFINE last == Len(nodes) + 1
<1>10. \A m \in 1 .. Len(nodes') :
          \/ m \in 1 .. Len(nodes) /\ nodes'[m] = nodes[m]
          \/ /\ Include /\ m = last
             /\ nodes'[m].symbol = Reached /\ nodes'[m].depth = nodes[popped].depth + 1
  <2> TAKE m \in 1 .. Len(nodes')
  <2>1. CASE m \in 1 .. Len(nodes)
    BY <1>2, <2>1
  <2>2. CASE m \notin 1 .. Len(nodes)
    <3>1. /\ Include /\ Len(nodes') = Len(nodes) + 1
          /\ nodes'[Len(nodes) + 1] = [symbol |-> Reached, depth |-> nodes[popped].depth + 1]
      BY <1>2, <2>2
    <3>2. m = last
      BY <1>3, <2>2, <3>1
    <3> QED BY <3>1, <3>2
  <2> QED BY <2>1, <2>2
<1> HIDE DEF last
<1>11. Include => Reached \in DOMAIN Graph \ Found
  BY DEF Include
<1>12. \A i \in 1 .. Len(nodes) : i \in 1 .. Len(nodes')
  BY <1>2, <1>3
<1>13. FoundByAnEdge'
  <2> SUFFICES ASSUME NEW m \in 1 .. Len(nodes'), m # 1
               PROVE  \E i \in 1 .. Len(nodes') : \E k \in 1 .. Len(EdgesFrom(nodes[i])') :
                        nodes'[m].symbol = Ends(i, k)' /\ nodes'[m].depth = nodes'[i].depth + 1
    BY DEF FoundByAnEdge
  <2>1. CASE m \in 1 .. Len(nodes) /\ nodes'[m] = nodes[m]
    <3>a. PICK i \in 1 .. Len(nodes) : \E k \in 1 .. Len(EdgesFrom(nodes[i])) :
                nodes[m].symbol = Ends(i, k) /\ nodes[m].depth = nodes[i].depth + 1
      BY <2>1 DEF NearInv, FoundByAnEdge
    <3>1. PICK k \in 1 .. Len(EdgesFrom(nodes[i])) :
                nodes[m].symbol = Ends(i, k) /\ nodes[m].depth = nodes[i].depth + 1
      BY <3>a
    <3>2. nodes'[i] = nodes[i] /\ EdgesFrom(nodes[i])' = EdgesFrom(nodes[i]) /\ Ends(i, k)' = Ends(i, k)
      BY <1>2, <1>5
    <3> QED BY <1>12, <2>1, <3>1, <3>2
  <2>2. CASE nodes'[m].symbol = Reached /\ nodes'[m].depth = nodes[popped].depth + 1
    <3>1. PICK i \in 1 .. Len(nodes) : i = popped
      BY <1>2
    <3>2. PICK k \in 1 .. Len(EdgesFrom(nodes[i])) : k = followed + 1
      BY <1>4, <3>1
    <3>3. nodes'[i] = nodes[i] /\ EdgesFrom(nodes[i])' = EdgesFrom(nodes[i]) /\ Ends(i, k)' = Ends(i, k)
      BY <1>2, <1>5
    <3>4. Reached = Ends(i, k)
      BY <1>2, <3>1, <3>2
    <3> QED BY <1>12, <2>2, <3>1, <3>3, <3>4
  <2> QED BY <1>10, <2>1, <2>2
<1>14. NoShortcut'
  <2> SUFFICES ASSUME NEW i \in Nat, NEW k \in Nat, Followed(i, k)',
                      NEW m \in 1 .. Len(nodes'), nodes'[m].symbol = Ends(i, k)'
               PROVE  nodes'[m].depth <= nodes'[i].depth + 1
    BY DEF NoShortcut
  <2>1. i \in 1 .. Len(nodes)
    <3>1. i \in 1 .. popped
      BY <1>2, <1>6 DEF Followed
    <3> QED BY <1>2, <1>3, <3>1
  <2>2. nodes'[i] = nodes[i] /\ Ends(i, k)' = Ends(i, k)
    BY <1>2, <1>5, <2>1
  <2>3. CASE i = popped
    BY <1>2, <1>3, <1>8, <1>10, <2>1, <2>2, <2>3
  <2>4. CASE i # popped
    <3>1. Followed(i, k)
      BY <1>6, <2>4
    <3>2. CASE m \in 1 .. Len(nodes) /\ nodes'[m] = nodes[m]
      BY <2>2, <3>1, <3>2 DEF NearInv, NoShortcut
    <3>3. CASE Include /\ nodes'[m].symbol = Reached
      BY <1>9, <1>11, <2>2, <3>1, <3>3
    <3> QED BY <1>10, <3>2, <3>3
  <2> QED BY <2>3, <2>4
<1>15. LayersAreComplete'
  <2> SUFFICES ASSUME NEW i \in 1 .. Len(nodes'), NEW m \in 1 .. Len(nodes'),
                      nodes'[i].depth + 1 < nodes'[m].depth,
                      NEW k \in 1 .. Len(EdgesFrom(nodes[i])'), Ends(i, k)' \in DOMAIN Graph
               PROVE  Ends(i, k)' \in Found'
    BY <1>2 DEF LayersAreComplete
  <2>1. i \in 1 .. Len(nodes) /\ nodes'[i] = nodes[i]
    <3>1. nodes[popped].depth \in Nat
      BY <1>2, <1>3
    <3>2. nodes'[m].depth \in Nat /\ nodes'[m].depth <= nodes[popped].depth + 1
      <4>1. CASE m \in 1 .. Len(nodes) /\ nodes'[m] = nodes[m]
        BY <1>3, <1>8, <4>1
      <4>2. CASE nodes'[m].depth = nodes[popped].depth + 1
        BY <3>1, <4>2
      <4> QED BY <1>10, <4>1, <4>2
    <3>3. nodes'[i].depth # nodes[popped].depth + 1
      BY <3>1, <3>2
    <3> QED BY <1>10, <3>3
  <2>2. EdgesFrom(nodes[i])' = EdgesFrom(nodes[i]) /\ Ends(i, k)' = Ends(i, k)
    BY <1>5, <2>1
  <2>3. CASE m \in 1 .. Len(nodes) /\ nodes'[m] = nodes[m]
    <3>1. Ends(i, k) \in Found
      BY <2>1, <2>2, <2>3 DEF NearInv, LayersAreComplete
    <3> QED BY <1>2, <2>2, <3>1
  <2>4. CASE Include /\ nodes'[m].depth = nodes[popped].depth + 1
    <3>1. nodes[i].depth < nodes[popped].depth
      BY <1>2, <1>3, <2>1, <2>4
    <3>2. i < popped
      <4>1. popped < i => nodes[popped].depth <= nodes[i].depth
        BY <1>1, <1>2, <2>1 DEF Ordered
      <4>2. nodes[popped].depth \in Nat /\ nodes[i].depth \in Nat /\ i \in Nat /\ popped \in Nat
        BY <1>2, <1>3, <2>1
      <4>3. ~(popped < i) /\ i # popped
        BY <3>1, <4>1, <4>2
      <4> QED BY <4>2, <4>3
    <3>3. Followed(i, k) /\ i \in Nat /\ k \in Nat
      BY <1>2, <2>1, <2>2, <3>2 DEF Followed
    <3> QED BY <1>2, <1>9, <2>2, <2>4, <3>3
  <2> QED BY <1>10, <2>3, <2>4
<1>16. LeftOutNextToANode'
  <2> SUFFICES ASSUME truncated'
               PROVE  \E i \in 1 .. Len(nodes') : \E k \in 1 .. Len(EdgesFrom(nodes[i])') :
                        Ends(i, k)' \in DOMAIN Graph \ Found'
    BY <1>2 DEF LeftOutNextToANode
  <2>1. ~Include
    BY <1>7 DEF Include
  <2>2. \E i \in 1 .. Len(nodes) : \E k \in 1 .. Len(EdgesFrom(nodes[i])) :
            Ends(i, k) \in DOMAIN Graph \ Found
    <3>1. CASE truncated
      BY <3>1 DEF NearInv, LeftOutNextToANode
    <3>2. CASE ~truncated
      <4>1. LeaveOut
        BY <1>2, <3>2 DEF SkipUnresolved, ReachAgain, Include
      <4>2. Ends(popped, followed + 1) \in DOMAIN Graph \ Found
        BY <1>2, <4>1 DEF LeaveOut
      <4> QED BY <1>2, <1>4, <4>2
    <3> QED BY <3>1, <3>2
  <2>a. PICK i \in 1 .. Len(nodes) : \E k \in 1 .. Len(EdgesFrom(nodes[i])) :
            Ends(i, k) \in DOMAIN Graph \ Found
    BY <2>2
  <2>3. PICK k \in 1 .. Len(EdgesFrom(nodes[i])) : Ends(i, k) \in DOMAIN Graph \ Found
    BY <2>a
  <2>4. EdgesFrom(nodes[i])' = EdgesFrom(nodes[i]) /\ Ends(i, k)' = Ends(i, k)
    BY <1>5
  <2> QED BY <1>2, <1>12, <2>1, <2>3, <2>4
<1> QED BY <1>13, <1>14, <1>15, <1>16 DEF NearInv

NearWhileExpanding == status \in {"expanding", "done"} => NearInv

LEMMA SearchesStayNear ==
    SearchInv /\ SearchInv' /\ NearWhileExpanding /\ [SearchNext]_searchVars => NearWhileExpanding'
<1> SUFFICES ASSUME SearchInv, NearWhileExpanding, [SearchNext]_searchVars,
                    status' \in {"expanding", "done"}
             PROVE  NearInv'
  BY DEF NearWhileExpanding
<1>1. CASE \E r \in Requests : StartSearch(r)
  BY <1>1, StartIsNear
<1>2. CASE PopNode
  <2>1. /\ SearchTypeOK /\ NearInv /\ followed = Len(Following) /\ popped < Len(nodes)
        /\ popped' = popped + 1 /\ followed' = 0
        /\ UNCHANGED <<request, status, nodes, edges, truncated>>
    BY <1>2 DEF PopNode, Popping, SearchInv, NearWhileExpanding
  <2>2. popped \in Nat /\ Len(nodes) \in Nat
    BY <2>1 DEF SearchTypeOK
  <2>3. ASSUME NEW i \in Nat, NEW k \in Nat, Followed(i, k)' PROVE Followed(i, k)
    <3>1. EdgesFrom(nodes[i])' = EdgesFrom(nodes[i])
      BY <2>1 DEF EdgesFrom, TooDeep, Graph
    <3>2. i # popped + 1
      BY <2>1, <2>2, <2>3 DEF Followed
    <3>3. CASE i = popped
      BY <2>1, <2>2, <2>3, <3>1, <3>3 DEF Followed, Following
    <3>4. CASE i # popped
      BY <2>1, <2>2, <2>3, <3>1, <3>2, <3>4 DEF Followed
    <3> QED BY <3>3, <3>4
  <2> QED BY <2>1, <2>3, SameNodes
<1>3. CASE FollowEdge
  BY <1>3, FollowIsNear DEF FollowEdge, NearWhileExpanding
<1>4. CASE FinishSearch \/ UNCHANGED searchVars
  <2>1. NearInv /\ UNCHANGED <<request, nodes, truncated, popped, followed>>
    BY <1>4 DEF FinishSearch, Popping, searchVars, NearWhileExpanding
  <2>2. ASSUME NEW i \in Nat, NEW k \in Nat, Followed(i, k)' PROVE Followed(i, k)
    BY <2>1, <2>2 DEF Followed, EdgesFrom, TooDeep, Graph
  <2> QED BY <2>1, <2>2, SameNodes
<1> QED BY <1>1, <1>2, <1>3, <1>4 DEF SearchNext, Expand

LEMMA NearWhileExpandingHolds == SearchSpec => [](SearchInv /\ NearWhileExpanding)
<1>1. SearchInit => NearWhileExpanding
  BY DEF SearchInit, IsOff, NearWhileExpanding
<1>2. SearchSpec => [][SearchNext]_searchVars
  BY PTL DEF SearchSpec
<1>3. SearchSpec => SearchInit
  BY PTL DEF SearchSpec
<1> QED BY <1>1, <1>2, <1>3, SearchInvHolds, SearchesStayNear, PTL
-----------------------------------------------------------------------------
\* The neighbours of a node that is expanded are the ends of its edges.
LEMMA NeighboursAreEnds ==
    ASSUME SearchTypeOK, Ordered, NEW i \in 1 .. Len(nodes),
           nodes[i].depth < request.maxDepth, NEW t \in Neighbours(nodes[i].symbol)
    PROVE  t \in DOMAIN Graph /\ \E k \in 1 .. Len(EdgesFrom(nodes[i])) : t = Ends(i, k)
<1>1. nodes[i].depth \in Nat /\ request.maxDepth \in Nat
  BY DepthsAreNumbers
<1>2. nodes[i].symbol \in DOMAIN Graph
  BY DEF Ordered
<1>3. EdgesFrom(nodes[i]) = EdgesOf(Graph, nodes[i].symbol, request.direction)
  BY <1>1, <1>2 DEF EdgesFrom, TooDeep
<1>4. PICK e \in Listed(EdgesFrom(nodes[i])) : t = OtherEnd(e, nodes[i].symbol)
  BY <1>3 DEF Neighbours
<1>5. PICK k \in 1 .. Len(EdgesFrom(nodes[i])) : e = EdgesFrom(nodes[i])[k]
  BY <1>4 DEF Listed
<1>6. t \in DOMAIN Graph
  BY DEF Neighbours
<1> QED BY <1>4, <1>5, <1>6 DEF Ends

LEMMA EndsAreNeighbours ==
    ASSUME SearchTypeOK, NEW i \in 1 .. Len(nodes),
           NEW k \in 1 .. Len(EdgesFrom(nodes[i])), Ends(i, k) \in DOMAIN Graph
    PROVE  /\ nodes[i].depth + 1 <= request.maxDepth
           /\ Ends(i, k) \in Neighbours(nodes[i].symbol)
<1>1. nodes[i] \in Node /\ nodes[i].depth \in Nat /\ request.maxDepth \in Nat
  BY DepthsAreNumbers
<1>2. nodes[i].symbol \in DOMAIN Graph /\ nodes[i].depth < request.maxDepth
  BY <1>1, EdgesFromType
<1>3. EdgesFrom(nodes[i]) = EdgesOf(Graph, nodes[i].symbol, request.direction)
  BY <1>1, <1>2 DEF EdgesFrom, TooDeep
<1>4. EdgesFrom(nodes[i])[k] \in Listed(EdgesFrom(nodes[i]))
  BY DEF Listed
<1>5. Ends(i, k) \in {OtherEnd(e, nodes[i].symbol) :
                        e \in Listed(EdgesOf(Graph, nodes[i].symbol, request.direction))}
  BY <1>3, <1>4 DEF Ends
<1> QED BY <1>1, <1>2, <1>5 DEF Neighbours

\* A node is within its depth.
LEMMA NodesAreWithin ==
    ASSUME SearchTypeOK, Ordered, FoundByAnEdge
    PROVE  \A i \in 1 .. Len(nodes) : nodes[i].symbol \in Within[nodes[i].depth]
<1> DEFINE S == {n \in Nat : \A i \in 1 .. Len(nodes) :
                    nodes[i].depth = n => nodes[i].symbol \in Within[n]}
<1>1. \A i \in 1 .. Len(nodes) : nodes[i].depth \in Nat
  BY DepthsAreNumbers
<1>2. ASSUME NEW n \in Nat, NEW m \in 1 .. Len(nodes), m # 1, nodes[m].depth = n
      PROVE  /\ n # 0
             /\ \E i \in 1 .. Len(nodes) :
                    nodes[i].depth + 1 = n /\ nodes[m].symbol \in Neighbours(nodes[i].symbol)
  <2>1. PICK i \in 1 .. Len(nodes) : \E k \in 1 .. Len(EdgesFrom(nodes[i])) :
            nodes[m].symbol = Ends(i, k) /\ nodes[m].depth = nodes[i].depth + 1
    BY <1>2 DEF FoundByAnEdge
  <2>2. PICK k \in 1 .. Len(EdgesFrom(nodes[i])) :
            nodes[m].symbol = Ends(i, k) /\ nodes[m].depth = nodes[i].depth + 1
    BY <2>1
  <2>3. nodes[m].symbol \in DOMAIN Graph
    BY DEF Ordered
  <2>4. nodes[m].symbol \in Neighbours(nodes[i].symbol)
    BY <2>2, <2>3, EndsAreNeighbours
  <2> QED BY <1>1, <1>2, <2>2, <2>4
<1>3. 0 \in S
  <2> SUFFICES ASSUME NEW i \in 1 .. Len(nodes), nodes[i].depth = 0
               PROVE  nodes[i].symbol \in Within[0]
    OBVIOUS
  <2>1. i = 1
    BY <1>2
  <2>2. nodes[1].symbol = request.root
    BY DEF Ordered
  <2> QED BY <2>1, <2>2, WithinUnfolds
<1>4. ASSUME NEW n \in Nat, n \in S PROVE n + 1 \in S
  <2> SUFFICES ASSUME NEW m \in 1 .. Len(nodes), nodes[m].depth = n + 1
               PROVE  nodes[m].symbol \in Within[n + 1]
    OBVIOUS
  <2>1. m # 1
    BY DEF Ordered
  <2>2. PICK i \in 1 .. Len(nodes) :
            nodes[i].depth + 1 = n + 1 /\ nodes[m].symbol \in Neighbours(nodes[i].symbol)
    BY <1>2, <2>1
  <2>3. nodes[i].depth = n
    BY <1>1, <2>2
  <2>4. nodes[i].symbol \in Within[n]
    BY <1>4, <2>3
  <2>5. Within[n + 1] = Grown(Within[n])
    BY WithinUnfolds
  <2> QED BY <2>2, <2>4, <2>5 DEF Grown
<1>5. Nat \subseteq S
  <2> HIDE DEF S
  <2> QED BY <1>3, <1>4, NaturalInduction
<1> QED BY <1>1, <1>5

\* When the search is done, a number of steps that some node is beyond, or that
\* is within max_depth when nothing was left out, leads to nodes only, each at
\* most that deep.
LEMMA WithinIsFound ==
    ASSUME SearchInv, status = "done", NearInv, NEW n \in Nat, n <= request.maxDepth,
           ~truncated \/ \E m \in 1 .. Len(nodes) : nodes[m].depth > n
    PROVE  \A s \in Within[n] : \E i \in 1 .. Len(nodes) : nodes[i].symbol = s /\ nodes[i].depth <= n
<1>1. /\ SearchTypeOK /\ Ordered /\ Kept
      /\ \A i \in 1 .. Len(nodes) : \A k \in 1 .. Len(EdgesFrom(nodes[i])) :
            i \in Nat /\ k \in Nat /\ Followed(i, k)
  BY AllFollowed
<1>2. /\ request.maxDepth \in Nat
      /\ \A i \in 1 .. Len(nodes) : nodes[i].depth \in Nat
  BY <1>1, DepthsAreNumbers
<1> DEFINE Reach(p) == \A s \in Within[p] :
                \E i \in 1 .. Len(nodes) : nodes[i].symbol = s /\ nodes[i].depth <= p
           S == {p \in Nat : p <= n => Reach(p)}
<1>3. 0 \in S
  <2>1. Within[0] = {request.root}
    BY WithinUnfolds
  <2>2. 1 \in 1 .. Len(nodes) /\ nodes[1].symbol = request.root /\ nodes[1].depth = 0
    <3>1. Len(nodes) \in Nat /\ nodes \in Seq(Node) /\ nodes # <<>>
      BY <1>1, DepthsAreNumbers DEF Ordered, SearchTypeOK
    <3>2. Len(nodes) # 0
      BY <3>1
    <3> QED BY <1>1, <3>1, <3>2 DEF Ordered
  <2> QED BY <2>1, <2>2
<1>4. ASSUME NEW p \in Nat, p \in S PROVE p + 1 \in S
  <2> SUFFICES ASSUME p + 1 <= n, NEW t \in Within[p + 1]
               PROVE  \E i \in 1 .. Len(nodes) : nodes[i].symbol = t /\ nodes[i].depth <= p + 1
    OBVIOUS
  <2>1. Reach(p)
    BY <1>4
  <2>2. t \in Within[p] \/ \E s \in Within[p] : t \in Neighbours(s)
    <3>1. Within[p + 1] = Grown(Within[p])
      BY WithinUnfolds
    <3> QED BY <3>1 DEF Grown
  <2>3. CASE t \in Within[p]
    BY <1>2, <2>1, <2>3
  <2>4. CASE \E s \in Within[p] : t \in Neighbours(s)
    <3>1. PICK i \in 1 .. Len(nodes) : t \in Neighbours(nodes[i].symbol) /\ nodes[i].depth <= p
      BY <2>1, <2>4
    <3>2. nodes[i].depth < request.maxDepth
      BY <1>2, <3>1
    <3>3. t \in DOMAIN Graph /\ \E k \in 1 .. Len(EdgesFrom(nodes[i])) : t = Ends(i, k)
      BY <1>1, <3>1, <3>2, NeighboursAreEnds
    <3>4. PICK k \in 1 .. Len(EdgesFrom(nodes[i])) : t = Ends(i, k)
      BY <3>3
    <3>5. i \in Nat /\ k \in Nat /\ Followed(i, k)
      BY <1>1
    <3>6. t \in Found
      <4>1. CASE ~truncated
        BY <1>1, <3>3, <3>4, <3>5, <4>1 DEF Kept
      <4>2. CASE truncated
        <5>1. PICK m \in 1 .. Len(nodes) : nodes[m].depth > n
          BY <4>2
        <5>2. nodes[i].depth + 1 < nodes[m].depth
          BY <1>2, <3>1, <5>1
        <5> QED BY <3>3, <3>4, <5>2 DEF NearInv, LayersAreComplete
      <4> QED BY <4>1, <4>2
    <3>7. PICK m \in 1 .. Len(nodes) : nodes[m].symbol = t
      BY <3>6 DEF Found
    <3>8. nodes[m].depth <= nodes[i].depth + 1
      BY <3>4, <3>5, <3>7 DEF NearInv, NoShortcut
    <3> QED BY <1>2, <3>1, <3>7, <3>8
  <2> QED BY <2>2, <2>3, <2>4
<1>5. Nat \subseteq S
  <2> HIDE DEF S
  <2> QED BY <1>3, <1>4, NaturalInduction
<1> QED BY <1>5

\* For every graph, depth and number of nodes, the nodes of an answer are the
\* nearest ones: each at its distance from the root, none passed over for one
\* that is further, and the answer says that it is truncated exactly when
\* something within max_depth is not in it.
THEOREM NearestNodes == SearchSpec => []NodesAreTheNearest
<1>1. SearchInv /\ NearWhileExpanding => NodesAreTheNearest
  <2> SUFFICES ASSUME SearchInv, NearWhileExpanding, status = "done"
               PROVE  /\ \A i \in 1 .. Len(nodes) :
                            /\ nodes[i].symbol \in Within[nodes[i].depth]
                            /\ nodes[i].depth > 0 =>
                                /\ nodes[i].symbol \notin Within[nodes[i].depth - 1]
                                /\ Within[nodes[i].depth - 1] \subseteq Found
                      /\ truncated <=> ~(Within[request.maxDepth] \subseteq Found)
    BY DEF NodesAreTheNearest
  <2>1. SearchTypeOK /\ Ordered /\ NearInv
    BY AllFollowed DEF NearWhileExpanding
  <2>2. /\ request.maxDepth \in Nat
        /\ \A i \in 1 .. Len(nodes) : nodes[i].depth \in Nat /\ nodes[i].depth <= request.maxDepth
    BY <2>1, DepthsAreNumbers DEF Ordered
  <2>3. \A i \in 1 .. Len(nodes) : nodes[i].symbol \in Within[nodes[i].depth]
    BY <2>1, NodesAreWithin DEF NearInv
  <2>4. ASSUME NEW i \in 1 .. Len(nodes), nodes[i].depth > 0
        PROVE  /\ nodes[i].symbol \notin Within[nodes[i].depth - 1]
               /\ Within[nodes[i].depth - 1] \subseteq Found
    <3>1. PICK n \in Nat : nodes[i].depth = n + 1 /\ n = nodes[i].depth - 1
      <4>1. nodes[i].depth - 1 \in Nat /\ nodes[i].depth = (nodes[i].depth - 1) + 1
        BY <2>2, <2>4
      <4> QED BY <4>1
    <3>2. n <= request.maxDepth /\ nodes[i].depth > n
      BY <2>2, <3>1
    <3>3. \A s \in Within[n] : \E m \in 1 .. Len(nodes) : nodes[m].symbol = s /\ nodes[m].depth <= n
      BY <2>1, <3>2, WithinIsFound
    <3>4. Within[n] \subseteq Found
      BY <3>3 DEF Found
    <3>5. ASSUME nodes[i].symbol \in Within[n] PROVE FALSE
      <4>1. PICK m \in 1 .. Len(nodes) : nodes[m].symbol = nodes[i].symbol /\ nodes[m].depth <= n
        BY <3>3, <3>5
      <4>2. m # i
        BY <2>2, <3>1, <4>1
      <4>3. m < i \/ i < m
        BY <4>2
      <4> QED BY <2>1, <4>1, <4>3 DEF Ordered
    <3> QED BY <3>1, <3>4, <3>5
  <2>5. ASSUME truncated PROVE ~(Within[request.maxDepth] \subseteq Found)
    <3>1. PICK i \in 1 .. Len(nodes) : \E k \in 1 .. Len(EdgesFrom(nodes[i])) :
              Ends(i, k) \in DOMAIN Graph \ Found
      BY <2>1, <2>5 DEF NearInv, LeftOutNextToANode
    <3>2. PICK k \in 1 .. Len(EdgesFrom(nodes[i])) : Ends(i, k) \in DOMAIN Graph \ Found
      BY <3>1
    <3>3. /\ nodes[i].depth + 1 <= request.maxDepth
          /\ Ends(i, k) \in Neighbours(nodes[i].symbol)
      BY <2>1, <3>2, EndsAreNeighbours
    <3>4. Within[nodes[i].depth + 1] = Grown(Within[nodes[i].depth])
      BY <2>2, WithinUnfolds
    <3>5. Ends(i, k) \in Within[nodes[i].depth + 1]
      BY <2>3, <3>3, <3>4 DEF Grown
    <3>6. nodes[i].depth + 1 \in Nat
      BY <2>2
    <3>7. Within[nodes[i].depth + 1] \subseteq Within[request.maxDepth]
      BY <2>2, <3>3, <3>6, WithinGrows
    <3> QED BY <3>2, <3>5, <3>7
  <2>6. ASSUME ~truncated PROVE Within[request.maxDepth] \subseteq Found
    <3>1. request.maxDepth <= request.maxDepth
      BY <2>2
    <3>2. \A s \in Within[request.maxDepth] :
              \E m \in 1 .. Len(nodes) : nodes[m].symbol = s /\ nodes[m].depth <= request.maxDepth
      BY <2>1, <2>2, <2>6, <3>1, WithinIsFound
    <3> QED BY <3>2 DEF Found
  <2> QED BY <2>3, <2>4, <2>5, <2>6
<1> QED BY <1>1, NearWhileExpandingHolds, PTL
=============================================================================
