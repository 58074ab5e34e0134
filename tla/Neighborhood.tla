----------------------------- MODULE Neighborhood -----------------------------
(***************************************************************************)
(* The bounded expansion of a trace (symbol_trace/neighborhood.rs): a      *)
(* breadth-first search over the references and dependencies of resolved   *)
(* symbols, with a limit on the depth and one on the number of nodes, and  *)
(* the checks its result must pass before anybody sees it                  *)
(* (model/query_results.rs).                                               *)
(*                                                                         *)
(* A graph maps each resolved symbol to its callers and its callees, as    *)
(* the lists the resolution wrote.  A list may name a symbol that is not   *)
(* resolved, or the same symbol twice, but never the symbol it belongs to: *)
(* the search would report the edge and its own check would refuse it.     *)
(***************************************************************************)
EXTENDS Naturals, Sequences

CONSTANT Symbols

VARIABLES
    request,    \* what the search was asked for
    status,     \* off, expanding, done, or refused by its own checks
    nodes,      \* the nodes included, nearest first; those not popped are the queue
    edges,      \* the edges included
    popped,     \* how many nodes left the queue
    followed,   \* how many edges of the last popped node were followed
    truncated   \* something was left out for lack of room

searchVars == <<request, status, nodes, edges, popped, followed, truncated>>

Directions == {"callers", "callees", "both"}
Lists == [references: Seq(Symbols), dependencies: Seq(Symbols)]
Listed(list) == {list[i] : i \in 1 .. Len(list)}

\* The resolution leaves a symbol's own name out, also of one that calls itself.
NoSelf(graph) ==
    \A s \in DOMAIN graph :
        s \notin Listed(graph[s].references) \cup Listed(graph[s].dependencies)

Graphs == {graph \in UNION {[defined -> Lists] : defined \in SUBSET Symbols} : NoSelf(graph)}
Node == [symbol: Symbols, depth: Nat]
Edge == Symbols \X Symbols
\* The root was chosen among the resolved symbols.
Requests == {r \in [graph: Graphs, root: Symbols, direction: Directions, maxDepth: Nat,
                    maxNodes: Nat \ {0}] : r.root \in DOMAIN r.graph}

Graph == request.graph
Found == {nodes[i].symbol : i \in 1 .. Len(nodes)}

CallerEdges(graph, s) == [i \in 1 .. Len(graph[s].references) |-> <<graph[s].references[i], s>>]
CalleeEdges(graph, s) == [i \in 1 .. Len(graph[s].dependencies) |-> <<s, graph[s].dependencies[i]>>]

\* neighborhood_edges_for_symbol: callers first.
EdgesOf(graph, s, direction) ==
    (IF direction = "callees" THEN <<>> ELSE CallerEdges(graph, s))
        \o (IF direction = "callers" THEN <<>> ELSE CalleeEdges(graph, s))

OtherEnd(edge, s) == IF edge[1] = s THEN edge[2] ELSE edge[1]

\* Mutant: the nodes at the last depth are expanded too.
BeyondTheDepth(depth) == depth > request.maxDepth
TooDeep(depth) == depth >= request.maxDepth

\* The edges the expansion of a node follows.
EdgesFrom(node) ==
    IF TooDeep(node.depth) \/ node.symbol \notin DOMAIN Graph THEN <<>>
    ELSE EdgesOf(Graph, node.symbol, request.direction)

Following == IF popped = 0 THEN <<>> ELSE EdgesFrom(nodes[popped])
-----------------------------------------------------------------------------
IsOff(r) ==
    /\ request = r /\ status = "off" /\ nodes = <<>> /\ edges = <<>>
    /\ popped = 0 /\ followed = 0 /\ truncated = FALSE

StartSearch(r) ==
    /\ status # "expanding"
    /\ request' = r
    /\ status' = "expanding"
    /\ nodes' = <<[symbol |-> r.root, depth |-> 0]>>
    /\ edges' = <<>> /\ popped' = 0 /\ followed' = 0 /\ truncated' = FALSE

Popping == status = "expanding" /\ followed = Len(Following)

\* Mutant: the node is looked at and stays in the queue.
PeekNode ==
    /\ Popping /\ popped < Len(nodes)
    /\ followed' = 0
    /\ UNCHANGED <<request, status, nodes, edges, popped, truncated>>

PopNode ==
    /\ Popping /\ popped < Len(nodes)
    /\ popped' = popped + 1
    /\ followed' = 0
    /\ UNCHANGED <<request, status, nodes, edges, truncated>>

NextEdge == Following[followed + 1]
Reached == OtherEnd(NextEdge, nodes[popped].symbol)

\* Mutant: an edge followed from both of its ends is reported twice.
WithEveryEdge == Append(edges, NextEdge)
WithNextEdge == IF NextEdge \in Listed(edges) THEN edges ELSE Append(edges, NextEdge)

SkipUnresolved ==
    /\ Reached \notin DOMAIN Graph
    /\ UNCHANGED <<nodes, edges, truncated>>

LeaveOut ==
    /\ Reached \in DOMAIN Graph \ Found /\ Len(nodes) >= request.maxNodes
    /\ truncated' = TRUE
    /\ UNCHANGED <<nodes, edges>>

Include ==
    /\ Reached \in DOMAIN Graph \ Found /\ Len(nodes) < request.maxNodes
    /\ nodes' = Append(nodes, [symbol |-> Reached, depth |-> nodes[popped].depth + 1])
    /\ edges' = WithNextEdge
    /\ UNCHANGED truncated

\* Mutant: only the edge that a node was found by is reported.
ReachSilently ==
    /\ Reached \in DOMAIN Graph \cap Found
    /\ UNCHANGED <<nodes, edges, truncated>>

ReachAgain ==
    /\ Reached \in DOMAIN Graph \cap Found
    /\ edges' = WithNextEdge
    /\ UNCHANGED <<nodes, truncated>>

FollowEdge ==
    /\ status = "expanding" /\ followed < Len(Following)
    /\ followed' = followed + 1
    /\ SkipUnresolved \/ LeaveOut \/ Include \/ ReachAgain
    /\ UNCHANGED <<request, status, popped>>

\* TraceSymbolNeighborhoodResult::validate_public_output, and that of each edge.
\* The evidence keys of two nodes differ when their symbols do: a key has the
\* symbol's id in it.
Accepted ==
    /\ request.maxNodes # 0 /\ nodes # <<>>
    /\ nodes[1] = [symbol |-> request.root, depth |-> 0]
    /\ \A i \in 1 .. Len(nodes) : nodes[i].depth <= request.maxDepth
    /\ \A i, j \in 1 .. Len(nodes) : i < j =>
        nodes[i].depth <= nodes[j].depth /\ nodes[i].symbol # nodes[j].symbol
    /\ \A i \in 1 .. Len(edges) : edges[i][1] # edges[i][2]
    /\ Listed(edges) \subseteq Found \X Found
    /\ \A i, j \in 1 .. Len(edges) : i # j => edges[i] # edges[j]

FinishSearch ==
    /\ Popping /\ popped = Len(nodes)
    /\ status' = IF Accepted THEN "done" ELSE "refused"
    /\ UNCHANGED <<request, nodes, edges, popped, followed, truncated>>

Expand == PopNode \/ FollowEdge \/ FinishSearch

SearchInit == \E r \in Requests : IsOff(r)
SearchNext == (\E r \in Requests : StartSearch(r)) \/ Expand
SearchSpec == SearchInit /\ [][SearchNext]_searchVars
-----------------------------------------------------------------------------
\* The checks never refuse what the search found in a graph that the resolution
\* can write, with cycles, repeated and unresolved names: nodes come by depth and
\* once each, and no edge is reported twice, without its ends or from a symbol to
\* itself.
NeighborhoodIsAccepted == status # "refused"

Neighbours(s) ==
    {OtherEnd(e, s) : e \in Listed(EdgesOf(Graph, s, request.direction))} \cap DOMAIN Graph

\* The symbols at most n steps from the root.
Within[n \in Nat] ==
    IF n = 0 THEN {request.root}
    ELSE Within[n - 1] \cup UNION {Neighbours(s) : s \in Within[n - 1]}

\* The result is the nearest part of the neighborhood: a node's depth is its
\* distance from the root, what is left out for lack of room is no nearer
\* than what is included, and something within max_depth is left out exactly
\* when the result says that it is truncated.
NodesAreTheNearest ==
    status = "done" =>
        /\ \A i \in 1 .. Len(nodes) :
            /\ nodes[i].symbol \in Within[nodes[i].depth]
            /\ nodes[i].depth > 0 =>
                /\ nodes[i].symbol \notin Within[nodes[i].depth - 1]
                /\ Within[nodes[i].depth - 1] \subseteq Found
        /\ truncated <=> ~(Within[request.maxDepth] \subseteq Found)

\* The edges of the nodes nearer than max_depth.
InnerEdges ==
    UNION {Listed(EdgesFrom(nodes[i])) : i \in 1 .. Len(nodes)}

\* Between the nodes nothing is missing and nothing is made up, truncated or
\* not: the edges are those that the nodes nearer than max_depth have with
\* other nodes, in the direction asked for.
EdgesAreOfTheNodes ==
    status = "done" => Listed(edges) = InnerEdges \cap (Found \X Found)
=============================================================================
