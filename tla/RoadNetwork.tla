---------------------------- MODULE RoadNetwork ----------------------------
(***************************************************************************)
(* How routing/ makes a searchable network of OSM ways: the splitting of   *)
(* ways into directed edges (builder/topology_builder.cpp), the arrays of  *)
(* outgoing edges (builder/csr_builder.cpp), the incoming edges that a     *)
(* Router adds (core/src/router.cpp) and the nearest road segments         *)
(* (core/src/spatial_index.cpp).                                           *)
(*                                                                         *)
(* Coordinates are points of an integer grid and the distance of two       *)
(* points is the sum of the differences: a metric, as the great-circle     *)
(* distance is, and exact.  Consecutive nodes of a way share a row or a    *)
(* column of the grid.  What the definitions promise is stated at the end, *)
(* on the ways themselves, without edges and arrays.                       *)
(***************************************************************************)
EXTENDS Integers, SequencesExt, FiniteSetsExt

CONSTANTS
    Position,  \* the point of each OSM node: a function to pairs of integers
    Maps,      \* functions from a name to a sequence of ways
    Stretch,   \* how much longer the index measures a road than the builder does
    Infinite   \* no path; longer than every path of an instance

ASSUME GridAssumption ==
    Position \in [DOMAIN Position -> Int \X Int] /\ Infinite \in Nat \ {0}

\* A fraction, 111320 to 111195 metres per degree in the code.
ASSUME StretchAssumption ==
    Stretch \in (Nat \ {0}) \X (Nat \ {0}) /\ Stretch[1] >= Stretch[2]

\* A way: its nodes, the directions it may be driven in and the time it takes
\* per unit of length.
ASSUME WayAssumption ==
    \A name \in DOMAIN Maps : \A way \in ToSet(Maps[name]) :
        /\ Len(way.nodes) >= 2
        /\ ToSet(way.nodes) \subseteq DOMAIN Position
        /\ way.oneway \in {"no", "forward", "reverse"}
        /\ way.pace \in Nat \ {0}

\* A set of integers in ascending order.
InOrder(integers) ==
    [i \in 1..Cardinality(integers) |->
        CHOOSE n \in integers : Cardinality({m \in integers : m <= n}) = i]

-----------------------------------------------------------------------------
(* Lengths *)

Abs(n) == IF n < 0 THEN -n ELSE n
Apart(p, q) == Abs(p[1] - q[1]) + Abs(p[2] - q[2])

\* Length of a line of nodes up to its i-th one.
LengthTo(line, i) ==
    LET upTo[k \in 1..i] ==
            IF k = 1 THEN 0
            ELSE upTo[k - 1] + Apart(Position[line[k - 1]], Position[line[k]])
    IN  upTo[i]

-----------------------------------------------------------------------------
(* TopologyBuilder: ways become directed edges between topology nodes *)

Occurrences(ways, node) ==
    MapThenSumSet(LAMBDA w : Cardinality({i \in DOMAIN ways[w].nodes : ways[w].nodes[i] = node}),
          DOMAIN ways)

\* The ends of ways, and the nodes that occur twice.
IsTopologyNode(ways, node) ==
    \/ \E way \in ToSet(ways) : node \in {Head(way.nodes), Last(way.nodes)}
    \/ Occurrences(ways, node) > 1

Segments(ways, way) ==
    LET cuts == InOrder({i \in DOMAIN way.nodes : IsTopologyNode(ways, way.nodes[i])})
    IN  [k \in 1..(Len(cuts) - 1) |-> SubSeq(way.nodes, cuts[k], cuts[k + 1])]

MakeEdge(way, line) ==
    [source |-> Head(line), target |-> Last(line), line |-> line,
     distance |-> LengthTo(line, Len(line)),
     duration |-> LengthTo(line, Len(line)) * way.pace]

EdgesOf(way, line) ==
    (IF way.oneway # "reverse" THEN <<MakeEdge(way, line)>> ELSE <<>>)
        \o (IF way.oneway # "forward" THEN <<MakeEdge(way, Reverse(line))>> ELSE <<>>)

RawEdges(ways) ==
    FlattenSeq([w \in DOMAIN ways |->
        LET lines == Segments(ways, ways[w])
        IN  FlattenSeq([k \in DOMAIN lines |-> EdgesOf(ways[w], lines[k])])])

-----------------------------------------------------------------------------
(* CsrBuilder: edges sorted by source and target, and where each node's     *)
(* edges begin.  Nodes and edges are numbered from 0.                       *)

Arrays(sorted, osm) ==
    LET edges == 0..(Len(sorted) - 1)
        nodes == 0..(Len(osm) - 1)
        Dense(node) == CHOOSE i \in nodes : osm[i + 1] = node
    IN  [nodes    |-> nodes,
         position |-> [n \in nodes |-> Position[osm[n + 1]]],
         edges    |-> edges,
         offsets  |-> [n \in 0..Len(osm) |->
                          Cardinality({e \in edges : Dense(sorted[e + 1].source) < n})],
         target   |-> [e \in edges |-> Dense(sorted[e + 1].target)],
         distance |-> [e \in edges |-> sorted[e + 1].distance],
         duration |-> [e \in edges |-> sorted[e + 1].duration],
         line     |-> [e \in edges |-> sorted[e + 1].line]]

Csr(ways) ==
    LET raw == RawEdges(ways)
        Before(a, b) == \/ a.source < b.source
                        \/ a.source = b.source /\ a.target < b.target
    IN  Arrays(SortSeq(raw, Before),
               InOrder(UNION {{edge.source, edge.target} : edge \in ToSet(raw)}))

\* CsrGraph::Validate: as many entries as nodes or edges in every array, offsets
\* that ascend from nothing to all edges, and targets that are nodes.
Validate(graph) ==
    LET nodeCount == Cardinality(graph.nodes)
        edgeCount == Cardinality(graph.edges)
    IN  /\ {nodeCount, edgeCount} \subseteq Nat
        /\ graph.nodes = 0..(nodeCount - 1)
        /\ graph.edges = 0..(edgeCount - 1)
        /\ graph.position \in [graph.nodes -> Int \X Int]
        /\ graph.offsets \in [0..nodeCount -> Nat]
        /\ graph.offsets[0] = 0
        /\ graph.offsets[nodeCount] = edgeCount
        /\ \A node \in graph.nodes : graph.offsets[node] <= graph.offsets[node + 1]
        /\ graph.target \in [graph.edges -> graph.nodes]
        /\ {graph.distance, graph.duration} \subseteq [graph.edges -> Nat]
        /\ graph.line \in [graph.edges -> Seq(DOMAIN Position)]

Outgoing(graph, node) ==
    InOrder(graph.offsets[node]..(graph.offsets[node + 1] - 1))

\* EdgeSource of routing_engine.cpp: an upper bound, because a node without
\* outgoing edges repeats an offset.
EdgeSource(graph, edge) ==
    Cardinality({n \in DOMAIN graph.offsets : graph.offsets[n] <= edge}) - 1

\* No edge is shorter than its ends are apart, and only a way of no length takes
\* no time: what the estimates of a search rely on.
Measured(graph) ==
    \A e \in graph.edges :
        /\ Apart(graph.position[EdgeSource(graph, e)], graph.position[graph.target[e]])
             <= graph.distance[e]
        /\ graph.distance[e] > 0 <=> graph.duration[e] > 0

\* The reverse adjacency of a Router: edges in the order of their sources.
Incoming(graph, node) == InOrder({e \in graph.edges : graph.target[e] = node})

-----------------------------------------------------------------------------
(* SpatialIndex: every segment of every edge within the radius is a         *)
(* candidate of its own; which of several equally near ones are kept is     *)
(* left to the sort.  It measures in a plane, not along the great circle.   *)

Indexed(length) == (length * Stretch[1]) \div Stretch[2]

Clamp(n, a, b) ==
    IF n < Min({a, b}) THEN Min({a, b}) ELSE IF n > Max({a, b}) THEN Max({a, b}) ELSE n

NearCandidates(graph, point, radius) ==
    LET Projected(e, k) ==
            LET a == Position[graph.line[e][k]]
                b == Position[graph.line[e][k + 1]]
            IN  <<Clamp(point[1], a[1], b[1]), Clamp(point[2], a[2], b[2])>>
        Candidate(e, k) ==
            [edge |-> e, segment |-> k, snap |-> Indexed(Apart(point, Projected(e, k))),
             along |-> Indexed(LengthTo(graph.line[e], k)
                         + Apart(Position[graph.line[e][k]], Projected(e, k)))]
    IN  {candidate \in UNION {{Candidate(e, k) : k \in 1..(Len(graph.line[e]) - 1)} :
                                 e \in graph.edges} : candidate.snap <= radius}

Nearest(graph, point, radius, maximum) ==
    LET all == NearCandidates(graph, point, radius)
    IN  {kept \in kSubset(Min({maximum, Cardinality(all)}), all) :
            \A near \in kept, far \in all \ kept : near.snap <= far.snap}

-----------------------------------------------------------------------------
(* The reference: driving from node to node along the ways *)

\* One may drive from u to v, neighbours on a way, at this cost per unit.
Drives(ways, metric) ==
    UNION {UNION {
        LET u == ways[w].nodes[i]
            v == ways[w].nodes[i + 1]
            cost == Apart(Position[u], Position[v])
                      * (IF metric = "distance" THEN 1 ELSE ways[w].pace)
        IN  (IF ways[w].oneway # "reverse" THEN {<<u, v, cost>>} ELSE {})
              \cup (IF ways[w].oneway # "forward" THEN {<<v, u, cost>>} ELSE {})
        : i \in 1..(Len(ways[w].nodes) - 1)} : w \in DOMAIN ways}

\* The least cost between any two nodes of the ways, allowing one more node
\* to be passed through at a time.
LeastCosts(ways, metric) ==
    LET nodes == UNION {ToSet(way.nodes) : way \in ToSet(ways)}
        drives == Drives(ways, metric)
        Direct(u, v) ==
            Min({Infinite} \cup {drive[3] : drive \in {d \in drives : d[1] = u /\ d[2] = v}}
                  \cup (IF u = v THEN {0} ELSE {}))
        Through(k, cost) ==
            LET Via(p) == cost[<<p[1], k>>] + cost[<<k, p[2]>>]
            IN  [p \in {q \in DOMAIN cost : Via(q) < cost[q]} |-> Via(p)] @@ cost
    IN  FoldSet(Through, [p \in nodes \X nodes |-> Direct(p[1], p[2])], nodes)

\* The least costs between the nodes of the arrays by ever more edges.
CostsOf(graph, metric) == IF metric = "distance" THEN graph.distance ELSE graph.duration
ByEdges(graph, costs) ==
    LET most == Cardinality(graph.nodes)
        by[n \in 0..most] ==
            [p \in graph.nodes \X graph.nodes |->
                IF n = 0 THEN IF p[1] = p[2] THEN 0 ELSE Infinite
                ELSE Min({by[n - 1][p]} \cup
                         {by[n - 1][<<p[1], EdgeSource(graph, e)>>] + costs[e] :
                             e \in {f \in graph.edges : graph.target[f] = p[2]}})]
    IN  by[most]

\* The arrays of a map have the paths of its ways: an edge more improves none of
\* those costs, and between the lines of two edges they are the ones to be had by
\* driving along the ways.
Represented(ways, metric) ==
    LET graph == Csr(ways)
        costs == CostsOf(graph, metric)
        by == ByEdges(graph, costs)
        least == LeastCosts(ways, metric)
    IN  /\ \A e \in graph.edges, node \in graph.nodes :
              by[<<node, graph.target[e]>>] <= by[<<node, EdgeSource(graph, e)>>] + costs[e]
        /\ \A a, b \in graph.edges :
              least[<<Last(graph.line[a]), Head(graph.line[b])>>]
                = by[<<graph.target[a], EdgeSource(graph, b)>>]

\* The lines of its edges are driven along the ways, and one begins where the
\* one before it on a path ends.
LinesDriven(ways) ==
    LET graph == Csr(ways)
        drives == {<<drive[1], drive[2]>> : drive \in Drives(ways, "distance")}
    IN  \A e \in graph.edges :
            /\ graph.line[e] # <<>>
            /\ \A i \in 1..(Len(graph.line[e]) - 1) :
                  \/ graph.line[e][i] = graph.line[e][i + 1]
                  \/ <<graph.line[e][i], graph.line[e][i + 1]>> \in drives
            /\ \A f \in graph.edges : graph.target[e] = EdgeSource(graph, f) =>
                  Last(graph.line[e]) = Head(graph.line[f])
=============================================================================
