------------------------------ MODULE Routing ------------------------------
(***************************************************************************)
(* Routes over published networks: RoadNetworkStore                        *)
(* (routing/core/src/network_store.cpp), RoutingEngine::Route with its     *)
(* candidate pairs (routing_engine.cpp) and the searches of Router         *)
(* (router.cpp): Dijkstra, A* and the bidirectional one, step by step.     *)
(*                                                                         *)
(* MapMatcher (map_matcher.cpp) has such routes found between the          *)
(* observations of a trace.                                                *)
(*                                                                         *)
(* A reader takes the network that is current and searches it while an     *)
(* operator publishes others or rolls back.                                *)
(***************************************************************************)
EXTENDS RoadNetwork

CONSTANTS
    Asks,           \* pairs of coordinates that routes are asked between
    Traces,         \* sequences of coordinates that are matched to roads
    Radius,         \* snap_radius_m
    MaxCandidates,  \* snap_candidates
    MaxObservations,\* maximum_observations
    ExpansionLimits \* values of max_expanded_nodes, maximum_transition_expansions

ASSUME SearchAssumption ==
    /\ MaxCandidates \in Nat \ {0} /\ ExpansionLimits \subseteq Nat
    /\ MaxObservations \in Nat
    /\ Asks \subseteq (Int \X Int) \X (Int \X Int)
    /\ Traces \subseteq Seq(Int \X Int) \ {<<>>}

NoMap == ""
NoNode == -1
NoEdge == -1

Algorithms == {"Dijkstra", "AStar", "Bidirectional"}
Metrics == {"distance", "duration"}
Sides == {"out", "in"}

\* What a RoadNetwork, a Router over it and its index hold, with the segments
\* near each coordinate that is asked for; and the least costs, for comparison.
Built(name, csr) ==
    [graph |-> csr,
     out   |-> [node \in csr.nodes |-> Outgoing(csr, node)],
     in    |-> [node \in csr.nodes |-> Incoming(csr, node)],
     near  |-> [point \in UNION {ToSet(line) : line \in Asks \cup Traces} |->
                   Nearest(csr, point, Radius, MaxCandidates)],
     least |-> [metric \in Metrics |-> LeastCosts(Maps[name], metric)]]
Networks == [name \in DOMAIN Maps |-> Built(name, Csr(Maps[name]))]

\* What is built of the maps is accepted: no constructor throws; and it is made
\* of distances and times.
ASSUME GraphAssumption ==
    \A name \in DOMAIN Maps : Validate(Csr(Maps[name])) /\ Measured(Csr(Maps[name]))

VARIABLES
    networks,  \* the networks that were built; they do not change
    current,   \* current_ of the store
    previous,  \* previous_
    request,   \* the reader's request: its network, what is left to try, the best
    search,    \* the search under way
    matching   \* the trace being matched: the layers of the last two observations

store == <<networks, current, previous>>
routingVars == <<current, previous, request, search, networks, matching>>

-----------------------------------------------------------------------------
(* State *)

NoRoute == [status |-> "Unreachable", distance |-> 0, duration |-> 0, snap |-> 0,
            pair |-> <<>>, line |-> <<>>]
NoRequest == [at |-> "idle", network |-> NoMap, from |-> <<>>, to |-> <<>>, algorithm |-> "Dijkstra",
              metric |-> "distance", limit |-> 0, pairs |-> {}, left |-> {}, best |-> NoRoute,
              limited |-> FALSE]
NoSearch == [source |-> NoNode, target |-> NoNode]

\* Each candidate of an observation has what it costs and the roads it is reached
\* by; `skipped` remembers the transitions whose search met the limit.
NoMatching == [trace |-> <<>>, candidates |-> <<>>, time |-> 1, layer |-> <<>>, next |-> <<>>,
               skipped |-> {}, status |-> "EmptyTrace", roads |-> <<>>]

RoutingInit ==
    /\ networks = Networks
    /\ current \in DOMAIN Maps
    /\ previous = NoMap
    /\ request = NoRequest
    /\ search = NoSearch
    /\ matching = NoMatching

graph == networks[request.network].graph

-----------------------------------------------------------------------------
(* The store *)

Publish(name) ==
    /\ current' = name
    /\ previous' = current
    /\ UNCHANGED <<networks, request, search, matching>>

Rollback ==
    /\ previous # NoMap
    /\ current' = previous
    /\ previous' = current
    /\ UNCHANGED <<networks, request, search, matching>>

-----------------------------------------------------------------------------
(* Router: the search between two nodes *)

Costs(metric) == CostsOf(graph, metric)
Weight(metric, edge) == Costs(metric)[edge]

\* The time per unit at the fastest speed of the graph, 1 m/s at least.
SlowestPace == 4
FastestPace_Slowest ==   \* mutant: the time of the slowest road
    Max({graph.duration[e] \div graph.distance[e] :
            e \in {f \in graph.edges : graph.duration[f] > 0}})
FastestPace ==
    Min({SlowestPace} \cup
        {graph.duration[e] \div graph.distance[e] :
            e \in {f \in graph.edges : graph.duration[f] > 0}})

Heuristic(node, target) ==
    Apart(graph.position[node], graph.position[target])
        * (IF request.metric = "distance" THEN 1 ELSE FastestPace)

Estimate(node, target) ==
    IF request.algorithm = "AStar" THEN Heuristic(node, target) ELSE 0

\* The work arrays, with the source, and for a bidirectional search the
\* target, in the queues.
Started(source, target) ==
    [source   |-> source,
     target   |-> target,
     cost     |-> [side \in Sides |-> [node \in graph.nodes |->
                     IF node = (IF side = "out" THEN source ELSE target)
                     THEN 0 ELSE Infinite]],
     via      |-> [side \in Sides |-> [node \in graph.nodes |-> NoEdge]],
     queue    |-> [side \in Sides |->
                     IF side = "out" THEN {<<Estimate(source, target), source>>}
                                     ELSE {<<0, target>>}],
     best     |-> Infinite,
     meeting  |-> NoNode,
     expanded |-> 0]

\* The least entry of a queue, by cost and then by node.
Top(queue) ==
    CHOOSE entry \in queue : \A other \in queue :
        \/ entry[1] < other[1]
        \/ entry[1] = other[1] /\ entry[2] <= other[2]

Edges(side, node) == networks[request.network][side][node]
Other(side, edge) == IF side = "out" THEN graph.target[edge] ELSE EdgeSource(graph, edge)
Opposite(side) == IF side = "out" THEN "in" ELSE "out"

\* An edge improves the cost of the node at its other end, or it does not.
Improves_OrEqual(candidate, known) == candidate <= known   \* mutant: ties too
Improves(candidate, known) == candidate < known

\* What the edge would make its other end cost; the node itself keeps its cost.
Reaching(side, node, edge) == search.cost[side][node] + Weight(request.metric, edge)

Relax(side, node, s, edge) ==
    LET next == Other(side, edge)
        candidate == Reaching(side, node, edge)
    IN  IF Improves(candidate, s.cost[side][next])
        THEN [s EXCEPT !.cost[side][next] = candidate,
                       !.via[side][next] = edge,
                       !.queue[side] = @ \cup
                          {<<candidate + Estimate(next, s.target), next>>}]
        ELSE s

\* A bidirectional search also looks whether the other side knows the node.
Meet(s, node, candidate) ==
    IF candidate < s.best THEN [s EXCEPT !.best = candidate, !.meeting = node] ELSE s

RelaxBoth(side, node, s, edge) ==
    LET next == Other(side, edge)
    IN  Meet(Relax(side, node, s, edge), next,
             Reaching(side, node, edge) + search.cost[Opposite(side)][next])

\* The cheaper frontier is expanded.
Frontier ==
    IF \/ request.algorithm # "Bidirectional"
       \/ Top(search.queue["out"])[1] <= Top(search.queue["in"])[1]
    THEN "out" ELSE "in"

\* Nothing left to expand can be better.
Settled ==
    Top(search.queue["out"])[1] + Top(search.queue["in"])[1] >= search.best

Exhausted ==
    IF request.algorithm = "Bidirectional"
    THEN search.queue["out"] = {} \/ search.queue["in"] = {} \/ Settled
    ELSE search.queue["out"] = {}

\* The entry at the top, and the queue without it.
Node == Top(search.queue[Frontier])[2]
Popped == [search EXCEPT !.queue[Frontier] = @ \ {Top(@)}]
Stale ==
    Top(search.queue[Frontier])[1]
        > search.cost[Frontier][Node] + Estimate(Node, search.target)
Searching == request.at \in {"route", "match"} /\ search # NoSearch

\* A node was improved after this entry was queued.
DiscardStale ==
    /\ Searching
    /\ ~Exhausted
    /\ Stale
    /\ search' = Popped
    /\ UNCHANGED <<store, request, matching>>

\* The limit counts the nodes expanded, with the target.
MayExpand == search.expanded < request.limit

Reached == request.algorithm # "Bidirectional" /\ Node = search.target

\* The edges of a node are relaxed in their order.
RelaxEdge(side, node, s, edge) ==
    IF request.algorithm = "Bidirectional" THEN RelaxBoth(side, node, s, edge)
                                           ELSE Relax(side, node, s, edge)
Relaxed(side, node, s) ==
    LET edges == Edges(side, node)
        after[k \in 0..Len(edges)] ==
            IF k = 0 THEN s ELSE RelaxEdge(side, node, after[k - 1], edges[k])
    IN  after[Len(edges)]

Expand ==
    /\ Searching
    /\ ~Exhausted
    /\ ~Stale
    /\ ~Reached
    /\ MayExpand
    /\ LET counted == [Popped EXCEPT !.expanded = @ + 1]
       IN  search' = Relaxed(Frontier, Node,
                             IF request.algorithm = "Bidirectional"
                             THEN Meet(counted, Node, search.cost["out"][Node]
                                                         + search.cost["in"][Node])
                             ELSE counted)
    /\ UNCHANGED <<store, request, matching>>

-----------------------------------------------------------------------------
(* RoutingEngine *)

\* The edges from the source to this node, back along the predecessors, and
\* from the node to the target.
Behind_Reversed(node) ==   \* mutant: the edges are not reversed
    LET edges[n \in graph.nodes] ==
            IF n = search.source \/ search.via["out"][n] = NoEdge THEN <<>>
            ELSE <<search.via["out"][n]>> \o edges[EdgeSource(graph, search.via["out"][n])]
    IN  edges[node]
Behind(node) ==
    LET edges[n \in graph.nodes] ==
            IF n = search.source \/ search.via["out"][n] = NoEdge THEN <<>>
            ELSE Append(edges[EdgeSource(graph, search.via["out"][n])],
                        search.via["out"][n])
    IN  edges[node]
Ahead(node) ==
    LET edges[n \in graph.nodes] ==
            IF n = search.target \/ search.via["in"][n] = NoEdge THEN <<>>
            ELSE <<search.via["in"][n]>> \o edges[graph.target[search.via["in"][n]]]
    IN  edges[node]

Found ==
    IF request.algorithm = "Bidirectional"
    THEN search.meeting # NoNode
    ELSE search.via["out"][search.target] # NoEdge
Path ==
    IF request.algorithm = "Bidirectional"
    THEN Behind(search.meeting) \o Ahead(search.meeting)
    ELSE Behind(search.target)

\* The sum over the edges of a path.
Total(values, path) ==
    LET upTo[k \in 0..Len(path)] ==
            IF k = 0 THEN 0 ELSE upTo[k - 1] + values[path[k]]
    IN  upTo[Len(path)]

\* How far along its edge a candidate is: no further than the edge is long, though
\* the index may have measured more.
Travelled(lengths, candidate) == Min({candidate.along, lengths[candidate.edge]})

\* The part of an edge up to a candidate and from it, in its own units.
UpTo(values, lengths, candidate) ==
    IF lengths[candidate.edge] = 0 THEN 0
    ELSE (values[candidate.edge] * Travelled(lengths, candidate)) \div lengths[candidate.edge]
From(values, lengths, candidate) ==
    values[candidate.edge] - UpTo(values, lengths, candidate)

Snap(pair) == pair.start.snap + pair.end.snap

\* The route of a pair over a path of whole edges between its two parts.
RouteOver(pair, path) ==
    LET Over(values) == From(values, graph.distance, pair.start) + Total(values, path)
                          + UpTo(values, graph.distance, pair.end)
    IN  [status   |-> "Ok",
         distance |-> Over(graph.distance),
         duration |-> Over(graph.duration),
         snap     |-> Snap(pair),
         pair     |-> pair,
         line     |-> SubSeq(graph.line[pair.start.edge], pair.start.segment + 1,
                             Len(graph.line[pair.start.edge]))
                        \o FlattenSeq([i \in DOMAIN path |-> graph.line[path[i]]])
                        \o SubSeq(graph.line[pair.end.edge], 1, pair.end.segment)]

\* Both on one edge, in the direction of travel.
RouteAlong(pair) ==
    LET Along(values) == UpTo(values, graph.distance, pair.end)
                           - UpTo(values, graph.distance, pair.start)
    IN  [status   |-> "Ok",
         distance |-> Along(graph.distance),
         duration |-> Along(graph.duration),
         snap     |-> Snap(pair),
         pair     |-> pair,
         line     |-> SubSeq(graph.line[pair.start.edge], pair.start.segment + 1,
                             pair.end.segment)]

Onwards(g, pair) ==
    /\ pair.start.edge = pair.end.edge
    /\ Travelled(g.distance, pair.start) <= Travelled(g.distance, pair.end)
IsAlong(pair) == Onwards(graph, pair)

\* What a route costs with the way to the road and from it, walked.
WalkingPace == 3
Charged(route, metric) ==
    IF metric = "distance" THEN route.distance + route.snap
                           ELSE route.duration + WalkingPace * route.snap

Better(route) ==
    \/ request.best.status # "Ok"
    \/ Charged(route, request.metric) < Charged(request.best, request.metric)

\* What is kept of a pair that is done: its route if it is better.
Keeps(route) == request.at = "route" /\ route.status = "Ok" /\ Better(route)

-----------------------------------------------------------------------------
(* MapMatcher: likelihoods are negated and scaled to integers, so that the  *)
(* likeliest roads of a trace cost least.                                   *)

Emission(candidate) == candidate.snap * candidate.snap

Unreached == [cost |-> Infinite, roads |-> <<>>]
FirstLayer(candidates) == [c \in candidates |-> [cost |-> Emission(c), roads |-> <<c>>]]

\* The candidate at the end of a pair is reached from the one at its start, if
\* there is a route and it costs less than what was found before.
Scored_Last(pair, route, limited) ==   \* mutant: the last transition that can be driven
    LET before == matching.layer[pair.start]
        cost == before.cost + Abs(route.distance - Apart(request.from, request.to))
                  + Emission(pair.end)
    IN  [matching EXCEPT
           !.skipped = IF limited THEN @ \cup {<<matching.time, pair>>} ELSE @,
           !.next[pair.end] = IF route.status = "Ok"
                              THEN [cost |-> cost, roads |-> Append(before.roads, pair.end)]
                              ELSE @]
Scored(pair, route, limited) ==
    LET before == matching.layer[pair.start]
        cost == before.cost + Abs(route.distance - Apart(request.from, request.to))
                  + Emission(pair.end)
    IN  [matching EXCEPT
           !.skipped = IF limited THEN @ \cup {<<matching.time, pair>>} ELSE @,
           !.next[pair.end] = IF route.status = "Ok" /\ cost < @.cost
                              THEN [cost |-> cost, roads |-> Append(before.roads, pair.end)]
                              ELSE @]

Broken(layer) == \A candidate \in DOMAIN layer : layer[candidate].cost >= Infinite

-----------------------------------------------------------------------------
(* Requests *)

\* A pair of candidates is done.
Tried_Again(pair, route, limited) ==   \* mutant: `continue` skips the next pair
    /\ request' = [request EXCEPT
                     !.left = IF route.status = "Ok" THEN @ \ {pair} ELSE @,
                     !.limited = @ \/ limited,
                     !.best = IF Keeps(route) THEN route ELSE @]
    /\ matching' = IF request.at = "match" THEN Scored(pair, route, limited) ELSE matching
    /\ search' = NoSearch
    /\ UNCHANGED store
Tried(pair, route, limited) ==
    /\ request' = [request EXCEPT
                     !.left = @ \ {pair},
                     !.limited = @ \/ limited,
                     !.best = IF Keeps(route) THEN route ELSE @]
    /\ matching' = IF request.at = "match" THEN Scored(pair, route, limited) ELSE matching
    /\ search' = NoSearch
    /\ UNCHANGED store

\* An engine is made of the current network, and the candidates are found.
BeginRoute(from, to, algorithm, metric, limit) ==
    /\ request.at = "idle"
    /\ \E starts \in networks[current].near[from] :
       \E ends \in networks[current].near[to] :
          LET pairs == [start : starts, end : ends]
          IN  request' = [NoRequest EXCEPT
                            !.at = "route", !.network = current,
                            !.from = from, !.to = to, !.limit = limit,
                            !.algorithm = algorithm, !.metric = metric,
                            !.best.status = IF pairs = {} THEN "InvalidNode" ELSE @,
                            !.pairs = pairs, !.left = pairs]
    /\ UNCHANGED <<store, search, matching>>

\* A trace that is too long is refused, and one with an observation that is near
\* no road.
BeginMatch(trace, limit) ==
    /\ request.at = "idle"
    /\ \E candidates \in [DOMAIN trace ->
                             UNION {networks[current].near[point] : point \in ToSet(trace)}] :
          LET status == IF Len(trace) > MaxObservations THEN "TooManyObservations"
                        ELSE IF \E t \in DOMAIN trace : candidates[t] = {} THEN "NoCandidates"
                        ELSE NoMatching.status
          IN  /\ \A t \in DOMAIN trace : candidates[t] \in networks[current].near[trace[t]]
              /\ request' = [NoRequest EXCEPT
                               !.at = IF status = NoMatching.status THEN "match" ELSE "matched",
                               !.network = current, !.algorithm = "AStar", !.limit = limit,
                               !.from = trace[1], !.to = trace[1]]
              /\ matching' = [NoMatching EXCEPT
                                !.trace = trace, !.candidates = candidates,
                                !.next = FirstLayer(candidates[1]), !.status = status]
    /\ UNCHANGED <<store, search>>

\* The next observation: each candidate that was reached with each of its own.
NextObservation ==
    /\ request.at = "match" /\ search = NoSearch /\ request.left = {}
    /\ matching.time < Len(matching.trace)
    /\ ~Broken(matching.next)
    /\ LET t == matching.time + 1
           reached == {c \in DOMAIN matching.next : matching.next[c].cost < Infinite}
           pairs == [start : reached, end : matching.candidates[t]]
       IN  /\ request' = [request EXCEPT
                            !.from = matching.trace[t - 1], !.to = matching.trace[t],
                            !.pairs = pairs, !.left = pairs]
           /\ matching' = [matching EXCEPT
                             !.time = t, !.layer = matching.next,
                             !.next = [c \in matching.candidates[t] |-> Unreached]]
    /\ UNCHANGED <<store, search>>

\* Nothing leads on, or the roads of the best candidate of the last observation
\* are the result.
EndMatch ==
    /\ request.at = "match" /\ search = NoSearch /\ request.left = {}
    /\ \/ Broken(matching.next) /\ matching' = [matching EXCEPT !.status = "NoTransition"]
       \/ /\ ~Broken(matching.next)
          /\ matching.time = Len(matching.trace)
          /\ \E best \in DOMAIN matching.next :
                /\ \A c \in DOMAIN matching.next :
                      matching.next[best].cost <= matching.next[c].cost
                /\ matching' = [matching EXCEPT !.status = "Ok",
                                                !.roads = matching.next[best].roads]
    /\ request' = [request EXCEPT !.at = "matched"]
    /\ UNCHANGED <<store, search>>

\* The next pair: on one edge, from a node to itself, or by a search.
NextPair ==
    /\ request.at \in {"route", "match"}
    /\ search = NoSearch
    /\ request.left # {}
    /\ LET pair == CHOOSE p \in request.left : TRUE
           source == graph.target[pair.start.edge]
           target == EdgeSource(graph, pair.end.edge)
       IN  \/ IsAlong(pair) /\ Tried(pair, RouteAlong(pair), FALSE)
           \/ ~IsAlong(pair) /\ source = target
                 /\ Tried(pair, RouteOver(pair, <<>>), FALSE)
           \/ /\ ~IsAlong(pair) /\ source # target
              /\ search' = Started(source, target)
              /\ UNCHANGED <<store, request, matching>>

\* The search is over.
SearchOver == Searching /\ (~Exhausted => ~Stale /\ Reached /\ MayExpand)

EndSearch ==
    /\ SearchOver
    /\ LET pair == CHOOSE p \in request.left : TRUE
       IN  Tried(pair, IF Found THEN RouteOver(pair, Path) ELSE NoRoute, FALSE)

\* Or the limit is met.
EndAtLimit ==
    /\ Searching
    /\ ~Exhausted
    /\ ~Stale
    /\ ~MayExpand
    /\ Tried(CHOOSE p \in request.left : TRUE, NoRoute, TRUE)

Answer ==
    /\ request.at = "route"
    /\ request.left = {}
    /\ request' = [request EXCEPT !.at = "answered"]
    /\ UNCHANGED <<store, search, matching>>

\* The caller goes; another request may come.
Done ==
    /\ request.at \in {"answered", "matched"}
    /\ request' = NoRequest
    /\ matching' = NoMatching
    /\ UNCHANGED <<store, search>>

-----------------------------------------------------------------------------
SearchStep == DiscardStale \/ Expand \/ EndSearch \/ EndAtLimit
RequestStep == NextPair \/ SearchStep \/ Answer \/ NextObservation \/ EndMatch

RoutingNext ==
    \/ \E name \in DOMAIN Maps : Publish(name)
    \/ Rollback
    \/ \E ask \in Asks, algorithm \in Algorithms, metric \in Metrics, limit \in ExpansionLimits :
          BeginRoute(ask[1], ask[2], algorithm, metric, limit)
    \/ \E trace \in Traces, limit \in ExpansionLimits : BeginMatch(trace, limit)
    \/ RequestStep
    \/ Done

RoutingSpec == RoutingInit /\ [][RoutingNext]_routingVars

\* The reader's thread runs.
RoutingFairSpec == RoutingSpec /\ WF_routingVars(RequestStep)

-----------------------------------------------------------------------------
(* Properties *)

RoutingTypeOK ==
    /\ DOMAIN networks = DOMAIN Maps
    /\ current \in DOMAIN Maps /\ previous \in DOMAIN Maps \cup {NoMap}
    /\ request.at \in {"idle", "route", "answered", "match", "matched"}
    /\ request.left \subseteq request.pairs
    /\ request.best.status \in {"Ok", "Unreachable", "InvalidNode"}
    /\ search # NoSearch =>
          /\ search.expanded \in 0..request.limit
          /\ \A side \in Sides :
                /\ DOMAIN search.cost[side] = graph.nodes
                /\ search.queue[side] \subseteq Nat \X graph.nodes

\* The reference: the least cost of a pair on the ways of a map: along the edge, or
\* from its end to the beginning of the other one; if there is a way.
Between(network, metric, pair) ==
    LET line == network.graph.line
    IN  network.least[metric][<<Last(line[pair.start.edge]), Head(line[pair.end.edge])>>]
Connected(network, metric, pair) ==
    Onwards(network.graph, pair) \/ Between(network, metric, pair) < Infinite
LeastOf(network, metric, pair) ==
    LET g == network.graph
        values == CostsOf(g, metric)
    IN  IF Onwards(g, pair)
        THEN UpTo(values, g.distance, pair.end) - UpTo(values, g.distance, pair.start)
        ELSE From(values, g.distance, pair.start) + Between(network, metric, pair)
               + UpTo(values, g.distance, pair.end)

Answered == request.at = "answered"

ChargedLeast(pair) ==
    LeastOf(networks[request.network], request.metric, pair)
      + Snap(pair) * (IF request.metric = "distance" THEN 1 ELSE WalkingPace)

\* A search that is over has found a cheapest path from the end of the one
\* candidate's edge to the beginning of the other's, or there is none.
PathShortest(pair) ==
    LET least == Between(networks[request.network], request.metric, pair)
    IN  /\ Found <=> least < Infinite
        /\ Found => least = Total(Costs(request.metric), Path)

\* Whatever the algorithm, every search finds a cheapest path, and an answer
\* is a cheapest route between the candidates, by the ways of the network
\* current when the request began; there is none only if no pair is connected.
RouteShortest ==
    /\ SearchOver => PathShortest(CHOOSE p \in request.left : TRUE)
    /\ Answered /\ ~request.limited =>
        LET connected == {pair \in request.pairs :
                             Connected(networks[request.network], request.metric, pair)}
        IN  IF connected = {} THEN request.best.status # "Ok"
            ELSE /\ request.best.status = "Ok"
                 /\ Charged(request.best, request.metric)
                      = Min({ChargedLeast(pair) : pair \in connected})

\* The line of an answer can be driven: each node follows the one before it on
\* a way that may be driven in that direction.
RouteDrivable ==
    LET line == request.best.line
        drives == {<<drive[1], drive[2]>> :
                      drive \in Drives(Maps[request.network], "distance")}
    IN  Answered =>
            \A i \in 1..(Len(line) - 1) :
                line[i] = line[i + 1] \/ <<line[i], line[i + 1]>> \in drives

\* What a choice of roads costs, observation by observation: how far each is from
\* its observation, and how far the least way there is from the distance observed.
Transition(network, trace, t, before, after) ==
    LET pair == [start |-> before, end |-> after]
    IN  IF ~Connected(network, "distance", pair) THEN Infinite
        ELSE Abs(LeastOf(network, "distance", pair) - Apart(trace[t - 1], trace[t]))
Unlikelihood(network, trace, roads) ==
    LET upTo[t \in DOMAIN trace] ==
            Emission(roads[t])
              + (IF t = 1 THEN 0
                 ELSE upTo[t - 1] + Transition(network, trace, t, roads[t - 1], roads[t]))
    IN  upTo[Len(trace)]

\* A transition whose search met the limit was passed over.
Skips(skipped, roads, n) ==
    \E t \in 2..n : <<t, [start |-> roads[t - 1], end |-> roads[t]]>> \in skipped

\* A matched trace is a likeliest one: of the choices of a candidate for each
\* observation that can be driven, and need no transition whose search met the
\* limit, none costs less; and a trace fails only if there is no such choice.
MatchLikeliest ==
    LET trace == matching.trace
        CostOf(roads) == Unlikelihood(networks[request.network], trace, roads)
        Selections == {roads \in [DOMAIN trace -> UNION Range(matching.candidates)] :
                       \A t \in DOMAIN roads : roads[t] \in matching.candidates[t]}
        Likely == {roads \in Selections : /\ CostOf(roads) < Infinite
                                          /\ ~Skips(matching.skipped, roads, Len(trace))}
    IN  request.at = "matched" /\ Len(trace) <= MaxObservations =>
            IF Likely = {} THEN matching.status \in {"NoCandidates", "NoTransition"}
            ELSE /\ matching.status = "Ok" /\ matching.roads \in Likely
                 /\ \A roads \in Likely : CostOf(matching.roads) <= CostOf(roads)

\* No search expands a node twice from the same side, so that the limit bounds
\* the nodes a request looks at: with A* because its estimates are consistent.
ExpandsOnce ==
    Searching =>
        search.expanded <=
            Cardinality(graph.nodes) * (IF request.algorithm = "Bidirectional" THEN 2 ELSE 1)

\* Every request is answered.
RequestsAnswered == request.at \in {"route", "match"} ~> request.at \in {"answered", "matched"}

\* A route that was not looked for to the end is not reported as one that does
\* not exist: refuted when the limit is met (see the README).
LimitReported == Answered /\ request.best.status = "Unreachable" => ~request.limited

\* A route of no length along an edge ends where it begins: refuted where both ends
\* are beyond the end of the edge by the index's measure (see the README).
NeverBackwards ==
    LET pair == request.best.pair
    IN  /\ Answered /\ request.best.status = "Ok" /\ request.best.distance = 0
        /\ pair.start.edge = pair.end.edge
        => pair.start.along <= pair.end.along

\* If a road near each end leads from one to the other, a route is found:
\* refuted, as segments of one edge may fill the candidates (see the README).
ConnectedFound ==
    Answered /\ ~request.limited /\ request.best.status = "Unreachable" =>
        \A start \in NearCandidates(graph, request.from, Radius),
           end \in NearCandidates(graph, request.to, Radius) :
            ~Connected(networks[request.network], request.metric, [start |-> start, end |-> end])
=============================================================================
