------------------------------- MODULE Routing -------------------------------
(***************************************************************************)
(* A* between two points of edges of a walking graph, as the router runs   *)
(* it: nodes seeded with what it costs to reach them from the origin, a    *)
(* virtual destination entered through the nodes next to it, and the walk  *)
(* straight along a shared edge competing in the queue.                    *)
(*                                                                         *)
(* Places are whole metres on a line, so distances are exact; an edge is   *)
(* at least as long as the distance between its ends.  Shares of sun and   *)
(* of canopy are halves; a price is per metre, so part of an edge costs    *)
(* its share of it.                                                        *)
(***************************************************************************)
EXTENDS Integers, Sequences, FiniteSets, FiniteSetsExt

CONSTANTS
    Streets,     \* the graphs there may be
    Target,      \* the virtual destination, below every node
    Infinity,    \* above every cost
    NoHop        \* how a seed was reached

(* A graph: place, the metre each node is at, and edges, a sequence of     *)
(* [u, v, len, sun, veg].  A point is <<edge, metres from its end u>>.     *)
ASSUME RoutingAssumption ==
    /\ Target = -1 /\ Infinity \in Nat /\ NoHop \notin Nat \X Nat
    /\ \A g \in Streets :
         /\ IsFiniteSet(DOMAIN g.place) /\ DOMAIN g.place \subseteq Nat
         /\ \A n \in DOMAIN g.place : g.place[n] \in Int
         /\ DOMAIN g.edges \subseteq Nat
    /\ \A g \in Streets : \A e \in DOMAIN g.edges :
         /\ {g.edges[e].u, g.edges[e].v} \subseteq DOMAIN g.place
         /\ g.edges[e].u # g.edges[e].v
         /\ g.edges[e].len \in Nat \ {0}
         /\ {g.edges[e].sun, g.edges[e].veg} \subseteq 0..2
         /\ g.edges[e].len >= g.place[g.edges[e].u] - g.place[g.edges[e].v]
         /\ g.edges[e].len >= g.place[g.edges[e].v] - g.place[g.edges[e].u]

(* The points of a graph's edges.                                          *)
PointsOf(g) == UNION {{e} \X (0..g.edges[e].len) : e \in DOMAIN g.edges}

VARIABLES
    graph,      \* the network
    from, to,   \* the points, snapped to it
    price,      \* [least, base, sun, other]: the least a metre may cost, what
                \* it does, and each half of it in the sun or in other shade
    search,     \* idle, searching, found, failed
    dist,       \* node -> the cheapest way known to reach it
    pred,       \* node -> <<edge, node before>>, or NoHop
    settled,
    frontier,   \* the queue: <<cost and heuristic, node>>
    best,       \* the cheapest arrival pushed
    entry       \* the node it enters the last edge from

routingVars ==
    <<graph, from, to, price, search, dist, pred, settled, frontier, best, entry>>

-----------------------------------------------------------------------------
Nodes == DOMAIN graph.place
Edges == DOMAIN graph.edges
Edge(e) == graph.edges[e]

Gap(a, b) == IF a < b THEN b - a ELSE a - b
NotNegative(n) == IF n < 0 THEN 0 ELSE n

(* Shade cast by anything but a tree; the clip absorbs quantization.       *)
OtherShade(e) == NotNegative(2 - Edge(e).sun - Edge(e).veg)

PricePerMetre(e) == price.base + price.sun * Edge(e).sun + price.other * OtherShade(e)

Cost(e) == PricePerMetre(e) * Edge(e).len

(* The metre a point is at: an edge that is longer than the gap between    *)
(* its ends bends, and its points are put within the ends.                 *)
PlaceOf(point) ==
    LET e == Edge(point[1])
        u == graph.place[e.u]
        v == graph.place[e.v]
        along == IF point[2] < Gap(u, v) THEN point[2] ELSE Gap(u, v)
    IN  IF u <= v THEN u + along ELSE u - along

(* As if the last stretch cost twice what it may.                          *)
HeuristicDoubled(n) == 2 * price.least * Gap(graph.place[n], PlaceOf(to))

(* Straight to the destination at the least a metre may cost.              *)
Heuristic(n) == price.least * Gap(graph.place[n], PlaceOf(to))

(* A point measured from the far end of its edge.                          *)
StubSwapped(point, n) ==
    PricePerMetre(point[1])
      * (IF n = Edge(point[1]).u THEN Edge(point[1]).len - point[2] ELSE point[2])

(* What it costs to leave the origin, or enter the destination, by an end. *)
Stub(point, n) ==
    PricePerMetre(point[1])
      * (IF n = Edge(point[1]).u THEN point[2] ELSE Edge(point[1]).len - point[2])

Ends(point) == {Edge(point[1]).u, Edge(point[1]).v}

Together == from[1] = to[1]

Direct == IF Together THEN PricePerMetre(from[1]) * Gap(from[2], to[2]) ELSE Infinity

Neighbours(n) ==
    {<<e, Edge(e).v>> : e \in {d \in Edges : Edge(d).u = n}}
      \cup {<<e, Edge(e).u>> : e \in {d \in Edges : Edge(d).v = n}}

(* The smallest cost and, of equal ones, the smallest node.                *)
First == CHOOSE a \in frontier : \A b \in frontier :
            a[1] < b[1] \/ (a[1] = b[1] /\ a[2] <= b[2])

-----------------------------------------------------------------------------
RoutingIdle ==
    /\ search = "idle"
    /\ dist = <<>> /\ pred = <<>> /\ settled = {} /\ frontier = {}
    /\ best = Infinity /\ entry = Target

(* astar_points: two pins on one spot of one edge are no search at all.    *)
SamePin == Together /\ from[2] = to[2]

StartSearch ==
    /\ search = "idle"
    /\ search' = "searching"
    /\ dist' = [n \in Nodes |-> IF n \in Ends(from) THEN Stub(from, n) ELSE Infinity]
    /\ pred' = [n \in Nodes |-> NoHop]
    /\ settled' = {}
    /\ frontier' = {<<Stub(from, n) + Heuristic(n), n>> : n \in Ends(from)}
                     \cup (IF Together THEN {<<Direct, Target>>} ELSE {})
    /\ best' = Direct /\ entry' = Target
    /\ UNCHANGED <<graph, from, to, price>>

(* The destination comes out of the queue: nothing left in it is cheaper.  *)
Arrive ==
    /\ search = "searching" /\ frontier # {} /\ First[2] = Target
    /\ search' = "found"
    /\ UNCHANGED <<graph, from, to, price, dist, pred, settled, frontier, best, entry>>

SkipSettled ==
    /\ search = "searching" /\ frontier # {} /\ First[2] \in settled
    /\ frontier' = frontier \ {First}
    /\ UNCHANGED <<graph, from, to, price, search, dist, pred, settled, best, entry>>

(* The edges that improve on a neighbour, each with what it would cost;    *)
(* in their order, a later one of equal cost does not replace it.          *)
Offers(n, m) == {<<dist[n] + Cost(h[1]), h[1]>> : h \in {k \in Neighbours(n) : k[2] = m}}

Cheapest(offers) == CHOOSE a \in offers : \A b \in offers :
                        a[1] < b[1] \/ (a[1] = b[1] /\ a[2] <= b[2])

Improved(n) ==
    {m \in {h[2] : h \in Neighbours(n)} \ (settled \cup {n}) :
        Cheapest(Offers(n, m))[1] < dist[m]}

(* The intermediate entries a costlier parallel edge pushes are left out:  *)
(* they are popped after the node is settled, and skipped.                 *)
Settle ==
    /\ search = "searching" /\ frontier # {}
    /\ LET n == First[2]
           arrival == IF n \in Ends(to) THEN dist[n] + Stub(to, n) ELSE Infinity
       IN  /\ n # Target /\ n \notin settled
           /\ settled' = settled \cup {n}
           /\ best' = IF arrival < best THEN arrival ELSE best
           /\ entry' = IF arrival < best THEN n ELSE entry
           /\ dist' = [m \in Nodes |-> IF m \in Improved(n) THEN Cheapest(Offers(n, m))[1]
                                                            ELSE dist[m]]
           /\ pred' = [m \in Nodes |-> IF m \in Improved(n)
                                       THEN <<Cheapest(Offers(n, m))[2], n>> ELSE pred[m]]
           /\ frontier' = (frontier \ {First})
                            \cup (IF arrival < best THEN {<<arrival, Target>>} ELSE {})
                            \cup {<<dist'[m] + Heuristic(m), m>> : m \in Improved(n)}
    /\ UNCHANGED <<graph, from, to, price, search>>

RunDry ==
    /\ search = "searching" /\ frontier = {}
    /\ search' = "failed"
    /\ UNCHANGED <<graph, from, to, price, dist, pred, settled, frontier, best, entry>>

SearchNext == StartSearch \/ Arrive \/ SkipSettled \/ Settle \/ RunDry

-----------------------------------------------------------------------------
(* A span: an edge walked from one metre of it to another.                 *)
Span(e, a, b) == [edge |-> e, from |-> a, to |-> b]

Whole(e, n) == IF n = Edge(e).u THEN Span(e, 0, Edge(e).len) ELSE Span(e, Edge(e).len, 0)

At(e, n) == IF n = Edge(e).u THEN 0 ELSE Edge(e).len

(* _hops_from: predecessors back to a seed, as the spans walked to a node. *)
HopsTo ==
    LET walk[left \in 0..Cardinality(Nodes)] ==
          [n \in Nodes |->
              IF pred[n] = NoHop \/ left = 0 THEN <<>>
              ELSE Append(walk[left - 1][pred[n][2]], Whole(pred[n][1], pred[n][2]))]
    IN  walk[Cardinality(Nodes)]

Seed ==
    LET back[left \in 0..Cardinality(Nodes)] ==
          [n \in Nodes |-> IF pred[n] = NoHop \/ left = 0 THEN n ELSE back[left - 1][pred[n][2]]]
    IN  back[Cardinality(Nodes)]

(* A stretch too short to walk is dropped: the pin sat on a node.          *)
Stretch(e, a, b) == IF a = b THEN <<>> ELSE <<Span(e, a, b)>>

Spans ==
    IF SamePin THEN <<>>
    ELSE IF entry = Target THEN <<Span(from[1], from[2], to[2])>>
    ELSE Stretch(from[1], from[2], At(from[1], Seed[entry]))
           \o HopsTo[entry]
           \o Stretch(to[1], At(to[1], entry), to[2])

Walked(span) == Gap(span.from, span.to)

Added(values) ==
    LET upto[i \in 0..Len(values)] == IF i = 0 THEN 0 ELSE upto[i - 1] + values[i]
    IN  upto[Len(values)]

Total(measure(_), spans) == Added([i \in 1..Len(spans) |-> measure(spans[i])])

SpanCost(span) == PricePerMetre(span.edge) * Walked(span)

-----------------------------------------------------------------------------
(* Every walk from the origin, over edges taken whole, relaxed as often as *)
(* there are nodes: what a node costs to reach, whatever order A* took.    *)
Reference ==
    LET reach[k \in 0..Cardinality(Nodes)] ==
          IF k = 0
          THEN [n \in Nodes |-> IF n \in Ends(from) THEN Stub(from, n) ELSE Infinity]
          ELSE [n \in Nodes |-> Min({reach[k - 1][n]}
                   \cup {reach[k - 1][h[2]] + Cost(h[1]) : h \in Neighbours(n)})]
    IN  reach[Cardinality(Nodes)]

Optimum == Min({Direct} \cup {Reference[n] + Stub(to, n) : n \in Ends(to)})

NodeAt(span, s) == IF s = 0 THEN Edge(span.edge).u
                   ELSE IF s = Edge(span.edge).len THEN Edge(span.edge).v ELSE Target

LeavesFrom(span) ==
    \/ span.edge = from[1] /\ span.from = from[2]
    \/ \E n \in Ends(from) : Stub(from, n) = 0 /\ n = NodeAt(span, span.from)

LeadsTo(span) ==
    \/ span.edge = to[1] /\ span.to = to[2]
    \/ \E n \in Ends(to) : Stub(to, n) = 0 /\ n = NodeAt(span, span.to)

Joined(a, b) ==
    NodeAt(a, a.to) # Target /\ NodeAt(a, a.to) = NodeAt(b, b.from)

(* The route found costs what the cheapest walk costs, and is that walk:   *)
(* the spans cost as much, each begins where the last one ended, and they  *)
(* lead from one point to the other.  A search fails only when no walk     *)
(* connects them.                                                          *)
RouteIsCheapest ==
    /\ search = "failed" => Optimum >= Infinity
    /\ search = "found" =>
         /\ best = Optimum
         /\ Total(SpanCost, Spans) = Optimum
         /\ \A i \in 1..Len(Spans) - 1 : Joined(Spans[i], Spans[i + 1])
         /\ Spans # <<>> => LeavesFrom(Spans[1]) /\ LeadsTo(Spans[Len(Spans)])

(* A node is settled once, at its true cost: what lets the search stop at  *)
(* the first arrival that comes out of the queue.                          *)
SettledIsExact ==
    search # "idle" => \A n \in settled : dist[n] = Reference[n]

(* A* is exact: what it settles, and the route it returns.                 *)
SearchIsExact == SettledIsExact /\ RouteIsCheapest
=============================================================================
