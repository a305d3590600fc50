----------------------------- MODULE ShadedRoutes ----------------------------
(***************************************************************************)
(* /routes/shaded: one request answered with searches of the router, one   *)
(* for the taste asked for, one for the shortest walk, and a sweep of      *)
(* tastes from which the alternatives are picked.                          *)
(*                                                                         *)
(* alpha and beta are in halves.  A search is repeated whole for each      *)
(* taste; between searches the leg found is put away.                      *)
(***************************************************************************)
EXTENDS Routing, SequencesExt

CONSTANTS
    Requests,      \* [alpha, beta, night, alternatives, snaps]
    SweptAlphas,   \* ALTERNATIVE_ALPHAS, in halves
    NoLeg

(* Walks are swept from the shortest on, and no edge costs as much as what *)
(* stands for infinity, at whatever price a request may ask for it.        *)
ASSUME RoutesAssumption ==
    /\ 0 \in SweptAlphas /\ SweptAlphas \subseteq Nat
    /\ \A r \in Requests : /\ {r.alpha, r.beta} \subseteq Nat
                           /\ {r.night, r.alternatives} \subseteq BOOLEAN
    /\ \A r \in Requests : \A step \in SweptAlphas \cup {r.alpha} :
         \A g \in Streets : \A e \in DOMAIN g.edges :
            (4 + 2 * step) * (1 + r.alpha + r.beta) * g.edges[e].len < Infinity

VARIABLES
    request,
    asking,        \* what the search under way is for: Taste, Bare, or an alpha
    shaded,        \* the leg of the taste asked for
    shortest,      \* the leg of the shortest walk
    swept,         \* the sweep: <<alpha, leg>>, in the order of alpha
    response       \* pending, ok, night, 400, 503

routeVars == <<request, asking, shaded, shortest, swept, response>>

-----------------------------------------------------------------------------
(* In the dark every edge is out of the sun and out of the trees.          *)
Lit(share) == IF request.night THEN 0 ELSE share

(* assemble_spans: what a leg is charged, in halves of a metre; a part of  *)
(* an edge is charged the shares of the whole.                             *)
SpanSun(span)    == Lit(Edge(span.edge).sun) * Walked(span)
SpanCanopy(span) == Lit(Edge(span.edge).veg) * Walked(span)

Leg(spans) ==
    [spans |-> spans, length |-> Total(Walked, spans),
     sun |-> Total(SpanSun, spans), canopy |-> Total(SpanCanopy, spans)]

(* Alpha taken for the price of half a metre.                              *)
WeightsDoubled(alpha, beta) == [least |-> 4, base |-> 4, sun |-> 2 * alpha, other |-> beta]

(* 1 + alpha * sun + beta * other, times four.                             *)
Weights(alpha, beta) == [least |-> 4, base |-> 4, sun |-> alpha, other |-> beta]

(* What a night leaves of a taste: nothing is in the sun, and all of it is *)
(* other shade, at every metre the same.                                   *)
NightWeights(beta) == [least |-> 4, base |-> 4 + 2 * beta, sun |-> 0, other |-> 0]

(* The sweep keeps the ratio of beta to alpha; times the alpha asked for.  *)
SweepWeights(step) ==
    IF request.alpha = 0 THEN Weights(step, 0)
    ELSE [least |-> 4 * request.alpha, base |-> 4 * request.alpha,
          sun |-> step * request.alpha, other |-> request.beta * step]

Taste == -2
Bare == -1

SweepSteps == SweptAlphas \cup {request.alpha}
StepsAfter(step) == {a \in SweepSteps : a > step}

Searched(weights, purpose) ==
    /\ asking' = purpose
    /\ price' = weights
    /\ search' = "idle" /\ dist' = <<>> /\ pred' = <<>> /\ settled' = {}
    /\ frontier' = {} /\ best' = Infinity /\ entry' = Target
    /\ UNCHANGED <<graph, from, to>>

RequestInit ==
    /\ request \in Requests
    /\ asking = Taste
    /\ shaded = NoLeg /\ shortest = NoLeg /\ swept = <<>>
    /\ response = "pending"
    /\ price = IF request.night THEN NightWeights(request.beta)
               ELSE Weights(request.alpha, request.beta)
    /\ RoutingIdle

(* Sun must stay at least as unwelcome as a building's shade.              *)
Malformed == request.beta > request.alpha

(* Refused before any search: a taste that makes no sense, no graph, or a  *)
(* point further than the snap may reach.                                  *)
Refuse ==
    /\ response = "pending" /\ asking = Taste /\ search = "idle"
    /\ Malformed \/ request.graph = "absent" \/ request.snaps = "far"
    /\ response' = IF ~Malformed /\ request.graph = "absent" THEN "503" ELSE "400"
    /\ UNCHANGED <<request, asking, shaded, shortest, swept, routingVars>>

Search ==
    /\ response = "pending" /\ ~SamePin
    /\ ~Malformed /\ request.graph = "built" /\ request.snaps = "near"
    /\ SearchNext
    /\ UNCHANGED routeVars

NoRoute ==
    /\ response = "pending" /\ search = "failed"
    /\ response' = "400"
    /\ UNCHANGED <<request, asking, shaded, shortest, swept, routingVars>>

(* Both pins on one spot of an edge: a leg of no length, and no search.    *)
StandStill ==
    /\ response = "pending" /\ search = "idle" /\ SamePin
    /\ ~Malformed /\ request.graph = "built" /\ request.snaps = "near"
    /\ shaded' = Leg(<<>>) /\ shortest' = Leg(<<>>)
    /\ response' = IF request.night THEN "night" ELSE "ok"
    /\ UNCHANGED <<request, asking, swept, routingVars>>

Prefers == request.alpha > 0 \/ request.beta > 0

(* Whether the walk asked for leaves anything to compare with another.     *)
Trades == ~request.night /\ Spans # <<>>

Finish ==
    /\ response' = IF request.night THEN "night" ELSE "ok"
    /\ UNCHANGED <<routingVars, asking>>

(* The walk of the taste asked for; without a preference, or at night, it  *)
(* is the shortest one too.                                                *)
KeepShaded ==
    /\ response = "pending" /\ search = "found" /\ asking = Taste
    /\ shaded' = Leg(Spans)
    /\ IF Prefers /\ Trades
       THEN /\ Searched(Weights(0, 0), Bare)
            /\ UNCHANGED <<shortest, response>>
       ELSE /\ shortest' = Leg(Spans)
            /\ IF request.alternatives /\ Trades
               THEN Searched(SweepWeights(Min(SweepSteps)), Min(SweepSteps)) /\ UNCHANGED response
               ELSE Finish
    /\ UNCHANGED <<request, swept>>

KeepShortest ==
    /\ response = "pending" /\ search = "found" /\ asking = Bare
    /\ shortest' = Leg(Spans)
    /\ IF request.alternatives
       THEN Searched(SweepWeights(Min(SweepSteps)), Min(SweepSteps)) /\ UNCHANGED response
       ELSE Finish
    /\ UNCHANGED <<request, shaded, swept>>

(* A walk the sweep has already found keeps the smallest alpha it had.     *)
KeepSwept ==
    /\ response = "pending" /\ search = "found" /\ asking \in SweepSteps
    /\ swept' = IF \E i \in DOMAIN swept : swept[i][2].spans = Spans THEN swept
                ELSE Append(swept, <<asking, Leg(Spans)>>)
    /\ IF StepsAfter(asking) # {}
       THEN LET step == Min(StepsAfter(asking))
            IN  Searched(SweepWeights(step), step) /\ UNCHANGED response
       ELSE Finish
    /\ UNCHANGED <<request, shaded, shortest>>

RouteNext ==
    Refuse \/ Search \/ NoRoute \/ StandStill \/ KeepShaded \/ KeepShortest \/ KeepSwept

(* Any request, between any two points of any graph.                       *)
RouteSpec ==
    /\ graph \in Streets /\ from \in PointsOf(graph) /\ to \in PointsOf(graph)
    /\ RequestInit
    /\ [][RouteNext]_<<routingVars, routeVars>>

-----------------------------------------------------------------------------
(* _pareto_front: the shortest first, of equal ones the least in the sun,  *)
(* and of those the first found; and then only what cuts the sun of the    *)
(* last one kept by a twentieth.                                           *)
Sooner(a, b) == \/ a[2].length < b[2].length
                \/ a[2].length = b[2].length /\ a[2].sun < b[2].sun

Placed(ranked, offer) ==
    InsertAt(ranked, Min({i \in 1..Len(ranked) + 1 :
                            \A j \in i..Len(ranked) : Sooner(offer, ranked[j])}), offer)

Ranked ==
    LET upto[i \in 0..Len(swept)] == IF i = 0 THEN <<>> ELSE Placed(upto[i - 1], swept[i])
    IN  upto[Len(swept)]

(* Any difference, however small.                                          *)
CutsABit(leg, incumbent) == leg.sun <= incumbent.sun

Cuts(leg, incumbent) ==
    leg.sun < incumbent.sun /\ 20 * (incumbent.sun - leg.sun) >= incumbent.sun

Kept(front, offer) ==
    IF front = <<>> \/ Cuts(offer[2], Last(front)[2]) THEN Append(front, offer) ELSE front

ParetoFront ==
    LET upto[i \in 0..Len(Ranked)] == IF i = 0 THEN <<>> ELSE Kept(upto[i - 1], Ranked[i])
    IN  upto[Len(Ranked)]

Answered200 == response \in {"ok", "night"}

Offered == IF swept = <<>> THEN <<<<0, shortest>>>> ELSE ParetoFront

-----------------------------------------------------------------------------
(* What a walker is offered: never longer than alpha allows of the         *)
(* shortest walk, never shorter than it, and, unless trees were asked for, *)
(* never more in the sun.                                                  *)
TasteIsATradeOff ==
    Answered200 =>
        /\ shortest.length <= shaded.length
        /\ 2 * shaded.length <= (2 + request.alpha) * shortest.length
        /\ request.beta = 0 => shaded.sun <= shortest.sun

(* Each alternative is a choice: the first is as short as any walk, each   *)
(* next one longer and at least a twentieth less in the sun; and none of   *)
(* the walks left out is as short as an offer and clearly less sunny.      *)
OffersAreChoices ==
    Answered200 /\ request.alternatives =>
        /\ Offered[1][2].length = shortest.length
        /\ \A i \in 1..Len(Offered) - 1 :
             LET a == Offered[i][2]
                 b == Offered[i + 1][2]
             IN  a.length < b.length /\ 20 * b.sun <= 19 * a.sun /\ b.sun < a.sun
        /\ \A i \in DOMAIN swept : \E j \in DOMAIN Offered :
             /\ Offered[j][2].length <= swept[i][2].length
             /\ 19 * Offered[j][2].sun <= 20 * swept[i][2].sun

(* What is offered is worth the walk it asks for.                          *)
OffersAreFair == TasteIsATradeOff /\ OffersAreChoices
=============================================================================
