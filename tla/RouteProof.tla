----------------------------- MODULE RouteProof -----------------------------
(***************************************************************************)
(* For every graph, price and pair of points the router's searches are     *)
(* exact.                                                                  *)
(*                                                                         *)
(* What a search is given is put in one record, Network, and the argument  *)
(* about it is made of any such record: what is settled is no further than *)
(* anything in the queue, nothing that could get nearer is missing from    *)
(* it (Explored), so no walk of any number of hops reaches a node for less *)
(* (WalksAreBounded); whatever is known of a node is a walk there is, of   *)
(* as many hops as have been settled (Trodden), traced back to a seed      *)
(* (Traced).  The walk returned is then put together again from the        *)
(* predecessors, span by span.                                             *)
(*                                                                         *)
(* And what a request is offered is fair.  Which walks there are does not  *)
(* depend on a price (Passes), so the searches of one request choose among *)
(* the same ones, each the cheapest at its own price (FoundIsCheapest); a  *)
(* walk costs by its length, its sun and its other shade (WhatAWalkIs),    *)
(* and two that each beat the other at their own price bound one another   *)
(* (TradeOff).  Ranking by insertion keeps what is ranked and its order,   *)
(* and the front keeps one to answer for each that it leaves out.          *)
(***************************************************************************)
EXTENDS ShadedRoutes, Numbers, FiniteSetTheorems, SequenceTheorems, TLAPS

-----------------------------------------------------------------------------
(* What a search is given of a graph, two points and a price: near[n] are  *)
(* the hops from a node, ahead[n] what is left at the least, leave[n] and  *)
(* enter[n] what it costs to come from the origin and to go to the         *)
(* destination.  A hop costs as much either way, and brings what is left   *)
(* down by no more than it costs.                                          *)
IsNetwork(G) ==
    /\ IsFiniteSet(G.nodes) /\ G.nodes \subseteq Nat
    /\ G.seeds \subseteq G.nodes /\ G.goals \subseteq G.nodes
    /\ G.direct \in Nat /\ G.direct <= Infinity
    /\ \A n \in G.seeds : G.leave[n] \in Nat /\ G.leave[n] < Infinity
    /\ \A n \in G.nodes : G.ahead[n] \in Nat
    /\ \A n \in G.goals : G.enter[n] \in Nat /\ G.ahead[n] <= G.enter[n]
    /\ \A n \in G.nodes : \A h \in G.near[n] :
         /\ h = <<h[1], h[2]>> /\ h[1] \in Nat /\ h[2] \in G.nodes /\ h[2] # n
         /\ <<h[1], n>> \in G.near[h[2]]
         /\ G.cost[h[1]] \in Nat /\ G.ahead[n] <= G.cost[h[1]] + G.ahead[h[2]]

(* Each round takes one hop more.                                          *)
Relaxes(G, r, N) ==
    /\ r \in [0..N -> [G.nodes -> Nat]]
    /\ \A n \in G.nodes : r[0][n] = IF n \in G.seeds THEN G.leave[n] ELSE Infinity
    /\ \A k \in 1..N : \A n \in G.nodes :
         /\ r[k][n] <= r[k - 1][n]
         /\ \A h \in G.near[n] : r[k][n] <= r[k - 1][h[2]] + G.cost[h[1]]
         /\ \/ r[k][n] = r[k - 1][n]
            \/ \E h \in G.near[n] : r[k][n] = r[k - 1][h[2]] + G.cost[h[1]]

(* What is settled is not further than anything in the queue, nothing that *)
(* could get nearer is missing from it, and a hop from what is settled has *)
(* been tried; so have the ends of it, and the queue holds the best.       *)
Explored(G, d, s, f, b) ==
    /\ d \in [G.nodes -> Nat] /\ s \subseteq G.nodes
    /\ b \in Nat /\ b <= G.direct
    /\ \A n \in G.nodes : d[n] <= Infinity
    /\ \A n \in G.seeds : d[n] <= G.leave[n]
    /\ \A n \in s : d[n] < Infinity
    /\ \A a \in f : /\ a[1] \in Nat
                    /\ \/ a[2] = Target /\ b <= a[1]
                       \/ /\ a[2] \in G.nodes /\ d[a[2]] < Infinity
                          /\ d[a[2]] + G.ahead[a[2]] <= a[1]
    /\ \A n \in s : \A a \in f : d[n] + G.ahead[n] <= a[1]
    /\ \A n \in G.nodes \ s : d[n] < Infinity => <<d[n] + G.ahead[n], n>> \in f
    /\ \A n \in s : \A h \in G.near[n] : d[h[2]] <= d[n] + G.cost[h[1]]
    /\ \A n \in s \cap G.goals : b <= d[n] + G.enter[n]
    /\ b < Infinity => <<b, Target>> \in f

(* No walk is cheaper than what is settled or can be settled next.         *)
Bounded(G, d, s, f, v, n) ==
    \/ n \in s /\ d[n] <= v
    \/ v >= Infinity
    \/ \E a \in f : a[1] <= v + G.ahead[n]

(* One hop more keeps it so.                                               *)
LEMMA BoundedOnward ==
  ASSUME NEW G, IsNetwork(G), NEW d, NEW s, NEW f, NEW b, Explored(G, d, s, f, b),
         NEW n \in G.nodes, NEW h \in G.near[n], NEW v \in Nat,
         Bounded(G, d, s, f, v, h[2])
  PROVE  Bounded(G, d, s, f, v + G.cost[h[1]], n)
<1>1. PICK m \in G.nodes : m = h[2]
  BY DEF IsNetwork
<1>2. PICK c \in Nat : c = G.cost[h[1]] /\ <<h[1], n>> \in G.near[m] /\ G.ahead[m] <= c + G.ahead[n]
  <2>1. /\ h = <<h[1], h[2]>> /\ h[2] \in G.nodes /\ <<h[1], n>> \in G.near[h[2]]
        /\ G.cost[h[1]] \in Nat
    BY DEF IsNetwork
  <2>2. PICK k \in G.near[m] : k[1] = h[1] /\ k[2] = n
    BY <1>1, <2>1
  <2>3. G.ahead[m] <= G.cost[k[1]] + G.ahead[k[2]]
    BY <2>2 DEF IsNetwork
  <2> QED
    BY <1>1, <2>1, <2>2, <2>3
<1>3. G.ahead[n] \in Nat /\ G.ahead[m] \in Nat /\ Infinity \in Nat
  BY RoutingAssumption DEF IsNetwork
<1>4. CASE m \in s /\ d[m] <= v
  <2>1. PICK k \in G.near[m] : k[1] = h[1] /\ k[2] = n
    BY <1>2
  <2>2. d[n] <= d[m] + c
    BY <1>2, <1>4, <2>1 DEF Explored
  <2>3. d[n] \in Nat /\ d[m] \in Nat
    BY DEF Explored
  <2>4. d[n] <= v + c
    BY <1>2, <1>4, <2>2, <2>3
  <2>5. CASE n \in s
    BY <1>2, <2>4, <2>5 DEF Bounded
  <2>6. CASE n \notin s /\ d[n] < Infinity
    <3>1. <<d[n] + G.ahead[n], n>> \in f
      BY <2>6 DEF Explored
    <3>2. d[n] + G.ahead[n] <= (v + c) + G.ahead[n]
      BY <1>2, <1>3, <2>3, <2>4
    <3>3. PICK a \in f : a[1] = d[n] + G.ahead[n]
      BY <3>1
    <3> QED
      BY <1>2, <3>2, <3>3 DEF Bounded
  <2>7. CASE d[n] >= Infinity
    BY <1>2, <1>3, <2>3, <2>4, <2>7 DEF Bounded
  <2> QED
    BY <1>3, <2>3, <2>5, <2>6, <2>7
<1>5. CASE v >= Infinity
  BY <1>2, <1>3, <1>5 DEF Bounded
<1>6. CASE \E a \in f : a[1] <= v + G.ahead[m]
  <2>1. PICK a \in f : a[1] <= v + G.ahead[m]
    BY <1>6
  <2>2. a[1] \in Nat
    BY DEF Explored
  <2>3. a[1] <= (v + c) + G.ahead[n]
    BY <1>2, <1>3, <2>1, <2>2
  <2> QED
    BY <1>2, <2>3 DEF Bounded
<1> QED
  BY <1>1, <1>4, <1>5, <1>6 DEF Bounded

(* So it is however many hops are taken.                                   *)
LEMMA WalksAreBounded ==
  ASSUME NEW G, IsNetwork(G), NEW d, NEW s, NEW f, NEW b, Explored(G, d, s, f, b),
         NEW N \in Nat, NEW r, Relaxes(G, r, N)
  PROVE  \A k \in 0..N : \A n \in G.nodes : Bounded(G, d, s, f, r[k][n], n)
<1> DEFINE bad == {k \in 0..N : ~\A n \in G.nodes : Bounded(G, d, s, f, r[k][n], n)}
<1> SUFFICES ASSUME bad # {} PROVE FALSE
  OBVIOUS
<1>1. PICK k \in bad : \A j \in bad : k <= j
  <2>1. bad \in SUBSET Nat
    OBVIOUS
  <2> HIDE DEF bad
  <2> QED
    BY <2>1, Smallest
<1>2. k \in 0..N /\ ~\A n \in G.nodes : Bounded(G, d, s, f, r[k][n], n)
  BY <1>1
<1>3. PICK n \in G.nodes : ~Bounded(G, d, s, f, r[k][n], n)
  BY <1>2
<1>4. k # 0
  <2> SUFFICES ASSUME k = 0 PROVE FALSE
    OBVIOUS
  <2>1. r[0][n] = IF n \in G.seeds THEN G.leave[n] ELSE Infinity
    BY DEF Relaxes
  <2>2. Infinity \in Nat /\ d[n] \in Nat /\ G.ahead[n] \in Nat
    BY RoutingAssumption DEF Explored, IsNetwork
  <2>3. CASE n \notin G.seeds
    BY <1>3, <2>1, <2>2, <2>3 DEF Bounded
  <2>4. CASE n \in G.seeds
    <3>1. G.leave[n] \in Nat /\ G.leave[n] < Infinity /\ d[n] <= G.leave[n]
      BY <2>4 DEF Explored, IsNetwork
    <3>2. n \in s \/ <<d[n] + G.ahead[n], n>> \in f
      BY <2>2, <3>1 DEF Explored
    <3>3. CASE n \in s
      BY <1>3, <2>1, <2>4, <3>1, <3>3 DEF Bounded
    <3>4. CASE <<d[n] + G.ahead[n], n>> \in f
      <4>1. PICK a \in f : a[1] = d[n] + G.ahead[n]
        BY <3>4
      <4>2. a[1] <= r[0][n] + G.ahead[n]
        BY <2>1, <2>2, <2>4, <3>1, <4>1
      <4> QED
        BY <1>3, <4>2 DEF Bounded
    <3> QED
      BY <3>2, <3>3, <3>4
  <2> QED
    BY <2>3, <2>4
<1>5. k \in 1..N /\ k - 1 \in 0..N /\ k - 1 \notin bad
  BY <1>1, <1>2, <1>4
<1>6. \A m \in G.nodes : Bounded(G, d, s, f, r[k - 1][m], m) /\ r[k - 1][m] \in Nat
  BY <1>5 DEF Relaxes
<1>7. r[k][n] # r[k - 1][n]
  BY <1>3, <1>6
<1>8. PICK h \in G.near[n] : r[k][n] = r[k - 1][h[2]] + G.cost[h[1]]
  BY <1>5, <1>7 DEF Relaxes
<1>9. h[2] \in G.nodes
  BY DEF IsNetwork
<1>10. Bounded(G, d, s, f, r[k - 1][h[2]] + G.cost[h[1]], n)
  BY <1>6, <1>9, BoundedOnward
<1> QED
  BY <1>3, <1>8, <1>10

(* What has been settled is never found to be nearer.                      *)
LEMMA SettledIsBounded ==
  ASSUME NEW G, IsNetwork(G), NEW d, NEW s, NEW f, NEW b, Explored(G, d, s, f, b),
         NEW n \in s, NEW v \in Nat, Bounded(G, d, s, f, v, n)
  PROVE  d[n] <= v
<1>1. n \in G.nodes /\ d[n] \in Nat /\ d[n] < Infinity /\ Infinity \in Nat
  BY RoutingAssumption DEF Explored
<1>2. G.ahead[n] \in Nat
  BY <1>1 DEF IsNetwork
<1>3. CASE \E a \in f : a[1] <= v + G.ahead[n]
  <2>1. PICK a \in f : a[1] <= v + G.ahead[n]
    BY <1>3
  <2>2. a[1] \in Nat /\ d[n] + G.ahead[n] <= a[1]
    BY DEF Explored
  <2> QED
    BY <1>1, <1>2, <2>1, <2>2
<1> QED
  BY <1>1, <1>3 DEF Bounded

(* The search begins so.                                                   *)
LEMMA BeginsExplored ==
  ASSUME NEW G, IsNetwork(G), NEW d, NEW f, NEW together \in BOOLEAN,
         d = [n \in G.nodes |-> IF n \in G.seeds THEN G.leave[n] ELSE Infinity],
         f = {<<G.leave[n] + G.ahead[n], n>> : n \in G.seeds}
               \cup (IF together THEN {<<G.direct, Target>>} ELSE {}),
         together \/ G.direct = Infinity
  PROVE  Explored(G, d, {}, f, G.direct)
<1>1. Infinity \in Nat
  BY RoutingAssumption
<1>2. \A n \in G.seeds : n \in G.nodes /\ G.leave[n] \in Nat /\ G.leave[n] < Infinity
  BY DEF IsNetwork
<1>3. G.direct \in Nat /\ G.direct <= Infinity /\ \A n \in G.nodes : G.ahead[n] \in Nat
  BY DEF IsNetwork
<1>4. d \in [G.nodes -> Nat] /\ \A n \in G.nodes : d[n] <= Infinity
  BY <1>1, <1>2
<1>5. \A n \in G.seeds : d[n] = G.leave[n]
  BY <1>2
<1>6. ASSUME NEW a \in f
      PROVE  /\ a[1] \in Nat
             /\ \/ a[2] = Target /\ G.direct <= a[1]
                \/ /\ a[2] \in G.nodes /\ d[a[2]] < Infinity
                   /\ d[a[2]] + G.ahead[a[2]] <= a[1]
  <2>1. CASE a = <<G.direct, Target>>
    BY <1>3, <2>1
  <2>2. CASE \E n \in G.seeds : a = <<G.leave[n] + G.ahead[n], n>>
    <3>1. PICK n \in G.seeds : a = <<G.leave[n] + G.ahead[n], n>>
      BY <2>2
    <3> QED
      BY <1>2, <1>3, <1>5, <3>1
  <2> QED
    BY <2>1, <2>2
<1>7. \A n \in G.nodes : d[n] < Infinity => <<d[n] + G.ahead[n], n>> \in f
  <2> TAKE n \in G.nodes
  <2> HAVE d[n] < Infinity
  <2>1. n \in G.seeds
    BY <1>1
  <2> QED
    BY <1>5, <2>1
<1>8. G.direct < Infinity => <<G.direct, Target>> \in f
  BY <1>1, <1>3
<1>9. PICK s \in SUBSET G.nodes : s = {}
  OBVIOUS
<1>10. \A n \in G.seeds : d[n] <= G.leave[n]
  BY <1>2, <1>5
<1>11. \A a \in f : /\ a[1] \in Nat
                   /\ \/ a[2] = Target /\ G.direct <= a[1]
                      \/ /\ a[2] \in G.nodes /\ d[a[2]] < Infinity
                         /\ d[a[2]] + G.ahead[a[2]] <= a[1]
  BY <1>6
<1>12. /\ \A n \in s : d[n] < Infinity
       /\ \A n \in s : \A a \in f : d[n] + G.ahead[n] <= a[1]
       /\ \A n \in s : \A h \in G.near[n] : d[h[2]] <= d[n] + G.cost[h[1]]
       /\ \A n \in s \cap G.goals : G.direct <= d[n] + G.enter[n]
       /\ \A n \in G.nodes \ s : d[n] < Infinity => <<d[n] + G.ahead[n], n>> \in f
  BY <1>7, <1>9
<1>13. G.direct <= G.direct
  BY <1>3
<1>14. Explored(G, d, s, f, G.direct)
  BY <1>3, <1>4, <1>8, <1>9, <1>10, <1>11, <1>12, <1>13, Zenon DEF Explored
<1> QED
  BY <1>9, <1>14

(* What is settled already is skipped.                                     *)
LEMMA SkipsExplored ==
  ASSUME NEW G, IsNetwork(G), NEW d, NEW s, NEW f, NEW b, Explored(G, d, s, f, b),
         NEW a \in f, a[2] \in s
  PROVE  Explored(G, d, s, f \ {a}, b)
<1>1. \A n \in G.nodes \ s : <<d[n] + G.ahead[n], n>> # a
  OBVIOUS
<1>2. a # <<b, Target>>
  <2>1. a[2] \in Nat
    BY DEF Explored, IsNetwork
  <2>2. Target = -1
    BY RoutingAssumption
  <2> QED
    BY <2>1, <2>2
<1> QED
  BY <1>1, <1>2 DEF Explored

(* What is settled next is as near as it will ever be.                     *)
LEMMA NextIsNear ==
  ASSUME NEW G, IsNetwork(G), NEW d, NEW s, NEW f, NEW b, Explored(G, d, s, f, b),
         NEW n \in G.nodes \ s, NEW a \in f, a[2] = n, \A c \in f : a[1] <= c[1]
  PROVE  d[n] < Infinity /\ a[1] = d[n] + G.ahead[n]
<1>1. n # Target
  BY RoutingAssumption DEF IsNetwork
<1>2. a[1] \in Nat /\ d[n] < Infinity /\ d[n] + G.ahead[n] <= a[1]
  BY <1>1 DEF Explored
<1>3. <<d[n] + G.ahead[n], n>> \in f
  BY <1>2 DEF Explored
<1>4. PICK c \in f : c[1] = d[n] + G.ahead[n]
  BY <1>3
<1>5. a[1] <= d[n] + G.ahead[n]
  BY <1>4
<1>6. d[n] \in Nat /\ G.ahead[n] \in Nat
  BY DEF Explored, IsNetwork
<1> QED
  BY <1>2, <1>5, <1>6

(* A node is settled: some others become nearer over it, and no hop from   *)
(* it is left that would bring another nearer.                             *)
Settles(G, d, s, p, n, nearer, e, q) ==
    /\ nearer \in SUBSET (G.nodes \ (s \cup {n})) /\ e \in [G.nodes -> Nat]
    /\ \A m \in G.nodes \ nearer : e[m] = d[m] /\ q[m] = p[m]
    /\ \A m \in nearer :
         /\ e[m] < d[m]
         /\ \E h \in G.near[n] : h[2] = m /\ e[m] = d[n] + G.cost[h[1]] /\ q[m] = <<h[1], n>>
    /\ \A h \in G.near[n] : h[2] \notin s => e[h[2]] <= d[n] + G.cost[h[1]]

(* What the queue is then, w being what it costs to arrive over the node.  *)
QueueThen(G, f, a, w, b, nearer, e) ==
    (f \ {a}) \cup (IF w < b THEN {<<w, Target>>} ELSE {})
      \cup {<<e[m] + G.ahead[m], m>> : m \in nearer}

Foremost(f, a) == a \in f /\ \A c \in f : a[1] <= c[1]
Arrival(G, d, n) == IF n \in G.goals THEN d[n] + G.enter[n] ELSE Infinity
Lower(w, b) == IF w < b THEN w ELSE b

(* Settling it leaves everything explored.                                 *)
LEMMA SettlesExplored ==
  ASSUME NEW G, IsNetwork(G), NEW d, NEW s, NEW f, NEW b, Explored(G, d, s, f, b),
         NEW n \in G.nodes \ s, NEW a, a[2] = n, Foremost(f, a),
         NEW nearer, NEW e, NEW p, NEW q, Settles(G, d, s, p, n, nearer, e, q)
  PROVE  Explored(G, e, s \cup {n}, QueueThen(G, f, a, Arrival(G, d, n), b, nearer, e),
                  Lower(Arrival(G, d, n), b))
<1> USE DEF Settles, QueueThen, Foremost, Arrival, Lower
<1> SUFFICES ASSUME NEW w, w = IF n \in G.goals THEN d[n] + G.enter[n] ELSE Infinity,
                    NEW g, g = QueueThen(G, f, a, w, b, nearer, e),
                    NEW c, c = IF w < b THEN w ELSE b
             PROVE  Explored(G, e, s \cup {n}, g, c)
  OBVIOUS
<1> HIDE DEF Arrival, Lower
<1>1. d[n] < Infinity /\ a[1] = d[n] + G.ahead[n]
  BY NextIsNear
<1>2. /\ Infinity \in Nat /\ Target = -1 /\ n \in Nat
      /\ \A m \in G.nodes : m # Target /\ d[m] \in Nat /\ e[m] \in Nat /\ G.ahead[m] \in Nat
      /\ s \subseteq G.nodes
  BY RoutingAssumption DEF Explored, IsNetwork
<1>3. \A m \in G.nodes : e[m] <= d[m]
  BY <1>2
<1>4. \A m \in s \cup {n} : m \in G.nodes /\ e[m] = d[m]
  BY <1>2
<1>5. w \in Nat /\ (n \in G.goals => w = d[n] + G.enter[n] /\ a[1] <= w) /\ (n \notin G.goals => w = Infinity)
  <2>1. CASE n \in G.goals
    <3>1. G.enter[n] \in Nat /\ G.ahead[n] <= G.enter[n]
      BY <2>1 DEF IsNetwork
    <3> QED
      BY <1>1, <1>2, <2>1, <3>1
  <2>2. CASE n \notin G.goals
    BY <1>2, <2>2
  <2> QED
    BY <2>1, <2>2
<1>6. b \in Nat /\ b <= G.direct /\ G.direct \in Nat /\ G.direct <= Infinity
  BY DEF Explored, IsNetwork
<1>7. w < b => a[1] <= w
  BY <1>2, <1>5, <1>6
<1>8. c \in Nat /\ c <= b /\ c <= w
  BY <1>5, <1>6
<1>9. \A m \in nearer : /\ m \in G.nodes /\ m # n /\ m \notin s
                        /\ e[m] < Infinity /\ a[1] <= e[m] + G.ahead[m]
  <2> TAKE m \in nearer
  <2>1. PICK h \in G.near[n] : h[2] = m /\ e[m] = d[n] + G.cost[h[1]]
    OBVIOUS
  <2>2. G.cost[h[1]] \in Nat /\ G.ahead[n] <= G.cost[h[1]] + G.ahead[m]
    BY <2>1 DEF IsNetwork
  <2>3. a[1] <= e[m] + G.ahead[m]
    BY <1>1, <1>2, <2>1, <2>2
  <2>4. e[m] < d[m] /\ d[m] <= Infinity
    BY DEF Explored
  <2> QED
    BY <1>2, <2>3, <2>4
<1>10. \A x \in f : x[1] \in Nat
  BY DEF Explored
<1>11. ASSUME NEW x \in g
       PROVE  \/ x \in f \ {a}
              \/ w < b /\ x = <<w, Target>>
              \/ \E m \in nearer : x = <<e[m] + G.ahead[m], m>>
  OBVIOUS
<1>12. \A x \in g : x[1] \in Nat /\ a[1] <= x[1]
  <2> TAKE x \in g
  <2>1. CASE x \in f \ {a}
    BY <1>10, <2>1
  <2>2. CASE w < b /\ x = <<w, Target>>
    BY <1>5, <1>7, <2>2
  <2>3. CASE \E m \in nearer : x = <<e[m] + G.ahead[m], m>>
    <3>1. PICK m \in nearer : x = <<e[m] + G.ahead[m], m>>
      BY <2>3
    <3> QED
      BY <1>2, <1>9, <3>1
  <2> QED
    BY <1>11, <2>1, <2>2, <2>3
<1>13. ASSUME NEW x \in g
       PROVE  \/ x[2] = Target /\ c <= x[1]
              \/ /\ x[2] \in G.nodes /\ e[x[2]] < Infinity
                 /\ e[x[2]] + G.ahead[x[2]] <= x[1]
  <2>1. CASE x \in f \ {a}
    <3>1. \/ x[2] = Target /\ b <= x[1]
          \/ x[2] \in G.nodes /\ d[x[2]] < Infinity /\ d[x[2]] + G.ahead[x[2]] <= x[1]
      BY <2>1 DEF Explored
    <3>2. x[1] \in Nat
      BY <1>12
    <3>3. CASE x[2] = Target /\ b <= x[1]
      BY <1>6, <1>8, <3>2, <3>3
    <3>4. CASE x[2] \in G.nodes /\ d[x[2]] < Infinity /\ d[x[2]] + G.ahead[x[2]] <= x[1]
      <4>1. PICK m \in G.nodes : m = x[2]
        BY <3>4
      <4>2. e[m] <= d[m] /\ e[m] \in Nat /\ d[m] \in Nat /\ G.ahead[m] \in Nat
        BY <1>2, <1>3
      <4>3. e[m] < Infinity /\ e[m] + G.ahead[m] <= x[1]
        BY <1>2, <3>2, <3>4, <4>1, <4>2
      <4> QED
        BY <4>1, <4>3
    <3> QED
      BY <3>1, <3>3, <3>4
  <2>2. CASE w < b /\ x = <<w, Target>>
    BY <1>5, <1>8, <2>2
  <2>3. CASE \E m \in nearer : x = <<e[m] + G.ahead[m], m>>
    <3>1. PICK m \in nearer : x = <<e[m] + G.ahead[m], m>>
      BY <2>3
    <3> QED
      BY <1>2, <1>9, <3>1
  <2> QED
    BY <1>11, <2>1, <2>2, <2>3
<1>14. \A m \in s \cup {n} : \A x \in g : e[m] + G.ahead[m] <= x[1]
  <2> TAKE m \in s \cup {n}
  <2> TAKE x \in g
  <2>1. d[m] + G.ahead[m] <= a[1]
    <3>1. CASE m = n
      BY <1>1, <1>2, <3>1
    <3>2. CASE m \in s
      BY <3>2 DEF Explored
    <3> QED
      BY <3>1, <3>2
  <2> QED
    BY <1>2, <1>4, <1>10, <1>12, <2>1
<1>15. ASSUME NEW m \in G.nodes \ (s \cup {n}), e[m] < Infinity
       PROVE  <<e[m] + G.ahead[m], m>> \in g
  <2>1. CASE m \in nearer
    BY <2>1
  <2>2. CASE m \notin nearer
    <3>1. e[m] = d[m]
      BY <2>2
    <3>2. <<d[m] + G.ahead[m], m>> \in f
      BY <1>15, <3>1 DEF Explored
    <3>3. <<d[m] + G.ahead[m], m>> # a
      OBVIOUS
    <3> QED
      BY <3>1, <3>2, <3>3
  <2> QED
    BY <2>1, <2>2
<1>16. ASSUME NEW m \in s \cup {n}, NEW h \in G.near[m]
       PROVE  e[h[2]] <= e[m] + G.cost[h[1]]
  <2>1. h[2] \in G.nodes /\ G.cost[h[1]] \in Nat /\ G.ahead[m] <= G.cost[h[1]] + G.ahead[h[2]]
    BY <1>4 DEF IsNetwork
  <2>2. CASE m \in s
    <3>1. d[h[2]] <= d[m] + G.cost[h[1]]
      BY <2>2 DEF Explored
    <3>2. e[h[2]] <= d[h[2]] /\ e[m] = d[m]
      BY <1>3, <1>4, <2>1
    <3> QED
      BY <1>2, <1>4, <2>1, <3>1, <3>2
  <2>3. CASE m = n /\ h[2] \notin s
    BY <1>4, <2>3
  <2>4. CASE m = n /\ h[2] \in s
    <3>1. d[h[2]] + G.ahead[h[2]] <= a[1] /\ e[h[2]] = d[h[2]] /\ e[n] = d[n]
      BY <1>4, <2>4 DEF Explored
    <3> QED
      BY <1>1, <1>2, <2>1, <2>4, <3>1
  <2> QED
    BY <2>2, <2>3, <2>4
<1>17. \A m \in (s \cup {n}) \cap G.goals : c <= e[m] + G.enter[m]
  <2> TAKE m \in (s \cup {n}) \cap G.goals
  <2>1. G.enter[m] \in Nat /\ e[m] = d[m] /\ d[m] \in Nat
    BY <1>2, <1>4 DEF IsNetwork
  <2>2. CASE m = n
    BY <1>4, <1>5, <1>8, <2>2
  <2>3. CASE m \in s
    <3>1. b <= d[m] + G.enter[m]
      BY <2>3 DEF Explored
    <3> QED
      BY <1>6, <1>8, <2>1, <3>1
  <2> QED
    BY <2>2, <2>3
<1>18. c < Infinity => <<c, Target>> \in g
  <2>1. CASE w < b
    BY <2>1
  <2>2. CASE ~(w < b)
    <3>1. c = b /\ (b < Infinity => <<b, Target>> \in f)
      BY <2>2 DEF Explored
    <3>2. <<b, Target>> # a
      BY <1>2
    <3> QED
      BY <3>1, <3>2
  <2> QED
    BY <2>1, <2>2
<1>19. /\ \A m \in G.nodes : e[m] <= Infinity
       /\ \A m \in G.seeds : e[m] <= G.leave[m]
       /\ \A m \in s \cup {n} : e[m] < Infinity
  <2>1. \A m \in G.nodes : d[m] <= Infinity
    BY DEF Explored
  <2>2. \A m \in G.seeds : m \in G.nodes /\ G.leave[m] \in Nat /\ d[m] <= G.leave[m]
    BY DEF Explored, IsNetwork
  <2>3. \A m \in s : d[m] < Infinity
    BY DEF Explored
  <2> QED
    BY <1>1, <1>2, <1>3, <1>4, <2>1, <2>2, <2>3
<1>20. c <= G.direct
  BY <1>6, <1>8
<1> QED
  BY <1>2, <1>8, <1>12, <1>13, <1>14, <1>15, <1>16, <1>17, <1>18, <1>19, <1>20 DEF Explored

(* Some walk of no more hops than are settled costs what is known.         *)
Trodden(G, d, s, r, N) ==
    \A k \in Cardinality(s)..N : \A n \in G.nodes : r[k][n] <= d[n]

(* More hops never cost more.                                              *)
LEMMA RoundsShrink ==
  ASSUME NEW G, IsNetwork(G), NEW N \in Nat, NEW r, Relaxes(G, r, N)
  PROVE  \A k \in 0..N : \A n \in G.nodes : r[k][n] <= r[0][n]
<1> DEFINE bad == {k \in 0..N : ~\A n \in G.nodes : r[k][n] <= r[0][n]}
<1> SUFFICES ASSUME bad # {} PROVE FALSE
  OBVIOUS
<1>1. PICK k \in bad : \A j \in bad : k <= j
  <2>1. bad \in SUBSET Nat
    OBVIOUS
  <2> HIDE DEF bad
  <2> QED
    BY <2>1, Smallest
<1>2. PICK n \in G.nodes : k \in 0..N /\ ~(r[k][n] <= r[0][n])
  BY <1>1
<1>3. 0 \in 0..N /\ r[0][n] \in Nat
  BY DEF Relaxes
<1>4. k # 0
  BY <1>2, <1>3
<1>5. k \in 1..N /\ k - 1 \in 0..N /\ k - 1 \notin bad
  BY <1>1, <1>2, <1>4
<1>6. r[k][n] <= r[k - 1][n] /\ r[k][n] \in Nat /\ r[k - 1][n] \in Nat
  <2>1. r \in [0..N -> [G.nodes -> Nat]]
    BY DEF Relaxes
  <2>2. r[k][n] \in Nat /\ r[k - 1][n] \in Nat
    BY <1>2, <1>5, <2>1
  <2>3. r[k][n] <= r[k - 1][n]
    BY <1>2, <1>5 DEF Relaxes
  <2> QED
    BY <2>2, <2>3
<1>7. r[k - 1][n] <= r[0][n]
  BY <1>5
<1> QED
  BY <1>2, <1>3, <1>6, <1>7

(* So it is when nothing has been settled.                                 *)
LEMMA BeginsTrodden ==
  ASSUME NEW G, IsNetwork(G), NEW N \in Nat, NEW r, Relaxes(G, r, N), NEW d,
         d = [n \in G.nodes |-> IF n \in G.seeds THEN G.leave[n] ELSE Infinity]
  PROVE  Trodden(G, d, {}, r, N)
<1>1. Cardinality({}) = 0
  BY FS_EmptySet
<1>2. \A n \in G.nodes : d[n] = r[0][n]
  BY DEF Relaxes
<1> QED
  BY <1>1, <1>2, RoundsShrink DEF Trodden

(* What is settled can be counted, and one more of it by one more.         *)
LEMMA OneMoreSettled ==
  ASSUME NEW G, IsNetwork(G), NEW s \in SUBSET G.nodes
  PROVE  /\ Cardinality(s) \in 0..Cardinality(G.nodes)
         /\ \A n \in G.nodes \ s : Cardinality(s \cup {n}) = Cardinality(s) + 1
<1>1. IsFiniteSet(G.nodes) /\ IsFiniteSet(s) /\ Cardinality(s) <= Cardinality(G.nodes)
  BY FS_Subset DEF IsNetwork
<1>2. Cardinality(s) \in Nat /\ Cardinality(G.nodes) \in Nat
  BY <1>1, FS_CardinalityType
<1>3. \A n \in G.nodes \ s : Cardinality(s \cup {n}) = Cardinality(s) + 1
  BY <1>1, FS_AddElement
<1> QED
  BY <1>1, <1>2, <1>3

(* What is found over one that is settled takes one hop more than it.      *)
LEMMA SettlesTrodden ==
  ASSUME NEW G, IsNetwork(G), NEW N \in Nat, NEW r, Relaxes(G, r, N),
         NEW d \in [G.nodes -> Nat], NEW s \in SUBSET G.nodes, Trodden(G, d, s, r, N),
         NEW n \in G.nodes \ s,
         NEW nearer, NEW e, NEW p, NEW q, Settles(G, d, s, p, n, nearer, e, q)
  PROVE  Trodden(G, e, s \cup {n}, r, N)
<1> USE DEF Settles
<1>1. PICK c \in Nat : c = Cardinality(s) /\ Cardinality(s \cup {n}) = c + 1
  BY OneMoreSettled
<1>2. ASSUME NEW k \in c + 1..N, NEW m \in G.nodes
      PROVE  r[k][m] <= e[m]
  <2>1. k \in 1..N /\ k \in c..N /\ k - 1 \in c..N /\ k - 1 \in 0..N /\ k \in 0..N
    OBVIOUS
  <2>2. CASE m \notin nearer
    BY <1>1, <2>1, <2>2 DEF Trodden
  <2>3. CASE m \in nearer
    <3>1. PICK h \in G.near[n] : h[2] = m /\ e[m] = d[n] + G.cost[h[1]]
      BY <2>3
    <3>2. G.cost[h[1]] \in Nat /\ <<h[1], n>> \in G.near[m]
      BY <3>1 DEF IsNetwork
    <3>3. PICK j \in G.near[m] : j[1] = h[1] /\ j[2] = n
      BY <3>2
    <3>4. r[k][m] <= r[k - 1][n] + G.cost[h[1]]
      BY <2>1, <3>3 DEF Relaxes
    <3>5. r[k - 1][n] <= d[n]
      BY <1>1, <2>1 DEF Trodden
    <3>6. r[k][m] \in Nat /\ r[k - 1][n] \in Nat /\ d[n] \in Nat
      BY <2>1 DEF Relaxes
    <3> QED
      BY <3>1, <3>2, <3>4, <3>5, <3>6
  <2> QED
    BY <2>2, <2>3
<1> QED
  BY <1>1, <1>2 DEF Trodden

(* A settled node is as far as the cheapest walk to it.                    *)
LEMMA SettledIsNearest ==
  ASSUME NEW G, IsNetwork(G), NEW d, NEW s, NEW f, NEW b, Explored(G, d, s, f, b),
         NEW N \in Nat, N = Cardinality(G.nodes), NEW r, Relaxes(G, r, N),
         Trodden(G, d, s, r, N)
  PROVE  \A n \in s : d[n] = r[N][n]
<1> TAKE n \in s
<1>1. n \in G.nodes /\ s \in SUBSET G.nodes /\ d[n] \in Nat /\ N \in 0..N
  BY DEF Explored
<1>2. r[N][n] \in Nat
  BY <1>1 DEF Relaxes
<1>3. Bounded(G, d, s, f, r[N][n], n)
  BY <1>1, WalksAreBounded
<1>4. d[n] <= r[N][n]
  BY <1>2, <1>3, SettledIsBounded
<1>5. N \in Cardinality(s)..N
  BY <1>1, OneMoreSettled
<1>6. r[N][n] <= d[n]
  BY <1>1, <1>5 DEF Trodden
<1> QED
  BY <1>1, <1>2, <1>4, <1>6

(* The first arrival that comes out of the queue is the cheapest there is. *)
LEMMA FirstArrivalIsCheapest ==
  ASSUME NEW G, IsNetwork(G), NEW d, NEW s, NEW f, NEW b, Explored(G, d, s, f, b),
         NEW N \in Nat, N = Cardinality(G.nodes), NEW r, Relaxes(G, r, N),
         Trodden(G, d, s, r, N),
         NEW a, a[2] = Target, Foremost(f, a)
  PROVE  b <= G.direct /\ \A n \in G.goals : b <= r[N][n] + G.enter[n]
<1> USE DEF Foremost
<1>1. b \in Nat /\ b <= G.direct /\ G.direct \in Nat /\ G.direct <= Infinity /\ Infinity \in Nat
  BY RoutingAssumption DEF Explored, IsNetwork
<1>2. a[1] \in Nat /\ b <= a[1]
  <2>1. Target \notin G.nodes
    BY RoutingAssumption DEF IsNetwork
  <2> QED
    BY <2>1 DEF Explored
<1>3. ASSUME NEW n \in G.goals PROVE b <= r[N][n] + G.enter[n]
  <2>1. n \in G.nodes /\ G.enter[n] \in Nat /\ G.ahead[n] \in Nat /\ G.ahead[n] <= G.enter[n]
    BY DEF IsNetwork
  <2>2. PICK v \in Nat : v = r[N][n]
    BY <2>1 DEF Relaxes
  <2>3. CASE n \in s
    <3>1. d[n] = v
      BY <2>2, <2>3, SettledIsNearest
    <3>2. b <= d[n] + G.enter[n]
      BY <2>3 DEF Explored
    <3> QED
      BY <2>2, <3>1, <3>2
  <2>4. CASE n \notin s
    <3>1. N \in 0..N
      OBVIOUS
    <3>2. Bounded(G, d, s, f, v, n)
      BY <2>1, <2>2, <3>1, WalksAreBounded
    <3>3. v >= Infinity \/ \E c \in f : c[1] <= v + G.ahead[n]
      BY <2>4, <3>2 DEF Bounded
    <3>4. CASE v >= Infinity
      BY <1>1, <2>1, <2>2, <3>4
    <3>5. CASE \E c \in f : c[1] <= v + G.ahead[n]
      <4>1. PICK c \in f : c[1] <= v + G.ahead[n]
        BY <3>5
      <4>2. c[1] \in Nat /\ a[1] <= c[1]
        BY DEF Explored
      <4> QED
        BY <1>1, <1>2, <2>1, <2>2, <4>1, <4>2
    <3> QED
      BY <3>3, <3>4, <3>5
  <2> QED
    BY <2>3, <2>4
<1> QED
  BY <1>1, <1>3

(* A queue that runs dry leaves no walk to the destination.                *)
LEMMA DryIsUnreachable ==
  ASSUME NEW G, IsNetwork(G), NEW d, NEW s, NEW b, Explored(G, d, s, {}, b),
         NEW N \in Nat, N = Cardinality(G.nodes), NEW r, Relaxes(G, r, N),
         Trodden(G, d, s, r, N)
  PROVE  Infinity <= G.direct /\ \A n \in G.goals : Infinity <= r[N][n] + G.enter[n]
<1>1. PICK f : f = {} /\ Explored(G, d, s, f, b)
  OBVIOUS
<1>2. b \in Nat /\ b <= G.direct /\ G.direct \in Nat /\ Infinity \in Nat
  BY RoutingAssumption DEF Explored, IsNetwork
<1>3. Infinity <= b
  <2>1. b < Infinity => <<b, Target>> \in f
    BY <1>1 DEF Explored
  <2> QED
    BY <1>1, <1>2, <2>1
<1>4. ASSUME NEW n \in G.goals PROVE Infinity <= r[N][n] + G.enter[n]
  <2>1. n \in G.nodes /\ G.enter[n] \in Nat
    BY DEF IsNetwork
  <2>2. PICK v \in Nat : v = r[N][n]
    BY <2>1 DEF Relaxes
  <2>3. CASE n \in s
    <3>1. d[n] = v
      BY <1>1, <2>2, <2>3, SettledIsNearest
    <3>2. b <= d[n] + G.enter[n]
      BY <1>1, <2>3 DEF Explored
    <3> QED
      BY <1>2, <1>3, <2>1, <2>2, <3>1, <3>2
  <2>4. CASE n \notin s
    <3>1. N \in 0..N
      OBVIOUS
    <3>2. Bounded(G, d, s, f, v, n)
      BY <1>1, <2>1, <2>2, <3>1, WalksAreBounded
    <3>3. v >= Infinity
      BY <1>1, <2>4, <3>2 DEF Bounded
    <3> QED
      BY <1>2, <2>1, <2>2, <3>3
  <2> QED
    BY <2>3, <2>4
<1> QED
  BY <1>2, <1>3, <1>4

-----------------------------------------------------------------------------
(* How each node was reached, over nodes settled earlier, at what cost.    *)
Traced(G, d, s, p, rank) ==
    /\ rank \in [G.nodes -> Nat] /\ \A n \in G.nodes : rank[n] <= Cardinality(s)
    /\ \A n \in G.nodes : p[n] = NoHop /\ d[n] < Infinity => n \in G.seeds /\ d[n] = G.leave[n]
    /\ \A n \in G.nodes : p[n] # NoHop =>
         /\ p[n][2] \in s /\ <<p[n][1], n>> \in G.near[p[n][2]]
         /\ d[n] = d[p[n][2]] + G.cost[p[n][1]]
         /\ rank[p[n][2]] < rank[n]

LEMMA SettlesTraced ==
  ASSUME NEW G, IsNetwork(G), NEW d, NEW s \in SUBSET G.nodes, NEW p, NEW rank,
         Traced(G, d, s, p, rank),
         NEW n \in G.nodes \ s, NEW nearer, NEW e, NEW q, Settles(G, d, s, p, n, nearer, e, q)
  PROVE  \E rank2 : Traced(G, e, s \cup {n}, q, rank2)
<1> USE DEF Settles
<1>1. PICK c \in Nat : c = Cardinality(s) /\ Cardinality(s \cup {n}) = c + 1
  BY OneMoreSettled
<1>2. PICK rank2 : rank2 = [m \in G.nodes |-> IF m \in nearer THEN c + 1 ELSE rank[m]]
  OBVIOUS
<1>3. rank \in [G.nodes -> Nat] /\ \A m \in G.nodes : rank[m] <= c
  BY <1>1 DEF Traced
<1>4. rank2 \in [G.nodes -> Nat] /\ \A m \in G.nodes : rank2[m] <= c + 1
  BY <1>2, <1>3
<1>5. \A m \in s \cup {n} : m \in G.nodes /\ m \notin nearer /\ e[m] = d[m] /\ rank2[m] = rank[m]
  BY <1>2
<1>6. ASSUME NEW m \in nearer
      PROVE  /\ q[m] # NoHop /\ m \in G.nodes
             /\ q[m][2] \in s \cup {n} /\ <<q[m][1], m>> \in G.near[q[m][2]]
             /\ e[m] = e[q[m][2]] + G.cost[q[m][1]]
             /\ rank2[q[m][2]] < rank2[m]
  <2>1. PICK h \in G.near[n] : h[2] = m /\ e[m] = d[n] + G.cost[h[1]] /\ q[m] = <<h[1], n>>
    OBVIOUS
  <2>2. h = <<h[1], h[2]>> /\ h[1] \in Nat /\ n \in Nat
    BY DEF IsNetwork
  <2>3. q[m] # NoHop
    BY <2>1, <2>2, RoutingAssumption
  <2>4. q[m][1] = h[1] /\ q[m][2] = n /\ m \in G.nodes
    BY <2>1
  <2>5. <<h[1], m>> = h
    BY <2>1, <2>2
  <2>6. e[n] = d[n]
    BY <1>5
  <2>7. rank2[n] < rank2[m]
    BY <1>2, <1>3, <1>5
  <2> QED
    BY <2>1, <2>3, <2>4, <2>5, <2>6, <2>7
<1>7. ASSUME NEW m \in G.nodes \ nearer
      PROVE  /\ q[m] = NoHop /\ e[m] < Infinity => m \in G.seeds /\ e[m] = G.leave[m]
             /\ q[m] # NoHop =>
                 /\ q[m][2] \in s \cup {n} /\ <<q[m][1], m>> \in G.near[q[m][2]]
                 /\ e[m] = e[q[m][2]] + G.cost[q[m][1]]
                 /\ rank2[q[m][2]] < rank2[m]
  <2>1. e[m] = d[m] /\ q[m] = p[m] /\ rank2[m] = rank[m]
    BY <1>2
  <2>2. CASE q[m] = NoHop
    BY <2>1, <2>2 DEF Traced
  <2>3. CASE q[m] # NoHop
    <3>1. /\ q[m][2] \in s /\ <<q[m][1], m>> \in G.near[q[m][2]]
          /\ d[m] = d[q[m][2]] + G.cost[q[m][1]]
          /\ rank[q[m][2]] < rank[m]
      BY <2>1, <2>3 DEF Traced
    <3> QED
      BY <1>5, <2>1, <2>3, <3>1
  <2> QED
    BY <2>2, <2>3
<1>8. \A m \in G.nodes : q[m] = NoHop /\ e[m] < Infinity => m \in G.seeds /\ e[m] = G.leave[m]
  BY <1>6, <1>7
<1>9. \A m \in G.nodes : q[m] # NoHop =>
         /\ q[m][2] \in s \cup {n} /\ <<q[m][1], m>> \in G.near[q[m][2]]
         /\ e[m] = e[q[m][2]] + G.cost[q[m][1]]
         /\ rank2[q[m][2]] < rank2[m]
  BY <1>6, <1>7
<1>10. Traced(G, e, s \cup {n}, q, rank2)
  BY <1>1, <1>4, <1>8, <1>9 DEF Traced
<1> QED
  BY <1>10

-----------------------------------------------------------------------------
(* A search is of a graph there is, between points of it, at a price that  *)
(* no edge is too long for.                                                *)
Situated ==
    /\ graph \in Streets /\ from \in PointsOf(graph) /\ to \in PointsOf(graph)
    /\ {price.least, price.base, price.sun, price.other} \subseteq Nat
    /\ price.least <= price.base
    /\ \A e \in Edges :
         (price.base + 2 * price.sun + 2 * price.other) * Edge(e).len < Infinity

(* What the search under way is given.                                     *)
Network ==
    [nodes |-> Nodes, near |-> [n \in Nodes |-> Neighbours(n)],
     cost |-> [e \in Edges |-> Cost(e)], ahead |-> [n \in Nodes |-> Heuristic(n)],
     seeds |-> Ends(from), leave |-> [n \in Nodes |-> Stub(from, n)],
     goals |-> Ends(to), enter |-> [n \in Nodes |-> Stub(to, n)],
     direct |-> Direct]

LEMMA TheEdges ==
  ASSUME Situated, NEW e \in Edges
  PROVE  /\ e \in Nat /\ Edge(e).u \in Nodes /\ Edge(e).v \in Nodes /\ Edge(e).u # Edge(e).v
         /\ Edge(e).len \in Nat /\ Edge(e).len > 0
         /\ Edge(e).sun \in 0..2 /\ Edge(e).veg \in 0..2
         /\ Gap(graph.place[Edge(e).u], graph.place[Edge(e).v]) <= Edge(e).len
         /\ \A n \in Nodes : n \in Nat /\ graph.place[n] \in Int
<1>1. /\ {Edge(e).u, Edge(e).v} \subseteq Nodes
      /\ Edge(e).u # Edge(e).v
      /\ Edge(e).len \in Nat \ {0}
      /\ {Edge(e).sun, Edge(e).veg} \subseteq 0..2
      /\ Edge(e).len >= graph.place[Edge(e).u] - graph.place[Edge(e).v]
      /\ Edge(e).len >= graph.place[Edge(e).v] - graph.place[Edge(e).u]
  BY RoutingAssumption DEF Situated, Edges, Edge, Nodes
<1>2. e \in Nat /\ \A n \in Nodes : n \in Nat /\ graph.place[n] \in Int
  BY RoutingAssumption DEF Situated, Edges, Nodes
<1> QED
  BY <1>1, <1>2 DEF Gap

(* A metre costs no less than the least, and no more than can be paid.     *)
LEMMA ThePrice ==
  ASSUME Situated, NEW e \in Edges
  PROVE  /\ price.least \in Nat
         /\ PricePerMetre(e) \in Nat /\ price.least <= PricePerMetre(e)
         /\ \A l \in 0..Edge(e).len : PricePerMetre(e) * l \in Nat /\ PricePerMetre(e) * l < Infinity
<1>1. PICK b, s, o, x \in Nat : b = price.base /\ s = price.sun /\ o = price.other /\ x = price.least
  BY DEF Situated
<1>2. PICK k, j \in 0..2 : k = Edge(e).sun /\ j = OtherShade(e)
  <2>1. Edge(e).sun \in 0..2 /\ Edge(e).veg \in 0..2
    BY TheEdges
  <2> QED
    BY <2>1 DEF OtherShade, NotNegative
<1>3. PICK p \in Int : p = PricePerMetre(e) /\ p = b + s * k + o * j
  BY <1>1, <1>2 DEF PricePerMetre
<1>4. 0 <= s * k /\ s * k <= 2 * s /\ 0 <= o * j /\ o * j <= 2 * o
  <2>1. k = 0 \/ k = 1 \/ k = 2
    OBVIOUS
  <2>2. j = 0 \/ j = 1 \/ j = 2
    OBVIOUS
  <2>3. 0 <= s * k /\ s * k <= 2 * s
    BY <2>1
  <2>4. 0 <= o * j /\ o * j <= 2 * o
    BY <2>2
  <2> QED
    BY <2>3, <2>4
<1>5. PICK t, r \in Nat : t = s * k /\ r = o * j
  BY <1>4
<1>6. p \in Nat /\ b <= p /\ p <= b + 2 * s + 2 * o
  BY <1>3, <1>4, <1>5
<1>7. x <= p
  BY <1>1, <1>6 DEF Situated
<1>8. ASSUME NEW l \in 0..Edge(e).len
      PROVE  p * l \in Nat /\ p * l < Infinity
  <2>1. PICK len \in Nat : len = Edge(e).len
    BY TheEdges
  <2>2. PICK q \in Nat : q = b + 2 * s + 2 * o
    OBVIOUS
  <2>3. q * len < Infinity
    BY <1>1, <2>1, <2>2 DEF Situated
  <2>4. p * l <= p * len /\ p * len <= q * len
    BY <1>6, <2>1, <2>2, TimesGrows
  <2>5. p * l \in Nat /\ p * len \in Nat /\ q * len \in Nat /\ Infinity \in Nat
    BY <1>6, <2>1, <2>2, RoutingAssumption
  <2> QED
    BY <2>3, <2>4, <2>5
<1> QED
  BY <1>1, <1>3, <1>6, <1>7, <1>8

(* A point is on its edge, at most as far from an end as the edge is long. *)
LEMMA ThePoints ==
  ASSUME Situated, NEW point \in {from, to}
  PROVE  /\ point[1] \in Edges /\ point[2] \in 0..Edge(point[1]).len
         /\ Ends(point) \subseteq Nodes
         /\ PlaceOf(point) \in Int
         /\ \A n \in Ends(point) :
              \E l \in 0..Edge(point[1]).len :
                 /\ Stub(point, n) = PricePerMetre(point[1]) * l
                 /\ Gap(graph.place[n], PlaceOf(point)) <= l
                 /\ l = Gap(point[2], At(point[1], n))
<1>1. point \in PointsOf(graph)
  BY DEF Situated
<1>2. point[1] \in Edges /\ point[2] \in 0..Edge(point[1]).len
  BY <1>1 DEF PointsOf, Edges, Edge
<1>3. PICK e \in Edges : e = point[1]
  BY <1>2
<1>4. /\ Edge(e).u \in Nodes /\ Edge(e).v \in Nodes /\ Edge(e).u # Edge(e).v
      /\ Edge(e).len \in Nat /\ Edge(e).len > 0
      /\ Gap(graph.place[Edge(e).u], graph.place[Edge(e).v]) <= Edge(e).len
      /\ graph.place[Edge(e).u] \in Int /\ graph.place[Edge(e).v] \in Int
  BY TheEdges
<1>5. PICK l, m \in Nat : l = Edge(e).len /\ m = point[2] /\ m <= l
  BY <1>2, <1>3, <1>4
<1>6. PICK i, j \in Int : i = graph.place[Edge(e).u] /\ j = graph.place[Edge(e).v]
  BY <1>4
<1>7. Ends(point) = {Edge(e).u, Edge(e).v}
  BY <1>3 DEF Ends
<1>8. PICK w \in Int : /\ w = PlaceOf(point)
                       /\ w = IF i <= j THEN i + (IF m < Gap(i, j) THEN m ELSE Gap(i, j))
                                        ELSE i - (IF m < Gap(i, j) THEN m ELSE Gap(i, j))
  <2>1. Gap(i, j) \in Int
    BY DEF Gap
  <2> QED
    BY <1>3, <1>5, <1>6, <2>1 DEF PlaceOf
<1>9. Gap(i, j) <= l
  BY <1>4, <1>5, <1>6
<1>10. Gap(i, w) <= m /\ Gap(j, w) <= l - m
  BY <1>8, <1>9, <1>5 DEF Gap
<1>11. ASSUME NEW n \in Ends(point)
       PROVE  \E k \in 0..Edge(point[1]).len :
                 /\ Stub(point, n) = PricePerMetre(point[1]) * k
                 /\ Gap(graph.place[n], PlaceOf(point)) <= k
                 /\ k = Gap(point[2], At(point[1], n))
  <2>1. CASE n = Edge(e).u
    <3>1. m \in 0..Edge(point[1]).len
      BY <1>3, <1>5
    <3>2. Stub(point, n) = PricePerMetre(point[1]) * m
      BY <1>3, <1>5, <2>1 DEF Stub
    <3>3. Gap(graph.place[n], PlaceOf(point)) <= m
      BY <1>6, <1>8, <1>10, <2>1
    <3>4. m = Gap(point[2], At(point[1], n))
      BY <1>3, <1>5, <2>1 DEF Gap, At
    <3> QED
      BY <3>1, <3>2, <3>3, <3>4
  <2>2. CASE n = Edge(e).v /\ n # Edge(e).u
    <3>1. l - m \in 0..Edge(point[1]).len
      BY <1>3, <1>5
    <3>2. Stub(point, n) = PricePerMetre(point[1]) * (l - m)
      BY <1>3, <1>5, <2>2 DEF Stub
    <3>3. Gap(graph.place[n], PlaceOf(point)) <= l - m
      BY <1>6, <1>8, <1>10, <2>2
    <3>4. l - m = Gap(point[2], At(point[1], n))
      BY <1>3, <1>5, <2>2 DEF Gap, At
    <3> QED
      BY <3>1, <3>2, <3>3, <3>4
  <2> QED
    BY <1>7, <2>1, <2>2
<1>12. Ends(point) \subseteq Nodes
  BY <1>4, <1>7
<1>13. PlaceOf(point) \in Int
  BY <1>8
<1> QED
  BY <1>2, <1>11, <1>12, <1>13

(* The hops from a node are the edges it is an end of.                     *)
LEMMA TheHops ==
  ASSUME Situated, NEW n \in Nodes, NEW h \in Neighbours(n)
  PROVE  /\ h = <<h[1], h[2]>> /\ h[1] \in Edges /\ h[2] \in Nodes /\ h[2] # n
         /\ \/ n = Edge(h[1]).u /\ h[2] = Edge(h[1]).v
            \/ n = Edge(h[1]).v /\ h[2] = Edge(h[1]).u
         /\ <<h[1], n>> \in Neighbours(h[2])
<1>1. PICK e \in Edges : \/ n = Edge(e).u /\ h = <<e, Edge(e).v>>
                         \/ n = Edge(e).v /\ h = <<e, Edge(e).u>>
  BY DEF Neighbours
<1>2. Edge(e).u \in Nodes /\ Edge(e).v \in Nodes /\ Edge(e).u # Edge(e).v
  BY TheEdges
<1>3. CASE n = Edge(e).u /\ h = <<e, Edge(e).v>>
  <2>1. e \in {d \in Edges : Edge(d).v = h[2]}
    BY <1>3
  <2>2. <<h[1], n>> \in Neighbours(h[2])
    BY <1>3, <2>1 DEF Neighbours
  <2> QED
    BY <1>2, <1>3, <2>2
<1>4. CASE n = Edge(e).v /\ h = <<e, Edge(e).u>>
  <2>1. e \in {d \in Edges : Edge(d).u = h[2]}
    BY <1>4
  <2>2. <<h[1], n>> \in Neighbours(h[2])
    BY <1>4, <2>1 DEF Neighbours
  <2> QED
    BY <1>2, <1>4, <2>2
<1> QED
  BY <1>1, <1>3, <1>4

(* Straight to the destination is never more than a hop and straight on.   *)
LEMMA StraightIsLess ==
  ASSUME Situated, NEW n \in Nodes, NEW h \in Neighbours(n)
  PROVE  /\ Cost(h[1]) \in Nat /\ Heuristic(n) \in Nat /\ Heuristic(h[2]) \in Nat
         /\ Heuristic(n) <= Cost(h[1]) + Heuristic(h[2])
<1>1. PICK e \in Edges : e = h[1]
  BY TheHops
<1>2. PICK m \in Nodes : m = h[2]
  BY TheHops
<1>3. PICK x, p, l \in Nat : x = price.least /\ p = PricePerMetre(e) /\ l = Edge(e).len /\ x <= p
  BY ThePrice, TheEdges
<1>4. PICK i, j, w \in Int : i = graph.place[n] /\ j = graph.place[m] /\ w = PlaceOf(to)
  BY TheEdges, ThePoints
<1>5. Gap(i, j) <= l
  <2>1. Gap(graph.place[Edge(e).u], graph.place[Edge(e).v]) <= l
    BY <1>3, TheEdges
  <2>2. CASE n = Edge(e).u /\ m = Edge(e).v
    BY <1>4, <2>1, <2>2
  <2>3. CASE n = Edge(e).v /\ m = Edge(e).u
    BY <1>4, <2>1, <2>3 DEF Gap
  <2> QED
    BY <1>1, <1>2, <2>2, <2>3, TheHops
<1>6. PICK g, k \in Nat : g = Gap(i, w) /\ k = Gap(j, w)
  <2>1. Gap(i, w) \in Nat /\ Gap(j, w) \in Nat
    BY DEF Gap
  <2> QED
    BY <2>1
<1>7. g <= l + k
  BY <1>5, <1>6 DEF Gap
<1>8. x * g <= x * l + x * k
  <2>1. g * x <= (l + k) * x
    BY <1>7, TimesGrows
  <2>2. g * x = x * g /\ (l + k) * x = x * l + x * k
    OBVIOUS
  <2> QED
    BY <2>1, <2>2
<1>9. x * l <= p * l
  BY <1>3, TimesGrows
<1>10. x * g \in Nat /\ x * k \in Nat /\ x * l \in Nat /\ p * l \in Nat
  OBVIOUS
<1>11. Heuristic(n) = x * g /\ Heuristic(m) = x * k /\ Cost(e) = p * l
  BY <1>3, <1>4, <1>6 DEF Heuristic, Cost
<1> QED
  BY <1>1, <1>2, <1>8, <1>9, <1>10, <1>11

(* What the search is given is what it needs.                              *)
LEMMA TheNetwork ==
  ASSUME Situated
  PROVE  IsNetwork(Network)
<1>1. Infinity \in Nat /\ IsFiniteSet(Nodes) /\ Nodes \subseteq Nat
  BY RoutingAssumption DEF Situated, Nodes
<1>2. /\ Network.nodes = Nodes /\ Network.seeds = Ends(from) /\ Network.goals = Ends(to)
      /\ Network.direct = Direct
      /\ \A n \in Nodes : /\ Network.near[n] = Neighbours(n)
                          /\ Network.ahead[n] = Heuristic(n)
                          /\ Network.leave[n] = Stub(from, n)
                          /\ Network.enter[n] = Stub(to, n)
      /\ \A e \in Edges : Network.cost[e] = Cost(e)
  BY DEF Network
<1>3. Ends(from) \subseteq Nodes /\ Ends(to) \subseteq Nodes
  BY ThePoints
<1>4. Direct \in Nat /\ Direct <= Infinity
  <2>1. CASE Together
    <3>1. from[1] \in Edges /\ from[2] \in 0..Edge(from[1]).len /\ to[2] \in 0..Edge(to[1]).len
      BY ThePoints
    <3>2. Edge(from[1]).len \in Nat
      BY <3>1, TheEdges
    <3>3. Gap(from[2], to[2]) \in 0..Edge(from[1]).len
      BY <2>1, <3>1, <3>2 DEF Gap, Together
    <3>4. PricePerMetre(from[1]) * Gap(from[2], to[2]) \in Nat /\ PricePerMetre(from[1]) * Gap(from[2], to[2]) < Infinity
      BY <3>1, <3>3, ThePrice
    <3>5. Direct = PricePerMetre(from[1]) * Gap(from[2], to[2])
      BY <2>1 DEF Direct
    <3> HIDE DEF Direct
    <3>6. Direct \in Nat /\ Direct < Infinity
      BY <3>4, <3>5
    <3> QED
      BY <1>1, <3>6
  <2>2. CASE ~Together
    BY <1>1, <2>2 DEF Direct
  <2> QED
    BY <2>1, <2>2
<1>5. \A n \in Ends(from) : Stub(from, n) \in Nat /\ Stub(from, n) < Infinity
  <2> TAKE n \in Ends(from)
  <2>1. PICK l \in 0..Edge(from[1]).len : Stub(from, n) = PricePerMetre(from[1]) * l
    BY ThePoints
  <2>2. from[1] \in Edges
    BY ThePoints
  <2> QED
    BY <2>1, <2>2, ThePrice
<1>6. \A n \in Nodes : Heuristic(n) \in Nat
  <2> TAKE n \in Nodes
  <2>1. PICK i, w \in Int : i = graph.place[n] /\ w = PlaceOf(to)
    <3>1. to[1] \in Edges /\ PlaceOf(to) \in Int
      BY ThePoints
    <3> QED
      BY <3>1, TheEdges
  <2>2. PICK g \in Nat : g = Gap(i, w)
    <3>1. Gap(i, w) \in Nat
      BY DEF Gap
    <3> QED
      BY <3>1
  <2>3. PICK x \in Nat : x = price.least
    BY DEF Situated
  <2>4. x * g \in Nat
    OBVIOUS
  <2> QED
    BY <2>1, <2>2, <2>3, <2>4 DEF Heuristic
<1>7. \A n \in Ends(to) : Stub(to, n) \in Nat /\ Heuristic(n) <= Stub(to, n)
  <2> TAKE n \in Ends(to)
  <2>1. PICK e \in Edges : e = to[1]
    BY ThePoints
  <2>2. PICK l \in 0..Edge(e).len : Stub(to, n) = PricePerMetre(e) * l /\ Gap(graph.place[n], PlaceOf(to)) <= l
    BY <2>1, ThePoints
  <2>3. PICK x, p \in Nat : x = price.least /\ p = PricePerMetre(e) /\ x <= p
    BY ThePrice
  <2>4. l \in Nat
    BY TheEdges
  <2>5. PICK i, w \in Int : i = graph.place[n] /\ w = PlaceOf(to)
    BY <1>3, <2>1, ThePoints, TheEdges
  <2>6. PICK g \in Nat : g = Gap(i, w) /\ g <= l
    BY <2>2, <2>4, <2>5 DEF Gap
  <2>7. g * x <= l * x /\ x * l <= p * l
    BY <2>3, <2>4, <2>6, TimesGrows
  <2>8. g * x = x * g /\ l * x = x * l /\ x * g \in Nat /\ x * l \in Nat /\ p * l \in Nat
    BY <2>4
  <2>9. Heuristic(n) = x * g /\ Stub(to, n) = p * l
    BY <2>2, <2>3, <2>5, <2>6 DEF Heuristic
  <2> QED
    BY <2>7, <2>8, <2>9
<1>8. \A n \in Nodes : \A h \in Neighbours(n) :
         /\ h = <<h[1], h[2]>> /\ h[1] \in Edges /\ h[1] \in Nat /\ h[2] \in Nodes /\ h[2] # n
         /\ <<h[1], n>> \in Neighbours(h[2])
         /\ Cost(h[1]) \in Nat /\ Heuristic(n) <= Cost(h[1]) + Heuristic(h[2])
  BY TheHops, StraightIsLess, TheEdges
<1> HIDE DEF Network
<1> QED
  BY <1>1, <1>2, <1>3, <1>4, <1>5, <1>6, <1>7, <1>8 DEF IsNetwork

(* Steps that lead from T to T, and what each makes of the last.           *)
StaysIn(G, n, T) == \A i \in 1..n : \A t \in T : G[i][t] \in T
Unfolding(f, c, n, G) == f[0] = c /\ \A i \in 1..n : f[i] = G[i][f[i - 1]]

(* They can be followed to the end.                                        *)
LEMMA Unfolds ==
  ASSUME NEW T, NEW c \in T, NEW n \in Nat, NEW G, StaysIn(G, n, T)
  PROVE  \E f \in [0..n -> T] : Unfolding(f, c, n, G)
<1> USE DEF StaysIn, Unfolding
<1> DEFINE Follows(f, m) == f[0] = c /\ \A i \in 1..m : f[i] = G[i][f[i - 1]]
           bad == {m \in 0..n : ~\E f \in [0..m -> T] : Follows(f, m)}
<1> SUFFICES bad = {}
  <2>1. n \in 0..n
    OBVIOUS
  <2> QED
    BY <2>1
<1> SUFFICES ASSUME bad # {} PROVE FALSE
  OBVIOUS
<1>1. PICK m \in bad : \A k \in bad : m <= k
  <2>1. bad \in SUBSET Nat
    OBVIOUS
  <2> HIDE DEF bad
  <2> QED
    BY <2>1, Smallest
<1>2. m \in 0..n /\ ~\E f \in [0..m -> T] : Follows(f, m)
  BY <1>1
<1>3. m # 0
  <2> SUFFICES ASSUME m = 0 PROVE FALSE
    OBVIOUS
  <2>1. PICK f : f = [i \in 0..0 |-> c]
    OBVIOUS
  <2>2. f \in [0..0 -> T] /\ f[0] = c /\ \A i \in 1..0 : FALSE
    BY <2>1
  <2> QED
    BY <1>2, <2>2
<1>4. m - 1 \in 0..n /\ m - 1 \notin bad /\ m \in 1..n
  <2>1. m \in 1..n /\ m - 1 \in 0..n /\ ~(m <= m - 1)
    BY <1>2, <1>3
  <2> HIDE DEF bad
  <2> QED
    BY <1>1, <2>1
<1>5. PICK f \in [0..m - 1 -> T] : Follows(f, m - 1)
  BY <1>4
<1>6. PICK g : g = [i \in 0..m |-> IF i = m THEN G[m][f[m - 1]] ELSE f[i]]
  OBVIOUS
<1>7. m - 1 \in 0..m - 1 /\ f[m - 1] \in T
  BY <1>4
<1>8. G[m][f[m - 1]] \in T
  BY <1>4, <1>7
<1>9. \A i \in 0..m : i = m \/ i \in 0..m - 1
  BY <1>4
<1>10. g \in [0..m -> T]
  BY <1>6, <1>8, <1>9
<1>11. \A i \in 0..m - 1 : i \in 0..m /\ g[i] = f[i]
  BY <1>4, <1>6
<1>12. g[0] = c
  <2>1. 0 \in 0..m - 1
    BY <1>4
  <2> QED
    BY <1>5, <1>11, <2>1
<1>13. \A i \in 1..m : g[i] = G[i][g[i - 1]]
  <2> TAKE i \in 1..m
  <2>1. CASE i = m
    <3>1. g[m] = G[m][f[m - 1]] /\ g[m - 1] = f[m - 1]
      <4>1. m \in 0..m
        BY <1>4
      <4> QED
        BY <1>6, <1>7, <1>11, <4>1
    <3> QED
      BY <2>1, <3>1
  <2>2. CASE i # m
    <3>1. i \in 1..m - 1 /\ i \in 0..m - 1 /\ i - 1 \in 0..m - 1
      BY <1>4, <2>2
    <3>2. f[i] = G[i][f[i - 1]]
      BY <1>5, <3>1
    <3> QED
      BY <1>11, <3>1, <3>2
  <2> QED
    BY <2>1, <2>2
<1> QED
  BY <1>2, <1>10, <1>12, <1>13

(* What a node costs to reach after a round, given the round before.       *)
Round(t) ==
    [n \in Nodes |-> Min({t[n]} \cup {t[h[2]] + Cost(h[1]) : h \in Neighbours(n)})]

(* It is the least of what it cost, and of what a hop from another costs.  *)
LEMMA TheRound ==
  ASSUME Situated, NEW t \in [Nodes -> Nat]
  PROVE  /\ Round(t) \in [Nodes -> Nat]
         /\ \A n \in Nodes :
              /\ Round(t)[n] <= t[n]
              /\ \A h \in Neighbours(n) : Round(t)[n] <= t[h[2]] + Cost(h[1])
              /\ \/ Round(t)[n] = t[n]
                 \/ \E h \in Neighbours(n) : Round(t)[n] = t[h[2]] + Cost(h[1])
<1>1. ASSUME NEW n \in Nodes
      PROVE  /\ Round(t)[n] \in Nat
             /\ Round(t)[n] <= t[n]
             /\ \A h \in Neighbours(n) : Round(t)[n] <= t[h[2]] + Cost(h[1])
             /\ \/ Round(t)[n] = t[n]
                \/ \E h \in Neighbours(n) : Round(t)[n] = t[h[2]] + Cost(h[1])
  <2>1. PICK S : S = {t[n]} \cup {t[h[2]] + Cost(h[1]) : h \in Neighbours(n)}
    OBVIOUS
  <2>2. \A h \in Neighbours(n) : t[h[2]] + Cost(h[1]) \in Nat
    <3> TAKE h \in Neighbours(n)
    <3>1. h[2] \in Nodes /\ Cost(h[1]) \in Nat
      BY TheHops, StraightIsLess
    <3> QED
      BY <3>1
  <2>3. /\ S \in SUBSET Nat /\ S # {} /\ t[n] \in S
        /\ \A h \in Neighbours(n) : t[h[2]] + Cost(h[1]) \in S
        /\ \A x \in S : x = t[n] \/ \E h \in Neighbours(n) : x = t[h[2]] + Cost(h[1])
    BY <2>1, <2>2
  <2>4. Round(t)[n] = Min(S)
    BY <2>1 DEF Round
  <2>5. Min(S) \in S /\ \A x \in S : Min(S) <= x
    BY <2>3, Smallest
  <2>6. PICK k : k = Min(S)
    OBVIOUS
  <2> QED
    BY <2>3, <2>4, <2>5, <2>6
<1>2. Round(t) \in [Nodes -> Nat]
  <2>1. Round(t) = [n \in Nodes |-> Round(t)[n]]
    BY DEF Round
  <2>2. \A n \in Nodes : Round(t)[n] \in Nat
    BY <1>1
  <2> QED
    BY <2>1, <2>2
<1> QED
  BY <1>1, <1>2

(* What a node costs to reach is what it costs in so many rounds.          *)
LEMMA TheReference ==
  ASSUME Situated
  PROVE  /\ Cardinality(Nodes) \in Nat
         /\ \E r : /\ Relaxes(Network, r, Cardinality(Nodes))
                   /\ Reference = r[Cardinality(Nodes)]
<1>1. PICK N \in Nat : N = Cardinality(Nodes)
  BY RoutingAssumption, FS_CardinalityType DEF Situated, Nodes
<1> DEFINE start == [n \in Nodes |-> IF n \in Ends(from) THEN Stub(from, n) ELSE Infinity]
           Right(g) == g = [k \in 0..N |-> IF k = 0 THEN start ELSE
                [n \in Nodes |-> Min({g[k - 1][n]} \cup {g[k - 1][h[2]] + Cost(h[1]) : h \in Neighbours(n)})]]
<1>2. Reference = (CHOOSE g : Right(g))[N]
  BY <1>1 DEF Reference
<1>3. start \in [Nodes -> Nat]
  <2>1. \A n \in Ends(from) : Stub(from, n) \in Nat
    <3>1. IsNetwork(Network) /\ Ends(from) \subseteq Nodes
      BY TheNetwork, ThePoints
    <3>2. Network.seeds = Ends(from) /\ \A n \in Nodes : Network.leave[n] = Stub(from, n)
      BY DEF Network
    <3> QED
      BY <3>1, <3>2 DEF IsNetwork
  <2>2. Infinity \in Nat
    BY RoutingAssumption
  <2> QED
    BY <2>1, <2>2
<1>4. PICK f \in [0..N -> [Nodes -> Nat]] :
        f[0] = start /\ \A k \in 1..N : f[k] = Round(f[k - 1])
  <2>1. PICK T : T = [Nodes -> Nat]
    OBVIOUS
  <2>2. PICK G : \A i \in 1..N : \A t \in T : G[i][t] = Round(t)
    <3>1. PICK G : G = [i \in 1..N |-> [t \in T |-> Round(t)]]
      OBVIOUS
    <3>2. \A i \in 1..N : \A t \in T : G[i][t] = Round(t)
      BY <3>1
    <3> QED
      BY <3>2
  <2>3. StaysIn(G, N, T)
    BY <2>1, <2>2, TheRound DEF StaysIn
  <2> HIDE DEF start
  <2>4. PICK f \in [0..N -> T] : Unfolding(f, start, N, G)
    BY <1>3, <2>1, <2>3, Unfolds
  <2>6. f[0] = start /\ \A i \in 1..N : f[i] = G[i][f[i - 1]]
    BY <2>4 DEF Unfolding
  <2>5. \A i \in 1..N : f[i] = Round(f[i - 1])
    <3> TAKE i \in 1..N
    <3>1. i - 1 \in 0..N
      OBVIOUS
    <3> QED
      BY <2>2, <2>6, <3>1
  <2> QED
    BY <2>1, <2>5, <2>6
<1>5. Right(f)
  <2>1. \A k \in 0..N : f[k] = IF k = 0 THEN start ELSE
           [n \in Nodes |-> Min({f[k - 1][n]} \cup {f[k - 1][h[2]] + Cost(h[1]) : h \in Neighbours(n)})]
    <3> TAKE k \in 0..N
    <3>1. CASE k = 0
      BY <1>4, <3>1
    <3>2. CASE k # 0
      <4>1. k \in 1..N
        BY <3>2
      <4>2. f[k] = Round(f[k - 1])
        BY <1>4, <4>1
      <4> QED
        BY <3>2, <4>2, Zenon DEF Round
    <3> QED
      BY <3>1, <3>2
  <2>2. f = [k \in 0..N |-> f[k]]
    OBVIOUS
  <2> HIDE DEF start
  <2> QED
    BY <2>1, <2>2, Zenon
<1> HIDE DEF Right
<1>6. PICK g : Right(g) /\ Reference = g[N]
  BY <1>2, <1>5
<1> USE DEF Right
<1> HIDE DEF start
<1>7. DOMAIN g = 0..N /\ \A k \in 0..N : g[k] = IF k = 0 THEN start ELSE Round(g[k - 1])
  BY <1>6, Zenon DEF Round
<1>8. \A k \in 0..N : g[k] = f[k]
  <2> DEFINE bad == {k \in 0..N : g[k] # f[k]}
  <2> HIDE DEF Right
  <2> SUFFICES ASSUME bad # {} PROVE FALSE
    OBVIOUS
  <2>1. PICK k \in bad : \A j \in bad : k <= j
    <3>1. bad \in SUBSET Nat
      OBVIOUS
    <3> HIDE DEF bad
    <3> QED
      BY <3>1, Smallest
  <2>2. k \in 0..N /\ g[k] # f[k]
    BY <2>1
  <2>3. k # 0
    <3>1. 0 \in 0..N
      OBVIOUS
    <3> QED
      BY <1>4, <1>7, <2>2, <3>1
  <2>4. k \in 1..N /\ k - 1 \in 0..N /\ k - 1 \notin bad
    BY <2>1, <2>2, <2>3
  <2>5. g[k - 1] = f[k - 1]
    BY <2>4
  <2> QED
    BY <1>4, <1>7, <2>2, <2>3, <2>4, <2>5
<1>9. g[N] = f[N]
  BY <1>8
<1>10. Relaxes(Network, f, N)
  <2>1. /\ Network.nodes = Nodes /\ Network.seeds = Ends(from)
        /\ \A n \in Nodes : /\ Network.near[n] = Neighbours(n)
                            /\ Network.leave[n] = Stub(from, n)
        /\ \A e \in Edges : Network.cost[e] = Cost(e)
    BY DEF Network
  <2>2. \A n \in Nodes : f[0][n] = IF n \in Network.seeds THEN Network.leave[n] ELSE Infinity
    BY <1>4, <2>1 DEF start
  <2> HIDE DEF Network, Right
  <2>3. ASSUME NEW k \in 1..N, NEW n \in Nodes
        PROVE  /\ f[k][n] <= f[k - 1][n]
               /\ \A h \in Network.near[n] : f[k][n] <= f[k - 1][h[2]] + Network.cost[h[1]]
               /\ \/ f[k][n] = f[k - 1][n]
                  \/ \E h \in Network.near[n] : f[k][n] = f[k - 1][h[2]] + Network.cost[h[1]]
    <3>1. k - 1 \in 0..N
      OBVIOUS
    <3>2. f[k - 1] \in [Nodes -> Nat] /\ f[k] = Round(f[k - 1])
      BY <1>4, <3>1
    <3>3. \A h \in Neighbours(n) : Network.cost[h[1]] = Cost(h[1])
      BY <2>1, TheHops
    <3>4. Network.near[n] = Neighbours(n)
      BY <2>1
    <3>5. /\ f[k][n] <= f[k - 1][n]
          /\ \A h \in Neighbours(n) : f[k][n] <= f[k - 1][h[2]] + Cost(h[1])
          /\ \/ f[k][n] = f[k - 1][n]
             \/ \E h \in Neighbours(n) : f[k][n] = f[k - 1][h[2]] + Cost(h[1])
      BY <3>2, TheRound
    <3> QED
      BY <3>3, <3>4, <3>5
  <2> QED
    BY <1>4, <2>1, <2>2, <2>3 DEF Relaxes
<1> QED
  BY <1>1, <1>6, <1>9, <1>10

-----------------------------------------------------------------------------
(* Of pairs of numbers one comes first.                                    *)
LEMMA OneComesFirst ==
  ASSUME NEW S, S # {}, \A a \in S : a[1] \in Nat /\ a[2] \in Int /\ -1 <= a[2]
  PROVE  \E a \in S : \A b \in S : a[1] < b[1] \/ (a[1] = b[1] /\ a[2] <= b[2])
<1>1. PICK C : C = {a[1] : a \in S}
  OBVIOUS
<1>2. C \in SUBSET Nat /\ C # {} /\ \A a \in S : a[1] \in C
  BY <1>1
<1>3. Min(C) \in C /\ \A x \in C : Min(C) <= x
  BY <1>2, Smallest
<1>4. PICK c \in C : \A x \in C : c <= x
  BY <1>3
<1>5. PICK D : D = {a[2] + 1 : a \in {b \in S : b[1] = c}}
  OBVIOUS
<1>6. D \in SUBSET Nat
  BY <1>5
<1>7. D # {}
  BY <1>1, <1>4, <1>5
<1>8. Min(D) \in D /\ \A x \in D : Min(D) <= x
  BY <1>6, <1>7, Smallest
<1>9. PICK y \in D : \A x \in D : y <= x
  BY <1>8
<1>10. PICK a \in S : a[1] = c /\ a[2] + 1 = y
  BY <1>5, <1>9
<1>11. ASSUME NEW b \in S PROVE a[1] < b[1] \/ (a[1] = b[1] /\ a[2] <= b[2])
  <2>1. c <= b[1] /\ c \in Nat /\ b[1] \in Nat
    BY <1>2, <1>4
  <2>2. CASE b[1] = c
    <3>1. b[2] + 1 \in D
      BY <1>5, <2>2
    <3>2. y <= b[2] + 1 /\ a[2] \in Int /\ b[2] \in Int
      BY <1>9, <3>1
    <3> QED
      BY <1>10, <2>2, <3>2
  <2>3. CASE b[1] # c
    BY <1>10, <2>1, <2>3
  <2> QED
    BY <2>2, <2>3
<1> QED
  BY <1>10, <1>11

(* Something comes out of a queue that is not empty, and nothing before it.*)
LEMMA TheFirst ==
  ASSUME Situated, Explored(Network, dist, settled, frontier, best), frontier # {}
  PROVE  /\ First \in frontier /\ \A b \in frontier : First[1] <= b[1]
         /\ First[2] = Target \/ First[2] \in Nodes
<1>1. Network.nodes = Nodes /\ IsNetwork(Network)
  BY TheNetwork DEF Network
<1>2. \A a \in frontier : a[1] \in Nat /\ (a[2] = Target \/ a[2] \in Nodes)
  BY <1>1 DEF Explored
<1>3. Target = -1 /\ \A n \in Nodes : n \in Nat
  BY <1>1, RoutingAssumption DEF IsNetwork
<1>4. \A a \in frontier : a[1] \in Nat /\ a[2] \in Int /\ -1 <= a[2]
  BY <1>2, <1>3
<1>5. PICK a \in frontier : \A b \in frontier : a[1] < b[1] \/ (a[1] = b[1] /\ a[2] <= b[2])
  BY <1>4, OneComesFirst
<1>6. First \in frontier /\ \A b \in frontier : First[1] < b[1] \/ (First[1] = b[1] /\ First[2] <= b[2])
  BY <1>5 DEF First
<1>7. PICK a1 \in frontier : a1 = First
  BY <1>6
<1>8. \A b \in frontier : a1[1] <= b[1]
  BY <1>2, <1>6, <1>7
<1> QED
  BY <1>2, <1>7, <1>8

(* The cheapest of the hops to a neighbour is one of them, and no dearer.  *)
LEMMA TheCheapest ==
  ASSUME Situated, dist \in [Nodes -> Nat], NEW n \in Nodes, NEW m,
         \E h \in Neighbours(n) : h[2] = m
  PROVE  /\ \E h \in Neighbours(n) : /\ h[2] = m
                                     /\ Cheapest(Offers(n, m))[1] = dist[n] + Cost(h[1])
                                     /\ Cheapest(Offers(n, m))[2] = h[1]
         /\ \A h \in Neighbours(n) : h[2] = m => Cheapest(Offers(n, m))[1] <= dist[n] + Cost(h[1])
<1>1. \A h \in Neighbours(n) : h[1] \in Nat /\ dist[n] + Cost(h[1]) \in Nat
  <2> TAKE h \in Neighbours(n)
  <2>1. h[1] \in Nat /\ Cost(h[1]) \in Nat
    BY TheHops, TheEdges, StraightIsLess
  <2> QED
    BY <2>1
<1>2. PICK S : S = Offers(n, m)
  OBVIOUS
<1>3. \A a \in S : \E h \in Neighbours(n) : h[2] = m /\ a = <<dist[n] + Cost(h[1]), h[1]>>
  BY <1>2 DEF Offers
<1>4. \A h \in Neighbours(n) : h[2] = m => <<dist[n] + Cost(h[1]), h[1]>> \in S
  BY <1>2 DEF Offers
<1>5. \A a \in S : a[1] \in Nat /\ a[2] \in Int /\ -1 <= a[2]
  BY <1>1, <1>3
<1>6. S # {}
  BY <1>4
<1>7. \E a \in S : \A b \in S : a[1] < b[1] \/ (a[1] = b[1] /\ a[2] <= b[2])
  BY <1>5, <1>6, OneComesFirst
<1>8. PICK a \in S : a = Cheapest(S) /\ \A b \in S : a[1] < b[1] \/ (a[1] = b[1] /\ a[2] <= b[2])
  BY <1>7 DEF Cheapest
<1>9. \A b \in S : a[1] <= b[1]
  BY <1>5, <1>8
<1>10. PICK h \in Neighbours(n) : h[2] = m /\ a = <<dist[n] + Cost(h[1]), h[1]>>
  BY <1>3
<1>11. ASSUME NEW k \in Neighbours(n), k[2] = m
       PROVE  a[1] <= dist[n] + Cost(k[1])
  <2>1. PICK b \in S : b[1] = dist[n] + Cost(k[1])
    BY <1>4, <1>11
  <2> QED
    BY <1>9, <2>1
<1> QED
  BY <1>2, <1>8, <1>10, <1>11

-----------------------------------------------------------------------------
(* How far a search has come: what it knows is of walks there are, and the *)
(* best of them is the one it noted the entry of.                          *)
Underway(G, ref, together, d, p, s, f, b, e) ==
    /\ Explored(G, d, s, f, b)
    /\ \E r : /\ Relaxes(G, r, Cardinality(G.nodes)) /\ ref = r[Cardinality(G.nodes)]
              /\ Trodden(G, d, s, r, Cardinality(G.nodes))
    /\ \E rank : Traced(G, d, s, p, rank)
    /\ e = Target => b = G.direct
    /\ e # Target => e \in s /\ e \in G.goals /\ b = d[e] + G.enter[e]
    /\ \A a \in f : a[2] = Target => together \/ e # Target

(* It ends when the destination comes out of the queue, or nothing does.   *)
SearchHolds ==
    \/ search = "idle"
    \/ /\ ~SamePin /\ search \in {"searching", "found", "failed"}
       /\ Underway(Network, Reference, Together, dist, pred, settled, frontier, best, entry)
       /\ search = "found" =>
            \E a \in frontier : a[2] = Target /\ Foremost(frontier, a)
       /\ search = "failed" => frontier = {}

(* While it goes on the graph is the same.                                 *)
LEMMA NetworkStays ==
  ASSUME UNCHANGED <<graph, from, to, price>>
  PROVE  /\ Network' = Network /\ Reference' = Reference /\ Together' = Together
         /\ SamePin' = SamePin /\ Nodes' = Nodes
         /\ Situated => Situated'
<1> USE DEF Network, Nodes, Edges, Edge, Neighbours, Cost, PricePerMetre, OtherShade, NotNegative,
            Heuristic, Gap, PlaceOf, Ends, Stub, Direct, Together
<1>1. Network' = Network /\ Together' = Together /\ Nodes' = Nodes
  OBVIOUS
<1>2. Reference' = Reference
  BY DEF Reference
<1>3. SamePin' = SamePin
  BY DEF SamePin
<1>4. Situated => Situated'
  BY DEF Situated
<1> QED
  BY <1>1, <1>2, <1>3, <1>4

LEMMA StartSearchHolds ==
  ASSUME Situated, ~SamePin, StartSearch
  PROVE  Underway(Network, Reference, Together, dist', pred', settled', frontier', best', entry')
<1>1. IsNetwork(Network)
  BY TheNetwork
<1>2. /\ Network.nodes = Nodes /\ Network.seeds = Ends(from) /\ Network.goals = Ends(to)
      /\ Network.direct = Direct
      /\ \A n \in Nodes : Network.ahead[n] = Heuristic(n) /\ Network.leave[n] = Stub(from, n)
  BY DEF Network
<1> HIDE DEF Network
<1>3. Ends(from) \subseteq Nodes
  BY ThePoints
<1>4. PICK d : d = dist' /\ d = [n \in Network.nodes |-> IF n \in Network.seeds THEN Network.leave[n] ELSE Infinity]
  <2>1. dist' = [n \in Nodes |-> IF n \in Ends(from) THEN Stub(from, n) ELSE Infinity]
    BY DEF StartSearch
  <2> QED
    BY <1>2, <2>1
<1>5. PICK f : /\ f = frontier'
               /\ f = {<<Network.leave[n] + Network.ahead[n], n>> : n \in Network.seeds}
                        \cup (IF Together THEN {<<Network.direct, Target>>} ELSE {})
  <2>1. frontier' = {<<Stub(from, n) + Heuristic(n), n>> : n \in Ends(from)}
                     \cup (IF Together THEN {<<Direct, Target>>} ELSE {})
    BY DEF StartSearch
  <2>2. {<<Stub(from, n) + Heuristic(n), n>> : n \in Ends(from)}
           = {<<Network.leave[n] + Network.ahead[n], n>> : n \in Network.seeds}
    BY <1>2, <1>3
  <2> QED
    BY <1>2, <2>1, <2>2
<1>6. Together \/ Network.direct = Infinity
  BY <1>2 DEF Direct
<1>7. PICK t \in BOOLEAN : t = Together
  BY DEF Together
<1>8. Explored(Network, d, {}, f, Network.direct)
  BY <1>1, <1>4, <1>5, <1>6, <1>7, BeginsExplored
<1>9. PICK N \in Nat : N = Cardinality(Nodes)
  BY TheReference
<1>10. PICK r : Relaxes(Network, r, N) /\ Reference = r[N]
  BY <1>9, TheReference
<1>11. Trodden(Network, d, {}, r, N)
  BY <1>1, <1>4, <1>10, BeginsTrodden
<1>12. PICK p : p = pred' /\ p = [n \in Nodes |-> NoHop]
  BY DEF StartSearch
<1>13. PICK rank : rank = [n \in Nodes |-> 0]
  OBVIOUS
<1>14. Traced(Network, d, {}, p, rank)
  <2>1. Cardinality({}) = 0
    BY FS_EmptySet
  <2>2. rank \in [Nodes -> Nat] /\ \A n \in Nodes : rank[n] <= 0 /\ p[n] = NoHop
    BY <1>12, <1>13
  <2>3. \A n \in Nodes : d[n] < Infinity => n \in Network.seeds /\ d[n] = Network.leave[n]
    <3>1. Infinity \in Nat
      BY RoutingAssumption
    <3> QED
      BY <1>2, <1>4, <3>1
  <2> QED
    BY <1>2, <2>1, <2>2, <2>3 DEF Traced
<1>15. settled' = {} /\ best' = Network.direct /\ entry' = Target
  BY <1>2 DEF StartSearch
<1>16. \A a \in f : a[2] = Target => Together
  <2>1. Target \notin Nodes
    BY <1>1, <1>2, RoutingAssumption DEF IsNetwork
  <2> QED
    BY <1>2, <1>3, <1>5, <2>1
<1> QED
  BY <1>2, <1>4, <1>5, <1>8, <1>9, <1>10, <1>11, <1>12, <1>14, <1>15, <1>16 DEF Underway

LEMMA SkipSettledHolds ==
  ASSUME Situated, SkipSettled,
         Underway(Network, Reference, Together, dist, pred, settled, frontier, best, entry)
  PROVE  Underway(Network, Reference, Together, dist, pred, settled, frontier \ {First}, best, entry)
<1>1. Explored(Network, dist, settled, frontier, best)
  BY DEF Underway
<1>2. frontier # {} /\ First[2] \in settled
  BY DEF SkipSettled
<1>3. First \in frontier
  BY <1>1, <1>2, TheFirst
<1>4. PICK a \in frontier : a = First
  BY <1>3
<1>5. Explored(Network, dist, settled, frontier \ {a}, best)
  BY <1>1, <1>2, <1>4, SkipsExplored, TheNetwork
<1> HIDE DEF Network
<1> QED
  BY <1>4, <1>5 DEF Underway

LEMMA SettleHolds ==
  ASSUME Situated, Settle,
         Underway(Network, Reference, Together, dist, pred, settled, frontier, best, entry)
  PROVE  Underway(Network, Reference, Together, dist', pred', settled', frontier', best', entry')
<1>1. IsNetwork(Network) /\ Explored(Network, dist, settled, frontier, best)
  BY TheNetwork DEF Underway
<1>2. /\ Network.nodes = Nodes /\ Network.seeds = Ends(from) /\ Network.goals = Ends(to)
      /\ Network.direct = Direct
      /\ \A n \in Nodes : /\ Network.near[n] = Neighbours(n)
                          /\ Network.ahead[n] = Heuristic(n)
                          /\ Network.leave[n] = Stub(from, n)
                          /\ Network.enter[n] = Stub(to, n)
      /\ \A e \in Edges : Network.cost[e] = Cost(e)
  BY DEF Network
<1> HIDE DEF Network
<1>3. frontier # {}
  BY DEF Settle
<1>4. /\ First \in frontier /\ \A b \in frontier : First[1] <= b[1]
      /\ First[2] = Target \/ First[2] \in Nodes
  BY <1>1, <1>3, TheFirst
<1>5. PICK a \in frontier : a = First /\ Foremost(frontier, a)
  BY <1>4 DEF Foremost
<1>6. PICK n \in Nodes : n = First[2] /\ n \notin settled
  BY <1>4 DEF Settle
<1>7. PICK w : /\ w = IF n \in Ends(to) THEN dist[n] + Stub(to, n) ELSE Infinity
               /\ settled' = settled \cup {n}
               /\ best' = IF w < best THEN w ELSE best
               /\ entry' = IF w < best THEN n ELSE entry
               /\ dist' = [m \in Nodes |-> IF m \in Improved(n) THEN Cheapest(Offers(n, m))[1]
                                                                ELSE dist[m]]
               /\ pred' = [m \in Nodes |-> IF m \in Improved(n)
                                           THEN <<Cheapest(Offers(n, m))[2], n>> ELSE pred[m]]
               /\ frontier' = (frontier \ {a})
                                \cup (IF w < best THEN {<<w, Target>>} ELSE {})
                                \cup {<<dist'[m] + Heuristic(m), m>> : m \in Improved(n)}
  BY <1>5, <1>6 DEF Settle
<1>8. dist \in [Nodes -> Nat] /\ settled \in SUBSET Nodes
  BY <1>1, <1>2 DEF Explored
<1>9. PICK nearer : nearer = Improved(n)
  OBVIOUS
<1>10. \A m \in nearer : /\ m \in Nodes /\ m \notin settled /\ m # n
                         /\ \E h \in Neighbours(n) : h[2] = m
                         /\ Cheapest(Offers(n, m))[1] < dist[m]
  <2> TAKE m \in nearer
  <2>1. /\ m \in {h[2] : h \in Neighbours(n)} /\ m \notin settled /\ m # n
        /\ Cheapest(Offers(n, m))[1] < dist[m]
    BY <1>9 DEF Improved
  <2>2. PICK h \in Neighbours(n) : h[2] = m
    BY <2>1
  <2> QED
    BY <2>1, <2>2, TheHops
<1>11. nearer \in SUBSET (Nodes \ (settled \cup {n}))
  BY <1>10
<1>12. PICK e : e = dist'
  OBVIOUS
<1>13. \A m \in Nodes \ nearer : e[m] = dist[m] /\ pred'[m] = pred[m]
  BY <1>7, <1>9, <1>12
<1>14. \A m \in nearer :
         /\ e[m] < dist[m] /\ e[m] \in Nat
         /\ \E h \in Neighbours(n) : h[2] = m /\ e[m] = dist[n] + Cost(h[1]) /\ pred'[m] = <<h[1], n>>
  <2> TAKE m \in nearer
  <2>1. m \in Nodes /\ \E h \in Neighbours(n) : h[2] = m
    BY <1>10
  <2>2. PICK h \in Neighbours(n) : /\ h[2] = m
                                   /\ Cheapest(Offers(n, m))[1] = dist[n] + Cost(h[1])
                                   /\ Cheapest(Offers(n, m))[2] = h[1]
    BY <1>8, <2>1, TheCheapest
  <2>3. e[m] = Cheapest(Offers(n, m))[1] /\ pred'[m] = <<Cheapest(Offers(n, m))[2], n>>
    BY <1>7, <1>9, <1>12, <2>1
  <2>4. e[m] < dist[m]
    BY <1>10, <2>3
  <2>5. Cost(h[1]) \in Nat /\ dist[n] \in Nat
    BY <1>8, StraightIsLess
  <2> QED
    BY <2>2, <2>3, <2>4, <2>5
<1>15. e \in [Nodes -> Nat]
  <2>1. e = [m \in Nodes |-> e[m]]
    BY <1>7, <1>12
  <2>2. \A m \in Nodes : e[m] \in Nat
    BY <1>8, <1>13, <1>14
  <2> QED
    BY <2>1, <2>2
<1>16. \A h \in Neighbours(n) : h[2] \notin settled => e[h[2]] <= dist[n] + Cost(h[1])
  <2> TAKE h \in Neighbours(n)
  <2> HAVE h[2] \notin settled
  <2>1. h[2] \in Nodes /\ h[2] # n
    BY TheHops
  <2>2. PICK m \in Nodes : m = h[2]
    BY <2>1
  <2>3. Cheapest(Offers(n, m))[1] <= dist[n] + Cost(h[1])
    BY <1>8, <2>2, TheCheapest
  <2>4. CASE m \in nearer
    BY <1>7, <1>9, <1>12, <2>2, <2>3, <2>4
  <2>5. CASE m \notin nearer
    <3>1. ~(Cheapest(Offers(n, m))[1] < dist[m])
      BY <1>9, <2>1, <2>2, <2>5 DEF Improved
    <3>2. e[m] = dist[m]
      BY <1>13, <2>5
    <3>3. PICK k \in Neighbours(n) : Cheapest(Offers(n, m))[1] = dist[n] + Cost(k[1])
      BY <1>8, <2>2, TheCheapest
    <3>4. Cost(k[1]) \in Nat /\ Cost(h[1]) \in Nat /\ dist[n] \in Nat /\ dist[m] \in Nat
      BY <1>8, StraightIsLess
    <3> QED
      BY <2>2, <2>3, <3>1, <3>2, <3>3, <3>4
  <2> QED
    BY <2>4, <2>5
<1>17. \A h \in Neighbours(n) : Network.cost[h[1]] = Cost(h[1])
  BY <1>2, TheHops
<1>18. w = IF n \in Network.goals THEN dist[n] + Network.enter[n] ELSE Infinity
  BY <1>2, <1>7
<1>19. PICK g : /\ g = frontier'
                /\ g = QueueThen(Network, frontier, a, w, best, nearer, e)
  <2>1. {<<dist'[m] + Heuristic(m), m>> : m \in Improved(n)}
          = {<<e[m] + Network.ahead[m], m>> : m \in nearer}
    BY <1>2, <1>9, <1>10, <1>12
  <2> QED
    BY <1>7, <2>1 DEF QueueThen
<1>20. PICK c : c = best' /\ c = IF w < best THEN w ELSE best
  BY <1>7
<1>21. a[2] = n /\ n \in Network.nodes \ settled
  BY <1>2, <1>5, <1>6
<1>22. /\ nearer \in SUBSET (Network.nodes \ (settled \cup {n})) /\ e \in [Network.nodes -> Nat]
       /\ \A m \in Network.nodes \ nearer : e[m] = dist[m] /\ pred'[m] = pred[m]
       /\ \A h \in Network.near[n] : h[2] \notin settled => e[h[2]] <= dist[n] + Network.cost[h[1]]
  BY <1>2, <1>11, <1>13, <1>15, <1>16, <1>17
<1>23. \A m \in nearer :
         /\ e[m] < dist[m]
         /\ \E h \in Network.near[n] :
               h[2] = m /\ e[m] = dist[n] + Network.cost[h[1]] /\ pred'[m] = <<h[1], n>>
  <2> TAKE m \in nearer
  <2>1. PICK h \in Neighbours(n) : h[2] = m /\ e[m] = dist[n] + Cost(h[1]) /\ pred'[m] = <<h[1], n>>
    BY <1>14
  <2>2. h \in Network.near[n] /\ e[m] = dist[n] + Network.cost[h[1]]
    BY <1>2, <1>17, <2>1
  <2> QED
    BY <1>14, <2>1, <2>2
<1>32. PICK q : q = pred' /\ Settles(Network, dist, settled, pred, n, nearer, e, q)
  BY <1>22, <1>23 DEF Settles
<1>24. Explored(Network, e, settled \cup {n}, g, c)
  <2>1. w = Arrival(Network, dist, n)
    BY <1>18 DEF Arrival
  <2>2. c = Lower(Arrival(Network, dist, n), best)
    BY <1>20, <2>1 DEF Lower
  <2>3. g = QueueThen(Network, frontier, a, Arrival(Network, dist, n), best, nearer, e)
    BY <1>19, <2>1
  <2>4. Explored(Network, e, settled \cup {n},
                 QueueThen(Network, frontier, a, Arrival(Network, dist, n), best, nearer, e),
                 Lower(Arrival(Network, dist, n), best))
    BY <1>1, <1>5, <1>21, <1>32, SettlesExplored
  <2> QED
    BY <2>2, <2>3, <2>4
<1>25. PICK N \in Nat : N = Cardinality(Network.nodes)
  BY <1>2, TheReference
<1>26. PICK r : /\ Relaxes(Network, r, N) /\ Reference = r[N]
                /\ Trodden(Network, dist, settled, r, N)
  BY <1>25 DEF Underway
<1>27. Trodden(Network, e, settled \cup {n}, r, N)
  <2>1. dist \in [Network.nodes -> Nat] /\ settled \in SUBSET Network.nodes
    BY <1>2, <1>8
  <2> QED
    BY <1>1, <1>21, <1>26, <1>32, <2>1, SettlesTrodden
<1>28. \E rank : Traced(Network, e, settled \cup {n}, pred', rank)
  <2>1. PICK rank : Traced(Network, dist, settled, pred, rank)
    BY DEF Underway
  <2>2. settled \in SUBSET Network.nodes
    BY <1>2, <1>8
  <2>3. \E rank2 : Traced(Network, e, settled \cup {n}, q, rank2)
    BY <1>1, <1>21, <1>32, <2>1, <2>2, SettlesTraced
  <2> QED
    BY <1>32, <2>3
<1>29. entry' = Target => c = Network.direct
  <2>1. n # Target
    BY <1>1, <1>21, RoutingAssumption DEF IsNetwork
  <2>2. entry = Target => best = Network.direct
    BY DEF Underway
  <2> QED
    BY <1>7, <1>20, <2>1, <2>2
<1>30. entry' # Target => /\ entry' \in settled \cup {n} /\ entry' \in Network.goals
                          /\ c = e[entry'] + Network.enter[entry']
  <2> HAVE entry' # Target
  <2>1. CASE w < best
    <3>1. n \in Network.goals
      <4>1. best \in Nat /\ best <= Network.direct /\ Network.direct <= Infinity /\ Network.direct \in Nat /\ Infinity \in Nat
        BY <1>1, RoutingAssumption DEF Explored, IsNetwork
      <4> QED
        BY <1>18, <2>1, <4>1
    <3>2. e[n] = dist[n]
      BY <1>11, <1>13
    <3> QED
      BY <1>7, <1>18, <1>20, <2>1, <3>1, <3>2
  <2>2. CASE ~(w < best)
    <3>1. entry' = entry /\ c = best
      BY <1>7, <1>20, <2>2
    <3>2. entry \in settled /\ entry \in Network.goals /\ best = dist[entry] + Network.enter[entry]
      BY <3>1 DEF Underway
    <3>3. e[entry] = dist[entry]
      BY <1>8, <1>11, <1>13, <3>2
    <3> QED
      BY <3>1, <3>2, <3>3
  <2> QED
    BY <2>1, <2>2
<1>31. \A x \in g : x[2] = Target => Together \/ entry' # Target
  <2> TAKE x \in g
  <2> HAVE x[2] = Target
  <2>1. n # Target /\ \A m \in nearer : m # Target
    BY <1>1, <1>2, <1>11, <1>21, RoutingAssumption DEF IsNetwork
  <2>2. x \in frontier \/ w < best
    BY <1>19, <2>1 DEF QueueThen
  <2>3. CASE w < best
    BY <1>7, <2>1, <2>3
  <2>4. CASE x \in frontier /\ ~(w < best)
    BY <1>7, <2>4 DEF Underway
  <2> QED
    BY <2>2, <2>3, <2>4
<1> QED
  BY <1>7, <1>12, <1>19, <1>20, <1>24, <1>25, <1>26, <1>27, <1>28, <1>29, <1>30, <1>31 DEF Underway

(* Every step of a search leaves it so.                                    *)
LEMMA SearchStepHolds ==
  ASSUME Situated, ~SamePin, SearchHolds, SearchNext
  PROVE  Situated' /\ SearchHolds'
<1>1. UNCHANGED <<graph, from, to, price>>
  BY DEF SearchNext, StartSearch, Arrive, SkipSettled, Settle, RunDry
<1>2. /\ Network' = Network /\ Reference' = Reference /\ Together' = Together
      /\ SamePin' = SamePin /\ Situated'
  BY <1>1, NetworkStays
<1>3. SUFFICES
        /\ search' \in {"searching", "found", "failed"}
        /\ Underway(Network, Reference, Together, dist', pred', settled', frontier', best', entry')
        /\ search' = "found" => \E a \in frontier' : a[2] = Target /\ Foremost(frontier', a)
        /\ search' = "failed" => frontier' = {}
  BY <1>2 DEF SearchHolds
<1>4. search = "searching" =>
        Underway(Network, Reference, Together, dist, pred, settled, frontier, best, entry)
  BY DEF SearchHolds
<1>5. CASE StartSearch
  <2>1. search' = "searching"
    BY <1>5 DEF StartSearch
  <2> QED
    BY <1>5, <2>1, StartSearchHolds
<1>6. CASE Arrive
  <2>1. /\ search = "searching" /\ search' = "found" /\ frontier # {} /\ First[2] = Target
        /\ UNCHANGED <<dist, pred, settled, frontier, best, entry>>
    BY <1>6 DEF Arrive
  <2>2. Explored(Network, dist, settled, frontier, best)
    BY <1>4, <2>1 DEF Underway
  <2>3. First \in frontier /\ \A b \in frontier : First[1] <= b[1]
    BY <2>1, <2>2, TheFirst
  <2>4. PICK a \in frontier : a = First /\ Foremost(frontier, a)
    BY <2>3 DEF Foremost
  <2> QED
    BY <1>4, <2>1, <2>4
<1>7. CASE SkipSettled
  <2>1. /\ search = "searching" /\ search' = search /\ frontier' = frontier \ {First}
        /\ UNCHANGED <<dist, pred, settled, best, entry>>
    BY <1>7 DEF SkipSettled
  <2> QED
    BY <1>4, <1>7, <2>1, SkipSettledHolds
<1>8. CASE Settle
  <2>1. search = "searching" /\ search' = search
    BY <1>8 DEF Settle
  <2> QED
    BY <1>4, <1>8, <2>1, SettleHolds
<1>9. CASE RunDry
  <2>1. /\ search = "searching" /\ search' = "failed" /\ frontier = {}
        /\ UNCHANGED <<dist, pred, settled, frontier, best, entry>>
    BY <1>9 DEF RunDry
  <2> QED
    BY <1>4, <2>1
<1> QED
  BY <1>5, <1>6, <1>7, <1>8, <1>9 DEF SearchNext

-----------------------------------------------------------------------------
(* t[i] is what the first i of n numbers come to.                          *)
Sums(t, m, n) ==
    n \in Nat /\ t[0] = 0 /\ \A i \in 1..n : m[i] \in Nat /\ t[i] = t[i - 1] + m[i]

LEMMA SumsExist ==
  ASSUME NEW n \in Nat, NEW m \in [1..n -> Nat]
  PROVE  \E t \in [0..n -> Nat] : Sums(t, m, n)
<1>1. PICK G : G = [i \in 1..n |-> [x \in Nat |-> x + m[i]]]
  OBVIOUS
<1>2. \A i \in 1..n : \A x \in Nat : G[i][x] = x + m[i]
  BY <1>1
<1>3. StaysIn(G, n, Nat)
  <2>1. \A i \in 1..n : \A x \in Nat : G[i][x] \in Nat
    <3> TAKE i \in 1..n
    <3> TAKE x \in Nat
    <3>1. PICK y \in Nat : y = m[i]
      OBVIOUS
    <3>2. G[i][x] = x + y
      BY <1>2, <3>1
    <3> QED
      BY <3>2
  <2> QED
    BY <2>1 DEF StaysIn
<1>4. PICK t \in [0..n -> Nat] : Unfolding(t, 0, n, G)
  BY <1>3, Unfolds
<1>5. \A i \in 1..n : t[i] = t[i - 1] + m[i]
  <2> TAKE i \in 1..n
  <2>1. i - 1 \in 0..n /\ t[i - 1] \in Nat
    OBVIOUS
  <2> QED
    BY <1>2, <1>4, <2>1 DEF Unfolding
<1> QED
  BY <1>4, <1>5 DEF Sums, Unfolding

(* The last j of n numbers are those of q.                                 *)
Continues(t, m, k, q, j, n) ==
    k \in Nat /\ t[k] \in Nat /\ k + j = n /\ \A i \in 1..j : m[k + i] = q[i]

(* They add as much to the first as they come to.                          *)
LEMMA SumsFollow ==
  ASSUME NEW t, NEW m, NEW n, Sums(t, m, n), NEW u, NEW q, NEW j, Sums(u, q, j),
         NEW k, Continues(t, m, k, q, j, n)
  PROVE  u[j] \in Nat /\ t[n] = t[k] + u[j]
<1> USE DEF Continues, Sums
<1> SUFFICES ASSUME NEW h \in 0..j PROVE u[h] \in Nat /\ t[k + h] = t[k] + u[h]
  <2>1. j \in 0..j /\ k + j = n
    OBVIOUS
  <2> QED
    BY <2>1
<1> DEFINE right(i) == u[i] \in Nat /\ t[k + i] = t[k] + u[i]
           bad == {i \in 0..j : ~right(i)}
<1> SUFFICES ASSUME bad # {} PROVE FALSE
  OBVIOUS
<1>1. PICK i \in bad : \A x \in bad : i <= x
  <2>1. bad \in SUBSET Nat
    OBVIOUS
  <2> HIDE DEF bad
  <2> QED
    BY <2>1, Smallest
<1>2. i \in 0..j /\ ~right(i)
  BY <1>1
<1>3. i # 0
  BY <1>2
<1>4. i \in 1..j /\ i - 1 \in 0..j /\ i - 1 \notin bad
  BY <1>1, <1>2, <1>3
<1>5. u[i - 1] \in Nat /\ t[k + (i - 1)] = t[k] + u[i - 1]
  BY <1>4
<1>6. k + i \in 1..n /\ (k + i) - 1 = k + (i - 1)
  BY <1>4
<1>7. t[k + i] = t[k + (i - 1)] + m[k + i]
  BY <1>6
<1>8. u[i] = u[i - 1] + q[i] /\ q[i] = m[k + i] /\ q[i] \in Nat
  BY <1>4
<1>9. PICK w, x, y \in Nat : w = t[k] /\ x = u[i - 1] /\ y = q[i] /\ u[i] = x + y
  BY <1>5, <1>8
<1>10. t[k + i] = (w + x) + y
  BY <1>5, <1>7, <1>8, <1>9
<1>11. t[k + i] = w + (x + y) /\ x + y \in Nat
  BY <1>10
<1> QED
  BY <1>2, <1>9, <1>11

LEMMA TheConcatenation ==
  ASSUME NEW S, NEW a \in Seq(S), NEW b \in Seq(S)
  PROVE  /\ a \o b \in Seq(S) /\ Len(a) \in Nat /\ Len(b) \in Nat
         /\ Len(a \o b) = Len(a) + Len(b)
         /\ \A i \in 1..Len(a) : (a \o b)[i] = a[i]
         /\ \A i \in 1..Len(b) : (a \o b)[Len(a) + i] = b[i]
<1>1. PICK j, k \in Nat : k = Len(a) /\ j = Len(b)
  OBVIOUS
<1>2. PICK c : c = a \o b /\ c \in Seq(S) /\ Len(c) = k + j
               /\ \A i \in 1..k + j : c[i] = IF i <= k THEN a[i] ELSE b[i - k]
  <2>1. /\ a \o b \in Seq(S) /\ Len(a \o b) = Len(a) + Len(b)
        /\ \A i \in 1..Len(a) + Len(b) : (a \o b)[i] = IF i <= Len(a) THEN a[i] ELSE b[i - Len(a)]
    BY ConcatProperties
  <2> QED
    BY <1>1, <2>1
<1>3. \A i \in 1..j : k + i \in 1..k + j /\ ~(k + i <= k) /\ (k + i) - k = i
  OBVIOUS
<1>4. \A i \in 1..j : c[k + i] = b[i]
  BY <1>2, <1>3
<1>5. \A i \in 1..k : c[i] = a[i]
  BY <1>2
<1> QED
  BY <1>1, <1>2, <1>4, <1>5

LEMMA TheSingle ==
  ASSUME NEW S, NEW x \in S
  PROVE  <<x>> \in Seq(S) /\ Len(<<x>>) = 1 /\ <<x>>[1] = x
  OBVIOUS

Walkable == [edge : Edges, from : Nat, to : Nat]

LEMMA SpanIsPaid ==
  ASSUME Situated, NEW x \in Walkable
  PROVE  SpanCost(x) \in Nat
<1>1. PICK p, a, b \in Nat : p = PricePerMetre(x.edge) /\ a = x.from /\ b = x.to
  BY ThePrice DEF Walkable
<1>2. PICK g \in Nat : g = Gap(a, b)
  <2>1. Gap(a, b) \in Nat
    BY DEF Gap
  <2> QED
    BY <2>1
<1>3. p * g \in Nat
  OBVIOUS
<1> QED
  BY <1>1, <1>2, <1>3 DEF SpanCost, Walked

(* Numbers come to what they come to, one by one.                          *)
LEMMA TheSum ==
  ASSUME NEW n \in Nat, NEW m \in [1..n -> Nat]
  PROVE  \E t \in [0..n -> Nat] : Sums(t, m, n) /\ Added(m) = t[n]
<1>1. Len(m) = n
  <2>1. m \in Seq(Nat)
    BY IsASeq
  <2> QED
    BY <2>1, LenProperties
<1>2. PICK t \in [0..n -> Nat] : Sums(t, m, n)
  BY SumsExist
<1> DEFINE Right(g) == g = [i \in 0..n |-> IF i = 0 THEN 0 ELSE g[i - 1] + m[i]]
<1>3. Added(m) = (CHOOSE g : Right(g))[n]
  BY <1>1 DEF Added
<1>4. Right(t)
  <2>1. \A i \in 0..n : t[i] = IF i = 0 THEN 0 ELSE t[i - 1] + m[i]
    BY <1>2 DEF Sums
  <2>2. t = [i \in 0..n |-> t[i]]
    OBVIOUS
  <2> QED
    BY <2>1, <2>2, Zenon
<1> HIDE DEF Right
<1>5. PICK g : Right(g) /\ Added(m) = g[n]
  BY <1>3, <1>4
<1>6. \A i \in 0..n : g[i] = IF i = 0 THEN 0 ELSE g[i - 1] + m[i]
  BY <1>5, Zenon DEF Right
<1>7. g = [i \in 0..n |-> g[i]]
  BY <1>5, Zenon DEF Right
<1>8. Sums(g, m, n)
  <2>1. 0 \in 0..n /\ \A i \in 1..n : i \in 0..n /\ i # 0 /\ m[i] \in Nat
    OBVIOUS
  <2> QED
    BY <1>6, <2>1 DEF Sums
<1>9. \A i \in 0..n : g[i] = t[i]
  <2> DEFINE bad == {i \in 0..n : g[i] # t[i]}
  <2> SUFFICES ASSUME bad # {} PROVE FALSE
    OBVIOUS
  <2>1. PICK i \in bad : \A j \in bad : i <= j
    <3>1. bad \in SUBSET Nat
      OBVIOUS
    <3> HIDE DEF bad
    <3> QED
      BY <3>1, Smallest
  <2>2. i \in 0..n /\ g[i] # t[i]
    BY <2>1
  <2>3. i # 0
    BY <1>2, <1>8, <2>2 DEF Sums
  <2>4. i \in 1..n /\ i - 1 \in 0..n /\ i - 1 \notin bad
    BY <2>1, <2>2, <2>3
  <2>5. g[i - 1] = t[i - 1]
    BY <2>4
  <2> QED
    BY <1>2, <1>8, <2>2, <2>4, <2>5 DEF Sums
<1>10. g \in [0..n -> Nat]
  BY <1>7, <1>9
<1> QED
  BY <1>5, <1>8, <1>10

(* What a walk costs, span by span.                                        *)
Prices(m, s) == \A i \in 1..Len(s) : m[i] = SpanCost(s[i])

LEMMA TheTotal ==
  ASSUME Situated, NEW s \in Seq(Walkable)
  PROVE  \E m, t : Prices(m, s) /\ Sums(t, m, Len(s)) /\ Total(SpanCost, s) = t[Len(s)]
<1>1. PICK n \in Nat : n = Len(s)
  OBVIOUS
<1>2. \A i \in 1..n : s[i] \in Walkable
  BY <1>1
<1>3. PICK m : m = [i \in 1..n |-> SpanCost(s[i])]
  OBVIOUS
<1>4. m \in [1..n -> Nat] /\ Total(SpanCost, s) = Added(m)
  <2>1. \A i \in 1..n : SpanCost(s[i]) \in Nat
    BY <1>2, SpanIsPaid
  <2> QED
    BY <1>1, <1>3, <2>1 DEF Total
<1>5. PICK t \in [0..n -> Nat] : Sums(t, m, n) /\ Added(m) = t[n]
  BY <1>4, TheSum
<1>6. Prices(m, s)
  BY <1>1, <1>3 DEF Prices
<1> QED
  BY <1>1, <1>4, <1>5, <1>6

(* One walk after another costs what both do.                              *)
LEMMA TotalsAdd ==
  ASSUME Situated, NEW a \in Seq(Walkable), NEW b \in Seq(Walkable)
  PROVE  /\ Total(SpanCost, a \o b) = Total(SpanCost, a) + Total(SpanCost, b)
         /\ Total(SpanCost, a) \in Nat /\ Total(SpanCost, b) \in Nat
<1>1. PICK j, k, n \in Nat : k = Len(a) /\ j = Len(b) /\ n = k + j
  OBVIOUS
<1>2. PICK c : /\ c = a \o b /\ c \in Seq(Walkable) /\ Len(c) = n
               /\ \A i \in 1..k : c[i] = a[i]
               /\ \A i \in 1..j : c[k + i] = b[i]
  <2>1. /\ a \o b \in Seq(Walkable) /\ Len(a \o b) = Len(a) + Len(b)
        /\ \A i \in 1..Len(a) : (a \o b)[i] = a[i]
        /\ \A i \in 1..Len(b) : (a \o b)[Len(a) + i] = b[i]
    BY TheConcatenation
  <2> QED
    BY <1>1, <2>1
<1>3. PICK m, t : (\A i \in 1..k : m[i] = SpanCost(a[i])) /\ Sums(t, m, k) /\ Total(SpanCost, a) = t[k]
  BY <1>1, TheTotal DEF Prices
<1>4. PICK q, u : (\A i \in 1..j : q[i] = SpanCost(b[i])) /\ Sums(u, q, j) /\ Total(SpanCost, b) = u[j]
  BY <1>1, TheTotal DEF Prices
<1>5. PICK p, v : (\A i \in 1..n : p[i] = SpanCost(c[i])) /\ Sums(v, p, n) /\ Total(SpanCost, c) = v[n]
  BY <1>2, TheTotal DEF Prices
<1>6. Sums(v, p, k)
  BY <1>1, <1>5 DEF Sums
<1>7. t[k] \in Nat /\ v[k] = v[0] + t[k] /\ v[0] = 0
  <2>1. \A i \in 1..k : p[0 + i] = m[i]
    <3> TAKE i \in 1..k
    <3>1. i \in 1..n /\ 0 + i = i /\ c[i] = a[i]
      BY <1>1, <1>2
    <3> QED
      BY <1>3, <1>5, <3>1
  <2>2. v[0] = 0
    BY <1>5 DEF Sums
  <2>3. Continues(v, p, 0, m, k, k)
    BY <1>1, <2>1, <2>2 DEF Continues
  <2> QED
    BY <1>3, <1>6, <2>2, <2>3, SumsFollow
<1>8. v[k] = t[k] /\ v[k] \in Nat
  BY <1>7
<1>9. u[j] \in Nat /\ v[n] = v[k] + u[j]
  <2>1. \A i \in 1..j : p[k + i] = q[i]
    <3> TAKE i \in 1..j
    <3>1. k + i \in 1..n /\ c[k + i] = b[i]
      BY <1>1, <1>2
    <3> QED
      BY <1>4, <1>5, <3>1
  <2>2. Continues(v, p, k, q, j, n)
    BY <1>1, <1>8, <2>1 DEF Continues
  <2> QED
    BY <1>4, <1>5, <2>2, SumsFollow
<1> QED
  BY <1>2, <1>3, <1>4, <1>5, <1>7, <1>8, <1>9

LEMMA TotalOfOne ==
  ASSUME Situated, NEW x \in Walkable
  PROVE  Total(SpanCost, <<x>>) = SpanCost(x) /\ Total(SpanCost, <<>>) = 0
<1>1. PICK s \in Seq(Walkable) : s = <<x>> /\ Len(s) = 1 /\ s[1] = x
  BY TheSingle
<1>2. Total(SpanCost, s) = SpanCost(x)
  <2>1. PICK m, t : Prices(m, s) /\ Sums(t, m, Len(s)) /\ Total(SpanCost, s) = t[Len(s)]
    BY TheTotal
  <2>2. t[0] = 0 /\ t[1] = t[0] + m[1] /\ m[1] = SpanCost(x) /\ m[1] \in Nat
    <3>1. 1 \in 1..Len(s) /\ 1 - 1 = 0
      BY <1>1
    <3> QED
      BY <1>1, <2>1, <3>1 DEF Sums, Prices
  <2>3. t[1] = SpanCost(x) /\ Total(SpanCost, s) = t[1]
    <3>1. PICK y \in Nat : y = m[1]
      BY <2>2
    <3>2. t[1] = 0 + y /\ 0 + y = y
      BY <2>2, <3>1
    <3> QED
      BY <1>1, <2>1, <2>2, <3>1, <3>2
  <2> QED
    BY <2>3
<1>3. PICK e \in Seq(Walkable) : e = <<>> /\ Len(e) = 0
  BY EmptySeq
<1>4. Total(SpanCost, e) = 0
  <2>1. PICK m, t : Sums(t, m, Len(e)) /\ Total(SpanCost, e) = t[Len(e)]
    BY TheTotal
  <2> QED
    BY <1>3, <2>1 DEF Sums
<1> QED
  BY <1>1, <1>2, <1>3, <1>4

-----------------------------------------------------------------------------
(* One hop more, back towards where a node was reached from.               *)
Preceded == \A n \in Nodes : pred[n] # NoHop => pred[n][1] \in Edges /\ pred[n][2] \in Nodes

Longer(t) ==
    [n \in Nodes |-> IF pred[n] = NoHop THEN <<>>
                     ELSE Append(t[pred[n][2]], Whole(pred[n][1], pred[n][2]))]

Earlier(t) == [n \in Nodes |-> IF pred[n] = NoHop THEN n ELSE t[pred[n][2]]]

LEMMA WholeIsWalkable ==
  ASSUME Situated, NEW e \in Edges, NEW n
  PROVE  Whole(e, n) \in Walkable
  BY TheEdges DEF Whole, Span, Walkable

(* The hops to each node, from as many nodes back.                         *)
LEMMA TheWalks ==
  ASSUME Situated, Preceded, NEW N \in Nat, N = Cardinality(Nodes)
  PROVE  \E w \in [0..N -> [Nodes -> Seq(Walkable)]] :
           /\ HopsTo = w[N] /\ w[0] = [n \in Nodes |-> <<>>]
           /\ \A k \in 1..N : w[k] = Longer(w[k - 1])
<1> DEFINE T == [Nodes -> Seq(Walkable)]
           start == [n \in Nodes |-> <<>>]
           Right(g) == g = [left \in 0..N |-> [n \in Nodes |->
                IF pred[n] = NoHop \/ left = 0 THEN <<>>
                ELSE Append(g[left - 1][pred[n][2]], Whole(pred[n][1], pred[n][2]))]]
<1>1. HopsTo = (CHOOSE g : Right(g))[N]
  BY DEF HopsTo
<1>2. start \in T
  BY EmptySeq
<1>3. ASSUME NEW t \in T PROVE Longer(t) \in T
  <2>1. ASSUME NEW n \in Nodes, pred[n] # NoHop
        PROVE  Append(t[pred[n][2]], Whole(pred[n][1], pred[n][2])) \in Seq(Walkable)
    <3>1. t[pred[n][2]] \in Seq(Walkable) /\ Whole(pred[n][1], pred[n][2]) \in Walkable
      BY <2>1, WholeIsWalkable DEF Preceded
    <3> QED
      BY <3>1, AppendProperties
  <2> QED
    BY <2>1, EmptySeq DEF Longer
<1>4. PICK G : \A i \in 1..N : \A t \in T : G[i][t] = Longer(t)
  <2>1. PICK G : G = [i \in 1..N |-> [t \in T |-> Longer(t)]]
    OBVIOUS
  <2>2. \A i \in 1..N : \A t \in T : G[i][t] = Longer(t)
    BY <2>1
  <2> QED
    BY <2>2
<1> HIDE DEF T, start
<1>5. PICK w \in [0..N -> T] : Unfolding(w, start, N, G)
  <2>1. StaysIn(G, N, T)
    BY <1>3, <1>4 DEF StaysIn
  <2> QED
    BY <1>2, <2>1, Unfolds
<1>6. w[0] = start /\ \A k \in 1..N : w[k] = Longer(w[k - 1])
  <2>1. w[0] = start /\ \A k \in 1..N : w[k] = G[k][w[k - 1]]
    BY <1>5 DEF Unfolding
  <2>2. ASSUME NEW k \in 1..N PROVE w[k] = Longer(w[k - 1])
    <3>1. w[k - 1] \in T
      <4>1. k - 1 \in 0..N
        OBVIOUS
      <4> QED
        BY <4>1
    <3> QED
      BY <1>4, <2>1, <3>1
  <2> QED
    BY <2>1, <2>2
<1>7. Right(w)
  <2>1. ASSUME NEW k \in 0..N
        PROVE  w[k] = [n \in Nodes |->
                  IF pred[n] = NoHop \/ k = 0 THEN <<>>
                  ELSE Append(w[k - 1][pred[n][2]], Whole(pred[n][1], pred[n][2]))]
    <3>1. CASE k = 0
      BY <1>6, <3>1 DEF start
    <3>2. CASE k # 0
      <4>1. w[k] = Longer(w[k - 1])
        BY <1>6, <3>2
      <4> QED
        BY <3>2, <4>1, Zenon DEF Longer
    <3> QED
      BY <3>1, <3>2
  <2>2. w = [k \in 0..N |-> w[k]]
    BY <1>5
  <2> QED
    BY <2>1, <2>2, Zenon
<1> HIDE DEF Right
<1>8. PICK g : Right(g) /\ HopsTo = g[N]
  BY <1>1, <1>7
<1>9. \A k \in 0..N : g[k] = [n \in Nodes |->
                  IF pred[n] = NoHop \/ k = 0 THEN <<>>
                  ELSE Append(g[k - 1][pred[n][2]], Whole(pred[n][1], pred[n][2]))]
  BY <1>8, Zenon DEF Right
<1> DEFINE bad == {k \in 0..N : g[k] # w[k]}
<1>10. bad = {}
  <2> SUFFICES ASSUME bad # {} PROVE FALSE
    OBVIOUS
  <2>1. PICK k \in bad : \A j \in bad : k <= j
    <3>1. bad \in SUBSET Nat
      OBVIOUS
    <3> HIDE DEF bad
    <3> QED
      BY <3>1, Smallest
  <2>2. k \in 0..N /\ g[k] # w[k]
    BY <2>1
  <2>3. k # 0
    <3>1. 0 \in 0..N
      OBVIOUS
    <3>2. g[0] = start
      BY <1>9, <3>1 DEF start
    <3> QED
      BY <1>6, <2>2, <3>2
  <2>4. k \in 1..N /\ k - 1 \in 0..N /\ k - 1 \notin bad
    BY <2>1, <2>2, <2>3
  <2>5. g[k - 1] = w[k - 1]
    BY <2>4
  <2>6. g[k] = Longer(w[k - 1])
    BY <1>9, <2>2, <2>3, <2>5, Zenon DEF Longer
  <2> QED
    BY <1>6, <2>2, <2>4, <2>6
<1>11. g[N] = w[N]
  <2>1. N \in 0..N
    OBVIOUS
  <2> QED
    BY <1>10, <2>1
<1> QED
  BY <1>5, <1>6, <1>8, <1>11 DEF T, start

(* Where they begin.                                                       *)
LEMMA TheSeeds ==
  ASSUME Situated, Preceded, NEW N \in Nat, N = Cardinality(Nodes)
  PROVE  \E b \in [0..N -> [Nodes -> Nodes]] :
           /\ Seed = b[N] /\ b[0] = [n \in Nodes |-> n]
           /\ \A k \in 1..N : b[k] = Earlier(b[k - 1])
<1> DEFINE T == [Nodes -> Nodes]
           start == [n \in Nodes |-> n]
           Right(g) == g = [left \in 0..N |-> [n \in Nodes |->
                IF pred[n] = NoHop \/ left = 0 THEN n ELSE g[left - 1][pred[n][2]]]]
<1>1. Seed = (CHOOSE g : Right(g))[N]
  BY DEF Seed
<1>2. start \in T
  OBVIOUS
<1>3. ASSUME NEW t \in T PROVE Earlier(t) \in T
  BY DEF Earlier, Preceded
<1>4. PICK G : \A i \in 1..N : \A t \in T : G[i][t] = Earlier(t)
  <2>1. PICK G : G = [i \in 1..N |-> [t \in T |-> Earlier(t)]]
    OBVIOUS
  <2>2. \A i \in 1..N : \A t \in T : G[i][t] = Earlier(t)
    BY <2>1
  <2> QED
    BY <2>2
<1> HIDE DEF T, start
<1>5. PICK b \in [0..N -> T] : Unfolding(b, start, N, G)
  <2>1. StaysIn(G, N, T)
    BY <1>3, <1>4 DEF StaysIn
  <2> QED
    BY <1>2, <2>1, Unfolds
<1>6. b[0] = start /\ \A k \in 1..N : b[k] = Earlier(b[k - 1])
  <2>1. b[0] = start /\ \A k \in 1..N : b[k] = G[k][b[k - 1]]
    BY <1>5 DEF Unfolding
  <2>2. ASSUME NEW k \in 1..N PROVE b[k] = Earlier(b[k - 1])
    <3>1. b[k - 1] \in T
      <4>1. k - 1 \in 0..N
        OBVIOUS
      <4> QED
        BY <4>1
    <3> QED
      BY <1>4, <2>1, <3>1
  <2> QED
    BY <2>1, <2>2
<1>7. Right(b)
  <2>1. ASSUME NEW k \in 0..N
        PROVE  b[k] = [n \in Nodes |-> IF pred[n] = NoHop \/ k = 0 THEN n ELSE b[k - 1][pred[n][2]]]
    <3>1. CASE k = 0
      BY <1>6, <3>1 DEF start
    <3>2. CASE k # 0
      <4>1. b[k] = Earlier(b[k - 1])
        BY <1>6, <3>2
      <4> QED
        BY <3>2, <4>1, Zenon DEF Earlier
    <3> QED
      BY <3>1, <3>2
  <2>2. b = [k \in 0..N |-> b[k]]
    BY <1>5
  <2> QED
    BY <2>1, <2>2, Zenon
<1> HIDE DEF Right
<1>8. PICK g : Right(g) /\ Seed = g[N]
  BY <1>1, <1>7
<1>9. \A k \in 0..N : g[k] = [n \in Nodes |-> IF pred[n] = NoHop \/ k = 0 THEN n ELSE g[k - 1][pred[n][2]]]
  BY <1>8, Zenon DEF Right
<1> DEFINE bad == {k \in 0..N : g[k] # b[k]}
<1>10. bad = {}
  <2> SUFFICES ASSUME bad # {} PROVE FALSE
    OBVIOUS
  <2>1. PICK k \in bad : \A j \in bad : k <= j
    <3>1. bad \in SUBSET Nat
      OBVIOUS
    <3> HIDE DEF bad
    <3> QED
      BY <3>1, Smallest
  <2>2. k \in 0..N /\ g[k] # b[k]
    BY <2>1
  <2>3. k # 0
    <3>1. 0 \in 0..N
      OBVIOUS
    <3>2. g[0] = start
      BY <1>9, <3>1 DEF start
    <3> QED
      BY <1>6, <2>2, <3>2
  <2>4. k \in 1..N /\ k - 1 \in 0..N /\ k - 1 \notin bad
    BY <2>1, <2>2, <2>3
  <2>5. g[k - 1] = b[k - 1]
    BY <2>4
  <2>6. g[k] = Earlier(b[k - 1])
    BY <1>9, <2>2, <2>3, <2>5, Zenon DEF Earlier
  <2> QED
    BY <1>6, <2>2, <2>4, <2>6
<1>11. g[N] = b[N]
  <2>1. N \in 0..N
    OBVIOUS
  <2> QED
    BY <1>10, <2>1
<1> QED
  BY <1>5, <1>6, <1>8, <1>11 DEF T, start

-----------------------------------------------------------------------------
(* Spans one after another, from a node to a node.                         *)
Chained(s) == \A i \in 1..Len(s) - 1 : Joined(s[i], s[i + 1])

Threads(s, m, n) ==
    /\ s \in Seq(Walkable) /\ Chained(s)
    /\ s = <<>> => m = n
    /\ s # <<>> => /\ NodeAt(s[1], s[1].from) = m
                   /\ NodeAt(s[Len(s)], s[Len(s)].to) = n

(* A walk goes on where the one before it ended.                           *)
LEMMA ChainsOn ==
  ASSUME NEW a \in Seq(Walkable), NEW b \in Seq(Walkable), Chained(a), Chained(b),
         a # <<>> /\ b # <<>> => Joined(a[Len(a)], b[1])
  PROVE  /\ a \o b \in Seq(Walkable) /\ Chained(a \o b)
         /\ a \o b = <<>> => a = <<>> /\ b = <<>>
         /\ a \o b # <<>> =>
              /\ (a \o b)[1] = IF a = <<>> THEN b[1] ELSE a[1]
              /\ (a \o b)[Len(a \o b)] = IF b = <<>> THEN a[Len(a)] ELSE b[Len(b)]
<1>1. PICK j, k, n \in Nat : k = Len(a) /\ j = Len(b) /\ n = k + j
  OBVIOUS
<1>2. PICK c : /\ c = a \o b /\ c \in Seq(Walkable) /\ Len(c) = n
               /\ \A i \in 1..k : c[i] = a[i]
               /\ \A i \in 1..j : c[k + i] = b[i]
  <2>1. /\ a \o b \in Seq(Walkable) /\ Len(a \o b) = Len(a) + Len(b)
        /\ \A i \in 1..Len(a) : (a \o b)[i] = a[i]
        /\ \A i \in 1..Len(b) : (a \o b)[Len(a) + i] = b[i]
    BY TheConcatenation
  <2> QED
    BY <1>1, <2>1
<1>3. (a = <<>> <=> k = 0) /\ (b = <<>> <=> j = 0) /\ (c = <<>> <=> n = 0)
  <2>1. ASSUME NEW s \in Seq(Walkable) PROVE s = <<>> <=> Len(s) = 0
    BY EmptySeq
  <2> QED
    BY <1>1, <1>2, <2>1
<1>4. ASSUME NEW i \in 1..n - 1 PROVE Joined(c[i], c[i + 1])
  <2>1. CASE i < k
    <3>1. i \in 1..k /\ i + 1 \in 1..k /\ i \in 1..Len(a) - 1
      BY <1>1, <2>1
    <3>2. c[i] = a[i] /\ c[i + 1] = a[i + 1]
      BY <1>2, <3>1
    <3>3. Joined(a[i], a[i + 1])
      BY <3>1 DEF Chained
    <3> QED
      BY <3>2, <3>3
  <2>2. CASE i = k
    <3>1. k \in 1..k /\ 1 \in 1..j /\ a # <<>> /\ b # <<>>
      BY <1>1, <1>3, <2>2
    <3>2. c[k] = a[k] /\ c[k + 1] = b[1]
      BY <1>2, <3>1
    <3> QED
      BY <1>1, <2>2, <3>1, <3>2
  <2>3. CASE i > k
    <3>5. i - k \in 1..j
      BY <1>1, <2>3
    <3>1. PICK h \in 1..j : h = i - k
      BY <3>5
    <3>2. h + 1 \in 1..j /\ h \in 1..Len(b) - 1 /\ k + h = i /\ k + (h + 1) = i + 1
      BY <1>1, <3>1
    <3>3. c[i] = b[h] /\ c[i + 1] = b[h + 1]
      BY <1>2, <3>2
    <3>4. Joined(b[h], b[h + 1])
      BY <3>2 DEF Chained
    <3> QED
      BY <3>3, <3>4
  <2> QED
    BY <1>1, <2>1, <2>2, <2>3
<1>5. c # <<>> => c[1] = IF a = <<>> THEN b[1] ELSE a[1]
  <2>1. CASE k = 0
    <3>1. n # 0 => 1 \in 1..j /\ k + 1 = 1
      BY <1>1, <2>1
    <3> QED
      BY <1>2, <1>3, <2>1, <3>1
  <2>2. CASE k # 0
    <3>1. 1 \in 1..k
      BY <2>2
    <3> QED
      BY <1>2, <1>3, <2>2, <3>1
  <2> QED
    BY <2>1, <2>2
<1>6. c # <<>> => c[n] = IF b = <<>> THEN a[k] ELSE b[j]
  <2>1. CASE j = 0
    <3>1. n # 0 => k \in 1..k /\ k = n
      BY <1>1, <2>1
    <3> QED
      BY <1>2, <1>3, <2>1, <3>1
  <2>2. CASE j # 0
    <3>1. j \in 1..j /\ k + j = n
      BY <1>1, <2>2
    <3> QED
      BY <1>2, <1>3, <2>2, <3>1
  <2> QED
    BY <2>1, <2>2
<1>7. c = <<>> => a = <<>> /\ b = <<>>
  BY <1>1, <1>3
<1>8. Chained(c)
  BY <1>2, <1>4 DEF Chained
<1> QED
  BY <1>1, <1>2, <1>5, <1>6, <1>7, <1>8

(* One span is a walk.                                                     *)
LEMMA OneThreads ==
  ASSUME NEW x \in Walkable
  PROVE  /\ <<x>> \in Seq(Walkable) /\ Chained(<<x>>) /\ <<x>> # <<>>
         /\ <<x>>[1] = x /\ <<x>>[Len(<<x>>)] = x
<1>1. PICK s : s = <<x>> /\ s \in Seq(Walkable) /\ Len(s) = 1 /\ s[1] = x
  BY TheSingle
<1>2. Chained(s)
  <2>1. 1..Len(s) - 1 = {}
    BY <1>1
  <2> QED
    BY <2>1 DEF Chained
<1>3. s # <<>>
  BY <1>1, EmptySeq
<1> QED
  BY <1>1, <1>2, <1>3

LEMMA NoneThreads == <<>> \in Seq(Walkable) /\ Chained(<<>>)
<1>1. PICK s : s = <<>> /\ s \in Seq(Walkable) /\ Len(s) = 0
  BY EmptySeq
<1>2. Chained(s)
  <2>1. 1..Len(s) - 1 = {}
    BY <1>1
  <2> QED
    BY <2>1 DEF Chained
<1> QED
  BY <1>1, <1>2

(* One hop more.                                                           *)
LEMMA ThreadsOn ==
  ASSUME NEW s, NEW m, NEW n, Threads(s, m, n), n # Target,
         NEW x \in Walkable, NodeAt(x, x.from) = n, NEW k, NodeAt(x, x.to) = k
  PROVE  Threads(Append(s, x), m, k)
<1>1. PICK b : /\ b = <<x>> /\ b \in Seq(Walkable) /\ Chained(b) /\ b # <<>>
               /\ b[1] = x /\ b[Len(b)] = x
  BY OneThreads
<1>2. s \in Seq(Walkable) /\ Chained(s)
  BY DEF Threads
<1>3. Append(s, x) = s \o b
  BY <1>1, <1>2, AppendIsConcat
<1>4. s # <<>> /\ b # <<>> => Joined(s[Len(s)], b[1])
  BY <1>1 DEF Threads, Joined
<1>5. PICK c : /\ c = s \o b /\ c \in Seq(Walkable) /\ Chained(c) /\ c # <<>>
               /\ c[1] = IF s = <<>> THEN x ELSE s[1]
               /\ c[Len(c)] = x
  <2>1. /\ s \o b \in Seq(Walkable) /\ Chained(s \o b)
        /\ s \o b = <<>> => s = <<>> /\ b = <<>>
        /\ s \o b # <<>> =>
              /\ (s \o b)[1] = IF s = <<>> THEN b[1] ELSE s[1]
              /\ (s \o b)[Len(s \o b)] = IF b = <<>> THEN s[Len(s)] ELSE b[Len(b)]
    BY <1>1, <1>2, <1>4, ChainsOn
  <2> QED
    BY <1>1, <2>1
<1>6. NodeAt(c[1], c[1].from) = m
  BY <1>5 DEF Threads
<1> QED
  BY <1>3, <1>5, <1>6 DEF Threads

-----------------------------------------------------------------------------
LEMMA HopThreads ==
  ASSUME Situated, NEW m \in Nodes, NEW h \in Neighbours(m),
         NEW x, x = Whole(h[1], m)
  PROVE  /\ x \in Walkable /\ NodeAt(x, x.from) = m /\ NodeAt(x, x.to) = h[2]
         /\ SpanCost(x) = Cost(h[1])
<1>1. PICK e \in Edges : /\ e = h[1]
                         /\ \/ m = Edge(e).u /\ h[2] = Edge(e).v
                            \/ m = Edge(e).v /\ h[2] = Edge(e).u
  BY TheHops
<1>2. Edge(e).u # Edge(e).v /\ Edge(e).len \in Nat /\ Edge(e).len > 0
  BY TheEdges
<1>3. x \in Walkable /\ x.edge = e
  BY <1>1, <1>2, WholeIsWalkable DEF Whole, Span
<1>4. PICK l \in Nat : l = Edge(e).len /\ l > 0
  BY <1>2
<1>5. \/ m = Edge(e).u /\ h[2] = Edge(e).v /\ x.from = 0 /\ x.to = l
      \/ m = Edge(e).v /\ h[2] = Edge(e).u /\ x.from = l /\ x.to = 0
  BY <1>1, <1>2, <1>4 DEF Whole, Span
<1>6. NodeAt(x, x.from) = m /\ NodeAt(x, x.to) = h[2]
  BY <1>3, <1>4, <1>5 DEF NodeAt
<1>7. Walked(x) = l
  BY <1>4, <1>5 DEF Walked, Gap
<1> QED
  BY <1>1, <1>3, <1>4, <1>6, <1>7 DEF SpanCost, Cost

(* From a point to an end of its edge, and back.                           *)
LEMMA StubThreads ==
  ASSUME Situated, NEW point \in {from, to}, NEW n \in Ends(point),
         NEW x, x = Span(point[1], point[2], At(point[1], n)),
         NEW y, y = Span(point[1], At(point[1], n), point[2])
  PROVE  /\ x \in Walkable /\ NodeAt(x, x.to) = n /\ SpanCost(x) = Stub(point, n)
         /\ y \in Walkable /\ NodeAt(y, y.from) = n /\ SpanCost(y) = Stub(point, n)
         /\ point[2] = At(point[1], n) => Stub(point, n) = 0
<1>1. PICK e \in Edges : e = point[1]
  BY ThePoints
<1>2. PICK l \in Nat : l = Edge(e).len /\ l > 0
  BY TheEdges
<1>3. Edge(e).u # Edge(e).v /\ (n = Edge(e).u \/ n = Edge(e).v)
  BY <1>1, TheEdges DEF Ends
<1>4. PICK i \in Nat : /\ i = At(e, n)
                       /\ \/ n = Edge(e).u /\ i = 0
                          \/ n = Edge(e).v /\ i = l
  <2>1. At(e, n) = IF n = Edge(e).u THEN 0 ELSE l
    BY <1>2 DEF At
  <2>2. \/ n = Edge(e).u /\ At(e, n) = 0
        \/ n = Edge(e).v /\ At(e, n) = l
    BY <1>3, <2>1
  <2> QED
    BY <1>2, <2>1, <2>2
<1>5. PICK o \in Nat : o = point[2]
  <2>1. point[2] \in 0..Edge(point[1]).len
    BY ThePoints
  <2> QED
    BY <1>1, <1>2, <2>1
<1>6. PICK k : Stub(point, n) = PricePerMetre(e) * k /\ k = Gap(o, i)
  BY <1>1, <1>4, <1>5, ThePoints
<1>7. Gap(o, i) = Gap(i, o) /\ (o = i => Gap(o, i) = 0)
  BY DEF Gap
<1>8. x.edge = e /\ x.from = o /\ x.to = i /\ y.edge = e /\ y.from = i /\ y.to = o
  BY <1>1, <1>4, <1>5 DEF Span
<1>9. x \in Walkable /\ y \in Walkable
  BY <1>1, <1>4, <1>5 DEF Span, Walkable
<1>10. NodeAt(x, x.to) = n /\ NodeAt(y, y.from) = n
  BY <1>2, <1>4, <1>8 DEF NodeAt
<1>11. SpanCost(x) = PricePerMetre(e) * Gap(o, i) /\ SpanCost(y) = PricePerMetre(e) * Gap(i, o)
  BY <1>8 DEF SpanCost, Walked
<1>12. o = i => Stub(point, n) = 0
  <2>1. PricePerMetre(e) \in Nat
    BY ThePrice
  <2> QED
    BY <1>6, <1>7, <2>1
<1> QED
  BY <1>1, <1>4, <1>5, <1>6, <1>7, <1>9, <1>10, <1>11, <1>12

(* Every span is a whole edge.                                             *)
Edged(s) ==
    \A i \in 1..Len(s) : \E m \in Nodes : \E h \in Neighbours(m) : s[i] = Whole(h[1], m)

LEMMA EdgedOn ==
  ASSUME NEW s \in Seq(Walkable), Edged(s), NEW x \in Walkable,
         NEW m \in Nodes, NEW h \in Neighbours(m), x = Whole(h[1], m)
  PROVE  Edged(Append(s, x))
<1>1. PICK j \in Nat : j = Len(s)
  OBVIOUS
<1>2. /\ Len(Append(s, x)) = Len(s) + 1 /\ Append(s, x)[Len(s) + 1] = x
      /\ \A i \in 1..Len(s) : Append(s, x)[i] = s[i]
  BY AppendProperties
<1>3. PICK c : c = Append(s, x)
  OBVIOUS
<1>4. Len(c) = j + 1 /\ c[j + 1] = x /\ \A i \in 1..j : c[i] = s[i]
  BY <1>1, <1>2, <1>3
<1>5. \A i \in 1..j : \E p \in Nodes : \E g \in Neighbours(p) : c[i] = Whole(g[1], p)
  BY <1>1, <1>4 DEF Edged
<1>6. \A i \in 1..j + 1 : i \in 1..j \/ i = j + 1
  BY <1>1
<1>7. \E p \in Nodes : \E g \in Neighbours(p) : c[j + 1] = Whole(g[1], p)
  BY <1>4
<1>8. Edged(c)
  BY <1>4, <1>5, <1>6, <1>7 DEF Edged
<1> QED
  BY <1>3, <1>8

(* What is known of a node is a walk there is to it, at what it costs.     *)
LEMMA TracedIsWalked ==
  ASSUME Situated, dist \in [Nodes -> Nat], settled \in SUBSET Nodes,
         NEW rank, Traced(Network, dist, settled, pred, rank)
  PROVE  \A n \in Nodes : dist[n] < Infinity =>
           /\ Seed[n] \in Ends(from) /\ Threads(HopsTo[n], Seed[n], n)
           /\ Edged(HopsTo[n])
           /\ Total(SpanCost, HopsTo[n]) + Stub(from, Seed[n]) = dist[n]
<1>1. /\ Network.nodes = Nodes /\ Network.seeds = Ends(from)
      /\ \A n \in Nodes : Network.near[n] = Neighbours(n) /\ Network.leave[n] = Stub(from, n)
      /\ \A e \in Edges : Network.cost[e] = Cost(e)
  BY DEF Network
<1>2. IsNetwork(Network)
  BY TheNetwork
<1> HIDE DEF Network
<1>3. PICK N \in Nat : N = Cardinality(Nodes)
  BY TheReference
<1>4. rank \in [Nodes -> Nat] /\ \A n \in Nodes : rank[n] <= N
  <2>1. IsFiniteSet(Nodes)
    BY <1>1, <1>2 DEF IsNetwork
  <2>2. Cardinality(settled) \in Nat /\ Cardinality(settled) <= N
    BY <1>3, <2>1, FS_Subset, FS_CardinalityType
  <2>3. rank \in [Nodes -> Nat] /\ \A n \in Nodes : rank[n] <= Cardinality(settled)
    BY <1>1 DEF Traced
  <2>4. ASSUME NEW n \in Nodes PROVE rank[n] <= N
    <3>1. PICK i, j \in Nat : i = rank[n] /\ j = Cardinality(settled) /\ i <= j /\ j <= N
      BY <2>2, <2>3
    <3> QED
      BY <3>1
  <2> QED
    BY <2>3, <2>4
<1>5. ASSUME NEW n \in Nodes, pred[n] # NoHop
      PROVE  /\ pred[n][2] \in Nodes
             /\ \E h \in Neighbours(pred[n][2]) : h[1] = pred[n][1] /\ h[2] = n
             /\ pred[n][1] \in Edges
             /\ dist[n] = dist[pred[n][2]] + Cost(pred[n][1])
             /\ rank[pred[n][2]] < rank[n]
  <2>1. /\ pred[n][2] \in settled /\ <<pred[n][1], n>> \in Network.near[pred[n][2]]
        /\ dist[n] = dist[pred[n][2]] + Network.cost[pred[n][1]]
        /\ rank[pred[n][2]] < rank[n]
    BY <1>1, <1>5 DEF Traced
  <2>2. PICK m \in Nodes : m = pred[n][2]
    BY <2>1
  <2>3. PICK h \in Neighbours(m) : h[1] = pred[n][1] /\ h[2] = n
    BY <1>1, <2>1, <2>2
  <2>4. h[1] \in Edges
    BY TheHops
  <2> QED
    BY <1>1, <2>1, <2>2, <2>3, <2>4
<1>6. ASSUME NEW n \in Nodes, pred[n] = NoHop, dist[n] < Infinity
      PROVE  n \in Ends(from) /\ dist[n] = Stub(from, n)
  BY <1>1, <1>6 DEF Traced
<1>7. Preceded
  BY <1>5 DEF Preceded
<1>8. PICK w \in [0..N -> [Nodes -> Seq(Walkable)]] :
        /\ HopsTo = w[N] /\ w[0] = [n \in Nodes |-> <<>>]
        /\ \A k \in 1..N : w[k] = Longer(w[k - 1])
  BY <1>3, <1>7, TheWalks
<1>9. PICK b \in [0..N -> [Nodes -> Nodes]] :
        /\ Seed = b[N] /\ b[0] = [n \in Nodes |-> n]
        /\ \A k \in 1..N : b[k] = Earlier(b[k - 1])
  BY <1>3, <1>7, TheSeeds
<1> DEFINE right(k, n) == /\ b[k][n] \in Ends(from) /\ Threads(w[k][n], b[k][n], n)
                          /\ Edged(w[k][n])
                          /\ Total(SpanCost, w[k][n]) + Stub(from, b[k][n]) = dist[n]
           bad == {k \in 0..N : \E n \in Nodes : rank[n] <= k /\ dist[n] < Infinity /\ ~right(k, n)}
<1>10. \A k \in 0..N : \A n \in Nodes : pred[n] = NoHop => w[k][n] = <<>> /\ b[k][n] = n
  <2> TAKE k \in 0..N
  <2> TAKE n \in Nodes
  <2> HAVE pred[n] = NoHop
  <2>1. CASE k = 0
    BY <1>8, <1>9, <2>1
  <2>2. CASE k # 0
    <3>1. w[k] = Longer(w[k - 1]) /\ b[k] = Earlier(b[k - 1])
      BY <1>8, <1>9, <2>2
    <3> QED
      BY <3>1 DEF Longer, Earlier
  <2> QED
    BY <2>1, <2>2
<1>11. \A n \in Nodes : \A k \in 0..N : pred[n] = NoHop /\ dist[n] < Infinity => right(k, n)
  <2> TAKE n \in Nodes
  <2> TAKE k \in 0..N
  <2> HAVE pred[n] = NoHop /\ dist[n] < Infinity
  <2>1. w[k][n] = <<>> /\ b[k][n] = n /\ n \in Ends(from) /\ dist[n] = Stub(from, n)
    BY <1>6, <1>10
  <2>2. Threads(<<>>, n, n)
    BY NoneThreads DEF Threads
  <2>3. Total(SpanCost, <<>>) = 0
    <3>1. PICK e \in Edges : TRUE
      BY ThePoints
    <3>2. Whole(e, n) \in Walkable
      BY WholeIsWalkable
    <3> QED
      BY <3>2, TotalOfOne
  <2>4. dist[n] \in Nat
    OBVIOUS
  <2>5. Edged(<<>>)
    <3>1. PICK e : e = <<>> /\ Len(e) = 0
      BY EmptySeq
    <3>2. 1..Len(e) = {}
      BY <3>1
    <3> QED
      BY <3>1, <3>2 DEF Edged
  <2> QED
    BY <2>1, <2>2, <2>3, <2>4, <2>5
<1>12. bad = {}
  <2> SUFFICES ASSUME bad # {} PROVE FALSE
    OBVIOUS
  <2>1. PICK k \in bad : \A j \in bad : k <= j
    <3>1. bad \in SUBSET Nat
      OBVIOUS
    <3> HIDE DEF bad
    <3> QED
      BY <3>1, Smallest
  <2>2. PICK n \in Nodes : k \in 0..N /\ rank[n] <= k /\ dist[n] < Infinity /\ ~right(k, n)
    BY <2>1
  <2> HIDE DEF right
  <2>3. pred[n] # NoHop
    BY <1>11, <2>2
  <2>4. PICK m \in Nodes : m = pred[n][2]
    BY <1>5, <2>3
  <2>5. PICK h \in Neighbours(m) : h[1] = pred[n][1] /\ h[2] = n
    BY <1>5, <2>3, <2>4
  <2>6. dist[n] = dist[m] + Cost(h[1]) /\ rank[m] < rank[n]
    BY <1>5, <2>3, <2>4, <2>5
  <2>7. Cost(h[1]) \in Nat /\ dist[m] \in Nat /\ dist[n] \in Nat /\ rank[m] \in Nat /\ rank[n] \in Nat
        /\ Infinity \in Nat
    BY <1>4, StraightIsLess, RoutingAssumption
  <2>8. k \in 1..N /\ k - 1 \in 0..N /\ rank[m] <= k - 1 /\ dist[m] < Infinity
    <3>1. PICK i, j \in Nat : i = rank[m] /\ j = rank[n] /\ i < j /\ j <= k
      BY <2>2, <2>6, <2>7
    <3>2. PICK c, x, y, z \in Nat : /\ c = Cost(h[1]) /\ x = dist[m] /\ y = dist[n] /\ z = Infinity
                                    /\ y = x + c /\ y < z
      BY <2>2, <2>6, <2>7
    <3>3. k \in 0..N
      BY <2>2
    <3>4. k \in 1..N /\ k - 1 \in 0..N /\ i <= k - 1
      BY <1>3, <3>1, <3>3
    <3>5. x < z
      BY <3>2
    <3> QED
      BY <3>1, <3>2, <3>4, <3>5
  <2>9. k - 1 \notin bad
    <3> HIDE DEF bad
    <3>1. ~(k <= k - 1)
      BY <2>8
    <3> QED
      BY <2>1, <3>1
  <2>10. right(k - 1, m)
    BY <2>8, <2>9
  <2>11. PICK x : x = Whole(h[1], m)
    OBVIOUS
  <2>12. x \in Walkable /\ NodeAt(x, x.from) = m /\ NodeAt(x, x.to) = n /\ SpanCost(x) = Cost(h[1])
    BY <2>5, <2>11, HopThreads
  <2>13. w[k][n] = Append(w[k - 1][m], x) /\ b[k][n] = b[k - 1][m]
    <3>1. w[k] = Longer(w[k - 1]) /\ b[k] = Earlier(b[k - 1])
      BY <1>8, <1>9, <2>8
    <3>2. Longer(w[k - 1])[n] = Append(w[k - 1][pred[n][2]], Whole(pred[n][1], pred[n][2]))
      BY <2>3 DEF Longer
    <3>3. Earlier(b[k - 1])[n] = b[k - 1][pred[n][2]]
      BY <2>3 DEF Earlier
    <3> QED
      BY <2>4, <2>5, <2>11, <3>1, <3>2, <3>3
  <2>14. PICK s, c : /\ s = w[k - 1][m] /\ c = b[k - 1][m] /\ c \in Ends(from) /\ Threads(s, c, m)
                     /\ Total(SpanCost, s) + Stub(from, c) = dist[m]
    BY <2>10 DEF right
  <2>15. m # Target
    BY <1>1, <1>2, RoutingAssumption DEF IsNetwork
  <2>16. Threads(Append(s, x), c, n)
    BY <2>12, <2>14, <2>15, ThreadsOn
  <2>17. Total(SpanCost, Append(s, x)) + Stub(from, c) = dist[n]
    <3>1. s \in Seq(Walkable)
      BY <2>14 DEF Threads
    <3>2. <<x>> \in Seq(Walkable)
      BY <2>12, TheSingle
    <3>3. Append(s, x) = s \o <<x>>
      BY <2>12, <3>1, AppendIsConcat
    <3>4. /\ Total(SpanCost, s \o <<x>>) = Total(SpanCost, s) + Total(SpanCost, <<x>>)
          /\ Total(SpanCost, s) \in Nat
      BY <3>1, <3>2, TotalsAdd
    <3>5. Total(SpanCost, <<x>>) = Cost(h[1])
      BY <2>12, TotalOfOne
    <3>6. Stub(from, c) \in Nat
      <4>1. c \in Network.seeds /\ c \in Nodes
        BY <1>1, <1>2, <2>14 DEF IsNetwork
      <4>2. Network.leave[c] \in Nat
        BY <1>2, <4>1 DEF IsNetwork
      <4> QED
        BY <1>1, <4>1, <4>2
    <3> QED
      BY <2>6, <2>7, <2>14, <3>3, <3>4, <3>5, <3>6
  <2>18. Edged(Append(s, x))
    <3>1. s \in Seq(Walkable) /\ Edged(s)
      BY <2>10, <2>14 DEF Threads, right
    <3> QED
      BY <2>5, <2>11, <2>12, <3>1, EdgedOn
  <2>19. right(k, n)
    BY <2>13, <2>14, <2>16, <2>17, <2>18 DEF right
  <2> QED
    BY <2>2, <2>19
<1> TAKE n \in Nodes
<1> HAVE dist[n] < Infinity
<1>13. right(N, n)
  <2>1. N \in 0..N
    BY <1>3
  <2> QED
    BY <1>4, <1>12, <2>1
<1> QED
  BY <1>8, <1>9, <1>13

-----------------------------------------------------------------------------
(* A stretch too short to walk is none, and costs none.                    *)
LEMMA StretchThreads ==
  ASSUME Situated, NEW point \in {from, to}, NEW n \in Ends(point),
         NEW x, x = Stretch(point[1], point[2], At(point[1], n)),
         NEW y, y = Stretch(point[1], At(point[1], n), point[2])
  PROVE  /\ x \in Seq(Walkable) /\ Chained(x) /\ Total(SpanCost, x) = Stub(point, n)
         /\ x = <<>> => Stub(point, n) = 0
         /\ x # <<>> => /\ x[1].edge = point[1] /\ x[1].from = point[2]
                        /\ NodeAt(x[Len(x)], x[Len(x)].to) = n
         /\ y \in Seq(Walkable) /\ Chained(y) /\ Total(SpanCost, y) = Stub(point, n)
         /\ y = <<>> => Stub(point, n) = 0
         /\ y # <<>> => /\ NodeAt(y[1], y[1].from) = n
                        /\ y[Len(y)].edge = point[1] /\ y[Len(y)].to = point[2]
<1>1. PICK a, b : /\ a = Span(point[1], point[2], At(point[1], n))
                  /\ b = Span(point[1], At(point[1], n), point[2])
  OBVIOUS
<1>2. /\ a \in Walkable /\ NodeAt(a, a.to) = n /\ SpanCost(a) = Stub(point, n)
      /\ b \in Walkable /\ NodeAt(b, b.from) = n /\ SpanCost(b) = Stub(point, n)
      /\ point[2] = At(point[1], n) => Stub(point, n) = 0
  BY <1>1, StubThreads
<1>3. a.edge = point[1] /\ a.from = point[2] /\ b.edge = point[1] /\ b.to = point[2]
  BY <1>1 DEF Span
<1>4. CASE point[2] = At(point[1], n)
  <2>1. x = <<>> /\ y = <<>>
    BY <1>4 DEF Stretch
  <2>2. Stub(point, n) = 0 /\ Total(SpanCost, <<>>) = 0
    BY <1>2, <1>4, TotalOfOne
  <2> QED
    BY <2>1, <2>2, NoneThreads
<1>5. CASE point[2] # At(point[1], n)
  <2>1. x = <<a>> /\ y = <<b>>
    BY <1>1, <1>5 DEF Stretch
  <2>2. /\ x \in Seq(Walkable) /\ Chained(x) /\ x # <<>> /\ x[1] = a /\ x[Len(x)] = a
        /\ Total(SpanCost, x) = SpanCost(a)
    BY <1>2, <2>1, OneThreads, TotalOfOne
  <2>3. /\ y \in Seq(Walkable) /\ Chained(y) /\ y # <<>> /\ y[1] = b /\ y[Len(y)] = b
        /\ Total(SpanCost, y) = SpanCost(b)
    BY <1>2, <2>1, OneThreads, TotalOfOne
  <2> QED
    BY <1>2, <1>3, <2>2, <2>3
<1> QED
  BY <1>4, <1>5

(* The walk back from the entry, between the points.                       *)
LEMMA TheEntryWalk ==
  ASSUME Situated, ~SamePin, entry # Target, entry \in Ends(to), entry \in Nodes,
         Seed[entry] \in Ends(from), Threads(HopsTo[entry], Seed[entry], entry),
         dist[entry] \in Nat,
         Total(SpanCost, HopsTo[entry]) + Stub(from, Seed[entry]) = dist[entry]
  PROVE  /\ Spans \in Seq(Walkable) /\ Chained(Spans)
         /\ Total(SpanCost, Spans) = dist[entry] + Stub(to, entry)
         /\ Spans # <<>> => LeavesFrom(Spans[1]) /\ LeadsTo(Spans[Len(Spans)])
<1>1. PICK b : b = Seed[entry] /\ b \in Ends(from) /\ b # Target
  <2>1. Ends(from) \subseteq Nodes /\ IsNetwork(Network) /\ Network.nodes = Nodes
    BY ThePoints, TheNetwork DEF Network
  <2> QED
    BY <2>1, RoutingAssumption DEF IsNetwork
<1>2. PICK h : h = HopsTo[entry] /\ Threads(h, b, entry)
  BY <1>1
<1>3. PICK x, y : /\ x = Stretch(from[1], from[2], At(from[1], b))
                  /\ y = Stretch(to[1], At(to[1], entry), to[2])
  OBVIOUS
<1>4. Spans = (x \o h) \o y
  <2>1. Spans = x \o h \o y
    BY <1>1, <1>2, <1>3 DEF Spans
  <2> QED
    BY <2>1
<1>5. /\ x \in Seq(Walkable) /\ Chained(x) /\ Total(SpanCost, x) = Stub(from, b)
      /\ x = <<>> => Stub(from, b) = 0
      /\ x # <<>> => /\ x[1].edge = from[1] /\ x[1].from = from[2]
                     /\ NodeAt(x[Len(x)], x[Len(x)].to) = b
  BY <1>1, <1>3, StretchThreads
<1>6. /\ y \in Seq(Walkable) /\ Chained(y) /\ Total(SpanCost, y) = Stub(to, entry)
      /\ y = <<>> => Stub(to, entry) = 0
      /\ y # <<>> => /\ NodeAt(y[1], y[1].from) = entry
                     /\ y[Len(y)].edge = to[1] /\ y[Len(y)].to = to[2]
  BY <1>3, StretchThreads
<1>7. /\ h \in Seq(Walkable) /\ Chained(h)
      /\ h = <<>> => b = entry
      /\ h # <<>> => /\ NodeAt(h[1], h[1].from) = b
                     /\ NodeAt(h[Len(h)], h[Len(h)].to) = entry
  BY <1>2 DEF Threads
<1>8. PICK a : /\ a = x \o h /\ a \in Seq(Walkable) /\ Chained(a)
               /\ a = <<>> => x = <<>> /\ h = <<>>
               /\ a # <<>> => /\ a[1] = IF x = <<>> THEN h[1] ELSE x[1]
                              /\ a[Len(a)] = IF h = <<>> THEN x[Len(x)] ELSE h[Len(h)]
  <2>1. x # <<>> /\ h # <<>> => Joined(x[Len(x)], h[1])
    BY <1>1, <1>5, <1>7 DEF Joined
  <2>2. /\ x \o h \in Seq(Walkable) /\ Chained(x \o h)
        /\ x \o h = <<>> => x = <<>> /\ h = <<>>
        /\ x \o h # <<>> =>
              /\ (x \o h)[1] = IF x = <<>> THEN h[1] ELSE x[1]
              /\ (x \o h)[Len(x \o h)] = IF h = <<>> THEN x[Len(x)] ELSE h[Len(h)]
    BY <1>5, <1>7, <2>1, ChainsOn
  <2> QED
    BY <2>2
<1>9. a # <<>> => NodeAt(a[Len(a)], a[Len(a)].to) = entry
  <2> HAVE a # <<>>
  <2>1. CASE h = <<>>
    <3>1. x # <<>>
      BY <1>5, <1>8, <2>1, ConcatEmptySeq
    <3> QED
      BY <1>5, <1>7, <1>8, <2>1, <3>1
  <2>2. CASE h # <<>>
    BY <1>7, <1>8, <2>2
  <2> QED
    BY <2>1, <2>2
<1>10. a # <<>> => LeavesFrom(a[1])
  <2> HAVE a # <<>>
  <2>1. CASE x # <<>>
    BY <1>5, <1>8, <2>1 DEF LeavesFrom
  <2>2. CASE x = <<>>
    <3>1. h # <<>>
      BY <1>7, <1>8, <2>2, ConcatEmptySeq
    <3> QED
      BY <1>1, <1>5, <1>7, <1>8, <2>2, <3>1 DEF LeavesFrom
  <2> QED
    BY <2>1, <2>2
<1>11. PICK c : /\ c = a \o y /\ c \in Seq(Walkable) /\ Chained(c)
                /\ c = <<>> => a = <<>> /\ y = <<>>
                /\ c # <<>> => /\ c[1] = IF a = <<>> THEN y[1] ELSE a[1]
                               /\ c[Len(c)] = IF y = <<>> THEN a[Len(a)] ELSE y[Len(y)]
  <2>1. a # <<>> /\ y # <<>> => Joined(a[Len(a)], y[1])
    BY <1>6, <1>9 DEF Joined
  <2>2. /\ a \o y \in Seq(Walkable) /\ Chained(a \o y)
        /\ a \o y = <<>> => a = <<>> /\ y = <<>>
        /\ a \o y # <<>> =>
              /\ (a \o y)[1] = IF a = <<>> THEN y[1] ELSE a[1]
              /\ (a \o y)[Len(a \o y)] = IF y = <<>> THEN a[Len(a)] ELSE y[Len(y)]
    BY <1>6, <1>8, <2>1, ChainsOn
  <2> QED
    BY <2>2
<1>12. Total(SpanCost, c) = dist[entry] + Stub(to, entry)
  <2>1. /\ Total(SpanCost, c) = Total(SpanCost, a) + Total(SpanCost, y)
        /\ Total(SpanCost, a) = Total(SpanCost, x) + Total(SpanCost, h)
        /\ Total(SpanCost, x) \in Nat /\ Total(SpanCost, h) \in Nat /\ Total(SpanCost, y) \in Nat
    BY <1>5, <1>6, <1>7, <1>8, <1>11, TotalsAdd
  <2>2. Total(SpanCost, h) + Total(SpanCost, x) = dist[entry]
    BY <1>1, <1>2, <1>5
  <2> QED
    BY <1>6, <2>1, <2>2
<1>13. c # <<>> => LeavesFrom(c[1])
  <2> HAVE c # <<>>
  <2>1. CASE a # <<>>
    BY <1>10, <1>11, <2>1
  <2>2. CASE a = <<>>
    <3>1. y # <<>>
      BY <1>6, <1>11, <2>2, ConcatEmptySeq
    <3>2. c[1] = y[1] /\ x = <<>> /\ h = <<>>
      BY <1>8, <1>11, <2>2
    <3>3. Stub(from, b) = 0 /\ b = entry /\ NodeAt(y[1], y[1].from) = b
      BY <1>5, <1>6, <1>7, <3>1, <3>2
    <3> QED
      BY <1>1, <3>2, <3>3 DEF LeavesFrom
  <2> QED
    BY <2>1, <2>2
<1>14. c # <<>> => LeadsTo(c[Len(c)])
  <2> HAVE c # <<>>
  <2>1. CASE y # <<>>
    BY <1>6, <1>11, <2>1 DEF LeadsTo
  <2>2. CASE y = <<>>
    <3>1. a # <<>>
      BY <1>8, <1>11, <2>2, ConcatEmptySeq
    <3> QED
      BY <1>6, <1>9, <1>11, <2>2, <3>1 DEF LeadsTo
  <2> QED
    BY <2>1, <2>2
<1> QED
  BY <1>4, <1>8, <1>11, <1>12, <1>13, <1>14

(* Straight along the edge both points are on.                             *)
LEMMA TheDirectWalk ==
  ASSUME Situated, ~SamePin, entry = Target, Together
  PROVE  /\ Spans \in Seq(Walkable) /\ Chained(Spans)
         /\ Total(SpanCost, Spans) = Direct
         /\ Spans # <<>> => LeavesFrom(Spans[1]) /\ LeadsTo(Spans[Len(Spans)])
<1>1. PICK x : x = Span(from[1], from[2], to[2])
  OBVIOUS
<1>2. Spans = <<x>>
  BY <1>1 DEF Spans
<1>3. x.edge = from[1] /\ x.from = from[2] /\ x.to = to[2] /\ from[1] = to[1]
  BY <1>1 DEF Span, Together
<1>4. x \in Walkable
  <2>1. from[1] \in Edges /\ from[2] \in 0..Edge(from[1]).len /\ to[2] \in 0..Edge(to[1]).len
    BY ThePoints
  <2>2. Edge(from[1]).len \in Nat
    BY <2>1, TheEdges
  <2>3. from[2] \in Nat /\ to[2] \in Nat
    BY <1>3, <2>1, <2>2
  <2> QED
    BY <1>1, <2>1, <2>3 DEF Walkable, Span
<1>5. SpanCost(x) = Direct
  BY <1>3 DEF SpanCost, Walked, Direct
<1>6. PICK s : /\ s = <<x>> /\ s \in Seq(Walkable) /\ Chained(s)
               /\ s[1] = x /\ s[Len(s)] = x /\ Total(SpanCost, s) = SpanCost(x)
  BY <1>4, OneThreads, TotalOfOne
<1>7. LeavesFrom(x) /\ LeadsTo(x)
  BY <1>3 DEF LeavesFrom, LeadsTo
<1> QED
  BY <1>2, <1>5, <1>6, <1>7

-----------------------------------------------------------------------------
(* The cheapest arrival is over an end of the destination's edge, or       *)
(* straight.                                                               *)
LEMMA TheOptimum ==
  ASSUME Situated, NEW v \in Nat,
         v <= Direct, \A n \in Ends(to) : v <= Reference[n] + Stub(to, n),
         v = Direct \/ \E n \in Ends(to) : v = Reference[n] + Stub(to, n)
  PROVE  Optimum = v
<1>1. \A n \in Ends(to) : Reference[n] + Stub(to, n) \in Nat
  <2> TAKE n \in Ends(to)
  <2>1a. PICK N \in Nat : \E r : Relaxes(Network, r, N) /\ Reference = r[N]
    BY TheReference
  <2>1. PICK r : Relaxes(Network, r, N) /\ Reference = r[N]
    BY <2>1a
  <2>2. Network.nodes = Nodes /\ Network.goals = Ends(to) /\ Network.enter[n] = Stub(to, n)
    BY ThePoints DEF Network
  <2>3. IsNetwork(Network)
    BY TheNetwork
  <2> HIDE DEF Network
  <2>4. n \in Nodes /\ Stub(to, n) \in Nat
    BY <2>2, <2>3 DEF IsNetwork
  <2>5. Reference[n] \in Nat
    <3>1. r \in [0..N -> [Nodes -> Nat]] /\ N \in 0..N
      BY <2>1, <2>2 DEF Relaxes
    <3> QED
      BY <2>1, <2>4, <3>1
  <2> QED
    BY <2>4, <2>5
<1>2. PICK S : S = {Direct} \cup {Reference[n] + Stub(to, n) : n \in Ends(to)}
  OBVIOUS
<1>3. Direct \in Nat
  <2>1. IsNetwork(Network)
    BY TheNetwork
  <2>2. Network.direct = Direct
    BY DEF Network
  <2> QED
    BY <2>1, <2>2 DEF IsNetwork
<1>4. S \in SUBSET Nat /\ v \in S /\ \A x \in S : v <= x
  BY <1>1, <1>2, <1>3
<1>5. Min(S) \in S /\ \A x \in S : Min(S) <= x
  BY <1>4, Smallest
<1>6. PICK m \in Nat : m = Min(S) /\ m \in S /\ m <= v
  BY <1>4, <1>5
<1>7. v <= m
  BY <1>4, <1>6
<1>8. m = v
  BY <1>6, <1>7
<1> QED
  BY <1>2, <1>6, <1>8 DEF Optimum

(* Every state a search can be in is exact.                                *)
LEMMA HoldsIsExact ==
  ASSUME Situated, SearchHolds
  PROVE  SearchIsExact
<1>1. CASE search = "idle"
  BY <1>1 DEF SearchIsExact, SettledIsExact, RouteIsCheapest
<1>2. CASE search # "idle"
  <2>1. /\ ~SamePin
        /\ Underway(Network, Reference, Together, dist, pred, settled, frontier, best, entry)
        /\ search = "found" => \E a \in frontier : a[2] = Target /\ Foremost(frontier, a)
        /\ search = "failed" => frontier = {}
    BY <1>2 DEF SearchHolds
  <2>2. /\ Network.nodes = Nodes /\ Network.goals = Ends(to) /\ Network.direct = Direct
        /\ \A n \in Nodes : Network.enter[n] = Stub(to, n)
    BY DEF Network
  <2>3. IsNetwork(Network)
    BY TheNetwork
  <2> HIDE DEF Network
  <2>4. Ends(to) \subseteq Nodes
    BY ThePoints
  <2>5. Explored(Network, dist, settled, frontier, best)
    BY <2>1 DEF Underway
  <2>6. PICK N \in Nat : N = Cardinality(Network.nodes)
    BY <2>2, TheReference
  <2>7. PICK r : Relaxes(Network, r, N) /\ Reference = r[N] /\ Trodden(Network, dist, settled, r, N)
    BY <2>1, <2>6 DEF Underway
  <2>8. \A n \in settled : dist[n] = Reference[n]
    BY <2>3, <2>5, <2>6, <2>7, SettledIsNearest
  <2>9. dist \in [Nodes -> Nat] /\ settled \in SUBSET Nodes /\ best \in Nat
        /\ \A n \in settled : dist[n] < Infinity
    BY <2>2, <2>5 DEF Explored
  <2>10. ASSUME search = "failed" PROVE Optimum >= Infinity
    <3>1. Explored(Network, dist, settled, {}, best)
      BY <2>1, <2>5, <2>10
    <3>2. Infinity <= Network.direct /\ \A n \in Network.goals : Infinity <= r[N][n] + Network.enter[n]
      BY <2>3, <2>6, <2>7, <3>1, DryIsUnreachable
    <3>3. Infinity <= Direct /\ \A n \in Ends(to) : Infinity <= Reference[n] + Stub(to, n)
      BY <2>2, <2>4, <2>7, <3>2
    <3>4. Direct = Infinity
      <4>1. Network.direct <= Infinity /\ Network.direct \in Nat
        BY <2>3 DEF IsNetwork
      <4> QED
        BY <2>2, <3>3, <4>1, RoutingAssumption
    <3>5. Optimum = Infinity
      BY <3>3, <3>4, TheOptimum, RoutingAssumption
    <3> QED
      BY <3>5, RoutingAssumption
  <2>11. ASSUME search = "found"
         PROVE  /\ best = Optimum /\ Total(SpanCost, Spans) = Optimum
                /\ \A i \in 1..Len(Spans) - 1 : Joined(Spans[i], Spans[i + 1])
                /\ Spans # <<>> => LeavesFrom(Spans[1]) /\ LeadsTo(Spans[Len(Spans)])
    <3>1. PICK a \in frontier : a[2] = Target /\ Foremost(frontier, a)
      BY <2>1, <2>11
    <3>2. best <= Network.direct /\ \A n \in Network.goals : best <= r[N][n] + Network.enter[n]
      BY <2>3, <2>5, <2>6, <2>7, <3>1, FirstArrivalIsCheapest
    <3>3. best <= Direct /\ \A n \in Ends(to) : best <= Reference[n] + Stub(to, n)
      BY <2>2, <2>4, <2>7, <3>2
    <3>4. CASE entry = Target
      <4>1. best = Direct /\ Together
        BY <2>1, <2>2, <3>1, <3>4 DEF Underway
      <4>2. best = Optimum
        BY <2>9, <3>3, <4>1, TheOptimum
      <4>3. /\ Chained(Spans) /\ Total(SpanCost, Spans) = Direct
            /\ Spans # <<>> => LeavesFrom(Spans[1]) /\ LeadsTo(Spans[Len(Spans)])
        BY <2>1, <3>4, <4>1, TheDirectWalk
      <4> QED
        BY <4>1, <4>2, <4>3 DEF Chained
    <3>5. CASE entry # Target
      <4>1. /\ entry \in settled /\ entry \in Ends(to) /\ entry \in Nodes
            /\ best = dist[entry] + Stub(to, entry)
        BY <2>1, <2>2, <2>4, <3>5 DEF Underway
      <4>2. best = Optimum
        <5>1. best = Reference[entry] + Stub(to, entry)
          BY <2>8, <4>1
        <5> QED
          BY <2>9, <3>3, <4>1, <5>1, TheOptimum
      <4>3. PICK rank : Traced(Network, dist, settled, pred, rank)
        BY <2>1 DEF Underway
      <4>4. /\ Seed[entry] \in Ends(from) /\ Threads(HopsTo[entry], Seed[entry], entry)
            /\ Total(SpanCost, HopsTo[entry]) + Stub(from, Seed[entry]) = dist[entry]
        BY <2>9, <4>1, <4>3, TracedIsWalked
      <4>5. /\ Chained(Spans) /\ Total(SpanCost, Spans) = dist[entry] + Stub(to, entry)
            /\ Spans # <<>> => LeavesFrom(Spans[1]) /\ LeadsTo(Spans[Len(Spans)])
        BY <2>1, <2>9, <3>5, <4>1, <4>4, TheEntryWalk
      <4> QED
        BY <4>1, <4>2, <4>5 DEF Chained
    <3> QED
      BY <3>4, <3>5
  <2> QED
    BY <2>8, <2>10, <2>11 DEF SearchIsExact, SettledIsExact, RouteIsCheapest
<1> QED
  BY <1>1, <1>2

-----------------------------------------------------------------------------
(* A price no edge is too long for.                                        *)
Affordable(w) ==
    /\ {w.least, w.base, w.sun, w.other} \subseteq Nat /\ w.least <= w.base
    /\ \A e \in Edges : (w.base + 2 * w.sun + 2 * w.other) * Edge(e).len < Infinity

RouteHolds ==
    /\ Situated /\ SearchHolds /\ request \in Requests
    /\ asking \in {Taste, Bare} \cup SweepSteps

(* What is charged is less than the steepest taste swept would be.         *)
LEMMA LessIsAffordable ==
  ASSUME graph \in Streets, request \in Requests, NEW step \in SweepSteps,
         NEW w, {w.least, w.base, w.sun, w.other} \subseteq Nat, w.least <= w.base,
         w.base + 2 * w.sun + 2 * w.other <= (4 + 2 * step) * (1 + request.alpha + request.beta)
  PROVE  Affordable(w)
<1>1. PICK a, b, s \in Nat : a = request.alpha /\ b = request.beta /\ s = step
  BY RoutesAssumption DEF SweepSteps
<1>2. PICK x, y \in Nat : /\ x = w.base + 2 * w.sun + 2 * w.other
                          /\ y = (4 + 2 * s) * (1 + a + b) /\ x <= y
  <2>1. PICK i, j, k \in Nat : i = w.base /\ j = w.sun /\ k = w.other
    OBVIOUS
  <2>2. i + 2 * j + 2 * k \in Nat
    OBVIOUS
  <2>3. (4 + 2 * s) * (1 + a + b) \in Nat
    <3>1. 4 + 2 * s \in Nat /\ 1 + a + b \in Nat
      OBVIOUS
    <3>2. PICK p, q \in Nat : p = 4 + 2 * s /\ q = 1 + a + b
      BY <3>1
    <3>3. p * q \in Nat
      OBVIOUS
    <3> QED
      BY <3>2, <3>3
  <2> QED
    BY <1>1, <2>1, <2>2, <2>3
<1>3. ASSUME NEW e \in Edges
      PROVE  (w.base + 2 * w.sun + 2 * w.other) * Edge(e).len < Infinity
  <2>1. PICK l \in Nat : l = Edge(e).len
    BY RoutingAssumption DEF Edges, Edge
  <2>2. y * l < Infinity
    <3>1. (4 + 2 * step) * (1 + request.alpha + request.beta) * graph.edges[e].len < Infinity
      BY RoutesAssumption DEF SweepSteps, Edges
    <3> QED
      BY <1>1, <1>2, <2>1, <3>1 DEF Edge
  <2>3. x * l <= y * l
    BY <1>2, TimesGrows
  <2>4. x * l \in Nat /\ y * l \in Nat /\ Infinity \in Nat
    BY RoutingAssumption
  <2> QED
    BY <1>2, <2>1, <2>2, <2>3, <2>4
<1> QED
  BY <1>3 DEF Affordable

LEMMA TheTastes ==
  ASSUME graph \in Streets, request \in Requests
  PROVE  /\ Affordable(Weights(request.alpha, request.beta))
         /\ Affordable(NightWeights(request.beta)) /\ Affordable(Weights(0, 0))
         /\ \A step \in SweepSteps : step \in Nat /\ Affordable(SweepWeights(step))
<1>1. PICK a, b \in Nat : a = request.alpha /\ b = request.beta
  BY RoutesAssumption
<1>2. 0 \in SweepSteps /\ \A step \in SweepSteps : step \in Nat
  BY <1>1, RoutesAssumption DEF SweepSteps
<1>3. (4 + 2 * 0) * (1 + a + b) = 4 + 4 * a + 4 * b
  OBVIOUS
<1>4. Affordable(Weights(a, b))
  <2>1. PICK w : w = Weights(a, b)
    OBVIOUS
  <2>2. w.least = 4 /\ w.base = 4 /\ w.sun = a /\ w.other = b
    BY <2>1 DEF Weights
  <2>3. w.base + 2 * w.sun + 2 * w.other <= (4 + 2 * 0) * (1 + a + b)
    BY <1>3, <2>2
  <2>4. {w.least, w.base, w.sun, w.other} \subseteq Nat /\ w.least <= w.base
    BY <2>2
  <2> QED
    BY <1>1, <1>2, <2>1, <2>3, <2>4, LessIsAffordable
<1>5. Affordable(NightWeights(b))
  <2>1. PICK w : w = NightWeights(b)
    OBVIOUS
  <2>2. w.least = 4 /\ w.base = 4 + 2 * b /\ w.sun = 0 /\ w.other = 0
    BY <2>1 DEF NightWeights
  <2>3. w.base + 2 * w.sun + 2 * w.other <= (4 + 2 * 0) * (1 + a + b)
    BY <1>3, <2>2
  <2>4. {w.least, w.base, w.sun, w.other} \subseteq Nat /\ w.least <= w.base
    BY <2>2
  <2> QED
    BY <1>1, <1>2, <2>1, <2>3, <2>4, LessIsAffordable
<1>6. Affordable(Weights(0, 0))
  <2>1. PICK w : w = Weights(0, 0)
    OBVIOUS
  <2>2. w.least = 4 /\ w.base = 4 /\ w.sun = 0 /\ w.other = 0
    BY <2>1 DEF Weights
  <2>3. w.base + 2 * w.sun + 2 * w.other <= (4 + 2 * 0) * (1 + a + b)
    BY <1>3, <2>2
  <2>4. {w.least, w.base, w.sun, w.other} \subseteq Nat /\ w.least <= w.base
    BY <2>2
  <2> QED
    BY <1>1, <1>2, <2>1, <2>3, <2>4, LessIsAffordable
<1>7. ASSUME NEW step \in SweepSteps PROVE Affordable(SweepWeights(step))
  <2>1. PICK s \in Nat : s = step
    BY <1>2
  <2>2. PICK w : w = SweepWeights(step)
    OBVIOUS
  <2>3. PICK i, j \in Nat : i = s * a /\ j = b * s
    <3>1. s * a \in Nat /\ b * s \in Nat
      OBVIOUS
    <3> QED
      BY <3>1
  <2>4. (4 + 2 * s) * (1 + a + b) = 4 + 4 * a + 4 * b + 2 * s + 2 * i + 2 * j
    <3>1. (4 + 2 * s) * (1 + a + b) = 4 + 4 * a + 4 * b + 2 * s + 2 * (s * a) + 2 * (b * s)
      OBVIOUS
    <3> QED
      BY <2>3, <3>1
  <2>5. CASE a = 0
    <3>1. w.least = 4 /\ w.base = 4 /\ w.sun = s /\ w.other = 0
      BY <1>1, <2>1, <2>2, <2>5 DEF SweepWeights, Weights
    <3>2. w.base + 2 * w.sun + 2 * w.other <= (4 + 2 * s) * (1 + a + b)
      BY <2>4, <3>1
    <3>3. {w.least, w.base, w.sun, w.other} \subseteq Nat /\ w.least <= w.base
      BY <3>1
    <3> QED
      BY <1>1, <2>1, <2>2, <3>2, <3>3, LessIsAffordable
  <2>6. CASE a # 0
    <3>1. w.least = 4 * a /\ w.base = 4 * a /\ w.sun = i /\ w.other = j
      BY <1>1, <2>1, <2>2, <2>3, <2>6 DEF SweepWeights
    <3>2. w.base + 2 * w.sun + 2 * w.other <= (4 + 2 * s) * (1 + a + b)
      BY <2>4, <3>1
    <3>3. {w.least, w.base, w.sun, w.other} \subseteq Nat /\ w.least <= w.base
      BY <3>1
    <3> QED
      BY <1>1, <2>1, <2>2, <3>2, <3>3, LessIsAffordable
  <2> QED
    BY <2>5, <2>6
<1> QED
  BY <1>1, <1>2, <1>4, <1>5, <1>6, <1>7

(* Another search begins, at another price.                                *)
LEMMA SearchedHolds ==
  ASSUME Situated, NEW w, Affordable(w), NEW purpose, Searched(w, purpose)
  PROVE  Situated' /\ SearchHolds' /\ asking' = purpose
<1>1. /\ UNCHANGED <<graph, from, to>> /\ price' = w /\ search' = "idle" /\ asking' = purpose
  BY DEF Searched
<1>2. Situated'
  BY <1>1 DEF Situated, Affordable, Edges, Edge
<1>3. SearchHolds'
  BY <1>1 DEF SearchHolds
<1> QED
  BY <1>1, <1>2, <1>3

LEMMA RestingHolds ==
  ASSUME Situated, SearchHolds, UNCHANGED routingVars
  PROVE  Situated' /\ SearchHolds'
<1>1. UNCHANGED <<graph, from, to, price>>
  BY DEF routingVars
<1>2. /\ Network' = Network /\ Reference' = Reference /\ Together' = Together
      /\ SamePin' = SamePin /\ Situated'
  BY <1>1, NetworkStays
<1>3. UNCHANGED <<search, dist, pred, settled, frontier, best, entry>>
  BY DEF routingVars
<1> QED
  BY <1>2, <1>3 DEF SearchHolds

(* Whatever a search returns, the next one is of a taste that is swept.    *)
LEMMA TheSweep ==
  ASSUME request \in Requests
  PROVE  /\ Min(SweepSteps) \in SweepSteps
         /\ \A step : StepsAfter(step) # {} => Min(StepsAfter(step)) \in SweepSteps
<1>1. SweepSteps \in SUBSET Nat /\ SweepSteps # {}
  BY RoutesAssumption DEF SweepSteps
<1>2. Min(SweepSteps) \in SweepSteps
  BY <1>1, Smallest
<1>3. ASSUME NEW step, StepsAfter(step) # {} PROVE Min(StepsAfter(step)) \in SweepSteps
  <2>1. StepsAfter(step) \in SUBSET Nat /\ StepsAfter(step) \in SUBSET SweepSteps
    BY <1>1 DEF StepsAfter
  <2>2. Min(StepsAfter(step)) \in StepsAfter(step)
    BY <1>3, <2>1, Smallest
  <2> QED
    BY <2>1, <2>2
<1> QED
  BY <1>2, <1>3

LEMMA RouteStepHolds ==
  ASSUME RouteHolds, RouteNext
  PROVE  RouteHolds'
<1>1. Situated /\ SearchHolds /\ request \in Requests /\ asking \in {Taste, Bare} \cup SweepSteps
  BY DEF RouteHolds
<1>2. request' = request /\ SweepSteps' = SweepSteps /\ Taste' = Taste /\ Bare' = Bare
  BY DEF RouteNext, Refuse, Search, NoRoute, StandStill, KeepShaded, KeepShortest, KeepSwept,
         routeVars, SweepSteps, Taste, Bare
<1>3. graph \in Streets
  BY <1>1 DEF Situated
<1>4. SUFFICES Situated' /\ SearchHolds' /\ asking' \in {Taste, Bare} \cup SweepSteps
  BY <1>1, <1>2 DEF RouteHolds
<1>5. ASSUME Finish PROVE Situated' /\ SearchHolds' /\ asking' = asking
  <2>1. UNCHANGED routingVars /\ asking' = asking
    BY <1>5 DEF Finish
  <2> QED
    BY <1>1, <2>1, RestingHolds
<1>6. ASSUME NEW step \in SweepSteps, Searched(SweepWeights(step), step)
      PROVE  Situated' /\ SearchHolds' /\ asking' \in SweepSteps
  <2>1. Affordable(SweepWeights(step))
    BY <1>1, <1>3, TheTastes
  <2> QED
    BY <1>1, <1>6, <2>1, SearchedHolds
<1>7. Min(SweepSteps) \in SweepSteps
  BY <1>1, TheSweep
<1>8. CASE Refuse
  <2>1. UNCHANGED routingVars /\ asking' = asking
    BY <1>8 DEF Refuse
  <2> QED
    BY <1>1, <2>1, RestingHolds
<1>9. CASE Search
  <2>1. ~SamePin /\ SearchNext /\ asking' = asking
    BY <1>9 DEF Search, routeVars
  <2> QED
    BY <1>1, <2>1, SearchStepHolds
<1>10. CASE NoRoute
  <2>1. UNCHANGED routingVars /\ asking' = asking
    BY <1>10 DEF NoRoute
  <2> QED
    BY <1>1, <2>1, RestingHolds
<1>11. CASE StandStill
  <2>1. UNCHANGED routingVars /\ asking' = asking
    BY <1>11 DEF StandStill
  <2> QED
    BY <1>1, <2>1, RestingHolds
<1>12. CASE KeepShaded
  <2>1. \/ Searched(Weights(0, 0), Bare)
        \/ Searched(SweepWeights(Min(SweepSteps)), Min(SweepSteps))
        \/ Finish
    BY <1>12 DEF KeepShaded
  <2>2. CASE Searched(Weights(0, 0), Bare)
    <3>1. Affordable(Weights(0, 0))
      BY <1>1, <1>3, TheTastes
    <3> QED
      BY <1>1, <2>2, <3>1, SearchedHolds
  <2> QED
    BY <1>1, <1>5, <1>6, <1>7, <2>1, <2>2
<1>13. CASE KeepShortest
  <2>1. Searched(SweepWeights(Min(SweepSteps)), Min(SweepSteps)) \/ Finish
    BY <1>13 DEF KeepShortest
  <2> QED
    BY <1>1, <1>5, <1>6, <1>7, <2>1
<1>14. CASE KeepSwept
  <2>1. \/ /\ StepsAfter(asking) # {}
           /\ Searched(SweepWeights(Min(StepsAfter(asking))), Min(StepsAfter(asking)))
        \/ Finish
    BY <1>14 DEF KeepSwept
  <2>2. StepsAfter(asking) # {} => Min(StepsAfter(asking)) \in SweepSteps
    BY <1>1, TheSweep
  <2> QED
    BY <1>1, <1>5, <1>6, <2>1, <2>2
<1> QED
  BY <1>8, <1>9, <1>10, <1>11, <1>12, <1>13, <1>14 DEF RouteNext

LEMMA RouteBeginsHolding ==
  ASSUME graph \in Streets, from \in PointsOf(graph), to \in PointsOf(graph), RequestInit
  PROVE  RouteHolds
<1>1. request \in Requests /\ asking = Taste /\ search = "idle"
  BY DEF RequestInit, RoutingIdle
<1>2. PICK w : /\ w = price
               /\ w = IF request.night THEN NightWeights(request.beta)
                      ELSE Weights(request.alpha, request.beta)
  BY DEF RequestInit
<1>3. Affordable(w)
  BY <1>1, <1>2, TheTastes
<1>4. Situated
  BY <1>2, <1>3 DEF Situated, Affordable
<1> QED
  BY <1>1, <1>4 DEF RouteHolds, SearchHolds

LEMMA RouteStaysHolding ==
  ASSUME RouteHolds, [RouteNext]_<<routingVars, routeVars>>
  PROVE  RouteHolds'
<1> SUFFICES ASSUME UNCHANGED <<routingVars, routeVars>> PROVE RouteHolds'
  BY RouteStepHolds
<1>1. Situated /\ SearchHolds /\ request \in Requests /\ asking \in {Taste, Bare} \cup SweepSteps
  BY DEF RouteHolds
<1>2. UNCHANGED routingVars /\ request' = request /\ asking' = asking
  BY DEF routeVars
<1>3. SweepSteps' = SweepSteps /\ Taste' = Taste /\ Bare' = Bare
  BY <1>2 DEF SweepSteps, Taste, Bare
<1>4. Situated' /\ SearchHolds'
  BY <1>1, <1>2, RestingHolds
<1> QED
  BY <1>1, <1>2, <1>3, <1>4 DEF RouteHolds

(* Whatever the graph, the points, the taste and the order nodes come out  *)
(* of the queue in, what the router settles is as near as any walk makes   *)
(* it, the route it returns is the cheapest there is and costs what it is  *)
(* said to, and it fails only where no walk leads: every search of every   *)
(* request is exact.                                                       *)
THEOREM SearchesAreExact == RouteSpec => []SearchIsExact
<1> DEFINE Init == /\ graph \in Streets /\ from \in PointsOf(graph) /\ to \in PointsOf(graph)
                   /\ RequestInit
<1>1. Init => RouteHolds
  BY RouteBeginsHolding
<1>2. RouteHolds /\ [RouteNext]_<<routingVars, routeVars>> => RouteHolds'
  BY RouteStaysHolding
<1>3. RouteHolds => SearchIsExact
  BY HoldsIsExact DEF RouteHolds
<1> QED
  BY <1>1, <1>2, <1>3, PTL DEF RouteSpec, Init

-----------------------------------------------------------------------------
(* A walk between the points: along the edge they share, or over an end of *)
(* the first one's edge and an end of the second's, and whole edges in     *)
(* between.  Which walks there are does not depend on any price.           *)
Over(b, h, n) ==
    Stretch(from[1], from[2], At(from[1], b)) \o h \o Stretch(to[1], At(to[1], n), to[2])

Passes(s) ==
    \/ Together /\ s = <<Span(from[1], from[2], to[2])>>
    \/ \E b \in Ends(from), n \in Ends(to) : \E h :
         Threads(h, b, n) /\ Edged(h) /\ s = Over(b, h, n)

LEMMA StubsArePaid ==
  ASSUME Situated
  PROVE  /\ \A n \in Ends(from) : n \in Nodes /\ Stub(from, n) \in Nat /\ Stub(from, n) < Infinity
         /\ \A n \in Ends(to) : n \in Nodes /\ Stub(to, n) \in Nat
<1>1. /\ Network.nodes = Nodes /\ Network.seeds = Ends(from) /\ Network.goals = Ends(to)
      /\ \A n \in Nodes : Network.leave[n] = Stub(from, n) /\ Network.enter[n] = Stub(to, n)
  BY DEF Network
<1>2. IsNetwork(Network)
  BY TheNetwork
<1> HIDE DEF Network
<1> QED
  BY <1>1, <1>2 DEF IsNetwork

(* What a walk over two ends costs.                                        *)
LEMMA OverCosts ==
  ASSUME Situated, NEW b \in Ends(from), NEW n \in Ends(to), NEW h \in Seq(Walkable)
  PROVE  /\ Over(b, h, n) \in Seq(Walkable) /\ Total(SpanCost, h) \in Nat
         /\ Total(SpanCost, Over(b, h, n))
              = Stub(from, b) + Total(SpanCost, h) + Stub(to, n)
<1>1. PICK x, y : /\ x = Stretch(from[1], from[2], At(from[1], b))
                  /\ y = Stretch(to[1], At(to[1], n), to[2])
  OBVIOUS
<1>2. x \in Seq(Walkable) /\ Total(SpanCost, x) = Stub(from, b)
  BY <1>1, StretchThreads
<1>3. y \in Seq(Walkable) /\ Total(SpanCost, y) = Stub(to, n)
  BY <1>1, StretchThreads
<1>4. PICK a : a = x \o h /\ a \in Seq(Walkable)
  <2>1. x \o h \in Seq(Walkable)
    BY <1>2, TheConcatenation
  <2> QED
    BY <2>1
<1>5. Over(b, h, n) = a \o y
  BY <1>1, <1>4 DEF Over
<1>6. a \o y \in Seq(Walkable)
  BY <1>3, <1>4, TheConcatenation
<1>7. /\ Total(SpanCost, a \o y) = Total(SpanCost, a) + Total(SpanCost, y)
      /\ Total(SpanCost, x \o h) = Total(SpanCost, x) + Total(SpanCost, h)
      /\ Total(SpanCost, h) \in Nat
  BY <1>2, <1>3, <1>4, TotalsAdd
<1>8. Stub(from, b) \in Nat /\ Stub(to, n) \in Nat
  BY StubsArePaid
<1> QED
  BY <1>2, <1>3, <1>4, <1>5, <1>6, <1>7, <1>8

(* However a walk goes on over whole edges, no node is reached for less    *)
(* than what is settled or can be settled next.                            *)
LEMMA TrailsAreBounded ==
  ASSUME Situated, Explored(Network, dist, settled, frontier, best),
         NEW b \in Ends(from), NEW n, NEW h, Threads(h, b, n), Edged(h)
  PROVE  Bounded(Network, dist, settled, frontier, Total(SpanCost, h) + Stub(from, b), n)
<1> DEFINE G == Network
           bounded(v, m) == Bounded(G, dist, settled, frontier, v, m)
<1>1. /\ G.nodes = Nodes /\ G.seeds = Ends(from)
      /\ \A m \in Nodes : G.near[m] = Neighbours(m) /\ G.leave[m] = Stub(from, m)
      /\ \A e \in Edges : G.cost[e] = Cost(e)
  BY DEF Network
<1>2. IsNetwork(G)
  BY TheNetwork
<1>3. Explored(G, dist, settled, frontier, best)
  OBVIOUS
<1> HIDE DEF G
<1>4. PICK c \in Nat : c = Stub(from, b) /\ c < Infinity
  BY StubsArePaid
<1>5. h \in Seq(Walkable) /\ Chained(h)
  BY DEF Threads
<1>6. PICK k \in Nat : k = Len(h)
  BY <1>5
<1>7. PICK m, t : Prices(m, h) /\ Sums(t, m, k) /\ Total(SpanCost, h) = t[k]
  BY <1>5, <1>6, TheTotal
<1> DEFINE end(i) == IF i = 0 THEN b ELSE NodeAt(h[i], h[i].to)
           bad == {i \in 0..k : ~(t[i] \in Nat /\ end(i) \in Nodes /\ bounded(t[i] + c, end(i)))}
<1>8. t[0] = 0 /\ end(0) = b /\ b \in Nodes
  BY <1>7, StubsArePaid DEF Sums
<1>9. bounded(c, b)
  <2>1. dist[b] \in Nat /\ dist[b] <= c /\ G.ahead[b] \in Nat /\ Infinity \in Nat
    BY <1>1, <1>2, <1>3, <1>4, <1>8, RoutingAssumption DEF Explored, IsNetwork
  <2>2. CASE b \in settled
    BY <2>1, <2>2 DEF Bounded
  <2>3. CASE b \notin settled
    <3>1. dist[b] < Infinity
      BY <1>4, <2>1
    <3>2. <<dist[b] + G.ahead[b], b>> \in frontier
      BY <1>1, <1>3, <1>8, <2>3, <3>1 DEF Explored
    <3>3. PICK a \in frontier : a[1] = dist[b] + G.ahead[b]
      BY <3>2
    <3>4. a[1] <= c + G.ahead[b]
      BY <2>1, <3>3
    <3> QED
      BY <3>4 DEF Bounded
  <2> QED
    BY <2>2, <2>3
<1>10. bad = {}
  <2> SUFFICES ASSUME bad # {} PROVE FALSE
    OBVIOUS
  <2>1. PICK i \in bad : \A j \in bad : i <= j
    <3>1. bad \in SUBSET Nat
      OBVIOUS
    <3> HIDE DEF bad
    <3> QED
      BY <3>1, Smallest
  <2>2. i \in 0..k /\ ~(t[i] \in Nat /\ end(i) \in Nodes /\ bounded(t[i] + c, end(i)))
    BY <2>1
  <2>3. i # 0
    <3>1. 0 + c = c
      BY <1>4
    <3> HIDE DEF bounded, end
    <3> QED
      BY <1>8, <1>9, <2>2, <3>1
  <2>4. i \in 1..k /\ i - 1 \in 0..k /\ i - 1 \notin bad
    <3> HIDE DEF bad
    <3> QED
      BY <1>6, <2>1, <2>2, <2>3
  <2>5. t[i - 1] \in Nat /\ end(i - 1) \in Nodes /\ bounded(t[i - 1] + c, end(i - 1))
    <3> HIDE DEF bounded, end
    <3> QED
      BY <2>4
  <2>6. PICK p \in Nodes : \E g \in Neighbours(p) : h[i] = Whole(g[1], p)
    BY <1>6, <2>4 DEF Edged
  <2>7. PICK g \in Neighbours(p) : h[i] = Whole(g[1], p)
    BY <2>6
  <2>8. PICK x : x = h[i]
    OBVIOUS
  <2>9. NodeAt(x, x.from) = p /\ NodeAt(x, x.to) = g[2] /\ SpanCost(x) = Cost(g[1])
    BY <2>7, <2>8, HopThreads
  <2>10. end(i - 1) = p
    <3>1. CASE i = 1
      <4>1. k # 0 /\ h # <<>>
        <5>1. 1 \in 1..k
          BY <2>4, <3>1
        <5>2. k # 0
          BY <5>1
        <5> QED
          BY <1>5, <1>6, <5>2, EmptySeq
      <4>2. NodeAt(h[1], h[1].from) = b
        BY <4>1 DEF Threads
      <4> QED
        BY <2>8, <2>9, <3>1, <4>2
    <3>2. CASE i # 1
      <4>1. i - 1 \in 1..Len(h) - 1 /\ (i - 1) + 1 = i /\ i - 1 # 0
        BY <1>6, <2>4, <3>2
      <4>2. Joined(h[i - 1], h[i])
        BY <1>5, <4>1 DEF Chained
      <4> QED
        BY <2>8, <2>9, <4>1, <4>2 DEF Joined
    <3> QED
      BY <3>1, <3>2
  <2>11. end(i) = g[2]
    BY <2>3, <2>8, <2>9
  <2>12. /\ g[1] \in Edges /\ g[2] \in Nodes /\ <<g[1], p>> \in Neighbours(g[2])
         /\ Cost(g[1]) \in Nat
    BY TheHops, StraightIsLess
  <2>13. t[i] = t[i - 1] + Cost(g[1]) /\ t[i] \in Nat
    <3>1. m[i] = Cost(g[1])
      BY <1>6, <1>7, <2>4, <2>8, <2>9 DEF Prices
    <3> QED
      BY <1>7, <2>4, <2>5, <2>12, <3>1 DEF Sums
  <2>14. bounded(t[i] + c, g[2])
    <3>1. PICK v \in Nat : v = t[i - 1] + c
      BY <1>4, <2>5
    <3>2. PICK q : q = <<g[1], p>>
      OBVIOUS
    <3>3. q \in G.near[g[2]] /\ g[2] \in G.nodes /\ q[1] = g[1] /\ q[2] = p
      BY <1>1, <2>12, <3>2
    <3>4. bounded(v, q[2])
      BY <2>5, <2>10, <3>1, <3>3
    <3>5. Bounded(G, dist, settled, frontier, v + G.cost[q[1]], g[2])
      BY <1>2, <1>3, <3>3, <3>4, BoundedOnward
    <3>6. v + G.cost[q[1]] = t[i] + c
      BY <1>1, <1>4, <2>5, <2>12, <2>13, <3>1, <3>3
    <3> QED
      BY <3>5, <3>6
  <2> HIDE DEF bounded, end
  <2> QED
    BY <2>2, <2>11, <2>12, <2>13, <2>14
<1>11. end(k) = n
  BY <1>5, <1>6, EmptySeq DEF Threads
<1>12. bounded(t[k] + c, end(k))
  <2>1. k \in 0..k
    BY <1>6
  <2> HIDE DEF bounded, end
  <2> QED
    BY <1>10, <2>1
<1> QED
  BY <1>4, <1>7, <1>11, <1>12 DEF G

(* A walk found is as cheap as any.                                        *)
LEMMA NoneIsCheaper ==
  ASSUME Situated, Explored(Network, dist, settled, frontier, best),
         NEW a, a[2] = Target, Foremost(frontier, a), NEW s, Passes(s)
  PROVE  best <= Total(SpanCost, s)
<1> DEFINE G == Network
<1>1. /\ G.nodes = Nodes /\ G.goals = Ends(to) /\ G.direct = Direct
      /\ \A m \in Nodes : G.enter[m] = Stub(to, m)
  BY DEF Network
<1>2. IsNetwork(G) /\ Explored(G, dist, settled, frontier, best)
  BY TheNetwork
<1> HIDE DEF G
<1>3. best \in Nat /\ best <= Direct /\ Direct \in Nat /\ Direct <= Infinity /\ Infinity \in Nat
  BY <1>1, <1>2, RoutingAssumption DEF Explored, IsNetwork
<1>4. a \in frontier /\ a[1] \in Nat /\ best <= a[1] /\ \A c \in frontier : a[1] <= c[1]
  <2>1. Target \notin G.nodes
    BY <1>2, RoutingAssumption DEF IsNetwork
  <2> QED
    BY <1>2, <2>1 DEF Explored, Foremost
<1>5. CASE Together /\ s = <<Span(from[1], from[2], to[2])>>
  <2>1. PICK x : x = Span(from[1], from[2], to[2])
    OBVIOUS
  <2>2. x.edge = from[1] /\ x.from = from[2] /\ x.to = to[2]
    BY <2>1 DEF Span
  <2>3. x \in Walkable
    <3>1. from[1] \in Edges /\ from[2] \in 0..Edge(from[1]).len /\ to[2] \in 0..Edge(to[1]).len
      BY ThePoints
    <3>2. Edge(from[1]).len \in Nat
      BY <3>1, TheEdges
    <3>3. from[2] \in Nat /\ to[2] \in Nat
      BY <1>5, <3>1, <3>2 DEF Together
    <3> QED
      BY <2>1, <3>1, <3>3 DEF Walkable, Span
  <2>4. SpanCost(x) = Direct
    BY <1>5, <2>2 DEF SpanCost, Walked, Direct
  <2> QED
    BY <1>3, <1>5, <2>1, <2>3, <2>4, TotalOfOne
<1>6. ASSUME NEW b \in Ends(from), NEW n \in Ends(to), NEW h,
             Threads(h, b, n), Edged(h), s = Over(b, h, n)
      PROVE  best <= Total(SpanCost, s)
  <2>1. h \in Seq(Walkable)
    BY <1>6 DEF Threads
  <2>2. PICK v, e \in Nat : v = Total(SpanCost, h) + Stub(from, b) /\ e = Stub(to, n)
    BY <2>1, OverCosts, StubsArePaid
  <2>3. Total(SpanCost, s) = v + e
    <3>1. PICK x, y \in Nat : x = Total(SpanCost, h) /\ y = Stub(from, b)
      BY <2>1, OverCosts, StubsArePaid
    <3>2. Total(SpanCost, s) = y + x + e
      BY <1>6, <2>1, <2>2, <3>1, OverCosts
    <3> QED
      BY <2>2, <3>1, <3>2
  <2>4. Bounded(G, dist, settled, frontier, v, n)
    BY <1>2, <1>6, <2>2, TrailsAreBounded DEF G
  <2>5. n \in G.goals /\ n \in G.nodes /\ G.enter[n] = e
    BY <1>1, <2>2, StubsArePaid
  <2>6. G.ahead[n] \in Nat /\ G.ahead[n] <= e
    BY <1>2, <2>5 DEF IsNetwork
  <2>7. CASE n \in settled /\ dist[n] <= v
    <3>1. best <= dist[n] + e /\ dist[n] \in Nat
      BY <1>2, <2>5, <2>7 DEF Explored
    <3> QED
      BY <1>3, <2>2, <2>3, <2>7, <3>1
  <2>8. CASE v >= Infinity
    BY <1>3, <2>2, <2>3, <2>8
  <2>9. CASE \E c \in frontier : c[1] <= v + G.ahead[n]
    <3>1. PICK c \in frontier : c[1] <= v + G.ahead[n]
      BY <2>9
    <3>2. c[1] \in Nat /\ a[1] <= c[1]
      BY <1>2, <1>4 DEF Explored
    <3> QED
      BY <1>3, <1>4, <2>2, <2>3, <2>6, <3>1, <3>2
  <2> QED
    BY <2>4, <2>7, <2>8, <2>9 DEF Bounded
<1> QED
  BY <1>5, <1>6 DEF Passes

(* Whatever passes is made of spans there are.                             *)
LEMMA WhatPassesIsWalked ==
  ASSUME Situated, NEW s, Passes(s)
  PROVE  s \in Seq(Walkable)
<1>1. CASE Together /\ s = <<Span(from[1], from[2], to[2])>>
  <2>1. PICK x : x = Span(from[1], from[2], to[2])
    OBVIOUS
  <2>2. from[1] \in Edges /\ from[2] \in 0..Edge(from[1]).len /\ to[2] \in 0..Edge(to[1]).len
    BY ThePoints
  <2>3. Edge(from[1]).len \in Nat
    BY <2>2, TheEdges
  <2>4. from[2] \in Nat /\ to[2] \in Nat
    BY <1>1, <2>2, <2>3 DEF Together
  <2>5. x \in Walkable
    BY <2>1, <2>2, <2>4 DEF Walkable, Span
  <2> QED
    BY <1>1, <2>1, <2>5, TheSingle
<1>2. ASSUME NEW b \in Ends(from), NEW n \in Ends(to), NEW h, Threads(h, b, n), s = Over(b, h, n)
      PROVE  s \in Seq(Walkable)
  BY <1>2, OverCosts DEF Threads
<1> QED
  BY <1>1, <1>2 DEF Passes

(* What a search returns is a walk, and none is cheaper.                   *)
LEMMA FoundIsCheapest ==
  ASSUME Situated, SearchHolds, search = "found"
  PROVE  /\ Passes(Spans)
         /\ \A s : Passes(s) => Total(SpanCost, Spans) <= Total(SpanCost, s)
<1>1. /\ ~SamePin
      /\ Underway(Network, Reference, Together, dist, pred, settled, frontier, best, entry)
      /\ \E a \in frontier : a[2] = Target /\ Foremost(frontier, a)
  BY DEF SearchHolds
<1>2. PICK a \in frontier : a[2] = Target /\ Foremost(frontier, a)
  BY <1>1
<1>3. Explored(Network, dist, settled, frontier, best)
  BY <1>1 DEF Underway
<1>4. Total(SpanCost, Spans) = best
  BY HoldsIsExact DEF SearchIsExact, RouteIsCheapest
<1>5. ASSUME NEW s, Passes(s) PROVE Total(SpanCost, Spans) <= Total(SpanCost, s)
  BY <1>2, <1>3, <1>4, <1>5, NoneIsCheaper
<1>6. Network.nodes = Nodes /\ Network.goals = Ends(to)
  BY DEF Network
<1> HIDE DEF Network
<1>7. CASE entry = Target
  <2>1. Together
    BY <1>1, <1>2, <1>7 DEF Underway
  <2> QED
    BY <1>1, <1>5, <1>7, <2>1 DEF Passes, Spans
<1>8. CASE entry # Target
  <2>1. entry \in settled /\ entry \in Ends(to)
    BY <1>1, <1>6, <1>8 DEF Underway
  <2>2. /\ dist \in [Nodes -> Nat] /\ settled \in SUBSET Nodes
        /\ entry \in Nodes /\ dist[entry] < Infinity
    BY <1>3, <1>6, <2>1 DEF Explored
  <2>3. PICK rank : Traced(Network, dist, settled, pred, rank)
    BY <1>1 DEF Underway
  <2>4. /\ Seed[entry] \in Ends(from) /\ Threads(HopsTo[entry], Seed[entry], entry)
        /\ Edged(HopsTo[entry])
    BY <2>2, <2>3, TracedIsWalked
  <2>5. Spans = Over(Seed[entry], HopsTo[entry], entry)
    BY <1>1, <1>8 DEF Spans, Over
  <2> QED
    BY <1>5, <2>1, <2>4, <2>5 DEF Passes
<1> QED
  BY <1>7, <1>8

-----------------------------------------------------------------------------
(* What numbers come to is combined as they are.                           *)
LEMMA Combines ==
  ASSUME NEW a \in Nat, NEW b \in Nat, NEW c \in Nat,
         NEW x \in Nat, NEW y \in Nat, NEW z \in Nat,
         NEW i \in Nat, NEW j \in Nat, NEW k \in Nat
  PROVE  (a * x + b * y + c * z) + (a * i + b * j + c * k)
           = a * (x + i) + b * (y + j) + c * (z + k)
  OBVIOUS

Combined(m, a, x, b, y, c, z, n) == \A i \in 1..n : m[i] = a * x[i] + b * y[i] + c * z[i]
Within(y, z, x, n) == \A i \in 1..n : y[i] + z[i] <= 2 * x[i]

LEMMA SumsCombine ==
  ASSUME NEW n \in Nat, NEW a \in Nat, NEW b \in Nat, NEW c \in Nat,
         NEW x, NEW y, NEW z, NEW m, NEW p, NEW q, NEW r, NEW t,
         Sums(p, x, n), Sums(q, y, n), Sums(r, z, n), Sums(t, m, n),
         Combined(m, a, x, b, y, c, z, n), Within(y, z, x, n)
  PROVE  /\ p[n] \in Nat /\ q[n] \in Nat /\ r[n] \in Nat
         /\ t[n] = a * p[n] + b * q[n] + c * r[n]
         /\ q[n] + r[n] <= 2 * p[n]
<1> DEFINE right(i) == /\ p[i] \in Nat /\ q[i] \in Nat /\ r[i] \in Nat
                       /\ t[i] = a * p[i] + b * q[i] + c * r[i]
                       /\ q[i] + r[i] <= 2 * p[i]
           bad == {i \in 0..n : ~right(i)}
<1>1. right(0)
  <2>1. p[0] = 0 /\ q[0] = 0 /\ r[0] = 0 /\ t[0] = 0
    BY DEF Sums
  <2> QED
    BY <2>1
<1>2. ASSUME NEW i \in 1..n, right(i - 1) PROVE right(i)
  <2>1. PICK x1, y1, z1 \in Nat : x1 = x[i] /\ y1 = y[i] /\ z1 = z[i]
    BY DEF Sums
  <2>2. PICK p1, q1, r1 \in Nat : p1 = p[i - 1] /\ q1 = q[i - 1] /\ r1 = r[i - 1]
    BY <1>2
  <2>3. t[i - 1] = a * p1 + b * q1 + c * r1 /\ q1 + r1 <= 2 * p1
    BY <1>2, <2>2
  <2>4. p[i] = p1 + x1 /\ q[i] = q1 + y1 /\ r[i] = r1 + z1
    BY <2>1, <2>2 DEF Sums
  <2>5. m[i] = a * x1 + b * y1 + c * z1 /\ y1 + z1 <= 2 * x1
    BY <2>1 DEF Combined, Within
  <2>6. t[i] = (a * p1 + b * q1 + c * r1) + (a * x1 + b * y1 + c * z1)
    BY <2>3, <2>5 DEF Sums
  <2>7. t[i] = a * (p1 + x1) + b * (q1 + y1) + c * (r1 + z1)
    BY <2>6, Combines
  <2>8. (q1 + y1) + (r1 + z1) <= 2 * (p1 + x1)
    BY <2>3, <2>5
  <2> QED
    BY <2>4, <2>7, <2>8
<1>3. bad = {}
  <2> SUFFICES ASSUME bad # {} PROVE FALSE
    OBVIOUS
  <2>1. PICK i \in bad : \A j \in bad : i <= j
    <3>1. bad \in SUBSET Nat
      OBVIOUS
    <3> HIDE DEF bad
    <3> QED
      BY <3>1, Smallest
  <2> HIDE DEF right
  <2>2. i \in 0..n /\ ~right(i)
    BY <2>1
  <2>3. i # 0
    BY <1>1, <2>2
  <2>4. i \in 1..n /\ i - 1 \in 0..n /\ i - 1 \notin bad
    BY <2>1, <2>2, <2>3
  <2>5. right(i - 1)
    BY <2>4
  <2> QED
    BY <1>2, <2>2, <2>4, <2>5
<1>4. right(n)
  <2>1. n \in 0..n
    OBVIOUS
  <2> HIDE DEF right
  <2> QED
    BY <1>3, <2>1
<1> QED
  BY <1>4

-----------------------------------------------------------------------------
(* What a walk is made of: its length, and what of it is in the sun and in *)
(* a shade that no tree casts, each in its halves.                         *)
Sunny(span) == Edge(span.edge).sun * Walked(span)
Shady(span) == OtherShade(span.edge) * Walked(span)

Length(s) == Total(Walked, s)
InSun(s) == Total(Sunny, s)
InShade(s) == Total(Shady, s)

Charge(w, s) == w.base * Length(s) + w.sun * InSun(s) + w.other * InShade(s)

(* Times over, one stretch of it.                                          *)
LEMMA TimesOver ==
  ASSUME NEW b \in Nat, NEW s \in Nat, NEW o \in Nat, NEW k \in Nat, NEW j \in Nat, NEW l \in Nat,
         k + j <= 2
  PROVE  /\ (b + s * k + o * j) * l = b * l + s * (k * l) + o * (j * l)
         /\ k * l \in Nat /\ j * l \in Nat /\ k * l + j * l <= 2 * l
<1>1. (b + s * k + o * j) * l = b * l + s * (k * l) + o * (j * l)
  OBVIOUS
<1>2. k * l + j * l = (k + j) * l
  OBVIOUS
<1>3. (k + j) * l <= 2 * l
  BY TimesGrows
<1>4. k * l \in Nat /\ j * l \in Nat
  OBVIOUS
<1> QED
  BY <1>1, <1>2, <1>3, <1>4

LEMMA WhatASpanIs ==
  ASSUME Situated, NEW x \in Walkable
  PROVE  /\ Walked(x) \in Nat /\ Sunny(x) \in Nat /\ Shady(x) \in Nat
         /\ SpanCost(x) = price.base * Walked(x) + price.sun * Sunny(x) + price.other * Shady(x)
         /\ Sunny(x) + Shady(x) <= 2 * Walked(x)
<1>1. PICK e \in Edges : e = x.edge
  BY DEF Walkable
<1>2. PICK b, s, o \in Nat : b = price.base /\ s = price.sun /\ o = price.other
  BY DEF Situated
<1>3. PICK k, j \in Nat : k = Edge(e).sun /\ j = OtherShade(e) /\ k + j <= 2
  <2>1. Edge(e).sun \in 0..2 /\ Edge(e).veg \in 0..2
    BY TheEdges
  <2> QED
    BY <2>1 DEF OtherShade, NotNegative
<1>4. PICK l \in Nat : l = Walked(x)
  <2>1. PICK y, z \in Nat : y = x.from /\ z = x.to
    BY DEF Walkable
  <2>2. Gap(y, z) \in Nat
    BY DEF Gap
  <2> QED
    BY <2>1, <2>2 DEF Walked
<1>5. /\ SpanCost(x) = (b + s * k + o * j) * l
      /\ Sunny(x) = k * l /\ Shady(x) = j * l
  BY <1>1, <1>2, <1>3, <1>4 DEF SpanCost, PricePerMetre, Sunny, Shady
<1>6. /\ (b + s * k + o * j) * l = b * l + s * (k * l) + o * (j * l)
      /\ k * l \in Nat /\ j * l \in Nat /\ k * l + j * l <= 2 * l
  BY <1>3, TimesOver
<1> QED
  BY <1>2, <1>4, <1>5, <1>6

(* Its cost is charged by what it is made of.                              *)
LEMMA WhatAWalkIs ==
  ASSUME Situated, NEW s \in Seq(Walkable)
  PROVE  /\ Length(s) \in Nat /\ InSun(s) \in Nat /\ InShade(s) \in Nat
         /\ Total(SpanCost, s) = Charge(price, s)
         /\ InSun(s) + InShade(s) <= 2 * Length(s)
<1>1. PICK n \in Nat : n = Len(s)
  OBVIOUS
<1>2. PICK x, y, z, m : /\ x = [i \in 1..n |-> Walked(s[i])] /\ y = [i \in 1..n |-> Sunny(s[i])]
                        /\ z = [i \in 1..n |-> Shady(s[i])] /\ m = [i \in 1..n |-> SpanCost(s[i])]
  OBVIOUS
<1>3. ASSUME NEW i \in 1..n
      PROVE  /\ Walked(s[i]) \in Nat /\ Sunny(s[i]) \in Nat /\ Shady(s[i]) \in Nat
             /\ SpanCost(s[i]) \in Nat
             /\ SpanCost(s[i]) = price.base * Walked(s[i]) + price.sun * Sunny(s[i])
                                   + price.other * Shady(s[i])
             /\ Sunny(s[i]) + Shady(s[i]) <= 2 * Walked(s[i])
  <2>1. s[i] \in Walkable
    BY <1>1
  <2> QED
    BY <2>1, WhatASpanIs, SpanIsPaid
<1>4. /\ x \in [1..n -> Nat] /\ y \in [1..n -> Nat] /\ z \in [1..n -> Nat] /\ m \in [1..n -> Nat]
  BY <1>2, <1>3
<1>5. PICK a, b, c \in Nat : a = price.base /\ b = price.sun /\ c = price.other
  BY DEF Situated
<1>6. Combined(m, a, x, b, y, c, z, n) /\ Within(y, z, x, n)
  BY <1>2, <1>3, <1>5 DEF Combined, Within
<1>7. PICK p \in [0..n -> Nat] : Sums(p, x, n) /\ Added(x) = p[n]
  BY <1>4, TheSum
<1>8. PICK q \in [0..n -> Nat] : Sums(q, y, n) /\ Added(y) = q[n]
  BY <1>4, TheSum
<1>9. PICK r \in [0..n -> Nat] : Sums(r, z, n) /\ Added(z) = r[n]
  BY <1>4, TheSum
<1>10. PICK t \in [0..n -> Nat] : Sums(t, m, n) /\ Added(m) = t[n]
  BY <1>4, TheSum
<1>11. /\ p[n] \in Nat /\ q[n] \in Nat /\ r[n] \in Nat
       /\ t[n] = a * p[n] + b * q[n] + c * r[n]
       /\ q[n] + r[n] <= 2 * p[n]
  BY <1>6, <1>7, <1>8, <1>9, <1>10, SumsCombine
<1>12. Length(s) = Added(x) /\ InSun(s) = Added(y) /\ InShade(s) = Added(z)
       /\ Total(SpanCost, s) = Added(m)
  BY <1>1, <1>2 DEF Length, InSun, InShade, Total
<1> QED
  BY <1>5, <1>7, <1>8, <1>9, <1>10, <1>11, <1>12 DEF Charge

-----------------------------------------------------------------------------
(* Which walks there are, and what they are made of, stays while a request *)
(* is answered.                                                            *)
LEMMA PassesStays ==
  ASSUME UNCHANGED <<graph, from, to>>
  PROVE  /\ \A s : Passes(s)' <=> Passes(s)
         /\ Nodes' = Nodes /\ Edges' = Edges /\ Walkable' = Walkable /\ SamePin' = SamePin
<1> USE DEF Nodes, Edges, Edge, Walkable, Neighbours, NodeAt, Joined, Chained, Whole, Edged,
            Threads, At, Ends, Together
<1>1. Nodes' = Nodes /\ Edges' = Edges /\ Walkable' = Walkable
  OBVIOUS
<1>2. SamePin' = SamePin
  BY DEF SamePin
<1>3. ASSUME NEW s PROVE Passes(s)' <=> Passes(s)
  BY DEF Passes, Over
<1> QED
  BY <1>1, <1>2, <1>3

LEMMA MakesStay ==
  ASSUME UNCHANGED graph, NEW s
  PROVE  /\ Length(s)' = Length(s) /\ InSun(s)' = InSun(s) /\ InShade(s)' = InShade(s)
         /\ request' = request => Leg(s)' = Leg(s)
<1> USE DEF Edge, OtherShade, NotNegative, Walked, Gap, Total
<1>1. InSun(s)' = InSun(s) /\ InShade(s)' = InShade(s) /\ Length(s)' = Length(s)
  BY DEF InSun, InShade, Length, Sunny, Shady
<1>2. request' = request => Leg(s)' = Leg(s)
  BY DEF Leg, SpanSun, SpanCanopy, Lit
<1> QED
  BY <1>1, <1>2

(* What a leg says of its walk.                                            *)
LEMMA WhatALegSays ==
  ASSUME Situated, NEW s \in Seq(Walkable)
  PROVE  /\ Leg(s).length = Length(s) /\ Leg(s).length \in Nat /\ Leg(s).sun \in Nat
         /\ ~request.night => Leg(s).sun = InSun(s)
<1>1. Leg(s).length = Length(s) /\ Leg(s).sun = Total(SpanSun, s)
  BY DEF Leg, Length
<1>2. Length(s) \in Nat /\ InSun(s) \in Nat
  BY WhatAWalkIs
<1>3. CASE ~request.night
  <2>1. [i \in 1..Len(s) |-> SpanSun(s[i])] = [i \in 1..Len(s) |-> Sunny(s[i])]
    BY <1>3 DEF SpanSun, Lit, Sunny
  <2>2. Total(SpanSun, s) = InSun(s)
    BY <2>1 DEF Total, InSun
  <2> QED
    BY <1>1, <1>2, <1>3, <2>2
<1>4. CASE request.night
  <2>1. PICK n \in Nat : n = Len(s)
    OBVIOUS
  <2>2. PICK m : m = [i \in 1..n |-> SpanSun(s[i])]
    OBVIOUS
  <2>3. \A i \in 1..n : SpanSun(s[i]) \in Nat
    <3> TAKE i \in 1..n
    <3>1. s[i] \in Walkable
      BY <2>1
    <3>2. PICK l \in Nat : l = Walked(s[i])
      BY <3>1, WhatASpanIs
    <3>3. SpanSun(s[i]) = 0 * l
      BY <1>4, <3>2 DEF SpanSun, Lit
    <3> QED
      BY <3>3
  <2>4. m \in [1..n -> Nat] /\ Total(SpanSun, s) = Added(m)
    BY <2>1, <2>2, <2>3 DEF Total
  <2>5. PICK t \in [0..n -> Nat] : Added(m) = t[n]
    BY <2>4, TheSum
  <2> QED
    BY <1>1, <1>2, <1>4, <2>4, <2>5
<1> QED
  BY <1>3, <1>4

-----------------------------------------------------------------------------
(* Of the cheapest for a taste and the shortest, what one has too many     *)
(* metres of it has to save: no more than half its price for each of them. *)
LEMMA TradeOff ==
  ASSUME NEW a \in Nat, NEW b \in Nat, b <= a,
         NEW l \in Nat, NEW s \in Nat, NEW o \in Nat,
         NEW m \in Nat, NEW t \in Nat, NEW u \in Nat,
         4 * l + a * s + b * o <= 4 * m + a * t + b * u, m <= l, t + u <= 2 * m
  PROVE  /\ 2 * l <= (2 + a) * m
         /\ b = 0 /\ a > 0 => s <= t
<1>1. PICK p, q, r, v \in Nat : p = a * s /\ q = b * o /\ r = a * t /\ v = b * u
  <2>1. a * s \in Nat /\ b * o \in Nat /\ a * t \in Nat /\ b * u \in Nat
    OBVIOUS
  <2> QED
    BY <2>1
<1>2. 2 * l <= (2 + a) * m
  <2>1. v <= a * u
    BY <1>1, TimesGrows
  <2>2. a * t + a * u = (t + u) * a
    OBVIOUS
  <2>3. (t + u) * a <= (2 * m) * a
    BY TimesGrows
  <2>4. PICK x, y \in Nat : x = a * u /\ y = a * m
    <3>1. a * u \in Nat /\ a * m \in Nat
      OBVIOUS
    <3> QED
      BY <3>1
  <2>5. (2 * m) * a = 2 * y /\ (2 + a) * m = 2 * m + y
    BY <2>4
  <2>6. r + v <= 2 * y
    BY <1>1, <2>1, <2>2, <2>3, <2>4, <2>5
  <2>7. 4 * l + p + q <= 4 * m + r + v
    BY <1>1
  <2>8. 4 * l <= 4 * m + 2 * y
    BY <2>6, <2>7
  <2> QED
    BY <2>5, <2>8
<1>3. ASSUME b = 0, a > 0 PROVE s <= t
  <2>1. q = 0 /\ v = 0
    BY <1>1, <1>3
  <2>2. p <= r
    BY <1>1, <2>1
  <2>3. SUFFICES ASSUME t < s PROVE FALSE
    OBVIOUS
  <2>4. (t + 1) * a <= s * a
    BY <2>3, TimesGrows
  <2>5. (t + 1) * a = r + a /\ s * a = p
    BY <1>1
  <2> QED
    BY <1>3, <2>2, <2>4, <2>5
<1> QED
  BY <1>2, <1>3

-----------------------------------------------------------------------------
(* Offers that can be ranked.                                              *)
Rankable(S) == \A x \in S : x[2].length \in Nat /\ x[2].sun \in Nat

Ordered(r) == \A i, j \in 1..Len(r) : i < j => ~Sooner(r[j], r[i])

LEMMA SoonerOrders ==
  ASSUME NEW S, Rankable(S), NEW x \in S, NEW y \in S, NEW z \in S
  PROVE  /\ Sooner(x, y) => ~Sooner(y, x)
         /\ ~Sooner(x, y) /\ ~Sooner(y, z) => ~Sooner(x, z)
<1>1. /\ x[2].length \in Nat /\ x[2].sun \in Nat /\ y[2].length \in Nat /\ y[2].sun \in Nat
      /\ z[2].length \in Nat /\ z[2].sun \in Nat
  BY DEF Rankable
<1> QED
  BY <1>1 DEF Sooner

(* Put in at k, the rest moves on.                                         *)
Shifted(c, r, k, x, n) ==
    /\ Len(c) = n + 1 /\ c[k] = x
    /\ \A i \in 1..k - 1 : c[i] = r[i]
    /\ \A i \in k..n : c[i + 1] = r[i]

LEMMA InsertShifts ==
  ASSUME NEW S, NEW r \in Seq(S), NEW x \in S, NEW n \in Nat, n = Len(r), NEW k \in 1..n + 1
  PROVE  InsertAt(r, k, x) \in Seq(S) /\ Shifted(InsertAt(r, k, x), r, k, x, n)
<1>1. PICK a, b : a = SubSeq(r, 1, k - 1) /\ b = SubSeq(r, k, n)
  OBVIOUS
<1>2. /\ a \in Seq(S) /\ Len(a) = IF 1 <= k - 1 THEN (k - 1) - 1 + 1 ELSE 0
      /\ \A i \in 1..(k - 1) - 1 + 1 : a[i] = r[1 + i - 1]
  <2>1. \A i \in 1..k - 1 : r[i] \in S
    <3> TAKE i \in 1..k - 1
    <3>1. i \in 1..Len(r)
      OBVIOUS
    <3> QED
      BY <3>1
  <2>2. 1 \in Int /\ k - 1 \in Int
    OBVIOUS
  <2> QED
    BY <1>1, <2>1, <2>2, SubSeqProperties
<1>3. /\ b \in Seq(S) /\ Len(b) = IF k <= n THEN n - k + 1 ELSE 0
      /\ \A i \in 1..n - k + 1 : b[i] = r[k + i - 1]
  <2>1. \A i \in k..n : r[i] \in S
    <3> TAKE i \in k..n
    <3>1. i \in 1..Len(r)
      OBVIOUS
    <3> QED
      BY <3>1
  <2>2. k \in Int /\ n \in Int
    OBVIOUS
  <2> QED
    BY <1>1, <2>1, <2>2, SubSeqProperties
<1>4. Len(a) = k - 1 /\ \A i \in 1..k - 1 : a[i] = r[i]
  <2>1. \A i \in 1..k - 1 : i \in 1..(k - 1) - 1 + 1 /\ 1 + i - 1 = i
    OBVIOUS
  <2> QED
    BY <1>2, <2>1
<1>5. Len(b) = n + 1 - k /\ \A i \in 1..n + 1 - k : b[i] = r[k + i - 1]
  <2>1. \A i \in 1..n + 1 - k : i \in 1..n - k + 1
    OBVIOUS
  <2> QED
    BY <1>3, <2>1
<1>6. PICK e : e = <<x>> /\ e \in Seq(S) /\ Len(e) = 1 /\ e[1] = x
  BY TheSingle
<1>7. PICK d : /\ d = a \o e /\ d \in Seq(S) /\ Len(d) = k /\ d[k] = x
               /\ \A i \in 1..k - 1 : d[i] = r[i]
  <2>1. /\ a \o e \in Seq(S) /\ Len(a \o e) = Len(a) + Len(e)
        /\ \A i \in 1..Len(a) : (a \o e)[i] = a[i]
        /\ \A i \in 1..Len(e) : (a \o e)[Len(a) + i] = e[i]
    BY <1>2, <1>6, TheConcatenation
  <2>2. Len(a) + Len(e) = k /\ 1 \in 1..Len(e) /\ Len(a) + 1 = k
    BY <1>4, <1>6
  <2> QED
    BY <1>4, <1>6, <2>1, <2>2
<1>8. /\ d \o b \in Seq(S) /\ Len(d \o b) = Len(d) + Len(b)
      /\ \A i \in 1..Len(d) : (d \o b)[i] = d[i]
      /\ \A i \in 1..Len(b) : (d \o b)[Len(d) + i] = b[i]
  <2>1. d \in Seq(S) /\ b \in Seq(S)
    BY <1>3, <1>7
  <2> QED
    BY <2>1, TheConcatenation
<1>9. PICK c : c = d \o b
  OBVIOUS
<1>10. /\ c \in Seq(S) /\ Len(c) = n + 1 /\ \A i \in 1..k : c[i] = d[i]
       /\ \A i \in 1..n + 1 - k : c[k + i] = b[i]
  BY <1>5, <1>7, <1>8, <1>9
<1>11. ASSUME NEW i \in k..n PROVE c[i + 1] = r[i]
  <2>1. PICK j \in 1..n + 1 - k : j = i + 1 - k
    <3>1. i + 1 - k \in 1..n + 1 - k
      OBVIOUS
    <3> QED
      BY <3>1
  <2>2. k + j = i + 1 /\ k + j - 1 = i
    BY <2>1
  <2> QED
    BY <1>5, <1>10, <2>2
<1>12. \A i \in 1..k - 1 : i \in 1..k
  OBVIOUS
<1>13. c[k] = x
  BY <1>7, <1>10
<1>14. Shifted(c, r, k, x, n)
  BY <1>7, <1>10, <1>11, <1>12, <1>13 DEF Shifted
<1>15. InsertAt(r, k, x) = c
  BY <1>1, <1>6, <1>7, <1>9 DEF InsertAt
<1> QED
  BY <1>10, <1>14, <1>15

(* Placed before the first that everything from is later.                  *)
LEMMA PlacedIsOrdered ==
  ASSUME NEW S, Rankable(S), NEW r \in Seq(S), Ordered(r), NEW x \in S, NEW n \in Nat, n = Len(r)
  PROVE  /\ Placed(r, x) \in Seq(S) /\ Ordered(Placed(r, x))
         /\ \E k \in 1..n + 1 : Shifted(Placed(r, x), r, k, x, n)
<1> DEFINE K == {i \in 1..n + 1 : \A j \in i..n : Sooner(x, r[j])}
<1>1. PICK k : k = Min(K)
  OBVIOUS
<1>2. k \in K /\ \A i \in K : k <= i
  <2>1. n + 1 \in K
    <3>1. (n + 1)..n = {}
      OBVIOUS
    <3>2. n + 1 \in 1..n + 1
      OBVIOUS
    <3> QED
      BY <3>1, <3>2
  <2>2. K \in SUBSET Nat
    OBVIOUS
  <2> HIDE DEF K
  <2> QED
    BY <1>1, <2>1, <2>2, Smallest
<1>3. k \in 1..n + 1 /\ \A j \in k..n : Sooner(x, r[j])
  BY <1>2
<1>4. k # 1 => ~Sooner(x, r[k - 1])
  <2> SUFFICES ASSUME k # 1, Sooner(x, r[k - 1]) PROVE FALSE
    OBVIOUS
  <2>1. k - 1 \in 1..n + 1 /\ \A j \in k - 1..n : j = k - 1 \/ j \in k..n
    BY <1>3
  <2>2. k - 1 \in K
    BY <1>3, <2>1
  <2> HIDE DEF K
  <2>3. k <= k - 1
    BY <1>2, <2>2
  <2> QED
    BY <1>3, <2>3
<1>5. PICK c : c = Placed(r, x)
  OBVIOUS
<1>6. c = InsertAt(r, k, x)
  BY <1>1, <1>5 DEF Placed
<1> HIDE DEF K
<1>7. c \in Seq(S) /\ Shifted(c, r, k, x, n)
  BY <1>3, <1>6, InsertShifts
<1>8. \A i \in 1..n : r[i] \in S
  OBVIOUS
<1>9. \A i \in 1..n + 1 : \/ i \in 1..k - 1 /\ c[i] = r[i]
                          \/ i = k /\ c[i] = x
                          \/ i - 1 \in k..n /\ c[i] = r[i - 1]
  <2> TAKE i \in 1..n + 1
  <2>1. CASE i < k
    <3>1. i \in 1..k - 1
      BY <1>3, <2>1
    <3> QED
      BY <1>7, <3>1 DEF Shifted
  <2>2. CASE i = k
    BY <1>7, <2>2 DEF Shifted
  <2>3. CASE i > k
    <3>1. i - 1 \in k..n /\ (i - 1) + 1 = i
      BY <1>3, <2>3
    <3> QED
      BY <1>7, <3>1 DEF Shifted
  <2> QED
    BY <1>3, <2>1, <2>2, <2>3
<1>10. \A i \in 1..k - 1 : i \in 1..n /\ ~Sooner(x, r[i])
  <2> TAKE i \in 1..k - 1
  <2>1. k # 1 /\ i \in 1..n /\ k - 1 \in 1..n
    BY <1>3
  <2>2. ~Sooner(x, r[k - 1])
    BY <1>4, <2>1
  <2>3. CASE i = k - 1
    BY <2>1, <2>2, <2>3
  <2>4. CASE i # k - 1
    <3>1. i < k - 1
      BY <1>3, <2>4
    <3>2. ~Sooner(r[k - 1], r[i])
      BY <2>1, <3>1 DEF Ordered
    <3> QED
      BY <1>8, <2>1, <2>2, <3>2, SoonerOrders
  <2> QED
    BY <2>3, <2>4
<1>11. \A i \in k..n : i \in 1..n /\ ~Sooner(r[i], x)
  <2> TAKE i \in k..n
  <2>1. i \in 1..n
    BY <1>3
  <2>2. Sooner(x, r[i])
    BY <1>3
  <2> QED
    BY <1>8, <2>1, <2>2, SoonerOrders
<1>12. ASSUME NEW i \in 1..n + 1, NEW j \in 1..n + 1, i < j
       PROVE  ~Sooner(c[j], c[i])
  <2>1. CASE i \in 1..k - 1 /\ c[i] = r[i]
    <3>1. CASE j \in 1..k - 1 /\ c[j] = r[j]
      BY <1>10, <1>12, <2>1, <3>1 DEF Ordered
    <3>2. CASE j = k /\ c[j] = x
      BY <1>10, <2>1, <3>2
    <3>3. CASE j - 1 \in k..n /\ c[j] = r[j - 1]
      <4>1. i \in 1..n /\ j - 1 \in 1..n /\ i < j - 1
        BY <1>3, <1>10, <1>11, <2>1, <3>3
      <4>2. ~Sooner(r[j - 1], r[i])
        BY <4>1 DEF Ordered
      <4> QED
        BY <2>1, <3>3, <4>2
    <3> QED
      BY <1>9, <3>1, <3>2, <3>3
  <2>2. CASE i = k /\ c[i] = x
    <3>1. CASE j \in 1..k - 1
      BY <1>3, <1>12, <2>2, <3>1
    <3>2. CASE j - 1 \in k..n /\ c[j] = r[j - 1]
      BY <1>11, <2>2, <3>2
    <3> QED
      BY <1>9, <1>12, <2>2, <3>1, <3>2
  <2>3. CASE i - 1 \in k..n /\ c[i] = r[i - 1]
    <3>1. ~(j \in 1..k - 1) /\ j # k
      BY <1>3, <1>12, <2>3
    <3>2. j - 1 \in k..n /\ c[j] = r[j - 1]
      BY <1>9, <3>1
    <3>3. i - 1 \in 1..n /\ j - 1 \in 1..n /\ i - 1 < j - 1
      BY <1>11, <1>12, <2>3, <3>2
    <3>4. ~Sooner(r[j - 1], r[i - 1])
      BY <3>3 DEF Ordered
    <3> QED
      BY <2>3, <3>2, <3>4
  <2> QED
    BY <1>9, <2>1, <2>2, <2>3
<1>13. Len(c) = n + 1
  BY <1>7 DEF Shifted
<1>14. Ordered(c)
  BY <1>12, <1>13 DEF Ordered
<1> QED
  BY <1>3, <1>5, <1>7, <1>14

(* The same, in whatever order.                                            *)
Same(r, q, n) ==
    /\ Len(r) = n
    /\ \A i \in 1..n : \E j \in 1..n : r[j] = q[i]
    /\ \A j \in 1..n : \E i \in 1..n : r[j] = q[i]

LEMMA SameThen ==
  ASSUME NEW n \in Nat, NEW r, NEW q, Same(r, q, n), NEW k \in 1..n + 1, NEW c,
         Shifted(c, r, k, q[n + 1], n)
  PROVE  Same(c, q, n + 1)
<1>1. Len(c) = n + 1 /\ c[k] = q[n + 1]
  BY DEF Shifted
<1>2. ASSUME NEW j \in 1..n PROVE \E i \in 1..n + 1 : c[i] = r[j]
  <2>1. CASE j < k
    <3>1. j \in 1..k - 1 /\ j \in 1..n + 1
      BY <2>1
    <3>2. c[j] = r[j]
      BY <3>1 DEF Shifted
    <3> QED
      BY <3>1, <3>2
  <2>2. CASE j >= k
    <3>1. j \in k..n /\ j + 1 \in 1..n + 1
      BY <2>2
    <3>2. c[j + 1] = r[j]
      BY <3>1 DEF Shifted
    <3> QED
      BY <3>1, <3>2
  <2> QED
    BY <2>1, <2>2
<1>3. ASSUME NEW i \in 1..n + 1 PROVE \E j \in 1..n + 1 : c[j] = q[i]
  <2>1. CASE i = n + 1
    BY <1>1, <2>1
  <2>2. CASE i # n + 1
    <3>1. i \in 1..n
      BY <2>2
    <3>2. PICK j \in 1..n : r[j] = q[i]
      BY <3>1 DEF Same
    <3> QED
      BY <1>2, <3>2
  <2> QED
    BY <2>1, <2>2
<1>4. ASSUME NEW j \in 1..n + 1 PROVE \E i \in 1..n + 1 : c[j] = q[i]
  <2>1. ASSUME NEW i \in 1..n, c[j] = r[i] PROVE \E p \in 1..n + 1 : c[j] = q[p]
    <3>1. PICK p \in 1..n : r[i] = q[p]
      BY DEF Same
    <3>2. p \in 1..n + 1
      OBVIOUS
    <3> QED
      BY <2>1, <3>1, <3>2
  <2>2. CASE j < k
    <3>1. j \in 1..k - 1 /\ j \in 1..n
      BY <2>2
    <3>2. c[j] = r[j]
      BY <3>1 DEF Shifted
    <3> QED
      BY <2>1, <3>1, <3>2
  <2>3. CASE j = k
    <3>1. n + 1 \in 1..n + 1
      OBVIOUS
    <3> QED
      BY <1>1, <2>3, <3>1
  <2>4. CASE j > k
    <3>1. j - 1 \in k..n /\ j - 1 \in 1..n /\ (j - 1) + 1 = j
      BY <2>4
    <3>2. c[j] = r[j - 1]
      BY <3>1 DEF Shifted
    <3> QED
      BY <2>1, <3>1, <3>2
  <2> QED
    BY <2>2, <2>3, <2>4
<1> QED
  BY <1>1, <1>3, <1>4 DEF Same

(* What is ranked is what was swept, in order.                             *)
LEMMA RankedIsOrdered ==
  ASSUME NEW S, Rankable(S), swept \in Seq(S)
  PROVE  Ranked \in Seq(S) /\ Ordered(Ranked) /\ Same(Ranked, swept, Len(swept))
<1>1. PICK n \in Nat : n = Len(swept)
  OBVIOUS
<1> DEFINE T == {r \in Seq(S) : Ordered(r)}
           Right(g) == g = [i \in 0..n |-> IF i = 0 THEN <<>> ELSE Placed(g[i - 1], swept[i])]
<1>2. Ranked = (CHOOSE g : Right(g))[n]
  BY <1>1 DEF Ranked
<1>3. <<>> \in T /\ Same(<<>>, swept, 0)
  <2>1. PICK e : e = <<>> /\ e \in Seq(S) /\ Len(e) = 0
    BY EmptySeq
  <2>2. 1..0 = {}
    OBVIOUS
  <2>3. Ordered(e) /\ Same(e, swept, 0)
    BY <2>1, <2>2 DEF Ordered, Same
  <2> QED
    BY <2>1, <2>3
<1>4. \A i \in 1..n : swept[i] \in S
  BY <1>1
<1>5. \A i \in 1..n : \A t \in T : Placed(t, swept[i]) \in T
  <2> TAKE i \in 1..n
  <2> TAKE t \in T
  <2>1. PICK k \in Nat : k = Len(t)
    OBVIOUS
  <2> QED
    BY <1>4, <2>1, PlacedIsOrdered
<1>6. PICK G : \A i \in 1..n : \A t \in T : G[i][t] = Placed(t, swept[i])
  <2>1. PICK G : G = [i \in 1..n |-> [t \in T |-> Placed(t, swept[i])]]
    OBVIOUS
  <2>2. \A i \in 1..n : \A t \in T : G[i][t] = Placed(t, swept[i])
    BY <2>1
  <2> QED
    BY <2>2
<1> HIDE DEF T
<1>7. PICK f \in [0..n -> T] : Unfolding(f, <<>>, n, G)
  <2>1. StaysIn(G, n, T)
    BY <1>5, <1>6 DEF StaysIn
  <2> QED
    BY <1>3, <2>1, Unfolds
<1>8. f[0] = <<>> /\ \A i \in 1..n : f[i] = Placed(f[i - 1], swept[i])
  <2>1. f[0] = <<>> /\ \A i \in 1..n : f[i] = G[i][f[i - 1]]
    BY <1>7 DEF Unfolding
  <2>2. ASSUME NEW i \in 1..n PROVE f[i] = Placed(f[i - 1], swept[i])
    <3>1. f[i - 1] \in T
      <4>1. i - 1 \in 0..n
        OBVIOUS
      <4> QED
        BY <4>1
    <3> QED
      BY <1>6, <2>1, <3>1
  <2> QED
    BY <2>1, <2>2
<1>9. Right(f)
  <2>1. \A i \in 0..n : f[i] = IF i = 0 THEN <<>> ELSE Placed(f[i - 1], swept[i])
    BY <1>8
  <2>2. f = [i \in 0..n |-> f[i]]
    BY <1>7
  <2> QED
    BY <2>1, <2>2, Zenon
<1> HIDE DEF Right
<1>10. PICK g : Right(g) /\ Ranked = g[n]
  BY <1>2, <1>9
<1>11. \A i \in 0..n : g[i] = IF i = 0 THEN <<>> ELSE Placed(g[i - 1], swept[i])
  BY <1>10, Zenon DEF Right
<1> DEFINE bad == {i \in 0..n : ~(g[i] \in T /\ Same(g[i], swept, i))}
<1>12. bad = {}
  <2> SUFFICES ASSUME bad # {} PROVE FALSE
    OBVIOUS
  <2>1. PICK i \in bad : \A j \in bad : i <= j
    <3>1. bad \in SUBSET Nat
      OBVIOUS
    <3> HIDE DEF bad
    <3> QED
      BY <3>1, Smallest
  <2>2. i \in 0..n /\ ~(g[i] \in T /\ Same(g[i], swept, i))
    BY <2>1
  <2>3. i # 0
    <3>1. 0 \in 0..n
      OBVIOUS
    <3>2. g[0] = <<>>
      BY <1>11, <3>1
    <3> QED
      BY <1>3, <2>2, <3>2
  <2>4. i \in 1..n /\ i - 1 \in 0..n /\ i - 1 \notin bad
    <3> HIDE DEF bad
    <3> QED
      BY <1>1, <2>1, <2>2, <2>3
  <2>5. PICK j \in Nat : j = i - 1
    BY <2>4
  <2>6. g[j] \in T /\ Same(g[j], swept, j)
    BY <2>4, <2>5
  <2>7. g[i] = Placed(g[j], swept[i])
    BY <1>11, <2>2, <2>3, <2>5
  <2>8. j + 1 = i /\ swept[i] \in S
    BY <1>4, <2>4, <2>5
  <2>9. g[j] \in Seq(S) /\ Ordered(g[j]) /\ j = Len(g[j])
    BY <2>6 DEF T, Same
  <2>10. /\ g[i] \in Seq(S) /\ Ordered(g[i])
         /\ \E k \in 1..j + 1 : Shifted(g[i], g[j], k, swept[j + 1], j)
    BY <2>7, <2>8, <2>9, PlacedIsOrdered
  <2>11. Same(g[i], swept, j + 1)
    BY <2>6, <2>10, SameThen
  <2> QED
    BY <2>2, <2>8, <2>10, <2>11 DEF T
<1>13. g[n] \in T /\ Same(g[n], swept, n)
  <2>1. n \in 0..n
    OBVIOUS
  <2> QED
    BY <1>12, <2>1
<1> QED
  BY <1>1, <1>10, <1>13 DEF T

-----------------------------------------------------------------------------
(* As short as another, and no more than a twentieth sunnier.              *)
Serves(a, b) == a[2].length <= b[2].length /\ 19 * a[2].sun <= 20 * b[2].sun

(* What is kept of the first i offers ranked.                              *)
KeptOf(f, r, i) ==
    /\ i > 0 => f # <<>> /\ f[1] = r[1]
    /\ \A j \in 1..Len(f) : \E p \in 1..i : f[j] = r[p]
    /\ \A j \in 1..Len(f) - 1 : ~Sooner(f[j + 1], f[j]) /\ Cuts(f[j + 1][2], f[j][2])
    /\ \A p \in 1..i : \E j \in 1..Len(f) : Serves(f[j], r[p])

LEMMA KeptThen ==
  ASSUME NEW S, Rankable(S), NEW r \in Seq(S), Ordered(r),
         NEW i \in Nat, i + 1 \in 1..Len(r), NEW f \in Seq(S), KeptOf(f, r, i)
  PROVE  Kept(f, r[i + 1]) \in Seq(S) /\ KeptOf(Kept(f, r[i + 1]), r, i + 1)
<1>1. PICK x : x = r[i + 1]
  OBVIOUS
<1>2. x \in S /\ Len(r) \in Nat
  BY <1>1
<1>3. PICK n \in Nat : n = Len(f)
  OBVIOUS
<1>4. x[2].length \in Nat /\ x[2].sun \in Nat
  BY <1>2 DEF Rankable
<1>5. Serves(x, x)
  BY <1>4 DEF Serves
<1>6. ASSUME f # <<>>
      PROVE  /\ n > 0 /\ Last(f) = f[n] /\ f[n] \in S /\ ~Sooner(x, f[n]) /\ i > 0
  <2>1. n > 0
    BY <1>3, <1>6, EmptySeq
  <2>2. n \in 1..Len(f)
    BY <1>3, <2>1
  <2>3. f[n] \in S
    BY <2>2
  <2>4. PICK p \in 1..i : f[n] = r[p]
    BY <2>2 DEF KeptOf
  <2>5. p \in 1..Len(r) /\ p < i + 1 /\ i > 0
    BY <1>2, <2>4
  <2>6. ~Sooner(r[i + 1], r[p])
    BY <2>5 DEF Ordered
  <2> QED
    BY <1>1, <1>3, <2>1, <2>3, <2>4, <2>5, <2>6 DEF Last
<1>7. f = <<>> => i = 0 /\ n = 0
  BY <1>3, EmptySeq DEF KeptOf
<1>8. CASE f = <<>> \/ Cuts(x[2], Last(f)[2])
  <2>1. Kept(f, x) = Append(f, x)
    BY <1>8 DEF Kept
  <2>2. /\ Append(f, x) \in Seq(S) /\ Append(f, x) # <<>>
        /\ Len(Append(f, x)) = Len(f) + 1
        /\ \A j \in 1..Len(f) : Append(f, x)[j] = f[j]
        /\ Append(f, x)[Len(f) + 1] = x
    BY <1>2, AppendProperties
  <2>3. PICK c : c = Append(f, x)
    OBVIOUS
  <2>4. /\ c \in Seq(S) /\ c # <<>> /\ Len(c) = n + 1 /\ c[n + 1] = x
        /\ \A j \in 1..n : c[j] = f[j]
    BY <1>3, <2>2, <2>3
  <2>5. c[1] = r[1]
    <3>1. CASE f = <<>>
      BY <1>1, <1>7, <2>4, <3>1
    <3>2. CASE f # <<>>
      <4>1. 1 \in 1..n /\ i > 0
        BY <1>3, <1>6, <3>2
      <4> QED
        BY <2>4, <3>2, <4>1 DEF KeptOf
    <3> QED
      BY <3>1, <3>2
  <2>6. ASSUME NEW j \in 1..n + 1 PROVE \E p \in 1..i + 1 : c[j] = r[p]
    <3>1. CASE j = n + 1
      <4>1. i + 1 \in 1..i + 1
        OBVIOUS
      <4> QED
        BY <1>1, <2>4, <3>1, <4>1
    <3>2. CASE j # n + 1
      <4>1. j \in 1..n
        BY <3>2
      <4>2. PICK p \in 1..i : f[j] = r[p]
        BY <1>3, <4>1 DEF KeptOf
      <4>3. p \in 1..i + 1
        BY <4>2
      <4> QED
        BY <2>4, <4>1, <4>2, <4>3
    <3> QED
      BY <3>1, <3>2
  <2>7. ASSUME NEW j \in 1..n
        PROVE  ~Sooner(c[j + 1], c[j]) /\ Cuts(c[j + 1][2], c[j][2])
    <3>1. f # <<>>
      BY <1>7
    <3>2. CASE j = n
      BY <1>6, <1>8, <2>4, <3>1, <3>2
    <3>3. CASE j # n
      <4>1. j + 1 \in 1..n /\ j \in 1..Len(f) - 1
        BY <1>3, <3>3
      <4> QED
        BY <2>4, <4>1 DEF KeptOf
    <3> QED
      BY <3>2, <3>3
  <2>8. ASSUME NEW p \in 1..i + 1 PROVE \E j \in 1..n + 1 : Serves(c[j], r[p])
    <3>1. CASE p = i + 1
      <4>1. n + 1 \in 1..n + 1
        OBVIOUS
      <4> QED
        BY <1>1, <1>5, <2>4, <3>1, <4>1
    <3>2. CASE p # i + 1
      <4>1. p \in 1..i
        BY <3>2
      <4>2. PICK j \in 1..n : Serves(f[j], r[p])
        BY <1>3, <4>1 DEF KeptOf
      <4>3. j \in 1..n + 1
        BY <4>2
      <4> QED
        BY <2>4, <4>2, <4>3
    <3> QED
      BY <3>1, <3>2
  <2>9. (n + 1) - 1 = n
    OBVIOUS
  <2>10. KeptOf(c, r, i + 1)
    BY <2>4, <2>5, <2>6, <2>7, <2>8, <2>9 DEF KeptOf
  <2> QED
    BY <1>1, <2>1, <2>3, <2>4, <2>10
<1>9. CASE f # <<>> /\ ~Cuts(x[2], Last(f)[2])
  <2>1. Kept(f, x) = f
    BY <1>9 DEF Kept
  <2>2. n \in 1..Len(f) /\ f[n] \in S /\ ~Sooner(x, f[n]) /\ ~Cuts(x[2], f[n][2]) /\ i > 0
    BY <1>3, <1>6, <1>9
  <2>3. f[n][2].length \in Nat /\ f[n][2].sun \in Nat
    BY <2>2 DEF Rankable
  <2>4. Serves(f[n], x)
    <3>1. PICK l, m, u, v \in Nat : /\ l = f[n][2].length /\ u = f[n][2].sun
                                    /\ m = x[2].length /\ v = x[2].sun
      BY <1>4, <2>3
    <3>2. ~(m < l) /\ ~(v < u /\ 20 * (u - v) >= u)
      BY <2>2, <3>1 DEF Sooner, Cuts
    <3>3. l <= m /\ 19 * u <= 20 * v
      BY <3>2
    <3> QED
      BY <3>1, <3>3 DEF Serves
  <2>5. ASSUME NEW p \in 1..i + 1 PROVE \E j \in 1..Len(f) : Serves(f[j], r[p])
    <3>1. CASE p = i + 1
      BY <1>1, <2>2, <2>4, <3>1
    <3>2. CASE p # i + 1
      <4>1. p \in 1..i
        BY <3>2
      <4> QED
        BY <4>1 DEF KeptOf
    <3> QED
      BY <3>1, <3>2
  <2>6. ASSUME NEW j \in 1..Len(f) PROVE \E p \in 1..i + 1 : f[j] = r[p]
    <3>1. PICK p \in 1..i : f[j] = r[p]
      BY DEF KeptOf
    <3>2. p \in 1..i + 1
      BY <3>1
    <3> QED
      BY <3>1, <3>2
  <2>7. f[1] = r[1] /\ \A j \in 1..Len(f) - 1 : ~Sooner(f[j + 1], f[j]) /\ Cuts(f[j + 1][2], f[j][2])
    BY <2>2 DEF KeptOf
  <2>8. KeptOf(f, r, i + 1)
    BY <1>9, <2>5, <2>6, <2>7 DEF KeptOf
  <2> QED
    BY <1>1, <2>1, <2>8
<1> QED
  BY <1>8, <1>9

(* What is offered is what is left of all of them.                         *)
LEMMA TheFrontHolds ==
  ASSUME NEW S, Rankable(S), NEW r \in Seq(S), Ordered(r), r = Ranked
  PROVE  ParetoFront \in Seq(S) /\ KeptOf(ParetoFront, r, Len(r))
<1>1. PICK n \in Nat : n = Len(r)
  OBVIOUS
<1> DEFINE Right(g) == g = [i \in 0..n |-> IF i = 0 THEN <<>> ELSE Kept(g[i - 1], r[i])]
           T == Seq(S)
<1>2. ParetoFront = (CHOOSE g : Right(g))[n]
  BY <1>1 DEF ParetoFront
<1>3. <<>> \in T /\ KeptOf(<<>>, r, 0)
  <2>1. PICK e : e = <<>> /\ e \in Seq(S) /\ Len(e) = 0
    BY EmptySeq
  <2>2. 1..0 = {} /\ 1..0 - 1 = {} /\ ~(0 > 0)
    OBVIOUS
  <2>3. KeptOf(e, r, 0)
    BY <2>1, <2>2 DEF KeptOf
  <2> QED
    BY <2>1, <2>3
<1>4. \A i \in 1..n : \A t \in T : Kept(t, r[i]) \in T
  <2> TAKE i \in 1..n
  <2> TAKE t \in T
  <2>1. r[i] \in S
    BY <1>1
  <2>2. Append(t, r[i]) \in T
    BY <2>1, AppendProperties
  <2> QED
    BY <2>2 DEF Kept
<1>5. PICK G : \A i \in 1..n : \A t \in T : G[i][t] = Kept(t, r[i])
  <2>1. PICK G : G = [i \in 1..n |-> [t \in T |-> Kept(t, r[i])]]
    OBVIOUS
  <2>2. \A i \in 1..n : \A t \in T : G[i][t] = Kept(t, r[i])
    BY <2>1
  <2> QED
    BY <2>2
<1> HIDE DEF T
<1>6. PICK f \in [0..n -> T] : Unfolding(f, <<>>, n, G)
  <2>1. StaysIn(G, n, T)
    BY <1>4, <1>5 DEF StaysIn
  <2> QED
    BY <1>3, <2>1, Unfolds
<1>7. f[0] = <<>> /\ \A i \in 1..n : f[i] = Kept(f[i - 1], r[i])
  <2>1. f[0] = <<>> /\ \A i \in 1..n : f[i] = G[i][f[i - 1]]
    BY <1>6 DEF Unfolding
  <2>2. ASSUME NEW i \in 1..n PROVE f[i] = Kept(f[i - 1], r[i])
    <3>1. f[i - 1] \in T
      <4>1. i - 1 \in 0..n
        OBVIOUS
      <4> QED
        BY <4>1
    <3> QED
      BY <1>5, <2>1, <3>1
  <2> QED
    BY <2>1, <2>2
<1>8. Right(f)
  <2>1. \A i \in 0..n : f[i] = IF i = 0 THEN <<>> ELSE Kept(f[i - 1], r[i])
    BY <1>7
  <2>2. f = [i \in 0..n |-> f[i]]
    BY <1>6
  <2> QED
    BY <2>1, <2>2, Zenon
<1> HIDE DEF Right
<1>9. PICK g : Right(g) /\ ParetoFront = g[n]
  BY <1>2, <1>8
<1>10. \A i \in 0..n : g[i] = IF i = 0 THEN <<>> ELSE Kept(g[i - 1], r[i])
  BY <1>9, Zenon DEF Right
<1> DEFINE bad == {i \in 0..n : ~(g[i] \in T /\ KeptOf(g[i], r, i))}
<1>11. bad = {}
  <2> SUFFICES ASSUME bad # {} PROVE FALSE
    OBVIOUS
  <2>1. PICK i \in bad : \A j \in bad : i <= j
    <3>1. bad \in SUBSET Nat
      OBVIOUS
    <3> HIDE DEF bad
    <3> QED
      BY <3>1, Smallest
  <2>2. i \in 0..n /\ ~(g[i] \in T /\ KeptOf(g[i], r, i))
    BY <2>1
  <2>3. i # 0
    <3>1. 0 \in 0..n
      OBVIOUS
    <3>2. g[0] = <<>>
      BY <1>10, <3>1
    <3> QED
      BY <1>3, <2>2, <3>2
  <2>4. i \in 1..n /\ i - 1 \in 0..n /\ i - 1 \notin bad
    <3> HIDE DEF bad
    <3> QED
      BY <1>1, <2>1, <2>2, <2>3
  <2>5. PICK j \in Nat : j = i - 1
    BY <2>4
  <2>6. g[j] \in T /\ KeptOf(g[j], r, j)
    BY <2>4, <2>5
  <2>7. j + 1 = i /\ j + 1 \in 1..Len(r)
    BY <1>1, <2>4, <2>5
  <2>8. g[i] = Kept(g[j], r[j + 1])
    BY <1>10, <2>2, <2>3, <2>5, <2>7
  <2>9. g[i] \in Seq(S) /\ KeptOf(g[i], r, j + 1)
    BY <2>6, <2>7, <2>8, KeptThen DEF T
  <2> QED
    BY <2>2, <2>7, <2>9 DEF T
<1>12. g[n] \in T /\ KeptOf(g[n], r, n)
  <2>1. n \in 0..n
    OBVIOUS
  <2> QED
    BY <1>11, <2>1
<1> QED
  BY <1>1, <1>9, <1>12 DEF T

(* What is offered of walks, one of which is as short as any, is a choice. *)
LEMMA ChoicesHold ==
  ASSUME NEW S, Rankable(S), swept \in Seq(S), NEW l \in Nat, shortest.length = l,
         \A i \in DOMAIN swept : l <= swept[i][2].length,
         swept # <<>> => \E i \in DOMAIN swept : swept[i][2].length = l
  PROVE  OffersAreChoices
<1>1. CASE swept = <<>>
  <2>1. PICK o : o = <<<<0, shortest>>>> /\ Len(o) = 1 /\ o[1][2] = shortest
    <3>1. PICK x : x = <<0, shortest>>
      OBVIOUS
    <3>4. x[2] = shortest
      BY <3>1
    <3>2. PICK o : o = <<x>>
      OBVIOUS
    <3>3. Len(o) = 1 /\ o[1] = x
      BY <3>2
    <3> QED
      BY <3>1, <3>2, <3>3, <3>4
  <2>2. Offered = o
    BY <1>1, <2>1 DEF Offered
  <2>3. 1..Len(o) - 1 = {} /\ DOMAIN swept = {}
    BY <1>1, <2>1
  <2> QED
    BY <2>1, <2>2, <2>3 DEF OffersAreChoices
<1>2. CASE swept # <<>>
  <2>1. PICK r : r = Ranked /\ r \in Seq(S) /\ Ordered(r) /\ Same(r, swept, Len(swept))
    BY RankedIsOrdered
  <2>2. PICK n \in Nat : n = Len(swept) /\ n > 0 /\ DOMAIN swept = 1..n
    <3>1. PICK n \in Nat : n = Len(swept) /\ DOMAIN swept = 1..n
      OBVIOUS
    <3>2. n # 0
      BY <1>2, <3>1, EmptySeq
    <3>3. n > 0
      BY <3>1, <3>2
    <3> QED
      BY <3>1, <3>3
  <2>3. Len(r) = n /\ 1 \in 1..n
    BY <2>1, <2>2 DEF Same
  <2>4. PICK f : f = ParetoFront /\ f \in Seq(S) /\ KeptOf(f, r, n)
    BY <2>1, <2>3, TheFrontHolds
  <2>5. Offered = f
    BY <1>2, <2>4 DEF Offered
  <2>6. \A i \in 1..n : r[i] \in S /\ swept[i] \in S
    BY <2>1, <2>2, <2>3
  <2>7. r[1][2].length = l
    <3>1. PICK i \in 1..n : r[1] = swept[i]
      BY <2>1, <2>2, <2>3 DEF Same
    <3>2. PICK k \in 1..n : swept[k][2].length = l
      BY <1>2, <2>2
    <3>3. PICK j \in 1..n : r[j] = swept[k]
      BY <2>1, <2>2, <3>2 DEF Same
    <3>4. l <= r[1][2].length /\ r[1][2].length \in Nat
      BY <2>2, <2>3, <2>6, <3>1 DEF Rankable
    <3>5. CASE j = 1
      BY <3>2, <3>3, <3>5
    <3>6. CASE j # 1
      <4>1. ~Sooner(r[j], r[1])
        BY <2>1, <2>3, <3>6 DEF Ordered
      <4>2. ~(l < r[1][2].length)
        BY <3>2, <3>3, <4>1 DEF Sooner
      <4> QED
        BY <3>4, <4>2
    <3> QED
      BY <3>5, <3>6
  <2>8. f[1] = r[1]
    BY <2>2, <2>4 DEF KeptOf
  <2>9. ASSUME NEW i \in 1..Len(f) - 1, NEW a, NEW b, a = f[i][2], b = f[i + 1][2]
        PROVE  a.length < b.length /\ 20 * b.sun <= 19 * a.sun /\ b.sun < a.sun
    <3>1. ~Sooner(f[i + 1], f[i]) /\ Cuts(b, a)
      BY <2>4, <2>9 DEF KeptOf
    <3>2. f[i] \in S /\ f[i + 1] \in S
      <4>1. Len(f) \in Nat
        BY <2>4
      <4>2. i \in 1..Len(f) /\ i + 1 \in 1..Len(f)
        BY <4>1
      <4> QED
        BY <2>4, <4>2
    <3>3. PICK m, k, u, v \in Nat : m = a.length /\ k = b.length /\ u = a.sun /\ v = b.sun
      BY <2>9, <3>2 DEF Rankable
    <3>4. ~(k < m) /\ ~(k = m /\ v < u)
      BY <2>9, <3>1, <3>3 DEF Sooner
    <3>5. v < u /\ 20 * (u - v) >= u
      BY <3>1, <3>3 DEF Cuts
    <3>6. m < k /\ 20 * v <= 19 * u
      BY <3>4, <3>5
    <3> QED
      BY <3>3, <3>5, <3>6
  <2>10. ASSUME NEW i \in DOMAIN swept
         PROVE  \E j \in DOMAIN f : /\ f[j][2].length <= swept[i][2].length
                                    /\ 19 * f[j][2].sun <= 20 * swept[i][2].sun
    <3>1. PICK k \in 1..n : r[k] = swept[i]
      BY <2>1, <2>2 DEF Same
    <3>2. PICK j \in 1..Len(f) : Serves(f[j], r[k])
      BY <2>4 DEF KeptOf
    <3>3. j \in DOMAIN f
      BY <2>4
    <3> QED
      BY <3>1, <3>2, <3>3 DEF Serves
  <2>11. \A i \in 1..Len(f) - 1 :
             LET a == f[i][2]
                 b == f[i + 1][2]
             IN  a.length < b.length /\ 20 * b.sun <= 19 * a.sun /\ b.sun < a.sun
    BY <2>9
  <2> QED
    BY <2>5, <2>7, <2>8, <2>10, <2>11 DEF OffersAreChoices
<1> QED
  BY <1>1, <1>2

-----------------------------------------------------------------------------
(* A walk of the taste asked for, and one that none is shorter than.       *)
OfTheTaste(s) ==
    Passes(s) /\ \A z : Passes(z) => Charge(Weights(request.alpha, request.beta), s)
                                       <= Charge(Weights(request.alpha, request.beta), z)

NoneShorter(s) == Passes(s) /\ \A z : Passes(z) => Length(s) <= Length(z)

IsOfTheTaste(leg) == \E s : OfTheTaste(s) /\ leg = Leg(s)
IsShortest(leg) == \E s : NoneShorter(s) /\ leg = Leg(s)

Walks == {s \in Seq(Walkable) : Passes(s)}
Candidates == Nat \X {Leg(s) : s \in Walks}

(* What is known of the legs put away, by what is asked for.               *)
AtTaste ==
    /\ price = IF request.night THEN NightWeights(request.beta)
               ELSE Weights(request.alpha, request.beta)
    /\ swept = <<>>
    /\ Answered200 => shaded = shortest /\ shaded.length \in Nat /\ shaded.sun \in Nat

AtBare ==
    /\ price = Weights(0, 0) /\ swept = <<>> /\ request.alpha > 0
    /\ Answered200 => IsShortest(shortest)

AtSweep ==
    /\ price = SweepWeights(asking)
    /\ IsShortest(shortest) /\ (request.alpha > 0 \/ shaded = shortest)
    /\ swept \in Seq(Candidates)
    /\ swept = <<>> => asking = 0
    /\ swept # <<>> => \E i \in DOMAIN swept : IsShortest(swept[i][2])

LegsHold ==
    /\ search # "idle" \/ asking # Taste => ~Malformed /\ ~SamePin
    /\ asking = Taste => AtTaste
    /\ asking # Taste => ~request.night /\ IsOfTheTaste(shaded)
    /\ asking = Bare => AtBare
    /\ asking \in SweepSteps => AtSweep

(* None of it depends on anything that a step changes.                     *)
LEMMA RequestStays ==
  ASSUME UNCHANGED <<graph, from, to, request>>
  PROVE  /\ \A s : OfTheTaste(s)' <=> OfTheTaste(s)
         /\ \A s : NoneShorter(s)' <=> NoneShorter(s)
         /\ \A s : Leg(s)' = Leg(s)
         /\ \A a : SweepWeights(a)' = SweepWeights(a)
         /\ Candidates' = Candidates /\ SweepSteps' = SweepSteps
         /\ Malformed' = Malformed /\ SamePin' = SamePin
<1>1. \A s : Passes(s)' <=> Passes(s)
  BY PassesStays
<1>2. Walkable' = Walkable /\ SamePin' = SamePin
  BY PassesStays
<1>3. \A s : /\ Length(s)' = Length(s) /\ InSun(s)' = InSun(s) /\ InShade(s)' = InShade(s)
             /\ Leg(s)' = Leg(s)
  BY MakesStay
<1>4. \A s : OfTheTaste(s)' <=> OfTheTaste(s)
  BY <1>1, <1>3 DEF OfTheTaste, Charge, Weights
<1>5. \A s : NoneShorter(s)' <=> NoneShorter(s)
  BY <1>1, <1>3 DEF NoneShorter
<1>6. Walks' = Walks
  BY <1>1, <1>2 DEF Walks
<1>7. Candidates' = Candidates
  BY <1>3, <1>6 DEF Candidates
<1>8. SweepSteps' = SweepSteps /\ Malformed' = Malformed /\ \A a : SweepWeights(a)' = SweepWeights(a)
  BY DEF SweepSteps, Malformed, SweepWeights, Weights
<1> QED
  BY <1>2, <1>3, <1>4, <1>5, <1>7, <1>8

(* The walk found is of what the search asks for.                          *)
LEMMA FoundIsLeast ==
  ASSUME Situated, SearchHolds, search = "found"
  PROVE  /\ Passes(Spans) /\ Spans \in Seq(Walkable)
         /\ \A z : Passes(z) => Charge(price, Spans) <= Charge(price, z)
<1>1. Passes(Spans) /\ \A z : Passes(z) => Total(SpanCost, Spans) <= Total(SpanCost, z)
  BY FoundIsCheapest
<1>2. ASSUME NEW z, Passes(z)
      PROVE  z \in Seq(Walkable) /\ Total(SpanCost, z) = Charge(price, z)
  <2>1. z \in Seq(Walkable)
    BY <1>2, WhatPassesIsWalked
  <2> QED
    BY <2>1, WhatAWalkIs
<1> QED
  BY <1>1, <1>2

(* Where only the length is charged, it is the shortest.                   *)
LEMMA FoundIsShortest ==
  ASSUME Situated, SearchHolds, search = "found",
         NEW k \in Nat, k > 0, price.base = k, price.sun = 0, price.other = 0
  PROVE  NoneShorter(Spans)
<1>1. /\ Passes(Spans)
      /\ \A z : Passes(z) => Charge(price, Spans) <= Charge(price, z)
  BY FoundIsLeast
<1>2. ASSUME NEW z, Passes(z)
      PROVE  Length(z) \in Nat /\ Charge(price, z) = k * Length(z)
  <2>1. z \in Seq(Walkable)
    BY <1>2, WhatPassesIsWalked
  <2>2. PICK l, i, j \in Nat : l = Length(z) /\ i = InSun(z) /\ j = InShade(z)
    BY <2>1, WhatAWalkIs
  <2>3. Charge(price, z) = k * l + 0 * i + 0 * j
    BY <2>2 DEF Charge
  <2>4. k * l + 0 * i + 0 * j = k * l
    <3>1. k * l \in Nat
      OBVIOUS
    <3> QED
      BY <3>1
  <2> QED
    BY <2>2, <2>3, <2>4
<1>3. ASSUME NEW z, Passes(z) PROVE Length(Spans) <= Length(z)
  <2>1. PICK l, m \in Nat : l = Length(Spans) /\ m = Length(z)
    BY <1>1, <1>2, <1>3
  <2>2. k * l <= k * m
    BY <1>1, <1>2, <1>3, <2>1
  <2>3. l <= m
    <3>1. SUFFICES ASSUME m < l PROVE FALSE
      OBVIOUS
    <3>2. PICK d \in Nat : d > 0 /\ l = m + d
      <4>1. l - m \in Nat /\ l - m > 0 /\ l = m + (l - m)
        BY <3>1
      <4> QED
        BY <4>1
    <3>3. k * l = k * m + k * d /\ k * m \in Nat
      BY <3>2
    <3>4. k * d > 0 /\ k * d \in Nat
      BY <3>2
    <3> QED
      BY <2>2, <3>3, <3>4
  <2> QED
    BY <2>1, <2>3
<1> QED
  BY <1>1, <1>3 DEF NoneShorter

(* The tastes asked for, and what the search for each of them finds.       *)
LEMMA WhatIsAsked ==
  ASSUME request \in Requests
  PROVE  /\ request.alpha \in Nat /\ request.beta \in Nat
         /\ Taste # Bare /\ Taste \notin SweepSteps /\ Bare \notin SweepSteps
         /\ SweepSteps \subseteq Nat /\ Min(SweepSteps) = 0 /\ 0 \in SweepSteps
<1>1. /\ request.alpha \in Nat /\ request.beta \in Nat
      /\ SweepSteps \in SUBSET Nat /\ 0 \in SweepSteps
  BY RoutesAssumption DEF SweepSteps
<1>2. Taste \notin Nat /\ Bare \notin Nat /\ Taste # Bare
  BY DEF Taste, Bare
<1>3. Min(SweepSteps) = 0
  <2>1. PICK m : m = Min(SweepSteps)
    OBVIOUS
  <2>2. m \in SweepSteps /\ \A x \in SweepSteps : m <= x
    BY <1>1, <2>1, Smallest
  <2>3. m \in Nat /\ m <= 0
    BY <1>1, <2>2
  <2> QED
    BY <2>1, <2>3
<1> QED
  BY <1>1, <1>2, <1>3

LEMMA WhatIsFound ==
  ASSUME Situated, SearchHolds, search = "found", request \in Requests
  PROVE  /\ price = Weights(request.alpha, request.beta) => OfTheTaste(Spans)
         /\ price = Weights(0, 0) => NoneShorter(Spans)
         /\ price = SweepWeights(0) => NoneShorter(Spans)
<1>1. ASSUME price = Weights(request.alpha, request.beta) PROVE OfTheTaste(Spans)
  BY <1>1, FoundIsLeast DEF OfTheTaste
<1>2. ASSUME price = Weights(0, 0) PROVE NoneShorter(Spans)
  <2>1. price.base = 4 /\ price.sun = 0 /\ price.other = 0
    BY <1>2 DEF Weights
  <2> QED
    BY <2>1, FoundIsShortest
<1>3. ASSUME price = SweepWeights(0) PROVE NoneShorter(Spans)
  <2>1. PICK a, b \in Nat : a = request.alpha /\ b = request.beta
    BY WhatIsAsked
  <2>2. CASE a = 0
    <3>1. price = Weights(0, 0)
      BY <1>3, <2>1, <2>2 DEF SweepWeights
    <3> QED
      BY <1>2, <3>1
  <2>3. CASE a # 0
    <3>1. price.base = 4 * a /\ price.sun = 0 * a /\ price.other = b * 0
      BY <1>3, <2>1, <2>3 DEF SweepWeights
    <3>2. PICK k \in Nat : k = 4 * a /\ k > 0
      BY <2>3
    <3>3. price.sun = 0 /\ price.other = 0
      BY <3>1
    <3> QED
      BY <3>1, <3>2, <3>3, FoundIsShortest
  <2> QED
    BY <2>2, <2>3
<1> QED
  BY <1>1, <1>2, <1>3

(* A leg put away stays one, and so does what the sweep is made of.        *)
LEMMA WhatIsPutAwayStays ==
  ASSUME UNCHANGED <<graph, from, to, request>>, NEW l
  PROVE  /\ IsOfTheTaste(l)' <=> IsOfTheTaste(l)
         /\ IsShortest(l)' <=> IsShortest(l)
  BY RequestStays DEF IsOfTheTaste, IsShortest

(* A step that puts nothing away and does not answer.                      *)
LEMMA NothingPutAway ==
  ASSUME LegsHold, UNCHANGED <<graph, from, to, price, request, asking, shaded, shortest, swept>>,
         Answered200' => Answered200,
         search' # "idle" => search # "idle" \/ (~Malformed /\ ~SamePin)
  PROVE  LegsHold'
<1>1. /\ Candidates' = Candidates /\ SweepSteps' = SweepSteps
      /\ Malformed' = Malformed /\ SamePin' = SamePin
  BY RequestStays
<1>2. Taste' = Taste /\ Bare' = Bare
  BY DEF Taste, Bare
<1>3. \A l : (IsOfTheTaste(l)' <=> IsOfTheTaste(l)) /\ (IsShortest(l)' <=> IsShortest(l))
  BY WhatIsPutAwayStays
<1>4. IsOfTheTaste(shaded)' <=> IsOfTheTaste(shaded)
  BY RequestStays DEF IsOfTheTaste
<1>5. IsShortest(shortest)' <=> IsShortest(shortest)
  BY RequestStays DEF IsShortest
<1>6. AtTaste => AtTaste'
  BY DEF AtTaste, NightWeights, Weights
<1>7. AtBare => AtBare'
  BY <1>5 DEF AtBare, Weights
<1>8. AtSweep => AtSweep'
  <2>1. SweepWeights(asking)' = SweepWeights(asking)
    BY DEF SweepWeights, Weights
  <2>2. (swept # <<>> => \E i \in DOMAIN swept : IsShortest(swept[i][2]))
          => (swept # <<>> => \E i \in DOMAIN swept : IsShortest(swept[i][2]))'
    BY RequestStays DEF IsShortest
  <2> QED
    BY <1>1, <1>5, <2>1, <2>2 DEF AtSweep
<1> QED
  BY <1>1, <1>2, <1>4, <1>6, <1>7, <1>8 DEF LegsHold

(* A sweep begins from the shortest walk.                                  *)
LEMMA SweepBegins ==
  ASSUME request \in Requests, UNCHANGED <<graph, from, to, request, swept>>,
         swept = <<>>, ~Malformed, ~SamePin, ~request.night,
         Searched(SweepWeights(Min(SweepSteps)), Min(SweepSteps)),
         NEW l, l = shaded', IsOfTheTaste(l), NEW m, m = shortest', IsShortest(m),
         request.alpha > 0 \/ l = m
  PROVE  LegsHold'
<1>1. /\ Candidates' = Candidates /\ SweepSteps' = SweepSteps
      /\ Malformed' = Malformed /\ SamePin' = SamePin
  BY RequestStays
<1>2. asking' = 0 /\ price' = SweepWeights(0) /\ search' = "idle"
  BY WhatIsAsked DEF Searched
<1>3. Taste' # asking' /\ Bare' # asking'
  BY <1>2 DEF Taste, Bare
<1>4. IsOfTheTaste(shaded)'
  BY RequestStays DEF IsOfTheTaste
<1>5. IsShortest(shortest)'
  BY RequestStays DEF IsShortest
<1>6. SweepWeights(asking)' = SweepWeights(0)
  BY <1>2 DEF SweepWeights, Weights
<1>7. swept' \in Seq(Candidates) /\ swept' = <<>>
  BY EmptySeq
<1>8. AtSweep'
  BY <1>1, <1>2, <1>5, <1>6, <1>7 DEF AtSweep
<1> QED
  BY <1>1, <1>2, <1>3, <1>4, <1>8 DEF LegsHold

LEMMA StandStillHolds ==
  ASSUME RouteHolds, LegsHold, StandStill
  PROVE  LegsHold'
<1>1. /\ UNCHANGED <<graph, from, to, price, search, request, asking, swept>>
      /\ SamePin /\ search = "idle" /\ shaded' = Leg(<<>>) /\ shortest' = Leg(<<>>)
  BY DEF StandStill, routingVars
<1>2. Situated /\ request \in Requests
  BY DEF RouteHolds
<1>3. asking = Taste /\ AtTaste
  BY <1>1 DEF LegsHold
<1>4. SweepSteps' = SweepSteps /\ Taste' = Taste /\ Bare' = Bare
  BY <1>1, RequestStays DEF Taste, Bare
<1>5. PICK l : l = Leg(<<>>) /\ l.length \in Nat /\ l.sun \in Nat
  <2>1. <<>> \in Seq(Walkable)
    BY EmptySeq
  <2> QED
    BY <1>2, <2>1, WhatALegSays
<1>6. AtTaste'
  BY <1>1, <1>3, <1>5 DEF AtTaste, NightWeights, Weights
<1>7. asking' = Taste' /\ asking' # Bare' /\ asking' \notin SweepSteps' /\ search' = "idle"
  BY <1>1, <1>2, <1>3, <1>4, WhatIsAsked
<1> QED
  BY <1>6, <1>7 DEF LegsHold

LEMMA KeepShadedHolds ==
  ASSUME RouteHolds, LegsHold, KeepShaded
  PROVE  LegsHold'
<1>1. /\ search = "found" /\ asking = Taste /\ request' = request /\ swept' = swept
      /\ shaded' = Leg(Spans)
  BY DEF KeepShaded
<1>2. Situated /\ SearchHolds /\ request \in Requests
  BY DEF RouteHolds
<1>3. AtTaste /\ ~Malformed /\ ~SamePin
  BY <1>1 DEF LegsHold
<1>4. swept = <<>>
  BY <1>3 DEF AtTaste
<1>5. PICK a, b \in Nat : a = request.alpha /\ b = request.beta
  BY <1>2, WhatIsAsked
<1>6. b <= a
  BY <1>3, <1>5 DEF Malformed
<1>7. PICK s : s = Spans /\ Passes(s) /\ s \in Seq(Walkable)
  BY <1>1, <1>2, FoundIsLeast
<1>8. PICK l : l = Leg(s) /\ l.length \in Nat /\ l.sun \in Nat
  BY <1>2, <1>7, WhatALegSays
<1>9. shaded' = l
  BY <1>1, <1>7, <1>8
<1>10. ~request.night => IsOfTheTaste(l)
  <2> SUFFICES ASSUME ~request.night PROVE IsOfTheTaste(l)
    OBVIOUS
  <2>1. OfTheTaste(s)
    BY <1>1, <1>2, <1>3, <1>7, WhatIsFound DEF AtTaste
  <2> QED
    BY <1>8, <2>1 DEF IsOfTheTaste
<1>11. CASE Prefers /\ Trades
  <2>1. /\ Searched(Weights(0, 0), Bare) /\ response' = response
        /\ response = "pending" /\ ~request.night
    BY <1>11 DEF KeepShaded, Trades
  <2>2. /\ UNCHANGED <<graph, from, to>> /\ price' = Weights(0, 0) /\ asking' = Bare
        /\ search' = "idle"
    BY <2>1 DEF Searched
  <2>3. SweepSteps' = SweepSteps /\ Malformed' = Malformed /\ SamePin' = SamePin
    BY <1>1, <2>2, RequestStays
  <2>4. IsOfTheTaste(shaded)'
    BY <1>1, <1>9, <1>10, <2>1, <2>2, RequestStays DEF IsOfTheTaste
  <2>5. a > 0
    BY <1>5, <1>6, <1>11 DEF Prefers
  <2>6. AtBare'
    BY <1>1, <1>4, <1>5, <2>1, <2>2, <2>5 DEF AtBare, Answered200, Weights
  <2>7. asking' # Taste' /\ asking' \notin SweepSteps'
    <3>1. Taste' = Taste
      BY DEF Taste
    <3> QED
      BY <1>2, <2>2, <2>3, <3>1, WhatIsAsked
  <2> QED
    BY <1>1, <1>3, <2>1, <2>3, <2>4, <2>6, <2>7 DEF LegsHold
<1>12. CASE ~(Prefers /\ Trades) /\ request.alternatives /\ Trades
  <2>1. /\ Searched(SweepWeights(Min(SweepSteps)), Min(SweepSteps))
        /\ shortest' = l /\ ~request.night /\ ~Prefers
    BY <1>7, <1>8, <1>12 DEF KeepShaded, Trades
  <2>2. a = 0 /\ b = 0
    BY <1>5, <2>1 DEF Prefers
  <2>3. price = Weights(0, 0)
    BY <1>3, <1>5, <2>1, <2>2 DEF AtTaste
  <2>4. NoneShorter(s)
    BY <1>1, <1>2, <1>7, <2>3, WhatIsFound
  <2>5. IsShortest(l)
    BY <1>8, <2>4 DEF IsShortest
  <2>6. UNCHANGED <<graph, from, to>>
    BY <2>1 DEF Searched
  <2> QED
    BY <1>1, <1>2, <1>3, <1>4, <1>9, <1>10, <2>1, <2>5, <2>6, SweepBegins
<1>13. CASE ~(Prefers /\ Trades) /\ ~(request.alternatives /\ Trades)
  <2>1. UNCHANGED <<graph, from, to, price, search, asking>> /\ shortest' = l
    BY <1>7, <1>8, <1>13 DEF KeepShaded, Finish, routingVars
  <2>2. SweepSteps' = SweepSteps /\ Malformed' = Malformed /\ SamePin' = SamePin
    BY <1>1, <2>1, RequestStays
  <2>3. Taste' = Taste /\ Bare' = Bare
    BY DEF Taste, Bare
  <2>4. AtTaste'
    BY <1>1, <1>3, <1>8, <1>9, <2>1 DEF AtTaste, NightWeights, Weights
  <2>5. asking' = Taste' /\ asking' # Bare' /\ asking' \notin SweepSteps'
    BY <1>1, <1>2, <2>1, <2>2, <2>3, WhatIsAsked
  <2> QED
    BY <1>3, <2>2, <2>4, <2>5 DEF LegsHold
<1> QED
  BY <1>11, <1>12, <1>13

LEMMA KeepShortestHolds ==
  ASSUME RouteHolds, LegsHold, KeepShortest
  PROVE  LegsHold'
<1>1. /\ search = "found" /\ asking = Bare /\ request' = request /\ swept' = swept
      /\ shortest' = Leg(Spans) /\ shaded' = shaded
  BY DEF KeepShortest
<1>2. Situated /\ SearchHolds /\ request \in Requests
  BY DEF RouteHolds
<1>3. AtBare /\ ~Malformed /\ ~SamePin /\ ~request.night /\ IsOfTheTaste(shaded)
  BY <1>1, <1>2, WhatIsAsked DEF LegsHold
<1>4. swept = <<>> /\ price = Weights(0, 0) /\ request.alpha > 0
  BY <1>3 DEF AtBare
<1>5. PICK s : s = Spans /\ NoneShorter(s)
  BY <1>1, <1>2, <1>4, WhatIsFound
<1>6. PICK m : m = Leg(s) /\ IsShortest(m) /\ m = shortest'
  BY <1>1, <1>5 DEF IsShortest
<1>7. CASE request.alternatives
  <2>1. Searched(SweepWeights(Min(SweepSteps)), Min(SweepSteps))
    BY <1>7 DEF KeepShortest
  <2>2. UNCHANGED <<graph, from, to>>
    BY <2>1 DEF Searched
  <2> QED
    BY <1>1, <1>2, <1>3, <1>4, <1>6, <2>1, <2>2, SweepBegins
<1>8. CASE ~request.alternatives
  <2>1. UNCHANGED <<graph, from, to, price, search, asking>>
    BY <1>8 DEF KeepShortest, Finish, routingVars
  <2>2. SweepSteps' = SweepSteps /\ Malformed' = Malformed /\ SamePin' = SamePin
    BY <1>1, <2>1, RequestStays
  <2>3. Taste' = Taste /\ Bare' = Bare
    BY DEF Taste, Bare
  <2>4. IsOfTheTaste(shaded)'
    BY <1>1, <1>3, <2>1, RequestStays DEF IsOfTheTaste
  <2>5. IsShortest(shortest)'
    BY <1>1, <1>6, <2>1, RequestStays DEF IsShortest
  <2>6. AtBare'
    BY <1>1, <1>4, <2>1, <2>5 DEF AtBare, Weights
  <2>7. asking' # Taste' /\ asking' \notin SweepSteps'
    BY <1>1, <1>2, <2>1, <2>2, <2>3, WhatIsAsked
  <2> QED
    BY <1>1, <1>3, <2>2, <2>4, <2>6, <2>7 DEF LegsHold
<1> QED
  BY <1>7, <1>8

LEMMA KeepSweptHolds ==
  ASSUME RouteHolds, LegsHold, KeepSwept
  PROVE  LegsHold'
<1>1. /\ search = "found" /\ asking \in SweepSteps /\ request' = request
      /\ shortest' = shortest /\ shaded' = shaded
  BY DEF KeepSwept
<1>2. Situated /\ SearchHolds /\ request \in Requests
  BY DEF RouteHolds
<1>3. asking \in Nat /\ asking # Taste /\ asking # Bare /\ 0 \in SweepSteps
  BY <1>1, <1>2, WhatIsAsked
<1>4. AtSweep /\ ~Malformed /\ ~SamePin /\ ~request.night /\ IsOfTheTaste(shaded)
  BY <1>1, <1>3 DEF LegsHold
<1>5. /\ price = SweepWeights(asking)
      /\ IsShortest(shortest) /\ (request.alpha > 0 \/ shaded = shortest)
      /\ swept \in Seq(Candidates)
      /\ swept = <<>> => asking = 0
      /\ swept # <<>> => \E i \in DOMAIN swept : IsShortest(swept[i][2])
  BY <1>4 DEF AtSweep
<1>6. PICK s : s = Spans /\ Passes(s) /\ s \in Seq(Walkable)
  BY <1>1, <1>2, FoundIsLeast
<1>7. PICK x : x = <<asking, Leg(s)>>
  OBVIOUS
<1>8. x \in Candidates /\ x[2] = Leg(s)
  BY <1>3, <1>6, <1>7 DEF Candidates, Walks
<1>9. PICK q : /\ q = swept' /\ q \in Seq(Candidates) /\ q # <<>>
               /\ \E i \in DOMAIN q : IsShortest(q[i][2])
  <2>1. swept' = swept \/ swept' = Append(swept, x)
    BY <1>6, <1>7 DEF KeepSwept
  <2>2. CASE swept # <<>> /\ swept' = swept
    BY <1>5, <2>2
  <2>3. CASE swept # <<>> /\ swept' = Append(swept, x)
    <3>1. PICK q : q = Append(swept, x)
      OBVIOUS
    <3>2. PICK n \in Nat : n = Len(swept)
      BY <1>5
    <3>3. q \in Seq(Candidates) /\ Len(q) = n + 1 /\ \A i \in 1..n : q[i] = swept[i]
      BY <1>5, <1>8, <3>1, <3>2, AppendProperties
    <3>4. PICK i \in DOMAIN swept : IsShortest(swept[i][2])
      BY <1>5, <2>3
    <3>5. i \in 1..n /\ i \in 1..n + 1
      BY <1>5, <3>2, <3>4
    <3>6. DOMAIN q = 1..n + 1
      BY <3>2, <3>3
    <3>7. i \in DOMAIN q /\ IsShortest(q[i][2]) /\ q # <<>>
      BY <3>3, <3>4, <3>5, <3>6, EmptySeq
    <3> QED
      BY <2>3, <3>1, <3>3, <3>7
  <2>4. CASE swept = <<>>
    <3>1. swept' = Append(swept, x)
      BY <1>6, <1>7, <2>4 DEF KeepSwept
    <3>2. PICK q : q = <<x>>
      OBVIOUS
    <3>3. swept' = q
      BY <2>4, <3>1, <3>2
    <3>4. q \in Seq(Candidates) /\ 1 \in DOMAIN q /\ q[1] = x /\ q # <<>>
      BY <1>8, <3>2
    <3>5. NoneShorter(s)
      BY <1>1, <1>2, <1>5, <1>6, <2>4, WhatIsFound
    <3>6. IsShortest(q[1][2])
      BY <1>8, <3>4, <3>5 DEF IsShortest
    <3> QED
      BY <3>3, <3>4, <3>6
  <2> QED
    BY <2>1, <2>2, <2>3, <2>4
<1>10. \/ asking' \in SweepSteps /\ price' = SweepWeights(asking') /\ UNCHANGED <<graph, from, to>>
          /\ search' = "idle"
       \/ UNCHANGED <<graph, from, to, price, asking, search>>
  <2>1. CASE StepsAfter(asking) # {}
    <3>1. PICK t : t = Min(StepsAfter(asking))
      OBVIOUS
    <3>2. t \in SweepSteps
      BY <1>2, <2>1, <3>1, TheSweep
    <3>3. Searched(SweepWeights(t), t)
      BY <2>1, <3>1 DEF KeepSwept
    <3> QED
      BY <3>2, <3>3 DEF Searched
  <2>2. CASE StepsAfter(asking) = {}
    BY <2>2 DEF KeepSwept, Finish, routingVars
  <2> QED
    BY <2>1, <2>2
<1>11. UNCHANGED <<graph, from, to, request>>
  BY <1>1, <1>10
<1>12. /\ Candidates' = Candidates /\ SweepSteps' = SweepSteps
       /\ Malformed' = Malformed /\ SamePin' = SamePin /\ Taste' = Taste /\ Bare' = Bare
  BY <1>11, RequestStays DEF Taste, Bare
<1>13. asking' \in SweepSteps /\ price' = SweepWeights(asking)'
  <2>1. SweepWeights(asking)' = SweepWeights(asking')
    BY <1>11 DEF SweepWeights, Weights
  <2> QED
    BY <1>1, <1>5, <1>10, <2>1
<1>14. asking' # Taste' /\ asking' # Bare'
  BY <1>2, <1>12, <1>13, WhatIsAsked
<1>15. IsOfTheTaste(shaded)'
  BY <1>1, <1>4, <1>11, RequestStays DEF IsOfTheTaste
<1>16. IsShortest(shortest)'
  BY <1>1, <1>5, <1>11, RequestStays DEF IsShortest
<1>17. (\E i \in DOMAIN swept : IsShortest(swept[i][2]))'
  BY <1>9, <1>11, RequestStays DEF IsShortest
<1>18. AtSweep'
  BY <1>1, <1>5, <1>9, <1>12, <1>13, <1>16, <1>17 DEF AtSweep
<1> QED
  BY <1>1, <1>4, <1>12, <1>14, <1>15, <1>18 DEF LegsHold

LEMMA LegStepHolds ==
  ASSUME RouteHolds, LegsHold, RouteNext
  PROVE  LegsHold'
<1>1. CASE Refuse
  <2>1. /\ UNCHANGED <<graph, from, to, price, request, asking, shaded, shortest, swept, search>>
        /\ ~Answered200'
    BY <1>1 DEF Refuse, routingVars, Answered200
  <2> QED
    BY <2>1, NothingPutAway
<1>2. CASE Search
  <2>1. /\ UNCHANGED <<request, asking, shaded, shortest, swept, response>>
        /\ ~SamePin /\ ~Malformed /\ SearchNext
    BY <1>2 DEF Search, routeVars
  <2>2. UNCHANGED <<graph, from, to, price>>
    BY <2>1 DEF SearchNext, StartSearch, Arrive, SkipSettled, Settle, RunDry
  <2>3. Answered200' <=> Answered200
    BY <2>1 DEF Answered200
  <2> QED
    BY <2>1, <2>2, <2>3, NothingPutAway
<1>3. CASE NoRoute
  <2>1. /\ UNCHANGED <<graph, from, to, price, request, asking, shaded, shortest, swept, search>>
        /\ ~Answered200'
    BY <1>3 DEF NoRoute, routingVars, Answered200
  <2> QED
    BY <2>1, NothingPutAway
<1> QED
  BY <1>1, <1>2, <1>3, StandStillHolds, KeepShadedHolds, KeepShortestHolds, KeepSweptHolds
     DEF RouteNext

(* What is known of the legs makes the offers fair.                        *)
LEMMA LegsAreFair ==
  ASSUME RouteHolds, LegsHold
  PROVE  OffersAreFair
<1>1. Situated /\ request \in Requests /\ asking \in {Taste, Bare} \cup SweepSteps
  BY DEF RouteHolds
<1>2. PICK a, b \in Nat : a = request.alpha /\ b = request.beta
  BY <1>1, WhatIsAsked
<1>3. SUFFICES ASSUME Answered200 PROVE TasteIsATradeOff /\ OffersAreChoices
  BY DEF OffersAreFair, TasteIsATradeOff, OffersAreChoices
<1>4. ASSUME NEW s, Passes(s)
      PROVE  /\ s \in Seq(Walkable) /\ Leg(s).length = Length(s) /\ Leg(s).length \in Nat
             /\ Leg(s).sun \in Nat
             /\ (~request.night => Leg(s).sun = InSun(s))
  <2>1. s \in Seq(Walkable)
    BY <1>1, <1>4, WhatPassesIsWalked
  <2> QED
    BY <1>1, <2>1, WhatALegSays
<1>5. ASSUME shaded = shortest, shaded.length \in Nat, shaded.sun \in Nat
      PROVE  TasteIsATradeOff
  <2>1. PICK l, u \in Nat : l = shaded.length /\ u = shaded.sun
    BY <1>5
  <2>2. 2 * l <= (2 + a) * l
    <3>1. (2 + a) * l = 2 * l + a * l /\ a * l \in Nat
      OBVIOUS
    <3> QED
      BY <3>1
  <2>3. l <= l /\ u <= u
    BY <2>1
  <2> QED
    BY <1>2, <1>5, <2>1, <2>2, <2>3 DEF TasteIsATradeOff
<1>6. ASSUME ~request.night, IsOfTheTaste(shaded), IsShortest(shortest), ~Malformed, a > 0
      PROVE  TasteIsATradeOff
  <2>1. PICK s : OfTheTaste(s) /\ shaded = Leg(s)
    BY <1>6 DEF IsOfTheTaste
  <2>2. PICK z : NoneShorter(z) /\ shortest = Leg(z)
    BY <1>6 DEF IsShortest
  <2>3. Passes(s) /\ Passes(z) /\ Length(z) <= Length(s)
        /\ Charge(Weights(a, b), s) <= Charge(Weights(a, b), z)
    BY <1>2, <2>1, <2>2 DEF OfTheTaste, NoneShorter
  <2>4. s \in Seq(Walkable) /\ z \in Seq(Walkable)
    BY <1>4, <2>3
  <2>5. PICK l, u, o \in Nat : l = Length(s) /\ u = InSun(s) /\ o = InShade(s)
    BY <1>1, <2>4, WhatAWalkIs
  <2>6. PICK m, v, p \in Nat : m = Length(z) /\ v = InSun(z) /\ p = InShade(z) /\ v + p <= 2 * m
    BY <1>1, <2>4, WhatAWalkIs
  <2>7. PICK w : w = Weights(a, b) /\ w.base = 4 /\ w.sun = a /\ w.other = b
    <3>1. PICK w : w = Weights(a, b)
      OBVIOUS
    <3>2. w.base = 4 /\ w.sun = a /\ w.other = b
      BY <3>1 DEF Weights
    <3> QED
      BY <3>1, <3>2
  <2>8. 4 * l + a * u + b * o <= 4 * m + a * v + b * p
    BY <2>3, <2>5, <2>6, <2>7 DEF Charge
  <2>9. m <= l /\ b <= a
    BY <1>2, <1>6, <2>3, <2>5, <2>6 DEF Malformed
  <2>10. 2 * l <= (2 + a) * m /\ (b = 0 /\ a > 0 => u <= v)
    BY <2>6, <2>8, <2>9, TradeOff
  <2>11. shaded.length = l /\ shortest.length = m /\ shaded.sun = u /\ shortest.sun = v
    BY <1>4, <1>6, <2>1, <2>2, <2>3, <2>5, <2>6
  <2> QED
    BY <1>2, <1>6, <2>9, <2>10, <2>11 DEF TasteIsATradeOff
<1>7. ASSUME swept = <<>>, shortest.length \in Nat PROVE OffersAreChoices
  <2>1. Rankable({}) /\ swept \in Seq({}) /\ DOMAIN swept = {}
    BY <1>7, EmptySeq DEF Rankable
  <2> QED
    BY <1>7, <2>1, ChoicesHold
<1>8. ASSUME IsShortest(shortest) PROVE shortest.length \in Nat
  BY <1>4, <1>8 DEF IsShortest, NoneShorter
<1>9. CASE asking = Taste
  <2>1. AtTaste
    BY <1>9 DEF LegsHold
  <2>2. swept = <<>> /\ shaded = shortest /\ shaded.length \in Nat /\ shaded.sun \in Nat
    BY <1>3, <2>1 DEF AtTaste
  <2> QED
    BY <1>5, <1>7, <2>2
<1>10. CASE asking = Bare
  <2>1. asking # Taste
    BY <1>1, <1>10, WhatIsAsked
  <2>2. AtBare /\ ~Malformed /\ ~request.night /\ IsOfTheTaste(shaded)
    BY <1>10, <2>1 DEF LegsHold
  <2>3. swept = <<>> /\ IsShortest(shortest) /\ a > 0
    BY <1>2, <1>3, <2>2 DEF AtBare
  <2> QED
    BY <1>6, <1>7, <1>8, <2>2, <2>3
<1>11. CASE asking \in SweepSteps
  <2>1. asking # Taste
    BY <1>1, <1>11, WhatIsAsked
  <2>2. AtSweep /\ ~Malformed /\ ~request.night /\ IsOfTheTaste(shaded)
    BY <1>11, <2>1 DEF LegsHold
  <2>3. /\ IsShortest(shortest) /\ (request.alpha > 0 \/ shaded = shortest)
        /\ swept \in Seq(Candidates)
        /\ swept # <<>> => \E i \in DOMAIN swept : IsShortest(swept[i][2])
    BY <2>2 DEF AtSweep
  <2>4. PICK z : NoneShorter(z) /\ shortest = Leg(z)
    BY <2>3 DEF IsShortest
  <2>5. Passes(z) /\ \A s : Passes(s) => Length(z) <= Length(s)
    BY <2>4 DEF NoneShorter
  <2>6. TasteIsATradeOff
    <3>1. CASE a > 0
      BY <1>6, <2>2, <2>3, <3>1
    <3>2. CASE a = 0
      <4>1. shaded = shortest
        BY <1>2, <2>3, <3>2
      <4>2. shaded.length \in Nat /\ shaded.sun \in Nat
        BY <1>4, <2>4, <2>5, <4>1
      <4> QED
        BY <1>5, <4>1, <4>2
    <3> QED
      BY <3>1, <3>2
  <2>7. Rankable(Candidates)
    <3> SUFFICES ASSUME NEW x \in Candidates PROVE x[2].length \in Nat /\ x[2].sun \in Nat
      BY DEF Rankable
    <3>1. PICK s : Passes(s) /\ x[2] = Leg(s)
      BY DEF Candidates, Walks
    <3> QED
      BY <1>4, <3>1
  <2>8. PICK l \in Nat : l = shortest.length /\ l = Length(z)
    BY <1>4, <2>4, <2>5
  <2>9. ASSUME NEW i \in DOMAIN swept PROVE l <= swept[i][2].length
    <3>1. swept[i] \in Candidates
      BY <2>3
    <3>2. PICK s : Passes(s) /\ swept[i][2] = Leg(s)
      BY <3>1 DEF Candidates, Walks
    <3> QED
      BY <1>4, <2>5, <2>8, <3>2
  <2>10. swept # <<>> => \E i \in DOMAIN swept : swept[i][2].length = l
    <3> SUFFICES ASSUME swept # <<>> PROVE \E i \in DOMAIN swept : swept[i][2].length = l
      OBVIOUS
    <3>1. PICK i \in DOMAIN swept : IsShortest(swept[i][2])
      BY <2>3
    <3>2. PICK s : NoneShorter(s) /\ swept[i][2] = Leg(s)
      BY <3>1 DEF IsShortest
    <3>3. Passes(s) /\ Length(s) <= Length(z)
      BY <2>5, <3>2 DEF NoneShorter
    <3>4. Length(s) = swept[i][2].length /\ Length(s) \in Nat
      BY <1>4, <3>2, <3>3
    <3>5. l <= Length(s)
      BY <2>5, <2>8, <3>3
    <3>6. Length(s) = l
      BY <2>8, <3>3, <3>4, <3>5
    <3> QED
      BY <3>4, <3>6
  <2>11. OffersAreChoices
    BY <2>3, <2>7, <2>8, <2>9, <2>10, ChoicesHold
  <2> QED
    BY <2>6, <2>11
<1> QED
  BY <1>1, <1>9, <1>10, <1>11

(* Whatever the graph, the points and the taste, the walk offered is no    *)
(* longer than the taste pays for and, unless trees were asked for, no     *)
(* more in the sun than the shortest; and the alternatives begin with a    *)
(* walk as short as any, each buys shade with length, and none left out    *)
(* would have been a better bargain.                                       *)
THEOREM OffersAreAlwaysFair == RouteSpec => []OffersAreFair
<1> DEFINE Init == /\ graph \in Streets /\ from \in PointsOf(graph) /\ to \in PointsOf(graph)
                   /\ RequestInit
           Holds == RouteHolds /\ LegsHold
<1>1. Init => Holds
  <2> SUFFICES ASSUME Init PROVE Holds
    OBVIOUS
  <2>1. RouteHolds
    BY RouteBeginsHolding
  <2>2. /\ request \in Requests /\ asking = Taste /\ search = "idle" /\ swept = <<>>
        /\ ~Answered200
        /\ price = IF request.night THEN NightWeights(request.beta)
                   ELSE Weights(request.alpha, request.beta)
    BY DEF RequestInit, RoutingIdle, Answered200
  <2>3. AtTaste
    BY <2>2 DEF AtTaste
  <2>4. asking # Bare /\ asking \notin SweepSteps
    BY <2>2, WhatIsAsked
  <2> QED
    BY <2>1, <2>2, <2>3, <2>4 DEF LegsHold
<1>2. Holds /\ [RouteNext]_<<routingVars, routeVars>> => Holds'
  <2> SUFFICES ASSUME Holds, [RouteNext]_<<routingVars, routeVars>> PROVE Holds'
    OBVIOUS
  <2>1. RouteHolds'
    BY RouteStaysHolding
  <2>2. CASE RouteNext
    BY <2>1, <2>2, LegStepHolds
  <2>3. CASE UNCHANGED <<routingVars, routeVars>>
    <3>1. /\ UNCHANGED <<graph, from, to, price, request, asking, shaded, shortest, swept, search>>
          /\ response' = response
      BY <2>3 DEF routingVars, routeVars
    <3>2. Answered200' => Answered200
      BY <3>1 DEF Answered200
    <3> QED
      BY <2>1, <3>1, <3>2, NothingPutAway
  <2> QED
    BY <2>2, <2>3
<1>3. Holds => OffersAreFair
  BY LegsAreFair
<1> HIDE DEF Holds
<1> QED
  BY <1>1, <1>2, <1>3, PTL DEF RouteSpec, Init

=============================================================================
