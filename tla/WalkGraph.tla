------------------------------ MODULE WalkGraph ------------------------------
(***************************************************************************)
(* The walking graph of a city: a network of directed ways made into       *)
(* undirected edges, cut to where there is data, scored for every column   *)
(* of the ladder, written as three files, read back, and loaded by servers *)
(* that check what the files claim of each other.  The build may be killed *)
(* anywhere, also in the middle of a file, and a server may start then.    *)
(*                                                                         *)
(* A way is [u, v, shape]; shapes tell parallel ways apart, and each is    *)
(* sampled in some cells.                                                  *)
(***************************************************************************)
EXTENDS Integers, Sequences, FiniteSets, FiniteSetsExt, SequencesExt

CONSTANTS
    Networks,     \* the sets of ways that may be fetched
    Sampled,      \* shape -> the cells it is sampled in
    Walkable,     \* the shapes long enough to be walked
    Coverages,    \* the cells with data, or Whole for all of them
    AllData,
    Columns,      \* the instants of the ladder
    Shades,       \* column -> cell -> its shade: what the rasters may say
    Missing,      \* a file that is not there
    Torn,         \* a file cut in the middle of its writing
    NoGraph,      \* the city is served without routes
    Refused       \* the server did not start

VARIABLES
    computed,    \* what the build under way has computed
    step,        \* what it does next: idle, graph, fractions, meta, readback
    files,       \* the three files
    loaded       \* what the server that started last has in memory

(* A network is finite, its nodes have numbers, and a shape is sampled in  *)
(* so many cells.                                                          *)
ASSUME WalkAssumption ==
    /\ \A network \in Networks : /\ IsFiniteSet(network)
                                 /\ \A w \in network : {w.u, w.v} \subseteq Nat
    /\ \A network \in Networks : \A w \in network : IsFiniteSet(Sampled[w.shape])

walkVars == <<computed, step, files, loaded>>

-----------------------------------------------------------------------------
(* Both directions kept: an edge each.                                     *)
ExtractedTwice(network) ==
    {<<w.u, w.v, w.shape>> : w \in {x \in network : x.u # x.v /\ x.shape \in Walkable}}

(* extract_graph_arrays: one edge for all the ways between two nodes with  *)
(* one shape, from the lower node to the higher; loops and specks go.      *)
Extracted(network) ==
    {<<Min({w.u, w.v}), Max({w.u, w.v}), w.shape>> :
        w \in {x \in network : x.u # x.v /\ x.shape \in Walkable}}

PartlyCovered(edge, coverage) ==
    coverage = AllData \/ Sampled[edge[3]] \cap coverage # {}

(* edges_fully_covered: a street is scored on all of it or not at all.     *)
FullyCovered(edge, coverage) ==
    coverage = AllData \/ Sampled[edge[3]] \subseteq coverage

NodesOf(edges) == {e[1] : e \in edges} \cup {e[2] : e \in edges}

(* keep_edges: the nodes that are left are numbered again, from 0.         *)
Renumbered(edges) ==
    LET number(n) == Cardinality({m \in NodesOf(edges) : m < n})
        list == SetToSeq(edges)
    IN  [nodes |-> Cardinality(NodesOf(edges)),
         edges |-> [i \in DOMAIN list |->
                       [u |-> number(list[i][1]), v |-> number(list[i][2]),
                        shape |-> list[i][3]]]]

(* edge_state_fractions, counted in samples.  Without data it is sun, and  *)
(* a crown is canopy whether or not a wall would shade there too.          *)
Sunny2(shade, shape) ==
    Cardinality({c \in Sampled[shape] : shade[c] \in {"sun", "outside"}})
Leafy2(shade, shape) ==
    Cardinality({c \in Sampled[shape] : shade[c] \in {"vegetation", "both"}})

Scored(edges, shades) ==
    [i \in DOMAIN edges |-> [k \in Columns |->
        [sun |-> Sunny2(shades[k], edges[i].shape), veg |-> Leafy2(shades[k], edges[i].shape)]]]

(* build_graph up to its writing.                                          *)
Built(network, coverage, shades) ==
    LET kept == {e \in Extracted(network) : FullyCovered(e, coverage)}
        graph == Renumbered(kept)
    IN  [graph |-> graph,
         fractions |-> Scored(graph.edges, shades),
         meta |-> [nodes |-> graph.nodes, edges |-> Cardinality(kept)],
         coverage |-> coverage]

-----------------------------------------------------------------------------
WalkInit ==
    /\ computed = NoGraph /\ step = "idle"
    /\ files = [graph |-> Missing, fractions |-> Missing, meta |-> Missing]
    /\ loaded = NoGraph

(* A city none of whose edges is left has no graph: an error, and nothing  *)
(* is written.                                                             *)
BuildGraph ==
    /\ step = "idle"
    /\ \E network \in Networks, coverage \in Coverages, shades \in Shades :
         LET new == Built(network, coverage, shades)
         IN  new.graph.nodes > 0 /\ computed' = new
    /\ step' = "graph"
    /\ UNCHANGED <<files, loaded>>

After == [graph |-> "fractions", fractions |-> "meta", meta |-> "readback"]

(* write_route_graph, file by file.                                        *)
WriteFile ==
    /\ step \in DOMAIN After
    /\ files' = [files EXCEPT ![step] = computed[step]]
    /\ step' = After[step]
    /\ UNCHANGED <<computed, loaded>>

(* Each file is opened emptied, and written.                               *)
KillBuild ==
    /\ step # "idle"
    /\ files' \in {files} \cup (IF step \in DOMAIN After
                                THEN {[files EXCEPT ![step] = Torn]} ELSE {})
    /\ step' = "idle" /\ computed' = NoGraph
    /\ UNCHANGED loaded

(* The two matrices were measured against each other and not the graph.    *)
CoherentUnmeasured(graph, fractions, meta) ==
    /\ meta.nodes = graph.nodes /\ meta.edges = Len(graph.edges)
    /\ \A i \in DOMAIN graph.edges : {graph.edges[i].u, graph.edges[i].v} \subseteq 0..graph.nodes - 1

(* _check_coherence: every claim the files make about each other.          *)
Coherent(graph, fractions, meta) ==
    /\ meta.nodes = graph.nodes /\ meta.edges = Len(graph.edges)
    /\ Len(fractions) = Len(graph.edges)
    /\ \A i \in DOMAIN graph.edges : {graph.edges[i].u, graph.edges[i].v} \subseteq 0..graph.nodes - 1

(* load_route_graph: without graph.json, or any of the files, there is no  *)
(* graph and the city is served without routes; what cannot be read, or    *)
(* does not agree, keeps the server from starting.                         *)
Loaded ==
    IF files.meta = Missing THEN NoGraph
    ELSE IF files.meta = Torn THEN Refused
    ELSE IF files.fractions = Missing \/ files.graph = Missing THEN NoGraph
    ELSE IF files.fractions = Torn \/ files.graph = Torn THEN Refused
    ELSE IF Coherent(files.graph, files.fractions, files.meta) THEN files
    ELSE Refused

ReadBack ==
    /\ step = "readback"
    /\ step' = "idle" /\ computed' = NoGraph
    /\ UNCHANGED <<files, loaded>>

StartServer == loaded' = Loaded /\ UNCHANGED <<computed, step, files>>

WalkNext == BuildGraph \/ WriteFile \/ KillBuild \/ ReadBack \/ StartServer

WalkSpec == WalkInit /\ [][WalkNext]_walkVars

-----------------------------------------------------------------------------
Serves == loaded \notin {NoGraph, Refused}

(* Whatever the build was doing when a server started, and in whatever     *)
(* order it was killed, a graph that is served can be walked: a search     *)
(* meets no edge without ends, no node without an edge, no edge without a  *)
(* fraction, and never a loop or one street twice.                         *)
ServedCanBeWalked ==
    Serves =>
        LET g == loaded.graph
        IN  /\ g.nodes > 0 /\ Len(g.edges) > 0
            /\ UNION {{g.edges[i].u, g.edges[i].v} : i \in DOMAIN g.edges} = 0..g.nodes - 1
            /\ \A i \in DOMAIN g.edges :
                 /\ g.edges[i].u # g.edges[i].v
                 /\ i \in DOMAIN loaded.fractions
            /\ \A i, j \in DOMAIN g.edges : i # j =>
                 \/ g.edges[i].shape # g.edges[j].shape
                 \/ {g.edges[i].u, g.edges[i].v} # {g.edges[j].u, g.edges[j].v}

(* No street is scored on the part of it that has data: what a build is    *)
(* about to write was sampled inside the area from end to end, and its sun *)
(* and its trees do not add up to more than the street.                    *)
ScoredOnAllOfIt ==
    computed # NoGraph =>
        \A i \in DOMAIN computed.graph.edges :
            LET cells == Sampled[computed.graph.edges[i].shape]
            IN  /\ computed.coverage # AllData => cells \subseteq computed.coverage
                /\ \A k \in Columns :
                     computed.fractions[i][k].sun + computed.fractions[i][k].veg
                       <= Cardinality(cells)

(* A graph that is written is true to the area, and one that is served     *)
(* holds together.                                                         *)
GraphHolds == ScoredOnAllOfIt /\ ServedCanBeWalked
=============================================================================
