------------------------------ MODULE Download -------------------------------
(***************************************************************************)
(* The LiDAR of a city, fetched from a download centre that has no API:    *)
(* its catalogue is read page by page, each tile that is missing is        *)
(* written to a .part file, looked at, and only then given its name.  The  *)
(* centre may refuse, break off, or answer with a page once a session has  *)
(* had enough; the command may be killed; whoever runs it runs it again.   *)
(*                                                                         *)
(* Distances are in units of which TileSide make the side of a tile.  A    *)
(* tile is named by its north-west corner.                                 *)
(***************************************************************************)
EXTENDS Integers, FiniteSets, Sequences

CONSTANTS
    TileSide,      \* side of a tile
    Buffer,        \* context fetched round the area
    Boxes,         \* areas that may be asked for: [west, south, east, north]
    Shelf,         \* tiles of the world, by north-west corner
    Catalogues,    \* what the centre may list, a sequence of tiles
    PageSize,      \* files in a page of the catalogue
    SessionLimit,  \* files the centre serves in a session
    Hiccups,       \* bound: failures of the network, and kills
    NoTile         \* nothing on its way

ASSUME DownloadAssumption ==
    /\ TileSide \in Nat \ {0} /\ Buffer \in Nat
    /\ PageSize \in Nat \ {0} /\ SessionLimit \in Nat \ {0} /\ Hiccups \in Nat
    /\ IsFiniteSet(Shelf) /\ NoTile \notin Shelf
    /\ \A b \in Boxes : /\ b.west \in Int /\ b.east \in Int /\ b.south \in Int /\ b.north \in Int
                        /\ b.west < b.east /\ b.south < b.north

VARIABLES
    city,       \* the box of the city
    catalogue,  \* what the centre lists for it
    cache,      \* per tile, the file of that name: none, laz, stub or junk
    spare,      \* tiles with a .part file
    errand,     \* what the command is doing
    missing,    \* tiles it goes for
    page,       \* the page it asks for next
    found,      \* tiles it has a download id for
    coming,     \* the tile on its way
    served,     \* files the centre has served this session
    hiccups     \* failures so far

downloadVars ==
    <<city, catalogue, cache, spare, errand, missing, page, found, coming, served, hiccups>>

-----------------------------------------------------------------------------
Floor(a) == a \div TileSide
Ceil(a)  == (a + TileSide - 1) \div TileSide

(* Half open: an edge on a tile's border does not pull in the next tile.   *)
ExpectedTouching(b) ==
    {<<e * TileSide, (n + 1) * TileSide>> :
        e \in Floor(b.west - Buffer)..Floor(b.east + Buffer),
        n \in Floor(b.south - Buffer)..Floor(b.north + Buffer)}

ExpectedTiles(b) ==
    {<<e * TileSide, (n + 1) * TileSide>> :
        e \in Floor(b.west - Buffer)..(Ceil(b.east + Buffer) - 1),
        n \in Floor(b.south - Buffer)..(Ceil(b.north + Buffer) - 1)}

(* Four bytes are all that is looked at.                                   *)
ValidLaz(file) == file \in {"laz", "stub"}

(* The tiles whose footprints meet the padded box: what laspy opens.       *)
Meets(t, b) ==
    /\ t[1] <= b.east + Buffer /\ t[1] + TileSide >= b.west - Buffer
    /\ t[2] - TileSide <= b.north + Buffer /\ t[2] >= b.south - Buffer

(* The unit cells of the padded box, and those a tile holds points of.     *)
Ground(b) ==
    ((b.west - Buffer)..(b.east + Buffer - 1)) \X ((b.south - Buffer)..(b.north + Buffer - 1))

Beneath(t) == (t[1]..(t[1] + TileSide - 1)) \X ((t[2] - TileSide)..(t[2] - 1))

Covers(tiles, b) == Ground(b) \subseteq UNION {Beneath(t) : t \in tiles}

-----------------------------------------------------------------------------
DownloadInit ==
    /\ city \in Boxes /\ catalogue \in Catalogues
    /\ cache \in [Shelf -> {"none", "laz", "junk"}]
    /\ spare \in {{}, Shelf}
    /\ errand = "idle" /\ missing = {} /\ page = 1 /\ found = {} /\ coming = NoTile
    /\ served = 0 /\ hiccups = 0

EndsErrand(outcome) ==
    /\ errand' = outcome /\ missing' = {} /\ page' = 1 /\ found' = {} /\ coming' = NoTile

(* files_covering: a file of a tile that is expected but does not begin as *)
(* a LAZ does is removed, so as to be fetched again.                       *)
Fetch ==
    /\ errand \in {"idle", "failed"}
    /\ LET expected == ExpectedTiles(city)
           valid    == {t \in expected : ValidLaz(cache[t])}
       IN /\ cache' = [t \in Shelf |-> IF t \in expected \ valid THEN "none" ELSE cache[t]]
          /\ missing' = expected \ valid
          /\ errand' = IF expected = valid THEN "selecting" ELSE "listing"
    /\ page' = 1 /\ found' = {} /\ coming' = NoTile /\ served' = 0
    /\ UNCHANGED <<city, catalogue, spare, hiccups>>

OnPage(p) == {i \in DOMAIN catalogue : (p - 1) * PageSize < i /\ i <= p * PageSize}

(* _catalog_lookup, and the check that ends it.                            *)
ReadPage ==
    /\ errand = "listing"
    /\ LET here == found \cup (missing \cap {catalogue[i] : i \in OnPage(page)})
           last == here = missing \/ page * PageSize >= Len(catalogue)
       IN IF ~last
            THEN /\ found' = here /\ page' = page + 1
                 /\ UNCHANGED <<errand, missing, coming>>
            ELSE IF here # missing
                   THEN EndsErrand("uncovered")
                   ELSE /\ found' = here /\ errand' = "downloading"
                        /\ UNCHANGED <<page, missing, coming>>
    /\ UNCHANGED <<city, catalogue, cache, spare, served, hiccups>>

Before(s, t) == s[1] < t[1] \/ (s[1] = t[1] /\ s[2] < t[2])

(* Writing under the final name from the first byte.                       *)
BeginInPlace ==
    /\ errand = "downloading" /\ coming = NoTile
    /\ IF found = {}
         THEN errand' = "selecting" /\ UNCHANGED <<cache, coming>>
         ELSE /\ coming' = CHOOSE t \in found : \A s \in found : s = t \/ Before(t, s)
              /\ cache' = [cache EXCEPT ![coming'] = "stub"]
              /\ UNCHANGED errand
    /\ UNCHANGED <<city, catalogue, spare, missing, page, found, served, hiccups>>

(* _download_one opens the .part file: the tiles go in order.              *)
Begin ==
    /\ errand = "downloading" /\ coming = NoTile
    /\ IF found = {}
         THEN errand' = "selecting" /\ UNCHANGED <<spare, coming>>
         ELSE /\ coming' = CHOOSE t \in found : \A s \in found : s = t \/ Before(t, s)
              /\ spare' = spare \cup {coming'}
              /\ UNCHANGED errand
    /\ UNCHANGED <<city, catalogue, cache, missing, page, found, served, hiccups>>

(* A refusal that clears up too well.                                      *)
ArrivedClearing ==
    /\ errand = "downloading" /\ coming # NoTile
    /\ spare' = spare \ {coming}
    /\ IF served < SessionLimit
         THEN /\ cache' = [cache EXCEPT ![coming] = "laz"]
              /\ found' = found \ {coming} /\ coming' = NoTile /\ served' = served + 1
              /\ UNCHANGED <<errand, missing, page>>
         ELSE EndsErrand("failed") /\ cache' = [t \in Shelf |-> "none"] /\ UNCHANGED served
    /\ UNCHANGED <<city, catalogue, hiccups>>

(* The whole answer is in the .part file: a LAZ, or a page that says the   *)
(* session has had its share.                                              *)
Arrived ==
    /\ errand = "downloading" /\ coming # NoTile
    /\ spare' = spare \ {coming}
    /\ IF served < SessionLimit
         THEN /\ cache' = [cache EXCEPT ![coming] = "laz"]
              /\ found' = found \ {coming} /\ coming' = NoTile /\ served' = served + 1
              /\ UNCHANGED <<errand, missing, page>>
         ELSE EndsErrand("failed") /\ UNCHANGED <<cache, served>>
    /\ UNCHANGED <<city, catalogue, hiccups>>

(* An HTTP error in a search or half way through a tile.                   *)
BreakOff ==
    /\ errand \in {"listing", "downloading"} /\ hiccups < Hiccups /\ hiccups' = hiccups + 1
    /\ spare' = spare \ {coming}
    /\ EndsErrand("failed")
    /\ UNCHANGED <<city, catalogue, cache, served>>

(* Killed: nothing is cleared up.                                          *)
KillFetch ==
    /\ errand \in {"listing", "downloading", "selecting"}
    /\ hiccups < Hiccups /\ hiccups' = hiccups + 1
    /\ EndsErrand("failed")
    /\ UNCHANGED <<city, catalogue, cache, spare, served>>

(* LocalDirectory.files_covering opens every file of the cache, whatever   *)
(* its name says, and trusts the headers.                                  *)
Select ==
    /\ errand = "selecting"
    /\ IF \E t \in Shelf : cache[t] = "junk"
         THEN EndsErrand("unreadable")
         ELSE EndsErrand(IF Covers({t \in Shelf : cache[t] # "none" /\ Meets(t, city)}, city)
                           THEN "selected" ELSE "uncovered")
    /\ UNCHANGED <<city, catalogue, cache, spare, served, hiccups>>

Progress == Fetch \/ ReadPage \/ Begin \/ Arrived \/ Select
DownloadNext == Progress \/ BreakOff \/ KillFetch

-----------------------------------------------------------------------------
(* cnig.py:20: every tile validated into the cache survives whatever ends  *)
(* the command.                                                            *)
ValidatedSurvives ==
    [][\A t \in Shelf : cache[t] = "laz" => cache'[t] = "laz"]_cache

(* A tile this program gives its name to is whole, though all it checks is *)
(* four bytes: half a tile never bears a name, whenever it is killed.      *)
NothingHalfNamed == \A t \in Shelf : cache[t] # "stub"

(* The tiles expected cover the padded area, none is fetched that holds    *)
(* nothing of it, and a cache that has them all is never found wanting.    *)
ExpectedIsJustEnough ==
    /\ Covers(ExpectedTiles(city), city)
    /\ \A t \in ExpectedTiles(city) : Beneath(t) \cap Ground(city) # {}

(* cnig.py:20: rerunning the same command picks up where it left off.      *)
(* However little the centre serves in a session, a command run again and  *)
(* again ends with all it asked for, if the centre lists it.               *)
Listed == {catalogue[i] : i \in DOMAIN catalogue}
RerunsGetThere ==
    (ExpectedTiles(city) \subseteq Listed /\ errand = "idle")
        ~> (errand \in {"selected", "unreadable"})

(* What is asked for covers the area, and what is named is whole.          *)
CacheIsSound == ExpectedIsJustEnough /\ NothingHalfNamed
=============================================================================
