--------------------------- MODULE PublishViewer ----------------------------
(***************************************************************************)
(* Somebody looking at the map while the city is published.                *)
(*                                                                         *)
(* The proxy serves the tiles from disk.  A manifest names each archive by *)
(* a URL that carries the version of the render, and what that URL         *)
(* answered the first time is kept for a year.                             *)
(***************************************************************************)
EXTENDS Publish

VARIABLES
    manifest,  \* the manifest the viewer's page works from, 0: none yet
    cache      \* what it keeps of the archive of each version, 0: nothing

viewerVars == <<manifest, cache>>

ViewerInit == Init /\ manifest = 0 /\ cache = [v \in 1..MaxRender |-> 0]

(* @manifest: a JSON is fetched again after five minutes at the latest.    *)
OpenMap ==
    /\ v1.index \notin {0, manifest}
    /\ manifest' = v1.index
    /\ UNCHANGED <<cache, vars>>

(* @pmtiles: immutable, so a version once answered is never asked again.   *)
FetchTiles ==
    /\ manifest # 0 /\ v1.shade # 0
    /\ cache[manifest] = 0
    /\ cache' = [cache EXCEPT ![manifest] = v1.shade]
    /\ UNCHANGED <<manifest, vars>>

ViewerNext == (Next /\ UNCHANGED viewerVars) \/ OpenMap \/ FetchTiles

ViewerSpec == ViewerInit /\ [][ViewerNext]_<<vars, viewerVars>>

-----------------------------------------------------------------------------
(* Nobody who fetches from a city at rest after a successful publish keeps *)
(* anything but what its manifest describes, or something newer.           *)
AtRestNeverStale ==
    [][ Idle /\ last = "published" /\ cache' # cache =>
          cache'[manifest] >= manifest ]_<<vars, viewerVars>>
=============================================================================
