----------------------------- MODULE TileRender -----------------------------
(***************************************************************************)
(* One city's artifact directory and the commands that fill it: the build  *)
(* that writes the rasters and, last, metadata.json; the render that turns *)
(* them into tile archives, unit by unit, on a pool of workers; the        *)
(* basemap cut that may run beside it; and the purge.                      *)
(*                                                                         *)
(* render.json says what the archives are being rendered from and is       *)
(* written before them; the manifest says what there is and is written     *)
(* after.  A render may be refused, fail, or be killed at any moment, and  *)
(* the next may resume it.                                                 *)
(***************************************************************************)
EXTENDS Integers, Sequences, FiniteSets, Functions

CONSTANTS
    Units,      \* the instants a render may be asked for
    Pool,       \* --workers
    Zooms,      \* the zoom ranges a render may be asked for
    NoZoom,     \* none
    MaxBuild,   \* bound: builds
    MaxUpsets   \* bound: refusals, failures and kills together

ASSUME RenderAssumption ==
    /\ IsFiniteSet(Units) /\ Units # {}
    /\ Pool \in Nat \ {0}
    /\ Zooms # {} /\ NoZoom \notin Zooms
    /\ MaxBuild \in Nat /\ MaxUpsets \in Nat

VARIABLES
    rasters,   \* the build the rasters are of, 0: none
    built,     \* the build metadata.json names, 0: absent
    archives,  \* per unit and kind, what the file there was rendered from
    recorded,  \* render.json
    manifest,  \* index.json
    basemap,   \* basemap.pmtiles is there
    cadastre,  \* cadastre.geojson is there
    cutting,   \* how far a cut that has its basemap in place is
    held,      \* the manifest it has read
    pc,        \* where the build or render that is running is
    job,       \* what the render was asked, with the build it read
    pending,   \* its units not yet given to a worker
    flight,    \* per unit, how many archives its worker has left to rename
    builds, upsets,
    past       \* history of the directory since it was last empty, see below

tiles == <<archives, recorded, manifest, basemap, cadastre>>
process == <<pc, job, pending, flight>>
cut == <<cutting, held>>
counts == <<builds, upsets>>
vars == <<rasters, built, tiles, cut, process, counts, past>>

-----------------------------------------------------------------------------
(* The archives of an instant, in the order they are renamed in.           *)
Kinds == <<"building", "trees">>
Files == Units \X Range(Kinds)

Source(build, zoom) == [build |-> build, zoom |-> zoom]
Unrendered == Source(0, NoZoom)

Document(state, source) == [state |-> state, source |-> source]
NoDocument == Document("absent", Unrendered)
TornDocument == Document("torn", Unrendered)
NoManifest == [ state |-> "absent", zoom |-> NoZoom, units |-> {},
                basemap |-> FALSE, cadastre |-> FALSE ]
TornManifest == [NoManifest EXCEPT !.state = "torn"]

(* What renders have begun from, whether the one that is running has       *)
(* reused none of what it found, and whether the manifest is that of the   *)
(* last to begin, and that one reused nothing.                             *)
NoPast == [begun |-> {}, alone |-> FALSE, fresh |-> FALSE]

Quiet == pc = "off"
Upset == upsets < MaxUpsets /\ upsets' = upsets + 1
InFlight == {u \in Units : flight[u] # 0}

NoJob == [built |-> 0, zoom |-> NoZoom, units |-> {}]

Init ==
    /\ rasters = 0 /\ built = 0
    /\ archives = [f \in Files |-> Unrendered]
    /\ recorded = NoDocument /\ manifest = NoManifest
    /\ basemap = FALSE /\ cadastre = FALSE /\ cutting = "no" /\ held = NoManifest
    /\ pc = "off" /\ job = NoJob /\ pending = {}
    /\ flight = [u \in Units |-> 0]
    /\ builds = 0 /\ upsets = 0 /\ past = NoPast

-----------------------------------------------------------------------------
(* build_city writes each raster straight onto its name, then metadata.    *)
WriteRasters ==
    /\ Quiet /\ builds < MaxBuild
    /\ builds' = builds + 1
    /\ rasters' = builds + 1
    /\ pc' = "build"
    /\ UNCHANGED <<built, tiles, cut, job, pending, flight, upsets, past>>

WriteMetadata ==
    /\ pc = "build"
    /\ built' = rasters
    /\ pc' = "off"
    /\ UNCHANGED <<rasters, tiles, cut, job, pending, flight, counts, past>>

(* The purge takes the whole directory, tiles and basemap with it; one     *)
(* that leaves no build to be made afterwards is not of interest.          *)
Purge ==
    /\ Quiet /\ cutting = "no" /\ builds < MaxBuild
    /\ rasters' = 0 /\ built' = 0
    /\ archives' = [f \in Files |-> Unrendered]
    /\ recorded' = NoDocument /\ manifest' = NoManifest
    /\ basemap' = FALSE /\ cadastre' = FALSE
    /\ past' = NoPast
    /\ UNCHANGED <<cut, process, counts>>

-----------------------------------------------------------------------------
(* A unit that counts as rendered with any of its archives.                *)
IsRenderedPartly(u) == \E k \in Range(Kinds) : archives[<<u, k>>] # Unrendered

(* RenderJob.is_rendered, and what build_tiles makes of it.                *)
IsRendered(u) == \A k \in Range(Kinds) : archives[<<u, k>>] # Unrendered

Reused(zoom) ==
    IF recorded = Document("whole", Source(built, zoom))
    THEN {u \in Units : IsRendered(u)} ELSE {}

StartRender(zoom, resume, units) ==
    /\ Quiet /\ built # 0
    /\ job' = [built |-> built, zoom |-> zoom, units |-> units]
    /\ pending' = IF resume THEN units \ Reused(zoom) ELSE units
    /\ pc' = "record"
    /\ past' = [begun |-> past.begun \cup {Source(built, zoom)},
                alone |-> pending' = units, fresh |-> FALSE]
    /\ UNCHANGED <<rasters, built, tiles, cut, flight, counts>>

(* Written now rather than on success, so that an interrupted render       *)
(* leaves behind what it was rendering.                                    *)
Record ==
    /\ pc = "record"
    /\ recorded' = Document("whole", Source(job.built, job.zoom))
    /\ pc' = "render"
    /\ UNCHANGED <<rasters, built, archives, manifest, basemap, cadastre, cut,
                   job, pending, flight, counts, past>>

(* check_worker_budget, once render.json is there.                         *)
OverBudget ==
    /\ pc = "render" /\ InFlight = {} /\ Upset
    /\ pc' = "off" /\ pending' = {}
    /\ UNCHANGED <<rasters, built, tiles, cut, job, flight, builds, past>>

(* The executor hands a unit to a worker that is free.                     *)
Submit(u) ==
    /\ pc = "render"
    /\ u \in pending
    /\ Cardinality(InFlight) < Pool
    /\ pending' = pending \ {u}
    /\ flight' = [flight EXCEPT ![u] = Len(Kinds)]
    /\ UNCHANGED <<rasters, built, tiles, cut, pc, job, counts, past>>

(* write_pyramids: all of a unit's archives are complete under partial     *)
(* names, and renamed one after the other.                                 *)
Replace(u) ==
    /\ flight[u] # 0
    /\ LET file == <<u, Kinds[Len(Kinds) + 1 - flight[u]]>> IN
         archives' = [archives EXCEPT ![file] = Source(rasters, job.zoom)]
    /\ flight' = [flight EXCEPT ![u] = @ - 1]
    /\ UNCHANGED <<rasters, built, recorded, manifest, basemap, cadastre, cut,
                   pc, job, pending, counts, past>>

(* A unit raises, or its worker is killed and the pool with it: what was   *)
(* not submitted is cancelled, what still runs is waited for.              *)
Fail(lost) ==
    /\ pc = "render" /\ InFlight # {} /\ Upset
    /\ lost \in SUBSET InFlight \ {{}}
    /\ pc' = "drain" /\ pending' = {}
    /\ flight' = [u \in Units |-> IF u \in lost THEN 0 ELSE flight[u]]
    /\ UNCHANGED <<rasters, built, tiles, cut, job, builds, past>>

Drained ==
    /\ pc = "drain" /\ InFlight = {}
    /\ pc' = "off"
    /\ UNCHANGED <<rasters, built, tiles, cut, job, pending, flight, counts, past>>

(* write_vector_layers: a layer that is not written has its file removed.  *)
WriteVectors(found) ==
    /\ pc = "render" /\ pending = {} /\ InFlight = {}
    /\ cadastre' = found
    /\ pc' = "declare"
    /\ UNCHANGED <<rasters, built, archives, recorded, manifest, basemap, cut,
                   job, pending, flight, counts, past>>

(* The manifest promises what the directory holds as it is written.        *)
WriteManifest ==
    /\ pc = "declare"
    /\ manifest' = [ state |-> "whole", zoom |-> job.zoom, units |-> job.units,
                     basemap |-> basemap, cadastre |-> cadastre ]
    /\ pc' = "off"
    /\ past' = [past EXCEPT !.fresh = past.alone]
    /\ UNCHANGED <<rasters, built, archives, recorded, basemap, cadastre, cut,
                   job, pending, flight, counts>>

(* Killed: its workers go with it, and a file being written stays torn.    *)
Die ==
    /\ ~Quiet /\ Upset
    /\ pc' = "off" /\ pending' = {}
    /\ flight' = [u \in Units |-> 0]
    /\ recorded' \in IF pc = "record" THEN {recorded, TornDocument} ELSE {recorded}
    /\ manifest' \in IF pc = "declare" THEN {manifest, TornManifest}
                     ELSE {manifest}
    /\ UNCHANGED <<rasters, built, archives, basemap, cadastre, cut, job, builds, past>>

-----------------------------------------------------------------------------
(* build_basemap renames the file in; declare_in_manifest, which reads and *)
(* writes the manifest if there is one that does not say so yet, is later. *)
CutBasemap ==
    /\ cutting = "no"
    /\ basemap' = TRUE /\ cutting' = "cut"
    /\ UNCHANGED <<rasters, built, archives, recorded, manifest, cadastre, held,
                   process, counts, past>>

ReadManifest ==
    /\ cutting = "cut"
    /\ IF manifest.state = "whole" /\ ~manifest.basemap
       THEN cutting' = "read" /\ held' = manifest
       ELSE cutting' = "no" /\ held' = held
    /\ UNCHANGED <<rasters, built, tiles, process, counts, past>>

DeclareBasemap ==
    /\ cutting = "read"
    /\ cutting' = "no" /\ held' = NoManifest
    /\ manifest' = [held EXCEPT !.basemap = TRUE]
    /\ past' = [past EXCEPT !.fresh = @ /\ held = manifest]
    /\ UNCHANGED <<rasters, built, archives, recorded, basemap, cadastre, process,
                   counts>>

CutDies ==
    /\ cutting # "no" /\ Upset
    /\ cutting' = "no" /\ held' = NoManifest
    /\ manifest' \in IF cutting = "read" THEN {manifest, TornManifest} ELSE {manifest}
    /\ UNCHANGED <<rasters, built, archives, recorded, basemap, cadastre, process,
                   builds, past>>

-----------------------------------------------------------------------------
Advance ==
    \/ WriteMetadata \/ Record
    \/ \E u \in Units : Submit(u) \/ Replace(u)
    \/ Drained
    \/ \E found \in BOOLEAN : WriteVectors(found)
    \/ WriteManifest

Mishap == OverBudget \/ (\E lost \in SUBSET Units : Fail(lost)) \/ Die \/ CutDies

Next ==
    \/ WriteRasters \/ Purge
    \/ \E zoom \in Zooms, resume \in BOOLEAN, units \in SUBSET Units \ {{}} :
         StartRender(zoom, resume, units)
    \/ CutBasemap \/ ReadManifest \/ DeclareBasemap
    \/ Advance
    \/ Mishap

Spec == Init /\ [][Next]_vars

(* check_ready, as far as the tiles go: there is a manifest and a basemap, *)
(* and render.json, if it can be read, is of this build and these zooms.   *)
PublishableAnyway ==
    built # 0 /\ manifest.state = "whole" /\ basemap
Publishable ==
    /\ built # 0 /\ manifest.state = "whole" /\ basemap
    /\ recorded.state = "whole" => recorded.source = Source(built, manifest.zoom)

-----------------------------------------------------------------------------
RenderedFrom(units, source) ==
    \A u \in units, k \in Range(Kinds) : archives[<<u, k>>] = source

(* The manifest promises nothing the directory does not hold: every        *)
(* archive it lists is there, complete, and so is a basemap it declares,   *)
(* whatever was refused, failed or was killed on the way.                  *)
PromisesKept ==
    manifest.state = "whole" =>
      /\ \A u \in manifest.units, k \in Range(Kinds) : archives[<<u, k>>] # Unrendered
      /\ manifest.basemap => basemap

(* check_ready refuses "a tile pyramid rendered from the previous build".  *)
(* A city is built over its old tiles, renders stop anywhere and are       *)
(* resumed: of whole artifacts, tiles that check_ready lets out were all   *)
(* rendered from the rasters that would go out with them, between the      *)
(* zooms the manifest says -- if the manifest is that of the last render   *)
(* to begin and it reused nothing, or if every render since the directory  *)
(* was last empty began from what goes out.  Between the two, a render     *)
(* that stopped may have put its name on the tiles of an earlier build.    *)
PublishableIsTrue ==
    (/\ Publishable /\ rasters = built
     /\ past.fresh \/ past.begun \subseteq {Source(built, manifest.zoom)})
        => RenderedFrom(manifest.units, Source(built, manifest.zoom))

(* What a render declares finished was rendered from the build it read     *)
(* when it started, where that is a whole one, and between its zooms: by   *)
(* itself or by the renders it resumes.  build_tiles "already refuses to   *)
(* reuse a pyramid whose artifact_built_at has moved".                     *)
FinishedIsTrue ==
    [][ (WriteManifest /\ rasters = job.built)
          => RenderedFrom(job.units, Source(job.built, job.zoom)) ]_vars
=============================================================================
