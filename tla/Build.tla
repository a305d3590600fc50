-------------------------------- MODULE Build --------------------------------
(***************************************************************************)
(* The build of a city's artifacts on disk: what it asks of the network    *)
(* before the hours are spent, the files in the order they are written,    *)
(* each copied to its name and read back, metadata.json last, and the      *)
(* audit of the directory as a whole.  A build starts in the directory an  *)
(* earlier one left; it may be killed anywhere; a disk may lose pages.     *)
(*                                                                         *)
(* A city is a few plots; what the sweep and the surface give for each is  *)
(* in the scene of its plan.  A file has the build it is of, the plots of  *)
(* its grid, and a value for each.                                         *)
(***************************************************************************)
EXTENDS Integers, FiniteSets, Sequences, SequencesExt

CONSTANTS
    Plans,        \* what may be built: [grid, area, trees, scene]
    Builds,       \* bound: builds begun
    Crown,        \* height of the lowest crown
    Quantum,      \* slack between the two horizons
    MostZero,     \* share of zero angles with a blocker: <<part, of>>
    LeastReached, \* share of crowns that reach a tree: <<part, of>>
    NoFile        \* no file of that name

(* What a file of a raster has.                                            *)
Landcover == {"ground", "vegetation", "building"}
TreeZones == {"none", "dense", "near"}
Marks == Int \cup Landcover \cup TreeZones \cup BOOLEAN
Contents == [build : Nat, value : UNION {[pl.grid -> Marks] : pl \in Plans}]

(* What metadata.json has: the coverage and the crowns where they apply.   *)
Descriptions ==
    [build : Nat, grid : {pl.grid : pl \in Plans},
     covered : Nat \cup {NoFile}, reached : (Nat \X Nat) \cup {NoFile}]

ASSUME BuildAssumption ==
    /\ \A pl \in Plans :
         /\ IsFiniteSet(pl.grid) /\ pl.area \subseteq pl.grid
         /\ \A p \in pl.grid :
              /\ {pl.scene.angle[p], pl.scene.free[p]} \subseteq Nat
              /\ {pl.scene.dsm[p], pl.scene.dtm[p]} \subseteq Int
              /\ pl.scene.class[p] \in Landcover \cup {"none"}
              /\ pl.scene.label[p] \in Landcover /\ pl.scene.zone[p] \in TreeZones
    /\ MostZero \in Nat \X Nat
    /\ NoFile \notin Nat \cup Contents \cup Descriptions

VARIABLES
    plan,         \* what is being built
    begun,        \* builds begun so far
    doing,        \* idle, fetching, writing, checking, verifying, done, failed
    written,      \* files written so far
    folder,       \* per file, its content
    litter,       \* scratch left in the folder
    inventory,    \* the cached answer of the tree service: none, whole, torn
    rotten        \* a disk has lost part of a finished file

buildVars == <<plan, begun, doing, written, folder, litter, inventory, rotten>>

-----------------------------------------------------------------------------
Grid == plan.grid

IsCrown(dsm, dtm, label) == label = "vegetation" /\ dsm - dtm >= Crown

(* What a plan comes to, file by file.  Outside the area nothing is known. *)
Values(pl, file) ==
    LET s == pl.scene
        in(p) == p \in pl.area
    IN CASE file = "horizon"   -> [p \in pl.grid |-> IF in(p) THEN s.angle[p] ELSE 0]
         [] file = "blocker"   -> [p \in pl.grid |-> IF in(p) THEN s.class[p] ELSE "none"]
         [] file = "noveg"     -> [p \in pl.grid |-> IF in(p) THEN s.free[p] ELSE 0]
         [] file = "dsm"       -> [p \in pl.grid |-> s.dsm[p]]
         [] file = "dtm"       -> [p \in pl.grid |-> s.dtm[p]]
         [] file = "landcover" -> [p \in pl.grid |-> s.label[p]]
         [] file = "canopy"    -> [p \in pl.grid |-> IsCrown(s.dsm[p], s.dtm[p], s.label[p])]
         [] file = "trees"     -> [p \in pl.grid |-> s.zone[p]]
         [] file = "coverage"  -> [p \in pl.grid |-> in(p)]

Needed == <<"horizon", "blocker", "noveg", "dsm", "dtm", "landcover", "canopy">>
Files == ToSet(Needed) \cup {"trees", "coverage"}
RastersWithoutCoverage(pl) == Needed \o (IF pl.trees THEN <<"trees">> ELSE <<>>)
Rasters(pl) ==
    Needed \o (IF pl.trees THEN <<"trees">> ELSE <<>>)
           \o (IF pl.area # pl.grid THEN <<"coverage">> ELSE <<>>)

(* A page that was lost reads as zero.                                     *)
Zero == [horizon |-> 0, blocker |-> "ground", noveg |-> 0, dsm |-> 0, dtm |-> 0,
         landcover |-> "ground", canopy |-> FALSE, trees |-> "none", coverage |-> FALSE]

Lost(file, content, plots) ==
    [content EXCEPT !.value = [p \in DOMAIN @ |-> IF p \in plots THEN Zero[file] ELSE @[p]]]

Torn == [build |-> 0, value |-> <<>>]
HasFile(disk, file) == disk[file] # NoFile

-----------------------------------------------------------------------------
(* The crowns of a folder held against its own zones.                      *)
JudgedIn(disk) ==
    {p \in DOMAIN disk["canopy"].value : disk["canopy"].value[p] /\ disk["trees"].value[p] # "none"}
ReachedIn(disk) == {p \in JudgedIn(disk) : disk["trees"].value[p] = "near"}
CrownCounts(disk) == <<Cardinality(ReachedIn(disk)), Cardinality(JudgedIn(disk))>>

Layout(disk) ==
    \A file \in ToSet(Needed) \cup {"trees"} :
        HasFile(disk, file) => DOMAIN disk[file].value = disk["metadata"].grid

OfGrid(disk) == Cardinality(disk["metadata"].grid)
Computed(disk) ==
    IF disk["metadata"].covered = NoFile THEN Cardinality(disk["metadata"].grid)
    ELSE disk["metadata"].covered

HorizonBlocker(disk) ==
    LET angle == disk["horizon"].value
        class == disk["blocker"].value
        dead  == {p \in DOMAIN angle : angle[p] = 0 /\ class[p] # "none"}
    IN /\ \A p \in DOMAIN angle : angle[p] > 0 => class[p] # "none"
       /\ Cardinality(dead) * MostZero[2] <= MostZero[1] * Computed(disk)

HorizonNoveg(disk) ==
    LET full == disk["horizon"].value
        free == disk["noveg"].value
    IN \A p \in DOMAIN full :
         /\ free[p] <= full[p] + Quantum
         /\ disk["blocker"].value[p] = "building" => full[p] - free[p] <= Quantum

Coverage(disk) ==
    LET mask == disk["coverage"].value
        in   == {p \in DOMAIN mask : mask[p]}
    IN /\ DOMAIN mask = disk["metadata"].grid
       /\ in # {}
       /\ \A p \in DOMAIN mask \ in :
            /\ disk["horizon"].value[p] = 0 /\ disk["blocker"].value[p] = "none"
            /\ HasFile(disk, "noveg") => disk["noveg"].value[p] = 0
       /\ disk["metadata"].covered # NoFile => disk["metadata"].covered = Cardinality(in)

TreeCorroboration(disk) ==
    LET count == CrownCounts(disk)
    IN /\ count[2] > 0
       /\ count[1] * LeastReached[2] >= LeastReached[1] * count[2]
       /\ disk["metadata"].reached # NoFile => disk["metadata"].reached = count

Elevation(disk) == \A p \in disk["metadata"].grid : disk["dsm"].value[p] >= disk["dtm"].value[p]

(* verify_artifacts; a file that cannot be opened ends it with an error.   *)
Passes(disk) ==
    /\ HasFile(disk, "metadata") /\ disk["metadata"] # Torn
    /\ \A file \in ToSet(Needed) \ {"noveg"} : HasFile(disk, file)
    /\ \A file \in Files : disk[file] # Torn
    /\ Layout(disk)
    /\ HorizonBlocker(disk)
    /\ HasFile(disk, "noveg") => HorizonNoveg(disk)
    /\ HasFile(disk, "coverage") => Coverage(disk)
    /\ HasFile(disk, "trees") => TreeCorroboration(disk)
    /\ Elevation(disk)

-----------------------------------------------------------------------------
BuildInit ==
    /\ plan \in Plans /\ begun = 0 /\ doing = "idle" /\ written = 0
    /\ folder = [file \in Files \cup {"metadata"} |-> NoFile]
    /\ litter = FALSE /\ inventory = "none" /\ rotten = FALSE

(* An area that covers nothing fails here, before any hour is spent.       *)
BeginBuild ==
    /\ doing \in {"idle", "failed", "done"} /\ begun < Builds /\ ~rotten
    /\ begun' = begun + 1 /\ written' = 0
    /\ plan' \in Plans
    /\ doing' = IF plan'.area = {} THEN "failed" ELSE "fetching"
    /\ UNCHANGED <<folder, litter, inventory, rotten>>

(* Taking whatever the cache has.                                          *)
FetchWhatThereIs ==
    /\ doing = "fetching"
    /\ \E reached \in BOOLEAN :
         LET trees == IF plan.trees /\ inventory = "none" /\ reached THEN "whole" ELSE inventory
         IN /\ inventory' = trees
            /\ doing' = IF reached /\ (plan.trees => trees # "none") THEN "writing" ELSE "failed"
            /\ litter' = (litter \/ doing' = "writing")
    /\ UNCHANGED <<plan, begun, written, folder, rotten>>

(* The points, the outlines and the trees: any of them may be out of       *)
(* reach.  The trees are asked for once and then read from the cache.      *)
FetchInputs ==
    /\ doing = "fetching"
    /\ \E reached \in BOOLEAN :
         LET trees == IF plan.trees /\ inventory = "none" /\ reached THEN "whole" ELSE inventory
         IN /\ inventory' = trees
            /\ doing' = IF reached /\ (plan.trees => trees = "whole") THEN "writing" ELSE "failed"
            /\ litter' = (litter \/ doing' = "writing")
    /\ UNCHANGED <<plan, begun, written, folder, rotten>>

NextFile == Rasters(plan)[written + 1]

(* write_cog copies a scratch file over the final name.  The disk may drop *)
(* pages of it and say nothing.                                            *)
CopyRaster ==
    /\ doing = "writing" /\ written < Len(Rasters(plan))
    /\ doing' = "checking"
    /\ LET whole == [build |-> begun, value |-> Values(plan, NextFile)]
       IN \E plots \in {{}, Grid} :
            folder' = [folder EXCEPT ![NextFile] = Lost(NextFile, whole, plots)]
    /\ UNCHANGED <<plan, begun, written, litter, inventory, rotten>>

(* The scratch of the sweep goes once the three cubes are written.         *)
TakeForGranted ==
    /\ doing = "checking"
    /\ doing' = "writing" /\ written' = written + 1
    /\ litter' = (litter /\ NextFile # "noveg")
    /\ UNCHANGED <<plan, begun, folder, inventory, rotten>>

(* The file is read back and has to be what was computed.                  *)
ReadBack ==
    /\ doing = "checking"
    /\ IF folder[NextFile].value = Values(plan, NextFile)
         THEN doing' = "writing" /\ written' = written + 1
         ELSE doing' = "failed" /\ UNCHANGED written
    /\ litter' = (litter /\ doing' = "writing" /\ NextFile # "noveg")
    /\ UNCHANGED <<plan, begun, folder, inventory, rotten>>

MetadataOf(disk) ==
    [build |-> begun, grid |-> Grid,
     covered |-> IF plan.area # Grid THEN Cardinality(plan.area) ELSE NoFile,
     reached |-> IF plan.trees THEN CrownCounts(disk) ELSE NoFile]

WriteMetadataFirst ==
    /\ doing = "writing" /\ written \in {0, Len(Rasters(plan))}
    /\ doing' = IF written = 0 THEN "writing" ELSE "verifying"
    /\ folder' = [folder EXCEPT !["metadata"] =
                    [build |-> begun, grid |-> Grid, covered |-> NoFile, reached |-> NoFile]]
    /\ UNCHANGED <<plan, begun, written, litter, inventory, rotten>>

WriteMetadata ==
    /\ doing = "writing" /\ written = Len(Rasters(plan))
    /\ doing' = "verifying"
    /\ folder' = [folder EXCEPT !["metadata"] = MetadataOf(folder)]
    /\ UNCHANGED <<plan, begun, written, litter, inventory, rotten>>

Verify ==
    /\ doing = "verifying"
    /\ doing' = IF Passes(folder) THEN "done" ELSE "failed"
    /\ UNCHANGED <<plan, begun, written, folder, litter, inventory, rotten>>

(* Killed while the trees are being saved, a file copied, the metadata     *)
(* written, or in between.                                                 *)
KillBuild ==
    /\ doing \in {"fetching", "writing", "checking", "verifying"}
    /\ doing' = "failed"
    /\ folder' \in {folder} \cup
         (IF doing = "checking" THEN {[folder EXCEPT ![NextFile] = Torn]} ELSE {}) \cup
         (IF doing = "writing" /\ written = Len(Rasters(plan))
            THEN {[folder EXCEPT !["metadata"] = Torn]} ELSE {})
    /\ inventory' \in {inventory} \cup
         (IF doing = "fetching" /\ plan.trees /\ inventory = "none" THEN {"torn"} ELSE {})
    /\ UNCHANGED <<plan, begun, written, litter, rotten>>

(* derive_canopy: the mask once more, from the rasters of the folder.      *)
DeriveCanopy ==
    /\ doing \in {"done", "failed"} /\ ~rotten
    /\ \A file \in {"dsm", "dtm", "landcover"} : HasFile(folder, file) /\ folder[file] # Torn
    /\ DOMAIN folder["dtm"].value = DOMAIN folder["dsm"].value
    /\ DOMAIN folder["landcover"].value = DOMAIN folder["dsm"].value
    /\ folder' = [folder EXCEPT !["canopy"] =
            [build |-> folder["dsm"].build,
             value |-> [p \in DOMAIN folder["dsm"].value |->
                          IsCrown(folder["dsm"].value[p], folder["dtm"].value[p],
                                  folder["landcover"].value[p])]]]
    /\ UNCHANGED <<plan, begun, doing, written, litter, inventory, rotten>>

(* What the audit of an old folder is for: a cube that loses its angles.   *)
Rot ==
    /\ doing = "done" /\ ~rotten /\ rotten' = TRUE
    /\ \E plots \in SUBSET Grid :
         folder' = [folder EXCEPT !["horizon"] = Lost("horizon", @, plots)]
    /\ UNCHANGED <<plan, begun, doing, written, litter, inventory>>

BuildNext ==
    \/ BeginBuild \/ FetchInputs \/ CopyRaster \/ ReadBack \/ WriteMetadata \/ Verify
    \/ KillBuild \/ DeriveCanopy \/ Rot

BuildSpec == BuildInit /\ [][BuildNext]_buildVars

-----------------------------------------------------------------------------
(* cog.py:86: what was computed is what ships.  A build that ends holds    *)
(* every raster of its plan as it was computed, whatever pages the disk    *)
(* dropped and whatever builds were killed in the same folder before it.   *)
ComputedIsShipped ==
    doing = "done" /\ ~rotten =>
        \A i \in DOMAIN Rasters(plan) :
            folder[Rasters(plan)[i]].value = Values(plan, Rasters(plan)[i])

(* build.py:350: zeros in the horizon are indistinguishable from an open   *)
(* sky.  Nothing a finished folder answers for lies outside the area it    *)
(* was built for.                                                          *)
Answered(disk) ==
    IF HasFile(disk, "coverage") THEN {p \in DOMAIN disk["coverage"].value : disk["coverage"].value[p]}
    ELSE disk["metadata"].grid
OpenSkyIsComputed == doing = "done" => Answered(folder) \subseteq plan.area

(* build.py:426: the metadata comes last.  A folder whose metadata is of   *)
(* the latest build, and whole, holds every raster of it, wherever it was  *)
(* killed.                                                                 *)
MetadataComesLast ==
    (HasFile(folder, "metadata") /\ folder["metadata"] # Torn /\ folder["metadata"].build = begun) =>
        \A i \in DOMAIN Rasters(plan) :
            HasFile(folder, Rasters(plan)[i]) /\ folder[Rasters(plan)[i]].build = begun

(* verify.py:226: a horizon that lost its angles over more than the share  *)
(* tolerated of what was computed does not pass, however small the area is *)
(* in its box.                                                             *)
LostAnglesAreFound ==
    (doing = "done" /\ rotten) =>
        LET gone == {p \in plan.area : plan.scene.angle[p] > 0 /\ folder["horizon"].value[p] = 0}
        IN Cardinality(gone) * MostZero[2] > MostZero[1] * Cardinality(plan.area)
             => ~Passes(folder)

(* The inventory a build judges its crowns by is never half of what the    *)
(* city publishes: a torn answer stops the build.                          *)
TornInventoryStops == doing \in {"writing", "checking", "verifying"} /\ plan.trees => inventory = "whole"

(* A folder is true: what it answers was computed, what it lost shows, and *)
(* it is called whole only when it is, from inputs that were.              *)
FolderIsTrue ==
    /\ ComputedIsShipped /\ OpenSkyIsComputed /\ LostAnglesAreFound
    /\ MetadataComesLast /\ TornInventoryStops
=============================================================================
