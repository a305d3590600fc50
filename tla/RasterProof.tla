----------------------------- MODULE RasterProof -----------------------------
(***************************************************************************)
(* From points to tiles.                                                   *)
(*                                                                         *)
(* For any units, pool and zooms, and whatever is refused, fails or is     *)
(* killed: the manifest promises only what is there; a render that reuses  *)
(* nothing finishes true; and what check_ready lets out of a city that is  *)
(* built over and over in place is of one build, when the last render drew *)
(* all of it or every render since the last purge began from that build.   *)
(*                                                                         *)
(* For any grid, points, footprints and thresholds: what the points say is *)
(* kept, and the canopy is of crowns. A region is the least closed set its *)
(* cell is in, so that whole regions can be taken out of a set and leave   *)
(* the others as they were (RegionsLeft); after each file the raster is of *)
(* the points binned so far (Counted), and the surface stays between the   *)
(* terrain and what was read (Raised).                                     *)
(***************************************************************************)
EXTENDS TileRender, Surface, Numbers, SequenceTheorems

Sources == [build : Nat, zoom : Zooms \cup {NoZoom}]
States == {"absent", "torn", "whole"}
Manifests == [state : States, zoom : Zooms \cup {NoZoom}, units : SUBSET Units,
              basemap : BOOLEAN, cadastre : BOOLEAN]

Typed ==
    /\ rasters \in Nat /\ built \in Nat
    /\ archives \in [Files -> Sources]
    /\ recorded \in [state : States, source : Sources]
    /\ manifest \in Manifests /\ held \in Manifests
    /\ basemap \in BOOLEAN /\ cadastre \in BOOLEAN
    /\ cutting \in {"no", "cut", "read"}
    /\ pc \in {"off", "build", "record", "render", "drain", "declare"}
    /\ job \in [built : Nat, zoom : Zooms \cup {NoZoom}, units : SUBSET Units]
    /\ pending \in SUBSET Units
    /\ flight \in [Units -> 0..2]
    /\ builds \in Nat /\ upsets \in Nat
    /\ past \in [begun : SUBSET Sources, alone : BOOLEAN, fresh : BOOLEAN]

(* A render holds its zooms from beginning to end, and units are in flight *)
(* only while it renders, or waits for those that were left.               *)
Working ==
    /\ pc \notin {"off", "build"} => job.zoom \in Zooms
    /\ pc \notin {"render", "drain"} => \A u \in Units : flight[u] = 0
    /\ pc = "declare" => pending = {}
    /\ cutting # "no" => basemap
    /\ cutting = "read" => held.state = "whole"

(* A unit's archives are those of S, as far as its worker has come.        *)
Holds(u, S) ==
    /\ flight[u] # 2 => archives[<<u, "building">>] \in S
    /\ flight[u] = 0 => archives[<<u, "trees">>] \in S

Rendering == pc \in {"record", "render", "declare"}
Real == Sources \ {Unrendered}

Honest(m) ==
    m.state = "whole" =>
      /\ \A u \in m.units, k \in Range(Kinds) : archives[<<u, k>>] # Unrendered
      /\ m.basemap => basemap

(* What has been declared, is about to be, or is to be declared again by a *)
(* cut that has read it.                                                   *)
Promises ==
    /\ Honest(manifest)
    /\ cutting = "read" => Honest(held)
    /\ Rendering => \A u \in job.units \ pending : Holds(u, Real)

(* What a render was asked for, and one that does not reuse anything.      *)
AskedFor == Source(job.built, job.zoom)
StartsAfresh == pc # "record" /\ pc' = "record" => pending' = job'.units

Afresh ==
    Rendering /\ past.alone /\ rasters = job.built =>
        \A u \in job.units \ pending : Holds(u, {AskedFor})

(* Builds are numbered as they begin, and a render reads a whole one.      *)
Numbered ==
    /\ built <= rasters /\ rasters <= builds
    /\ pc \notin {"off", "build"} => job.built <= rasters /\ AskedFor \in past.begun

(* An archive was drawn by a render that began since the last purge, from  *)
(* the build that one read or from a later one begun over it.              *)
DrawnSince ==
    \A f \in Files : archives[f] # Unrendered =>
        \E s \in past.begun : /\ archives[f].zoom = s.zoom /\ s.build <= archives[f].build
                              /\ archives[f].build <= rasters

(* After a render that reused nothing, the manifest is its own, and all it *)
(* lists is of the build it read, unless that has been written over.       *)
Fresh ==
    past.fresh =>
        /\ pc \in {"off", "build"} /\ job.built <= rasters
        /\ recorded = Document("whole", AskedFor)
        /\ manifest.state = "whole" => manifest.zoom = job.zoom /\ manifest.units \subseteq job.units
        /\ rasters = job.built => RenderedFrom(job.units, AskedFor)

(* While it is rendered, the record is that of the render.                 *)
OnRecord == pc \in {"render", "drain", "declare"} => recorded = Document("whole", AskedFor)

-----------------------------------------------------------------------------
(* The archives of an instant.                                             *)
LEMMA TheKinds ==
  /\ Len(Kinds) = 2 /\ Kinds[1] = "building" /\ Kinds[2] = "trees"
  /\ Range(Kinds) = {"building", "trees"}
  /\ Files = Units \X {"building", "trees"}
<1>1. Len(Kinds) = 2 /\ Kinds[1] = "building" /\ Kinds[2] = "trees"
  BY DEF Kinds
<1>2. Range(Kinds) = {"building", "trees"}
  BY DEF Range, Kinds
<1> QED
  BY <1>1, <1>2 DEF Files

(* What is on disk when there is nothing, or a torn file.                  *)
LEMMA TheDocuments ==
  /\ Unrendered \in Sources
  /\ NoDocument \in [state : States, source : Sources] /\ NoDocument.state = "absent"
  /\ TornDocument \in [state : States, source : Sources] /\ TornDocument.state = "torn"
  /\ NoManifest \in Manifests /\ NoManifest.state = "absent" /\ ~NoManifest.basemap
  /\ TornManifest \in Manifests /\ TornManifest.state = "torn"
  BY DEF Unrendered, Source, Sources, NoDocument, TornDocument, Document, States,
         NoManifest, TornManifest, Manifests

(* What the workers render from.                                           *)
DrawnFrom == Source(rasters, job.zoom)

(* A worker renames a unit's first archive in, and then its second.        *)
LEMMA ReplacedInOrder ==
  ASSUME Typed, NEW u \in Units, Replace(u)
  PROVE  \/ /\ flight[u] = 2 /\ flight' = [flight EXCEPT ![u] = 1]
            /\ archives' = [archives EXCEPT ![<<u, "building">>] = DrawnFrom]
         \/ /\ flight[u] = 1 /\ flight' = [flight EXCEPT ![u] = 0]
            /\ archives' = [archives EXCEPT ![<<u, "trees">>] = DrawnFrom]
<1>1. flight[u] \in 1..2 /\ flight' = [flight EXCEPT ![u] = @ - 1]
  BY DEF Replace, Typed
<1>2. archives' = [archives EXCEPT ![<<u, Kinds[Len(Kinds) + 1 - flight[u]]>>] =
                      DrawnFrom]
  BY DEF Replace, DrawnFrom
<1>3. CASE flight[u] = 2
  <2>1. Len(Kinds) + 1 - flight[u] = 1
    BY <1>3, TheKinds
  <2>2. archives' = [archives EXCEPT ![<<u, Kinds[1]>>] = DrawnFrom]
    BY <1>2, <2>1
  <2>3. flight' = [flight EXCEPT ![u] = 1]
    BY <1>1, <1>3
  <2> QED
    BY <1>3, <2>2, <2>3, TheKinds
<1>4. CASE flight[u] = 1
  <2>1. Len(Kinds) + 1 - flight[u] = 2
    BY <1>4, TheKinds
  <2>2. archives' = [archives EXCEPT ![<<u, Kinds[2]>>] = DrawnFrom]
    BY <1>2, <2>1
  <2>3. flight' = [flight EXCEPT ![u] = 0]
    BY <1>1, <1>4
  <2> QED
    BY <1>4, <2>2, <2>3, TheKinds
<1> QED
  BY <1>1, <1>3, <1>4

(* Renaming one more archive in undoes nothing.                            *)
LEMMA ReplacedHolds ==
  ASSUME Typed, NEW u \in Units, Replace(u), NEW S, DrawnFrom \in S, S' = S
  PROVE  \A v \in Units : Holds(v, S) => Holds(v, S)'
<1> SUFFICES ASSUME NEW v \in Units, Holds(v, S)
             PROVE  Holds(v, S)'
  OBVIOUS
<1>1. /\ <<v, "building">> \in Files /\ <<v, "trees">> \in Files
      /\ archives \in [Files -> Sources] /\ flight \in [Units -> 0..2]
  BY TheKinds DEF Typed
<1>2. CASE v = u
  BY <1>1, <1>2, ReplacedInOrder DEF Holds
<1>3. CASE v # u
  BY <1>1, <1>3, ReplacedInOrder DEF Holds
<1> QED
  BY <1>2, <1>3

(* Every variable holds what it may.                                       *)
LEMMA StepTyped ==
  ASSUME Typed, [Next]_vars
  PROVE  Typed'
<1> USE RenderAssumption
    DEF Typed, tiles, cut, process, counts, Sources, States, Manifests, NoPast
<1>1. CASE WriteRasters \/ WriteMetadata
  BY <1>1 DEF WriteRasters, WriteMetadata
<1>2. CASE Purge
  <2>1. archives' \in [Files -> Sources]
    BY <1>2, TheDocuments DEF Purge
  <2> QED
    BY <1>2, <2>1, TheDocuments DEF Purge
<1>3. ASSUME NEW zoom \in Zooms, NEW resume \in BOOLEAN, NEW units \in SUBSET Units,
             StartRender(zoom, resume, units)
      PROVE  Typed'
  <2>1. Source(built, zoom) \in Sources
    BY DEF Source
  <2>2. past' \in [begun : SUBSET Sources, alone : BOOLEAN, fresh : BOOLEAN]
    <3> HIDE DEF Sources
    <3>1. past.begun \cup {Source(built, zoom)} \in SUBSET Sources
      BY <2>1
    <3>2. past' = [begun |-> past.begun \cup {Source(built, zoom)},
                   alone |-> pending' = units, fresh |-> FALSE]
      BY <1>3 DEF StartRender
    <3>3. (pending' = units) \in BOOLEAN
      OBVIOUS
    <3> QED
      BY <3>1, <3>2, <3>3, Zenon
  <2> QED
    BY <1>3, <2>2 DEF StartRender
<1>4. CASE CutBasemap \/ ReadManifest
  BY <1>4 DEF CutBasemap, ReadManifest
<1>5. CASE DeclareBasemap
  <2>1. past' \in [begun : SUBSET Sources, alone : BOOLEAN, fresh : BOOLEAN]
    <3> HIDE DEF Sources, Manifests
    <3>1. PICK again \in BOOLEAN : again = (past.fresh /\ held = manifest)
      OBVIOUS
    <3>2. past' = [past EXCEPT !.fresh = again]
      BY <1>5, <3>1 DEF DeclareBasemap
    <3> QED
      BY <3>2
  <2> QED
    BY <1>5, <2>1, TheDocuments DEF DeclareBasemap
<1>6. CASE Record
  BY <1>6 DEF Record, Document, Source
<1>7. ASSUME NEW u \in Units, Submit(u)
      PROVE  Typed'
  BY <1>7, TheKinds DEF Submit
<1>8. ASSUME NEW u \in Units, Replace(u)
      PROVE  Typed'
  <2>1. DrawnFrom \in Sources
    BY DEF Source, DrawnFrom
  <2>2. archives' \in [Files -> Sources]
    <3> HIDE DEF Sources
    <3> QED
      BY <1>8, <2>1, ReplacedInOrder
  <2>3. flight' \in [Units -> 0..2]
    <3>1. flight \in [Units -> 0..2]
      OBVIOUS
    <3>2. flight' = [flight EXCEPT ![u] = 0] \/ flight' = [flight EXCEPT ![u] = 1]
      BY <1>8, ReplacedInOrder
    <3> QED
      BY <3>1, <3>2
  <2> QED
    BY <1>8, <2>2, <2>3 DEF Replace
<1>9. CASE Drained \/ WriteManifest
  BY <1>9 DEF Drained, WriteManifest
<1>10. ASSUME NEW found \in BOOLEAN, WriteVectors(found)
       PROVE  Typed'
  BY <1>10 DEF WriteVectors
<1>11. CASE OverBudget
  BY <1>11 DEF OverBudget, Upset
<1>12. ASSUME NEW lost \in SUBSET Units, Fail(lost)
       PROVE  Typed'
  BY <1>12 DEF Fail, Upset
<1>13. CASE Die
  BY <1>13, TheDocuments DEF Die, Upset
<1>14. CASE CutDies
  BY <1>14, TheDocuments DEF CutDies, Upset
<1>15. CASE UNCHANGED vars
  BY <1>15 DEF vars
<1> QED
  BY <1>1, <1>2, <1>3, <1>4, <1>5, <1>6, <1>7, <1>8, <1>9, <1>10, <1>11, <1>12, <1>13,
     <1>14, <1>15 DEF Next, Advance, Mishap

(* Where a render is goes with what it has in hand.                        *)
LEMMA StepWorking ==
  ASSUME Typed, Working, [Next]_vars
  PROVE  Working'
<1> USE DEF Typed, Working, tiles, cut, process, counts, Quiet, InFlight
<1>1. CASE WriteRasters \/ WriteMetadata \/ Purge
  BY <1>1 DEF WriteRasters, WriteMetadata, Purge
<1>2. ASSUME NEW zoom \in Zooms, NEW resume \in BOOLEAN, NEW units \in SUBSET Units,
             StartRender(zoom, resume, units)
      PROVE  Working'
  BY <1>2 DEF StartRender
<1>3. CASE CutBasemap \/ ReadManifest \/ DeclareBasemap \/ CutDies
  BY <1>3 DEF CutBasemap, ReadManifest, DeclareBasemap, CutDies
<1>4. CASE Record \/ Drained \/ WriteManifest \/ OverBudget
  BY <1>4 DEF Record, Drained, WriteManifest, OverBudget
<1>5. ASSUME NEW u \in Units, Submit(u) \/ Replace(u)
      PROVE  Working'
  BY <1>5 DEF Submit, Replace
<1>6. ASSUME NEW found \in BOOLEAN, WriteVectors(found)
      PROVE  Working'
  BY <1>6 DEF WriteVectors
<1>7. ASSUME NEW lost \in SUBSET Units, Fail(lost)
      PROVE  Working'
  BY <1>7 DEF Fail
<1>8. CASE Die
  BY <1>8 DEF Die
<1>9. CASE UNCHANGED vars
  BY <1>9 DEF vars
<1> QED
  BY <1>1, <1>2, <1>3, <1>4, <1>5, <1>6, <1>7, <1>8, <1>9 DEF Next, Advance, Mishap

(* What is promised stays there, and what is being rendered will be.       *)
LEMMA StepPromises ==
  ASSUME Typed, Working, Promises, [Next]_vars
  PROVE  Promises'
<1> USE DEF Typed, Promises, Rendering, Holds, Honest, Real, tiles, cut, process, counts, Quiet
<1>1. CASE WriteRasters \/ WriteMetadata
  BY <1>1 DEF WriteRasters, WriteMetadata
<1>2. CASE Purge
  BY <1>2, TheDocuments DEF Purge
<1>3. ASSUME NEW zoom \in Zooms, NEW resume \in BOOLEAN, NEW units \in SUBSET Units,
             StartRender(zoom, resume, units)
      PROVE  Promises'
  <2>1. \A u \in job'.units \ pending' : IsRendered(u)
    BY <1>3 DEF StartRender, Reused
  <2>2. \A u \in job'.units \ pending' :
          archives[<<u, "building">>] \in Real /\ archives[<<u, "trees">>] \in Real
    BY <1>3, <2>1, TheKinds DEF StartRender, IsRendered
  <2> QED
    BY <1>3, <2>2 DEF StartRender
<1>4. CASE CutBasemap \/ ReadManifest
  BY <1>4 DEF CutBasemap, ReadManifest
<1>5. CASE DeclareBasemap
  BY <1>5 DEF DeclareBasemap, Manifests, Working
<1>6. CASE Record
  BY <1>6 DEF Record
<1>7. ASSUME NEW u \in Units, Submit(u)
      PROVE  Promises'
  BY <1>7, TheKinds DEF Submit
<1>8. ASSUME NEW u \in Units, Replace(u)
      PROVE  Promises'
  <2>1. job.zoom \in Zooms
    BY <1>8 DEF Replace, Working
  <2>2. DrawnFrom \in Real
    BY <2>1, RenderAssumption DEF DrawnFrom, Source, Unrendered, Sources
  <2>3. \A f \in Files : archives'[f] = archives[f] \/ archives'[f] \in Real
    BY <1>8, <2>2, ReplacedInOrder, TheKinds
  <2>4. \A f \in Files : archives[f] # Unrendered => archives'[f] # Unrendered
    BY <2>3
  <2>5. \A v \in Units : Holds(v, Real) => Holds(v, Real)'
    BY <1>8, <2>2, ReplacedHolds
  <2>6. \A m \in Manifests : Honest(m) => Honest(m)'
    BY <1>8, <2>4, TheKinds DEF Replace, Manifests
  <2> QED
    BY <1>8, <2>5, <2>6 DEF Replace
<1>9. CASE Drained
  BY <1>9 DEF Drained
<1>10. CASE WriteManifest
  <2>1. \A u \in job.units :
          archives[<<u, "building">>] # Unrendered /\ archives[<<u, "trees">>] # Unrendered
    <3> SUFFICES ASSUME NEW u \in job.units
                 PROVE  archives[<<u, "building">>] \in Real /\ archives[<<u, "trees">>] \in Real
      OBVIOUS
    <3>1. flight[u] = 0 /\ Holds(u, Real)
      BY <1>10 DEF WriteManifest, Working
    <3>2. flight[u] # 2
      BY <3>1
    <3> QED
      BY <3>1, <3>2 DEF Holds
  <2>2. Honest(manifest)'
    BY <1>10, <2>1, TheKinds DEF WriteManifest
  <2> QED
    BY <1>10, <2>2 DEF WriteManifest
<1>11. ASSUME NEW found \in BOOLEAN, WriteVectors(found)
       PROVE  Promises'
  BY <1>11 DEF WriteVectors
<1>12. ASSUME NEW lost \in SUBSET Units, Fail(lost) \/ OverBudget
       PROVE  Promises'
  BY <1>12 DEF Fail, OverBudget
<1>13. CASE Die
  BY <1>13, TheDocuments DEF Die
<1>14. CASE CutDies
  BY <1>14, TheDocuments DEF CutDies
<1>15. CASE UNCHANGED vars
  BY <1>15 DEF vars
<1> QED
  BY <1>1, <1>2, <1>3, <1>4, <1>5, <1>6, <1>7, <1>8, <1>9, <1>10, <1>11, <1>12, <1>13,
     <1>14, <1>15 DEF Next, Advance, Mishap

(* A render that reuses nothing has drawn what it has, from what it was    *)
(* asked for.                                                              *)
LEMMA StepAfresh ==
  ASSUME Typed, Working, Afresh, [Next]_vars
  PROVE  Afresh'
<1> USE DEF Afresh, Rendering, AskedFor, tiles, cut, process, counts, Quiet
<1>1. CASE WriteRasters \/ WriteMetadata \/ Purge \/ Drained \/ OverBudget
  BY <1>1 DEF WriteRasters, WriteMetadata, Purge, Drained, OverBudget
<1>2. ASSUME NEW zoom \in Zooms, NEW resume \in BOOLEAN, NEW units \in SUBSET Units,
             StartRender(zoom, resume, units)
      PROVE  Afresh'
  <2>1. past'.alone = (pending' = units) /\ job'.units = units
    BY <1>2 DEF StartRender
  <2> QED
    BY <2>1
<1>3. CASE CutBasemap \/ ReadManifest \/ DeclareBasemap \/ CutDies
  <2>1. UNCHANGED <<rasters, job, pc, pending, archives, flight>>
    BY <1>3 DEF CutBasemap, ReadManifest, DeclareBasemap, CutDies
  <2>2. past'.alone = past.alone
    BY <1>3 DEF CutBasemap, ReadManifest, DeclareBasemap, CutDies, Typed
  <2> QED
    BY <2>1, <2>2 DEF Holds
<1>4. CASE Record
  BY <1>4 DEF Record, Holds
<1>5. ASSUME NEW u \in Units, Submit(u)
      PROVE  Afresh'
  <2>1. UNCHANGED <<rasters, job, pc, archives, past>> /\ pending' = pending \ {u}
    BY <1>5 DEF Submit
  <2>2. flight' = [flight EXCEPT ![u] = 2]
    BY <1>5, TheKinds DEF Submit
  <2>3. \A v \in Units \ {u} : Holds(v, {AskedFor}) => Holds(v, {AskedFor})'
    BY <2>1, <2>2 DEF Holds, Typed
  <2>4. Holds(u, {AskedFor})'
    BY <2>2 DEF Holds, Typed
  <2> QED
    BY <2>1, <2>3, <2>4 DEF Typed
<1>6. ASSUME NEW u \in Units, Replace(u), Rendering, past.alone, rasters = job.built
      PROVE  Afresh'
  <2>1. UNCHANGED <<rasters, job, pc, pending, past>>
    BY <1>6 DEF Replace
  <2>2. DrawnFrom \in {AskedFor} /\ {AskedFor}' = {AskedFor}
    BY <1>6, <2>1 DEF DrawnFrom
  <2>3. \A v \in Units : Holds(v, {AskedFor}) => Holds(v, {AskedFor})'
    BY <1>6, <2>2, ReplacedHolds
  <2> QED
    BY <1>6, <2>1, <2>3 DEF Typed
<1>7. ASSUME NEW found \in BOOLEAN, WriteVectors(found)
      PROVE  Afresh'
  BY <1>7 DEF WriteVectors, Holds
<1>8. ASSUME NEW lost \in SUBSET Units, Fail(lost) \/ Die \/ WriteManifest
      PROVE  Afresh'
  BY <1>8 DEF Fail, Die, WriteManifest
<1>9. CASE UNCHANGED vars
  BY <1>9 DEF vars, Holds
<1>10. ASSUME NEW u \in Units, Replace(u), ~(Rendering /\ past.alone /\ rasters = job.built)
       PROVE  Afresh'
  BY <1>10 DEF Replace
<1> QED
  BY <1>1, <1>2, <1>3, <1>4, <1>5, <1>6, <1>7, <1>8, <1>9, <1>10 DEF Next, Advance, Mishap

(* Renders that all start afresh reuse nothing.                            *)
Alone == Rendering => past.alone
LEMMA StepAlone ==
  ASSUME Typed, Working, Alone, [Next]_vars, [StartsAfresh]_vars
  PROVE  Alone'
<1> USE DEF Typed, Alone, Rendering, tiles, cut, process, counts, Quiet
<1>1. CASE WriteRasters \/ WriteMetadata \/ Purge \/ Drained \/ OverBudget
  BY <1>1 DEF WriteRasters, WriteMetadata, Purge, Drained, OverBudget
<1>2. ASSUME NEW zoom \in Zooms, NEW resume \in BOOLEAN, NEW units \in SUBSET Units,
             StartRender(zoom, resume, units)
      PROVE  Alone'
  <2>1. pc # "record" /\ pc' = "record" /\ job'.units = units /\ past'.alone = (pending' = units)
    BY <1>2 DEF StartRender
  <2>2. pending' = job'.units
    BY <2>1 DEF StartsAfresh, vars
  <2> QED
    BY <2>1, <2>2
<1>3. CASE CutBasemap \/ ReadManifest \/ DeclareBasemap \/ CutDies
  BY <1>3 DEF CutBasemap, ReadManifest, DeclareBasemap, CutDies
<1>4. CASE Record \/ WriteManifest
  BY <1>4 DEF Record, WriteManifest
<1>5. ASSUME NEW u \in Units, Submit(u) \/ Replace(u)
      PROVE  Alone'
  BY <1>5 DEF Submit, Replace
<1>6. ASSUME NEW found \in BOOLEAN, WriteVectors(found)
      PROVE  Alone'
  BY <1>6 DEF WriteVectors
<1>7. ASSUME NEW lost \in SUBSET Units, Fail(lost) \/ Die
      PROVE  Alone'
  BY <1>7 DEF Fail, Die
<1>8. CASE UNCHANGED vars
  BY <1>8 DEF vars
<1> QED
  BY <1>1, <1>2, <1>3, <1>4, <1>5, <1>6, <1>7, <1>8 DEF Next, Advance, Mishap

(* Builds are counted, and a render that runs has begun.                   *)
LEMMA StepNumbered ==
  ASSUME Typed, Working, Numbered, [Next]_vars
  PROVE  Numbered'
<1> USE DEF Typed, Numbered, AskedFor, tiles, cut, process, counts, Quiet
<1>1. CASE WriteRasters \/ WriteMetadata \/ Purge \/ Drained \/ OverBudget
  BY <1>1 DEF WriteRasters, WriteMetadata, Purge, Drained, OverBudget
<1>2. ASSUME NEW zoom \in Zooms, NEW resume \in BOOLEAN, NEW units \in SUBSET Units,
             StartRender(zoom, resume, units)
      PROVE  Numbered'
  BY <1>2 DEF StartRender
<1>3. CASE CutBasemap \/ ReadManifest \/ DeclareBasemap \/ CutDies
  BY <1>3 DEF CutBasemap, ReadManifest, DeclareBasemap, CutDies
<1>4. CASE Record \/ WriteManifest
  BY <1>4 DEF Record, WriteManifest
<1>5. ASSUME NEW u \in Units, Submit(u) \/ Replace(u)
      PROVE  Numbered'
  BY <1>5 DEF Submit, Replace
<1>6. ASSUME NEW found \in BOOLEAN, WriteVectors(found)
      PROVE  Numbered'
  BY <1>6 DEF WriteVectors
<1>7. ASSUME NEW lost \in SUBSET Units, Fail(lost) \/ Die
      PROVE  Numbered'
  BY <1>7 DEF Fail, Die
<1>8. CASE UNCHANGED vars
  BY <1>8 DEF vars
<1> QED
  BY <1>1, <1>2, <1>3, <1>4, <1>5, <1>6, <1>7, <1>8 DEF Next, Advance, Mishap

(* What a worker puts in place was drawn since the last purge.             *)
LEMMA StepDrawnSince ==
  ASSUME Typed, Working, Numbered, DrawnSince, [Next]_vars
  PROVE  DrawnSince'
<1> USE DEF Typed, DrawnSince, tiles, cut, process, counts, Quiet
<1>1. CASE WriteRasters
  <2>1. rasters' \in Nat /\ rasters <= rasters' /\ UNCHANGED <<archives, past>>
    BY <1>1 DEF WriteRasters, Numbered
  <2>2. \A f \in Files : archives[f].build \in Nat
    BY DEF Sources
  <2> QED
    BY <2>1, <2>2
<1>2. CASE Purge
  BY <1>2 DEF Purge
<1>3. ASSUME NEW zoom \in Zooms, NEW resume \in BOOLEAN, NEW units \in SUBSET Units,
             StartRender(zoom, resume, units)
      PROVE  DrawnSince'
  <2>1. past.begun \subseteq past'.begun /\ UNCHANGED <<archives, rasters>>
    BY <1>3 DEF StartRender
  <2> QED
    BY <2>1
<1>4. ASSUME NEW u \in Units, Replace(u)
      PROVE  DrawnSince'
  <2>1. UNCHANGED <<rasters, past>>
    BY <1>4 DEF Replace
  <2>2. \A f \in Files : archives'[f] \in {archives[f], DrawnFrom}
    BY <1>4, ReplacedInOrder
  <2>3. AskedFor \in past.begun /\ job.built <= rasters
    BY <1>4 DEF Replace, Working, Numbered
  <2>4. /\ DrawnFrom.zoom = AskedFor.zoom /\ AskedFor.build <= DrawnFrom.build
        /\ DrawnFrom.build <= rasters
    BY <2>3 DEF DrawnFrom, AskedFor, Source
  <2> QED
    BY <2>1, <2>2, <2>3, <2>4
<1>5. CASE WriteManifest \/ DeclareBasemap
  <2>1. past'.begun = past.begun /\ UNCHANGED <<archives, rasters>>
    BY <1>5 DEF WriteManifest, DeclareBasemap
  <2> QED
    BY <2>1
<1>6. ASSUME UNCHANGED <<archives, rasters, past>>
      PROVE  DrawnSince'
  BY <1>6
<1>7. CASE WriteMetadata \/ Record \/ Drained \/ OverBudget \/ Die \/ CutDies
           \/ CutBasemap \/ ReadManifest
  BY <1>6, <1>7 DEF WriteMetadata, Record, Drained, OverBudget, Die, CutDies, CutBasemap,
                    ReadManifest
<1>8. ASSUME NEW u \in Units, Submit(u)
      PROVE  DrawnSince'
  BY <1>6, <1>8 DEF Submit
<1>9. ASSUME NEW found \in BOOLEAN, WriteVectors(found)
      PROVE  DrawnSince'
  BY <1>6, <1>9 DEF WriteVectors
<1>10. ASSUME NEW lost \in SUBSET Units, Fail(lost)
       PROVE  DrawnSince'
  BY <1>6, <1>10 DEF Fail
<1>11. CASE UNCHANGED vars
  BY <1>6, <1>11 DEF vars
<1> QED
  BY <1>1, <1>2, <1>3, <1>4, <1>5, <1>7, <1>8, <1>9, <1>10, <1>11 DEF Next, Advance, Mishap

(* What a render writes first stays there until it ends.                   *)
LEMMA StepOnRecord ==
  ASSUME Typed, OnRecord, [Next]_vars
  PROVE  OnRecord'
<1> USE DEF Typed, OnRecord, AskedFor, tiles, cut, process, counts, Quiet
<1>1. CASE WriteRasters \/ WriteMetadata \/ Purge \/ Drained \/ OverBudget
  BY <1>1 DEF WriteRasters, WriteMetadata, Purge, Drained, OverBudget
<1>2. ASSUME NEW zoom \in Zooms, NEW resume \in BOOLEAN, NEW units \in SUBSET Units,
             StartRender(zoom, resume, units)
      PROVE  OnRecord'
  BY <1>2 DEF StartRender
<1>3. CASE CutBasemap \/ ReadManifest \/ DeclareBasemap \/ CutDies
  BY <1>3 DEF CutBasemap, ReadManifest, DeclareBasemap, CutDies
<1>4. CASE Record \/ WriteManifest
  BY <1>4 DEF Record, WriteManifest
<1>5. ASSUME NEW u \in Units, Submit(u) \/ Replace(u)
      PROVE  OnRecord'
  BY <1>5 DEF Submit, Replace
<1>6. ASSUME NEW found \in BOOLEAN, WriteVectors(found)
      PROVE  OnRecord'
  BY <1>6 DEF WriteVectors
<1>7. ASSUME NEW lost \in SUBSET Units, Fail(lost) \/ Die
      PROVE  OnRecord'
  BY <1>7 DEF Fail, Die
<1>8. CASE UNCHANGED vars
  BY <1>8 DEF vars
<1> QED
  BY <1>1, <1>2, <1>3, <1>4, <1>5, <1>6, <1>7, <1>8 DEF Next, Advance, Mishap

-----------------------------------------------------------------------------
Begins == Typed /\ Working /\ Promises

LEMMA InitBegins == Init => Begins
<1> SUFFICES ASSUME Init
             PROVE  Begins
  OBVIOUS
<1>1. archives \in [Files -> Sources]
  BY TheDocuments DEF Init
<1>2. Typed
  <2>1. job \in [built : Nat, zoom : Zooms \cup {NoZoom}, units : SUBSET Units]
    BY DEF Init, NoJob
  <2>2. flight \in [Units -> 0..2]
    BY DEF Init
  <2> QED
    BY <1>1, <2>1, <2>2, TheDocuments DEF Init, Typed, NoPast
<1>3. Working /\ Promises
  BY TheDocuments DEF Init, Working, Promises, Honest, Rendering
<1> QED
  BY <1>2, <1>3 DEF Begins

(* When a render declares what it has, all of it is in its place.          *)
LEMMA DeclaredIsDone ==
  ASSUME Typed, Working, WriteManifest, NEW S, \A u \in job.units \ pending : Holds(u, S)
  PROVE  \A u \in job.units, k \in Range(Kinds) : archives[<<u, k>>] \in S
<1> SUFFICES ASSUME NEW u \in job.units
             PROVE  archives[<<u, "building">>] \in S /\ archives[<<u, "trees">>] \in S
  BY TheKinds
<1>1. flight[u] = 0 /\ Holds(u, S)
  BY DEF WriteManifest, Working, Typed
<1>2. flight[u] # 2
  BY <1>1
<1> QED
  BY <1>1, <1>2 DEF Holds

(* What is so after a render that reused nothing stays so until the next   *)
(* begins: a build begun over it, or one killed, changes only the rasters. *)
LEMMA StepFresh ==
  ASSUME Typed, Working, Numbered, Afresh, OnRecord, Fresh, [Next]_vars
  PROVE  Fresh'
<1> USE DEF tiles, cut, process, counts, Quiet
<1>1. ASSUME ~past'.fresh
      PROVE  Fresh'
  BY <1>1 DEF Fresh
<1>2. ASSUME past' = past, pc \notin {"off", "build"}
      PROVE  Fresh'
  BY <1>1, <1>2 DEF Fresh
<1>3. ASSUME UNCHANGED <<past, job, archives, recorded>>, manifest' = manifest \/ manifest'.state = "torn",
             pc' \in {"off", "build"} \/ pc' = pc, rasters' = rasters
      PROVE  Fresh'
  <2>1. AskedFor' = AskedFor
    BY <1>3 DEF AskedFor
  <2>2. RenderedFrom(job.units, AskedFor)' <=> RenderedFrom(job.units, AskedFor)
    BY <1>3, <2>1 DEF RenderedFrom
  <2> QED
    BY <1>3, <2>1, <2>2 DEF Fresh
<1>4. CASE WriteRasters
  <2>1. UNCHANGED <<past, job, archives, recorded, manifest>> /\ pc' = "build" /\ rasters' = builds + 1
    BY <1>4 DEF WriteRasters
  <2>2. AskedFor' = AskedFor
    BY <2>1 DEF AskedFor
  <2>3. rasters \in Nat /\ builds \in Nat /\ rasters <= builds /\ job.built \in Nat
    BY DEF Typed, Numbered
  <2>4. past.fresh => job.built <= rasters' /\ rasters' # job.built
    BY <2>1, <2>3 DEF Fresh
  <2> QED
    BY <2>1, <2>2, <2>4 DEF Fresh
<1>5. CASE WriteMetadata \/ CutBasemap \/ ReadManifest \/ CutDies
  <2>1. /\ UNCHANGED <<past, job, archives, recorded, rasters>>
        /\ manifest' = manifest \/ manifest'.state = "torn"
        /\ pc' = "off" \/ pc' = pc
    BY <1>5, TheDocuments DEF WriteMetadata, CutBasemap, ReadManifest, CutDies
  <2> QED
    BY <1>3, <2>1
<1>6. CASE DeclareBasemap
  <2>1. /\ UNCHANGED <<job, archives, recorded, rasters, pc>>
        /\ past' = [past EXCEPT !.fresh = @ /\ held = manifest]
        /\ manifest' = [held EXCEPT !.basemap = TRUE]
    BY <1>6 DEF DeclareBasemap
  <2>2. CASE ~(past.fresh /\ held = manifest)
    BY <1>1, <2>1, <2>2 DEF Typed
  <2>3. CASE past.fresh /\ held = manifest
    <3>1. /\ manifest'.state = manifest.state /\ manifest'.zoom = manifest.zoom
          /\ manifest'.units = manifest.units
      BY <2>1, <2>3 DEF Typed, Manifests
    <3>2. AskedFor' = AskedFor
      BY <2>1 DEF AskedFor
    <3>3. RenderedFrom(job.units, AskedFor)' <=> RenderedFrom(job.units, AskedFor)
      BY <2>1, <3>2 DEF RenderedFrom
    <3> QED
      BY <2>1, <2>3, <3>1, <3>2, <3>3 DEF Fresh
  <2> QED
    BY <2>2, <2>3
<1>7. CASE WriteManifest
  <2>1. /\ UNCHANGED <<job, archives, recorded, rasters>> /\ pc = "declare" /\ pc' = "off"
        /\ past' = [past EXCEPT !.fresh = past.alone]
        /\ manifest'.zoom = job.zoom /\ manifest'.units = job.units
    BY <1>7 DEF WriteManifest
  <2>2. CASE ~past.alone
    BY <1>1, <2>1, <2>2 DEF Typed
  <2>3. CASE past.alone
    <3>1. rasters = job.built => RenderedFrom(job.units, AskedFor)
      <4> SUFFICES ASSUME rasters = job.built PROVE RenderedFrom(job.units, AskedFor)
        OBVIOUS
      <4>1. \A u \in job.units \ pending : Holds(u, {AskedFor})
        BY <2>1, <2>3 DEF Afresh, Rendering
      <4>2. \A u \in job.units, k \in Range(Kinds) : archives[<<u, k>>] \in {AskedFor}
        BY <1>7, <4>1, DeclaredIsDone
      <4> QED
        BY <4>2 DEF RenderedFrom
    <3>2. AskedFor' = AskedFor
      BY <2>1 DEF AskedFor
    <3>3. RenderedFrom(job.units, AskedFor)' <=> RenderedFrom(job.units, AskedFor)
      BY <2>1, <3>2 DEF RenderedFrom
    <3>4. recorded = Document("whole", AskedFor) /\ job.built <= rasters
      BY <2>1 DEF OnRecord, Numbered
    <3> QED
      BY <2>1, <3>1, <3>2, <3>3, <3>4 DEF Fresh
  <2> QED
    BY <2>2, <2>3
<1>8. ASSUME NEW zoom \in Zooms, NEW resume \in BOOLEAN, NEW units \in SUBSET Units,
             StartRender(zoom, resume, units)
      PROVE  Fresh'
  <2>1. ~past'.fresh
    BY <1>8 DEF StartRender
  <2> QED
    BY <1>1, <2>1
<1>9. CASE Purge
  <2>1. ~past'.fresh
    BY <1>9 DEF Purge, NoPast
  <2> QED
    BY <1>1, <2>1
<1>10. CASE Record \/ Drained \/ OverBudget
  BY <1>2, <1>10 DEF Record, Drained, OverBudget
<1>11. ASSUME NEW u \in Units, Submit(u) \/ Replace(u)
       PROVE  Fresh'
  <2>1. past' = past /\ pc \notin {"off", "build"}
    BY <1>11 DEF Submit, Replace, Working
  <2> QED
    BY <1>2, <2>1
<1>12. ASSUME NEW found \in BOOLEAN, WriteVectors(found)
       PROVE  Fresh'
  BY <1>2, <1>12 DEF WriteVectors
<1>13. ASSUME NEW lost \in SUBSET Units, Fail(lost)
       PROVE  Fresh'
  BY <1>2, <1>13 DEF Fail
<1>14. CASE Die
  <2>1. CASE pc = "build"
    <3>1. UNCHANGED <<past, job, archives, recorded, rasters, manifest>> /\ pc' = "off"
      BY <1>14, <2>1 DEF Die
    <3> QED
      BY <1>3, <3>1
  <2>2. CASE pc # "build"
    BY <1>2, <1>14, <2>2 DEF Die
  <2> QED
    BY <2>1, <2>2
<1>15. CASE UNCHANGED vars
  BY <1>3, <1>15 DEF vars
<1> QED
  BY <1>4, <1>5, <1>6, <1>7, <1>8, <1>9, <1>10, <1>11, <1>12, <1>13, <1>14, <1>15
     DEF Next, Advance, Mishap

(* The manifest promises nothing the directory does not hold, whatever the *)
(* constants: build_tiles writes it last, a purge takes it with the        *)
(* archives, and a cut that declares its basemap puts back one that held.  *)
THEOREM PromisesAlwaysKept == Spec => []PromisesKept
<1>1. Begins /\ [Next]_vars => Begins'
  BY StepTyped, StepWorking, StepPromises DEF Begins
<1>2. Begins => PromisesKept
  BY DEF Begins, Promises, Honest, PromisesKept
<1> QED
  BY InitBegins, <1>1, <1>2, PTL DEF Spec

(* A render that resumes nothing declares only what it drew from the build *)
(* it read, however often a city is built over its old tiles, whatever     *)
(* zooms it has been rendered between and whatever became of the renders   *)
(* before: what --resume reuses is the only thing that can be of another.  *)
THEOREM FreshRendersAreTrue == Spec /\ [][StartsAfresh]_vars => FinishedIsTrue
<1>1. Init => Afresh /\ Alone
  BY DEF Init, Afresh, Alone, Rendering
<1>2. Begins /\ [Next]_vars => Begins'
  BY StepTyped, StepWorking, StepPromises DEF Begins
<1>3. Begins /\ Afresh /\ [Next]_vars => Afresh'
  BY StepAfresh DEF Begins
<1>4. Begins /\ Alone /\ [Next]_vars /\ [StartsAfresh]_vars => Alone'
  BY StepAlone DEF Begins
<1>5. Begins /\ Afresh /\ Alone /\ [Next]_vars
        => [WriteManifest /\ rasters = job.built
              => RenderedFrom(job.units, Source(job.built, job.zoom))]_vars
  <2> SUFFICES ASSUME Begins, Afresh, Alone, WriteManifest, rasters = job.built
               PROVE  RenderedFrom(job.units, Source(job.built, job.zoom))
    OBVIOUS
  <2>1. \A u \in job.units \ pending : Holds(u, {AskedFor})
    BY DEF Afresh, Alone, Rendering, WriteManifest
  <2>2. \A u \in job.units, k \in Range(Kinds) : archives[<<u, k>>] \in {AskedFor}
    BY <2>1, DeclaredIsDone DEF Begins
  <2> QED
    BY <2>2 DEF RenderedFrom, AskedFor
<1> QED
  BY InitBegins, <1>1, <1>2, <1>3, <1>4, <1>5, PTL DEF Spec, FinishedIsTrue

(* A city built over and over in place, its renders stopped and resumed:   *)
(* what check_ready lets out is of the build that goes out, if the last    *)
(* render to begin drew all of it, or if every render since the directory  *)
(* was last empty began from that build.                                   *)
THEOREM PublishableIsAlwaysTrue == Spec => []PublishableIsTrue
<1> DEFINE Inv == Begins /\ Numbered /\ DrawnSince /\ Afresh /\ OnRecord /\ Fresh
<1>1. Init => Inv
  <2> SUFFICES ASSUME Init PROVE Inv
    OBVIOUS
  <2>1. Numbered /\ DrawnSince /\ Afresh /\ OnRecord /\ Fresh
    BY DEF Init, Numbered, DrawnSince, Afresh, Rendering, OnRecord, Fresh, NoPast
  <2> QED
    BY <2>1, InitBegins
<1>2. Inv /\ [Next]_vars => Inv'
  <2> SUFFICES ASSUME Inv, [Next]_vars PROVE Inv'
    OBVIOUS
  <2>1. Typed /\ Working /\ Promises
    BY DEF Begins
  <2>2. Begins'
    BY <2>1, StepTyped, StepWorking, StepPromises DEF Begins
  <2>3. Numbered' /\ DrawnSince'
    BY <2>1, StepNumbered, StepDrawnSince
  <2>4. Afresh' /\ OnRecord' /\ Fresh'
    BY <2>1, StepAfresh, StepOnRecord, StepFresh
  <2> QED
    BY <2>2, <2>3, <2>4
<1>3. Inv => PublishableIsTrue
  <2> SUFFICES ASSUME Inv, Publishable, rasters = built,
                      past.fresh \/ past.begun \subseteq {Source(built, manifest.zoom)},
                      NEW u \in manifest.units, NEW k \in Range(Kinds)
               PROVE  archives[<<u, k>>] = Source(built, manifest.zoom)
    BY DEF PublishableIsTrue, RenderedFrom
  <2>1. manifest.state = "whole" /\ <<u, k>> \in Files
    BY DEF Publishable, Begins, Typed, Manifests, Files
  <2>2. CASE past.fresh
    <3>1. /\ recorded = Document("whole", AskedFor) /\ manifest.units \subseteq job.units
          /\ rasters = job.built => RenderedFrom(job.units, AskedFor)
      BY <2>1, <2>2 DEF Fresh
    <3>2. AskedFor = Source(built, manifest.zoom)
      BY <3>1 DEF Publishable, Document
    <3>3. job.built = built
      BY <3>2 DEF AskedFor, Source
    <3> QED
      BY <3>1, <3>2, <3>3 DEF RenderedFrom
  <2>3. CASE past.begun \subseteq {Source(built, manifest.zoom)}
    <3>1. archives[<<u, k>>] # Unrendered
      BY <2>1 DEF Begins, Promises, Honest
    <3>2. PICK s \in past.begun : /\ archives[<<u, k>>].zoom = s.zoom
                                  /\ s.build <= archives[<<u, k>>].build
                                  /\ archives[<<u, k>>].build <= rasters
      BY <2>1, <3>1 DEF DrawnSince
    <3>3. s.zoom = manifest.zoom /\ s.build = built
      BY <2>3, <3>2 DEF Source
    <3>4. archives[<<u, k>>] \in Sources /\ built \in Nat
      BY <2>1 DEF Begins, Typed
    <3>5. archives[<<u, k>>].build = built /\ archives[<<u, k>>].zoom = manifest.zoom
      BY <3>2, <3>3, <3>4 DEF Sources
    <3> QED
      BY <3>4, <3>5 DEF Sources, Source
  <2> QED
    BY <2>2, <2>3
<1> QED
  BY <1>1, <1>2, <1>3, PTL DEF Spec

-----------------------------------------------------------------------------
(* What grows from a cell, one round of touching after another.            *)
Grows(g, n, S, c) ==
    /\ DOMAIN g = 0..n
    /\ g = [k \in 0..n |-> IF k = 0 THEN {c} ELSE UNION {Touching(d) \cap S : d \in g[k - 1]}]

(* It can be grown for as long as one likes.                               *)
LEMMA SomethingGrows ==
  ASSUME NEW S, NEW c, NEW n \in Nat
  PROVE  \E g : Grows(g, n, S, c)
<1> DEFINE bad == {m \in Nat : ~\E g : Grows(g, m, S, c)}
<1> SUFFICES bad = {}
  OBVIOUS
<1> SUFFICES ASSUME bad # {} PROVE FALSE
  OBVIOUS
<1>1. PICK m \in bad : \A k \in bad : m <= k
  <2>1. bad \in SUBSET Nat
    OBVIOUS
  <2> HIDE DEF bad
  <2> QED
    BY <2>1, Smallest
<1>2. m \in Nat /\ ~\E g : Grows(g, m, S, c)
  BY <1>1
<1>3. m # 0
  <2>1. PICK g : g = [k \in 0..0 |-> {c}]
    OBVIOUS
  <2>2. Grows(g, 0, S, c)
    <3>1. \A k \in 0..0 : k = 0
      OBVIOUS
    <3> QED
      BY <2>1, <3>1 DEF Grows
  <2> QED
    BY <1>2, <2>2
<1>4. m - 1 \in Nat /\ m - 1 \notin bad
  BY <1>1, <1>2, <1>3
<1>5. PICK g : Grows(g, m - 1, S, c)
  BY <1>4
<1>6. PICK h : h = [k \in 0..m |-> IF k = m THEN UNION {Touching(d) \cap S : d \in g[m - 1]} ELSE g[k]]
  OBVIOUS
<1>7. DOMAIN h = 0..m /\ \A k \in 0..m - 1 : h[k] = g[k]
  <2>1. \A k \in 0..m - 1 : k \in 0..m /\ k # m
    BY <1>2
  <2> QED
    BY <1>6, <2>1
<1>8. \A k \in 0..m : h[k] = IF k = 0 THEN {c} ELSE UNION {Touching(d) \cap S : d \in h[k - 1]}
  <2> TAKE k \in 0..m
  <2>1. CASE k = m
    <3>1. h[m] = UNION {Touching(d) \cap S : d \in g[m - 1]} /\ h[m - 1] = g[m - 1] /\ m # 0
      <4>1. m - 1 \in 0..m - 1 /\ m \in 0..m
        BY <1>2, <1>4
      <4> QED
        BY <1>3, <1>6, <1>7, <4>1
    <3> QED
      BY <2>1, <3>1
  <2>2. CASE k # m
    <3>1. k \in 0..m - 1 /\ (k # 0 => k - 1 \in 0..m - 1)
      BY <1>2, <2>2
    <3>2. g[k] = IF k = 0 THEN {c} ELSE UNION {Touching(d) \cap S : d \in g[k - 1]}
      BY <1>5, <3>1 DEF Grows
    <3> QED
      BY <1>7, <3>1, <3>2
  <2> QED
    BY <2>1, <2>2
<1>9. Grows(h, m, S, c)
  <2>1. h = [k \in 0..m |-> h[k]]
    BY <1>6
  <2> QED
    BY <1>7, <1>8, <2>1 DEF Grows
<1> QED
  BY <1>2, <1>9

(* A region is what has grown after as many rounds as there are cells.     *)
LEMMA RegionGrows ==
  ASSUME NEW S, IsFiniteSet(S), NEW c
  PROVE  \E g : Grows(g, Cardinality(S), S, c) /\ RegionOf(S, c) = g[Cardinality(S)]
<1>1. PICK N \in Nat : N = Cardinality(S)
  BY FS_CardinalityType
<1> DEFINE Right(g) == g = [k \in 0..N |-> IF k = 0 THEN {c}
                                           ELSE UNION {Touching(d) \cap S : d \in g[k - 1]}]
<1>2. \E g : Right(g)
  <2>1. PICK g : Grows(g, N, S, c)
    BY <1>1, SomethingGrows
  <2>2. Right(g)
    BY <2>1 DEF Grows
  <2> HIDE DEF Right
  <2> QED
    BY <2>2
<1>3. RegionOf(S, c) = (CHOOSE g : Right(g))[N]
  BY <1>1 DEF RegionOf
<1> HIDE DEF Right
<1>4. PICK g : Right(g) /\ RegionOf(S, c) = g[N]
  BY <1>2, <1>3
<1>5. DOMAIN g = 0..N
  BY <1>4 DEF Right
<1> QED
  BY <1>1, <1>4, <1>5 DEF Right, Grows

(* A cell touches itself, and what touches it.                             *)
LEMMA TouchingIsMutual ==
  ASSUME NEW c \in Pixels
  PROVE  c \in Touching(c) /\ \A d \in Touching(c) : d \in Pixels /\ c \in Touching(d)
<1>1. \A d \in Pixels : d[1] \in Int /\ d[2] \in Int
  BY SurfaceAssumption DEF Pixels
<1>2. Apart(c, c) = 0
  BY <1>1 DEF Apart
<1>3. ASSUME NEW d \in Pixels
      PROVE  Apart(c, d) = Apart(d, c)
  <2>1. PICK i, j, k, l \in Int : i = c[1] /\ j = d[1] /\ k = c[2] /\ l = d[2]
    BY <1>1
  <2>2. (i - j) * (i - j) = (j - i) * (j - i) /\ (k - l) * (k - l) = (l - k) * (l - k)
    OBVIOUS
  <2> QED
    BY <2>1, <2>2 DEF Apart
<1> QED
  BY <1>2, <1>3 DEF Touching

(* Cells of a set are closed if what touches them in the set is there too. *)
Closed(T, S) == \A d \in T : Touching(d) \cap S \subseteq T

(* A region is the least closed part of a set its cell is in.              *)
LEMMA RegionIs ==
  ASSUME NEW S \in SUBSET Pixels, IsFiniteSet(S), NEW c \in S
  PROVE  /\ c \in RegionOf(S, c) /\ RegionOf(S, c) \subseteq S
         /\ Closed(RegionOf(S, c), S)
         /\ \A T \in SUBSET S : c \in T /\ Closed(T, S) => RegionOf(S, c) \subseteq T
<1>1. PICK N \in Nat : N = Cardinality(S)
  BY FS_CardinalityType
<1>2. PICK g : Grows(g, N, S, c) /\ RegionOf(S, c) = g[N]
  BY <1>1, RegionGrows
<1>3. /\ g[0] = {c}
      /\ \A n \in Nat : n < N => g[n + 1] = UNION {Touching(d) \cap S : d \in g[n]}
  <2>1. 0 \in 0..N
    OBVIOUS
  <2>2. g[0] = {c}
    BY <1>2, <2>1 DEF Grows
  <2>3. ASSUME NEW n \in Nat, n < N
        PROVE  g[n + 1] = UNION {Touching(d) \cap S : d \in g[n]}
    <3>1. PICK m \in 0..N : m = n + 1 /\ m # 0 /\ m - 1 = n
      <4>1. n + 1 \in 0..N /\ n + 1 # 0 /\ (n + 1) - 1 = n
        BY <2>3
      <4> QED
        BY <4>1
    <3>2. g[m] = UNION {Touching(d) \cap S : d \in g[m - 1]}
      BY <1>2, <3>1 DEF Grows
    <3> QED
      BY <3>1, <3>2
  <2> QED
    BY <2>2, <2>3
<1>4. \A n \in 0..N : g[n] \subseteq S /\ c \in g[n]
                     /\ \A T \in SUBSET S : c \in T /\ Closed(T, S) => g[n] \subseteq T
  <2> DEFINE fits(n) == g[n] \subseteq S /\ c \in g[n]
                        /\ \A T \in SUBSET S : c \in T /\ Closed(T, S) => g[n] \subseteq T
             bad == {n \in 0..N : ~fits(n)}
  <2> SUFFICES ASSUME bad # {} PROVE FALSE
    OBVIOUS
  <2>1. PICK m \in bad : \A k \in bad : m <= k
    <3>1. bad \in SUBSET Nat
      OBVIOUS
    <3> HIDE DEF bad
    <3> QED
      BY <3>1, Smallest
  <2>2. m \in 0..N /\ ~fits(m)
    BY <2>1
  <2>3. fits(0)
    BY <1>3
  <2>4. m # 0
    <3> HIDE DEF fits
    <3> QED
      BY <2>2, <2>3
  <2>5. PICK k \in Nat : m = k + 1 /\ k < N /\ fits(k)
    <3>1. m - 1 \in 0..N /\ ~(m <= m - 1) /\ m - 1 \in Nat /\ m = (m - 1) + 1 /\ m - 1 < N
      BY <2>2, <2>4
    <3>2. m - 1 \notin bad
      BY <2>1, <3>1
    <3>3. fits(m - 1)
      BY <3>1, <3>2
    <3> HIDE DEF fits
    <3> QED
      BY <3>1, <3>3
  <2>6. g[m] = UNION {Touching(d) \cap S : d \in g[k]}
    BY <1>3, <2>5
  <2>7. g[m] \subseteq S
    BY <2>6
  <2>8. c \in g[m]
    <3>1. c \in g[k] /\ c \in Touching(c)
      BY <2>5, TouchingIsMutual
    <3> QED
      BY <2>6, <3>1
  <2>9. ASSUME NEW T \in SUBSET S, c \in T, Closed(T, S)
        PROVE  g[m] \subseteq T
    <3>1. g[k] \subseteq T
      BY <2>5, <2>9
    <3> QED
      BY <2>6, <2>9, <3>1 DEF Closed
  <2> QED
    BY <2>2, <2>7, <2>8, <2>9
<1>5. \A n \in Nat : n < N => g[n] \subseteq g[n + 1]
  <2> TAKE n \in Nat
  <2> HAVE n < N
  <2>1. n \in 0..N
    OBVIOUS
  <2>2. \A d \in g[n] : d \in S /\ d \in Touching(d)
    BY <1>4, <2>1, TouchingIsMutual
  <2> QED
    BY <1>3, <2>2
<1>6. \E n \in Nat : n < N /\ g[n + 1] = g[n]
  <2> SUFFICES ASSUME \A n \in Nat : n < N => g[n + 1] # g[n] PROVE FALSE
    OBVIOUS
  <2>1. \A n \in 0..N : IsFiniteSet(g[n]) /\ Cardinality(g[n]) \in Nat /\ Cardinality(g[n]) <= N
    <3> TAKE n \in 0..N
    <3>1. g[n] \in SUBSET S
      BY <1>4
    <3>2. IsFiniteSet(g[n]) /\ Cardinality(g[n]) <= Cardinality(S)
      BY <3>1, FS_Subset
    <3> QED
      BY <1>1, <3>2, FS_CardinalityType
  <2> DEFINE bad == {n \in 0..N : ~(n + 1 <= Cardinality(g[n]))}
  <2>2. bad = {}
    <3> SUFFICES ASSUME bad # {} PROVE FALSE
      OBVIOUS
    <3>1. PICK m \in bad : \A j \in bad : m <= j
      <4>1. bad \in SUBSET Nat
        OBVIOUS
      <4> HIDE DEF bad
      <4> QED
        BY <4>1, Smallest
    <3>2. m \in 0..N /\ ~(m + 1 <= Cardinality(g[m]))
      BY <3>1
    <3>3. m # 0
      <4>1. Cardinality(g[0]) = 1
        BY <1>3, FS_Singleton
      <4> QED
        BY <3>2, <4>1
    <3>4. PICK n \in 0..N : n \in Nat /\ n < N /\ m = n + 1 /\ n + 1 <= Cardinality(g[n])
      <4>1. m - 1 \in 0..N /\ m - 1 \in Nat /\ m - 1 < N /\ m = (m - 1) + 1 /\ ~(m <= m - 1)
        BY <3>2, <3>3
      <4>2. m - 1 \notin bad
        BY <3>1, <4>1
      <4> QED
        BY <4>1, <4>2
    <3>5. g[n] \subseteq g[m] /\ g[n] # g[m]
      BY <1>5, <3>4
    <3>6. Cardinality(g[n]) <= Cardinality(g[m]) /\ Cardinality(g[n]) # Cardinality(g[m])
      BY <2>1, <3>2, <3>5, FS_Subset
    <3>7. PICK x, y \in Nat : x = Cardinality(g[n]) /\ y = Cardinality(g[m])
      BY <2>1, <3>2
    <3>8. n + 1 <= x /\ x <= y /\ x # y /\ m = n + 1 /\ ~(m + 1 <= y)
      BY <3>2, <3>4, <3>6, <3>7
    <3> QED
      BY <3>7, <3>8
  <2>3. N \in 0..N
    OBVIOUS
  <2>4. N + 1 <= Cardinality(g[N])
    BY <2>2, <2>3
  <2>5. PICK x \in Nat : x = Cardinality(g[N]) /\ x <= N
    BY <2>1, <2>3
  <2> QED
    BY <2>4, <2>5
<1>7. PICK k \in Nat : k < N /\ g[k + 1] = g[k]
  BY <1>6
<1>8. Closed(g[k], S)
  BY <1>3, <1>7 DEF Closed
<1>9. k \in 0..N /\ N \in 0..N
  BY <1>7
<1>10. g[N] \subseteq g[k]
  BY <1>4, <1>8, <1>9
<1>11. \A m \in k..N : g[k] \subseteq g[m]
  <2> DEFINE bad == {m \in k..N : ~(g[k] \subseteq g[m])}
  <2> SUFFICES ASSUME bad # {} PROVE FALSE
    OBVIOUS
  <2>1. PICK m \in bad : \A j \in bad : m <= j
    <3>1. bad \in SUBSET Nat
      OBVIOUS
    <3> HIDE DEF bad
    <3> QED
      BY <3>1, Smallest
  <2>2. m \in k..N /\ ~(g[k] \subseteq g[m]) /\ m # k
    BY <2>1
  <2>3. PICK n \in Nat : m = n + 1 /\ n \in k..N /\ n < N /\ ~(m <= n)
    <3>1. m - 1 \in Nat /\ m = (m - 1) + 1 /\ m - 1 \in k..N /\ m - 1 < N /\ ~(m <= m - 1)
      BY <2>2
    <3> QED
      BY <3>1
  <2>4. g[k] \subseteq g[n]
    BY <2>1, <2>3
  <2> QED
    BY <1>5, <2>2, <2>3, <2>4
<1>12. g[N] = g[k]
  <2>1. N \in k..N
    BY <1>7
  <2> QED
    BY <1>10, <1>11, <2>1
<1> QED
  BY <1>2, <1>4, <1>8, <1>9, <1>12

(* Every cell of a region has that region.                                 *)
LEMMA SameRegion ==
  ASSUME NEW S \in SUBSET Pixels, IsFiniteSet(S), NEW c \in S, NEW d \in RegionOf(S, c)
  PROVE  d \in S /\ RegionOf(S, d) = RegionOf(S, c)
<1>1. PICK R : R = RegionOf(S, c)
  OBVIOUS
<1>2. c \in R /\ R \subseteq S /\ Closed(R, S) /\ \A T \in SUBSET S : c \in T /\ Closed(T, S) => R \subseteq T
  BY <1>1, RegionIs
<1>3. d \in S
  BY <1>1, <1>2
<1>4. PICK Q : Q = RegionOf(S, d)
  OBVIOUS
<1>5. d \in Q /\ Q \subseteq S /\ Closed(Q, S) /\ \A T \in SUBSET S : d \in T /\ Closed(T, S) => Q \subseteq T
  BY <1>3, <1>4, RegionIs
<1>6. Q \subseteq R
  BY <1>1, <1>2, <1>5
<1>7. c \in Q
  <2> SUFFICES ASSUME c \notin Q PROVE FALSE
    OBVIOUS
  <2>1. Closed(R \ Q, S)
    <3> SUFFICES ASSUME NEW x \in R \ Q, NEW y \in Touching(x) \cap S PROVE y \in R \ Q
      BY DEF Closed
    <3>1. y \in R
      BY <1>2 DEF Closed
    <3>2. x \in Touching(y) /\ x \in S
      BY <1>2, TouchingIsMutual
    <3>3. y \notin Q
      BY <1>5, <3>2 DEF Closed
    <3> QED
      BY <3>1, <3>3
  <2>2. R \ Q \in SUBSET S /\ c \in R \ Q
    BY <1>2
  <2>3. R \subseteq R \ Q
    BY <1>2, <2>1, <2>2
  <2> QED
    BY <1>1, <1>5, <2>3
<1>8. R \subseteq Q
  BY <1>2, <1>5, <1>7
<1> QED
  BY <1>1, <1>3, <1>4, <1>6, <1>8

(* When whole regions are taken out of a set, the others stay what they    *)
(* were.                                                                   *)
LEMMA RegionsLeft ==
  ASSUME NEW S \in SUBSET Pixels, IsFiniteSet(S), NEW K \in SUBSET Regions(S),
         NEW c \in S \ UNION K
  PROVE  /\ RegionOf(S \ UNION K, c) = RegionOf(S, c)
         /\ RegionOf(S, c) \in Regions(S) \ K
<1>1. PICK T : T = S \ UNION K
  OBVIOUS
<1>2. T \in SUBSET Pixels /\ IsFiniteSet(T) /\ c \in T /\ T \subseteq S
  BY <1>1, FS_Subset
<1>3. PICK R : R = RegionOf(S, c)
  OBVIOUS
<1>4. c \in R /\ R \subseteq S /\ Closed(R, S) /\ \A X \in SUBSET S : c \in X /\ Closed(X, S) => R \subseteq X
  BY <1>2, <1>3, RegionIs
<1>5. PICK Q : Q = RegionOf(T, c)
  OBVIOUS
<1>6. c \in Q /\ Q \subseteq T /\ Closed(Q, T) /\ \A X \in SUBSET T : c \in X /\ Closed(X, T) => Q \subseteq X
  BY <1>2, <1>5, RegionIs
<1>7. R \in Regions(S) \ K
  <2>1. R \in Regions(S)
    BY <1>2, <1>3 DEF Regions
  <2>2. R \notin K
    BY <1>1, <1>2, <1>4
  <2> QED
    BY <2>1, <2>2
<1>8. R \subseteq T
  <2> SUFFICES ASSUME NEW x \in R, x \notin T PROVE FALSE
    OBVIOUS
  <2>1. x \in S
    BY <1>4
  <2>2. PICK X \in K : x \in X
    BY <1>1, <2>1
  <2>3. PICK e \in S : X = RegionOf(S, e)
    BY DEF Regions
  <2>4. RegionOf(S, x) = RegionOf(S, e)
    BY <2>2, <2>3, SameRegion
  <2>5. RegionOf(S, x) = R
    BY <1>2, <1>3, SameRegion
  <2> QED
    BY <1>7, <2>3, <2>4, <2>5
<1>9. Closed(R, T)
  BY <1>2, <1>4 DEF Closed
<1>10. Q \subseteq R
  BY <1>4, <1>6, <1>8, <1>9
<1>11. Closed(Q, S)
  <2> SUFFICES ASSUME NEW x \in Q, NEW y \in Touching(x) \cap S PROVE y \in Q
    BY DEF Closed
  <2>1. y \in R
    BY <1>4, <1>10 DEF Closed
  <2> QED
    BY <1>6, <1>8, <2>1 DEF Closed
<1>12. R \subseteq Q
  BY <1>2, <1>4, <1>6, <1>11
<1> QED
  BY <1>1, <1>3, <1>5, <1>7, <1>10, <1>12

(* A grid has so many cells.                                               *)
LEMMA PixelsAreFinite == IsFiniteSet(Pixels)
<1>1. IsFiniteSet(1..Rows) /\ IsFiniteSet(1..Cols)
  BY SurfaceAssumption, FS_Interval
<1> QED
  BY <1>1, FS_Product DEF Pixels

(* A region is of cells of its set.                                        *)
LEMMA RegionsAreWithin ==
  ASSUME NEW S \in SUBSET Pixels
  PROVE  IsFiniteSet(S) /\ \A R \in Regions(S) : R \subseteq S
<1>1. IsFiniteSet(S)
  BY PixelsAreFinite, FS_Subset
<1> QED
  BY <1>1, RegionIs DEF Regions

(* Who is within a reach is within it row by row.                          *)
LEMMA NearByRows ==
  ASSUME NEW c \in Int \X Int, NEW reach \in Nat, NEW d \in Int \X Int,
         Apart(c, d) <= reach * reach
  PROVE  c[1] - reach <= d[1] /\ d[1] <= c[1] + reach
<1>1. c[1] \in Int /\ c[2] \in Int /\ d[1] \in Int /\ d[2] \in Int
  OBVIOUS
<1>2. Apart(c, d) <= reach * reach
  OBVIOUS
<1>3. PICK i, j, k, l \in Int : i = c[1] /\ j = d[1] /\ k = c[2] /\ l = d[2]
  BY <1>1, <1>2
<1>4. PICK x, y \in Int : x = i - j /\ y = k - l
  OBVIOUS
<1>5. x * x + y * y <= reach * reach
  BY <1>2, <1>3, <1>4 DEF Apart
<1>6. y * y >= 0 /\ x * x \in Int /\ y * y \in Int
  OBVIOUS
<1>7. x * x <= reach * reach
  <2>1. PICK p, q, r \in Int : p = x * x /\ q = y * y /\ r = reach * reach
    OBVIOUS
  <2> QED
    BY <1>5, <1>6, <2>1
<1>8. x <= reach
  <2> SUFFICES ASSUME x > reach PROVE FALSE
    OBVIOUS
  <2>1. x * x > reach * reach
    OBVIOUS
  <2>2. PICK p, r \in Int : p = x * x /\ r = reach * reach
    OBVIOUS
  <2> QED
    BY <1>7, <2>1, <2>2
<1>9. -reach <= x
  <2> SUFFICES ASSUME x < -reach PROVE FALSE
    OBVIOUS
  <2>1. (-x) * (-x) > reach * reach /\ (-x) * (-x) = x * x
    OBVIOUS
  <2>2. PICK p, r \in Int : p = x * x /\ r = reach * reach
    OBVIOUS
  <2> QED
    BY <1>7, <2>1, <2>2
<1> QED
  BY <1>2, <1>3, <1>4, <1>8, <1>9

(* The band of a cell, by the row it begins after.                         *)
LEMMA BandOfACell ==
  ASSUME NEW c \in Pixels
  PROVE  BandOf(c) \in Nat /\ BandOf(c) * BandRows < c[1] /\ c[1] <= (BandOf(c) + 1) * BandRows
<1>1. PICK i, rows, m \in Nat : i = c[1] /\ rows = BandRows /\ i >= 1 /\ rows # 0 /\ m = i - 1
  <2>1. PICK i, rows \in Nat : i = c[1] /\ rows = BandRows /\ i >= 1 /\ rows # 0
    BY SurfaceAssumption DEF Pixels
  <2> QED
    BY <2>1
<1>2. m \div rows \in Nat /\ rows * (m \div rows) <= m /\ m < rows * (m \div rows) + rows
  <2>1. m \in Int /\ rows \in Nat \ {0}
    BY <1>1
  <2> QED
    BY <1>1, <2>1, Quotients
<1>3. PICK band \in Nat : band = m \div rows /\ rows * band <= m /\ m < rows * band + rows
  BY <1>2
<1>4. BandOf(c) = band /\ band * rows <= m /\ m < (band + 1) * rows
  <2>1. BandOf(c) = band
    BY <1>1, <1>3 DEF BandOf
  <2>2. rows * band = band * rows /\ (band + 1) * rows = band * rows + rows /\ band * rows \in Int
    BY <1>1
  <2> QED
    BY <1>3, <2>1, <2>2
<1>5. PICK low, high \in Int : low = band * rows /\ high = (band + 1) * rows
  OBVIOUS
<1> QED
  BY <1>1, <1>4, <1>5

(* The trees of a band and its halo say of a cell what all trees say.      *)
LEMMA HaloIsEnough ==
  ASSUME NEW c \in Pixels
  PROVE  ZoneFrom(c, Halo(c)) = ZoneFrom(c, Planted)
<1>1. PICK i, dense, near \in Nat : i = c[1] /\ dense = DenseRadius /\ near = NearRadius /\ near <= dense
  BY SurfaceAssumption DEF Pixels
<1>2. PICK low, high \in Int : /\ low = BandOf(c) * BandRows /\ high = (BandOf(c) + 1) * BandRows
                              /\ low < i /\ i <= high
  <2>1. BandRows \in Nat
    BY SurfaceAssumption
  <2>2. BandOf(c) * BandRows \in Int /\ (BandOf(c) + 1) * BandRows \in Int
    BY <2>1, BandOfACell
  <2> QED
    BY <1>1, <2>2, BandOfACell
<1>3. ASSUME NEW t \in Planted, NEW reach \in {near, dense}, Apart(c, t) <= reach * reach
      PROVE  t \in Halo(c)
  <2>1. c \in Int \X Int /\ t \in Int \X Int
    BY SurfaceAssumption DEF Pixels, Planted
  <2>2. i - reach <= t[1] /\ t[1] <= i + reach
    BY <1>1, <1>3, <2>1, NearByRows
  <2>3. PICK j \in Int : j = t[1]
    BY <2>1
  <2>4. j >= low + 1 - dense /\ j <= high + dense
    BY <1>1, <1>2, <2>2, <2>3
  <2> QED
    BY <1>1, <1>2, <2>3, <2>4 DEF Halo
<1>4. Halo(c) \subseteq Planted
  BY DEF Halo
<1>5. \A reach \in {near, dense} :
        (\E t \in Halo(c) : Apart(c, t) <= reach * reach)
          <=> (\E t \in Planted : Apart(c, t) <= reach * reach)
  BY <1>3, <1>4
<1> QED
  BY <1>1, <1>5 DEF ZoneFrom

(* With no tree to measure from, a band measures from the cell before its  *)
(* rows: out of every cell's reach, but for the first rows of the grid.    *)
LEMMA MeasuredFromNothing ==
  ASSUME NEW c \in Pixels \ Mistaken, Planted # {}, Halo(c) = {}
  PROVE  ZoneFrom(c, {<<RowBefore(c), 1>>}) = "none"
<1>1. PICK i, rows, dense, near \in Nat :
        /\ i = c[1] /\ rows = BandRows /\ rows # 0
        /\ dense = DenseRadius /\ near = NearRadius /\ near <= dense
  BY SurfaceAssumption DEF Pixels
<1>2. PICK band \in Nat : band = BandOf(c)
  BY BandOfACell
<1>3. PICK low, high \in Int : low = band * rows /\ high = (band + 1) * rows
  OBVIOUS
<1>4. low < i /\ i <= high /\ low >= 0 /\ high >= rows
  <2>1. low < i /\ i <= high
    BY <1>1, <1>2, <1>3, BandOfACell
  <2>2. band * rows >= 0 /\ (band + 1) * rows = band * rows + rows
    BY <1>1
  <2> QED
    BY <1>3, <2>1, <2>2
<1>5. ZoneFrom(c, Planted) = "none"
  <2>1. ZoneFrom(c, {}) = "none"
    BY DEF ZoneFrom
  <2> QED
    BY <2>1, HaloIsEnough
<1>6. RowBefore(c) = IF low > dense THEN low - dense ELSE 0
  BY <1>1, <1>2, <1>3 DEF RowBefore
<1>7. PICK row \in Int : row = RowBefore(c)
  <2>1. low \in Int /\ dense \in Int
    BY <1>1, <1>3
  <2>2. RowBefore(c) \in Int
    BY <1>6, <2>1
  <2> QED
    BY <2>2
<1>8. c \in Int \X Int /\ <<row, 1>> \in Int \X Int
  BY SurfaceAssumption DEF Pixels
<1>9. SUFFICES ASSUME NEW reach \in {near, dense}, Apart(c, <<row, 1>>) <= reach * reach PROVE FALSE
  BY <1>1, <1>7 DEF ZoneFrom
<1>10. i - reach <= row
  BY <1>1, <1>8, <1>9, NearByRows
<1>11. CASE low > dense
  BY <1>1, <1>4, <1>6, <1>7, <1>10, <1>11
<1>12. CASE low <= dense
  <2>1. row = 0
    BY <1>6, <1>7, <1>12
  <2>2. reach * reach <= dense * dense
    <3>1. reach \in Nat /\ reach <= dense
      BY <1>1
    <3>2. reach * reach <= reach * dense /\ reach * dense <= dense * dense
      BY <3>1
    <3>3. PICK x, y, z \in Int : x = reach * reach /\ y = reach * dense /\ z = dense * dense
      BY <3>1
    <3> QED
      BY <3>2, <3>3
  <2>3. Apart(c, <<0, 1>>) <= DenseRadius * DenseRadius
    <3>1. Apart(c, <<row, 1>>) \in Int
      BY <1>8 DEF Apart
    <3>2. PICK a, x, z \in Int : a = Apart(c, <<row, 1>>) /\ x = reach * reach /\ z = dense * dense
      BY <1>1, <3>1
    <3>3. a <= z
      BY <1>9, <2>2, <3>2
    <3> QED
      BY <1>1, <2>1, <3>2, <3>3
  <2>4. PICK t \in Planted : ~(t[1] > BandRows + DenseRadius)
    BY <1>5, <2>3 DEF Mistaken
  <2>5. PICK j \in Int : j = t[1] /\ j >= 1
    BY SurfaceAssumption DEF Pixels, Planted
  <2>6. j <= high + dense /\ j >= low + 1 - dense
    BY <1>1, <1>4, <1>12, <2>4, <2>5
  <2>7. t \in Halo(c)
    BY <1>1, <1>2, <1>3, <2>4, <2>5, <2>6 DEF Halo
  <2> QED
    BY <2>7
<1> QED
  BY <1>1, <1>3, <1>11, <1>12

(* What is burnt is what the trees of the whole grid say.                  *)
LEMMA BurntIsMeant ==
  ASSUME NEW c \in Pixels \ Mistaken
  PROVE  (IF Planted = {} THEN "none" ELSE ZoneFrom(c, Measured(c))) = ZoneFrom(c, Planted)
<1>1. ZoneFrom(c, {}) = "none"
  BY DEF ZoneFrom
<1>2. ZoneFrom(c, Halo(c)) = ZoneFrom(c, Planted)
  BY HaloIsEnough
<1>3. CASE Planted # {} /\ Halo(c) = {}
  BY <1>1, <1>2, <1>3, MeasuredFromNothing DEF Measured
<1>4. CASE Planted # {} /\ Halo(c) # {}
  BY <1>2, <1>4 DEF Measured
<1>5. CASE Planted = {}
  BY <1>1, <1>5
<1> QED
  BY <1>3, <1>4, <1>5

(* What the sieve leaves is of the grid.                                   *)
LEMMA SievedIsOfTheGrid ==
  ASSUME NEW S \in SUBSET Pixels
  PROVE  Sieved(S) \in SUBSET Pixels
<1>1. \A R \in Regions(Pixels \ S) : R \subseteq Pixels
  BY RegionsAreWithin
<1> QED
  BY <1>1 DEF Sieved

(* Without the regions that are no crowns, those left are crowns.          *)
LEMMA OnlyCrownsLeft ==
  ASSUME NEW S \in SUBSET Pixels
  PROVE  OnlyCrowns(S) \in SUBSET Pixels /\ \A R \in Regions(OnlyCrowns(S)) : ~NoCrown(R)
<1>1. PICK K : K = {R \in Regions(S) : NoCrown(R)}
  OBVIOUS
<1>2. PICK T : T = OnlyCrowns(S)
  OBVIOUS
<1>3. T = S \ UNION K /\ K \in SUBSET Regions(S)
  BY <1>1, <1>2 DEF OnlyCrowns
<1>4. ASSUME NEW c \in T
      PROVE  ~NoCrown(RegionOf(T, c))
  <2>1. c \in S \ UNION K /\ IsFiniteSet(S)
    BY <1>3, RegionsAreWithin
  <2>2. RegionOf(T, c) = RegionOf(S, c) /\ RegionOf(S, c) \in Regions(S) \ K
    BY <1>3, <2>1, RegionsLeft
  <2> QED
    BY <1>1, <2>2
<1> QED
  BY <1>2, <1>3, <1>4 DEF Regions

(* The crowns nobody has surveyed round are whole regions, none of them    *)
(* judged: the audit is the same without them.                             *)
LEMMA AuditIsOfTheSurveyed ==
  ASSUME NEW S \in SUBSET Pixels, NEW T, NEW known,
         \A c \in Pixels : zones[c] # "none" => c \in known,
         T = {c \in S : RegionOf(S, c) \cap known # {}}
  PROVE  Corroborated(S) = Corroborated(T)
<1>1. PICK K : K = {R \in Regions(S) : R \cap known = {}}
  OBVIOUS
<1>2. IsFiniteSet(S) /\ \A R \in Regions(S) : R \subseteq S
  BY RegionsAreWithin
<1>3. T = S \ UNION K
  <2>1. ASSUME NEW c \in S
        PROVE  c \in UNION K <=> RegionOf(S, c) \cap known = {}
    <3>1. c \in RegionOf(S, c) /\ RegionOf(S, c) \in Regions(S)
      BY <1>2, RegionIs DEF Regions
    <3>2. ASSUME NEW R \in K, c \in R
          PROVE  R = RegionOf(S, c)
      <4>1. PICK e \in S : R = RegionOf(S, e)
        BY <1>1 DEF Regions
      <4> QED
        BY <1>2, <3>2, <4>1, SameRegion
    <3> QED
      BY <1>1, <3>1, <3>2
  <2> QED
    BY <2>1
<1>4. ASSUME NEW R \in K
      PROVE  ~Judged(R)
  <2>1. PICK none : none = {c \in R : zones[c] # "none"}
    OBVIOUS
  <2>2. none = {}
    <3>1. R \subseteq Pixels /\ R \cap known = {}
      BY <1>1, <1>2
    <3> QED
      BY <2>1, <3>1
  <2>3. Cardinality(none) = 0
    BY <2>2, FS_EmptySet
  <2>4. IsFiniteSet(R)
    BY <1>1, <1>2, FS_Subset
  <2>5. Cardinality(R) \in Nat
    BY <2>4, FS_CardinalityType
  <2> QED
    BY <2>1, <2>3, <2>5 DEF Judged
<1>5. Regions(T) = Regions(S) \ K
  <2>1. K \in SUBSET Regions(S)
    BY <1>1
  <2>2. ASSUME NEW c \in T
        PROVE  RegionOf(T, c) = RegionOf(S, c) /\ RegionOf(S, c) \in Regions(S) \ K
    <3>1. c \in S \ UNION K
      BY <1>3
    <3>2. RegionOf(S \ UNION K, c) = RegionOf(S, c) /\ RegionOf(S, c) \in Regions(S) \ K
      BY <1>2, <2>1, <3>1, RegionsLeft
    <3> QED
      BY <1>3, <3>2
  <2>3. ASSUME NEW R \in Regions(S) \ K
        PROVE  R \in Regions(T)
    <3>1. PICK c \in S : R = RegionOf(S, c)
      BY DEF Regions
    <3>2. c \in T
      <4>1. R \cap known # {}
        BY <1>1, <2>3
      <4> QED
        BY <3>1, <4>1
    <3> QED
      BY <2>2, <3>1, <3>2 DEF Regions
  <2>4. Regions(T) \subseteq Regions(S) \ K
    BY <2>2 DEF Regions
  <2> QED
    BY <2>3, <2>4
<1>6. {R \in Regions(S) : Judged(R)} = {R \in Regions(T) : Judged(R)}
  BY <1>4, <1>5
<1>7. {R \in Regions(S) : Judged(R) /\ Reaches(R)} = {R \in Regions(T) : Judged(R) /\ Reaches(R)}
  BY <1>6
<1> QED
  BY <1>6, <1>7 DEF Corroborated

(* What a canopy is, at every stage.                                       *)
CanopyInv == crowns \in SUBSET Pixels /\ CanopyIsSound

(* For any grid, city and thresholds: a region of the canopy is neither    *)
(* flat nor a line, the bands agree with the whole, and where nobody has   *)
(* surveyed the audit judges nothing.                                      *)
THEOREM CanopyIsAlwaysSound == SurfaceSpec => []CanopyIsSound
<1>1. SurfaceInit => CanopyInv
  BY DEF SurfaceInit, CanopyInv, CanopyIsSound, CrownsAreCrowns, BandsAgree, UnsurveyedProvesNothing
<1>2. CanopyInv /\ [SurfaceNext]_surfaceVars => CanopyInv'
  <2> SUFFICES ASSUME CanopyInv, [SurfaceNext]_surfaceVars PROVE CanopyInv'
    OBVIOUS
  <2>1. CASE BinFile \/ EndBinning \/ Relabel \/ CutLines \/ CutSlabs
    <3>1. stage' \in {"binning", "failed", "labels", "lines", "slabs", "canopy"} /\ crowns' = crowns
      BY <2>1 DEF BinFile, EndBinning, Relabel, CutLines, CutSlabs
    <3> QED
      BY <3>1 DEF CanopyInv, CanopyIsSound, CrownsAreCrowns, BandsAgree, UnsurveyedProvesNothing
  <2>2. CASE Mask
    <3>1. stage' = "zones" /\ crowns' = OnlyCrowns(Sieved(Tall)) /\ UNCHANGED <<dsm, dtm>>
      BY <2>2 DEF Mask
    <3>2. ASSUME NEW R PROVE NoCrown(R)' = NoCrown(R)
      BY <3>1 DEF NoCrown, Chm
    <3>3. Sieved(Tall) \in SUBSET Pixels
      <4>1. Tall \in SUBSET Pixels
        BY DEF Tall
      <4> QED
        BY <4>1, SievedIsOfTheGrid
    <3>4. crowns' \in SUBSET Pixels /\ \A R \in Regions(crowns') : ~NoCrown(R)
      BY <3>1, <3>3, OnlyCrownsLeft
    <3> QED
      BY <3>1, <3>2, <3>4
      DEF CanopyInv, CanopyIsSound, CrownsAreCrowns, BandsAgree, UnsurveyedProvesNothing
  <2>3. CASE BurnZones
    <3>1. stage = "zones" /\ stage' = "audit" /\ UNCHANGED <<survey, dsm, dtm, crowns>>
      BY <2>3 DEF BurnZones
    <3>2. ASSUME NEW R PROVE NoCrown(R)' = NoCrown(R)
      BY <3>1 DEF NoCrown, Chm
    <3>3. \A c \in Pixels : zones'[c] = IF Planted = {} THEN "none" ELSE ZoneFrom(c, Measured(c))
      BY <2>3 DEF BurnZones
    <3>4. \A c \in Pixels \ Mistaken : zones'[c] = ZoneFrom(c, Planted)
      BY <3>3, BurntIsMeant
    <3>5. Planted' = Planted /\ Mistaken' = Mistaken
      BY <3>1 DEF Planted, Mistaken
    <3> QED
      BY <3>1, <3>2, <3>4, <3>5
      DEF CanopyInv, CanopyIsSound, CrownsAreCrowns, BandsAgree, UnsurveyedProvesNothing
  <2>4. CASE Audit
    <3>1. /\ stage = "audit" /\ stage' = "built" /\ audit' = Corroborated(crowns)
          /\ UNCHANGED <<survey, dsm, dtm, crowns, zones>>
      BY <2>4 DEF Audit
    <3>2. ASSUME NEW R PROVE NoCrown(R)' = NoCrown(R)
      BY <3>1 DEF NoCrown, Chm
    <3>3. \A c \in Pixels : zones[c] # "none" => c \in InReach \cup Mistaken
      BY <3>1 DEF CanopyInv, CanopyIsSound, BandsAgree, InReach
    <3>4. Planted' = Planted /\ Mistaken' = Mistaken /\ InReach' = InReach
      BY <3>1 DEF Planted, Mistaken, InReach
    <3>6. Corroborated(crowns) =
            Corroborated({c \in crowns : RegionOf(crowns, c) \cap (InReach \cup Mistaken) # {}})
      <4>1. crowns \in SUBSET Pixels
        BY DEF CanopyInv
      <4> QED
        BY <3>3, <4>1, AuditIsOfTheSurveyed
    <3>7. UnsurveyedProvesNothing'
      BY <3>1, <3>4, <3>6 DEF UnsurveyedProvesNothing, Corroborated, Judged, Reaches
    <3>5. CrownsAreCrowns' /\ BandsAgree'
      BY <3>1, <3>2, <3>4 DEF CanopyInv, CanopyIsSound, CrownsAreCrowns, BandsAgree
    <3> QED
      BY <3>1, <3>5, <3>7 DEF CanopyInv, CanopyIsSound
  <2>5. CASE UNCHANGED surfaceVars
    <3>1. UNCHANGED <<survey, dsm, dtm, crowns, zones, stage, audit>>
      BY <2>5 DEF surfaceVars
    <3>2. ASSUME NEW R PROVE NoCrown(R)' = NoCrown(R)
      BY <3>1 DEF NoCrown, Chm
    <3>5. Planted' = Planted /\ Mistaken' = Mistaken /\ InReach' = InReach
      BY <3>1 DEF Planted, Mistaken, InReach
    <3>3. UnsurveyedProvesNothing'
      BY <3>1, <3>5 DEF CanopyInv, CanopyIsSound, UnsurveyedProvesNothing, Corroborated, Judged, Reaches
    <3>4. CrownsAreCrowns' /\ BandsAgree'
      BY <3>1, <3>2, <3>5 DEF CanopyInv, CanopyIsSound, CrownsAreCrowns, BandsAgree
    <3> QED
      BY <3>1, <3>3, <3>4 DEF CanopyInv, CanopyIsSound
  <2> QED
    BY <2>1, <2>2, <2>3, <2>4, <2>5 DEF SurfaceNext
<1>3. CanopyInv => CanopyIsSound
  BY DEF CanopyInv
<1> QED
  BY <1>1, <1>2, <1>3, PTL DEF SurfaceSpec

-----------------------------------------------------------------------------
(* The sums of the heights of some sets of points, each from a smaller.    *)
Sums(f, T) ==
    f = [s \in T |-> IF s = {} THEN 0
                     ELSE (CHOOSE x \in s : TRUE).z + f[s \ {CHOOSE x \in s : TRUE}]]
PartsOf(S, n) == {s \in SUBSET S : Cardinality(s) <= n}

(* The smaller of a set than one that is not empty.                        *)
LEMMA OneLess ==
  ASSUME NEW S, IsFiniteSet(S), S # {}
  PROVE  \E e \in S : /\ e = (CHOOSE x \in S : TRUE)
                      /\ IsFiniteSet(S \ {e}) /\ Cardinality(S \ {e}) \in Nat
                      /\ Cardinality(S) = Cardinality(S \ {e}) + 1
<1>1. PICK e \in S : e = (CHOOSE x \in S : TRUE)
  OBVIOUS
<1>2. IsFiniteSet(S \ {e}) /\ Cardinality(S \ {e}) = Cardinality(S) - 1
  BY <1>1, FS_RemoveElement
<1>3. Cardinality(S \ {e}) \in Nat /\ Cardinality(S) \in Nat
  BY <1>2, FS_CardinalityType
<1>4. Cardinality(S) = Cardinality(S \ {e}) + 1
  BY <1>2, <1>3
<1> QED
  BY <1>1, <1>2, <1>3, <1>4, Zenon

(* They can be summed, whatever their size.                                *)
LEMMA SomethingSums ==
  ASSUME NEW S, IsFiniteSet(S), NEW n \in Nat
  PROVE  \E f : Sums(f, PartsOf(S, n))
<1> DEFINE bad == {m \in Nat : ~\E f : Sums(f, PartsOf(S, m))}
<1> SUFFICES bad = {}
  OBVIOUS
<1> SUFFICES ASSUME bad # {} PROVE FALSE
  OBVIOUS
<1>1. PICK m \in bad : \A k \in bad : m <= k
  <2>1. bad \in SUBSET Nat
    OBVIOUS
  <2> HIDE DEF bad
  <2> QED
    BY <2>1, Smallest
<1>2. m \in Nat /\ ~\E f : Sums(f, PartsOf(S, m))
  BY <1>1
<1>3. \A k \in Nat : \A s \in PartsOf(S, k) :
        s \subseteq S /\ IsFiniteSet(s) /\ Cardinality(s) \in Nat /\ Cardinality(s) <= k
  <2> TAKE k \in Nat
  <2> TAKE s \in PartsOf(S, k)
  <2>1. s \in SUBSET S /\ Cardinality(s) <= k
    BY DEF PartsOf
  <2>2. IsFiniteSet(s)
    BY <2>1, FS_Subset
  <2> QED
    BY <2>1, <2>2, FS_CardinalityType
<1>4. m # 0
  <2> SUFFICES ASSUME m = 0 PROVE FALSE
    OBVIOUS
  <2>1. \A s \in PartsOf(S, m) : s = {}
    <3> TAKE s \in PartsOf(S, m)
    <3>1. IsFiniteSet(s) /\ Cardinality(s) = 0
      BY <1>2, <1>3
    <3> QED
      BY <3>1, FS_EmptySet
  <2>2. PICK f : f = [s \in PartsOf(S, m) |-> 0]
    OBVIOUS
  <2>3. Sums(f, PartsOf(S, m))
    BY <2>1, <2>2 DEF Sums
  <2> QED
    BY <1>2, <2>3
<1>5. PICK k \in Nat : m = k + 1 /\ k \notin bad
  <2>1. m - 1 \in Nat /\ m = (m - 1) + 1 /\ ~(m <= m - 1)
    BY <1>2, <1>4
  <2> QED
    BY <1>1, <2>1
<1>6. PICK f : Sums(f, PartsOf(S, k))
  BY <1>5
<1>7. PICK h : h = [s \in PartsOf(S, m) |-> IF s = {} THEN 0
                       ELSE (CHOOSE x \in s : TRUE).z + f[s \ {CHOOSE x \in s : TRUE}]]
  OBVIOUS
<1>8. PartsOf(S, k) \subseteq PartsOf(S, m)
  <2> SUFFICES ASSUME NEW s \in PartsOf(S, k) PROVE s \in PartsOf(S, m)
    OBVIOUS
  <2>1. s \subseteq S /\ Cardinality(s) \in Nat /\ Cardinality(s) <= k
    BY <1>3
  <2>2. Cardinality(s) <= m
    BY <1>5, <2>1
  <2> QED
    BY <2>1, <2>2 DEF PartsOf
<1>9. \A s \in PartsOf(S, k) : h[s] = f[s]
  <2> TAKE s \in PartsOf(S, k)
  <2>1. f[s] = IF s = {} THEN 0
               ELSE (CHOOSE x \in s : TRUE).z + f[s \ {CHOOSE x \in s : TRUE}]
    BY <1>6 DEF Sums
  <2>2. h[s] = IF s = {} THEN 0
               ELSE (CHOOSE x \in s : TRUE).z + f[s \ {CHOOSE x \in s : TRUE}]
    BY <1>7, <1>8
  <2> QED
    BY <2>1, <2>2
<1>10. \A s \in PartsOf(S, m) : s # {} => s \ {CHOOSE x \in s : TRUE} \in PartsOf(S, k)
  <2> TAKE s \in PartsOf(S, m)
  <2> HAVE s # {}
  <2>1. s \subseteq S /\ IsFiniteSet(s) /\ Cardinality(s) \in Nat /\ Cardinality(s) <= m
    BY <1>2, <1>3
  <2>2. PICK e \in s : /\ e = (CHOOSE x \in s : TRUE) /\ Cardinality(s \ {e}) \in Nat
                       /\ Cardinality(s) = Cardinality(s \ {e}) + 1
    BY <2>1, OneLess
  <2>3. Cardinality(s \ {e}) <= k
    BY <1>5, <2>1, <2>2
  <2> QED
    BY <2>1, <2>2, <2>3 DEF PartsOf
<1>11. Sums(h, PartsOf(S, m))
  <2>1. \A s \in PartsOf(S, m) :
          h[s] = IF s = {} THEN 0
                 ELSE (CHOOSE x \in s : TRUE).z + h[s \ {CHOOSE x \in s : TRUE}]
    <3> TAKE s \in PartsOf(S, m)
    <3>1. h[s] = IF s = {} THEN 0
                 ELSE (CHOOSE x \in s : TRUE).z + f[s \ {CHOOSE x \in s : TRUE}]
      BY <1>7
    <3>2. s # {} => h[s \ {CHOOSE x \in s : TRUE}] = f[s \ {CHOOSE x \in s : TRUE}]
      BY <1>9, <1>10
    <3> QED
      BY <3>1, <3>2
  <2>2. h = [s \in PartsOf(S, m) |-> h[s]]
    BY <1>7
  <2> QED
    BY <2>1, <2>2 DEF Sums
<1> QED
  BY <1>2, <1>11

(* Heights add up to one.                                                  *)
LEMMA HeightsAddUp ==
  ASSUME NEW S, IsFiniteSet(S), \A p \in S : p.z \in Int
  PROVE  Heights(S) \in Int
<1> DEFINE Right(f) == f = [s \in SUBSET S |-> IF s = {} THEN 0
                         ELSE (CHOOSE x \in s : TRUE).z + f[s \ {CHOOSE x \in s : TRUE}]]
<1>1. Heights(S) = (CHOOSE f : Right(f))[S]
  BY DEF Heights, MapThenSumSet, MapThenFoldSet
<1>2. PICK N \in Nat : N = Cardinality(S)
  BY FS_CardinalityType
<1>3. PartsOf(S, N) = SUBSET S
  <2>1. \A s \in SUBSET S : Cardinality(s) <= N
    BY <1>2, FS_Subset
  <2> QED
    BY <2>1 DEF PartsOf
<1>4. \E f : Right(f)
  <2>1. PICK f : Sums(f, PartsOf(S, N))
    BY SomethingSums
  <2>2. Right(f)
    BY <1>3, <2>1 DEF Sums
  <2> HIDE DEF Right
  <2> QED
    BY <2>2
<1> HIDE DEF Right
<1>5. PICK f : Right(f) /\ Heights(S) = f[S]
  BY <1>1, <1>4
<1>6. \A s \in SUBSET S : f[s] = IF s = {} THEN 0
                           ELSE (CHOOSE x \in s : TRUE).z + f[s \ {CHOOSE x \in s : TRUE}]
  BY <1>5 DEF Right
<1> DEFINE bad == {n \in Nat : \E s \in SUBSET S : Cardinality(s) = n /\ f[s] \notin Int}
<1>7. bad = {}
  <2> SUFFICES ASSUME bad # {} PROVE FALSE
    OBVIOUS
  <2>1. PICK m \in bad : \A k \in bad : m <= k
    <3>1. bad \in SUBSET Nat
      OBVIOUS
    <3> HIDE DEF bad
    <3> QED
      BY <3>1, Smallest
  <2>2. PICK s \in SUBSET S : Cardinality(s) = m /\ f[s] \notin Int
    BY <2>1
  <2>3. s # {}
    BY <1>6, <2>2
  <2>4. IsFiniteSet(s)
    BY FS_Subset
  <2>5. PICK e \in s : /\ e = (CHOOSE x \in s : TRUE) /\ Cardinality(s \ {e}) \in Nat
                       /\ Cardinality(s) = Cardinality(s \ {e}) + 1
    BY <2>3, <2>4, OneLess
  <2>6. PICK t \in SUBSET S : t = s \ {e}
    OBVIOUS
  <2>7. Cardinality(t) \in Nat /\ ~(m <= Cardinality(t))
    BY <2>2, <2>5, <2>6
  <2>8. f[t] \in Int
    BY <2>1, <2>7
  <2>9. f[s] = e.z + f[t]
    BY <1>6, <2>3, <2>5, <2>6
  <2>10. e.z \in Int
    OBVIOUS
  <2> QED
    BY <2>2, <2>8, <2>9, <2>10
<1>8. f[S] \in Int
  BY <1>2, <1>7
<1> QED
  BY <1>5, <1>8

(* Of two numbers the higher is one of them, and not below either.         *)
LEMMA HigherOfTwo ==
  ASSUME NEW i \in Int, NEW j \in Int
  PROVE  Max({i, j}) \in {i, j} /\ i <= Max({i, j}) /\ j <= Max({i, j})
<1>1. IsFiniteSet({i, j})
  <2>1. IsFiniteSet({i}) /\ IsFiniteSet({j}) /\ {i, j} = {i} \cup {j}
    BY FS_Singleton
  <2> QED
    BY <2>1, FS_Union
<1>2. PICK S : S = {i, j}
  OBVIOUS
<1>3. S \in SUBSET Int /\ IsFiniteSet(S) /\ S # {} /\ i \in S /\ j \in S
  BY <1>1, <1>2
<1>4. Max(S) \in S /\ \A x \in S : x <= Max(S)
  BY <1>3, Extremes
<1> QED
  BY <1>2, <1>3, <1>4

(* What tops points is the highest of them.                                *)
LEMMA TopIs ==
  ASSUME NEW A, IsFiniteSet(A), \A p \in A : p.z \in Int
  PROVE  /\ A = {} => Top(A) = None
         /\ A # {} => /\ Top(A) \in Int
                      /\ \A p \in A : p.z <= Top(A)
                      /\ \E p \in A : p.z = Top(A)
<1>1. A = {} => Top(A) = None
  BY DEF Top
<1>2. ASSUME A # {}
      PROVE  /\ Top(A) \in Int /\ \A p \in A : p.z <= Top(A)
             /\ \E p \in A : p.z = Top(A)
  <2>1. PICK f : f = [p \in A |-> p.z]
    OBVIOUS
  <2>2. PICK Z : Z = {f[p] : p \in A}
    OBVIOUS
  <2>3. IsFiniteSet(Z)
    <3>1. DOMAIN f = A /\ f = [p \in A |-> f[p]]
      BY <2>1
    <3> QED
      BY <2>2, <3>1, ImageIsFinite
  <2>4. Z = {p.z : p \in A} /\ Z \in SUBSET Int /\ Z # {}
    BY <1>2, <2>1, <2>2
  <2>5. Max(Z) \in Z /\ \A x \in Z : x <= Max(Z)
    BY <2>3, <2>4, Extremes
  <2>6. Top(A) = Max(Z)
    BY <1>2, <2>4 DEF Top
  <2> QED
    BY <2>4, <2>5, <2>6
<1> QED
  BY <1>1, <1>2

(* Two tops together are the top of both.                                  *)
LEMMA TopsTogether ==
  ASSUME NEW A, IsFiniteSet(A), NEW B, IsFiniteSet(B), NEW C, C = A \cup B,
         \A p \in C : p.z \in Int
  PROVE  Higher(Top(A), Top(B)) = Top(C)
<1>1. IsFiniteSet(C)
  BY FS_Union
<1>2. None \notin Int
  BY SurfaceAssumption
<1>3. CASE A = {}
  <2>1. Top(A) = None /\ C = B
    BY <1>3, TopIs
  <2> QED
    BY <2>1 DEF Higher
<1>4. CASE A # {} /\ B = {}
  <2>1. Top(B) = None /\ C = A /\ Top(A) \in Int
    BY <1>4, TopIs
  <2> QED
    BY <1>2, <2>1 DEF Higher
<1>5. CASE A # {} /\ B # {}
  <2>1. PICK i \in Int : i = Top(A) /\ (\A p \in A : p.z <= i) /\ (\E p \in A : p.z = i)
    BY <1>5, TopIs
  <2>2. PICK j \in Int : j = Top(B) /\ (\A p \in B : p.z <= j) /\ (\E p \in B : p.z = j)
    BY <1>5, TopIs
  <2>3. PICK k \in Int : k = Top(C) /\ (\A p \in C : p.z <= k) /\ (\E p \in C : p.z = k)
    BY <1>1, <1>5, TopIs
  <2>4. PICK m : m = Max({i, j})
    OBVIOUS
  <2>5. m \in {i, j} /\ i <= m /\ j <= m
    BY <2>4, HigherOfTwo
  <2>6. m <= k
    BY <2>1, <2>2, <2>3, <2>5
  <2>7. k <= m
    <3>1. PICK p \in C : p.z = k
      BY <2>3
    <3>2. k <= i \/ k <= j
      BY <2>1, <2>2, <3>1
    <3> QED
      BY <2>5, <3>2
  <2>8. Higher(Top(A), Top(B)) = m
    BY <1>2, <2>1, <2>2, <2>4 DEF Higher
  <2> QED
    BY <2>3, <2>5, <2>6, <2>7, <2>8
<1> QED
  BY <1>3, <1>4, <1>5

(* Of finitely many points, those that top a cell are such.                *)
LEMMA FirstsAreFew ==
  ASSUME NEW points, IsFiniteSet(points), NEW c, NEW kinds
  PROVE  /\ Firsts(points, c, kinds) \subseteq points
         /\ IsFiniteSet(Firsts(points, c, kinds))
         /\ SoilOf(points, c) \subseteq points /\ IsFiniteSet(SoilOf(points, c))
<1>1. Firsts(points, c, kinds) \subseteq points /\ SoilOf(points, c) \subseteq points
  BY DEF Firsts, SoilOf, Kept
<1> QED
  BY <1>1, FS_Subset

(* The one that so many cells do not pass is one of theirs.                *)
LEMMA RankedIsOne ==
  ASSUME NEW S, IsFiniteSet(S), \A c \in S : Chm(c) \in Int,
         NEW k \in Nat, S # {}, k <= Cardinality(S)
  PROVE  \E d \in S : Ranked(S, k) = Chm(d)
<1>1. PICK f : f = [c \in S |-> Chm(c)]
  OBVIOUS
<1>2. PICK Z : Z = {f[c] : c \in S}
  OBVIOUS
<1>3. IsFiniteSet(Z) /\ Z = {Chm(c) : c \in S} /\ Z \in SUBSET Int /\ Z # {}
  <2>1. DOMAIN f = S /\ f = [c \in S |-> f[c]]
    BY <1>1
  <2>2. IsFiniteSet(Z)
    BY <1>2, <2>1, ImageIsFinite
  <2> QED
    BY <1>1, <1>2, <2>2
<1>4. PICK m \in S : \A c \in S : Chm(c) <= Chm(m)
  <2>1. Max(Z) \in Z /\ \A x \in Z : x <= Max(Z)
    BY <1>3, Extremes
  <2> QED
    BY <1>3, <2>1
<1>5. PICK V : V = {Chm(c) : c \in {d \in S : Cardinality({e \in S : Chm(e) <= Chm(d)}) >= k}}
  OBVIOUS
<1>6. V \subseteq Z /\ Ranked(S, k) = Min(V)
  BY <1>3, <1>5 DEF Ranked
<1>7. V # {}
  <2>1. {e \in S : Chm(e) <= Chm(m)} = S
    BY <1>4
  <2>2. Cardinality({e \in S : Chm(e) <= Chm(m)}) >= k
    BY <2>1, FS_CardinalityType
  <2>3. m \in {d \in S : Cardinality({e \in S : Chm(e) <= Chm(d)}) >= k}
    BY <2>2
  <2> QED
    BY <1>5, <2>3
<1>8. Min(V) \in V
  <2>1. IsFiniteSet(V) /\ V \in SUBSET Int
    BY <1>3, <1>6, FS_Subset
  <2> QED
    BY <1>7, <2>1, Extremes
<1> QED
  BY <1>3, <1>6, <1>8

(* Who is lower than a roof by more than the tolerance is lower than its   *)
(* median by as much.                                                      *)
LEMMA MedianIsOfTheRoof ==
  ASSUME NEW S, IsFiniteSet(S), S # {}, NEW low \in Int, NEW by \in Int,
         \A c \in S : Chm(c) \in Int /\ low < Chm(c) - by
  PROVE  TwiceMedian(S) \in Int /\ 2 * low < TwiceMedian(S) - 2 * by
<1>1. PICK n \in Nat : n = Cardinality(S) /\ n # 0
  BY FS_CardinalityType, FS_EmptySet
<1>2. PICK i, j \in Nat : i = (n + 1) \div 2 /\ j = (n \div 2) + 1 /\ i <= n /\ j <= n
  <2>1. PICK p, q : p = (n + 1) \div 2 /\ q = n \div 2
    OBVIOUS
  <2>2. p \in Nat /\ 2 * p <= n + 1 /\ q \in Nat /\ 2 * q <= n
    BY <2>1, Quotients
  <2> QED
    BY <1>1, <2>1, <2>2
<1>3. PICK c \in S : Ranked(S, i) = Chm(c)
  BY <1>1, <1>2, RankedIsOne
<1>4. PICK d \in S : Ranked(S, j) = Chm(d)
  BY <1>1, <1>2, RankedIsOne
<1>5. TwiceMedian(S) = Chm(c) + Chm(d)
  BY <1>1, <1>2, <1>3, <1>4 DEF TwiceMedian
<1>6. PICK x, y \in Int : x = Chm(c) /\ y = Chm(d) /\ low < x - by /\ low < y - by
  BY <1>3, <1>4
<1> QED
  BY <1>5, <1>6

-----------------------------------------------------------------------------
(* What is about a cell has it in its own surroundings.                    *)
LEMMA WindowsAreMutual ==
  ASSUME NEW c \in Pixels
  PROVE  /\ c \in Window(c) /\ Window(c) \subseteq Pixels /\ IsFiniteSet(Window(c))
         /\ \A d \in Window(c) : c \in Window(d)
<1>1. \A d \in Pixels : d[1] \in Int /\ d[2] \in Int
  BY SurfaceAssumption DEF Pixels
<1>2. Window(c) \subseteq Pixels
  BY DEF Window
<1>3. c \in Window(c) /\ \A d \in Window(c) : c \in Window(d)
  <2>1. PICK half \in Nat : half = OpeningHalf
    BY SurfaceAssumption
  <2>2. \A i, j \in Int : /\ i - j \in -half..half => j - i \in -half..half
                          /\ i - i \in -half..half
    BY <2>1
  <2> QED
    BY <1>1, <1>2, <2>1, <2>2 DEF Window
<1> QED
  BY <1>2, <1>3, RegionsAreWithin

(* The lowest and the highest of the heights of some cells.                *)
LEMMA HeightsHaveEnds ==
  ASSUME NEW h \in [Pixels -> Int], NEW W \in SUBSET Pixels, W # {}
  PROVE  /\ Min({h[d] : d \in W}) \in Int /\ \A d \in W : Min({h[d2] : d2 \in W}) <= h[d]
         /\ \E d \in W : Max({h[d2] : d2 \in W}) = h[d]
<1>1. PICK f : f = [d \in W |-> h[d]]
  OBVIOUS
<1>2. PICK Z : Z = {f[d] : d \in W}
  OBVIOUS
<1>3. Z = {h[d] : d \in W} /\ Z \in SUBSET Int /\ Z # {} /\ IsFiniteSet(Z)
  <2>1. IsFiniteSet(W)
    BY RegionsAreWithin
  <2>2. DOMAIN f = W /\ f = [d \in W |-> f[d]]
    BY <1>1
  <2>3. IsFiniteSet(Z)
    BY <1>2, <2>1, <2>2, ImageIsFinite
  <2> QED
    BY <1>1, <1>2, <2>3
<1>4. /\ Min(Z) \in Z /\ \A x \in Z : Min(Z) <= x
      /\ Max(Z) \in Z /\ \A x \in Z : x <= Max(Z)
  BY <1>3, Extremes
<1> QED
  BY <1>3, <1>4

(* An opening is never above what is opened.                               *)
LEMMA OpenedIsBelow ==
  ASSUME NEW h \in [Pixels -> Int], NEW c \in Pixels
  PROVE  Opened(h)[c] \in Int /\ Opened(h)[c] <= h[c]
<1>1. PICK e : e = [d \in Pixels |-> Min({h[d2] : d2 \in Window(d)})]
  OBVIOUS
<1>2. e \in [Pixels -> Int] /\ \A d \in Window(c) : e[d] <= h[c]
  <2>1. ASSUME NEW d \in Pixels
        PROVE  e[d] \in Int /\ \A x \in Window(d) : e[d] <= h[x]
    <3>1. Window(d) \in SUBSET Pixels /\ Window(d) # {}
      BY WindowsAreMutual
    <3>2. e[d] = Min({h[d2] : d2 \in Window(d)})
      BY <1>1
    <3> QED
      BY <3>1, <3>2, HeightsHaveEnds
  <2>2. e = [d \in Pixels |-> e[d]]
    BY <1>1
  <2> QED
    BY <2>1, <2>2, WindowsAreMutual
<1>3. Opened(h)[c] = Max({e[d] : d \in Window(c)})
  BY <1>1 DEF Opened
<1>4. PICK d \in Window(c) : Max({e[d2] : d2 \in Window(c)}) = e[d]
  <2>1. Window(c) \in SUBSET Pixels /\ Window(c) # {}
    BY WindowsAreMutual
  <2> QED
    BY <1>2, <2>1, HeightsHaveEnds
<1>5. d \in Pixels
  BY WindowsAreMutual
<1> QED
  BY <1>2, <1>3, <1>4, <1>5

-----------------------------------------------------------------------------
(* What has been binned, and the raster of it.                             *)
Binned(n) == UNION {survey.files[i] : i \in 1..n}
Counted ==
    /\ survey \in Surveys /\ binned \in 0..Len(survey.files)
    /\ highest = [k \in DOMAIN Layers |->
                    [c \in Pixels |-> Top(Firsts(Binned(binned), c, Layers[k]))]]
    /\ DOMAIN ground = Pixels
    /\ \A c \in Pixels : ground[c].sum \in Int /\ ground[c].count \in Nat
    /\ stage # "binning" => binned = Len(survey.files)

(* The surface has its heights, and nothing is cut from it before its time.*)
Raised ==
    stage \notin {"binning", "failed"} =>
        /\ dsm \in [Pixels -> Int] /\ dtm \in [Pixels -> Int] /\ raw \in [Pixels -> Int]
        /\ \A c \in Pixels : dtm[c] <= dsm[c] /\ dsm[c] <= raw[c]
        /\ stage \in {"labels", "lines"} => dsm = raw
        /\ stage = "labels" => cover = [c \in Pixels |-> LabelOf(highest, c)]

RasterInv == Counted /\ Raised /\ PatioTreesSurvive /\ WholeOrNotAtAll

(* Some files are finitely many points, and one more adds its own.         *)
LEMMA BinnedIs ==
  ASSUME survey \in Surveys
  PROVE  /\ Len(survey.files) \in Nat /\ Binned(0) = {}
         /\ Everypoint = Binned(Len(survey.files))
         /\ \A n \in 0..Len(survey.files) :
              IsFiniteSet(Binned(n)) /\ \A p \in Binned(n) : p.z \in Int
         /\ \A n \in 0..Len(survey.files) : n # Len(survey.files) =>
              /\ n + 1 \in 0..Len(survey.files)
              /\ Binned(n + 1) = Binned(n) \cup survey.files[n + 1]
              /\ IsFiniteSet(survey.files[n + 1])
              /\ \A p \in survey.files[n + 1] : p.z \in Int
<1>1. PICK N \in Nat : N = Len(survey.files) /\ DOMAIN survey.files = 1..N
  BY SurfaceAssumption
<1>2. \A i \in 1..N : IsFiniteSet(survey.files[i]) /\ \A p \in survey.files[i] : p.z \in Int
  BY <1>1, SurfaceAssumption
<1>3. Everypoint = Binned(N)
  BY <1>1 DEF Everypoint, Binned
<1>4. Binned(0) = {}
  <2>1. \A i \in 1..0 : FALSE
    OBVIOUS
  <2> QED
    BY <2>1 DEF Binned
<1>5. ASSUME NEW n \in 0..N
      PROVE  IsFiniteSet(Binned(n)) /\ \A p \in Binned(n) : p.z \in Int
  <2>1. PICK f : f = [i \in 1..n |-> survey.files[i]]
    OBVIOUS
  <2>2. PICK F : F = {f[i] : i \in 1..n}
    OBVIOUS
  <2>3. IsFiniteSet(F)
    <3>1. PICK I : I = 1..n
      OBVIOUS
    <3>2. IsFiniteSet(I)
      BY <3>1, FS_Interval
    <3>3. DOMAIN f = I /\ f = [e \in I |-> f[e]] /\ F = {f[e] : e \in I}
      BY <2>1, <2>2, <3>1
    <3> QED
      BY <3>2, <3>3, ImageIsFinite
  <2>4. Binned(n) = UNION F
    BY <2>1, <2>2 DEF Binned
  <2>5. \A T \in F : IsFiniteSet(T) /\ \A p \in T : p.z \in Int
    BY <1>2, <2>1, <2>2
  <2>6. IsFiniteSet(UNION F)
    BY <2>3, <2>5, FS_UNION
  <2> QED
    BY <2>4, <2>5, <2>6
<1>6. ASSUME NEW n \in 0..N, n # N
      PROVE  n + 1 \in 1..N /\ Binned(n + 1) = Binned(n) \cup survey.files[n + 1]
  <2>1. n + 1 \in 1..N /\ 1..(n + 1) = (1..n) \cup {n + 1}
    BY <1>6
  <2> QED
    BY <2>1 DEF Binned
<1> QED
  BY <1>1, <1>2, <1>3, <1>4, <1>5, <1>6

(* Whatever is binned next, what tops each cell stays what tops it of all. *)
LEMMA BinningCounts ==
  ASSUME Counted, BinFile
  PROVE  Counted'
<1>1. PICK n \in Nat : n = binned /\ n \in 0..Len(survey.files) /\ n # Len(survey.files)
  BY BinnedIs DEF Counted, BinFile
<1>2. PICK points : points = survey.files[n + 1]
  OBVIOUS
<1>3. /\ n + 1 \in 0..Len(survey.files) /\ Binned(n + 1) = Binned(n) \cup points
      /\ IsFiniteSet(Binned(n)) /\ IsFiniteSet(points)
      /\ (\A p \in Binned(n) : p.z \in Int) /\ (\A p \in points : p.z \in Int)
  BY <1>1, <1>2, BinnedIs DEF Counted
<1>4. /\ stage = "binning" /\ stage' = "binning" /\ survey' = survey /\ binned' = n + 1
      /\ highest' = [k \in DOMAIN Layers |-> [c \in Pixels |->
                       Higher(highest[k][c], Top(Firsts(points, c, Layers[k])))]]
      /\ ground' = [c \in Pixels |->
                       [sum   |-> ground[c].sum + Heights(SoilOf(points, c)),
                        count |-> ground[c].count + Cardinality(SoilOf(points, c))]]
  BY <1>1, <1>2 DEF BinFile
<1>5. ASSUME NEW k \in DOMAIN Layers, NEW c \in Pixels
      PROVE  Higher(highest[k][c], Top(Firsts(points, c, Layers[k])))
               = Top(Firsts(Binned(n + 1), c, Layers[k]))
  <2>1. PICK A : A = Firsts(Binned(n), c, Layers[k])
    OBVIOUS
  <2>2. PICK B : B = Firsts(points, c, Layers[k])
    OBVIOUS
  <2>3. PICK C : C = Firsts(Binned(n + 1), c, Layers[k])
    OBVIOUS
  <2>4. IsFiniteSet(A) /\ A \subseteq Binned(n) /\ IsFiniteSet(B) /\ B \subseteq points
    BY <1>3, <2>1, <2>2, FirstsAreFew
  <2>5. C = A \cup B
    BY <1>3, <2>1, <2>2, <2>3 DEF Firsts, Kept
  <2>6. \A p \in C : p.z \in Int
    BY <1>3, <2>4, <2>5
  <2>7. highest[k][c] = Top(A)
    BY <1>1, <2>1 DEF Counted
  <2>8. Higher(Top(A), Top(B)) = Top(C)
    BY <2>4, <2>5, <2>6, TopsTogether
  <2> QED
    BY <2>2, <2>3, <2>7, <2>8
<1>6. highest' = [k \in DOMAIN Layers |->
                    [c \in Pixels |-> Top(Firsts(Binned(n + 1), c, Layers[k]))]]
  BY <1>4, <1>5, Zenon
<1>7. \A c \in Pixels : ground'[c].sum \in Int /\ ground'[c].count \in Nat
  <2> TAKE c \in Pixels
  <2>1. PICK A : A = SoilOf(points, c)
    OBVIOUS
  <2>2. IsFiniteSet(A) /\ A \subseteq points
    BY <1>3, <2>1, FirstsAreFew
  <2>3. Heights(A) \in Int
    BY <1>3, <2>2, HeightsAddUp
  <2>4. Cardinality(A) \in Nat
    BY <2>2, FS_CardinalityType
  <2>5. ground'[c].sum = ground[c].sum + Heights(A) /\ ground'[c].count = ground[c].count + Cardinality(A)
    BY <1>4, <2>1
  <2>6. ground[c].sum \in Int /\ ground[c].count \in Nat
    BY DEF Counted
  <2> QED
    BY <2>3, <2>4, <2>5, <2>6
<1>8. Binned(n + 1)' = Binned(n + 1)
  BY <1>4 DEF Binned
<1> QED
  <2>1. /\ survey' \in Surveys /\ binned' \in 0..Len(survey'.files) /\ DOMAIN ground' = Pixels
        /\ stage' = "binning"
    BY <1>3, <1>4 DEF Counted
  <2>2. Binned(binned)' = Binned(n + 1)
    BY <1>4 DEF Binned
  <2> QED
    BY <1>6, <1>7, <2>1, <2>2 DEF Counted

(* A label is of all the points of a cell.                                 *)
LEMMA LabelIs ==
  ASSUME Counted, stage = "labels", cover = [c \in Pixels |-> LabelOf(highest, c)],
         NEW c \in Pixels, NEW F, F = Firsts(Everypoint, c, AnyKind)
  PROVE  /\ cover[c] = "building" <=>
              \E p \in F : p.kind = "building" /\ \A q \in F : q.z - p.z <= Margin
         /\ cover[c] = "vegetation" <=>
              /\ ~\E p \in F : p.kind = "building" /\ \A q \in F : q.z - p.z <= Margin
              /\ \E p \in F : p.kind = "vegetation" /\ \A q \in F : q.z <= p.z
<1>0. PICK roof, leaves :
        /\ roof = {p \in F : p.kind = "building" /\ \A q \in F : q.z - p.z <= Margin}
        /\ leaves = {p \in F : p.kind = "vegetation" /\ \A q \in F : q.z <= p.z}
  OBVIOUS
<1> USE <1>0
<1>1. PICK B : B = {p \in F : p.kind = "building"}
  OBVIOUS
<1>2. PICK V : V = {p \in F : p.kind = "vegetation"}
  OBVIOUS
<1>3. IsFiniteSet(F) /\ IsFiniteSet(B) /\ IsFiniteSet(V) /\ \A p \in F : p.z \in Int
  <2>1. IsFiniteSet(Everypoint) /\ \A p \in Everypoint : p.z \in Int
    <3>1. PICK n : n = Len(survey.files)
      OBVIOUS
    <3>2. n \in 0..n /\ Everypoint = Binned(n)
      BY <3>1, BinnedIs DEF Counted
    <3> QED
      BY <3>1, <3>2, BinnedIs DEF Counted
  <2>2. IsFiniteSet(F) /\ F \subseteq Everypoint
    BY <2>1, FirstsAreFew
  <2>3. B \subseteq F /\ V \subseteq F
    BY <1>1, <1>2
  <2> QED
    BY <2>1, <2>2, <2>3, FS_Subset
<1>4. highest.any[c] = Top(F) /\ highest.building[c] = Top(B) /\ highest.vegetation[c] = Top(V)
  <2>1. Everypoint = Binned(binned)
    BY BinnedIs DEF Counted
  <2>2. /\ "any" \in DOMAIN Layers /\ Layers["any"] = AnyKind
        /\ "building" \in DOMAIN Layers /\ Layers["building"] = {"building"}
        /\ "vegetation" \in DOMAIN Layers /\ Layers["vegetation"] = {"vegetation"}
    BY DEF Layers
  <2>3. B = Firsts(Everypoint, c, {"building"})
    BY <1>1 DEF Firsts, AnyKind
  <2>4. V = Firsts(Everypoint, c, {"vegetation"})
    BY <1>2 DEF Firsts, AnyKind
  <2>5. \A k \in DOMAIN Layers : highest[k][c] = Top(Firsts(Everypoint, c, Layers[k]))
    BY <2>1 DEF Counted
  <2> QED
    BY <2>2, <2>3, <2>4, <2>5
<1>5. cover[c] = LabelOf(highest, c)
  OBVIOUS
<1>6. None \notin Int /\ Margin \in Nat
  BY SurfaceAssumption
<1>7. CASE F = {}
  <2>1. highest.any[c] = None
    BY <1>3, <1>4, <1>7, TopIs
  <2>2. cover[c] = "ground"
    BY <1>5, <2>1 DEF LabelOf
  <2> QED
    BY <1>7, <2>2
<1>8. CASE F # {}
  <2>1. PICK i \in Int : i = highest.any[c] /\ (\A p \in F : p.z <= i) /\ (\E p \in F : p.z = i)
    BY <1>3, <1>4, <1>8, TopIs
  <2>2. roof # {} <=> highest.building[c] # None /\ highest.building[c] >= i - Margin
    <3>1. CASE B = {}
      <4>1. highest.building[c] = None /\ roof = {}
        BY <1>1, <1>3, <1>4, <3>1, TopIs
      <4> QED
        BY <4>1
    <3>2. CASE B # {}
      <4>1. \A p \in B : p.z \in Int
        BY <1>1, <1>3
      <4>2. PICK j \in Int : /\ j = highest.building[c] /\ j # None
                             /\ (\A p \in B : p.z <= j) /\ (\E p \in B : p.z = j)
        BY <1>3, <1>4, <1>6, <3>2, <4>1, TopIs
      <4>3. ASSUME j >= i - Margin
            PROVE  roof # {}
        <5>1. PICK p \in B : p.z = j
          BY <4>2
        <5>2. \A q \in F : q.z - p.z <= Margin
          BY <1>3, <1>6, <2>1, <4>3, <5>1
        <5> QED
          BY <1>1, <5>1, <5>2
      <4>4. ASSUME NEW p \in roof
            PROVE  j >= i - Margin
        <5>1. p \in B /\ p.z \in Int /\ \A q \in F : q.z - p.z <= Margin
          BY <1>1, <1>3
        <5>2. PICK q \in F : q.z = i
          BY <2>1
        <5>3. i - p.z <= Margin /\ p.z <= j
          BY <4>2, <5>1, <5>2
        <5> QED
          BY <1>6, <5>1, <5>3
      <4> QED
        BY <4>2, <4>3, <4>4
    <3> QED
      BY <3>1, <3>2
  <2>3. leaves # {} <=> highest.vegetation[c] = i
    <3>1. CASE V = {}
      <4>1. highest.vegetation[c] = None /\ leaves = {}
        BY <1>2, <1>3, <1>4, <3>1, TopIs
      <4> QED
        BY <1>6, <4>1
    <3>2. CASE V # {}
      <4>1. \A p \in V : p.z \in Int
        BY <1>2, <1>3
      <4>2. PICK j \in Int : /\ j = highest.vegetation[c]
                             /\ (\A p \in V : p.z <= j) /\ (\E p \in V : p.z = j)
        BY <1>3, <1>4, <3>2, <4>1, TopIs
      <4>3. ASSUME j = i
            PROVE  leaves # {}
        BY <1>2, <2>1, <4>2, <4>3
      <4>4. ASSUME NEW p \in leaves
            PROVE  j = i
        <5>1. p \in V /\ p \in F /\ p.z \in Int /\ \A q \in F : q.z <= p.z
          BY <1>2, <1>3
        <5>2. i <= p.z /\ p.z <= i /\ p.z <= j
          BY <2>1, <4>2, <5>1
        <5>3. j <= i
          BY <1>2, <2>1, <4>2
        <5> QED
          BY <5>1, <5>2, <5>3
      <4> QED
        BY <4>2, <4>3, <4>4
    <3> QED
      BY <3>1, <3>2
  <2>4. highest.any[c] # None
    BY <1>6, <2>1
  <2>5. CASE roof # {}
    <3>1. cover[c] = "building"
      BY <1>5, <2>1, <2>2, <2>4, <2>5 DEF LabelOf
    <3> QED
      BY <2>5, <3>1
  <2>6. CASE roof = {} /\ leaves # {}
    <3>1. cover[c] = "vegetation"
      BY <1>5, <2>1, <2>2, <2>3, <2>4, <2>6 DEF LabelOf
    <3> QED
      BY <2>6, <3>1
  <2>7. CASE roof = {} /\ leaves = {}
    <3>1. cover[c] = "ground"
      BY <1>5, <2>1, <2>2, <2>3, <2>4, <2>7 DEF LabelOf
    <3> QED
      BY <2>7, <3>1
  <2> QED
    BY <2>5, <2>6, <2>7
<1>9. /\ (cover[c] = "building") = (roof # {})
      /\ (cover[c] = "vegetation") = (roof = {} /\ leaves # {})
  BY <1>7, <1>8
<1> QED
  BY <1>9

(* So are they all.                                                        *)
LEMMA LabelsFollow ==
  ASSUME Counted, stage = "labels", cover = [c \in Pixels |-> LabelOf(highest, c)]
  PROVE  LabelsAreOfAllPoints
<1>1. ASSUME NEW c \in Pixels
      PROVE  LET firsts == Firsts(Everypoint, c, AnyKind)
                 roof   == {p \in firsts : p.kind = "building"
                                           /\ \A q \in firsts : q.z - p.z <= Margin}
                 leaves == {p \in firsts : p.kind = "vegetation" /\ \A q \in firsts : q.z <= p.z}
             IN /\ (cover[c] = "building") = (roof # {})
                /\ (cover[c] = "vegetation") = (roof = {} /\ leaves # {})
  <2>1. PICK F : F = Firsts(Everypoint, c, AnyKind)
    OBVIOUS
  <2>2. /\ cover[c] = "building" <=>
             \E p \in F : p.kind = "building" /\ \A q \in F : q.z - p.z <= Margin
        /\ cover[c] = "vegetation" <=>
             /\ ~\E p \in F : p.kind = "building" /\ \A q \in F : q.z - p.z <= Margin
             /\ \E p \in F : p.kind = "vegetation" /\ \A q \in F : q.z <= p.z
    BY <2>1, LabelIs
  <2> QED
    BY <2>1, <2>2
<1> QED
  BY <1>1 DEF LabelsAreOfAllPoints

(* The means of the ground are heights, and so is what fills its holes.    *)
LEMMA TerrainIsFilled ==
  ASSUME Counted, NEW f \in Fillings, NEW soil,
         soil = [c \in Pixels |-> IF c \in Known THEN Mean(c) ELSE f[c]]
  PROVE  soil \in [Pixels -> Int]
<1>1. \A c \in Known : c \in Pixels /\ Mean(c) \in Int
  <2> SUFFICES ASSUME NEW c \in Known PROVE c \in Pixels /\ Mean(c) \in Int
    OBVIOUS
  <2>1. c \in Pixels /\ ground[c].count > 0
    BY DEF Known
  <2>2. PICK n \in Nat \ {0} : n = ground[c].count
    BY <2>1 DEF Counted
  <2>3. PICK s \in Int : s = ground[c].sum
    BY <2>1 DEF Counted
  <2>4. s \div n \in Int
    BY Quotients
  <2> QED
    BY <2>1, <2>2, <2>3, <2>4 DEF Mean
<1>2. \A c \in Pixels : c \notin Known => f[c] \in Int
  <2> TAKE c \in Pixels
  <2> HAVE c \notin Known
  <2>1. f[c] \in {Mean(d) : d \in Known \cap Within(c, FillReach)}
    BY DEF Fillings, Holes
  <2> QED
    BY <1>1, <2>1
<1> QED
  BY <1>1, <1>2

(* Where nothing has been read the surface is the terrain, never below it. *)
LEMMA BinningRaises ==
  ASSUME Counted, EndBinning, stage' # "failed"
  PROVE  Raised'
<1>1. /\ stage' = "labels" /\ raw' = dsm' /\ UNCHANGED <<survey, binned, highest, ground>>
      /\ dsm' = [c \in Pixels |-> IF highest.any[c] = None THEN dtm'[c]
                                  ELSE Max({highest.any[c], dtm'[c]})]
      /\ cover' = [c \in Pixels |-> LabelOf(highest, c)]
  BY DEF EndBinning
<1>2. PICK f \in Fillings : dtm' = [c \in Pixels |-> IF c \in Known THEN Mean(c) ELSE f[c]]
  BY <1>1 DEF EndBinning
<1>3. dtm' \in [Pixels -> Int]
  BY <1>2, TerrainIsFilled
<1>4. \A c \in Pixels : dsm'[c] \in Int /\ dtm'[c] <= dsm'[c]
  <2> TAKE c \in Pixels
  <2>1. PICK g \in Int : g = dtm'[c]
    BY <1>3
  <2>2. CASE highest.any[c] = None
    BY <1>1, <2>1, <2>2
  <2>3. CASE highest.any[c] # None
    <3>1. PICK i \in Int : i = highest.any[c]
      <4>1. PICK A : A = Firsts(Binned(binned), c, AnyKind)
        OBVIOUS
      <4>2. IsFiniteSet(Binned(binned)) /\ \A p \in Binned(binned) : p.z \in Int
        BY BinnedIs DEF Counted
      <4>3. IsFiniteSet(A) /\ \A p \in A : p.z \in Int
        BY <4>1, <4>2, FirstsAreFew
      <4>4. "any" \in DOMAIN Layers /\ Layers["any"] = AnyKind
        BY DEF Layers
      <4>5. highest.any[c] = Top(A)
        BY <4>1, <4>4 DEF Counted
      <4> QED
        BY <2>3, <4>3, <4>5, TopIs
    <3>2. dsm'[c] = Max({i, g})
      BY <1>1, <2>1, <2>3, <3>1
    <3>3. Max({i, g}) \in {i, g} /\ g <= Max({i, g})
      BY HigherOfTwo
    <3> QED
      BY <2>1, <3>2, <3>3
  <2> QED
    BY <2>2, <2>3
<1>5. dsm' \in [Pixels -> Int]
  <2>1. dsm' = [c \in Pixels |-> dsm'[c]]
    BY <1>1
  <2> QED
    BY <1>4, <2>1
<1>6. \A c \in Pixels : LabelOf(highest, c)' = LabelOf(highest, c)
  BY <1>1 DEF LabelOf
<1>7. Raised'
  <2>1. cover' = [c \in Pixels |-> LabelOf(highest, c)']
    BY <1>1, <1>6
  <2>2. \A c \in Pixels : dsm'[c] <= raw'[c]
    <3>1. raw' = dsm'
      BY <1>1
    <3> QED
      BY <1>4, <3>1
  <2> QED
    BY <1>1, <1>3, <1>4, <1>5, <2>1, <2>2 DEF Raised
<1> QED
  BY <1>7

(* A plant that is lower than every roof of its footprint by more than the *)
(* tolerance is lower than what it is measured by.                         *)
LEMMA PlantsAreSpared ==
  ASSUME Raised, stage = "labels", Relabel
  PROVE  PatioTreesSurvive'
<1>1. /\ cover' = [c \in Pixels |-> IF IsRoof(c) THEN "building" ELSE cover[c]]
      /\ UNCHANGED <<survey, highest, dsm, dtm>>
  BY DEF Relabel
<1>2. /\ \A c \in Pixels : dsm[c] \in Int /\ dtm[c] \in Int /\ Chm(c) \in Int
      /\ \A c \in Pixels : cover[c] = LabelOf(highest, c)
  BY DEF Raised, Chm
<1>3. ASSUME NEW c \in Drawn, LabelOf(highest, c) = "vegetation",
             \A d \in Drawn : survey.ids[d] = survey.ids[c] /\ LabelOf(highest, d) = "building"
                                => Chm(c) < Chm(d) - RoofTolerance
      PROVE  cover'[c] = "vegetation"
  <2>1. c \in Pixels /\ survey.ids[c] # 0 /\ cover[c] = "vegetation"
    BY <1>2, <1>3 DEF Drawn
  <2>2. ~IsRoof(c)
    <3> SUFFICES ASSUME IsRoof(c) PROVE FALSE
      OBVIOUS
    <3>1. PICK S : S = RoofOf(survey.ids[c])
      OBVIOUS
    <3>2. S # {} /\ 2 * Chm(c) >= TwiceMedian(S) - 2 * RoofTolerance
      BY <3>1 DEF IsRoof
    <3>3. S \in SUBSET Pixels /\ \A d \in S : Chm(d) \in Int /\ Chm(c) < Chm(d) - RoofTolerance
      BY <1>2, <1>3, <2>1, <3>1 DEF RoofOf, Drawn
    <3>4. IsFiniteSet(S)
      BY <3>3, RegionsAreWithin
    <3>5. PICK low, by \in Int : low = Chm(c) /\ by = RoofTolerance
      BY <1>2, <2>1, SurfaceAssumption
    <3>6. \A d \in S : Chm(d) \in Int /\ low < Chm(d) - by
      BY <3>3, <3>5
    <3>7. 2 * low < TwiceMedian(S) - 2 * by /\ TwiceMedian(S) \in Int
      BY <3>2, <3>4, <3>6, MedianIsOfTheRoof
    <3> QED
      BY <3>2, <3>5, <3>7
  <2> QED
    BY <1>1, <2>1, <2>2
<1>4. \A c \in Pixels : LabelOf(highest, c)' = LabelOf(highest, c) /\ Chm(c)' = Chm(c)
  BY <1>1 DEF LabelOf, Chm
<1>5. Drawn' = Drawn /\ Drawn \subseteq Pixels /\ survey' = survey
  BY <1>1 DEF Drawn
<1> QED
  BY <1>3, <1>4, <1>5 DEF PatioTreesSurvive

(* What sticks out of its surroundings is a line that nobody has drawn, and*)
(* is cut as far as its terrain or its surroundings; or it is left.        *)
LEMMA LinesAreCutWhole ==
  ASSUME Raised, stage = "lines", CutLines
  PROVE  /\ dsm' \in [Pixels -> Int]
         /\ \A c \in Pixels : dtm[c] <= dsm'[c] /\ dsm'[c] <= dsm[c]
         /\ WholeOrNotAtAll'
<1>1. PICK P : P = ProtrudingOf(dsm)
  OBVIOUS
<1>2. PICK K : K = {R \in Regions(P) : IsLine(R) /\ R \cap Drawn = {}}
  OBVIOUS
<1>3. PICK o : o = Opened(dsm)
  OBVIOUS
<1>4. /\ dsm' = [c \in Pixels |-> IF c \in UNION K THEN Max({o[c], dtm[c]}) ELSE dsm[c]]
      /\ UNCHANGED <<survey, dtm, raw>>
  BY <1>1, <1>2, <1>3 DEF CutLines, ClutterOf
<1>5. dsm \in [Pixels -> Int] /\ dtm \in [Pixels -> Int] /\ dsm = raw
      /\ \A c \in Pixels : dtm[c] <= dsm[c]
  BY DEF Raised
<1>6. ASSUME NEW c \in Pixels
      PROVE  /\ o[c] \in Int /\ o[c] <= dsm[c] /\ dtm[c] \in Int /\ dsm[c] \in Int
             /\ Max({o[c], dtm[c]}) \in {o[c], dtm[c]} /\ dtm[c] <= Max({o[c], dtm[c]})
  BY <1>3, <1>5, OpenedIsBelow, HigherOfTwo
<1>7. \A c \in Pixels : dsm'[c] \in Int /\ dtm[c] <= dsm'[c] /\ dsm'[c] <= dsm[c]
  <2> TAKE c \in Pixels
  <2>1. CASE c \in UNION K
    <3>1. dsm'[c] = Max({o[c], dtm[c]})
      BY <1>4, <2>1
    <3> QED
      BY <1>5, <1>6, <3>1
  <2>2. CASE c \notin UNION K
    <3>1. dsm'[c] = dsm[c]
      BY <1>4, <2>2
    <3> QED
      BY <1>5, <1>6, <3>1
  <2> QED
    BY <2>1, <2>2
<1>8. dsm' \in [Pixels -> Int]
  <2>1. dsm' = [c \in Pixels |-> dsm'[c]]
    BY <1>4
  <2> QED
    BY <1>7, <2>1
<1>9. P \in SUBSET Pixels /\ IsFiniteSet(P)
  <2>1. P \in SUBSET Pixels
    BY <1>1 DEF ProtrudingOf
  <2> QED
    BY <2>1, RegionsAreWithin
<1>10. ASSUME NEW R \in Regions(P)
       PROVE  \/ \A c \in R : dsm'[c] = raw[c]
              \/ /\ R \cap Drawn = {}
                 /\ \A c \in R : dsm'[c] < raw[c] \/ dsm'[c] = dtm[c]
  <2>1. R \subseteq P
    BY <1>9, RegionsAreWithin
  <2>2. CASE R \in K
    <3>1. R \cap Drawn = {}
      BY <1>2, <2>2
    <3>2. ASSUME NEW c \in R
          PROVE  dsm'[c] < raw[c] \/ dsm'[c] = dtm[c]
      <4>1. c \in Pixels /\ c \in UNION K /\ dsm[c] - o[c] >= Protrusion
        BY <1>1, <1>3, <1>9, <2>1, <2>2 DEF ProtrudingOf
      <4>2. o[c] < dsm[c]
        <5>1. PICK k \in Nat \ {0} : k = Protrusion
          BY SurfaceAssumption
        <5>2. PICK x, y \in Int : x = o[c] /\ y = dsm[c]
          BY <1>6, <4>1
        <5> QED
          BY <4>1, <5>1, <5>2
      <4>3. dsm'[c] = Max({o[c], dtm[c]})
        BY <1>4, <4>1
      <4> QED
        BY <1>5, <1>6, <4>1, <4>2, <4>3
    <3> QED
      BY <3>1, <3>2
  <2>3. CASE R \notin K
    <3>1. ASSUME NEW c \in R
          PROVE  c \notin UNION K
      <4> SUFFICES ASSUME NEW Q \in K, c \in Q PROVE FALSE
        OBVIOUS
      <4>1. PICK d \in P : R = RegionOf(P, d)
        BY DEF Regions
      <4>2. PICK e \in P : Q = RegionOf(P, e)
        BY <1>2 DEF Regions
      <4>3. RegionOf(P, c) = R /\ RegionOf(P, c) = Q
        BY <1>9, <4>1, <4>2, SameRegion
      <4> QED
        BY <2>3, <4>3
    <3>2. \A c \in R : dsm'[c] = raw[c]
      BY <1>4, <1>5, <1>9, <2>1, <3>1
    <3> QED
      BY <3>2
  <2> QED
    BY <2>2, <2>3
<1>11. WholeOrNotAtAll'
  <2>1. ProtrudingOf(raw)' = P
    BY <1>1, <1>4, <1>5 DEF ProtrudingOf, Opened
  <2>2. Drawn' = Drawn /\ raw' = raw /\ dtm' = dtm
    BY <1>4 DEF Drawn
  <2> QED
    BY <1>10, <2>1, <2>2 DEF WholeOrNotAtAll
<1> QED
  BY <1>7, <1>8, <1>11

(* For any grid, city and thresholds: labels are of all the points, however*)
(* they are spread over files, the surface never dips below the terrain or *)
(* rises, a plant below the eaves is no roof, and what sticks out is left  *)
(* or cut whole, and left if it is drawn.                                  *)
THEOREM NothingRealIsEverCut == SurfaceSpec => []NothingRealIsCut
<1>1. SurfaceInit => RasterInv
  <2> SUFFICES ASSUME SurfaceInit PROVE RasterInv
    OBVIOUS
  <2>1. Counted
    <3>1. survey \in Surveys /\ binned = 0 /\ stage = "binning"
      BY DEF SurfaceInit
    <3>2. Binned(0) = {} /\ Len(survey.files) \in Nat
      BY <3>1, BinnedIs
    <3>3. ASSUME NEW c, NEW kinds
          PROVE  Top(Firsts({}, c, kinds)) = None
      <4>1. Firsts({}, c, kinds) = {}
        BY DEF Firsts, Kept
      <4> QED
        BY <4>1 DEF Top
    <3>4. highest = [k \in DOMAIN Layers |->
                       [c \in Pixels |-> Top(Firsts(Binned(binned), c, Layers[k]))]]
      BY <3>1, <3>2, <3>3 DEF SurfaceInit, NoSurface
    <3>5. DOMAIN ground = Pixels
          /\ \A c \in Pixels : ground[c].sum \in Int /\ ground[c].count \in Nat
      BY DEF SurfaceInit
    <3> QED
      BY <3>1, <3>2, <3>4, <3>5 DEF Counted
  <2> QED
    BY <2>1 DEF SurfaceInit, RasterInv, Raised, PatioTreesSurvive, WholeOrNotAtAll
<1>2. RasterInv /\ [SurfaceNext]_surfaceVars => RasterInv'
  <2> SUFFICES ASSUME RasterInv, [SurfaceNext]_surfaceVars PROVE RasterInv'
    OBVIOUS
  <2> USE DEF RasterInv
  <2>1. CASE BinFile
    <3>1. stage' = "binning" /\ Counted'
      BY <2>1, BinningCounts DEF BinFile
    <3> QED
      BY <3>1 DEF Raised, PatioTreesSurvive, WholeOrNotAtAll
  <2>2. ASSUME UNCHANGED <<survey, binned, highest, ground>>,
               stage' # "binning" => binned = Len(survey.files)
        PROVE  Counted'
    <3>1. Binned(binned)' = Binned(binned)
      BY <2>2 DEF Binned
    <3> QED
      BY <2>2, <3>1 DEF Counted
  <2>3. CASE EndBinning
    <3>1. Counted' /\ stage' \in {"failed", "labels"}
      BY <2>2, <2>3 DEF EndBinning
    <3>2. Raised'
      BY <2>3, <3>1, BinningRaises DEF Raised
    <3> QED
      BY <3>1, <3>2 DEF PatioTreesSurvive, WholeOrNotAtAll
  <2>4. CASE Relabel
    <3>1. stage = "labels" /\ stage' = "lines" /\ UNCHANGED <<survey, binned, highest, ground, dsm, dtm, raw>>
      BY <2>4 DEF Relabel
    <3>2. Counted'
      BY <2>2, <3>1 DEF Counted
    <3>3. Raised'
      BY <3>1 DEF Raised
    <3>4. PatioTreesSurvive'
      BY <2>4, <3>1, PlantsAreSpared
    <3> QED
      BY <3>1, <3>2, <3>3, <3>4 DEF WholeOrNotAtAll
  <2>5. CASE CutLines
    <3>1. stage = "lines" /\ stage' = "slabs" /\ UNCHANGED <<survey, binned, highest, ground, dtm, raw>>
      BY <2>5 DEF CutLines
    <3>2. Counted'
      BY <2>2, <3>1 DEF Counted
    <3>3. dsm' \in [Pixels -> Int] /\ WholeOrNotAtAll'
          /\ \A c \in Pixels : dtm[c] <= dsm'[c] /\ dsm'[c] <= dsm[c]
      BY <2>5, <3>1, LinesAreCutWhole
    <3>4. Raised'
      BY <3>1, <3>3 DEF Raised
    <3> QED
      BY <3>1, <3>2, <3>3, <3>4 DEF PatioTreesSurvive
  <2>6. CASE CutSlabs
    <3>1. stage = "slabs" /\ stage' = "canopy" /\ UNCHANGED <<survey, binned, highest, ground, dtm, raw>>
      BY <2>6 DEF CutSlabs
    <3>2. Counted'
      BY <2>2, <3>1 DEF Counted
    <3>3. PICK slabs : dsm' = [c \in Pixels |-> IF c \in slabs THEN dtm[c] ELSE dsm[c]]
      BY <2>6 DEF CutSlabs
    <3>4. Raised'
      BY <3>1, <3>3 DEF Raised
    <3> QED
      BY <3>1, <3>2, <3>4 DEF PatioTreesSurvive, WholeOrNotAtAll
  <2>7. CASE Mask \/ BurnZones \/ Audit
    <3>1. /\ stage \in {"canopy", "zones", "audit"} /\ stage' \in {"zones", "audit", "built"}
          /\ UNCHANGED <<survey, binned, highest, ground, dsm, dtm, raw>>
      BY <2>7 DEF Mask, BurnZones, Audit
    <3>2. Counted'
      BY <2>2, <3>1 DEF Counted
    <3>3. Raised'
      BY <3>1 DEF Raised
    <3> QED
      BY <3>1, <3>2, <3>3 DEF PatioTreesSurvive, WholeOrNotAtAll
  <2>8. CASE UNCHANGED surfaceVars
    <3>1. UNCHANGED <<survey, binned, highest, ground, stage, dsm, dtm, cover, raw>>
      BY <2>8 DEF surfaceVars
    <3>2. Counted'
      BY <2>2, <3>1 DEF Counted
    <3>3. Raised'
      BY <3>1 DEF Raised, LabelOf
    <3>4. PatioTreesSurvive'
      BY <3>1 DEF PatioTreesSurvive, LabelOf, Chm, Drawn
    <3>5. WholeOrNotAtAll'
      BY <3>1 DEF WholeOrNotAtAll, ProtrudingOf, Drawn
    <3> QED
      BY <3>2, <3>3, <3>4, <3>5
  <2> QED
    BY <2>1, <2>3, <2>4, <2>5, <2>6, <2>7, <2>8 DEF SurfaceNext
<1>3. RasterInv => NothingRealIsCut
  <2> SUFFICES ASSUME RasterInv PROVE NothingRealIsCut
    OBVIOUS
  <2>1. LabelsAreOfAllPoints
    <3>1. CASE stage = "labels"
      BY <3>1, LabelsFollow DEF RasterInv, Raised
    <3>2. CASE stage # "labels"
      BY <3>2 DEF LabelsAreOfAllPoints
    <3> QED
      BY <3>1, <3>2
  <2>2. NeverBelowGround
    BY DEF RasterInv, Raised, NeverBelowGround
  <2> QED
    BY <2>1, <2>2 DEF RasterInv, NothingRealIsCut
<1> QED
  BY <1>1, <1>2, <1>3, PTL DEF SurfaceSpec
=============================================================================
