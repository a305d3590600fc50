------------------------------ MODULE CityForm ------------------------------
(***************************************************************************)
(* The console's new-city screen: what is typed, pasted or dropped into    *)
(* the watched folder, the polygon the screen has in hand, the projection  *)
(* and the price it derives from it, and the city it writes.  Files change *)
(* under the screen: a browser exports again, a draft is pasted over.  A   *)
(* save is one event of the screen, and reads the file in hand four times: *)
(* it may be another file each time.                                       *)
(*                                                                         *)
(* A drawing is the interval of longitudes it spans; a zone of the         *)
(* projection is ZoneWidth of them, and is defined over those alone.       *)
(***************************************************************************)
EXTENDS Integers, FiniteSetsExt

CONSTANTS
    Drawings,     \* what a polygon file may hold: [west, east, sound]
    TypedPaths,   \* paths somebody may type
    Points,       \* longitudes somebody may type
    ZoneWidth,    \* degrees in a zone
    Exports,      \* bound: times a file is written
    Draft,        \* the path a pasted drawing is parked at
    Export,       \* the path the browser writes in the watched folder
    Blank         \* nothing there

Paths == TypedPaths \cup {Draft, Export}

VARIABLES
    form,         \* what the fields hold: [id, clock, path, point]
    polygon,      \* the file the screen has in hand
    due,          \* a path was typed and its reading is due
    seen,         \* stamp of the export last adopted
    disk,         \* per path, [stamp, drawing]
    panel,        \* what stands where the price goes: [kind, path]
    said,         \* why the last attempt to save was refused
    saving,       \* the save under way: [at, zone, box, held]
    town          \* what was written: [zone, box, measured, area, held]

formVars == <<form, polygon, due, seen, disk, panel, said, saving, town>>

-----------------------------------------------------------------------------
Zone(x) == x \div ZoneWidth
Middle(d) == (d.west + d.east) \div 2
InUse(d, z) == z * ZoneWidth <= d.west /\ d.east <= (z + 1) * ZoneWidth

(* read_area: the file is there, parses, and encloses something.           *)
Reads(dsk, path) == dsk[path].drawing # Blank /\ dsk[path].drawing.sound

NothingYet == [zone |-> Blank, why |-> Blank]
Because(why) == [zone |-> Blank, why |-> why]
Found(z) == [zone |-> z, why |-> Blank]

(* city_crs: once there is a polygon, the polygon decides.                 *)
CityCrs(f, poly, dsk) ==
    IF poly # Blank
      THEN IF Reads(dsk, poly) THEN Found(Zone(Middle(dsk[poly].drawing)))
           ELSE Because("unreadable")
      ELSE IF f.point # Blank THEN Found(Zone(f.point)) ELSE NothingYet

ObjectionUnchecked(f, poly, dsk, z) ==
    IF ~Reads(dsk, poly) THEN "unreadable" ELSE IF f.clock = "bad" THEN "clock" ELSE "none"

(* What keeps the drawing there from being a city of that zone.            *)
Objection(f, poly, dsk, z) ==
    IF ~Reads(dsk, poly) THEN "unreadable"
    ELSE IF ~InUse(dsk[poly].drawing, z) THEN "outside"
    ELSE IF f.clock = "bad" THEN "clock" ELSE "none"

(* _draft: the city as far as it is known; a reason when it is not one.    *)
DraftOf(f, poly, dsk) ==
    LET crs == CityCrs(f, poly, dsk)
        why == Objection(f, poly, dsk, crs.zone)
    IN IF ~f.id \/ poly = Blank \/ crs.zone = Blank \/ why = "none" THEN crs ELSE Because(why)

IsDraft(f, poly, draft) == f.id /\ poly # Blank /\ draft.zone # Blank

(* refresh_cost: a price, the reason there is none, or what is missing.    *)
PanelOf(f, poly, dsk) ==
    LET draft == DraftOf(f, poly, dsk)
    IN IF IsDraft(f, poly, draft) THEN [kind |-> "price", path |-> poly]
       ELSE [kind |-> IF draft.why # Blank THEN draft.why ELSE "hint", path |-> Blank]

-----------------------------------------------------------------------------
NotSaving == [at |-> "no", zone |-> Blank, box |-> Blank, held |-> {}]

FormInit ==
    /\ form = [id |-> FALSE, clock |-> "blank", path |-> Blank, point |-> Blank]
    /\ polygon = Blank /\ due = FALSE /\ seen = 0
    /\ disk \in {[p \in Paths |-> [stamp |-> 0, drawing |-> Blank]]}
    /\ panel = [kind |-> "hint", path |-> Blank]
    /\ said = Blank /\ saving = NotSaving /\ town = Blank

(* The screen is there, and between two of its events.                     *)
OnScreen == ~(town # Blank /\ town.area # Blank)
AtRest == OnScreen /\ saving = NotSaving

TypeId ==
    /\ AtRest /\ form' = [form EXCEPT !.id = ~@]
    /\ UNCHANGED <<polygon, due, seen, disk, panel, said, saving, town>>

TypeClock ==
    /\ AtRest /\ form' = [form EXCEPT !.clock = IF @ = "bad" THEN "blank" ELSE "bad"]
    /\ UNCHANGED <<polygon, due, seen, disk, panel, said, saving, town>>

(* A map centre; the screen is refreshed at once.                          *)
TypePoint ==
    /\ AtRest
    /\ \E x \in (Points \cup {Blank}) \ {form.point} :
         /\ form' = [form EXCEPT !.point = x]
         /\ panel' = PanelOf(form', polygon, disk)
    /\ UNCHANGED <<polygon, due, seen, disk, said, saving, town>>

LeavePath(path) ==
    /\ form' = [form EXCEPT !.path = path]
    /\ polygon' = IF path # Blank THEN path ELSE polygon
    /\ due' = TRUE

(* on_input_changed: typed or emptied, the field is what is in hand; the   *)
(* file is read after a pause in the typing.                               *)
SetPath(path) ==
    /\ form' = [form EXCEPT !.path = path]
    /\ polygon' = path
    /\ due' = TRUE

TypePath ==
    /\ AtRest
    /\ \E path \in (TypedPaths \cup {Blank}) \ {form.path} : SetPath(path)
    /\ UNCHANGED <<seen, disk, panel, said, saving, town>>

Debounced ==
    /\ AtRest /\ due /\ due' = FALSE
    /\ panel' = PanelOf(form, polygon, disk)
    /\ UNCHANGED <<form, polygon, seen, disk, said, saving, town>>

Newer(path, d) ==
    LET last == Max({disk[p].stamp : p \in Paths})
    IN /\ last < Exports
       /\ disk' = [disk EXCEPT ![path] = [stamp |-> last + 1, drawing |-> d]]

(* Somebody draws again, and the browser or an editor saves it.            *)
SaveElsewhere ==
    /\ OnScreen
    /\ \E path \in TypedPaths \cup {Export}, d \in Drawings :
         /\ Newer(path, d)
         /\ saving' = [saving EXCEPT !.held =
                         IF saving # NotSaving /\ path = polygon THEN @ \cup {d} ELSE @]
    /\ UNCHANGED <<form, polygon, due, seen, panel, said, town>>

(* look_for_polygon: every two seconds, while no path is typed.            *)
LookForPolygon ==
    /\ AtRest /\ form.path = Blank /\ disk[Export].stamp > 0
    /\ ~(polygon = Export /\ disk[Export].stamp = seen)
    /\ polygon' = Export /\ seen' = disk[Export].stamp
    /\ panel' = PanelOf(form, polygon', disk)
    /\ UNCHANGED <<form, due, disk, said, saving, town>>

(* polygon_pasted: parked in a file, and its path put in the field -- an   *)
(* event only if the field held another.                                   *)
Paste ==
    /\ AtRest
    /\ \E d \in Drawings : Newer(Draft, d)
    /\ IF form.path = Draft THEN UNCHANGED <<form, polygon, due>> ELSE SetPath(Draft)
    /\ UNCHANGED <<seen, panel, said, saving, town>>

(* action_save: the file is read for the zone of a draft ...               *)
Save ==
    /\ AtRest
    /\ LET crs == CityCrs(form, polygon, disk)
       IN IF form.id /\ polygon # Blank /\ crs.zone # Blank
            THEN /\ saving' = [at |-> "draft", zone |-> crs.zone, box |-> Blank,
                               held |-> {disk[polygon].drawing}]
                 /\ UNCHANGED said
            ELSE /\ said' = IF crs.why # Blank THEN crs.why ELSE "needs"
                 /\ UNCHANGED saving
    /\ UNCHANGED <<form, polygon, due, seen, disk, panel, town>>

GiveUp(why) == said' = why /\ saving' = NotSaving /\ UNCHANGED town

(* ... again for its box, which is checked against that zone, ...          *)
DraftSaved ==
    /\ OnScreen /\ saving.at = "draft"
    /\ LET why == Objection(form, polygon, disk, saving.zone)
       IN IF why # "none" THEN GiveUp(why)
          ELSE /\ saving' = [saving EXCEPT !.at = "city", !.box = disk[polygon].drawing]
               /\ UNCHANGED <<said, town>>
    /\ UNCHANGED <<form, polygon, due, seen, disk, panel>>

(* ... once more for the zone that is written, never over a city there is, *)
WriteTown ==
    /\ OnScreen /\ saving.at = "city"
    /\ LET crs == CityCrs(form, polygon, disk)
       IN IF crs.zone = Blank THEN GiveUp(crs.why)
          ELSE IF town # Blank THEN GiveUp("exists")
          ELSE /\ town' = [zone |-> crs.zone, box |-> saving.box, measured |-> saving.zone,
                           area |-> Blank, held |-> saving.held]
               /\ saving' = [saving EXCEPT !.at = "area"]
               /\ UNCHANGED said
    /\ UNCHANGED <<form, polygon, due, seen, disk, panel>>

(* ... and for the polygon beside it; a city it fails for stays behind.    *)
WriteArea ==
    /\ OnScreen /\ saving.at = "area"
    /\ IF ~Reads(disk, polygon) THEN GiveUp("unreadable")
       ELSE /\ town' = [town EXCEPT !.area = disk[polygon].drawing, !.held = saving.held]
            /\ saving' = NotSaving /\ UNCHANGED said
    /\ UNCHANGED <<form, polygon, due, seen, disk, panel>>

FormNext ==
    \/ TypeId \/ TypeClock \/ TypePoint \/ TypePath \/ Debounced
    \/ SaveElsewhere \/ LookForPolygon \/ Paste
    \/ Save \/ DraftSaved \/ WriteTown \/ WriteArea

FormSpec == FormInit /\ [][FormNext]_formVars

-----------------------------------------------------------------------------
(* newcity.py: deriving the CRS from the typed point is how a city gets    *)
(* registered in the wrong zone.  The zone of what is written is that of a *)
(* drawing the file held while it was saved, whatever was typed, and the   *)
(* box is of a drawing that lies in the zone it was measured in; where the *)
(* file held one drawing throughout, that is the zone written, and the     *)
(* polygon beside it lies in it.  Of two, zone, box and polygon may be of  *)
(* different ones.                                                         *)
WrittenInItsZone ==
    town # Blank =>
      /\ \E d \in town.held : town.zone = Zone(Middle(d))
      /\ town.box \in town.held /\ InUse(town.box, town.measured)
      /\ town.area # Blank => town.area \in town.held
      /\ (\A d, e \in town.held : d = e) =>
           /\ town.measured = town.zone
           /\ town.area # Blank => InUse(town.area, town.zone)

(* newcity.py: emptying the field used to leave the last path in place.    *)
(* With no reading due, a price stands on the screen only for the file in  *)
(* hand, and the file in hand is the one the field names if it names one.  *)
PriceIsOfTheNamed ==
    /\ form.path # Blank => polygon = form.path
    /\ form.path = Blank => polygon \in {Blank, Export}
    /\ (panel.kind = "price" /\ ~due) => panel.path = polygon

(* What is written is what the person was shown, in the zone it lies in.   *)
FormIsBelieved == WrittenInItsZone /\ PriceIsOfTheNamed
=============================================================================
