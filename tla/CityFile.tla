------------------------------ MODULE CityFile ------------------------------
(***************************************************************************)
(* A city's two files -- the annotated YAML and the polygon of its area -- *)
(* and the commands that write them: the console's edit of one setting,    *)
(* `area --write`, and the registration of a new city.  Nothing is locked  *)
(* and nothing is replaced atomically: a file is emptied when it is opened *)
(* and has its text when it is closed, and a command may be killed between *)
(* any two of its steps.                                                   *)
(*                                                                         *)
(* A file is a sequence of lines [key, value, comment].  A value no city   *)
(* may have is one that load_city refuses.                                 *)
(***************************************************************************)
EXTENDS Integers, Sequences, SequencesExt

CONSTANTS
    Commands,     \* processes that may write
    HandFiles,    \* what a person wrote: [text, area]
    Outlines,     \* what may be drawn: [west, south, east, north]
    Settings,     \* <<key, value>> somebody may type
    Unfit,        \* values load_city refuses
    Sides,        \* the sides a city's pixels may have
    Metre,        \* how many units of length a metre has
    HalfEast,     \* half of what the sixth digit of an easting is worth
    HalfNorth,    \* ... and the sixth of a northing
    Grain,        \* what the coordinates of a saved polygon are rounded to
    NoComment,    \* a line without one
    Nowhere       \* a file that does not exist

VARIABLES
    cityText,     \* the lines of the YAML
    areaFile,     \* the polygon of the area file, <<>> while it is empty
    hands,        \* per command, [at, goal, todo]
    notes,        \* the comments of the first whole file
    slips         \* killed, together, coarse: what the commands met with so far

cityVars == <<cityText, areaFile, hands, notes, slips>>

-----------------------------------------------------------------------------
Line(k, v, c) == [key |-> k, value |-> v, comment |-> c]
LinesOf(text, k) == {i \in DOMAIN text : text[i].key = k}
NotesOf(text) == {<<text[i].key, text[i].comment>> :
                    i \in {j \in DOMAIN text : text[j].comment # NoComment}}

(* load_city: the keys a city must have, and no value it may not have.     *)
Required == {"name", "timezone", "bbox"}
LoadCity(text) ==
    /\ text # Nowhere
    /\ \A k \in Required : LinesOf(text, k) # {}
    /\ \A i \in DOMAIN text : text[i].value \notin Unfit

(* The last of two lines with one key is the one that counts.              *)
ValueOf(text, k) == text[CHOOSE i \in LinesOf(text, k) : \A j \in LinesOf(text, k) : j <= i].value

RewriteScalarBare(text, k, v) ==
    [text EXCEPT ![CHOOSE i \in LinesOf(text, k) : TRUE] = Line(k, v, NoComment)]
RewriteScalar(text, k, v) ==
    [text EXCEPT ![CHOOSE i \in LinesOf(text, k) : TRUE].value = v]

CanRewrite(text, k) == text # Nowhere /\ \E i \in DOMAIN text : LinesOf(text, k) = {i}

-----------------------------------------------------------------------------
(* The smallest box on the lattice of pixels that contains the drawing.    *)
SnapBbox(d, side) ==
    LET below(a) == (a \div side) * side
    IN [west |-> below(d.west),     south |-> below(d.south),
        east |-> -below(-d.east),   north |-> -below(-d.north)]

(* _number: whole metres are written out; of anything else six digits are  *)
(* kept, the nearest, and the even one of two.                             *)
IsWhole(v) == v = (v \div Metre) * Metre
Number(v, half) ==
    LET unit == 2 * half
        q    == v \div unit
        rest == v - q * unit
    IN IF IsWhole(v) THEN v
       ELSE IF rest < half \/ (rest = half /\ q % 2 = 0) THEN q * unit ELSE q * unit + unit
BboxLiteral(box) ==
    [west |-> Number(box.west, HalfEast), south |-> Number(box.south, HalfNorth),
     east |-> Number(box.east, HalfEast), north |-> Number(box.north, HalfNorth)]

(* The polygon is saved in degrees with six decimals: a tenth of a metre.  *)
Rounded(v) == ((2 * v + Grain) \div (2 * Grain)) * Grain
AreaGeojson(d) ==
    [west |-> Rounded(d.west), south |-> Rounded(d.south),
     east |-> Rounded(d.east), north |-> Rounded(d.north)]

(* One bbox line or none of this; the area line is set or comes after it.  *)
CanRewriteConfig(text) ==
    text # Nowhere /\ (\E i \in DOMAIN text : LinesOf(text, "bbox") = {i})
                   /\ \A i, j \in LinesOf(text, "area") : i = j
RewriteConfig(text, box) ==
    LET boxed == RewriteScalar(text, "bbox", BboxLiteral(box))
        at    == CHOOSE i \in LinesOf(text, "bbox") : TRUE
    IN IF LinesOf(text, "area") # {} THEN RewriteScalar(boxed, "area", "here")
       ELSE InsertAt(boxed, at + 1, Line("area", "here", NoComment))

(* A new city is registered at a metre a pixel.                            *)
NewCityYaml(d) ==
    <<Line("name", "town", NoComment), Line("timezone", "local", "IANA"),
      Line("bbox", SnapBbox(d, Metre), "metres"), Line("area", "here", "inside")>>

-----------------------------------------------------------------------------
(* A box holds a polygon, but for so much at each side, and no more pixels. *)
Holds(box, d, east, north) ==
    /\ box.west - east <= d.west /\ box.south - north <= d.south
    /\ d.east <= box.east + east /\ d.north <= box.north + north
    /\ \E side \in Sides \cup {Metre} :
         d.west - box.west <= side + east /\ box.east - d.east <= side + east

(* ... but for the rounding of the polygon, and of the box once one has    *)
(* been written in six digits.                                             *)
Paired(text, area, events) ==
    LET off(half) == Grain + (IF "coarse" \in events THEN half ELSE 0)
    IN LinesOf(text, "area") # {} =>
         /\ area \notin {Nowhere, <<>>}
         /\ Holds(ValueOf(text, "bbox"), area, off(HalfEast), off(HalfNorth))

(* What is drawn, and any box.                                             *)
Squares == [west : Int, south : Int, east : Int, north : Int]

(* What a file may have: the line of the box says a box, any other a word. *)
FileKeys ==
    {"name", "timezone", "area"}
        \cup UNION {{h.text[i].key : i \in DOMAIN h.text} : h \in HandFiles}
FileWords ==
    {"town", "local", "here"} \cup {s[2] : s \in Settings}
        \cup UNION {{h.text[i].value : i \in {j \in DOMAIN h.text : h.text[j].key # "bbox"}} :
                       h \in HandFiles}
FileComments ==
    {NoComment, "IANA", "metres", "inside"}
        \cup UNION {{h.text[i].comment : i \in DOMAIN h.text} : h \in HandFiles}
Texts ==
    Seq([key : FileKeys \ {"bbox"}, value : FileWords, comment : FileComments]
          \cup [key : {"bbox"}, value : Squares, comment : FileComments])

(* A person's file can be loaded and agrees with its polygon; an edit of   *)
(* the box or of the area is refused; what is drawn makes a fit box.       *)
ASSUME CityAssumption ==
    /\ Sides \subseteq Nat \ {0} /\ Metre \in Nat \ {0} /\ Grain \in Nat \ {0}
    /\ HalfEast \in Nat \ {0} /\ HalfNorth \in Nat \ {0}
    /\ Nowhere \notin Squares /\ Nowhere \notin Texts
    /\ Outlines \subseteq Squares
    /\ \A d \in Outlines : /\ SnapBbox(d, Metre) \notin Unfit
                          /\ \A side \in Sides : BboxLiteral(SnapBbox(d, side)) \notin Unfit
    /\ {"town", "local", "here"} \cap Unfit = {}
    /\ \A s \in Settings : s[1] \notin {"bbox", "area"}
    /\ \A h \in HandFiles :
         /\ h.text \in Texts /\ LoadCity(h.text) /\ Paired(h.text, h.area, {})
-----------------------------------------------------------------------------
Idle == [at |-> "idle", goal |-> Nowhere, todo |-> <<>>]
Write(file, what) == [to |-> file, what |-> what]
Writing(todo) == [at |-> "writing", goal |-> Nowhere, todo |-> todo]
Resting(p) == hands[p].at = "idle"

(* Another command is at work when this one starts.                        *)
Starting(p) ==
    slips' = IF \A q \in Commands \ {p} : Resting(q) THEN slips ELSE slips \cup {"together"}

CityInit ==
    /\ \E h \in HandFiles \cup {[text |-> Nowhere, area |-> Nowhere]} :
         /\ cityText = h.text /\ areaFile = h.area
         /\ notes = IF h.text = Nowhere THEN {} ELSE NotesOf(h.text)
    /\ hands = [p \in Commands |-> Idle] /\ slips = {}

EditUnchecked(p) ==
    /\ Resting(p)
    /\ \E s \in Settings :
         /\ CanRewrite(cityText, s[1])
         /\ hands' = [hands EXCEPT ![p] =
                Writing(<<Write("city", RewriteScalar(cityText, s[1], s[2]))>>)]
    /\ Starting(p)
    /\ UNCHANGED <<cityText, areaFile, notes>>

(* edit_city: the text is read, one line of it set, and the result loaded  *)
(* from a scratch file; what does not load is not written.                 *)
EditCity(p) ==
    /\ Resting(p)
    /\ \E s \in Settings :
         /\ CanRewrite(cityText, s[1])
         /\ LET updated == RewriteScalar(cityText, s[1], s[2])
            IN /\ LoadCity(updated)
               /\ hands' = [hands EXCEPT ![p] = Writing(<<Write("city", updated)>>)]
    /\ Starting(p)
    /\ UNCHANGED <<cityText, areaFile, notes>>

(* `area`: the city is loaded, the drawing read and priced; without        *)
(* --write the command ends here.                                          *)
PriceArea(p) ==
    /\ Resting(p) /\ LoadCity(cityText)
    /\ \E d \in Outlines : hands' = [hands EXCEPT ![p] = [Idle EXCEPT !.at = "priced", !.goal = d]]
    /\ Starting(p)
    /\ UNCHANGED <<cityText, areaFile, notes>>

ApplyAreaFirst(p) ==
    /\ hands[p].at = "priced"
    /\ \E side \in Sides :
         /\ LET d == hands[p].goal
            IN hands' = [hands EXCEPT ![p] = Writing(
                 <<Write("area", AreaGeojson(d))>> \o
                 IF CanRewriteConfig(cityText)
                   THEN <<Write("city", RewriteConfig(cityText, SnapBbox(d, side)))>> ELSE <<>>)]
         /\ slips' = IF IsWhole(side) THEN slips ELSE slips \cup {"coarse"}
    /\ UNCHANGED <<cityText, areaFile, notes>>

(* --write: the text is read again and rewritten, with the box of the      *)
(* pixels the city had when it was priced, before either file is touched;  *)
(* then the polygon, then the city.                                        *)
ApplyArea(p) ==
    /\ hands[p].at = "priced"
    /\ \/ /\ CanRewriteConfig(cityText)
          /\ \E side \in Sides :
               /\ LET d == hands[p].goal
                  IN hands' = [hands EXCEPT ![p] = Writing(
                       <<Write("area", AreaGeojson(d)),
                         Write("city", RewriteConfig(cityText, SnapBbox(d, side)))>>)]
               /\ slips' = IF IsWhole(side) THEN slips ELSE slips \cup {"coarse"}
       \/ /\ ~CanRewriteConfig(cityText)
          /\ hands' = [hands EXCEPT ![p] = Idle] /\ UNCHANGED slips
    /\ UNCHANGED <<cityText, areaFile, notes>>

(* write_new_city: never over a file that exists; then its polygon.        *)
Register(p) ==
    /\ Resting(p) /\ cityText = Nowhere
    /\ \E d \in Outlines :
         hands' = [hands EXCEPT ![p] =
            Writing(<<Write("city", NewCityYaml(d)), Write("area", AreaGeojson(d))>>)]
    /\ Starting(p)
    /\ UNCHANGED <<cityText, areaFile, notes>>

(* write_text: opening the file empties it ...                             *)
OpenToWrite(p) ==
    /\ hands[p].at = "writing"
    /\ hands' = [hands EXCEPT ![p].at = "opened"]
    /\ IF Head(hands[p].todo).to = "city"
         THEN cityText' = <<>> /\ UNCHANGED areaFile
         ELSE areaFile' = <<>> /\ UNCHANGED cityText
    /\ UNCHANGED <<notes, slips>>

(* ... and closing it writes the text from its start: of what another      *)
(* command wrote in between, what is longer stays behind.                  *)
Over(old, new) == IF Len(old) <= Len(new) THEN new ELSE new \o SubSeq(old, Len(new) + 1, Len(old))
FillIn(p) ==
    /\ hands[p].at = "opened"
    /\ LET w == Head(hands[p].todo)
           rest == Tail(hands[p].todo)
       IN /\ hands' = [hands EXCEPT ![p] = IF rest = <<>> THEN Idle ELSE Writing(rest)]
          /\ IF w.to = "city"
               THEN /\ cityText' = Over(cityText, w.what)
                    /\ notes' = IF notes = {} THEN NotesOf(w.what) ELSE notes
                    /\ UNCHANGED areaFile
               ELSE areaFile' = w.what /\ UNCHANGED <<cityText, notes>>
    /\ UNCHANGED slips

KillCommand(p) ==
    /\ ~Resting(p)
    /\ hands' = [hands EXCEPT ![p] = Idle]
    /\ slips' = slips \cup {"killed"}
    /\ UNCHANGED <<cityText, areaFile, notes>>

CityNext ==
    \E p \in Commands :
        \/ EditCity(p) \/ PriceArea(p) \/ ApplyArea(p) \/ Register(p)
        \/ OpenToWrite(p) \/ FillIn(p) \/ KillCommand(p)

CitySpec == CityInit /\ [][CityNext]_cityVars

-----------------------------------------------------------------------------
(* cityfile.py: those comments are the only place some of that reasoning   *)
(* lives.  Whatever is edited, applied or registered, in whatever order,   *)
(* every comment of the first file is on the line of its key, in every     *)
(* text a command leaves.                                                  *)
CommentsSurvive == cityText \notin {Nowhere, <<>>} => notes \subseteq NotesOf(cityText)

(* A city somebody could load can still be loaded after any number of      *)
(* edits, one after another, that nobody killed.                           *)
AtPeace == slips \subseteq {"coarse"} /\ cityText # Nowhere /\ \A p \in Commands : Resting(p)
StaysReadable == AtPeace => LoadCity(cityText)

(* The box and the polygon are kept in two files by two writes.  Of        *)
(* commands that run one after another and are not killed, each leaves     *)
(* them agreeing: the box holds the polygon, but for the rounding of the   *)
(* polygon and, once an area has been applied to pixels of no whole        *)
(* metres, half of what the last of six digits is worth.                   *)
BoxHoldsArea == AtPeace => Paired(cityText, areaFile, slips)

(* The file a person and the program share stays theirs, legible and true  *)
(* to the area.                                                            *)
FileStaysTrue == CommentsSurvive /\ StaysReadable /\ BoxHoldsArea
=============================================================================
