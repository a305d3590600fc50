-------------------------------- MODULE Ladder -------------------------------
(***************************************************************************)
(* The year in a few days.  Shade depends on the declination of the sun,   *)
(* so a handful of days, the rungs, stand for all of them: each day of the *)
(* year the ladder is built for goes to the rung nearest in declination,   *)
(* and each rung lists the runs of days it covers.  A rung has a column of *)
(* fractions for every hour of its daylight.  A query, in any year, finds  *)
(* its rung by its calendar day and interpolates between two columns.      *)
(***************************************************************************)
EXTENDS Integers, Sequences, FiniteSets, FiniteSetsExt

CONSTANTS
    YearDays,       \* days of the year the ladder is built for
    Curves,         \* the declination of each of them, a few shapes of year
    Rungs,          \* a sequence of [day, first, last], hours inclusive
    Ticks,          \* instants told apart in an hour
    Fractions,      \* the fractions of an edge, column by column
    LeapDay,        \* a day the year of the ladder does not have
    Unasked

VARIABLES
    curve,      \* the declinations of this year
    covers,     \* the runs of days of each rung, as graph.json has them
    columns,    \* the fractions of one edge
    query       \* the day and tick of a query, or Unasked

ladderVars == <<curve, covers, columns, query>>

Year == 1..YearDays

Apart(a, b) == IF a < b THEN b - a ELSE a - b

(* Of the nearest rungs, the first.                                        *)
Assigned(day) ==
    LET off(i) == Apart(curve[day], curve[Rungs[i].day])
    IN  CHOOSE i \in DOMAIN Rungs : \A j \in DOMAIN Rungs :
            off(i) < off(j) \/ (off(i) = off(j) /\ i <= j)

(* A walk that forgets the run the year ends with.                         *)
CoversUnclosed(i) ==
    {run \in Year \X Year :
        /\ run[1] <= run[2] /\ \A d \in run[1]..run[2] : Assigned(d) = i
        /\ run[1] = 1 \/ Assigned(run[1] - 1) # i
        /\ run[2] # YearDays /\ Assigned(run[2] + 1) # i}

(* The maximal runs of days assigned to a rung, as <<first, last>>.  The   *)
(* code walks the year once and closes a run where the rung changes, and   *)
(* the last one when the year ends.                                        *)
Covers(i) ==
    {run \in Year \X Year :
        /\ run[1] <= run[2] /\ \A d \in run[1]..run[2] : Assigned(d) = i
        /\ run[1] = 1 \/ Assigned(run[1] - 1) # i
        /\ run[2] = YearDays \/ Assigned(run[2] + 1) # i}

Hours(i) == Rungs[i].last - Rungs[i].first + 1

(* Columns are numbered through the rungs in order, from 0.                *)
ColumnsBefore[i \in 0..Len(Rungs)] ==
    IF i = 0 THEN 0 ELSE ColumnsBefore[i - 1] + Hours(i)

ColumnOf(i, hour) == ColumnsBefore[i - 1] + (hour - Rungs[i].first)

(* There are rungs, each of a day of the year and with some daylight, and  *)
(* the fractions have a column for every hour of it.                       *)
ASSUME LadderAssumption ==
    /\ YearDays \in Nat \ {0} /\ Ticks \in Nat \ {0}
    /\ Curves \subseteq [Year -> Int]
    /\ Len(Rungs) \in Nat \ {0} /\ DOMAIN Rungs = 1..Len(Rungs)
    /\ \A i \in DOMAIN Rungs :
         /\ Rungs[i].day \in Year /\ {Rungs[i].first, Rungs[i].last} \subseteq Nat
         /\ Rungs[i].first <= Rungs[i].last
         /\ \A f \in Fractions, h \in Rungs[i].first..Rungs[i].last : f[ColumnOf(i, h)] \in Int

(* One more day than the ladder's year has borrows the one before it.      *)
BeforeLeap == CHOOSE d \in Year : d <= 2 /\ (YearDays > 1 => d = 2)
Mapped(day) == IF day = LeapDay THEN BeforeLeap ELSE day

(* _rung_for: the first rung one of whose runs holds the day.              *)
Holding(day) ==
    {i \in DOMAIN Rungs : \E run \in covers[i] : run[1] <= Mapped(day) /\ Mapped(day) <= run[2]}
RungFor(day) == Min(Holding(day))

(* The nearest column, whole.                                              *)
InterpolatedNearest(i, tick) ==
    LET hour == (2 * tick + Ticks) \div (2 * Ticks)
    IN  Ticks * columns[ColumnOf(i, Max({Rungs[i].first, Min({Rungs[i].last, hour})}))]

(* _interpolate_columns: clamped at both ends of the day, and linear       *)
(* between the hour before, or at, the instant and the next; times Ticks.  *)
Interpolated(i, tick) ==
    LET first == Rungs[i].first * Ticks
        last  == Rungs[i].last * Ticks
        hour  == tick \div Ticks
        part  == tick % Ticks
    IN  IF tick <= first THEN Ticks * columns[ColumnOf(i, Rungs[i].first)]
        ELSE IF tick >= last THEN Ticks * columns[ColumnOf(i, Rungs[i].last)]
        ELSE (Ticks - part) * columns[ColumnOf(i, hour)]
               + part * columns[ColumnOf(i, hour + 1)]

-----------------------------------------------------------------------------
LadderInit ==
    /\ curve \in Curves
    /\ covers = [i \in DOMAIN Rungs |-> Covers(i)]
    /\ columns \in Fractions
    /\ query = Unasked

AskFractions ==
    /\ query = Unasked
    /\ \E day \in Year \cup {LeapDay}, hour \in 0..23, part \in 0..Ticks - 1 :
         query' = [day |-> day, tick |-> hour * Ticks + part]
    /\ UNCHANGED <<curve, covers, columns>>

LadderSpec == LadderInit /\ [][AskFractions]_ladderVars

-----------------------------------------------------------------------------
(* Every day of any year has one rung, and none is nearer in declination.  *)
EveryDayHasOneRung ==
    query # Unasked =>
        /\ Cardinality(Holding(query.day)) = 1
        /\ \A j \in DOMAIN Rungs :
             Apart(curve[Mapped(query.day)], curve[Rungs[RungFor(query.day)].day])
               <= Apart(curve[Mapped(query.day)], curve[Rungs[j].day])

(* "Nearest would step the whole ranking every half hour": what a query    *)
(* gets is continuous.  One tick changes it by no more than a tick's share *)
(* of what two neighbouring columns differ by, and on the hour it is the   *)
(* hour's own column.                                                      *)
FractionsAreContinuous ==
    query # Unasked =>
        LET i == RungFor(query.day)
            here == Interpolated(i, query.tick)
            next == Interpolated(i, query.tick + 1)
            span == Max({0} \cup {Apart(columns[ColumnOf(i, h)], columns[ColumnOf(i, h + 1)]) :
                                     h \in Rungs[i].first..Rungs[i].last - 1})
        IN  /\ Apart(here, next) <= span
            /\ \A h \in Rungs[i].first..Rungs[i].last :
                 query.tick = h * Ticks => here = Ticks * columns[ColumnOf(i, h)]

(* Through the year and through the day the fractions follow the sun.      *)
FractionsFollow == EveryDayHasOneRung /\ FractionsAreContinuous
=============================================================================
