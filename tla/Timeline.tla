------------------------------- MODULE Timeline ------------------------------
(***************************************************************************)
(* A day of shade at a place: the verdicts of its samples merged into      *)
(* intervals, when the sun comes back, and the same for a parking zone,    *)
(* which is shaded when half of its points are.                            *)
(*                                                                         *)
(* A day is a sequence of samples, one every two ticks from tick 2: Dark   *)
(* when the sun is down, or the verdict at each point of a zone.           *)
(***************************************************************************)
EXTENDS Integers, Sequences, FiniteSets, FiniteSetsExt

CONSTANTS
    Days,      \* the days there may be
    Dark,      \* a sample with the sun down
    Spots,     \* the points a zone is sampled at
    Corner,    \* the one of them whose timeline is asked for
    None       \* no interval open, no instant

(* ShadeState by day, with the kind of shade where one is told.            *)
Verdicts == {"sun", "building", "vegetation", "both", "untyped"}

ASSUME DayAssumption ==
    /\ IsFiniteSet(Spots) /\ Corner \in Spots /\ Dark \notin Verdicts
    /\ \A d \in Days : d \in Seq({Dark} \cup [Spots -> Verdicts])
    /\ None \notin [start : Nat, verdict : Verdicts]

VARIABLES
    day,         \* the samples
    sample,      \* the next one to look at
    current,     \* the open stretch: where it began and its verdict, or None
    intervals    \* the stretches closed

dayVars == <<day, sample, current, intervals>>

Stamp(i) == 2 * i

Interval(start, end, verdict) == [start |-> start, end |-> end, verdict |-> verdict]

IsShade(verdict) == verdict # "sun"

(* What is_shaded answers at the corner for a sample.                      *)
Seen(i) == IF day[i] = Dark THEN Dark ELSE day[i][Corner]

-----------------------------------------------------------------------------
DayInit == day \in Days /\ sample = 1 /\ current = None /\ intervals = <<>>

Closed(end) ==
    IF current = None THEN intervals
    ELSE Append(intervals, Interval(current.start, end, current.verdict))

GoesOn == IF current = None THEN FALSE ELSE current.verdict = Seen(sample)

(* Night closes what is open and opens nothing.                            *)
MeetNight ==
    /\ sample \in DOMAIN day /\ Seen(sample) = Dark
    /\ intervals' = Closed(Stamp(sample)) /\ current' = None
    /\ sample' = sample + 1 /\ UNCHANGED day

MeetSame ==
    /\ sample \in DOMAIN day /\ Seen(sample) # Dark
    /\ GoesOn
    /\ sample' = sample + 1 /\ UNCHANGED <<day, current, intervals>>

(* A change that keeps the beginning of the stretch it closes.             *)
MeetChangeUnclosed ==
    /\ sample \in DOMAIN day /\ Seen(sample) # Dark
    /\ ~GoesOn
    /\ current' = [start |-> Stamp(sample), verdict |-> Seen(sample)]
    /\ sample' = sample + 1 /\ UNCHANGED <<day, intervals>>

MeetChange ==
    /\ sample \in DOMAIN day /\ Seen(sample) # Dark
    /\ ~GoesOn
    /\ intervals' = Closed(Stamp(sample))
    /\ current' = [start |-> Stamp(sample), verdict |-> Seen(sample)]
    /\ sample' = sample + 1 /\ UNCHANGED day

(* The last stretch ends one step after the last sample.                   *)
EndDay ==
    /\ sample = Len(day) + 1
    /\ intervals' = Closed(Stamp(Len(day) + 1)) /\ current' = None
    /\ sample' = sample + 1 /\ UNCHANGED day

DayNext == MeetNight \/ MeetSame \/ MeetChange \/ EndDay

DaySpec == DayInit /\ [][DayNext]_dayVars

Told == sample = Len(day) + 2

-----------------------------------------------------------------------------
(* A run that ends with its first interval.                                *)
RunEndsAtFlavour(first) == {j \in {first} : IsShade(intervals[j].verdict)}

(* shaded_until: the end of the run of shade that now is in, whatever      *)
(* casts it from one interval to the next.                                 *)
RunEnds(first) ==
    {j \in first..Len(intervals) :
        /\ \A k \in first..j : IsShade(intervals[k].verdict)
        /\ \A k \in first + 1..j : intervals[k].start = intervals[k - 1].end}

ShadedUntil(now) ==
    LET at == {i \in DOMAIN intervals : intervals[i].start <= now /\ now < intervals[i].end}
    IN  IF at = {} THEN None
        ELSE LET ends == RunEnds(CHOOSE i \in at : TRUE)
             IN  IF ends = {} THEN None ELSE intervals[Max(ends)].end

(* _shaded_fraction against the threshold of a half.                       *)
MostlyShaded(verdicts) ==
    2 * Cardinality({s \in Spots : IsShade(verdicts[s])}) >= Cardinality(Spots)

(* A zone that leaves the shade only for the sun.                          *)
ZoneUntilSun(now) ==
    LET ends == {i \in DOMAIN day : /\ Stamp(i) > now
                                    /\ IF day[i] = Dark THEN FALSE ELSE ~MostlyShaded(day[i])}
    IN  IF ends = {} THEN None ELSE Stamp(Min(ends))

(* parking's shaded_until: the first sample after now at which the sun is  *)
(* down or most of the zone is out of the shade; it is asked only when the *)
(* zone is shaded now.                                                     *)
ZoneUntil(now) ==
    LET ends == {i \in DOMAIN day : /\ Stamp(i) > now
                                    /\ IF day[i] = Dark THEN TRUE ELSE ~MostlyShaded(day[i])}
    IN  IF ends = {} THEN None ELSE Stamp(Min(ends))

-----------------------------------------------------------------------------
(* The intervals tell the day and nothing else: every sample of daylight   *)
(* is in exactly one, with its verdict; none of the night is in any; and   *)
(* two that touch differ, so each is as long as it can be.                 *)
IntervalsTellTheDay ==
    Told =>
        /\ \A i \in DOMAIN day :
             LET around == {j \in DOMAIN intervals :
                               intervals[j].start <= Stamp(i) /\ Stamp(i) < intervals[j].end}
             IN  IF Seen(i) = Dark THEN around = {}
                 ELSE /\ Cardinality(around) = 1
                      /\ \A j \in around : intervals[j].verdict = Seen(i)
        /\ \A j \in 2..Len(intervals) :
             \/ intervals[j - 1].end < intervals[j].start
             \/ /\ intervals[j - 1].end = intervals[j].start
                /\ intervals[j - 1].verdict # intervals[j].verdict

(* "The caller wants the instant the sun returns": until then no sample is *)
(* sunny, and at it the sun is back, or the day's light is over.           *)
UntilIsWhenTheSunReturns ==
    Told =>
        \A now \in 1..Stamp(Len(day) + 1) :
            LET until == ShadedUntil(now)
            IN  until # None =>
                  /\ now < until
                  /\ \A i \in DOMAIN day : now < Stamp(i) /\ Stamp(i) < until =>
                        Seen(i) # Dark /\ IsShade(Seen(i))
                  /\ until \div 2 \in DOMAIN day =>
                        Seen(until \div 2) = Dark \/ ~IsShade(Seen(until \div 2))

(* Wherever all of a zone is shaded alike, the zone and each of its points *)
(* tell the same hour, of any instant in the shade of a day that ends in   *)
(* the dark.                                                               *)
AllAlike(i) == day[i] = Dark \/ \A s, t \in Spots : IsShade(day[i][s]) = IsShade(day[i][t])

ZoneAgreesWithPoint ==
    Told /\ day[Len(day)] = Dark /\ (\A i \in DOMAIN day : AllAlike(i)) =>
        \A now \in 2..Stamp(Len(day)) :
            ShadedUntil(now) # None => ShadedUntil(now) = ZoneUntil(now)

(* The intervals, the hour a point is told and the hour a zone is told are *)
(* of one and the same day.                                                *)
DayIsTold == IntervalsTellTheDay /\ UntilIsWhenTheSunReturns /\ ZoneAgreesWithPoint
=============================================================================
