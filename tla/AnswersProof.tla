----------------------------- MODULE AnswersProof ----------------------------
(***************************************************************************)
(* What the server of a city answers, for any sessions of any clients, any *)
(* limits and spans of time, any days and any zones: nobody hears from a   *)
(* cache what its headers do not allow, the limiter lets no window be      *)
(* exceeded, the intervals of a point's day tell that day, a query of the  *)
(* ladder is told what its nearest rung says, without jumps, and a graph   *)
(* that is served can be walked.                                           *)
(***************************************************************************)
EXTENDS Api, Timeline, Ladder, WalkGraph, Numbers, FiniteSetTheorems, SequenceTheorems, TLAPS

-----------------------------------------------------------------------------
(* How long an answer of that kind may be kept, given at an instant.       *)
KeptFor(q, t) ==
    CASE q.path \in {"cities", "city"} -> Hour
      [] q.path \in {"shade", "routes"} -> IF q.at # Current THEN Day ELSE 0
      [] q.path = "timeline" -> IF Resolved(q, t) = Today(t) THEN Minute ELSE Day
      [] q.path = "parking"  -> IF q.at # Current THEN Minute ELSE 0

(* The answer was given at an instant it names, of a world there was.      *)
GivenAt(q, answer, t, now, worlds) ==
    t \in 0..now /\ \E w \in worlds[t] : answer = Says(q, t, w)

(* The world that is, is one of those it has been at this instant.         *)
ClockAndWorlds ==
    /\ questions \in Sessions
    /\ clock \in 0..LastTick /\ DOMAIN was = 0..LastTick
    /\ world \in was[clock]

(* A kept answer was the server's, and goes when its time is over.         *)
KeptIsOld ==
    /\ DOMAIN kept = questions
    /\ \A q \in questions : kept[q] # Unheard =>
         \E t \in 0..clock :
            /\ GivenAt(q, kept[q].answer, t, clock, was)
            /\ kept[q].until = t + KeptFor(q, t)

(* What a client last heard is an answer of the server, given now or not   *)
(* yet past its time.                                                      *)
HeardIsKept ==
    IF heard = Unheard THEN TRUE ELSE heard.answer.status = 200 =>
        /\ heard.question \in questions
        /\ \E t \in 0..clock :
            /\ GivenAt(heard.question, heard.answer, t, clock, was)
            /\ t = clock \/ clock < t + KeptFor(heard.question, t)

(* Of the entries of a client, Limit apart are a window apart.             *)
Spaced(e) ==
    /\ e \in Seq(0..clock)
    /\ \A i, j \in 1..Len(e) : i <= j => e[i] <= e[j]
    /\ \A i \in 1..Len(e) : i + Limit <= Len(e) => e[i] + Window < e[i + Limit]

(* So it is for every client on every path.                                *)
LimiterSpaced == DOMAIN entries = Counted /\ \A k \in Counted : Spaced(entries[k])

(* Neither a kept answer nor a heard one can be bounded without the worlds *)
(* it may have come from, and the window needs the order of the entries.   *)
ApiInv == ClockAndWorlds /\ KeptIsOld /\ HeardIsKept /\ LimiterSpaced

(* An entry more, once the limiter has let it through.                     *)
LEMMA OneMoreIsSpaced ==
  ASSUME NEW e, Spaced(e), LetThrough(e), clock \in Nat
  PROVE  Spaced(Append(e, clock))
<1> DEFINE more == Append(e, clock)  n == Len(e)
<1>1. /\ e \in Seq(0..clock) /\ n \in Nat /\ \A i \in 1..n : e[i] \in 0..clock
  BY DEF Spaced
<1>2. /\ more \in Seq(0..clock) /\ Len(more) = n + 1 /\ more[n + 1] = clock
      /\ \A i \in 1..n : more[i] = e[i]
  BY <1>1
<1> HIDE DEF more
<1>3. \A i, j \in 1..n + 1 : i <= j => more[i] <= more[j]
  BY <1>1, <1>2 DEF Spaced
<1>4. ASSUME NEW i \in 1..n + 1, i + Limit <= n + 1
      PROVE  more[i] + Window < more[i + Limit]
  <2>1. Limit \in Nat \ {0} /\ Window \in Nat
    BY ApiAssumption
  <2>2. i \in 1..n /\ more[i] = e[i]
    BY <1>1, <1>2, <1>4, <2>1
  <2>3. CASE i + Limit <= n
    <3>1. i + Limit \in 1..n /\ more[i + Limit] = e[i + Limit]
      BY <1>1, <1>2, <2>1, <2>2, <2>3
    <3> QED
      BY <2>2, <2>3, <3>1 DEF Spaced
  <2>4. CASE i + Limit = n + 1
    <3>1. i = n - Limit + 1 /\ ~(n < Limit)
      BY <1>1, <2>1, <2>2, <2>4
    <3>2. e[i] < clock - Window
      BY <3>1 DEF LetThrough
    <3> QED
      BY <1>1, <1>2, <2>1, <2>2, <2>4, <3>2
  <2> QED
    BY <1>1, <1>4, <2>1, <2>2, <2>3, <2>4
<1>5. Spaced(more)
  BY <1>2, <1>3, <1>4 DEF Spaced
<1> QED
  BY <1>5 DEF more

(* Time that passes leaves the entries apart.                              *)
LEMMA LaterIsSpaced ==
  ASSUME NEW e, Spaced(e), clock \in Nat, clock' = clock \/ clock' = clock + 1
  PROVE  Spaced(e)'
  BY DEF Spaced

(* The header an answer leaves with is the age that its kind may have at   *)
(* that instant.                                                           *)
LEMMA MaxAgeIsKeptFor ==
  ASSUME NEW q PROVE MaxAge(q) = KeptFor(q, clock)
  BY DEF MaxAge, KeptFor

(* Time and worlds go on, and what was given was given.                    *)
LEMMA GivenStays ==
  ASSUME clock \in Nat, clock' \in Nat, clock <= clock',
         \A t \in 0..clock : was[t] \subseteq was'[t],
         NEW q, NEW answer, NEW t \in 0..clock, GivenAt(q, answer, t, clock, was)
  PROVE  t \in 0..clock' /\ GivenAt(q, answer, t, clock', was')
  BY DEF GivenAt

(* The invariant survives every step of clients, server, database and      *)
(* time.                                                                   *)
LEMMA ApiStep ==
  ASSUME ApiInv, [ApiNext]_apiVars PROVE ApiInv'
<1>1. clock \in Nat /\ LastTick \in Nat /\ questions \in Sessions
  BY ApiAssumption DEF ApiInv, ClockAndWorlds
<1> USE DEF ApiInv
<1>2. ClockAndWorlds'
  <2>1. CASE UNCHANGED <<questions, clock, world, was>>
    BY <2>1 DEF ClockAndWorlds
  <2>2. CASE Pass
    BY <1>1, <2>2 DEF ClockAndWorlds, Pass
  <2>3. CASE Import \/ Redeploy
    BY <1>1, <2>3 DEF ClockAndWorlds, Import, Redeploy, Becomes
  <2> QED
    BY <2>1, <2>2, <2>3 DEF ApiNext, apiVars, FromCache, TooMany, Ask, Database
<1>3. /\ clock <= clock' /\ clock' \in Nat /\ (clock' = clock \/ clock' = clock + 1)
      /\ questions' = questions /\ \A t \in 0..clock : was[t] \subseteq was'[t]
  <2>1. CASE UNCHANGED <<questions, clock, was>>
    BY <1>1, <2>1
  <2>2. CASE Pass
    BY <1>1, <2>2 DEF Pass, ClockAndWorlds
  <2>3. CASE Import \/ Redeploy
    BY <1>1, <2>3 DEF Import, Redeploy, Becomes, ClockAndWorlds
  <2> QED
    BY <2>1, <2>2, <2>3 DEF ApiNext, apiVars, FromCache, TooMany, Ask, Database
<1>4. KeptIsOld'
  <2>1. CASE UNCHANGED kept
    BY <1>1, <1>3, <2>1, GivenStays DEF KeptIsOld
  <2>2. ASSUME NEW c \in Clients, NEW asked \in questions, Ask(c, asked), kept' # kept
        PROVE  KeptIsOld'
    <3> DEFINE entry == [answer |-> Handle(asked), until |-> clock + MaxAge(asked)]
    <3>1. kept' = [kept EXCEPT ![asked] = entry] /\ Handle(asked).status = 200
          /\ UNCHANGED <<clock, was, world, database>>
      BY <2>2 DEF Ask
    <3>2. Handle(asked) = Says(asked, clock, world)
      BY <3>1 DEF Handle, Refusal
    <3>3. /\ GivenAt(asked, entry.answer, clock, clock, was)
          /\ entry.until = clock + KeptFor(asked, clock)
      BY <1>1, <3>1, <3>2, MaxAgeIsKeptFor DEF GivenAt, ClockAndWorlds
    <3> HIDE DEF entry
    <3>5. ASSUME NEW q \in questions, kept'[q] # Unheard
          PROVE  \E t \in 0..clock : /\ GivenAt(q, kept'[q].answer, t, clock, was)
                                     /\ kept'[q].until = t + KeptFor(q, t)
      <4>1. CASE q = asked
        BY <1>1, <3>1, <3>3, <4>1 DEF KeptIsOld
      <4>2. CASE q # asked
        <5>1. kept'[q] = kept[q]
          BY <3>1, <4>2 DEF KeptIsOld
        <5> QED
          BY <3>5, <5>1 DEF KeptIsOld
      <4> QED
        BY <4>1, <4>2
    <3> QED
      BY <1>3, <3>1, <3>5 DEF KeptIsOld
  <2> QED
    BY <2>1, <2>2 DEF ApiNext, apiVars, FromCache, TooMany, Database, Pass, Import, Redeploy
<1>5. HeardIsKept'
  <2>1. CASE UNCHANGED <<heard, clock>>
    BY <1>1, <1>3, <2>1, GivenStays DEF HeardIsKept
  <2>2. ASSUME NEW c \in Clients, NEW q \in questions, FromCache(c, q)
        PROVE  HeardIsKept'
    <3>1. /\ kept[q] # Unheard /\ clock < kept[q].until /\ clock' = clock
          /\ heard' = [question |-> q, answer |-> kept[q].answer]
      BY <2>2 DEF FromCache, Fresh
    <3>2. PICK t \in 0..clock : /\ GivenAt(q, kept[q].answer, t, clock, was)
                                /\ kept[q].until = t + KeptFor(q, t)
      BY <3>1 DEF KeptIsOld
    <3>3. UNCHANGED <<was, questions>>
      BY <2>2 DEF FromCache
    <3> QED
      BY <1>1, <3>1, <3>2, <3>3 DEF HeardIsKept, GivenAt
  <2>3. ASSUME NEW c \in Clients, NEW q \in questions, TooMany(c, q)
        PROVE  HeardIsKept'
    BY <2>3 DEF TooMany, Refusal, HeardIsKept
  <2>4. ASSUME NEW c \in Clients, NEW q \in questions, Ask(c, q)
        PROVE  HeardIsKept'
    <3>1. /\ heard' = [question |-> q, answer |-> Handle(q)]
          /\ UNCHANGED <<clock, was, world, database>>
      BY <2>4 DEF Ask
    <3>2. Handle(q).status = 200 => Handle(q) = Says(q, clock, world)
      BY DEF Handle, Refusal
    <3>3. Handle(q).status = 200 => GivenAt(q, Handle(q), clock, clock, was)
      BY <1>1, <3>1, <3>2 DEF GivenAt, ClockAndWorlds
    <3> QED
      BY <1>1, <1>3, <3>1, <3>3 DEF HeardIsKept
  <2>5. CASE Pass
    BY <2>5 DEF Pass, HeardIsKept
  <2> QED
    BY <2>1, <2>2, <2>3, <2>4, <2>5 DEF ApiNext, apiVars, Database, Import, Redeploy
<1>6. LimiterSpaced'
  <2>1. CASE UNCHANGED entries
    BY <1>1, <1>3, <2>1, LaterIsSpaced DEF LimiterSpaced
  <2>2. ASSUME NEW c \in Clients, NEW q \in questions, Ask(c, q)
        PROVE  LimiterSpaced'
    <3> DEFINE mine == <<c, q.path>>
    <3>1. /\ mine \in Counted /\ LetThrough(entries[mine]) /\ clock' = clock
          /\ entries' = [entries EXCEPT ![mine] = Append(entries[mine], clock)]
      BY <1>1, <2>2, ApiAssumption DEF Ask, Counted
    <3>2. Spaced(Append(entries[mine], clock))
      BY <1>1, <3>1, OneMoreIsSpaced DEF LimiterSpaced
    <3> HIDE DEF mine
    <3> QED
      BY <3>1, <3>2 DEF LimiterSpaced, Spaced
  <2>3. CASE Redeploy
    BY <1>1, <2>3, ApiAssumption DEF Redeploy, LimiterSpaced, Spaced
  <2> QED
    BY <2>1, <2>2, <2>3 DEF ApiNext, apiVars, FromCache, TooMany, Database, Pass, Import
<1> QED
  BY <1>2, <1>4, <1>5, <1>6

(* Nothing is kept, heard or counted at first.                             *)
LEMMA ApiBegins ==
  ASSUME ApiInit PROVE ApiInv
<1>1. Limit \in Nat \ {0} /\ LastTick \in Nat \ {0}
  BY ApiAssumption
<1>2. ClockAndWorlds
  BY <1>1 DEF ApiInit, ClockAndWorlds
<1>3. KeptIsOld /\ HeardIsKept
  BY DEF ApiInit, KeptIsOld, HeardIsKept
<1>4. LimiterSpaced
  BY <1>1 DEF ApiInit, LimiterSpaced, Spaced
<1> QED
  BY <1>2, <1>3, <1>4 DEF ApiInv

(* No client ever hears, from a cache or from the server, an answer older  *)
(* than its kind may be: for any session, any spans of time, and whatever  *)
(* an import or a redeployment changes meanwhile.                          *)
THEOREM AlwaysHeardInTime == ApiSpec => []HeardInTime
<1>1. ApiInv => HeardInTime
  <2> SUFFICES ASSUME ApiInv, heard # Unheard, heard.answer.status = 200
               PROVE  HeardInTime
    BY DEF HeardInTime
  <2> DEFINE q == heard.question
             age == CASE q.path \in {"shade", "routes"} -> IF q.at = Current THEN 0 ELSE Day
                      [] q.path = "parking"  -> IF q.at = Current THEN 0 ELSE Minute
                      [] q.path = "timeline" -> IF q.at = Current THEN Minute ELSE Day
                      [] OTHER               -> Hour
  <2>1. PICK t \in 0..clock : /\ GivenAt(q, heard.answer, t, clock, was)
                              /\ t = clock \/ clock < t + KeptFor(q, t)
    BY DEF ApiInv, HeardIsKept
  <2>2. q.path \in Paths
    BY ApiAssumption DEF ApiInv, HeardIsKept, ClockAndWorlds
  <2>3. clock \in Nat /\ DOMAIN was = 0..LastTick /\ clock <= LastTick /\ LastTick \in Nat
    BY ApiAssumption DEF ApiInv, ClockAndWorlds
  <2>4. age \in Nat /\ KeptFor(q, t) \in Nat /\ KeptFor(q, t) <= age
    BY <2>2, ApiAssumption DEF KeptFor, Paths, Resolved
  <2>5. t \in clock - age..clock /\ t \in DOMAIN was
    BY <2>1, <2>3, <2>4
  <2>6. \E w \in was[t] : heard.answer = Says(q, t, w)
    BY <2>1 DEF GivenAt
  <2>7. heard.answer.clock # Current => heard.answer.clock >= clock - Minute
    <3> SUFFICES ASSUME heard.answer.clock # Current
                 PROVE  heard.answer.clock >= clock - Minute
      OBVIOUS
    <3>1. heard.answer.clock = t /\ q.path = "timeline" /\ Resolved(q, t) = Today(t)
      BY <2>6 DEF Says
    <3>2. KeptFor(q, t) = Minute
      BY <3>1 DEF KeptFor
    <3> QED
      BY <2>1, <2>3, <3>1, <3>2, ApiAssumption
  <2> HIDE DEF age
  <2> QED
    BY <2>5, <2>6, <2>7 DEF HeardInTime, age
<1> QED
  BY <1>1, ApiBegins, ApiStep, PTL DEF ApiSpec

(* In no window of time is a client let through more often than the limit, *)
(* on any path: though the limiter only ever looks back from the present.  *)
THEOREM WindowAlwaysHolds == ApiSpec => []WindowHolds
<1>1. ApiInv => WindowHolds
  <2> SUFFICES ASSUME ApiInv, NEW k \in Counted, NEW t \in 0..clock
               PROVE  Cardinality({i \in DOMAIN entries[k] :
                                     t <= entries[k][i] /\ entries[k][i] <= t + Window}) <= Limit
    BY DEF WindowHolds, Quantify
  <2> DEFINE e == entries[k]  n == Len(e)
             inside == {i \in DOMAIN e : t <= e[i] /\ e[i] <= t + Window}
  <2>1. /\ n \in Nat /\ DOMAIN e = 1..n /\ clock \in Nat
        /\ Limit \in Nat \ {0} /\ Window \in Nat
        /\ \A i \in 1..n : e[i] \in 0..clock
        /\ \A i, j \in 1..n : i <= j => e[i] <= e[j]
        /\ \A i \in 1..n : i + Limit <= n => e[i] + Window < e[i + Limit]
    BY ApiAssumption DEF ApiInv, LimiterSpaced, ClockAndWorlds, Spaced
  <2> HIDE DEF e, n
  <2>2. CASE inside = {}
    <3> HIDE DEF inside
    <3>1. Cardinality(inside) <= Limit
      BY <2>1, <2>2, FS_EmptySet
    <3> QED
      BY <3>1 DEF inside, e
  <2>3. CASE inside # {}
    <3>4. inside \in SUBSET Nat
      BY <2>1
    <3>1. PICK m \in inside : \A i \in inside : m <= i
      BY <2>3, <3>4, Smallest
    <3>2. m \in 1..n /\ t <= e[m]
      BY <2>1, <3>1
    <3>3. ASSUME NEW i \in inside PROVE i \in m..m + Limit - 1
      <4>1. i \in 1..n /\ m <= i /\ e[i] <= t + Window
        BY <2>1, <3>1
      <4>2. ~(m + Limit <= i)
        <5> SUFFICES ASSUME m + Limit <= i PROVE FALSE
          OBVIOUS
        <5>1. m + Limit \in 1..n
          BY <2>1, <3>2, <4>1
        <5>2. e[m] + Window < e[m + Limit] /\ e[m + Limit] <= e[i]
          BY <2>1, <3>2, <4>1, <5>1
        <5>3. e[m] \in Nat /\ e[i] \in Nat /\ e[m + Limit] \in Nat
          BY <2>1, <3>2, <4>1, <5>1
        <5> QED
          BY <2>1, <3>2, <4>1, <5>2, <5>3
      <4> QED
        BY <2>1, <3>2, <4>1, <4>2
    <3> HIDE DEF inside
    <3> DEFINE last == m + Limit - 1
    <3>5. last \in Int /\ m \in Int /\ ~(m > last) /\ last - m + 1 = Limit
      BY <2>1, <3>2
    <3>6. inside \subseteq m..last
      BY <3>3
    <3> HIDE DEF last
    <3>7. IsFiniteSet(m..last) /\ Cardinality(m..last) = Limit
      BY <3>5, FS_Interval
    <3>8. Cardinality(inside) <= Limit
      BY <3>6, <3>7, FS_Subset
    <3> QED
      BY <3>8 DEF inside, e
  <2> QED
    BY <2>2, <2>3
<1> QED
  BY <1>1, ApiBegins, ApiStep, PTL DEF ApiSpec

-----------------------------------------------------------------------------
(* An interval of a list: ShadeInterval, with hours counted in half steps. *)
Stretches == [start : Nat, end : Nat, verdict : Verdicts]

(* A sample falls in an interval that is open at its end.                  *)
Within(stretch, i) == stretch.start <= Stamp(i) /\ Stamp(i) < stretch.end

(* Stretches of samples before one of them, in order, each as long as it   *)
(* can be.                                                                 *)
Listed(list, upto) ==
    /\ list \in Seq(Stretches)
    /\ \A j \in 1..Len(list) : \E a, b \in 1..upto :
         a < b /\ list[j].start = Stamp(a) /\ list[j].end = Stamp(b)
    /\ \A j, k \in 1..Len(list) : j < k => list[j].end <= list[k].start
    /\ \A j \in 1..Len(list) : j + 1 <= Len(list) /\ list[j].end = list[j + 1].start =>
         list[j].verdict # list[j + 1].verdict

(* They tell what was seen before it.                                      *)
Tells(list, upto, light) ==
    \A i \in 1..upto - 1 :
        /\ \A j \in 1..Len(list) : Within(list[j], i) => list[j].verdict = light[i]
        /\ light[i] # Dark => \E j \in 1..Len(list) : Within(list[j], i)

(* What a point was seen to have at each sample.                           *)
Light == [i \in DOMAIN day |-> Seen(i)]

(* While a day is told, what is listed so far, with the current stretch    *)
(* closed at this sample, tells all the samples before it.                 *)
DayInv ==
    /\ day \in Days /\ sample \in 1..Len(day) + 2
    /\ IF Told THEN Listed(intervals, Len(day) + 1) /\ Tells(intervals, Len(day) + 1, Light)
       ELSE /\ Listed(Closed(Stamp(sample)), sample)
            /\ Tells(Closed(Stamp(sample)), sample, Light)
            /\ IF current = None
               THEN \A j \in 1..Len(intervals) : intervals[j].end < Stamp(sample)
               ELSE current \in [start : Nat, verdict : Verdicts] /\ intervals \in Seq(Stretches)

(* A sample of the night is in none.                                       *)
LEMMA NightGoesOn ==
  ASSUME NEW list, NEW s \in Nat \ {0}, NEW light, Listed(list, s), Tells(list, s, light),
         light[s] = Dark
  PROVE  Listed(list, s + 1) /\ Tells(list, s + 1, light)
<1>1. Len(list) \in Nat /\ \A j \in 1..Len(list) : list[j] \in Stretches
  BY DEF Listed
<1>2. \A j \in 1..Len(list) : \E a, b \in 1..s :
        a < b /\ list[j].start = Stamp(a) /\ list[j].end = Stamp(b)
  BY DEF Listed
<1>3. Listed(list, s + 1)
  <2>1. \A j \in 1..Len(list) : \E a, b \in 1..s + 1 :
          a < b /\ list[j].start = Stamp(a) /\ list[j].end = Stamp(b)
    BY <1>2
  <2> QED
    BY <2>1 DEF Listed
<1>4. \A j \in 1..Len(list) : ~Within(list[j], s)
  BY <1>2 DEF Within, Stamp
<1>5. \A i \in 1..s + 1 - 1 : i \in 1..s - 1 \/ i = s
  OBVIOUS
<1> QED
  BY <1>3, <1>4, <1>5 DEF Tells

(* A stretch more.                                                         *)
LEMMA OneStretchMore ==
  ASSUME NEW list, NEW s \in Nat \ {0}, NEW light, Listed(list, s), Tells(list, s, light),
         light[s] \in Verdicts,
         \A j \in 1..Len(list) : list[j].end < Stamp(s) \/ list[j].verdict # light[s] \/ j < Len(list)
  PROVE  /\ Listed(Append(list, Interval(Stamp(s), Stamp(s + 1), light[s])), s + 1)
         /\ Tells(Append(list, Interval(Stamp(s), Stamp(s + 1), light[s])), s + 1, light)
<1> DEFINE last == Interval(Stamp(s), Stamp(s + 1), light[s])
           more == Append(list, last)  n == Len(list)
<1>1. /\ n \in Nat /\ \A j \in 1..n : list[j] \in Stretches
      /\ \A j \in 1..n : \E a, b \in 1..s :
           a < b /\ list[j].start = Stamp(a) /\ list[j].end = Stamp(b)
  BY DEF Listed
<1>2. /\ last \in Stretches /\ last.start = Stamp(s) /\ last.end = Stamp(s + 1)
      /\ last.verdict = light[s]
  BY DEF Interval, Stretches, Stamp
<1> HIDE DEF last
<1>3. /\ more \in Seq(Stretches) /\ Len(more) = n + 1 /\ more[n + 1] = last
      /\ \A j \in 1..n : more[j] = list[j]
  BY <1>1, <1>2 DEF Listed
<1> HIDE DEF more, n
<1>4. \A j \in 1..n : list[j].end <= Stamp(s) /\ list[j].end \in Nat /\ list[j].start \in Nat
  <2> TAKE j \in 1..n
  <2>1. PICK a, b \in 1..s : a < b /\ list[j].start = Stamp(a) /\ list[j].end = Stamp(b)
    BY <1>1
  <2> QED
    BY <2>1 DEF Stamp
<1>5. Listed(more, s + 1)
  <2>1. ASSUME NEW j \in 1..n + 1
        PROVE  \E a, b \in 1..s + 1 :
                 a < b /\ more[j].start = Stamp(a) /\ more[j].end = Stamp(b)
    <3>1. CASE j = n + 1
      <4>1. s \in 1..s + 1 /\ s + 1 \in 1..s + 1 /\ s < s + 1
        OBVIOUS
      <4> QED
        BY <1>2, <1>3, <3>1, <4>1
    <3>2. CASE j \in 1..n
      BY <1>1, <1>3, <3>2
    <3> QED
      BY <1>1, <3>1, <3>2
  <2>2. ASSUME NEW j \in 1..n + 1, NEW k \in 1..n + 1, j < k
        PROVE  more[j].end <= more[k].start
    <3>1. j \in 1..n /\ more[j] = list[j]
      BY <1>1, <1>3, <2>2
    <3>2. CASE k = n + 1
      BY <1>2, <1>3, <1>4, <3>1, <3>2
    <3>3. CASE k \in 1..n
      BY <1>3, <2>2, <3>1, <3>3 DEF Listed, n
    <3> QED
      BY <1>1, <3>2, <3>3
  <2>3. ASSUME NEW j \in 1..n + 1, j + 1 <= n + 1, more[j].end = more[j + 1].start
        PROVE  more[j].verdict # more[j + 1].verdict
    <3>1. j \in 1..n /\ more[j] = list[j]
      BY <1>1, <1>3, <2>3
    <3>2. CASE j = n
      <4>1. more[j + 1] = last
        BY <1>3, <3>2
      <4>2. list[j].end = Stamp(s) /\ ~(list[j].end < Stamp(s))
        BY <1>2, <1>4, <2>3, <3>1, <4>1
      <4>3. list[j].verdict # light[s]
        BY <1>1, <3>1, <3>2, <4>2 DEF n
      <4> QED
        BY <1>2, <3>1, <4>1, <4>3
    <3>3. CASE j + 1 <= n
      <4>1. j + 1 \in 1..n /\ more[j + 1] = list[j + 1]
        BY <1>1, <1>3, <3>1, <3>3
      <4> QED
        BY <2>3, <3>1, <3>3, <4>1 DEF Listed, n
    <3> QED
      BY <1>1, <2>3, <3>1, <3>2, <3>3
  <2> QED
    BY <1>3, <2>1, <2>2, <2>3 DEF Listed
<1>6. Tells(more, s + 1, light)
  <2> SUFFICES ASSUME NEW i \in 1..s
               PROVE  /\ \A j \in 1..n + 1 : Within(more[j], i) => more[j].verdict = light[i]
                      /\ light[i] # Dark => \E j \in 1..n + 1 : Within(more[j], i)
    BY <1>3 DEF Tells
  <2>1. CASE i = s
    <3>1. \A j \in 1..n : ~Within(more[j], i)
      BY <1>3, <1>4, <2>1 DEF Within, Stamp
    <3>2. Within(more[n + 1], i) /\ more[n + 1].verdict = light[i] /\ n + 1 \in 1..n + 1
      BY <1>1, <1>2, <1>3, <2>1 DEF Within, Stamp
    <3> QED
      BY <1>1, <3>1, <3>2
  <2>2. CASE i \in 1..s - 1
    <3>1. ~Within(more[n + 1], i)
      BY <1>2, <1>3, <2>2 DEF Within, Stamp
    <3>2. \A j \in 1..n + 1 : j \in 1..n \/ j = n + 1
      BY <1>1
    <3>3. \A j \in 1..n : j \in 1..n + 1
      BY <1>1
    <3> QED
      BY <1>3, <2>2, <3>1, <3>2, <3>3 DEF Tells, n
  <2> QED
    BY <2>1, <2>2
<1> QED
  BY <1>5, <1>6 DEF more, last

(* The last one goes on.                                                   *)
LEMMA LastGoesOn ==
  ASSUME NEW list \in Seq(Stretches), NEW s \in Nat \ {0}, NEW light,
         NEW from \in Nat, NEW verdict \in Verdicts, light[s] = verdict,
         Listed(Append(list, Interval(from, Stamp(s), verdict)), s),
         Tells(Append(list, Interval(from, Stamp(s), verdict)), s, light)
  PROVE  /\ Listed(Append(list, Interval(from, Stamp(s + 1), verdict)), s + 1)
         /\ Tells(Append(list, Interval(from, Stamp(s + 1), verdict)), s + 1, light)
<1> DEFINE short == Interval(from, Stamp(s), verdict)
           long == Interval(from, Stamp(s + 1), verdict)
           old == Append(list, short)  new == Append(list, long)  n == Len(list)
<1>1. /\ short \in Stretches /\ short.start = from /\ short.end = Stamp(s)
      /\ short.verdict = verdict
      /\ long \in Stretches /\ long.start = from /\ long.end = Stamp(s + 1)
      /\ long.verdict = verdict
  BY DEF Interval, Stretches, Stamp
<1>2. /\ Listed(old, s) /\ Tells(old, s, light)
  OBVIOUS
<1> HIDE DEF short, long
<1>3. /\ n \in Nat
      /\ Len(old) = n + 1 /\ old[n + 1] = short /\ \A j \in 1..n : old[j] = list[j]
      /\ new \in Seq(Stretches) /\ Len(new) = n + 1 /\ new[n + 1] = long
      /\ \A j \in 1..n : new[j] = list[j]
  BY <1>1
<1> HIDE DEF old, new, n
<1>4. \A j \in 1..n + 1 : /\ j \in 1..n \/ j = n + 1
                          /\ new[j].start = old[j].start /\ new[j].verdict = old[j].verdict
  BY <1>1, <1>3
<1>5. \A j \in 1..n : new[j].end = old[j].end /\ j \in 1..n + 1
  BY <1>3
<1>6. PICK a \in 1..s : from = Stamp(a) /\ a < s
  <2>1. n + 1 \in 1..Len(old)
    BY <1>3
  <2>2. PICK a, b \in 1..s : a < b /\ short.start = Stamp(a) /\ short.end = Stamp(b)
    BY <1>2, <1>3, <2>1 DEF Listed
  <2> QED
    BY <1>1, <2>2 DEF Stamp
<1>7. Listed(new, s + 1)
  <2>1. ASSUME NEW j \in 1..n + 1
        PROVE  \E c, b \in 1..s + 1 :
                 c < b /\ new[j].start = Stamp(c) /\ new[j].end = Stamp(b)
    <3>1. CASE j = n + 1
      <4>1. a \in 1..s + 1 /\ s + 1 \in 1..s + 1 /\ a < s + 1
        BY <1>6
      <4> QED
        BY <1>1, <1>3, <1>6, <3>1, <4>1
    <3>2. CASE j \in 1..n
      <4>1. PICK c, b \in 1..s : c < b /\ old[j].start = Stamp(c) /\ old[j].end = Stamp(b)
        BY <1>2, <1>3 DEF Listed
      <4> QED
        BY <1>4, <1>5, <3>2, <4>1
    <3> QED
      BY <1>4, <3>1, <3>2
  <2>2. ASSUME NEW j \in 1..n + 1, NEW k \in 1..n + 1, j < k
        PROVE  new[j].end <= new[k].start
    <3>1. j \in 1..n
      BY <1>3, <2>2
    <3>2. old[j].end <= old[k].start
      BY <1>2, <1>3, <2>2 DEF Listed
    <3> QED
      BY <1>4, <1>5, <3>1, <3>2
  <2>3. ASSUME NEW j \in 1..n + 1, j + 1 <= n + 1, new[j].end = new[j + 1].start
        PROVE  new[j].verdict # new[j + 1].verdict
    <3>1. j \in 1..n /\ j + 1 \in 1..n + 1
      BY <1>3, <2>3
    <3>2. old[j].end = old[j + 1].start
      BY <1>4, <1>5, <2>3, <3>1
    <3>3. old[j].verdict # old[j + 1].verdict
      BY <1>2, <1>3, <2>3, <3>2 DEF Listed
    <3> QED
      BY <1>4, <3>1, <3>3
  <2> QED
    BY <1>3, <2>1, <2>2, <2>3 DEF Listed
<1>8. \A j \in 1..n : new[j].end <= from /\ new[j].end \in Nat
  <2> TAKE j \in 1..n
  <2>1. n + 1 \in 1..n + 1 /\ j < n + 1
    BY <1>3
  <2>2. old[j].end <= old[n + 1].start
    BY <1>2, <1>3, <1>5, <2>1 DEF Listed
  <2>3. new[j] \in Stretches
    BY <1>3
  <2> QED
    BY <1>1, <1>3, <1>5, <2>2, <2>3 DEF Stretches
<1>9. Tells(new, s + 1, light)
  <2> SUFFICES ASSUME NEW i \in 1..s
               PROVE  /\ \A j \in 1..n + 1 : Within(new[j], i) => new[j].verdict = light[i]
                      /\ light[i] # Dark => \E j \in 1..n + 1 : Within(new[j], i)
    BY <1>3 DEF Tells
  <2>1. CASE i = s
    <3>1. \A j \in 1..n : ~Within(new[j], i)
      BY <1>6, <1>8, <2>1 DEF Within, Stamp
    <3>2. Within(new[n + 1], i) /\ new[n + 1].verdict = light[i] /\ n + 1 \in 1..n + 1
      BY <1>1, <1>3, <1>6, <2>1 DEF Within, Stamp
    <3> QED
      BY <1>4, <3>1, <3>2
  <2>2. CASE i \in 1..s - 1
    <3>1. Within(new[n + 1], i) <=> Within(old[n + 1], i)
      BY <1>1, <1>3, <1>6, <2>2 DEF Within, Stamp
    <3>2. \A j \in 1..n + 1 : Within(new[j], i) <=> Within(old[j], i)
      BY <1>3, <1>4, <3>1
    <3>3. /\ \A j \in 1..n + 1 : Within(old[j], i) => old[j].verdict = light[i]
          /\ light[i] # Dark => \E j \in 1..n + 1 : Within(old[j], i)
      BY <1>2, <1>3, <2>2 DEF Tells
    <3> QED
      BY <1>4, <3>2, <3>3
  <2> QED
    BY <2>1, <2>2
<1> QED
  BY <1>7, <1>9 DEF new, long

(* The day goes on, sample by sample.                                      *)
LEMMA DayGoesOn ==
  ASSUME DayInv, [DayNext]_dayVars PROVE DayInv'
<1> DEFINE n == Len(day)  s == sample  whole == Closed(Stamp(s))
<1>1. /\ n \in Nat /\ DOMAIN day = 1..n /\ s \in 1..n + 2 /\ s \in Nat \ {0}
      /\ \A i \in 1..n : Light[i] = Seen(i) /\ Seen(i) \in Verdicts \cup {Dark}
  BY DayAssumption DEF DayInv, Light, Seen
<1>2. CASE UNCHANGED dayVars
  <2>1. UNCHANGED <<day, sample, current, intervals>>
    BY <1>2 DEF dayVars
  <2>2. Light' = Light /\ Closed(Stamp(sample))' = Closed(Stamp(sample))
    BY <2>1 DEF Light, Seen, Closed
  <2> QED
    BY <2>1, <2>2 DEF DayInv, Told
<1>3. ASSUME s \in 1..n + 1, UNCHANGED day
      PROVE  /\ Listed(whole, s) /\ Tells(whole, s, Light) /\ Light' = Light
             /\ ~Told
             /\ IF current = None
                THEN \A j \in 1..Len(intervals) : intervals[j].end < Stamp(s)
                ELSE current \in [start : Nat, verdict : Verdicts] /\ intervals \in Seq(Stretches)
  <2>1. ~Told
    BY <1>1, <1>3 DEF Told
  <2>2. Light' = Light
    BY <1>3 DEF Light, Seen
  <2> QED
    BY <2>1, <2>2 DEF DayInv
<1>4. CASE MeetNight
  <2>1. /\ s \in 1..n /\ Light[s] = Dark /\ day' = day /\ sample' = s + 1
        /\ intervals' = whole /\ current' = None
    BY <1>1, <1>4 DEF MeetNight
  <2>2. /\ Listed(whole, s) /\ Tells(whole, s, Light) /\ Light' = Light
    BY <1>1, <1>3, <2>1
  <2> HIDE DEF whole
  <2>3. Listed(whole, s + 1) /\ Tells(whole, s + 1, Light)
    BY <1>1, <2>1, <2>2, NightGoesOn
  <2>4. Closed(Stamp(sample))' = whole
    BY <2>1 DEF Closed
  <2>5. ~Told'
    BY <1>1, <2>1 DEF Told
  <2>6. \A j \in 1..Len(whole) : whole[j].end < Stamp(s + 1)
    <3> TAKE j \in 1..Len(whole)
    <3>1. PICK a, b \in 1..s : a < b /\ whole[j].start = Stamp(a) /\ whole[j].end = Stamp(b)
      BY <2>2 DEF Listed
    <3> QED
      BY <1>1, <3>1 DEF Stamp
  <2>7. day' \in Days /\ sample' \in 1..Len(day') + 2
    BY <1>1, <2>1 DEF DayInv
  <2> QED
    BY <2>1, <2>2, <2>3, <2>4, <2>5, <2>6, <2>7 DEF DayInv
<1>5. CASE MeetSame
  <2>1. /\ s \in 1..n /\ Light[s] \in Verdicts /\ day' = day /\ sample' = s + 1
        /\ current # None /\ current.verdict = Light[s]
        /\ intervals' = intervals /\ current' = current
    BY <1>1, <1>5 DEF MeetSame, GoesOn
  <2>2. /\ Listed(whole, s) /\ Tells(whole, s, Light) /\ Light' = Light
        /\ current \in [start : Nat, verdict : Verdicts] /\ intervals \in Seq(Stretches)
    BY <1>1, <1>3, <2>1
  <2>3. whole = Append(intervals, Interval(current.start, Stamp(s), current.verdict))
    BY <2>1 DEF Closed
  <2> DEFINE longer == Append(intervals, Interval(current.start, Stamp(s + 1), current.verdict))
  <2>4. Listed(longer, s + 1) /\ Tells(longer, s + 1, Light)
    <3> DEFINE from == current.start  verdict == current.verdict
    <3>1. from \in Nat /\ verdict \in Verdicts /\ Light[s] = verdict
      BY <2>1, <2>2
    <3>2. /\ Listed(Append(intervals, Interval(from, Stamp(s), verdict)), s)
          /\ Tells(Append(intervals, Interval(from, Stamp(s), verdict)), s, Light)
      BY <2>2, <2>3
    <3> HIDE DEF from, verdict
    <3>3. /\ Listed(Append(intervals, Interval(from, Stamp(s + 1), verdict)), s + 1)
          /\ Tells(Append(intervals, Interval(from, Stamp(s + 1), verdict)), s + 1, Light)
      BY <1>1, <2>2, <3>1, <3>2, LastGoesOn
    <3> QED
      BY <3>3 DEF from, verdict
  <2>5. Closed(Stamp(sample))' = longer
    BY <2>1 DEF Closed
  <2> HIDE DEF longer
  <2>6. ~Told'
    BY <1>1, <2>1 DEF Told
  <2>7. day' \in Days /\ sample' \in 1..Len(day') + 2
    BY <1>1, <2>1 DEF DayInv
  <2> QED
    BY <2>1, <2>2, <2>4, <2>5, <2>6, <2>7 DEF DayInv
<1>6. CASE MeetChange
  <2>1. /\ s \in 1..n /\ Light[s] \in Verdicts /\ day' = day /\ sample' = s + 1
        /\ current # None => current.verdict # Light[s]
        /\ intervals' = whole /\ current' = [start |-> Stamp(s), verdict |-> Light[s]]
    BY <1>1, <1>6 DEF MeetChange, GoesOn
  <2>2. /\ Listed(whole, s) /\ Tells(whole, s, Light) /\ Light' = Light
        /\ IF current = None
           THEN \A j \in 1..Len(intervals) : intervals[j].end < Stamp(s)
           ELSE current \in [start : Nat, verdict : Verdicts] /\ intervals \in Seq(Stretches)
    BY <1>1, <1>3, <2>1
  <2>3. \A j \in 1..Len(whole) :
          whole[j].end < Stamp(s) \/ whole[j].verdict # Light[s] \/ j < Len(whole)
    <3>1. CASE current = None
      BY <2>2, <3>1 DEF Closed
    <3>2. CASE current # None
      <4> DEFINE last == Interval(current.start, Stamp(s), current.verdict)
      <4>1. whole = Append(intervals, last) /\ last.verdict = current.verdict
        BY <3>2 DEF Closed, Interval
      <4>2. last \in Stretches
        BY <1>1, <2>2, <3>2 DEF Interval, Stretches, Stamp
      <4> HIDE DEF last
      <4>3. Len(whole) = Len(intervals) + 1 /\ whole[Len(whole)] = last
        BY <2>2, <3>2, <4>1, <4>2
      <4> QED
        BY <2>1, <2>2, <3>2, <4>1, <4>3
    <3> QED
      BY <3>1, <3>2
  <2> DEFINE new == Interval(Stamp(s), Stamp(s + 1), Light[s])
  <2> HIDE DEF whole
  <2>4. Listed(Append(whole, new), s + 1) /\ Tells(Append(whole, new), s + 1, Light)
    BY <1>1, <2>1, <2>2, <2>3, OneStretchMore
  <2>5. current' # None /\ current' \in [start : Nat, verdict : Verdicts]
    BY <1>1, <2>1, DayAssumption DEF Stamp
  <2>6. Closed(Stamp(sample))' = Append(whole, new)
    BY <2>1, <2>5 DEF Closed
  <2> HIDE DEF new
  <2>7. ~Told' /\ whole \in Seq(Stretches)
    BY <1>1, <2>1, <2>2 DEF Told, Listed
  <2>8. day' \in Days /\ sample' \in 1..Len(day') + 2
    BY <1>1, <2>1 DEF DayInv
  <2> QED
    BY <2>1, <2>2, <2>4, <2>5, <2>6, <2>7, <2>8 DEF DayInv
<1>7. CASE EndDay
  <2>1. /\ s = n + 1 /\ day' = day /\ sample' = n + 2 /\ intervals' = whole /\ current' = None
    BY <1>1, <1>7 DEF EndDay
  <2>2. Listed(whole, s) /\ Tells(whole, s, Light) /\ Light' = Light
    BY <1>1, <1>3, <2>1
  <2>3. Told'
    BY <2>1 DEF Told
  <2>4. day' \in Days /\ sample' \in 1..Len(day') + 2
    BY <1>1, <2>1 DEF DayInv
  <2> HIDE DEF whole
  <2> QED
    BY <2>1, <2>2, <2>3, <2>4 DEF DayInv
<1> QED
  BY <1>2, <1>4, <1>5, <1>6, <1>7 DEF DayNext

(* Before the first sample there is nothing to tell.                       *)
LEMMA DayBegins ==
  ASSUME DayInit PROVE DayInv
<1>1. /\ day \in Days /\ sample = 1 /\ current = None /\ intervals = <<>> /\ Len(day) \in Nat
  BY DayAssumption DEF DayInit
<1>2. Closed(Stamp(sample)) = <<>>
  BY <1>1 DEF Closed
<1>3. Listed(<<>>, 1) /\ Tells(<<>>, 1, Light)
  BY DEF Listed, Tells
<1>4. ~Told
  BY <1>1 DEF Told
<1> QED
  BY <1>1, <1>2, <1>3, <1>4 DEF DayInv

-----------------------------------------------------------------------------
(* A whole day, as it was seen and as its list tells it.                   *)
DayIsListed ==
    /\ Len(day) \in Nat /\ DOMAIN day = 1..Len(day) /\ day \in Days
    /\ \A i \in 1..Len(day) : Light[i] = Seen(i) /\ Seen(i) \in Verdicts \cup {Dark}
    /\ Listed(intervals, Len(day) + 1) /\ Tells(intervals, Len(day) + 1, Light)

(* Once a day is told, its list tells all of it.                           *)
LEMMA ToldIsListed ==
  ASSUME DayInv, Told PROVE DayIsListed
  BY DayAssumption DEF DayInv, DayIsListed, Light, Seen

(* Two stretches of a list that meet a sample are one.                     *)
LEMMA OneAround ==
  ASSUME DayIsListed, NEW at \in Nat, NEW j \in 1..Len(intervals), NEW k \in 1..Len(intervals),
         intervals[j].start <= at, at < intervals[j].end,
         intervals[k].start <= at, at < intervals[k].end
  PROVE  j = k
<1>1. /\ intervals[j] \in Stretches /\ intervals[k] \in Stretches
      /\ j < k => intervals[j].end <= intervals[k].start
      /\ k < j => intervals[k].end <= intervals[j].start
  BY DEF DayIsListed, Listed
<1> QED
  BY <1>1 DEF Stretches

(* Each sample of daylight is in one interval, of its own verdict, and two *)
(* that touch differ.                                                      *)
LEMMA ListTellsTheDay ==
  ASSUME DayIsListed
  PROVE  /\ \A i \in DOMAIN day :
              LET around == {j \in DOMAIN intervals :
                                intervals[j].start <= Stamp(i) /\ Stamp(i) < intervals[j].end}
              IN  IF Seen(i) = Dark THEN around = {}
                  ELSE /\ Cardinality(around) = 1
                       /\ \A j \in around : intervals[j].verdict = Seen(i)
         /\ \A j \in 2..Len(intervals) :
              \/ intervals[j - 1].end < intervals[j].start
              \/ /\ intervals[j - 1].end = intervals[j].start
                 /\ intervals[j - 1].verdict # intervals[j].verdict
<1>1. /\ Len(intervals) \in Nat /\ DOMAIN intervals = 1..Len(intervals)
      /\ \A j \in 1..Len(intervals) : intervals[j] \in Stretches
      /\ DOMAIN day = 1..Len(day) /\ Len(day) \in Nat
  BY DEF DayIsListed, Listed
<1>2. ASSUME NEW i \in DOMAIN day
      PROVE  LET around == {j \in DOMAIN intervals :
                               intervals[j].start <= Stamp(i) /\ Stamp(i) < intervals[j].end}
             IN  IF Seen(i) = Dark THEN around = {}
                 ELSE /\ Cardinality(around) = 1
                      /\ \A j \in around : intervals[j].verdict = Seen(i)
  <2> DEFINE around == {j \in DOMAIN intervals :
                           intervals[j].start <= Stamp(i) /\ Stamp(i) < intervals[j].end}
  <2>1. /\ i \in 1..Len(day) + 1 - 1 /\ i \in 1..Len(day) /\ Stamp(i) \in Nat
    BY <1>1 DEF Stamp
  <2>2. /\ \A j \in 1..Len(intervals) : Within(intervals[j], i) => intervals[j].verdict = Seen(i)
        /\ Seen(i) # Dark => \E j \in 1..Len(intervals) : Within(intervals[j], i)
    BY <2>1 DEF DayIsListed, Tells
  <2>3. \A j : j \in around <=> j \in 1..Len(intervals) /\ Within(intervals[j], i)
    BY <1>1 DEF Within
  <2>4. CASE Seen(i) = Dark
    <3>1. \A j \in 1..Len(intervals) : intervals[j].verdict # Dark
      BY <1>1, DayAssumption DEF Stretches
    <3> HIDE DEF around
    <3>2. around = {}
      BY <2>2, <2>3, <2>4, <3>1
    <3> QED
      BY <2>4, <3>2 DEF around
  <2>5. CASE Seen(i) # Dark
    <3>1. PICK j \in 1..Len(intervals) : Within(intervals[j], i)
      BY <2>2, <2>5
    <3>2. \A k \in 1..Len(intervals) : Within(intervals[k], i) => k = j
      BY <2>1, <3>1, OneAround DEF Within
    <3> HIDE DEF around
    <3>3. around = {j}
      BY <2>3, <3>1, <3>2
    <3>4. Cardinality(around) = 1
      BY <3>3, FS_Singleton
    <3>5. \A k \in around : intervals[k].verdict = Seen(i)
      BY <2>2, <2>3
    <3> QED
      BY <2>5, <3>4, <3>5 DEF around
  <2> QED
    BY <2>4, <2>5
<1>3. ASSUME NEW j \in 2..Len(intervals)
      PROVE  \/ intervals[j - 1].end < intervals[j].start
             \/ /\ intervals[j - 1].end = intervals[j].start
                /\ intervals[j - 1].verdict # intervals[j].verdict
  <2> DEFINE i == j - 1
  <2>1. i \in 1..Len(intervals) /\ i + 1 = j /\ i < j /\ j \in 1..Len(intervals)
    BY <1>1
  <2> HIDE DEF i
  <2>2. intervals[i].end <= intervals[j].start
    BY <2>1 DEF DayIsListed, Listed
  <2>3. intervals[i].end = intervals[j].start => intervals[i].verdict # intervals[j].verdict
    <3>1. i + 1 <= Len(intervals) /\ intervals[i].end = intervals[i + 1].start =>
            intervals[i].verdict # intervals[i + 1].verdict
      BY <2>1 DEF DayIsListed, Listed
    <3> QED
      BY <1>1, <2>1, <3>1
  <2>4. intervals[i].end \in Nat /\ intervals[j].start \in Nat
    BY <1>1, <2>1 DEF Stretches
  <2> QED
    BY <2>2, <2>3, <2>4 DEF i
<1> QED
  BY <1>2, <1>3

(* The hour a point is told is the end of a run of shade, and no longer    *)
(* run begins with the same stretch.                                       *)
LEMMA UntilEndsARun ==
  ASSUME DayIsListed, NEW now \in Nat, ShadedUntil(now) # None
  PROVE  \E first, last \in 1..Len(intervals) :
            /\ first <= last /\ intervals[first].start <= now /\ now < intervals[first].end
            /\ ShadedUntil(now) = intervals[last].end
            /\ \A k \in first..last : IsShade(intervals[k].verdict)
            /\ \A k \in first + 1..last : intervals[k].start = intervals[k - 1].end
            /\ \/ last + 1 > Len(intervals)
               \/ ~IsShade(intervals[last + 1].verdict)
               \/ intervals[last + 1].start # intervals[last].end
<1> DEFINE at == {i \in DOMAIN intervals : intervals[i].start <= now /\ now < intervals[i].end}
           first == CHOOSE i \in at : TRUE
           ends == RunEnds(first)
           n == Len(intervals)
           last == Max(ends)
<1>1. n \in Nat /\ DOMAIN intervals = 1..n
  BY DEF DayIsListed, Listed
<1>2. at # {} /\ ends # {} /\ ShadedUntil(now) = intervals[last].end
  BY DEF ShadedUntil
<1>3. first \in at
  BY <1>2
<1>4. first \in 1..n /\ intervals[first].start <= now /\ now < intervals[first].end
  BY <1>1, <1>3
<1> HIDE DEF first, at
<1>5. /\ ends \subseteq first..n
      /\ \A j \in first..n : j \in ends <=>
            /\ \A k \in first..j : IsShade(intervals[k].verdict)
            /\ \A k \in first + 1..j : intervals[k].start = intervals[k - 1].end
  BY DEF RunEnds
<1> HIDE DEF ends
<1>6. last \in ends /\ \A j \in ends : j <= last
  <2>1. ends \in SUBSET Nat /\ \A j \in ends : j <= n
    BY <1>1, <1>4, <1>5
  <2> QED
    BY <1>1, <1>2, <2>1, Largest
<1> HIDE DEF last, n
<1>7. /\ last \in 1..n /\ first <= last /\ last \in first..n
      /\ \A k \in first..last : IsShade(intervals[k].verdict)
      /\ \A k \in first + 1..last : intervals[k].start = intervals[k - 1].end
  BY <1>1, <1>4, <1>5, <1>6
<1>8. \/ last + 1 > n
      \/ ~IsShade(intervals[last + 1].verdict)
      \/ intervals[last + 1].start # intervals[last].end
  <2> DEFINE next == last + 1
  <2>1. SUFFICES ASSUME next <= n, IsShade(intervals[next].verdict),
                        intervals[next].start = intervals[last].end
                 PROVE  FALSE
    BY <1>1, <1>7
  <2>2. next \in first..n /\ next - 1 = last
    BY <1>1, <1>4, <1>7, <2>1
  <2>3. \A k \in first..next : k = next \/ k \in first..last
    BY <1>1, <1>4, <1>7
  <2>4. \A k \in first + 1..next : k = next \/ k \in first + 1..last
    BY <1>1, <1>4, <1>7
  <2>5. ~(next <= last)
    BY <1>1, <1>7
  <2> HIDE DEF next
  <2>6. next \in ends
    BY <1>5, <1>7, <2>1, <2>2, <2>3, <2>4
  <2> QED
    BY <1>6, <2>5, <2>6
<1> QED
  BY <1>2, <1>4, <1>7, <1>8 DEF n

(* It is the first sample after now that is not of shade.                  *)
LEMMA UntilIsTheReturn ==
  ASSUME DayIsListed, NEW now \in Nat, ShadedUntil(now) # None
  PROVE  \E b \in 1..Len(day) + 1 :
            /\ ShadedUntil(now) = Stamp(b) /\ now < Stamp(b)
            /\ \A i \in 1..Len(day) : now < Stamp(i) /\ Stamp(i) < Stamp(b) =>
                 Seen(i) # Dark /\ IsShade(Seen(i))
            /\ b \in 1..Len(day) => Seen(b) = Dark \/ ~IsShade(Seen(b))
            /\ \A i \in 1..Len(day) : Stamp(i) = now => Seen(i) # Dark
<1> DEFINE n == Len(intervals)
<1>1. PICK first \in 1..n, last \in 1..n :
        /\ first <= last /\ intervals[first].start <= now /\ now < intervals[first].end
        /\ ShadedUntil(now) = intervals[last].end
        /\ \A k \in first..last : IsShade(intervals[k].verdict)
        /\ \A k \in first + 1..last : intervals[k].start = intervals[k - 1].end
        /\ \/ last + 1 > n
           \/ ~IsShade(intervals[last + 1].verdict)
           \/ intervals[last + 1].start # intervals[last].end
  BY UntilEndsARun
<1>2. /\ n \in Nat /\ DOMAIN day = 1..Len(day) /\ Len(day) \in Nat
      /\ \A j, k \in 1..n : j < k => intervals[j].end <= intervals[k].start
      /\ \A j \in 1..n : /\ intervals[j].start \in Nat /\ intervals[j].end \in Nat
                         /\ intervals[j].verdict \in Verdicts
  <2>1. intervals \in Seq(Stretches)
    BY DEF DayIsListed, Listed
  <2>2. \A j \in 1..n : intervals[j] \in Stretches
    BY <2>1
  <2>3. \A j \in 1..n : /\ intervals[j].start \in Nat /\ intervals[j].end \in Nat
                        /\ intervals[j].verdict \in Verdicts
    BY <2>2 DEF Stretches
  <2>4. n \in Nat
    BY <2>1
  <2>5. \A j, k \in 1..n : j < k => intervals[j].end <= intervals[k].start
    BY DEF DayIsListed, Listed
  <2>6. DOMAIN day = 1..Len(day) /\ Len(day) \in Nat
    BY DEF DayIsListed
  <2> QED
    BY <2>3, <2>4, <2>5, <2>6
<1>3. \A j \in 1..n : \E a, b \in 1..Len(day) + 1 :
        a < b /\ intervals[j].start = Stamp(a) /\ intervals[j].end = Stamp(b)
  BY DEF DayIsListed, Listed
<1>4. \A i \in 1..Len(day) :
        /\ \A j \in 1..n : intervals[j].start <= Stamp(i) /\ Stamp(i) < intervals[j].end =>
                           intervals[j].verdict = Seen(i)
        /\ Seen(i) # Dark =>
             \E j \in 1..n : intervals[j].start <= Stamp(i) /\ Stamp(i) < intervals[j].end
  <2> TAKE i \in 1..Len(day)
  <2>1. i \in 1..Len(day) + 1 - 1 /\ Light[i] = Seen(i)
    BY <1>2 DEF DayIsListed
  <2> QED
    BY <2>1 DEF DayIsListed, Tells, Within
<1>5. PICK b \in 1..Len(day) + 1 : intervals[last].end = Stamp(b)
  BY <1>1, <1>3
<1> HIDE DEF n
<1>6. \A j \in 1..n : intervals[j].start < intervals[j].end
  <2> TAKE j \in 1..n
  <2>1. PICK a, c \in 1..Len(day) + 1 :
          a < c /\ intervals[j].start = Stamp(a) /\ intervals[j].end = Stamp(c)
    BY <1>3
  <2> QED
    BY <1>2, <2>1 DEF Stamp
<1>7. now < Stamp(b)
  <2>1. CASE first = last
    BY <1>1, <1>5, <2>1
  <2>2. CASE first < last
    <3>1. intervals[first].end <= intervals[last].start /\ intervals[last].start < intervals[last].end
      BY <1>1, <1>2, <1>6, <2>2
    <3> QED
      BY <1>1, <1>2, <1>5, <3>1
  <2> QED
    BY <1>1, <1>2, <2>1, <2>2
<1>8. ASSUME NEW i \in 1..Len(day), now < Stamp(i), Stamp(i) < Stamp(b)
      PROVE  Seen(i) # Dark /\ IsShade(Seen(i))
  <2> DEFINE before == {k \in first..last : intervals[k].start <= Stamp(i)}
             m == Max(before)
  <2>1. first \in before /\ before \in SUBSET Nat /\ \A k \in before : k <= last
    BY <1>1, <1>2, <1>8 DEF Stamp
  <2>2. m \in before /\ \A k \in before : k <= m
    <3> HIDE DEF before
    <3>1. last \in Nat /\ before # {}
      BY <1>1, <1>2, <2>1
    <3>2. Max(before) \in before /\ \A k \in before : k <= Max(before)
      BY <2>1, <3>1, Largest
    <3> QED
      BY <3>2
  <2>3. m \in first..last /\ m \in 1..n /\ intervals[m].start <= Stamp(i)
    BY <1>1, <1>2, <2>2
  <2> HIDE DEF m
  <2>4. Stamp(i) < intervals[m].end
    <3>1. CASE m = last
      BY <1>5, <1>8, <3>1
    <3>2. CASE m < last
      <4> DEFINE next == m + 1
      <4>1. next \in first + 1..last /\ next \in first..last /\ next \in 1..n /\ next - 1 = m
            /\ ~(next <= m)
        BY <1>1, <1>2, <2>3, <3>2
      <4> HIDE DEF next
      <4>2. intervals[next].start = intervals[m].end
        BY <1>1, <4>1
      <4>3. ~(intervals[next].start <= Stamp(i))
        BY <2>2, <4>1
      <4> QED
        BY <1>2, <2>3, <4>1, <4>2, <4>3 DEF Stamp
    <3> QED
      BY <1>1, <1>2, <2>3, <3>1, <3>2
  <2>5. intervals[m].verdict = Seen(i) /\ IsShade(intervals[m].verdict)
    BY <1>1, <1>4, <2>3, <2>4
  <2> QED
    BY <1>2, <2>3, <2>5, DayAssumption
<1>9. ASSUME b \in 1..Len(day) PROVE Seen(b) = Dark \/ ~IsShade(Seen(b))
  <2> SUFFICES ASSUME Seen(b) # Dark, IsShade(Seen(b)) PROVE FALSE
    OBVIOUS
  <2>1. PICK k \in 1..n : /\ intervals[k].start <= Stamp(b) /\ Stamp(b) < intervals[k].end
                          /\ intervals[k].verdict = Seen(b)
    BY <1>4, <1>9
  <2>2. Stamp(b) \in Nat
    BY <1>2 DEF Stamp
  <2>3. last < k
    <3>1. ~(k < last)
      <4> SUFFICES ASSUME k < last PROVE FALSE
        OBVIOUS
      <4>1. intervals[k].end <= intervals[last].start /\ intervals[last].start < intervals[last].end
        BY <1>2, <1>6
      <4> QED
        BY <1>2, <1>5, <2>1, <2>2, <4>1
    <3>2. k # last
      BY <1>2, <1>5, <2>1, <2>2
    <3> QED
      BY <1>2, <3>1, <3>2
  <2> DEFINE next == last + 1
  <2>4. next \in 1..n /\ last < next /\ ~(next > n) /\ (next < k \/ next = k)
    BY <1>2, <2>3
  <2>5. \/ ~IsShade(intervals[next].verdict) \/ intervals[next].start # intervals[last].end
    BY <1>1, <2>4
  <2> HIDE DEF next
  <2>6. intervals[last].end <= intervals[next].start /\ intervals[next].start < intervals[next].end
    BY <1>2, <1>6, <2>4
  <2>7. ~(next < k)
    <3> SUFFICES ASSUME next < k PROVE FALSE
      OBVIOUS
    <3>1. intervals[next].end <= intervals[k].start
      BY <1>2, <2>4
    <3> QED
      BY <1>2, <1>5, <2>1, <2>2, <2>4, <2>6, <3>1
  <2>8. next = k
    BY <2>4, <2>7
  <2>9. intervals[k].start = intervals[last].end
    BY <1>2, <1>5, <2>1, <2>2, <2>6, <2>8
  <2> QED
    BY <2>1, <2>5, <2>8, <2>9
<1>10. \A i \in 1..Len(day) : Stamp(i) = now => Seen(i) # Dark
  BY <1>1, <1>2, <1>4, DayAssumption
<1> QED
  BY <1>1, <1>5, <1>7, <1>8, <1>9, <1>10

(* Where a zone is shaded alike it is mostly shaded when its corner is.    *)
LEMMA AlikeIsMostly ==
  ASSUME NEW verdicts, \A s, t \in Spots : IsShade(verdicts[s]) = IsShade(verdicts[t])
  PROVE  MostlyShaded(verdicts) <=> IsShade(verdicts[Corner])
<1> DEFINE shaded == {s \in Spots : IsShade(verdicts[s])}
<1>1. IsFiniteSet(Spots) /\ Corner \in Spots
  BY DayAssumption
<1>2. Cardinality(Spots) \in Nat /\ Cardinality(Spots) # 0
  BY <1>1, FS_CardinalityType, FS_EmptySet
<1>3. CASE IsShade(verdicts[Corner])
  <2>1. shaded = Spots
    BY <1>1, <1>3
  <2> HIDE DEF shaded
  <2>2. 2 * Cardinality(shaded) >= Cardinality(Spots)
    BY <1>2, <2>1
  <2> QED
    BY <1>3, <2>2 DEF MostlyShaded, shaded
<1>4. CASE ~IsShade(verdicts[Corner])
  <2>1. shaded = {}
    BY <1>1, <1>4
  <2> HIDE DEF shaded
  <2>2. Cardinality(shaded) = 0
    BY <2>1, FS_EmptySet
  <2>3. ~(2 * Cardinality(shaded) >= Cardinality(Spots))
    BY <1>2, <2>2
  <2> QED
    BY <1>4, <2>3 DEF MostlyShaded, shaded
<1> QED
  BY <1>3, <1>4

(* The list of intervals tells every sample of daylight, in order; the     *)
(* hour a point is told is the one the shade ends at; and a zone shaded    *)
(* alike throughout is told the same: for any day and any zone.            *)
THEOREM DayIsAlwaysTold == DaySpec => []DayIsTold
<1>1. DayInv => DayIsTold
  <2> SUFFICES ASSUME DayInv, Told PROVE DayIsTold
    BY DEF DayIsTold, IntervalsTellTheDay, UntilIsWhenTheSunReturns, ZoneAgreesWithPoint
  <2>1. DayIsListed
    BY ToldIsListed
  <2>2. Len(day) \in Nat /\ DOMAIN day = 1..Len(day) /\ day \in Days
    BY <2>1 DEF DayIsListed
  <2>3. IntervalsTellTheDay
    BY <2>1, ListTellsTheDay DEF IntervalsTellTheDay
  <2>4. UntilIsWhenTheSunReturns
    <3> SUFFICES ASSUME NEW now \in 1..Stamp(Len(day) + 1), ShadedUntil(now) # None
                 PROVE  LET until == ShadedUntil(now)
                        IN  /\ now < until
                            /\ \A i \in DOMAIN day : now < Stamp(i) /\ Stamp(i) < until =>
                                  Seen(i) # Dark /\ IsShade(Seen(i))
                            /\ until \div 2 \in DOMAIN day =>
                                  Seen(until \div 2) = Dark \/ ~IsShade(Seen(until \div 2))
      BY DEF UntilIsWhenTheSunReturns
    <3>1. now \in Nat
      BY <2>2 DEF Stamp
    <3>2. PICK b \in 1..Len(day) + 1 :
            /\ ShadedUntil(now) = Stamp(b) /\ now < Stamp(b)
            /\ \A i \in 1..Len(day) : now < Stamp(i) /\ Stamp(i) < Stamp(b) =>
                 Seen(i) # Dark /\ IsShade(Seen(i))
            /\ b \in 1..Len(day) => Seen(b) = Dark \/ ~IsShade(Seen(b))
      BY <2>1, <3>1, UntilIsTheReturn
    <3>3. ShadedUntil(now) \div 2 = b
      BY <2>2, <3>2 DEF Stamp
    <3> QED
      BY <2>2, <3>2, <3>3
  <2>5. ZoneAgreesWithPoint
    <3> SUFFICES ASSUME day[Len(day)] = Dark, \A i \in DOMAIN day : AllAlike(i),
                        NEW now \in 2..Stamp(Len(day)), ShadedUntil(now) # None
                 PROVE  ShadedUntil(now) = ZoneUntil(now)
      BY DEF ZoneAgreesWithPoint
    <3> DEFINE ends == {i \in DOMAIN day : /\ Stamp(i) > now
                                          /\ IF day[i] = Dark THEN TRUE ELSE ~MostlyShaded(day[i])}
               n == Len(day)
    <3>1. now \in Nat /\ now <= Stamp(n) /\ n \in 1..n /\ n \in Nat
      BY <2>2 DEF Stamp
    <3>2. PICK b \in 1..n + 1 :
            /\ ShadedUntil(now) = Stamp(b) /\ now < Stamp(b)
            /\ \A i \in 1..n : now < Stamp(i) /\ Stamp(i) < Stamp(b) =>
                 Seen(i) # Dark /\ IsShade(Seen(i))
            /\ b \in 1..n => Seen(b) = Dark \/ ~IsShade(Seen(b))
            /\ \A i \in 1..n : Stamp(i) = now => Seen(i) # Dark
      BY <2>1, <3>1, UntilIsTheReturn
    <3>3. \A i \in 1..n : /\ Seen(i) = Dark <=> day[i] = Dark
                          /\ day[i] # Dark => (MostlyShaded(day[i]) <=> IsShade(Seen(i)))
      <4> TAKE i \in 1..n
      <4>1. day[i] \in {Dark} \cup [Spots -> Verdicts]
        BY <2>2, DayAssumption
      <4>2. day[i] # Dark => day[i][Corner] \in Verdicts
        BY <4>1, DayAssumption
      <4>3. day[i] # Dark => \A s, t \in Spots : IsShade(day[i][s]) = IsShade(day[i][t])
        BY <2>2 DEF AllAlike
      <4> QED
        BY <4>2, <4>3, AlikeIsMostly, DayAssumption DEF Seen
    <3>4. Seen(n) = Dark /\ now < Stamp(n) /\ b <= n
      BY <3>1, <3>2, <3>3 DEF Stamp
    <3>5. b \in 1..n /\ b \in ends
      BY <2>2, <3>1, <3>2, <3>3, <3>4 DEF Stamp
    <3>6. \A i \in ends : b <= i
      <4> SUFFICES ASSUME NEW i \in ends, i < b PROVE FALSE
        BY <2>2, <3>1, <3>5
      <4>1. i \in 1..n /\ now < Stamp(i) /\ Stamp(i) < Stamp(b)
        BY <2>2, <3>1, <3>5 DEF Stamp
      <4>2. Seen(i) # Dark /\ IsShade(Seen(i))
        BY <3>2, <4>1
      <4>3. day[i] = Dark \/ ~MostlyShaded(day[i])
        OBVIOUS
      <4> QED
        BY <3>3, <4>1, <4>2, <4>3
    <3>7. ends # {} /\ ends \in SUBSET Nat
      BY <2>2, <3>1, <3>5
    <3>8. ZoneUntil(now) = IF ends = {} THEN None ELSE Stamp(Min(ends))
      BY DEF ZoneUntil
    <3> HIDE DEF ends, n
    <3>9. Min(ends) = b
      <4> DEFINE least == Min(ends)
      <4>1. least \in ends /\ \A i \in ends : least <= i
        BY <3>7, Smallest
      <4> HIDE DEF least
      <4>2. least \in Nat /\ b \in Nat /\ least <= b /\ b <= least
        BY <3>1, <3>5, <3>6, <3>7, <4>1
      <4>3. least = b
        BY <4>2
      <4> QED
        BY <4>3 DEF least
    <3> QED
      BY <3>2, <3>7, <3>8, <3>9
  <2> QED
    BY <2>3, <2>4, <2>5 DEF DayIsTold
<1> QED
  BY <1>1, DayBegins, DayGoesOn, PTL DEF DaySpec

-----------------------------------------------------------------------------
(* Of the rungs, one is the nearest to a day, and of those as near the     *)
(* first.                                                                  *)
Nearest(date, i) ==
    /\ i \in DOMAIN Rungs
    /\ \A j \in DOMAIN Rungs :
         LET off(k) == Apart(curve[date], curve[Rungs[k].day])
         IN  off(i) < off(j) \/ (off(i) = off(j) /\ i <= j)

(* How far two numbers are apart.                                          *)
LEMMA ApartIs ==
  ASSUME NEW a \in Int, NEW b \in Int
  PROVE  Apart(a, b) \in Nat /\ Apart(a, b) = Apart(b, a)
  BY DEF Apart

(* Every day has one.                                                      *)
LEMMA OneIsNearest ==
  ASSUME curve \in Curves, NEW date \in Year
  PROVE  Assigned(date) \in DOMAIN Rungs /\ Nearest(date, Assigned(date))
<1> DEFINE off(k) == Apart(curve[date], curve[Rungs[k].day])
           offs == {off(k) : k \in DOMAIN Rungs}
           near == {k \in DOMAIN Rungs : off(k) = Min(offs)}
           least == Min(near)
<1>1. \A k \in DOMAIN Rungs : off(k) \in Nat
  BY ApartIs, LadderAssumption
<1>2. DOMAIN Rungs # {} /\ DOMAIN Rungs \subseteq Nat
  BY LadderAssumption
<1>3. Min(offs) \in offs /\ \A x \in offs : Min(offs) <= x
  <2>1. offs \in SUBSET Nat /\ offs # {}
    BY <1>1, <1>2
  <2> QED
    BY <2>1, Smallest
<1>4. near # {} /\ near \in SUBSET Nat
  BY <1>2, <1>3
<1>5. least \in near /\ \A k \in near : least <= k
  BY <1>4, Smallest
<1>6. \A j \in DOMAIN Rungs : off(least) < off(j) \/ (off(least) = off(j) /\ least <= j)
  <2> TAKE j \in DOMAIN Rungs
  <2>1. off(least) = Min(offs) /\ off(least) <= off(j) /\ off(least) \in Nat /\ off(j) \in Nat
    BY <1>1, <1>3, <1>5
  <2>2. off(j) = off(least) => j \in near
    BY <2>1
  <2> HIDE DEF off, near, least
  <2> QED
    BY <1>5, <2>1, <2>2
<1>7. \E i \in DOMAIN Rungs : \A j \in DOMAIN Rungs : off(i) < off(j) \/ (off(i) = off(j) /\ i <= j)
  BY <1>5, <1>6
<1>8. Assigned(date) = CHOOSE i \in DOMAIN Rungs : \A j \in DOMAIN Rungs :
                         off(i) < off(j) \/ (off(i) = off(j) /\ i <= j)
  BY DEF Assigned
<1> HIDE DEF off
<1>9. /\ Assigned(date) \in DOMAIN Rungs
      /\ \A j \in DOMAIN Rungs : \/ off(Assigned(date)) < off(j)
                                 \/ off(Assigned(date)) = off(j) /\ Assigned(date) <= j
  BY <1>7, <1>8
<1> QED
  BY <1>9 DEF Nearest, off

(* A day is in a run of the rung it is assigned to, ...                    *)
LEMMA DayIsInARun ==
  ASSUME NEW date \in Year, NEW i, i = Assigned(date)
  PROVE  \E run \in Covers(i) : run[1] <= date /\ date <= run[2]
<1> DEFINE before == {a \in 1..date : \A d \in a..date : Assigned(d) = i}
           after == {b \in date..YearDays : \A d \in date..b : Assigned(d) = i}
           first == Min(before)  last == Max(after)
<1>1. YearDays \in Nat /\ date \in Nat /\ date >= 1 /\ date <= YearDays
  BY LadderAssumption DEF Year
<1>2. first \in before /\ \A a \in before : first <= a
  <2>1. date \in before
    BY <1>1
  <2>2. before \in SUBSET Nat
    BY <1>1
  <2> QED
    BY <2>1, <2>2, Smallest
<1>3. last \in after /\ \A b \in after : b <= last
  <2>1. date \in after
    BY <1>1
  <2>2. after \in SUBSET Nat /\ \A b \in after : b <= YearDays
    BY <1>1
  <2> QED
    BY <1>1, <2>1, <2>2, Largest
<1> HIDE DEF first, last
<1>4. /\ first \in Nat /\ last \in Nat /\ first >= 1 /\ first <= date /\ date <= last /\ last <= YearDays
      /\ \A d \in first..date : Assigned(d) = i
      /\ \A d \in date..last : Assigned(d) = i
  BY <1>1, <1>2, <1>3
<1>5. \A d \in first..last : Assigned(d) = i
  <2> TAKE d \in first..last
  <2>1. d \in first..date \/ d \in date..last
    BY <1>1, <1>4
  <2> QED
    BY <1>4, <2>1
<1>6. first = 1 \/ Assigned(first - 1) # i
  <2> SUFFICES ASSUME first # 1, Assigned(first - 1) = i PROVE FALSE
    OBVIOUS
  <2>1. first - 1 \in 1..date
    BY <1>1, <1>4
  <2>2. \A d \in first - 1..date : d = first - 1 \/ d \in first..date
    BY <1>1, <1>4
  <2>3. first - 1 \in before
    BY <1>4, <2>1, <2>2
  <2> QED
    BY <1>2, <1>4, <2>3
<1>7. last = YearDays \/ Assigned(last + 1) # i
  <2> SUFFICES ASSUME last # YearDays, Assigned(last + 1) = i PROVE FALSE
    OBVIOUS
  <2>1. last + 1 \in date..YearDays
    BY <1>1, <1>4
  <2>2. \A d \in date..last + 1 : d = last + 1 \/ d \in date..last
    BY <1>1, <1>4
  <2>3. last + 1 \in after
    BY <1>4, <2>1, <2>2
  <2> QED
    BY <1>3, <1>4, <2>3
<1>8. <<first, last>> \in Year \X Year
  BY <1>1, <1>4 DEF Year
<1>9. PICK run : run = <<first, last>>
  OBVIOUS
<1>10. run \in Year \X Year /\ run[1] = first /\ run[2] = last
  BY <1>8, <1>9
<1>11. run \in Covers(i)
  <2>1. first <= last
    BY <1>1, <1>4
  <2> QED
    BY <1>5, <1>6, <1>7, <1>10, <2>1 DEF Covers
<1> QED
  BY <1>4, <1>10, <1>11

(* ... and in no run of another: the rung of a day is the nearest.         *)
LEMMA HoldingIs ==
  ASSUME curve \in Curves, covers = [i \in DOMAIN Rungs |-> Covers(i)], NEW date, Mapped(date) \in Year
  PROVE  Holding(date) = {Assigned(Mapped(date))}
<1> DEFINE d == Mapped(date)
<1>1. Assigned(d) \in DOMAIN Rungs
  BY OneIsNearest
<1>2. \E run \in covers[Assigned(d)] : run[1] <= d /\ d <= run[2]
  BY <1>1, DayIsInARun
<1>3. ASSUME NEW i \in DOMAIN Rungs, NEW run \in covers[i], run[1] <= d, d <= run[2]
      PROVE  Assigned(d) = i
  <2>1. run \in Year \X Year /\ \A e \in run[1]..run[2] : Assigned(e) = i
    BY <1>3 DEF Covers
  <2>2. d \in run[1]..run[2]
    <3>1. run[1] \in Int /\ run[2] \in Int /\ d \in Int
      BY <2>1, LadderAssumption DEF Year
    <3> QED
      BY <1>3, <3>1
  <2> QED
    BY <2>1, <2>2
<1> QED
  BY <1>1, <1>2, <1>3 DEF Holding

(* other, both ends included.                                              *)
LEMMA OnTheLine ==
  ASSUME columns \in Fractions, NEW i \in DOMAIN Rungs,
         NEW h \in Rungs[i].first..Rungs[i].last - 1, NEW p \in 0..Ticks
  PROVE  /\ columns[ColumnOf(i, h)] \in Int /\ columns[ColumnOf(i, h + 1)] \in Int
         /\ Interpolated(i, h * Ticks + p) =
              (Ticks - p) * columns[ColumnOf(i, h)] + p * columns[ColumnOf(i, h + 1)]
<1>1. PICK first, last, each : first = Rungs[i].first /\ last = Rungs[i].last /\ each = Ticks
  OBVIOUS
<1>2. /\ first \in Nat /\ last \in Nat /\ each \in Nat \ {0} /\ h \in Nat /\ p \in Nat
      /\ first <= h /\ h + 1 <= last /\ p <= each
      /\ \A g \in first..last : columns[ColumnOf(i, g)] \in Int
  BY <1>1, LadderAssumption
<1>3. PICK at, tick : at = [g \in first..last |-> columns[ColumnOf(i, g)]] /\ tick = h * Ticks + p
  OBVIOUS
<1>4. /\ h \in first..last /\ h + 1 \in first..last /\ first \in first..last /\ last \in first..last
      /\ \A g \in first..last : at[g] = columns[ColumnOf(i, g)] /\ at[g] \in Int
  BY <1>2, <1>3
<1>5. Interpolated(i, tick) =
        IF tick <= first * each THEN each * at[first]
        ELSE IF tick >= last * each THEN each * at[last]
        ELSE (each - (tick % each)) * columns[ColumnOf(i, tick \div each)]
               + (tick % each) * columns[ColumnOf(i, (tick \div each) + 1)]
  BY <1>1, <1>4 DEF Interpolated
<1>6. /\ first * each <= h * each /\ (h + 1) * each <= last * each
      /\ (h + 1) * each = h * each + each
      /\ first # h => first * each + each <= h * each
      /\ h + 1 # last => (h + 1) * each + each <= last * each
      /\ first * each \in Nat /\ last * each \in Nat /\ h * each \in Nat
  <2>1. first * each <= h * each /\ (h + 1) * each <= last * each
    BY <1>2, TimesGrows
  <2>2. (h + 1) * each = h * each + each
    BY <1>2
  <2>3. ASSUME first # h PROVE first * each + each <= h * each
    <3>1. (first + 1) * each <= h * each
      BY <1>2, <2>3, TimesGrows
    <3>2. (first + 1) * each = first * each + each
      BY <1>2
    <3> QED
      BY <3>1, <3>2
  <2>4. ASSUME h + 1 # last PROVE (h + 1) * each + each <= last * each
    <3>1. (h + 2) * each <= last * each
      BY <1>2, <2>4, TimesGrows
    <3>2. (h + 2) * each = (h + 1) * each + each
      BY <1>2
    <3> QED
      BY <3>1, <3>2
  <2>5. first * each \in Nat /\ last * each \in Nat /\ h * each \in Nat
    BY <1>2
  <2> QED
    BY <2>1, <2>2, <2>3, <2>4, <2>5
<1>7. PICK low \in Nat, high \in Nat, base \in Nat :
        low = first * each /\ high = last * each /\ base = h * each
  BY <1>6
<1>8. /\ tick = base + p /\ low <= base /\ base + each <= high
      /\ first # h => low + each <= base
      /\ h + 1 # last => base + each + each <= high
  BY <1>1, <1>3, <1>6, <1>7
<1>9. Interpolated(i, tick) = (each - p) * at[h] + p * at[h + 1]
  <2>1. CASE tick <= low
    <3>1. p = 0 /\ first = h
      BY <1>2, <1>8, <2>1
    <3>2. Interpolated(i, tick) = each * at[h]
      BY <1>5, <1>7, <2>1, <3>1
    <3>3. (each - p) * at[h] + p * at[h + 1] = each * at[h]
      BY <1>2, <1>4, <3>1
    <3> QED
      BY <3>2, <3>3
  <2>2. CASE ~(tick <= low) /\ tick >= high
    <3>1. p = each /\ h + 1 = last
      BY <1>2, <1>8, <2>2
    <3>2. Interpolated(i, tick) = each * at[h + 1]
      BY <1>5, <1>7, <2>2, <3>1
    <3>3. (each - p) * at[h] + p * at[h + 1] = each * at[h + 1]
      BY <1>2, <1>4, <3>1
    <3> QED
      BY <3>2, <3>3
  <2>3. CASE ~(tick <= low) /\ ~(tick >= high) /\ p # each
    <3>1. p \in 0..each - 1
      BY <1>2, <2>3
    <3>2. tick \div each = h /\ tick % each = p
      BY <1>2, <1>7, <1>8, <3>1, Remainders
    <3> QED
      BY <1>4, <1>5, <1>7, <2>3, <3>2
  <2>4. CASE ~(tick <= low) /\ ~(tick >= high) /\ p = each
    <3>1. h + 1 # last
      BY <1>2, <1>8, <2>4, <1>6, <1>7
    <3>2. h + 2 \in first..last /\ h + 1 \in Nat /\ (h + 1) + 1 = h + 2
      BY <1>2, <3>1
    <3>3. tick = (h + 1) * each + 0
      BY <1>2, <1>6, <1>7, <1>8, <2>4
    <3>4. 0 \in 0..each - 1
      BY <1>2
    <3>5. tick \div each = h + 1 /\ tick % each = 0
      BY <1>2, <3>2, <3>3, <3>4, Remainders
    <3>6. Interpolated(i, tick) = (each - 0) * at[h + 1] + 0 * at[h + 2]
      BY <1>4, <1>5, <1>7, <2>4, <3>2, <3>5
    <3>7. (each - 0) * at[h + 1] + 0 * at[h + 2] = (each - p) * at[h] + p * at[h + 1]
      BY <1>2, <1>4, <2>4, <3>2
    <3> QED
      BY <3>6, <3>7
  <2> QED
    BY <2>1, <2>2, <2>3, <2>4
<1> QED
  BY <1>1, <1>3, <1>4, <1>9

(* The most two neighbouring columns of a rung differ by.                  *)
Span(i) ==
    Max({0} \cup {Apart(columns[ColumnOf(i, h)], columns[ColumnOf(i, h + 1)]) :
                     h \in Rungs[i].first..Rungs[i].last - 1})

(* It bounds every one of them.                                            *)
LEMMA SpanIs ==
  ASSUME columns \in Fractions, NEW i \in DOMAIN Rungs
  PROVE  /\ Span(i) \in Nat
         /\ \A h \in Rungs[i].first..Rungs[i].last - 1 :
              Apart(columns[ColumnOf(i, h)], columns[ColumnOf(i, h + 1)]) <= Span(i)
<1> DEFINE first == Rungs[i].first  last == Rungs[i].last
           gap(h) == Apart(columns[ColumnOf(i, h)], columns[ColumnOf(i, h + 1)])
           gaps == {gap(h) : h \in first..last - 1}
           f == [h \in first..last - 1 |-> gap(h)]
<1>1. first \in Nat /\ last \in Nat /\ last - 1 \in Int
  BY LadderAssumption
<1>2. \A h \in first..last - 1 : gap(h) \in Nat
  <2> TAKE h \in first..last - 1
  <2>1. 0 \in 0..Ticks
    BY LadderAssumption
  <2>2. columns[ColumnOf(i, h)] \in Int /\ columns[ColumnOf(i, h + 1)] \in Int
    BY <2>1, OnTheLine
  <2> QED
    BY <2>2, ApartIs
<1> HIDE DEF gap, first, last
<1>3. PICK n \in Nat : \A h \in first..last - 1 : f[h] <= n
  <2>1. f \in [first..last - 1 -> Nat]
    BY <1>2
  <2> QED
    BY <1>1, <2>1, SomeBound
<1>4. /\ {0} \cup gaps \in SUBSET Nat /\ {0} \cup gaps # {}
      /\ \A x \in {0} \cup gaps : x <= n
  BY <1>2, <1>3
<1>5. Max({0} \cup gaps) \in {0} \cup gaps /\ \A x \in {0} \cup gaps : x <= Max({0} \cup gaps)
  BY <1>4, Largest
<1>6. Span(i) = Max({0} \cup gaps)
  BY DEF Span, gap, first, last
<1> QED
  BY <1>4, <1>5, <1>6 DEF gap, first, last

(* Before the first hour and after the last, nothing changes.              *)
LEMMA OffTheLine ==
  ASSUME NEW i \in DOMAIN Rungs, NEW tick \in Nat
  PROVE  /\ tick <= Rungs[i].first * Ticks =>
              Interpolated(i, tick) = Ticks * columns[ColumnOf(i, Rungs[i].first)]
         /\ tick >= Rungs[i].last * Ticks =>
              Interpolated(i, tick) = Ticks * columns[ColumnOf(i, Rungs[i].last)]
<1>1. PICK first, last, each : first = Rungs[i].first /\ last = Rungs[i].last /\ each = Ticks
  OBVIOUS
<1>2. first \in Nat /\ last \in Nat /\ first <= last /\ each \in Nat \ {0}
  BY <1>1, LadderAssumption
<1>3. first * each \in Nat /\ last * each \in Nat /\ first * each <= last * each
  BY <1>2, TimesGrows
<1>4. PICK low \in Nat, high \in Nat : low = first * each /\ high = last * each /\ low <= high
  BY <1>3
<1>5. Interpolated(i, tick) =
        IF tick <= low THEN each * columns[ColumnOf(i, first)]
        ELSE IF tick >= high THEN each * columns[ColumnOf(i, last)]
        ELSE (each - (tick % each)) * columns[ColumnOf(i, tick \div each)]
               + (tick % each) * columns[ColumnOf(i, (tick \div each) + 1)]
  BY <1>1, <1>4 DEF Interpolated
<1>6. first # last => low < high
  <2> SUFFICES ASSUME first # last PROVE low < high
    OBVIOUS
  <2>1. (first + 1) * each <= last * each /\ (first + 1) * each = first * each + each
    BY <1>2, TimesGrows
  <2> QED
    BY <1>2, <1>4, <2>1
<1>7. tick >= high /\ tick <= low => first = last
  BY <1>4, <1>6
<1> QED
  BY <1>1, <1>4, <1>5, <1>7

(* A tick changes a fraction by no more than its neighbours differ.        *)
LEMMA NoJump ==
  ASSUME columns \in Fractions, NEW i \in DOMAIN Rungs, NEW tick \in Nat
  PROVE  Apart(Interpolated(i, tick), Interpolated(i, tick + 1)) <= Span(i)
<1>1. PICK first, last, each : first = Rungs[i].first /\ last = Rungs[i].last /\ each = Ticks
  OBVIOUS
<1>2. /\ first \in Nat /\ last \in Nat /\ first <= last /\ each \in Nat \ {0} /\ Span(i) \in Nat
      /\ columns[ColumnOf(i, first)] \in Int /\ columns[ColumnOf(i, last)] \in Int
  BY <1>1, LadderAssumption, SpanIs
<1>3. PICK low \in Nat, high \in Nat : low = first * each /\ high = last * each
  BY <1>2
<1>4. \A n \in Int : Apart(n, n) = 0
  BY DEF Apart
<1>5. CASE tick + 1 <= low
  <2>1. /\ Interpolated(i, tick) = each * columns[ColumnOf(i, first)]
        /\ Interpolated(i, tick + 1) = each * columns[ColumnOf(i, first)]
    BY <1>1, <1>3, <1>5, OffTheLine
  <2>2. each * columns[ColumnOf(i, first)] \in Int
    BY <1>2
  <2> QED
    BY <1>2, <1>4, <2>1, <2>2
<1>6. CASE tick >= high
  <2>1. /\ Interpolated(i, tick) = each * columns[ColumnOf(i, last)]
        /\ Interpolated(i, tick + 1) = each * columns[ColumnOf(i, last)]
    BY <1>1, <1>3, <1>6, OffTheLine
  <2>2. each * columns[ColumnOf(i, last)] \in Int
    BY <1>2
  <2> QED
    BY <1>2, <1>4, <2>1, <2>2
<1>7. CASE low <= tick /\ tick < high
  <2>1. PICK h, p : h = tick \div each /\ p = tick % each
    OBVIOUS
  <2>2. h \in Nat /\ p \in 0..each - 1 /\ tick = each * h + p
    BY <1>2, <2>1
  <2>3. tick = h * each + p /\ h * each \in Nat
    BY <1>2, <2>2
  <2>4. first <= h
    <3> SUFFICES ASSUME ~(first <= h) PROVE FALSE
      OBVIOUS
    <3>1. (h + 1) * each <= first * each /\ (h + 1) * each = h * each + each
      BY <1>2, <2>2, TimesGrows
    <3> QED
      BY <1>2, <1>3, <1>7, <2>2, <2>3, <3>1
  <2>5. h <= last - 1
    <3> SUFFICES ASSUME ~(h <= last - 1) PROVE FALSE
      OBVIOUS
    <3>1. last * each <= h * each
      BY <1>2, <2>2, TimesGrows
    <3> QED
      BY <1>2, <1>3, <1>7, <2>2, <2>3, <3>1
  <2>6. h \in Rungs[i].first..Rungs[i].last - 1 /\ p \in 0..Ticks /\ p + 1 \in 0..Ticks
    BY <1>1, <1>2, <2>2, <2>4, <2>5
  <2>7. PICK c, d : c = columns[ColumnOf(i, h)] /\ d = columns[ColumnOf(i, h + 1)]
    OBVIOUS
  <2>8. /\ c \in Int /\ d \in Int
        /\ Interpolated(i, h * Ticks + p) = (Ticks - p) * c + p * d
        /\ Interpolated(i, h * Ticks + (p + 1)) = (Ticks - (p + 1)) * c + (p + 1) * d
    BY <2>6, <2>7, OnTheLine
  <2>9. tick + 1 = h * each + (p + 1)
    BY <1>2, <2>2, <2>3
  <2>10. PICK here, next : here = Interpolated(i, tick) /\ next = Interpolated(i, tick + 1)
    OBVIOUS
  <2>11. here = (each - p) * c + p * d /\ next = (each - (p + 1)) * c + (p + 1) * d
    BY <1>1, <2>3, <2>8, <2>9, <2>10
  <2>12. here \in Int /\ next \in Int /\ next - here = d - c
    BY <1>2, <2>2, <2>8, <2>11
  <2>13. Apart(here, next) = Apart(c, d)
    BY <2>8, <2>12 DEF Apart
  <2>14. Apart(c, d) <= Span(i)
    BY <2>6, <2>7, SpanIs
  <2> QED
    BY <2>10, <2>13, <2>14
<1> QED
  <2>1. tick + 1 <= low \/ tick >= high \/ (low <= tick /\ tick < high)
    OBVIOUS
  <2> QED
    BY <2>1, <1>5, <1>6, <1>7

(* On the hour it is the hour's own.                                       *)
LEMMA OnTheHour ==
  ASSUME columns \in Fractions, NEW i \in DOMAIN Rungs, NEW h \in Rungs[i].first..Rungs[i].last
  PROVE  Interpolated(i, h * Ticks) = Ticks * columns[ColumnOf(i, h)]
<1>1. /\ Rungs[i].first \in Nat /\ Rungs[i].last \in Nat /\ Ticks \in Nat \ {0} /\ h \in Nat
      /\ h * Ticks \in Nat
  BY LadderAssumption
<1>2. CASE h = Rungs[i].last
  BY <1>1, <1>2, OffTheLine
<1>3. CASE h # Rungs[i].last
  <2>1. h \in Rungs[i].first..Rungs[i].last - 1 /\ 0 \in 0..Ticks
    BY <1>1, <1>3
  <2>2. PICK c, d : c = columns[ColumnOf(i, h)] /\ d = columns[ColumnOf(i, h + 1)]
    OBVIOUS
  <2>3. c \in Int /\ d \in Int /\ Interpolated(i, h * Ticks + 0) = (Ticks - 0) * c + 0 * d
    BY <2>1, <2>2, OnTheLine
  <2>4. h * Ticks + 0 = h * Ticks /\ (Ticks - 0) * c + 0 * d = Ticks * c
    BY <1>1, <2>3
  <2> QED
    BY <2>2, <2>3, <2>4
<1> QED
  BY <1>2, <1>3

(* What holds of the ladder: one year, its runs of days, a column for      *)
(* every hour of daylight, and a query about a day of some year.           *)
LadderInv ==
    /\ curve \in Curves /\ columns \in Fractions
    /\ covers = [i \in DOMAIN Rungs |-> Covers(i)]
    /\ query # Unasked => query.day \in Year \cup {LeapDay} /\ query.tick \in Nat

(* Every day a query may name is one of the ladder's year.                 *)
LEMMA MappedIsADay ==
  ASSUME NEW date \in Year \cup {LeapDay}
  PROVE  Mapped(date) \in Year
<1>1. BeforeLeap \in Year
  <2>1. \E d \in Year : d <= 2 /\ (YearDays > 1 => d = 2)
    <3>1. CASE YearDays > 1
      <4>1. 2 \in Year /\ 2 <= 2
        BY <3>1, LadderAssumption DEF Year
      <4> QED
        BY <4>1
    <3>2. CASE ~(YearDays > 1)
      <4>1. 1 \in Year /\ 1 <= 2
        BY <3>2, LadderAssumption DEF Year
      <4> QED
        BY <3>2, <4>1
    <3> QED
      BY <3>1, <3>2
  <2> QED
    BY <2>1 DEF BeforeLeap
<1> QED
  BY <1>1 DEF Mapped

(* For any year and any rungs, hours and fractions: a query is answered    *)
(* from one rung and none is nearer, and what it is told changes as        *)
(* smoothly as the columns do.                                             *)
THEOREM FractionsAlwaysFollow == LadderSpec => []FractionsFollow
<1>1. LadderInit => LadderInv
  BY DEF LadderInit, LadderInv
<1>2. LadderInv /\ [AskFractions]_ladderVars => LadderInv'
  <2> SUFFICES ASSUME LadderInv, [AskFractions]_ladderVars PROVE LadderInv'
    OBVIOUS
  <2>1. UNCHANGED <<curve, covers, columns>>
    BY DEF AskFractions, ladderVars
  <2>2. covers' = [i \in DOMAIN Rungs |-> Covers(i)']
    BY <2>1 DEF LadderInv, Covers, Assigned
  <2>3. query' # Unasked => query'.day \in Year \cup {LeapDay} /\ query'.tick \in Nat
    <3>1. CASE AskFractions
      <4>1. PICK date \in Year \cup {LeapDay}, hour \in 0..23, rest \in 0..Ticks - 1 :
              query' = [day |-> date, tick |-> hour * Ticks + rest]
        BY <3>1 DEF AskFractions
      <4>2. hour \in Nat /\ Ticks \in Nat /\ rest \in Nat
        BY LadderAssumption
      <4>3. hour * Ticks \in Nat
        BY <4>2
      <4>4. hour * Ticks + rest \in Nat
        BY <4>2, <4>3
      <4> QED
        BY <4>1, <4>4
    <3>2. CASE UNCHANGED ladderVars
      BY <3>2 DEF LadderInv, ladderVars
    <3> QED
      BY <3>1, <3>2
  <2> QED
    BY <2>1, <2>2, <2>3 DEF LadderInv
<1>3. LadderInv => FractionsFollow
  <2> SUFFICES ASSUME LadderInv, query # Unasked PROVE FractionsFollow
    BY DEF FractionsFollow, EveryDayHasOneRung, FractionsAreContinuous
  <2>1. PICK date, tick, d : date = query.day /\ tick = query.tick /\ d = Mapped(date)
    OBVIOUS
  <2>2. date \in Year \cup {LeapDay} /\ tick \in Nat /\ d \in Year
    BY <2>1, MappedIsADay DEF LadderInv
  <2>3. PICK i : i = Assigned(d)
    OBVIOUS
  <2>4. i \in DOMAIN Rungs /\ Nearest(d, i) /\ Holding(date) = {i}
    BY <2>1, <2>2, <2>3, OneIsNearest, HoldingIs DEF LadderInv
  <2>5. RungFor(date) = i
    <3>1. {i} \in SUBSET Nat /\ {i} # {}
      BY <2>4, LadderAssumption
    <3> QED
      BY <2>4, <3>1, Smallest DEF RungFor
  <2>6. EveryDayHasOneRung
    <3>1. Cardinality({i}) = 1
      BY FS_Singleton
    <3>2. \A j \in DOMAIN Rungs : Apart(curve[d], curve[Rungs[i].day]) <= Apart(curve[d], curve[Rungs[j].day])
      <4> TAKE j \in DOMAIN Rungs
      <4>1. PICK a, b : a = Apart(curve[d], curve[Rungs[i].day]) /\ b = Apart(curve[d], curve[Rungs[j].day])
        OBVIOUS
      <4>2. a \in Nat /\ b \in Nat
        BY <2>2, <2>4, <4>1, ApartIs, LadderAssumption DEF LadderInv
      <4>3. a < b \/ a = b
        BY <2>4, <4>1 DEF Nearest
      <4> QED
        BY <4>1, <4>2, <4>3
    <3> QED
      BY <2>1, <2>4, <2>5, <3>1, <3>2 DEF EveryDayHasOneRung
  <2>7. FractionsAreContinuous
    <3>1. Apart(Interpolated(i, tick), Interpolated(i, tick + 1)) <= Span(i)
      BY <2>2, <2>4, NoJump DEF LadderInv
    <3>2. \A h \in Rungs[i].first..Rungs[i].last :
            tick = h * Ticks => Interpolated(i, tick) = Ticks * columns[ColumnOf(i, h)]
      BY <2>4, OnTheHour DEF LadderInv
    <3> QED
      BY <2>1, <2>5, <3>1, <3>2 DEF FractionsAreContinuous, Span
  <2> QED
    BY <2>6, <2>7 DEF FractionsFollow
<1> QED
  BY <1>1, <1>2, <1>3, PTL DEF LadderSpec

-----------------------------------------------------------------------------
(* A finite set has a list of its members, each of them once.              *)
LEMMA ListOfASet ==
  ASSUME NEW S, IsFiniteSet(S)
  PROVE  /\ Cardinality(S) \in Nat
         /\ SetToSeq(S) \in [1..Cardinality(S) -> S]
         /\ \A i, j \in 1..Cardinality(S) : SetToSeq(S)[i] = SetToSeq(S)[j] => i = j
         /\ \A e \in S : \E i \in 1..Cardinality(S) : SetToSeq(S)[i] = e
<1>1. Cardinality(S) \in Nat /\ ExistsBijection(1..Cardinality(S), S)
  BY FS_CardinalityType
<1>2. PICK N \in Nat : N = Cardinality(S)
  BY <1>1
<1>3. \E f \in [1..N -> S] : IsInjective(f)
  BY <1>1, <1>2 DEF ExistsBijection, Bijection, Injection, IsInjective
<1>4. PICK f : f = SetToSeq(S)
  OBVIOUS
<1>5. f \in [1..N -> S] /\ IsInjective(f)
  BY <1>2, <1>3, <1>4 DEF SetToSeq
<1>6. f \in Injection(1..N, S)
  BY <1>5 DEF Injection
<1>7. IsFiniteSet(1..N) /\ Cardinality(1..N) = N
  BY FS_Interval
<1>8. f \in Surjection(1..N, S)
  BY <1>2, <1>6, <1>7, FS_Injection
<1>9. \A e \in S : \E i \in 1..N : f[i] = e
  BY <1>8 DEF Surjection
<1>10. \A i, j \in 1..N : f[i] = f[j] => i = j
  BY <1>5 DEF IsInjective
<1> QED
  BY <1>1, <1>2, <1>4, <1>5, <1>9, <1>10

(* Numbers counted from below are numbered without a gap, and in their     *)
(* order.                                                                  *)
LEMMA Numbering ==
  ASSUME NEW S \in SUBSET Nat, IsFiniteSet(S),
         NEW f, f = [n \in S |-> Cardinality({m \in S : m < n})]
  PROVE  /\ Cardinality(S) \in Nat
         /\ \A n \in S : f[n] \in 0..Cardinality(S) - 1
         /\ \A a, b \in S : a < b => f[a] < f[b]
         /\ \A k \in 0..Cardinality(S) - 1 : \E n \in S : f[n] = k
<1> DEFINE below(n) == {m \in S : m < n}
<1>1. PICK N \in Nat : N = Cardinality(S)
  BY FS_CardinalityType
<1>2. \A n \in S : IsFiniteSet(below(n)) /\ f[n] \in Nat /\ f[n] = Cardinality(below(n))
  <2> TAKE n \in S
  <2>1. below(n) \in SUBSET S
    OBVIOUS
  <2>2. IsFiniteSet(below(n))
    BY <2>1, FS_Subset
  <2> QED
    BY <2>2, FS_CardinalityType
<1>3. \A n \in S : f[n] \in 0..N - 1
  <2> TAKE n \in S
  <2>1. below(n) \in SUBSET S /\ n \notin below(n)
    OBVIOUS
  <2>2. Cardinality(below(n)) <= N /\ Cardinality(below(n)) # N
    BY <1>1, <2>1, FS_Subset
  <2>3. f[n] \in Nat /\ f[n] <= N /\ f[n] # N
    BY <1>2, <2>2
  <2> QED
    BY <2>3
<1>4. \A a, b \in S : a < b => f[a] < f[b]
  <2> TAKE a, b \in S
  <2> HAVE a < b
  <2>1. below(a) \in SUBSET below(b) /\ a \in below(b) /\ a \notin below(a)
    <3>1. \A m \in S : m < a => m < b
      OBVIOUS
    <3>2. a \in Nat /\ ~(a < a)
      OBVIOUS
    <3> QED
      BY <3>1, <3>2
  <2>2. Cardinality(below(a)) <= Cardinality(below(b)) /\ Cardinality(below(a)) # Cardinality(below(b))
    BY <1>2, <2>1, FS_Subset
  <2>3. f[a] \in Nat /\ f[b] \in Nat /\ f[a] <= f[b] /\ f[a] # f[b]
    BY <1>2, <2>2
  <2> QED
    BY <2>3
<1>5. f \in Injection(S, 0..N - 1)
  <2>1. f \in [S -> 0..N - 1]
    BY <1>3
  <2>2. \A a, b \in S : f[a] = f[b] => a = b
    <3> TAKE a, b \in S
    <3> HAVE f[a] = f[b]
    <3>1. a \in Nat /\ b \in Nat /\ f[a] \in Nat /\ f[b] \in Nat
      BY <1>2
    <3>2. a < b \/ b < a \/ a = b
      BY <3>1
    <3> QED
      BY <1>4, <3>1, <3>2
  <2> QED
    BY <2>1, <2>2 DEF Injection, IsInjective
<1>6. IsFiniteSet(0..N - 1) /\ Cardinality(0..N - 1) = N
  <2>1. 0 \in Int /\ N - 1 \in Int
    OBVIOUS
  <2>2. IsFiniteSet(0..N - 1) /\ Cardinality(0..N - 1) = IF 0 > N - 1 THEN 0 ELSE (N - 1) - 0 + 1
    BY <2>1, FS_Interval
  <2> QED
    BY <2>2
<1>7. f \in Surjection(S, 0..N - 1)
  BY <1>1, <1>5, <1>6, FS_Injection
<1>8. \A k \in 0..N - 1 : \E n \in S : f[n] = k
  BY <1>7 DEF Surjection
<1> QED
  BY <1>1, <1>3, <1>4, <1>8

(* The lower and the higher of two numbers.                                *)
LEMMA LowerAndHigher ==
  ASSUME NEW a \in Nat, NEW b \in Nat
  PROVE  /\ Min({a, b}) \in {a, b} /\ Max({a, b}) \in {a, b}
         /\ a # b => Min({a, b}) < Max({a, b})
<1>1. {a, b} \in SUBSET Nat /\ {a, b} # {}
  OBVIOUS
<1>2. Min({a, b}) \in {a, b} /\ \A x \in {a, b} : Min({a, b}) <= x
  BY <1>1, Smallest
<1>3. Max({a, b}) \in {a, b} /\ \A x \in {a, b} : x <= Max({a, b})
  <2>1. \A x \in {a, b} : x <= a + b
    OBVIOUS
  <2>2. a + b \in Nat
    OBVIOUS
  <2> QED
    BY <1>1, <2>1, <2>2, Largest
<1>4. PICK x, y : x = Min({a, b}) /\ y = Max({a, b})
  OBVIOUS
<1>5. /\ x = a \/ x = b
      /\ y = a \/ y = b
      /\ x <= a /\ x <= b /\ a <= y /\ b <= y
  BY <1>2, <1>3, <1>4
<1>6. a # b => x < y
  BY <1>5
<1> QED
  BY <1>2, <1>3, <1>4, <1>6

(* The streets of a network: finitely many, each from a lower node to a    *)
(* higher one.                                                             *)
LEMMA StreetsOf ==
  ASSUME NEW network \in Networks
  PROVE  /\ IsFiniteSet(Extracted(network))
         /\ \A e \in Extracted(network) :
              /\ e[1] \in Nat /\ e[2] \in Nat /\ e[1] < e[2]
              /\ e = <<e[1], e[2], e[3]>>
              /\ IsFiniteSet(Sampled[e[3]])
<1> DEFINE walked == {x \in network : x.u # x.v /\ x.shape \in Walkable}
           street(w) == <<Min({w.u, w.v}), Max({w.u, w.v}), w.shape>>
           f == [w \in walked |-> street(w)]
<1>1. IsFiniteSet(walked)
  <2>1. walked \in SUBSET network /\ IsFiniteSet(network)
    BY WalkAssumption
  <2> QED
    BY <2>1, FS_Subset
<1>2. Extracted(network) = {street(w) : w \in walked}
  BY DEF Extracted
<1>3. IsFiniteSet(Extracted(network))
  <2>1. DOMAIN f = walked /\ f = [w \in walked |-> f[w]] /\ Extracted(network) = {f[w] : w \in walked}
    BY <1>2
  <2> HIDE DEF f, walked
  <2> QED
    BY <1>1, <2>1, ImageIsFinite
<1>4. ASSUME NEW e \in Extracted(network)
      PROVE  /\ e[1] \in Nat /\ e[2] \in Nat /\ e[1] < e[2]
             /\ e = <<e[1], e[2], e[3]>>
             /\ IsFiniteSet(Sampled[e[3]])
  <2>1. PICK w \in network : w.u # w.v /\ e = <<Min({w.u, w.v}), Max({w.u, w.v}), w.shape>>
    BY <1>2
  <2>2. w.u \in Nat /\ w.v \in Nat /\ IsFiniteSet(Sampled[w.shape])
    BY WalkAssumption
  <2>3. PICK x, y : x = Min({w.u, w.v}) /\ y = Max({w.u, w.v}) /\ e = <<x, y, w.shape>>
    BY <2>1
  <2>4. x \in Nat /\ y \in Nat /\ x < y
    BY <2>1, <2>2, <2>3, LowerAndHigher
  <2> QED
    BY <2>2, <2>3, <2>4
<1> QED
  BY <1>3, <1>4


(* A graph with nodes that can be walked.                                  *)
CanBeWalked(g) ==
    /\ Len(g.edges) \in Nat /\ Len(g.edges) > 0
    /\ DOMAIN g.edges = 1..Len(g.edges)
    /\ UNION {{g.edges[i].u, g.edges[i].v} : i \in DOMAIN g.edges} = 0..g.nodes - 1
    /\ \A i \in DOMAIN g.edges : g.edges[i].u # g.edges[i].v
    /\ \A i, j \in DOMAIN g.edges : i # j =>
         \/ g.edges[i].shape # g.edges[j].shape
         \/ {g.edges[i].u, g.edges[i].v} # {g.edges[j].u, g.edges[j].v}

(* However the streets kept are numbered, nodes and edges, the graph can   *)
(* be walked, and its edges are those streets.                             *)
LEMMA RenumberedIsWalked ==
  ASSUME NEW ways, IsFiniteSet(ways),
         \A e \in ways : /\ e[1] \in Nat /\ e[2] \in Nat /\ e[1] < e[2]
                         /\ e = <<e[1], e[2], e[3]>>,
         Renumbered(ways).nodes > 0
  PROVE  /\ CanBeWalked(Renumbered(ways))
         /\ \A i \in DOMAIN Renumbered(ways).edges :
              \E e \in ways : Renumbered(ways).edges[i].shape = e[3]
<1> DEFINE S == NodesOf(ways)
           low == [e \in ways |-> e[1]]
           high == [e \in ways |-> e[2]]
           number(n) == Cardinality({m \in S : m < n})
<1>1. S \in SUBSET Nat /\ IsFiniteSet(S)
  <2>1. IsFiniteSet({e[1] : e \in ways})
    <3>1. PICK f, T : f = low /\ T = {e[1] : e \in ways}
      OBVIOUS
    <3>2. DOMAIN f = ways /\ f = [e \in ways |-> f[e]] /\ T = {f[e] : e \in ways}
      BY <3>1
    <3> HIDE DEF low
    <3>3. IsFiniteSet(T)
      BY <3>2, ImageIsFinite
    <3> QED
      BY <3>1, <3>3
  <2>2. IsFiniteSet({e[2] : e \in ways})
    <3>1. PICK f, T : f = high /\ T = {e[2] : e \in ways}
      OBVIOUS
    <3>2. DOMAIN f = ways /\ f = [e \in ways |-> f[e]] /\ T = {f[e] : e \in ways}
      BY <3>1
    <3> HIDE DEF high
    <3>3. IsFiniteSet(T)
      BY <3>2, ImageIsFinite
    <3> QED
      BY <3>1, <3>3
  <2> QED
    BY <2>1, <2>2, FS_Union DEF NodesOf
<1>2. PICK f : f = [n \in S |-> Cardinality({m \in S : m < n})]
  OBVIOUS
<1>3. PICK N \in Nat : N = Cardinality(S)
  BY <1>1, FS_CardinalityType
<1>4. /\ \A n \in S : f[n] \in 0..N - 1
      /\ \A a, b \in S : a < b => f[a] < f[b]
      /\ \A k \in 0..N - 1 : \E n \in S : f[n] = k
  BY <1>1, <1>2, <1>3, Numbering
<1>5. PICK list : list = SetToSeq(ways)
  OBVIOUS
<1>6. PICK K \in Nat : K = Cardinality(ways)
  BY FS_CardinalityType
<1>7. /\ list \in [1..K -> ways]
      /\ \A i, j \in 1..K : list[i] = list[j] => i = j
      /\ \A e \in ways : \E i \in 1..K : list[i] = e
  BY <1>5, <1>6, ListOfASet
<1>8. PICK g : g = Renumbered(ways)
  OBVIOUS
<1>9. PICK edges : edges = [i \in 1..K |-> [u |-> f[list[i][1]], v |-> f[list[i][2]], shape |-> list[i][3]]]
  OBVIOUS
<1>10. g.nodes = N /\ g.edges = edges
  <2>1. g = [nodes |-> Cardinality(S),
             edges |-> [i \in DOMAIN list |-> [u |-> number(list[i][1]), v |-> number(list[i][2]),
                                               shape |-> list[i][3]]]]
    BY <1>5, <1>8 DEF Renumbered
  <2>2. \A i \in 1..K : list[i][1] \in S /\ list[i][2] \in S
    BY <1>7 DEF NodesOf
  <2>3. \A n \in S : f[n] = number(n)
    BY <1>2
  <2>4. DOMAIN list = 1..K
    BY <1>7
  <2> HIDE DEF number, S
  <2>5. [i \in DOMAIN list |-> [u |-> number(list[i][1]), v |-> number(list[i][2]), shape |-> list[i][3]]]
          = edges
    BY <1>9, <2>2, <2>3, <2>4
  <2> QED
    BY <1>3, <2>1, <2>5
<1>11. DOMAIN edges = 1..K /\ Len(edges) = K
  <2>1. DOMAIN edges = 1..K
    BY <1>9
  <2>2. edges \in Seq({edges[i] : i \in 1..K})
    BY <1>9, <2>1
  <2> QED
    BY <2>1, <2>2, LenProperties
<1>12. \A i \in 1..K : /\ list[i] \in ways
                       /\ edges[i].u = f[list[i][1]] /\ edges[i].v = f[list[i][2]]
                       /\ edges[i].shape = list[i][3]
                       /\ list[i][1] \in S /\ list[i][2] \in S /\ list[i][1] < list[i][2]
  BY <1>7, <1>9 DEF NodesOf
<1>13. \A i \in 1..K : /\ edges[i].u \in Nat /\ edges[i].v \in Nat
                       /\ edges[i].u \in 0..N - 1 /\ edges[i].v \in 0..N - 1
                       /\ edges[i].u < edges[i].v
  BY <1>4, <1>12
<1>14. UNION {{edges[i].u, edges[i].v} : i \in 1..K} = 0..N - 1
  <2>1. \A k \in 0..N - 1 : \E i \in 1..K : k = edges[i].u \/ k = edges[i].v
    <3> TAKE k \in 0..N - 1
    <3>1. PICK n \in S : f[n] = k
      BY <1>4
    <3>2. PICK e \in ways : n = e[1] \/ n = e[2]
      BY DEF NodesOf
    <3>3. PICK i \in 1..K : list[i] = e
      BY <1>7
    <3> QED
      BY <1>12, <3>1, <3>2, <3>3
  <2> QED
    BY <1>13, <2>1
<1>15. K > 0
  <2>1. 0 \in 0..N - 1
    BY <1>8, <1>10
  <2>2. \E i \in 1..K : TRUE
    BY <1>14, <2>1
  <2> QED
    BY <2>2
<1>16. \A n, m \in S : f[n] = f[m] => n = m
  <2> TAKE n, m \in S
  <2> HAVE f[n] = f[m]
  <2>1. n \in Nat /\ m \in Nat /\ f[n] \in Nat /\ f[m] \in Nat
    BY <1>1, <1>4
  <2>2. n < m \/ m < n \/ n = m
    BY <2>1
  <2> QED
    BY <1>4, <2>1, <2>2
<1>17. ASSUME NEW i \in 1..K, NEW j \in 1..K, i # j, edges[i].shape = edges[j].shape,
              {edges[i].u, edges[i].v} = {edges[j].u, edges[j].v}
       PROVE  FALSE
  <2>1. edges[i].u = edges[j].u /\ edges[i].v = edges[j].v
    <3>1. PICK a, b, c, d : a = edges[i].u /\ b = edges[i].v /\ c = edges[j].u /\ d = edges[j].v
      OBVIOUS
    <3>2. a \in Nat /\ b \in Nat /\ c \in Nat /\ d \in Nat /\ a < b /\ c < d
      BY <1>13, <3>1
    <3>3. a = c \/ a = d
      BY <1>17, <3>1
    <3>4. b = c \/ b = d
      BY <1>17, <3>1
    <3>5. c = a \/ c = b
      BY <1>17, <3>1
    <3> QED
      BY <3>1, <3>2, <3>3, <3>4, <3>5
  <2>2. list[i][1] = list[j][1] /\ list[i][2] = list[j][2] /\ list[i][3] = list[j][3]
    BY <1>12, <1>16, <1>17, <2>1
  <2>3. list[i] = list[j]
    BY <1>12, <2>2
  <2> QED
    BY <1>7, <1>17, <2>3
<1>18. CanBeWalked(g)
  <2>1. \A i \in 1..K : edges[i].u # edges[i].v
    BY <1>13
  <2>2. \A i, j \in 1..K : i # j =>
          \/ edges[i].shape # edges[j].shape
          \/ {edges[i].u, edges[i].v} # {edges[j].u, edges[j].v}
    BY <1>17
  <2>3. UNION {{g.edges[i].u, g.edges[i].v} : i \in DOMAIN g.edges} = 0..g.nodes - 1
    BY <1>10, <1>11, <1>14
  <2> QED
    BY <1>10, <1>11, <1>15, <2>1, <2>2, <2>3 DEF CanBeWalked
<1> QED
  BY <1>8, <1>10, <1>11, <1>12, <1>18


(* A build came to this.                                                   *)
IsABuild(b) ==
    \E network \in Networks, coverage \in Coverages, shades \in Shades :
        b = Built(network, coverage, shades) /\ b.graph.nodes > 0

(* Its sun and its trees are samples of the street, and not the same ones. *)
LEMMA SunAndTreesFit ==
  ASSUME NEW shape, IsFiniteSet(Sampled[shape]), NEW shade
  PROVE  Sunny2(shade, shape) + Leafy2(shade, shape) <= Cardinality(Sampled[shape])
<1> DEFINE sun == {c \in Sampled[shape] : shade[c] \in {"sun", "outside"}}
           leaf == {c \in Sampled[shape] : shade[c] \in {"vegetation", "both"}}
<1>1. /\ sun \in SUBSET Sampled[shape] /\ leaf \in SUBSET Sampled[shape]
      /\ sun \cup leaf \in SUBSET Sampled[shape] /\ sun \cap leaf = {}
  OBVIOUS
<1>2. IsFiniteSet(sun) /\ IsFiniteSet(leaf)
  BY <1>1, FS_Subset
<1> HIDE DEF sun, leaf
<1>3. Cardinality(sun \cup leaf) = Cardinality(sun) + Cardinality(leaf) - Cardinality(sun \cap leaf)
  BY <1>2, FS_Union
<1>4. Cardinality(sun \cup leaf) <= Cardinality(Sampled[shape])
  BY <1>1, FS_Subset
<1>5. Cardinality(sun \cap leaf) = 0
  BY <1>1, FS_EmptySet
<1>6. Cardinality(sun) \in Nat /\ Cardinality(leaf) \in Nat
  BY <1>2, FS_CardinalityType
<1>7. Cardinality(sun) + Cardinality(leaf) <= Cardinality(Sampled[shape])
  BY <1>3, <1>4, <1>5, <1>6
<1> QED
  BY <1>7 DEF Sunny2, Leafy2, sun, leaf

(* What a build is about to write can be walked, has a fraction for every  *)
(* edge, and every street was scored on all of it.                         *)
BuildHolds(b) ==
    /\ b.graph.nodes > 0 /\ CanBeWalked(b.graph)
    /\ DOMAIN b.fractions = 1..Len(b.fractions)
    /\ \A i \in DOMAIN b.graph.edges :
         LET cells == Sampled[b.graph.edges[i].shape]
         IN  /\ b.coverage # AllData => cells \subseteq b.coverage
             /\ \A column \in Columns :
                  b.fractions[i][column].sun + b.fractions[i][column].veg <= Cardinality(cells)

LEMMA BuildsHold ==
  ASSUME NEW b, IsABuild(b)
  PROVE  BuildHolds(b)
<1>1. PICK network \in Networks, coverage \in Coverages, shades \in Shades :
        b = Built(network, coverage, shades) /\ b.graph.nodes > 0
  BY DEF IsABuild
<1>2. PICK ways : ways = {e \in Extracted(network) : FullyCovered(e, coverage)}
  OBVIOUS
<1>3. b.graph = Renumbered(ways) /\ b.coverage = coverage /\ b.fractions = Scored(b.graph.edges, shades)
  BY <1>1, <1>2 DEF Built
<1>4. /\ IsFiniteSet(ways)
      /\ \A e \in ways : /\ e[1] \in Nat /\ e[2] \in Nat /\ e[1] < e[2]
                         /\ e = <<e[1], e[2], e[3]>>
                         /\ IsFiniteSet(Sampled[e[3]])
                         /\ coverage = AllData \/ Sampled[e[3]] \subseteq coverage
  <2>1. ways \in SUBSET Extracted(network)
    BY <1>2
  <2>2. IsFiniteSet(ways)
    BY <2>1, StreetsOf, FS_Subset
  <2>3. \A e \in ways : coverage = AllData \/ Sampled[e[3]] \subseteq coverage
    BY <1>2 DEF FullyCovered
  <2> QED
    BY <2>1, <2>2, <2>3, StreetsOf
<1>5. /\ CanBeWalked(b.graph)
      /\ \A i \in DOMAIN b.graph.edges : \E e \in ways : b.graph.edges[i].shape = e[3]
  <2>1. Renumbered(ways).nodes > 0
    BY <1>1, <1>3
  <2> QED
    BY <1>3, <1>4, <2>1, RenumberedIsWalked
<1>6. PICK edges, K : edges = b.graph.edges /\ K = Len(edges)
  OBVIOUS
<1>7. DOMAIN edges = 1..K /\ K \in Nat
  BY <1>5, <1>6 DEF CanBeWalked
<1>8. \A i \in 1..K : /\ IsFiniteSet(Sampled[edges[i].shape])
                      /\ coverage = AllData \/ Sampled[edges[i].shape] \subseteq coverage
  BY <1>4, <1>5, <1>6, <1>7
<1>9. b.fractions = [i \in 1..K |-> [column \in Columns |->
                       [sun |-> Sunny2(shades[column], edges[i].shape),
                        veg |-> Leafy2(shades[column], edges[i].shape)]]]
  BY <1>3, <1>6, <1>7 DEF Scored
<1>10. DOMAIN b.fractions = 1..Len(b.fractions)
  <2>1. PICK f : f = b.fractions
    OBVIOUS
  <2>2. DOMAIN f = 1..K /\ f = [i \in 1..K |-> f[i]]
    BY <1>9, <2>1
  <2>3. f \in Seq({f[i] : i \in 1..K})
    BY <1>7, <2>2
  <2> QED
    BY <2>1, <2>2, <2>3, LenProperties
<1>11. ASSUME NEW i \in 1..K
       PROVE  LET cells == Sampled[edges[i].shape]
              IN  /\ b.coverage # AllData => cells \subseteq b.coverage
                  /\ \A column \in Columns :
                       b.fractions[i][column].sun + b.fractions[i][column].veg <= Cardinality(cells)
  <2>1. b.coverage # AllData => Sampled[edges[i].shape] \subseteq b.coverage
    BY <1>3, <1>8
  <2>2. \A column \in Columns :
          b.fractions[i][column].sun + b.fractions[i][column].veg <= Cardinality(Sampled[edges[i].shape])
    <3> TAKE column \in Columns
    <3>1. PICK shape, shade : shape = edges[i].shape /\ shade = shades[column]
      OBVIOUS
    <3>2. b.fractions[i][column] = [sun |-> Sunny2(shade, shape), veg |-> Leafy2(shade, shape)]
      BY <1>9, <3>1
    <3>3. Sunny2(shade, shape) + Leafy2(shade, shape) <= Cardinality(Sampled[shape])
      BY <1>8, <3>1, SunAndTreesFit
    <3> QED
      BY <3>1, <3>2, <3>3
  <2> QED
    BY <2>1, <2>2
<1> QED
  BY <1>1, <1>5, <1>6, <1>7, <1>10, <1>11 DEF BuildHolds

(* What is there was written by a build, whole, or torn; what is served    *)
(* was read in one go from three such files that agree.                    *)
GraphInv ==
    /\ computed # NoGraph => IsABuild(computed)
    /\ step \in DOMAIN After => IsABuild(computed)
    /\ DOMAIN files = {"graph", "fractions", "meta"}
    /\ files.graph \in {Missing, Torn} \/ (\E b : IsABuild(b) /\ files.graph = b.graph)
    /\ files.fractions \in {Missing, Torn} \/ (\E b : IsABuild(b) /\ files.fractions = b.fractions)
    /\ Serves => /\ \E b : IsABuild(b) /\ loaded.graph = b.graph
                 /\ \E b : IsABuild(b) /\ loaded.fractions = b.fractions
                 /\ Len(loaded.fractions) = Len(loaded.graph.edges)

(* For any networks, coverages, shades and shapes, and wherever the build  *)
(* is killed: a graph that is written is true to the area, and one that is *)
(* served holds together.                                                  *)
THEOREM GraphAlwaysHolds == WalkSpec => []GraphHolds
<1>1. WalkInit => GraphInv
  <2> SUFFICES ASSUME WalkInit PROVE GraphInv
    OBVIOUS
  <2>1. DOMAIN files = {"graph", "fractions", "meta"} /\ files.graph = Missing /\ files.fractions = Missing
    BY DEF WalkInit
  <2>2. step \notin DOMAIN After
    BY DEF WalkInit, After
  <2> QED
    BY <2>1, <2>2 DEF WalkInit, GraphInv, Serves
<1>2. GraphInv /\ [WalkNext]_walkVars => GraphInv'
  <2> SUFFICES ASSUME GraphInv, [WalkNext]_walkVars PROVE GraphInv'
    OBVIOUS
  <2> DEFINE Written == /\ DOMAIN files = {"graph", "fractions", "meta"}
                        /\ files.graph \in {Missing, Torn} \/ (\E b : IsABuild(b) /\ files.graph = b.graph)
                        /\ \/ files.fractions \in {Missing, Torn}
                           \/ \E b : IsABuild(b) /\ files.fractions = b.fractions
             Served == Serves => /\ \E b : IsABuild(b) /\ loaded.graph = b.graph
                                 /\ \E b : IsABuild(b) /\ loaded.fractions = b.fractions
                                 /\ Len(loaded.fractions) = Len(loaded.graph.edges)
             Underway == /\ computed # NoGraph => IsABuild(computed)
                         /\ step \in DOMAIN After => IsABuild(computed)
  <2>w. Written /\ Served /\ Underway
    BY DEF GraphInv
  <2>0. SUFFICES Written' /\ Served' /\ Underway'
    BY DEF GraphInv
  <2>1. CASE BuildGraph
    <3>1. IsABuild(computed')
      BY <2>1 DEF BuildGraph, IsABuild
    <3> QED
      BY <2>1, <2>w, <3>1 DEF BuildGraph, Serves
  <2>2. CASE WriteFile
    <3>1. Served' /\ Underway'
      BY <2>2, <2>w DEF WriteFile, Serves
    <3>2. IsABuild(computed)
      BY <2>2, <2>w DEF WriteFile
    <3>3. PICK k : k = step /\ k \in DOMAIN After /\ files' = [files EXCEPT ![k] = computed[k]]
      BY <2>2 DEF WriteFile
    <3>4. k = "graph" \/ k = "fractions" \/ k = "meta"
      BY <3>3 DEF After
    <3>5. Written'
      BY <2>w, <3>2, <3>3, <3>4
    <3> QED
      BY <3>1, <3>5
  <2>3. CASE KillBuild
    <3>1. Served' /\ Underway'
      <4>1. "idle" \notin DOMAIN After
        BY DEF After
      <4> QED
        BY <2>3, <2>w, <4>1 DEF KillBuild, Serves
    <3>2. files' = files \/ \E k \in DOMAIN After : files' = [files EXCEPT ![k] = Torn]
      BY <2>3 DEF KillBuild
    <3>3. Written'
      <4>1. CASE files' = files
        BY <2>w, <4>1
      <4>2. CASE files' # files
        <5>1. PICK k \in DOMAIN After : files' = [files EXCEPT ![k] = Torn]
          BY <3>2, <4>2
        <5>2. k = "graph" \/ k = "fractions" \/ k = "meta"
          BY <5>1 DEF After
        <5> QED
          BY <2>w, <5>1, <5>2
      <4> QED
        BY <4>1, <4>2
    <3> QED
      BY <3>1, <3>3
  <2>4. CASE ReadBack
    <3>1. "idle" \notin DOMAIN After
      BY DEF After
    <3> QED
      BY <2>4, <2>w, <3>1 DEF ReadBack, Serves
  <2>5. CASE StartServer
    <3>1. Written' /\ Underway'
      BY <2>5, <2>w DEF StartServer
    <3>2. Served'
      <4> SUFFICES ASSUME Serves' PROVE Served'
        OBVIOUS
      <4>1. /\ files.graph \notin {Missing, Torn} /\ files.fractions \notin {Missing, Torn}
            /\ Coherent(files.graph, files.fractions, files.meta) /\ loaded' = files
        BY <2>5 DEF StartServer, Loaded, Serves
      <4>2. Len(files.fractions) = Len(files.graph.edges)
        BY <4>1 DEF Coherent
      <4> QED
        BY <2>w, <4>1, <4>2
    <3> QED
      BY <3>1, <3>2
  <2>6. CASE UNCHANGED walkVars
    BY <2>6, <2>w DEF walkVars, Serves
  <2> QED
    BY <2>1, <2>2, <2>3, <2>4, <2>5, <2>6 DEF WalkNext
<1>3. GraphInv => GraphHolds
  <2> SUFFICES ASSUME GraphInv PROVE GraphHolds
    OBVIOUS
  <2>1. ScoredOnAllOfIt
    <3> SUFFICES ASSUME computed # NoGraph PROVE ScoredOnAllOfIt
      BY DEF ScoredOnAllOfIt
    <3>1. BuildHolds(computed)
      BY BuildsHold DEF GraphInv
    <3> QED
      BY <3>1 DEF BuildHolds, ScoredOnAllOfIt
  <2>2. ServedCanBeWalked
    <3> SUFFICES ASSUME Serves PROVE ServedCanBeWalked
      BY DEF ServedCanBeWalked
    <3>1. PICK a, b : /\ IsABuild(a) /\ loaded.graph = a.graph
                      /\ IsABuild(b) /\ loaded.fractions = b.fractions
                      /\ Len(loaded.fractions) = Len(loaded.graph.edges)
      BY DEF GraphInv
    <3>2. BuildHolds(a) /\ BuildHolds(b)
      BY <3>1, BuildsHold
    <3>3. PICK g, f : g = loaded.graph /\ f = loaded.fractions
      OBVIOUS
    <3>4. g.nodes > 0 /\ CanBeWalked(g) /\ DOMAIN f = 1..Len(f) /\ Len(f) = Len(g.edges)
      BY <3>1, <3>2, <3>3 DEF BuildHolds
    <3>5. DOMAIN f = DOMAIN g.edges
      BY <3>4 DEF CanBeWalked
    <3>6. /\ g.nodes > 0 /\ Len(g.edges) > 0
          /\ UNION {{g.edges[i].u, g.edges[i].v} : i \in DOMAIN g.edges} = 0..g.nodes - 1
          /\ \A i \in DOMAIN g.edges : g.edges[i].u # g.edges[i].v /\ i \in DOMAIN f
      BY <3>4, <3>5 DEF CanBeWalked
    <3>7. \A i, j \in DOMAIN g.edges : i # j =>
            \/ g.edges[i].shape # g.edges[j].shape
            \/ {g.edges[i].u, g.edges[i].v} # {g.edges[j].u, g.edges[j].v}
      BY <3>4 DEF CanBeWalked
    <3> QED
      BY <3>3, <3>6, <3>7 DEF ServedCanBeWalked
  <2> QED
    BY <2>1, <2>2 DEF GraphHolds
<1> QED
  BY <1>1, <1>2, <1>3, PTL DEF WalkSpec
=============================================================================
