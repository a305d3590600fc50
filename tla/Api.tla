--------------------------------- MODULE Api ---------------------------------
(***************************************************************************)
(* What a client hears: its questions pass the limiter, are answered or    *)
(* refused, and the answers are kept on the way for as long as their       *)
(* headers allow.  What an answer says is named by the instant, the build  *)
(* and the parking layer it was computed from.                             *)
(***************************************************************************)
EXTENDS Integers, Sequences, FiniteSetsExt

CONSTANTS
    Clients,
    Sessions,      \* sets of questions: records of path, served, inside, at
    Current,       \* no instant, no date: the one it is asked at
    Limit, Window, \* of the limiter
    Minute, Hour, Day,
    LastTick,      \* bound: where the clock stops
    AskedMost,     \* bound: the entries of the limiter, in all
    Unheard

VARIABLES
    questions, \* the session's
    clock,
    database,  \* absent (not configured), up, down
    world,     \* the build served and the parking layer: counters
    was,       \* tick -> the worlds there were then: history
    entries,   \* client and path -> when the limiter let one through
    kept,      \* question -> the answer kept and until when, or Unheard
    heard      \* the last answer a client got, and to what question

apiVars == <<questions, clock, database, world, was, entries, kept, heard>>

Paths == {"cities", "city", "shade", "timeline", "parking", "routes"}

ASSUME ApiAssumption ==
    /\ {Limit, Window, Minute, Hour, Day, LastTick} \subseteq Nat \ {0}
    /\ Minute <= Hour /\ Hour <= Day
    /\ \A session \in Sessions : \A q \in session : q.path \in Paths

Counted == Clients \X Paths

Today(t) == t \div Day

-----------------------------------------------------------------------------
(* resolve_at, and the day of a timeline.                                  *)
Resolved(q, t) == IF q.at # Current THEN q.at
                  ELSE IF q.path = "timeline" THEN Today(t) ELSE t

Refusal(status) == [status |-> status]

(* The instant it is about, the clock it carries, and from what.  Only     *)
(* today's timeline carries a clock: the end of the shade there is now.    *)
Says(q, t, w) ==
    [status |-> 200,
     about  |-> IF q.path \in {"cities", "city"} THEN Current ELSE Resolved(q, t),
     clock  |-> IF q.path = "timeline" /\ Resolved(q, t) = Today(t) THEN t ELSE Current,
     build  |-> w.build,
     layer  |-> IF q.path = "parking" THEN w.layer ELSE 0]

(* The parking route resolves its database before its city, and queries it *)
(* after: not configured refuses first, not reachable last.                *)
Handle(q) ==
    IF q.path = "parking" /\ database = "absent" THEN Refusal(503)
    ELSE IF q.path # "cities" /\ ~q.served THEN Refusal(404)
    ELSE IF q.path \notin {"cities", "city"} /\ ~q.inside THEN Refusal(400)
    ELSE IF q.path = "parking" /\ database = "down" THEN Refusal(503)
    ELSE Says(q, clock, world)

(* A day that was named is taken for another than today.                   *)
MaxAgeNamed(q) ==
    CASE q.path \in {"cities", "city"} -> Hour
      [] q.path \in {"shade", "routes"} -> IF q.at # Current THEN Day ELSE 0
      [] q.path = "timeline" -> IF q.at = Current THEN Minute ELSE Day
      [] q.path = "parking"  -> IF q.at # Current THEN Minute ELSE 0

(* The Cache-Control of an answer; 0 is no-store.                          *)
MaxAge(q) ==
    CASE q.path \in {"cities", "city"} -> Hour
      [] q.path \in {"shade", "routes"} -> IF q.at # Current THEN Day ELSE 0
      [] q.path = "timeline" -> IF Resolved(q, clock) = Today(clock) THEN Minute ELSE Day
      [] q.path = "parking"  -> IF q.at # Current THEN Minute ELSE 0

(* A limiter that looks one entry too far back.                            *)
LetThroughOneMore(e) == IF Len(e) <= Limit THEN TRUE ELSE e[Len(e) - Limit] < clock - Window

(* The moving window: let through unless the Limit-th of the last entries  *)
(* is still inside it.                                                     *)
LetThrough(e) == IF Len(e) < Limit THEN TRUE ELSE e[Len(e) - Limit + 1] < clock - Window

-----------------------------------------------------------------------------
ApiInit ==
    /\ questions \in Sessions
    /\ clock = 0 /\ database \in {"absent", "up"}
    /\ world = [build |-> 0, layer |-> 0]
    /\ was = [t \in 0..LastTick |-> IF t = 0 THEN {[build |-> 0, layer |-> 0]} ELSE {}]
    /\ entries = [k \in Counted |-> <<>>]
    /\ kept = [q \in questions |-> Unheard] /\ heard = Unheard

Fresh(q) == IF kept[q] = Unheard THEN FALSE ELSE clock < kept[q].until

(* An answer that was kept reaches no server.                              *)
FromCache(c, q) ==
    /\ Fresh(q)
    /\ heard' = [question |-> q, answer |-> kept[q].answer]
    /\ UNCHANGED <<questions, clock, database, world, was, entries, kept>>

TooMany(c, q) ==
    /\ ~Fresh(q) /\ ~LetThrough(entries[<<c, q.path>>])
    /\ heard' = [question |-> q, answer |-> Refusal(429)]
    /\ UNCHANGED <<questions, clock, database, world, was, entries, kept>>

(* The bound on what is asked in a session.                                *)
InSession == FoldSet(LAMBDA k, n : n + Len(entries[k]), 0, Counted) < AskedMost

(* Errors carry no Cache-Control and are not kept.                         *)
Ask(c, q) ==
    /\ ~Fresh(q) /\ LetThrough(entries[<<c, q.path>>])
    /\ InSession
    /\ entries' = [entries EXCEPT ![<<c, q.path>>] = Append(@, clock)]
    /\ heard' = [question |-> q, answer |-> Handle(q)]
    /\ IF Handle(q).status = 200 /\ MaxAge(q) > 0
       THEN kept' = [kept EXCEPT ![q] = [answer |-> Handle(q), until |-> clock + MaxAge(q)]]
       ELSE UNCHANGED kept
    /\ UNCHANGED <<questions, clock, database, world, was>>

Pass ==
    /\ clock < LastTick
    /\ clock' = clock + 1 /\ was' = [was EXCEPT ![clock + 1] = {world}]
    /\ heard' = Unheard
    /\ UNCHANGED <<questions, database, world, entries, kept>>

(* The database goes and comes back: pool_pre_ping, no connection held.    *)
Database ==
    /\ database # "absent"
    /\ database' = IF database = "up" THEN "down" ELSE "up"
    /\ UNCHANGED <<questions, clock, world, was, entries, kept, heard>>

Becomes(w) == world' = w /\ was' = [was EXCEPT ![clock] = @ \cup {w}]

(* The parking layer is imported again.                                    *)
Import ==
    /\ database = "up" /\ world.layer = 0
    /\ Becomes([world EXCEPT !.layer = 1])
    /\ UNCHANGED <<questions, clock, database, entries, kept, heard>>

(* The server restarts on another build: its limiter starts again.         *)
Redeploy ==
    /\ world.build = 0
    /\ Becomes([world EXCEPT !.build = 1])
    /\ entries' = [k \in Counted |-> <<>>]
    /\ UNCHANGED <<questions, clock, database, kept, heard>>

ApiNext ==
    \/ \E c \in Clients, q \in questions : FromCache(c, q) \/ TooMany(c, q) \/ Ask(c, q)
    \/ Pass \/ Database \/ Import \/ Redeploy

ApiSpec == ApiInit /\ [][ApiNext]_apiVars

-----------------------------------------------------------------------------
(* However old an answer may be when it is heard, the server would have    *)
(* given it within the time its kind allows: at once for a verdict of now  *)
(* or the zones parked in now, a minute for what moves with the clock or   *)
(* with the layer, an hour for the cities, a day for what no clock moves.  *)
HeardInTime ==
    IF heard = Unheard THEN TRUE ELSE heard.answer.status = 200 =>
        LET q   == heard.question
            age == CASE q.path \in {"shade", "routes"} -> IF q.at = Current THEN 0 ELSE Day
                     [] q.path = "parking"  -> IF q.at = Current THEN 0 ELSE Minute
                     [] q.path = "timeline" -> IF q.at = Current THEN Minute ELSE Day
                     [] OTHER               -> Hour
        IN  /\ \E t \in clock - age..clock :
                 t \in DOMAIN was /\ \E w \in was[t] : heard.answer = Says(q, t, w)
            /\ heard.answer.clock # Current => heard.answer.clock >= clock - Minute

(* No client gets more than Limit answers of a path inside any window,     *)
(* wherever the window begins.                                             *)
WindowHolds ==
    \A k \in Counted, t \in 0..clock :
        Quantify(DOMAIN entries[k],
                 LAMBDA i : t <= entries[k][i] /\ entries[k][i] <= t + Window) <= Limit
=============================================================================
