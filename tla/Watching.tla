------------------------------ MODULE Watching ------------------------------
(***************************************************************************)
(* What the console says about work it does not own: the outcomes its list *)
(* of cities announces, the log its pane follows, and the verdict on what  *)
(* the server serves.  The engine, the server and whoever edits a city are *)
(* other processes; the console looks every second or two, or when asked.  *)
(***************************************************************************)
EXTENDS Integers, Sequences, FiniteSets

CONSTANTS
    Jobs,         \* steps of the city
    MaxNews,      \* bound: outcomes
    MaxPieces,    \* bound: what a run writes to its log
    Served,       \* builds there may be here or on the server
    Unsaid,       \* nothing seen, followed, or heard yet
    NoAnswer      \* the server could not be asked

VARIABLES
    stands,       \* per step, its status now
    legible,      \* the city's file can be read
    noticed,      \* per step, the status last seen
    told,         \* per step and outcome, times announced
    happened,     \* per step and outcome, times it came to it
    log,          \* per run, in order: [pieces, exists]
    following,    \* the run whose log is in the pane
    offset,       \* how far it was read
    pane,         \* what the pane shows, piece by piece
    here, there,  \* the build on this machine and the one served
    inquiry,      \* the survey under way: [local]
    verdict,      \* what the list says of the server
    heard         \* what the server answered to it

newsVars == <<stands, legible, noticed, told, happened>>
paneVars == <<log, following, offset, pane>>
serverVars == <<here, there, inquiry, verdict, heard>>

Outcomes == {"done", "failed"}
NoCount == [s \in Jobs |-> [o \in Outcomes |-> 0]]

-----------------------------------------------------------------------------
NewsInit ==
    /\ stands \in [Jobs -> {"pending", "running", "done", "failed"}]
    /\ legible = TRUE
    /\ noticed = [s \in Jobs |-> Unsaid] /\ told = NoCount /\ happened = NoCount

PaneInit == log = <<>> /\ following = 0 /\ offset = 0 /\ pane = <<>>

ServerInit ==
    /\ here \in Served \cup {Unsaid} /\ there \in Served \cup {Unsaid}
    /\ inquiry = Unsaid /\ verdict = Unsaid /\ heard = Unsaid

(* The engine: a step starts, or comes to an outcome; a result is removed  *)
(* or outdated; a city's file is saved by halves.                          *)
StepMoves(s) ==
    /\ \/ stands[s] # "running" /\ stands' = [stands EXCEPT ![s] = "running"] /\ UNCHANGED happened
       \/ /\ stands[s] = "running" /\ happened[s]["done"] + happened[s]["failed"] < MaxNews
          /\ \E o \in Outcomes :
               /\ stands' = [stands EXCEPT ![s] = o]
               /\ happened' = [happened EXCEPT ![s][o] = @ + 1]
       \/ stands[s] \in {"done", "failed"} /\ stands' = [stands EXCEPT ![s] = "pending"]
          /\ UNCHANGED happened
       \/ stands[s] \in {"done", "stale"} /\ UNCHANGED happened
          /\ stands' = [stands EXCEPT ![s] = IF @ = "done" THEN "stale" ELSE "done"]
    /\ UNCHANGED <<legible, noticed, told>>

SaveByHalves ==
    /\ legible' = ~legible
    /\ UNCHANGED <<stands, noticed, told, happened>>

IsNewsAlways(before, now) == before # now /\ (now = "failed" \/ now = "done")

(* announce: the transition, and only into an outcome; nothing on the      *)
(* first pass.                                                             *)
IsNews(before, now) ==
    /\ before # Unsaid /\ before # now
    /\ now = "failed" \/ (now = "done" /\ before = "running")

(* refresh_rows: a city whose file cannot be read is skipped.              *)
RefreshRows ==
    /\ legible
    /\ noticed' = stands
    /\ told' = [s \in Jobs |-> [o \in Outcomes |->
            told[s][o] + IF stands[s] = o /\ IsNews(noticed[s], o) THEN 1 ELSE 0]]
    /\ UNCHANGED <<stands, legible, happened>>

NewsNext == (\E s \in Jobs : StepMoves(s)) \/ SaveByHalves \/ RefreshRows

-----------------------------------------------------------------------------
(* A run is recorded, opens its log, writes to it; an old log is pruned.   *)
RunBegins ==
    /\ Len(log) < 2
    /\ log' = Append(log, [pieces |-> 0, exists |-> FALSE])
    /\ UNCHANGED <<following, offset, pane>>

RunWrites ==
    /\ log # <<>>
    /\ \E r \in DOMAIN log :
         IF log[r].exists
           THEN log[r].pieces < MaxPieces /\ log' = [log EXCEPT ![r].pieces = @ + 1]
           ELSE r = Len(log) /\ log' = [log EXCEPT ![r].exists = TRUE]
    /\ UNCHANGED <<following, offset, pane>>

RunPruned ==
    /\ Len(log) = 2 /\ log[1].exists /\ log[2].exists
    /\ log' = [log EXCEPT ![1].exists = FALSE]
    /\ UNCHANGED <<following, offset, pane>>

Newest == {r \in DOMAIN log : log[r].exists /\ \A q \in DOMAIN log : log[q].exists => q <= r}

FollowOnFromOffset ==
    /\ \E r \in Newest : r # following /\ following' = r /\ pane' = <<>>
    /\ UNCHANGED <<log, offset>>

(* follow_newest_log: of the logs that exist; from its beginning.          *)
FollowNewest ==
    /\ \E r \in Newest : r # following /\ following' = r /\ offset' = 0 /\ pane' = <<>>
    /\ UNCHANGED log

(* tail_log: what was written since the offset.                            *)
TailLog ==
    /\ following # 0 /\ log[following].exists /\ offset < log[following].pieces
    /\ pane' = pane \o [i \in 1..(log[following].pieces - offset) |-> <<following, offset + i>>]
    /\ offset' = log[following].pieces
    /\ UNCHANGED <<log, following>>

PaneNext == RunBegins \/ RunWrites \/ RunPruned \/ FollowNewest \/ TailLog

-----------------------------------------------------------------------------
(* A build here, a publish, an unpublish.                                  *)
BuildHere ==
    /\ \E b \in Served \cup {Unsaid} : here' = b
    /\ UNCHANGED <<there, inquiry, verdict, heard>>
ServeThere ==
    /\ \E b \in Served \cup {Unsaid} : there' = b
    /\ UNCHANGED <<here, inquiry, verdict, heard>>

(* compare, from what each side says of when it was built.                 *)
Compare(local, remote) ==
    IF remote = Unsaid THEN IF local = Unsaid THEN "unbuilt" ELSE "unpublished"
    ELSE IF local = Unsaid THEN "ahead"
    ELSE IF remote = local THEN "live" ELSE IF remote < local THEN "behind" ELSE "ahead"

(* check_server: the local metadata is read, then the server asked.        *)
AskServer ==
    /\ inquiry = Unsaid /\ inquiry' = [local |-> here]
    /\ UNCHANGED <<here, there, verdict, heard>>

NoAnswerIsNo ==
    /\ inquiry # Unsaid /\ inquiry' = Unsaid
    /\ \/ heard' = there /\ verdict' = Compare(inquiry.local, there)
       \/ heard' = NoAnswer /\ verdict' = Compare(inquiry.local, Unsaid)
    /\ UNCHANGED <<here, there>>

(* survey: a 404 is an answer; no answer, or an error, is not a no.        *)
ServerAnswers ==
    /\ inquiry # Unsaid /\ inquiry' = Unsaid
    /\ \/ heard' = there /\ verdict' = Compare(inquiry.local, there)
       \/ heard' = NoAnswer /\ verdict' = "unknown"
    /\ UNCHANGED <<here, there>>

ServerNext == BuildHere \/ ServeThere \/ AskServer \/ ServerAnswers

(* One console looks at all three.                                         *)
watchingVars == <<newsVars, paneVars, serverVars>>
WatchingInit == NewsInit /\ PaneInit /\ ServerInit
WatchingNext ==
    \/ NewsNext /\ UNCHANGED <<paneVars, serverVars>>
    \/ PaneNext /\ UNCHANGED <<newsVars, serverVars>>
    \/ ServerNext /\ UNCHANGED <<newsVars, paneVars>>
WatchingSpec == WatchingInit /\ [][WatchingNext]_watchingVars

-----------------------------------------------------------------------------
(* cities.py: what a step became is said once, and what was already        *)
(* finished before the console opened is not news: nothing is announced    *)
(* more often than it happened since.                                      *)
AnnouncedIsNews == \A s \in Jobs, o \in Outcomes : told[s][o] <= happened[s][o]

(* The pane shows the log it follows from its beginning, every piece once  *)
(* and in order, whichever runs begin, write and are pruned meanwhile.     *)
PaneIsTheLog == pane = [i \in 1..offset |-> <<following, i>>]

(* deployed.py: a server that could not be asked is never `not there`.     *)
SilenceIsNotNo == verdict \in {"unpublished", "unbuilt"} => heard = Unsaid

(* What the console says happened did: an outcome, a log, a silence.       *)
SaysWhatHappened == AnnouncedIsNews /\ PaneIsTheLog /\ SilenceIsNotNo
=============================================================================
