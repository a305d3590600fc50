------------------------------ MODULE Preview ------------------------------
(***************************************************************************)
(* A city looked at before it goes anywhere: a supervisor that finds two   *)
(* ports free, records itself, starts the API and the viewer one after     *)
(* the other, each in a process group of its own, waits for each to        *)
(* answer, and serves until somebody stops it.  The console starts it and  *)
(* stops it with one key; a terminal does as well.                         *)
(*                                                                         *)
(* A port is taken by whoever binds it first, and a health check hears     *)
(* whoever is there.                                                       *)
(***************************************************************************)
EXTENDS Integers, Sequences, FiniteSets, SequencesExt

CONSTANTS
    MaxPreviews,  \* bound: supervisors started
    MaxMishaps,   \* bound: kinds of mishap in a behaviour
    NoPreview

ASSUME PreviewAssumption ==
    MaxPreviews \in Nat \ {0} /\ MaxMishaps \in Nat /\ NoPreview \notin 1..MaxPreviews

Supervisors == 1..MaxPreviews
Halves == {"api", "viewer"}

VARIABLES
    viewer,      \* the viewer's repository is there
    at,          \* per supervisor, where it is
    mem,         \* the record it read when it opened the state
    handler,     \* what it does at SIGTERM: default, stop or ignore
    processes,   \* the servers it has noted
    left,        \* those it has still to tell to stop
    why,         \* what ends it: stop, interrupt, error or unforeseen
    child,       \* per supervisor and kind, the server it started
    record,      \* of the step in state.json: [status, by]
    stopping,    \* the supervisor the screen has told to stop
    mishaps      \* together, killed, cut, hurried: what the code is not safe from

previewVars ==
    <<viewer, at, mem, handler, processes, left, why, child, record, stopping, mishaps>>

-----------------------------------------------------------------------------
Alive(p) == at[p] \notin {"none", "ended", "killed"}
IsAlive(r) == r.status = "running" /\ r.by # NoPreview /\ Alive(r.by)

Unrecorded == [status |-> "pending", by |-> NoPreview]

PortTaken(k) == \E p \in Supervisors : child[p][k] \in {"listening", "closing"}
SomebodyAnswers(k) == \E p \in Supervisors : child[p][k] = "listening"
ClaimsPorts == \A k \in Halves : ~PortTaken(k)

Mishap(what) == mishaps' = mishaps \cup what /\ Cardinality(mishaps') <= MaxMishaps

PreviewInit ==
    /\ viewer \in BOOLEAN
    /\ at = [p \in Supervisors |-> "none"]
    /\ record = Unrecorded /\ mem = [p \in Supervisors |-> Unrecorded]
    /\ handler = [p \in Supervisors |-> "default"]
    /\ processes = [p \in Supervisors |-> <<>>] /\ left = processes
    /\ why = [p \in Supervisors |-> "stop"]
    /\ child = [p \in Supervisors |-> [k \in Halves |-> "none"]]
    /\ stopping = NoPreview /\ mishaps = {}

-----------------------------------------------------------------------------
(* preview_command: the state is opened first.  Another supervisor may be  *)
(* on its way that has not recorded itself.                                *)
LaunchPreview(p) ==
    /\ at[p] = "none" /\ \A q \in 1..p - 1 : at[q] # "none"
    /\ at' = [at EXCEPT ![p] = "opened"]
    /\ mem' = [mem EXCEPT ![p] = record]
    /\ Mishap(IF \E q \in Supervisors : at[q] \in {"opened", "free"} THEN {"together"} ELSE {})
    /\ UNCHANGED <<viewer, handler, processes, left, why, child, record, stopping>>

CheckPorts(p) ==
    /\ at[p] = "opened"
    /\ at' = [at EXCEPT ![p] = IF ClaimsPorts THEN "free" ELSE "ended"]
    /\ UNCHANGED <<viewer, mem, handler, processes, left, why, child, record,
                   stopping, mishaps>>

(* The ports, then the record: refused before anything is written.         *)
CheckPreview(p) ==
    /\ at[p] = "opened"
    /\ at' = [at EXCEPT ![p] = IF ClaimsPorts /\ ~IsAlive(mem[p]) THEN "free" ELSE "ended"]
    /\ UNCHANGED <<viewer, mem, handler, processes, left, why, child, record,
                   stopping, mishaps>>

BeginPreview(p) ==
    /\ at[p] = "free"
    /\ at' = [at EXCEPT ![p] = "recorded"]
    /\ record' = [status |-> "running", by |-> p]
    /\ UNCHANGED <<viewer, mem, handler, processes, left, why, child, stopping, mishaps>>

Handle(p) ==
    /\ at[p] = "recorded"
    /\ at' = [at EXCEPT ![p] = "handling"]
    /\ handler' = [handler EXCEPT ![p] = "stop"]
    /\ UNCHANGED <<viewer, mem, processes, left, why, child, record, stopping, mishaps>>

(* claim_ports once more, where the servers are started.                   *)
Claim(p) ==
    /\ at[p] = "handling"
    /\ IF ClaimsPorts
         THEN at' = [at EXCEPT ![p] = "starting"] /\ UNCHANGED why
         ELSE at' = [at EXCEPT ![p] = "finishing"] /\ why' = [why EXCEPT ![p] = "error"]
    /\ UNCHANGED <<viewer, mem, handler, processes, left, child, record,
                   stopping, mishaps>>

(* Popen returns, and what it returned is appended: two steps.             *)
Coming(p) == IF processes[p] = <<>> THEN "api" ELSE "viewer"
Popen(p) ==
    /\ at[p] = "starting"
    /\ at' = [at EXCEPT ![p] = "started"]
    /\ child' = [child EXCEPT ![p][Coming(p)] = "starting"]
    /\ UNCHANGED <<viewer, mem, handler, processes, left, why, record, stopping, mishaps>>

NoteServer(p) ==
    /\ at[p] = "started"
    /\ at' = [at EXCEPT ![p] = "waiting"]
    /\ processes' = [processes EXCEPT ![p] = Append(@, Coming(p))]
    /\ UNCHANGED <<viewer, mem, handler, left, why, child, record, stopping, mishaps>>

(* _wait_for: the child has not exited and somebody answers there.         *)
IsAnswered(p) ==
    /\ at[p] = "waiting"
    /\ LET k == Last(processes[p])
       IN /\ child[p][k] # "gone" /\ SomebodyAnswers(k)
          /\ at' = [at EXCEPT ![p] = IF k = "api" /\ viewer THEN "starting" ELSE "serving"]
    /\ UNCHANGED <<viewer, mem, handler, processes, left, why, child, record,
                   stopping, mishaps>>

(* No uvicorn or no pnpm: an OSError, which nobody catches.                *)
PopenFails(p) ==
    /\ at[p] = "starting"
    /\ at' = [at EXCEPT ![p] = "telling"]
    /\ left' = [left EXCEPT ![p] = processes[p]]
    /\ why' = [why EXCEPT ![p] = "unforeseen"]
    /\ UNCHANGED <<viewer, mem, handler, processes, child, record, stopping, mishaps>>

(* It exited, or its time is over.                                         *)
NeverUp(p) ==
    /\ at[p] = "waiting" /\ child[p][Last(processes[p])] # "listening"
    /\ at' = [at EXCEPT ![p] = "telling"]
    /\ left' = [left EXCEPT ![p] = processes[p]]
    /\ why' = [why EXCEPT ![p] = "error"]
    /\ UNCHANGED <<viewer, mem, handler, processes, child, record, stopping, mishaps>>

-----------------------------------------------------------------------------
(* What a server does told to stop: one that is up takes its time.         *)
Told(s) == CASE s = "listening" -> "closing" [] s = "starting" -> "gone" [] OTHER -> s

TellChild(p) ==
    /\ at[p] = "telling"
    /\ IF left[p] = <<>>
         THEN at' = [at EXCEPT ![p] = "waiting for all"] /\ UNCHANGED <<left, child>>
         ELSE /\ left' = [left EXCEPT ![p] = Front(@)]
              /\ child' = [child EXCEPT ![p][Last(left[p])] =
                    IF Last(left[p]) = "viewer" THEN @ ELSE Told(@)]
              /\ UNCHANGED at
    /\ UNCHANGED <<viewer, mem, handler, processes, why, record, stopping, mishaps>>

(* In reverse order, each with its group.                                  *)
Tell(p) ==
    /\ at[p] = "telling"
    /\ IF left[p] = <<>>
         THEN at' = [at EXCEPT ![p] = "waiting for all"] /\ UNCHANGED <<left, child>>
         ELSE /\ left' = [left EXCEPT ![p] = Front(@)]
              /\ child' = [child EXCEPT ![p][Last(left[p])] = Told(@)]
              /\ UNCHANGED at
    /\ UNCHANGED <<viewer, mem, handler, processes, why, record, stopping, mishaps>>

WaitOut(p) ==
    /\ at[p] = "waiting for all"
    /\ \A k \in ToSet(processes[p]) : k = "api" => child[p][k] = "gone"
    /\ at' = [at EXCEPT ![p] = "finishing"]
    /\ UNCHANGED <<viewer, mem, handler, processes, left, why, child, record,
                   stopping, mishaps>>

(* Each is waited for, and killed if it takes too long.  What is waited    *)
(* for of the viewer is the program that started it, which may go first.   *)
WaitForAll(p) ==
    /\ at[p] = "waiting for all"
    /\ at' = [at EXCEPT ![p] = "finishing"]
    /\ \E late \in SUBSET (ToSet(processes[p]) \cap {"viewer"}) :
         child' = [child EXCEPT ![p] =
            [k \in Halves |-> IF k \in ToSet(processes[p]) \ late THEN "gone" ELSE @[k]]]
    /\ UNCHANGED <<viewer, mem, handler, processes, left, why, record, stopping, mishaps>>

(* What a process knew goes with it.                                       *)
Forgets(p) ==
    /\ mem' = [mem EXCEPT ![p] = Unrecorded]
    /\ processes' = [processes EXCEPT ![p] = <<>>] /\ left' = [left EXCEPT ![p] = <<>>]
    /\ why' = [why EXCEPT ![p] = "stop"]

(* What nobody foresaw leaves the record saying running, by somebody dead. *)
FinishPreview(p) ==
    /\ at[p] = "finishing"
    /\ at' = [at EXCEPT ![p] = "ended"]
    /\ record' = IF why[p] = "unforeseen" THEN record
                 ELSE [status |-> IF why[p] = "error" THEN "failed" ELSE "done", by |-> NoPreview]
    /\ Forgets(p)
    /\ UNCHANGED <<viewer, handler, child, stopping, mishaps>>

-----------------------------------------------------------------------------
(* KeyboardInterrupt, raised where the supervisor is: the rest of a        *)
(* teardown under way is abandoned.                                        *)
Raise(p, how) ==
    /\ why' = [why EXCEPT ![p] = how]
    /\ at' = [at EXCEPT ![p] =
            CASE @ \in {"opened", "free", "recorded"}           -> "ended"
              [] @ \in {"starting", "started", "waiting", "serving"} -> "telling"
              [] @ \in {"handling", "telling", "waiting for all"}    -> "finishing"
              [] OTHER                                            -> "ended"]
    /\ left' = [left EXCEPT ![p] = IF at'[p] = "telling" THEN processes[p] ELSE @]

(* A stop may fall between the start of a server and its note, or, when it *)
(* is not the one that began it, into the teardown.                        *)
Interrupted(p, another) ==
    CASE at[p] = "started" \/ (at[p] = "telling" /\ another) -> {"cut"}
      [] at[p] = "waiting for all" /\ another                 -> {"hurried"}
      [] OTHER                                                -> {}

TermEachTime(p) ==
    IF handler[p] = "default"
      THEN at' = [at EXCEPT ![p] = "ended"] /\ UNCHANGED <<handler, why, left, mishaps>>
      ELSE /\ handler' = [handler EXCEPT ![p] = "ignore"]
           /\ Raise(p, "stop")
           /\ Mishap(Interrupted(p, why[p] # "stop"))

(* SIGTERM.  The handler is one shot: a second one is ignored.             *)
Term(p) ==
    IF handler[p] = "ignore" THEN UNCHANGED <<at, handler, why, left, mishaps>>
    ELSE IF handler[p] = "default"
      THEN at' = [at EXCEPT ![p] = "ended"] /\ UNCHANGED <<handler, why, left, mishaps>>
      ELSE /\ handler' = [handler EXCEPT ![p] = "ignore"]
           /\ Raise(p, "stop")
           /\ Mishap(Interrupted(p, why[p] # "stop"))

(* action_preview: the v key stops the preview the record shows, or starts *)
(* one.  Whoever was told to stop is not told again by the same screen.    *)
StopByKey ==
    /\ IsAlive(record) /\ stopping # record.by
    /\ Term(record.by)
    /\ stopping' = record.by
    /\ UNCHANGED <<viewer, mem, processes, child, record>>

StartByKey == ~IsAlive(record) /\ \E p \in Supervisors : LaunchPreview(p)
StartByHand == \E p \in Supervisors : LaunchPreview(p)

(* The screen is left and opened again.                                    *)
Reopen ==
    /\ stopping # NoPreview /\ stopping' = NoPreview
    /\ UNCHANGED <<viewer, at, mem, handler, processes, left, why, child, record, mishaps>>

(* Ctrl-C in the terminal the preview was started from, once or more.      *)
Interrupt(p) ==
    /\ Alive(p)
    /\ Raise(p, "interrupt")
    /\ Mishap(Interrupted(p, TRUE))
    /\ UNCHANGED <<viewer, mem, handler, processes, child, record, stopping>>

KillPreview(p) ==
    /\ Alive(p)
    /\ at' = [at EXCEPT ![p] = "killed"]
    /\ Mishap({"killed"})
    /\ Forgets(p)
    /\ UNCHANGED <<viewer, handler, child, record, stopping>>

(* A server binds its port, or finds it taken and exits; one told to stop  *)
(* is gone in the end.                                                     *)
Bind(p, k) ==
    /\ child[p][k] = "starting"
    /\ child' = [child EXCEPT ![p][k] = IF PortTaken(k) THEN "gone" ELSE "listening"]
    /\ UNCHANGED <<viewer, at, mem, handler, processes, left, why, record,
                   stopping, mishaps>>

ShutDown(p, k) ==
    /\ child[p][k] = "closing"
    /\ child' = [child EXCEPT ![p][k] = "gone"]
    /\ UNCHANGED <<viewer, at, mem, handler, processes, left, why, record,
                   stopping, mishaps>>

Supervise(p) ==
    \/ CheckPreview(p) \/ BeginPreview(p) \/ Handle(p) \/ Claim(p)
    \/ Popen(p) \/ PopenFails(p) \/ NoteServer(p) \/ IsAnswered(p) \/ NeverUp(p)
    \/ Tell(p) \/ WaitForAll(p) \/ FinishPreview(p)

PreviewNext ==
    \/ StartByKey \/ StopByKey \/ StartByHand \/ Reopen
    \/ \E p \in Supervisors : Supervise(p) \/ Interrupt(p) \/ KillPreview(p)
    \/ \E p \in Supervisors, k \in Halves : Bind(p, k) \/ ShutDown(p, k)

PreviewSpec == PreviewInit /\ [][PreviewNext]_previewVars

(* Supervisors go on, and a viewer told to stop does: an API that does not *)
(* is killed.                                                              *)
PreviewFairness ==
    WF_previewVars(\E p \in Supervisors : Supervise(p) \/ ShutDown(p, "viewer"))

-----------------------------------------------------------------------------
(* preview.py: a server left orphaned and listening is what made every     *)
(* later preview walk to the next port.  A supervisor that ends, however   *)
(* it does, has told every server it started to stop.                      *)
NothingLeftBehind ==
    "cut" \notin mishaps =>
        \A p \in Supervisors, k \in Halves :
            at[p] = "ended" => child[p][k] \notin {"starting", "listening"}

(* cli.py: the console could no longer see it to stop it.  Whoever has     *)
(* servers is who the state file names, whatever else was started, by key  *)
(* or by hand, once the one before had recorded itself.                    *)
NamedCanBeStopped ==
    "together" \notin mishaps =>
        \A p \in Supervisors :
            at[p] \in {"handling", "starting", "started", "waiting", "serving"} =>
                record = [status |-> "running", by |-> p]

(* preview.py: the health check was answered by the previous API.  What is *)
(* announced is what this supervisor started.                              *)
ServesItsOwn ==
    mishaps = {} =>
        \A p \in Supervisors : at[p] = "serving" =>
            /\ child[p]["api"] = "listening"
            /\ viewer => child[p]["viewer"] = "listening"

(* One preview at a time, that can be found, trusted and got rid of.       *)
PreviewIsOwn == NothingLeftBehind /\ NamedCanBeStopped /\ ServesItsOwn

(* A preview told to stop ends, whatever it was doing and however often    *)
(* it is told, and its ports can be had again.                             *)
StopFreesThePorts ==
    \A p \in Supervisors :
        handler[p] = "ignore" ~>
            /\ ~Alive(p)
            /\ mishaps = {} => \A k \in Halves : child[p][k] \in {"none", "gone"}
=============================================================================
