----------------------------- MODULE StepLedger -----------------------------
(***************************************************************************)
(* What shade_pipeline.runstate writes down about the steps of one city,   *)
(* and how a reader turns it into a status.  Staleness is derived from the *)
(* record, from the records of the steps it was computed from and from     *)
(* what is true now; it is never stored.                                   *)
(*                                                                         *)
(* Of a StepRecord only the fields a decision reads are kept: parameters,  *)
(* log paths, durations and error texts are not.  Times are readings of    *)
(* one clock that never stands still, 0 meaning "not recorded".            *)
(***************************************************************************)
EXTENDS Naturals, Sequences

CONSTANTS
    Pids,       \* process numbers the kernel hands out, and hands out again
    Digests,    \* fingerprints a city's YAML and area polygon can have
    Engines,    \* values ARTIFACT_ENGINE_VERSION takes over the deployments
    Nobody,     \* StepRecord.pid when it is None
    NoDigest,   \* StepRecord.config_digest when it is None
    NoEngine    \* StepRecord.engine_version when it is None

ASSUME Sentinels ==
    /\ Nobody \notin Pids
    /\ NoDigest \notin Digests
    /\ NoEngine \notin Engines

-----------------------------------------------------------------------------
ChainSteps == {"area", "basemap", "build", "graph", "tiles", "publish"}

Chain == <<"area", "basemap", "build", "graph", "tiles", "publish">>
Unattended == <<"area", "basemap", "build", "graph", "tiles">>

LogSteps == ChainSteps \union {"preview"}

DependsOn(step) ==
    CASE step \in {"graph", "tiles"} -> {"build"}
      [] step = "publish"            -> {"basemap", "build", "tiles"}
      [] OTHER                       -> {}

EngineSteps == {"build"}
Optional    == {"basemap", "graph"}
PurgedSteps == <<"basemap", "build", "graph", "tiles">>

Stored == {"pending", "running", "done", "failed"}

StepRecord ==
    [ status   : Stored,
      finished : Nat,
      digest   : Digests \union {NoDigest},
      pid      : Pids \union {Nobody},
      born     : Nat,
      engine   : Engines \union {NoEngine} ]

Unrun ==
    [ status |-> "pending", finished |-> 0, digest |-> NoDigest,
      pid |-> Nobody, born |-> 0, engine |-> NoEngine ]

(* A CityState: the records, and the fingerprint the reader took itself.   *)
CityState == [ steps : [LogSteps -> StepRecord], digest : Digests \union {NoDigest} ]

-----------------------------------------------------------------------------
(* Faults a change to this file could introduce, each the sibling of the   *)
(* definition that follows it; a run must be able to tell them apart.      *)
IsAliveByPid(entry, born) ==
    entry.status = "running" /\ entry.pid # Nobody /\ born[entry.pid] # 0

IsAliveAsWritten(entry, born) == entry.status = "running" /\ entry.pid # Nobody

(* The claim and the process: born[p] is when the process that has number  *)
(* p now began, 0 when there is none.  It is read from /proc; the bare pid, *)
(* which is what decides where there is no /proc, is left out.             *)
IsAlive(entry, born) ==
    /\ entry.status = "running"
    /\ entry.pid # Nobody
    /\ born[entry.pid] = entry.born

OutdatedByAnyChange(city, step) ==
    { source \in DependsOn(step) :
        /\ city.steps[source].status = "done"
        /\ city.steps[source].finished # city.steps[step].finished }

OutdatedBy(city, step) ==
    { source \in DependsOn(step) :
        /\ city.steps[source].status = "done"
        /\ city.steps[source].finished > city.steps[step].finished }

StaleWhateverEngine(city, step, engine) ==
    \/ /\ city.steps[step].digest # NoDigest
       /\ city.steps[step].digest # city.digest
    \/ city.steps[step].finished # 0 /\ OutdatedBy(city, step) # {}

Stale(city, step, engine) ==
    \/ /\ city.steps[step].digest # NoDigest
       /\ city.steps[step].digest # city.digest
    \/ step \in EngineSteps /\ city.steps[step].engine # engine
    \/ city.steps[step].finished # 0 /\ OutdatedBy(city, step) # {}

Status(city, step, born, engine) ==
    LET entry == city.steps[step]
    IN  CASE entry.status = "running" ->
               IF IsAlive(entry, born) THEN "running" ELSE "failed"
          [] entry.status = "done" /\ Stale(city, step, engine) -> "stale"
          [] OTHER -> entry.status

-----------------------------------------------------------------------------
(* The mutations, each a new CityState; RunState.save is the caller's.     *)
WithRecordCascading(city, step, entry) ==
    [city EXCEPT !.steps = [s \in LogSteps |->
        IF s = step THEN entry
        ELSE IF step \in DependsOn(s) THEN Unrun ELSE city.steps[s]]]

WithRecord(city, step, entry) == [city EXCEPT !.steps[step] = entry]

Begun(city, step, pid, started, engine) ==
    WithRecord(city, step,
        [ status |-> "running", finished |-> 0, digest |-> city.digest,
          pid |-> pid, born |-> started, engine |-> engine ])

(* complete(step, digest=...): every caller of it inside a chain passes    *)
(* the fingerprint of the configuration as it is at that moment.           *)
Completed(city, step, now, digest) ==
    LET current == [city EXCEPT !.digest = digest]
    IN  WithRecord(current, step,
            [ city.steps[step] EXCEPT !.status = "done", !.finished = now,
                                      !.digest = digest, !.pid = Nobody ])

FailedAsError(city, step, now) ==
    WithRecord(city, step,
        [ city.steps[step] EXCEPT !.status = "error", !.finished = now,
                                  !.pid = Nobody ])

Failed(city, step, now) ==
    WithRecord(city, step,
        [ city.steps[step] EXCEPT !.status = "failed", !.finished = now,
                                  !.pid = Nobody ])

Undone(city, step) ==
    WithRecord(city, step,
        [ city.steps[step] EXCEPT !.status = "pending", !.digest = NoDigest,
                                  !.pid = Nobody ])
=============================================================================
