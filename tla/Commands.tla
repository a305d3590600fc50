------------------------------ MODULE Commands ------------------------------
(***************************************************************************)
(* The processes that work on one city, and the state file they meet in.   *)
(*                                                                         *)
(* Each command (shade-engine run, basemap, publish, unpublish, purge,     *)
(* preview, a console's "remember my options", and the standalone build,   *)
(* graph and tiles) is a process.  It reads the state file ONCE, when it   *)
(* opens it, and from then on writes back the whole of what it holds in    *)
(* memory.  Beside them stand the person who edits the city's YAML, the    *)
(* deployment that replaces the engine, and whatever kills a process       *)
(* without unwinding it.                                                   *)
(*                                                                         *)
(* `made' is what no state file knows: what the product of each step was   *)
(* really computed from.  The code's claims are judged against it.         *)
(***************************************************************************)
EXTENDS StepLedger

CONSTANTS
    Requests,       \* what may be asked for: commands, steps, --force
    MayOverlap,     \* commands may run beside one another
    EditsMidRun,    \* the YAML may be edited while a command runs
    PurgeMayDie,    \* a purge may be killed between deleting and recording
    MaxClock,       \* bound: no command starts once the clock reads this
    MaxUpsets       \* bound: edits, deployments, failures and kills together

Cmds == {"run", "basemap", "publish", "unpublish", "purge", "preview",
         "remember", "direct"}

(* The steps a command goes through: a chain's are a slice of Chain.       *)
Allotted(cmd, steps) ==
    CASE cmd = "run"                        -> steps \in Seq(ChainSteps)
      [] cmd = "basemap"                    -> steps = <<"basemap">>
      [] cmd \in {"publish", "unpublish"}   -> steps = <<"publish">>
      [] cmd = "purge"                      -> steps = PurgedSteps
      [] cmd = "preview"                    -> steps = <<"preview">>
      [] cmd = "remember"                   -> steps = <<>>
      [] cmd = "direct"                     ->
           steps \in {<<"build">>, <<"graph">>, <<"tiles">>}

ASSUME RequestsOK ==
    \A r \in Requests :
      /\ r \in [cmd : Cmds, steps : Seq(LogSteps), force : BOOLEAN]
      /\ Allotted(r.cmd, r.steps)

ASSUME SwitchesOK == {MayOverlap, EditsMidRun, PurgeMayDie} \subseteq BOOLEAN

ASSUME BoundsOK == MaxClock \in Nat /\ MaxUpsets \in Nat

VARIABLES
    yaml,       \* the fingerprint of the city's configuration on disk
    engine,     \* the engine version the installed code would write
    file,       \* state.json: a StepRecord for every step
    made,       \* what each step's product is, and what it was made from
    there,      \* steps whose completion marker exists: metadata, manifest...
    clock,      \* the wall clock
    upsets,     \* how many of MaxUpsets have happened
    born,       \* when the process with this pid began, 0: there is none
    pc,         \* where it is
    job,        \* what it was asked, and what it loaded when it started
    todo,       \* the steps it has left, the current one first
    mem,        \* its RunState.state
    input       \* which products the running step read

procVars == <<born, pc, job, todo, mem, input>>
vars == <<yaml, engine, file, made, there, clock, upsets, procVars>>

-----------------------------------------------------------------------------
Products ==
    [ state : {"absent", "torn", "whole"}, gen : Nat, cfg : Digests \union {NoDigest},
      engine : Engines \union {NoEngine}, from : [LogSteps -> Nat] ]

NoInput == [d \in LogSteps |-> 0]
Absent == [ state |-> "absent", gen |-> 0, cfg |-> NoDigest,
            engine |-> NoEngine, from |-> NoInput ]
Torn   == [Absent EXCEPT !.state = "torn"]

Idle == [cmd |-> "none", force |-> FALSE, cfg |-> NoDigest, engine |-> NoEngine]
Closed == [steps |-> [s \in LogSteps |-> Unrun], digest |-> NoDigest]

(* Steps that write over what is there; basemap renames a finished file in.*)
InPlace == {"build", "graph", "tiles", "publish"}

Live(p) == born[p] # 0
Quiet   == \A p \in Pids : ~Live(p)
Current(p) == Head(todo[p])
Upset   == upsets < MaxUpsets /\ upsets' = upsets + 1

(* What a reader opening the state file now would be told.                 *)
View     == [steps |-> file, digest |-> yaml]
Shown(s) == Status(View, s, born, engine)

WorldTypeOK ==
    /\ yaml \in Digests /\ engine \in Engines
    /\ file \in [LogSteps -> StepRecord]
    /\ made \in [LogSteps -> Products]
    /\ there \in SUBSET LogSteps
    /\ clock \in Nat /\ upsets \in Nat

ProcTypeOK ==
    /\ born \in [Pids -> Nat]
    /\ pc \in [Pids -> {"off", "ready", "work", "record", "undo"}]
    /\ job \in [Pids -> [ cmd : Cmds \union {"none"}, force : BOOLEAN,
                          cfg : Digests \union {NoDigest},
                          engine : Engines \union {NoEngine} ]]
    /\ todo \in [Pids -> Seq(LogSteps)]
    /\ mem \in [Pids -> CityState]
    /\ input \in [Pids -> [LogSteps -> Nat]]

(* Every variable holds what the code could hold there, and a process that *)
(* is inside a step has one.                                               *)
TypeOK ==
    /\ WorldTypeOK
    /\ ProcTypeOK
    /\ \A p \in Pids : pc[p] \in {"work", "record"} => todo[p] # <<>>

Init ==
    /\ yaml \in Digests /\ engine \in Engines
    /\ file = [s \in LogSteps |-> Unrun]
    /\ made = [s \in LogSteps |-> Absent]
    /\ there = {}
    /\ clock = 0 /\ upsets = 0
    /\ born = [p \in Pids |-> 0]
    /\ pc = [p \in Pids |-> "off"]
    /\ job = [p \in Pids |-> Idle]
    /\ todo = [p \in Pids |-> <<>>]
    /\ mem = [p \in Pids |-> Closed]
    /\ input = [p \in Pids |-> NoInput]

-----------------------------------------------------------------------------
(* A process begins, loads the YAML and opens the state.                   *)
Start(p, r) ==
    /\ ~Live(p)
    /\ MayOverlap \/ Quiet
    /\ clock < MaxClock
    /\ clock' = clock + 1
    /\ born' = [born EXCEPT ![p] = clock + 1]
    /\ pc' = [pc EXCEPT ![p] = "ready"]
    /\ job' = [job EXCEPT ![p] = [cmd |-> r.cmd, force |-> r.force,
                                  cfg |-> yaml, engine |-> engine]]
    /\ todo' = [todo EXCEPT ![p] = r.steps]
    /\ mem' = [mem EXCEPT ![p] = View]
    /\ UNCHANGED <<yaml, engine, file, made, there, upsets, input>>

(* It is gone, and with it everything it held in memory.                   *)
Leave(p) ==
    /\ born' = [born EXCEPT ![p] = 0]
    /\ pc' = [pc EXCEPT ![p] = "off"]
    /\ job' = [job EXCEPT ![p] = Idle]
    /\ todo' = [todo EXCEPT ![p] = <<>>]
    /\ mem' = [mem EXCEPT ![p] = Closed]
    /\ input' = [input EXCEPT ![p] = NoInput]

Exit(p) == Leave(p) /\ UNCHANGED <<yaml, engine, file, made, there, clock, upsets>>

(* RunState.save: what this process holds becomes the file, all of it.     *)
Save(p, city) ==
    /\ mem' = [mem EXCEPT ![p] = city]
    /\ file' = city.steps

-----------------------------------------------------------------------------
(* The chain: what run_chain does at the head of its loop.                 *)
MemStatus(p) == Status(mem[p], Current(p), born, job[p].engine)

AtStep(p, cmd) == pc[p] = "ready" /\ job[p].cmd = cmd /\ todo[p] # <<>>

AlreadyDone(p) == MemStatus(p) = "done" /\ ~job[p].force

NextStep(p) ==
    /\ pc' = [pc EXCEPT ![p] = "ready"]
    /\ todo' = [todo EXCEPT ![p] = Tail(@)]
    /\ input' = [input EXCEPT ![p] = NoInput]

Skip(p) ==
    /\ AtStep(p, "run")
    /\ AlreadyDone(p)
    /\ NextStep(p)
    /\ UNCHANGED <<yaml, engine, file, made, there, clock, upsets, born, job, mem>>

Refuse(p) ==
    /\ AtStep(p, "run")
    /\ MemStatus(p) = "running"
    /\ Exit(p)

ToRun(p) == AtStep(p, "run") /\ ~AlreadyDone(p) /\ MemStatus(p) # "running"

Gate(p) ==
    /\ ToRun(p)
    /\ Current(p) = "publish"
    /\ Exit(p)

(* _require_artifacts raises before step_scope opens: nothing is recorded, *)
(* and the chain goes on only past an optional step.                       *)
Missing(s) == s \in {"graph", "tiles"} /\ "build" \notin there

Unmet(p) ==
    /\ ToRun(p)
    /\ Missing(Current(p))
    /\ IF Current(p) \in Optional
       THEN NextStep(p) /\ UNCHANGED <<born, job, mem>>
       ELSE Leave(p)
    /\ UNCHANGED <<yaml, engine, file, made, there, clock, upsets>>

(* Neither is anything when preflight finds that no worker would fit.      *)
OverBudget(p) ==
    /\ ToRun(p)
    /\ Current(p) = "area"
    /\ Upset
    /\ Leave(p)
    /\ UNCHANGED <<yaml, engine, file, made, there, clock>>

-----------------------------------------------------------------------------
(* A recorded step: step_scope opens, the work is done, complete closes.   *)
Bracketed == {"run", "basemap", "publish", "unpublish", "preview"}

PortsTaken == \E q \in Pids : job[q].cmd = "preview" /\ pc[q] = "work"

MayBegin(p) ==
    \/ ToRun(p) /\ Current(p) # "publish" /\ ~Missing(Current(p))
    \/ AtStep(p, "basemap")
    \/ AtStep(p, "publish")
    \/ AtStep(p, "unpublish")
    \/ AtStep(p, "preview") /\ ~PortsTaken /\ MemStatus(p) # "running"
    \/ AtStep(p, "direct") /\ ~Missing(Current(p))

Reads(s) == [d \in LogSteps |-> IF d \in DependsOn(s) THEN made[d].gen ELSE 0]

Begin(p) ==
    LET s == Current(p)
    IN  /\ MayBegin(p)
        /\ IF job[p].cmd \in Bracketed
           THEN Save(p, Begun(mem[p], s, p, born[p], job[p].engine))
           ELSE UNCHANGED <<mem, file>>
        /\ pc' = [pc EXCEPT ![p] = "work"]
        /\ input' = [input EXCEPT ![p] = Reads(s)]
        /\ made' = IF s \in InPlace THEN [made EXCEPT ![s] = Torn] ELSE made
        /\ UNCHANGED <<yaml, engine, there, clock, upsets, born, job, todo>>

(* A preview that finds the ports taken or its step running, a standalone  *)
(* command with nothing to read: it says so and ends.                      *)
TurnBack(p) ==
    /\ \/ AtStep(p, "preview") /\ (PortsTaken \/ MemStatus(p) = "running")
       \/ AtStep(p, "direct") /\ Missing(Current(p))
    /\ Exit(p)

(* A finished step is taken to have computed all of its product from the   *)
(* inputs it read; TileRender tells when a resumed render has not.         *)
Product(p) ==
    IF job[p].cmd = "unpublish" THEN Absent
    ELSE [ state |-> "whole", gen |-> clock + 1, cfg |-> job[p].cfg,
           engine |-> job[p].engine, from |-> input[p] ]

(* The body of the step returns; a preview's returns when it is stopped.   *)
Produce(p) ==
    LET s == Current(p)
    IN  /\ pc[p] = "work"
        /\ clock' = clock + 1
        /\ made' = IF s = "preview" THEN made ELSE [made EXCEPT ![s] = Product(p)]
        /\ there' = there \union {s}
        /\ pc' = [pc EXCEPT ![p] = "record"]
        /\ UNCHANGED <<yaml, engine, file, upsets, born, job, todo, mem, input>>

(* complete, or undo after an unpublish.  Only the chain and the basemap   *)
(* command hand over the configuration's fingerprint as it is by now.      *)
Outcome(p) ==
    LET s == Current(p)
    IN  CASE job[p].cmd \in {"run", "basemap"} ->
               Completed(mem[p], s, clock + 1, yaml)
          [] job[p].cmd \in {"publish", "preview"} ->
               Completed(mem[p], s, clock + 1, mem[p].digest)
          [] job[p].cmd = "unpublish" -> Undone(mem[p], s)

Record(p) ==
    /\ pc[p] = "record"
    /\ IF job[p].cmd \in Bracketed THEN Save(p, Outcome(p)) ELSE UNCHANGED <<mem, file>>
    /\ clock' = clock + 1
    /\ NextStep(p)
    /\ UNCHANGED <<yaml, engine, made, there, upsets, born, job>>

(* The body raises: the failure is recorded.  An optional step's chain     *)
(* carries on after an Exception, and ends on an interrupt.                *)
Break(p) ==
    LET city == Failed(mem[p], Current(p), clock + 1)
    IN  /\ pc[p] = "work"
        /\ Upset
        /\ clock' = clock + 1
        /\ \/ /\ job[p].cmd = "run" /\ Current(p) \in Optional
              /\ Save(p, city)
              /\ NextStep(p)
              /\ UNCHANGED <<born, job>>
           \/ /\ file' = IF job[p].cmd \in Bracketed THEN city.steps ELSE file
              /\ Leave(p)
        /\ UNCHANGED <<yaml, engine, made, there>>

Finished(p) ==
    /\ pc[p] \in {"ready", "undo"} /\ todo[p] = <<>> /\ job[p].cmd # "remember"
    /\ Exit(p)

-----------------------------------------------------------------------------
(* The console keeps the launch options: a save and nothing else.          *)
Remember(p) ==
    /\ pc[p] = "ready" /\ job[p].cmd = "remember"
    /\ file' = mem[p].steps
    /\ Leave(p)
    /\ UNCHANGED <<yaml, engine, made, there, clock, upsets>>

(* execute_purge: the artifact directory goes first, then each step that   *)
(* is not pending is undone, with a save of its own.                       *)
Purged == {PurgedSteps[i] : i \in 1..Len(PurgedSteps)}

RemoveTree(p) ==
    /\ AtStep(p, "purge")
    /\ IF \A s \in Purged : made[s].state = "absent"
       THEN Exit(p)
       ELSE /\ made' = [s \in LogSteps |-> IF s \in Purged THEN Absent ELSE made[s]]
            /\ there' = there \ Purged
            /\ pc' = [pc EXCEPT ![p] = "undo"]
            /\ UNCHANGED <<yaml, engine, file, clock, upsets, born, job, todo, mem, input>>

UndoNext(p) ==
    LET s == Current(p)
    IN  /\ pc[p] = "undo" /\ todo[p] # <<>>
        /\ IF mem[p].steps[s].status # "pending"
           THEN Save(p, Undone(mem[p], s))
           ELSE UNCHANGED <<mem, file>>
        /\ todo' = [todo EXCEPT ![p] = Tail(@)]
        /\ UNCHANGED <<yaml, engine, made, there, clock, upsets, born, pc, job, input>>

-----------------------------------------------------------------------------
(* Killed, or out of memory, or the machine went down: nothing unwinds.    *)
Die(p) ==
    /\ Live(p)
    /\ PurgeMayDie \/ pc[p] # "undo"
    /\ Upset
    /\ Leave(p)
    /\ UNCHANGED <<yaml, engine, file, made, there, clock>>

(* Somebody edits the YAML or the polygon, in the console or by hand.      *)
Edit ==
    /\ EditsMidRun \/ Quiet
    /\ Upset
    /\ yaml' \in Digests \ {yaml}
    /\ UNCHANGED <<engine, file, made, there, clock, procVars>>

(* A new version of the engine is installed; running processes keep theirs.*)
Upgrade ==
    /\ Upset
    /\ engine' \in Engines \ {engine}
    /\ UNCHANGED <<yaml, file, made, there, clock, procVars>>

(* check_ready and preview look at the artifacts before they open the      *)
(* state; render.json naming another build than metadata.json is a refusal.*)
Mismatched ==
    /\ made["tiles"].state = "whole" /\ made["build"].state = "whole"
    /\ made["tiles"].from["build"] # made["build"].gen

Allowed(r) ==
    /\ r.cmd = "publish" => {"build", "tiles", "basemap"} \subseteq there /\ ~Mismatched
    /\ r.cmd = "preview" => "build" \in there

Launch(p) == \E r \in Requests : Allowed(r) /\ Start(p, r)

(* What a process does by itself, short of failing or being killed.        *)
Advance(p) ==
    \/ Skip(p) \/ Refuse(p) \/ Gate(p) \/ Unmet(p) \/ Begin(p) \/ TurnBack(p)
    \/ Produce(p) \/ Record(p) \/ Finished(p) \/ Remember(p)
    \/ RemoveTree(p) \/ UndoNext(p)

Mishap(p) == OverBudget(p) \/ Break(p) \/ Die(p)

Next == Edit \/ Upgrade \/ \E p \in Pids : Launch(p) \/ Advance(p) \/ Mishap(p)

Spec == Init /\ [][Next]_vars

(* A command that has been started goes on until it ends: it is a process  *)
(* the machine schedules.  Nothing is assumed of users, editors or faults. *)
FairSpec == Spec /\ \A p \in Pids : WF_vars(Advance(p))

-----------------------------------------------------------------------------
Purging == \E p \in Pids : pc[p] = "undo"

UpToDate(s) ==
    /\ made[s].state = "whole"
    /\ made[s].cfg = yaml
    /\ s \in EngineSteps => made[s].engine = engine
    /\ \A d \in DependsOn(s) : made[s].from[d] = made[d].gen

(* Staleness never reassures wrongly: when the state file shows a step     *)
(* done, and the steps it depends on done, then its product is whole, was  *)
(* computed from the configuration and the engine there are now, and from  *)
(* the very products its dependencies have now (CityState.status).         *)
DoneIsTrue ==
    ~Purging =>
      \A s \in ChainSteps :
        (Shown(s) = "done" /\ \A d \in DependsOn(s) : Shown(d) = "done") => UpToDate(s)

(* A step shown running is being worked on, now, by the process its record *)
(* names: not by a dead one, nor by another that was given its pid         *)
(* (StepRecord.is_alive).                                                  *)
RunningIsOwned ==
    \A s \in LogSteps : Shown(s) = "running" =>
      LET p == file[s].pid IN pc[p] \in {"work", "record"} /\ Current(p) = s

(* A preview that is serving can be found in the state file, which is      *)
(* where the console looks for the pid to stop (preview_command).          *)
ServingIsFound ==
    \A p \in Pids : (job[p].cmd = "preview" /\ pc[p] = "work") =>
      Shown("preview") = "running" /\ file["preview"].pid = p

(* When commands run one at a time, a chain is never turned away: what a   *)
(* dead run left behind does not stop the next (run_chain).                *)
NeverRefused == [][\A p \in Pids : ~Refuse(p)]_vars

(* Whatever interleaves and whatever dies, no step of the chain is shown   *)
(* running for ever (StepRecord.is_alive).                                 *)
NeverStuckRunning == \A s \in ChainSteps : []<>(Shown(s) # "running")

(* The state file keeps the ledger's promise, step by step (RunState).     *)
At(p) == IF pc[p] \in {"work", "record"} /\ job[p].cmd \in Bracketed
         THEN Current(p) ELSE "nowhere"

Promise == INSTANCE Ledger WITH
    Steps   <- LogSteps,
    Owners  <- Pids,
    Nowhere <- "nowhere",
    entry   <- [s \in LogSteps |-> [status |-> file[s].status, owner |-> file[s].pid]],
    at      <- [p \in Pids |-> At(p)]

KeepsLedger == Promise!Spec
=============================================================================
