--------------------------- MODULE CommandsProof ----------------------------
(***************************************************************************)
(* What holds of Commands for any pids, digests, engines, requests and     *)
(* bounds, when one command at a time works on a city, its YAML is left    *)
(* alone meanwhile, a purge is not killed half-way, and the standalone     *)
(* commands that record nothing are not used.                              *)
(***************************************************************************)
EXTENDS Commands, TLAPS

Discipline ==
    /\ ~MayOverlap /\ ~EditsMidRun /\ ~PurgeMayDie
    /\ \A r \in Requests : r.cmd # "direct"

-----------------------------------------------------------------------------
InStep(p) == pc[p] \in {"work", "record"}

(* Steps a purge under way has yet to put back to pending.                 *)
Unsettled == { s \in LogSteps : \E p \in Pids :
                 pc[p] = "undo" /\ \E i \in 1..Len(todo[p]) : todo[p][i] = s }

(* There is at most one process, and only a live one is anywhere.          *)
Alone ==
    /\ \A p, q \in Pids : Live(p) /\ Live(q) => p = q
    /\ \A p \in Pids : Live(p) <=> pc[p] # "off"
    /\ \A p \in Pids : born[p] <= clock

(* What it holds in memory is what the file holds, and its configuration   *)
(* is the one on disk.                                                     *)
Synced == \A p \in Pids : Live(p) =>
    /\ mem[p] = View
    /\ job[p].cfg = yaml
    /\ job[p].cmd \in Cmds \ {"direct"}
    /\ InStep(p) => job[p].cmd \in Bracketed
    /\ job[p].cmd = "purge" /\ pc[p] = "ready" => todo[p] = PurgedSteps

(* Inside a step, its record is the process's own, and the products its    *)
(* dependencies have are the ones it read.                                 *)
AtWork == \A p \in Pids : InStep(p) =>
    LET s == Current(p)
    IN  /\ todo[p] # <<>>
        /\ file[s].status = "running" /\ file[s].pid = p
        /\ file[s].born = born[p] /\ file[s].engine = job[p].engine
        /\ \A d \in DependsOn(s) : input[p][d] = made[d].gen
        /\ pc[p] = "record" /\ s # "preview" /\ job[p].cmd # "unpublish" =>
             /\ made[s].state = "whole" /\ made[s].cfg = yaml
             /\ made[s].engine = job[p].engine /\ made[s].from = input[p]

(* A record that says running names the process inside the step, or one    *)
(* that began earlier than any there is.                                   *)
Owned == \A s \in LogSteps : file[s].status = "running" =>
    /\ file[s].pid \in Pids
    /\ 0 < file[s].born /\ file[s].born <= clock
    /\ born[file[s].pid] = file[s].born =>
         InStep(file[s].pid) /\ Current(file[s].pid) = s

(* A step recorded done has a whole product, made from what it recorded.   *)
Sound == \A s \in ChainSteps \ Unsettled : file[s].status = "done" =>
    /\ made[s].state = "whole"
    /\ file[s].digest \in Digests /\ made[s].cfg = file[s].digest
    /\ made[s].engine = file[s].engine
    /\ 0 < file[s].finished /\ file[s].finished <= clock

(* ... and if none of its dependencies finished later, from theirs.        *)
Linked == \A s \in ChainSteps \ Unsettled : \A d \in DependsOn(s) \ Unsettled :
    (/\ file[s].status = "done" /\ file[d].status = "done"
     /\ file[d].finished <= file[s].finished)
       => made[s].from[d] = made[d].gen

IInv == TypeOK /\ Alone /\ Synced /\ AtWork /\ Owned /\ Sound /\ Linked
-----------------------------------------------------------------------------
(* The mutations of a CityState give a CityState.                          *)
LEMMA RecordKept ==
    ASSUME NEW city \in CityState, NEW s \in LogSteps, NEW entry \in StepRecord
    PROVE  WithRecord(city, s, entry) \in CityState
BY DEF WithRecord, CityState

LEMMA MutationTypes ==
    ASSUME NEW city \in CityState, NEW s \in LogSteps, NEW t \in Nat
    PROVE  /\ \A p \in Pids, e \in Engines \union {NoEngine} :
                Begun(city, s, p, t, e) \in CityState
           /\ \A d \in Digests \union {NoDigest} : Completed(city, s, t, d) \in CityState
           /\ Failed(city, s, t) \in CityState
           /\ Undone(city, s) \in CityState
<1>1. city.steps[s] \in StepRecord
  BY DEF CityState
<1>2. ASSUME NEW p \in Pids, NEW e \in Engines \union {NoEngine}
      PROVE  Begun(city, s, p, t, e) \in CityState
  <2>1. [ status |-> "running", finished |-> 0, digest |-> city.digest,
          pid |-> p, born |-> t, engine |-> e ] \in StepRecord
    BY DEF CityState, StepRecord, Stored
  <2> QED BY <2>1, RecordKept DEF Begun
<1>3. ASSUME NEW d \in Digests \union {NoDigest}
      PROVE  Completed(city, s, t, d) \in CityState
  <2>1. [ city.steps[s] EXCEPT !.status = "done", !.finished = t,
                               !.digest = d, !.pid = Nobody ] \in StepRecord
    BY <1>1 DEF StepRecord, Stored
  <2>2. [city EXCEPT !.digest = d] \in CityState
    BY DEF CityState
  <2> QED BY <2>1, <2>2, RecordKept DEF Completed
<1>4. Failed(city, s, t) \in CityState
  <2>1. [ city.steps[s] EXCEPT !.status = "failed", !.finished = t, !.pid = Nobody ]
          \in StepRecord
    BY <1>1 DEF StepRecord, Stored
  <2> QED BY <2>1, RecordKept DEF Failed
<1>5. Undone(city, s) \in CityState
  <2>1. [ city.steps[s] EXCEPT !.status = "pending", !.digest = NoDigest,
                               !.pid = Nobody ] \in StepRecord
    BY <1>1 DEF StepRecord, Stored
  <2> QED BY <2>1, RecordKept DEF Undone
<1> QED BY <1>2, <1>3, <1>4, <1>5

(* Two facts about what is left to do.                                     *)
LEMMA HeadAndTail ==
    ASSUME NEW S, NEW q \in Seq(S), q # <<>>
    PROVE  Head(q) \in S /\ Tail(q) \in Seq(S)
OBVIOUS
(* A process that leaves or moves on to its next step is still a process.  *)
LEMMA LeaveTypes ==
    ASSUME TypeOK, NEW p \in Pids, Leave(p)
    PROVE  ProcTypeOK' /\ \A q \in Pids : pc'[q] \in {"work", "record"} => todo'[q] # <<>>
<1>1. Closed \in CityState
  BY DEF Closed, CityState, Unrun, StepRecord, Stored
<1>2. NoInput \in [LogSteps -> Nat] /\ <<>> \in Seq(LogSteps)
  BY DEF NoInput
<1>3. Idle \in [ cmd : Cmds \union {"none"}, force : BOOLEAN,
                 cfg : Digests \union {NoDigest}, engine : Engines \union {NoEngine} ]
  BY DEF Idle
<1> QED BY <1>1, <1>2, <1>3 DEF TypeOK, ProcTypeOK, Leave

LEMMA NextStepTypes ==
    ASSUME TypeOK, NEW p \in Pids, todo[p] # <<>>, NextStep(p)
    PROVE  /\ pc' \in [Pids -> {"off", "ready", "work", "record", "undo"}]
           /\ todo' \in [Pids -> Seq(LogSteps)]
           /\ input' \in [Pids -> [LogSteps -> Nat]]
           /\ \A q \in Pids : pc'[q] \in {"work", "record"} => todo'[q] # <<>>
<1>1. NoInput \in [LogSteps -> Nat]
  BY DEF NoInput
<1>2. Tail(todo[p]) \in Seq(LogSteps)
  BY HeadAndTail DEF TypeOK, ProcTypeOK
<1> QED BY <1>1, <1>2 DEF TypeOK, ProcTypeOK, NextStep

LEMMA SaveTypes ==
    ASSUME TypeOK, NEW p \in Pids, NEW city \in CityState, Save(p, city)
    PROVE  mem' \in [Pids -> CityState] /\ file' \in [LogSteps -> StepRecord]
BY DEF Save, TypeOK, ProcTypeOK, CityState

LEMMA AbsentTypes == Absent \in Products /\ Torn \in Products
<1>1. NoInput \in [LogSteps -> Nat]
  BY DEF NoInput
<1> QED BY <1>1 DEF Absent, Torn, Products

LEMMA TypeInit == Init => TypeOK
<1> SUFFICES ASSUME Init PROVE TypeOK
  OBVIOUS
<1>1. Unrun \in StepRecord
  BY DEF Unrun, StepRecord, Stored
<1>2. WorldTypeOK
  BY <1>1, AbsentTypes DEF Init, WorldTypeOK
<1>3. ProcTypeOK
  BY <1>1 DEF Init, ProcTypeOK, Closed, CityState, NoInput, Idle
<1> QED BY <1>2, <1>3 DEF Init, TypeOK

LEMMA TypeStep == TypeOK /\ [Next]_vars => TypeOK'
<1> SUFFICES ASSUME TypeOK, [Next]_vars PROVE TypeOK'
  OBVIOUS
<1>1. CASE UNCHANGED vars
  BY <1>1 DEF TypeOK, WorldTypeOK, ProcTypeOK, vars, procVars
<1>2. CASE Edit \/ Upgrade
  BY <1>2 DEF Edit, Upgrade, Upset, TypeOK, WorldTypeOK, ProcTypeOK, procVars
<1>3. ASSUME NEW p \in Pids, NEW r \in Requests, Start(p, r)
      PROVE  TypeOK'
  <2>1. View \in CityState
    BY DEF View, CityState, TypeOK, WorldTypeOK
  <2>2. r.cmd \in Cmds /\ r.force \in BOOLEAN /\ r.steps \in Seq(LogSteps)
    BY RequestsOK
  <2> QED BY <1>3, <2>1, <2>2 DEF Start, TypeOK, WorldTypeOK, ProcTypeOK
<1>4. ASSUME NEW p \in Pids, Skip(p) \/ Refuse(p) \/ Gate(p) \/ Unmet(p) \/ TurnBack(p)
                               \/ Finished(p) \/ OverBudget(p) \/ Die(p)
      PROVE  TypeOK'
  <2>1. CASE Leave(p) /\ UNCHANGED <<yaml, engine, file, made, there, clock>> 
             /\ upsets' \in Nat
    BY <2>1, LeaveTypes DEF TypeOK, WorldTypeOK
  <2>2. CASE /\ todo[p] # <<>> /\ NextStep(p)
             /\ UNCHANGED <<yaml, engine, file, made, there, clock, upsets, born, job, mem>>
    BY <2>2, NextStepTypes DEF TypeOK, WorldTypeOK, ProcTypeOK
  <2> QED BY <1>4, <2>1, <2>2 DEF Skip, Refuse, Gate, Unmet, TurnBack, Finished, OverBudget,
                Die, Exit, Upset, ToRun, AtStep, TypeOK, WorldTypeOK
<1>5. ASSUME NEW p \in Pids, Begin(p) PROVE TypeOK'
  <2> DEFINE s == Current(p)
  <2>1. todo[p] # <<>>
    BY <1>5 DEF Begin, MayBegin, ToRun, AtStep
  <2>2. s \in LogSteps
    BY <2>1, HeadAndTail DEF Current, TypeOK, ProcTypeOK
  <2>3. mem' \in [Pids -> CityState] /\ file' \in [LogSteps -> StepRecord]
    <3>1. mem[p] \in CityState /\ born[p] \in Nat /\ job[p].engine \in Engines \union {NoEngine}
      BY DEF TypeOK, ProcTypeOK
    <3>2. Begun(mem[p], s, p, born[p], job[p].engine) \in CityState
      BY <2>2, <3>1, MutationTypes
    <3> QED BY <1>5, <3>2, SaveTypes DEF Begin, TypeOK, WorldTypeOK, ProcTypeOK
  <2>4. input' \in [Pids -> [LogSteps -> Nat]]
    <3>1. Reads(s) \in [LogSteps -> Nat]
      BY DEF Reads, TypeOK, WorldTypeOK, Products
    <3> QED BY <1>5, <3>1 DEF Begin, TypeOK, ProcTypeOK
  <2>5. made' \in [LogSteps -> Products]
    BY <1>5, AbsentTypes DEF Begin, TypeOK, WorldTypeOK
  <2> QED BY <1>5, <2>1, <2>3, <2>4, <2>5 DEF Begin, TypeOK, WorldTypeOK, ProcTypeOK
<1>6. ASSUME NEW p \in Pids, Produce(p) PROVE TypeOK'
  <2>1. Current(p) \in LogSteps
    BY <1>6, HeadAndTail DEF Produce, Current, TypeOK, ProcTypeOK
  <2>2. Product(p) \in Products
    BY AbsentTypes DEF Product, Products, TypeOK, WorldTypeOK, ProcTypeOK
  <2>3. made' \in [LogSteps -> Products] /\ there' \in SUBSET LogSteps
    BY <1>6, <2>1, <2>2 DEF Produce, TypeOK, WorldTypeOK
  <2> QED BY <1>6, <2>3 DEF Produce, TypeOK, WorldTypeOK, ProcTypeOK
<1>7. ASSUME NEW p \in Pids, Record(p) PROVE TypeOK'
  <2>1. todo[p] # <<>> /\ Current(p) \in LogSteps
    BY <1>7, HeadAndTail DEF Record, Current, TypeOK, ProcTypeOK
  <2>2. mem[p] \in CityState /\ mem[p].digest \in Digests \union {NoDigest} /\ clock + 1 \in Nat
    BY DEF TypeOK, ProcTypeOK, WorldTypeOK, CityState
  <2>3. job[p].cmd \in Bracketed => Outcome(p) \in CityState
    BY <2>1, <2>2, MutationTypes DEF Outcome, Bracketed, TypeOK, WorldTypeOK
  <2>4. mem' \in [Pids -> CityState] /\ file' \in [LogSteps -> StepRecord]
    BY <1>7, <2>3, SaveTypes DEF Record, TypeOK, WorldTypeOK, ProcTypeOK
  <2>5. /\ pc' \in [Pids -> {"off", "ready", "work", "record", "undo"}]
        /\ todo' \in [Pids -> Seq(LogSteps)]
        /\ input' \in [Pids -> [LogSteps -> Nat]]
        /\ \A q \in Pids : pc'[q] \in {"work", "record"} => todo'[q] # <<>>
    BY <1>7, <2>1, NextStepTypes DEF Record
  <2>6. WorldTypeOK'
    BY <1>7, <2>4 DEF Record, TypeOK, WorldTypeOK
  <2>7. ProcTypeOK'
    BY <1>7, <2>4, <2>5 DEF Record, TypeOK, ProcTypeOK
  <2> QED BY <2>5, <2>6, <2>7 DEF TypeOK
<1>8. ASSUME NEW p \in Pids, Break(p) PROVE TypeOK'
  <2> DEFINE city == Failed(mem[p], Current(p), clock + 1)
  <2>1. todo[p] # <<>> /\ Current(p) \in LogSteps
    BY <1>8, HeadAndTail DEF Break, Current, TypeOK, ProcTypeOK
  <2>2. mem[p] \in CityState /\ clock + 1 \in Nat
    BY DEF TypeOK, ProcTypeOK, WorldTypeOK
  <2>3. city \in CityState /\ city.steps \in [LogSteps -> StepRecord]
    BY <2>1, <2>2, MutationTypes DEF CityState
  <2>4. CASE Save(p, city) /\ NextStep(p) /\ UNCHANGED <<born, job>>
    <3>1. /\ pc' \in [Pids -> {"off", "ready", "work", "record", "undo"}]
          /\ todo' \in [Pids -> Seq(LogSteps)]
          /\ input' \in [Pids -> [LogSteps -> Nat]]
          /\ \A q \in Pids : pc'[q] \in {"work", "record"} => todo'[q] # <<>>
      BY <2>1, <2>4, NextStepTypes
    <3>2. mem' \in [Pids -> CityState] /\ file' \in [LogSteps -> StepRecord]
      BY <2>3, <2>4, SaveTypes
    <3>3. WorldTypeOK'
      BY <1>8, <3>2 DEF Break, Upset, TypeOK, WorldTypeOK
    <3>4. ProcTypeOK'
      BY <2>4, <3>1, <3>2 DEF TypeOK, ProcTypeOK
    <3> QED BY <3>1, <3>3, <3>4 DEF TypeOK
  <2>5. CASE Leave(p) /\ file' \in {city.steps, file}
    BY <1>8, <2>3, <2>5, LeaveTypes DEF Break, Upset, TypeOK, WorldTypeOK
  <2> QED BY <1>8, <2>4, <2>5 DEF Break
<1>9. ASSUME NEW p \in Pids, Remember(p) PROVE TypeOK'
  <2>1. mem[p].steps \in [LogSteps -> StepRecord]
    BY DEF TypeOK, ProcTypeOK, CityState
  <2> QED BY <1>9, <2>1, LeaveTypes DEF Remember, TypeOK, WorldTypeOK
<1>10. ASSUME NEW p \in Pids, RemoveTree(p) PROVE TypeOK'
  <2>1. CASE Exit(p)
    BY <2>1, LeaveTypes DEF Exit, TypeOK, WorldTypeOK
  <2>2. CASE ~Exit(p)
    <3>1. made' \in [LogSteps -> Products]
      BY <1>10, <2>2, AbsentTypes DEF RemoveTree, TypeOK, WorldTypeOK
    <3> QED BY <1>10, <2>2, <3>1 DEF RemoveTree, TypeOK, WorldTypeOK, ProcTypeOK
  <2> QED BY <2>1, <2>2
<1>11. ASSUME NEW p \in Pids, UndoNext(p) PROVE TypeOK'
  <2>1. todo[p] # <<>> /\ Current(p) \in LogSteps /\ Tail(todo[p]) \in Seq(LogSteps)
    BY <1>11, HeadAndTail DEF UndoNext, Current, TypeOK, ProcTypeOK
  <2>2. Undone(mem[p], Current(p)) \in CityState
    BY <2>1, MutationTypes DEF TypeOK, ProcTypeOK, WorldTypeOK
  <2>3. mem' \in [Pids -> CityState] /\ file' \in [LogSteps -> StepRecord]
    BY <1>11, <2>2, SaveTypes DEF UndoNext, TypeOK, WorldTypeOK, ProcTypeOK
  <2> QED BY <1>11, <2>1, <2>3 DEF UndoNext, TypeOK, WorldTypeOK, ProcTypeOK
<1> QED BY <1>1, <1>2, <1>3, <1>4, <1>5, <1>6, <1>7, <1>8, <1>9, <1>10, <1>11
        DEF Next, Launch, Advance, Mishap

(* TypeOK is an invariant, whatever overlaps and whatever is killed.       *)
THEOREM TypeCorrect == Spec => []TypeOK
BY TypeInit, TypeStep, PTL DEF Spec

-----------------------------------------------------------------------------
LEMMA InitSound == Init => IInv
<1> SUFFICES ASSUME Init PROVE IInv
  OBVIOUS
<1>1. TypeOK
  BY TypeInit
<1>2. Alone /\ Synced /\ AtWork
  BY DEF Init, Alone, Synced, AtWork, Live, InStep
<1>3. Owned /\ Sound /\ Linked
  BY DEF Init, Owned, Sound, Linked, Unrun, ChainSteps, LogSteps, DependsOn
<1> QED BY <1>1, <1>2, <1>3 DEF IInv

(* With one process there is no other one to ask about.                    *)
LEMMA Lone ==
    ASSUME IInv, NEW p \in Pids, Live(p)
    PROVE  \A q \in Pids : q # p => born[q] = 0 /\ pc[q] = "off"
BY DEF IInv, Alone, Live

(* Only a purge leaves records that are not true yet.                      *)
LEMMA Settled ==
    ASSUME IInv, NEW p \in Pids, Live(p), pc[p] = "undo" => todo[p] = <<>>
    PROVE  Unsettled = {}
<1>1. ASSUME NEW q \in Pids, pc[q] = "undo" PROVE Len(todo[q]) = 0
  <2>1. q = p
    BY <1>1, Lone
  <2> QED BY <1>1, <2>1
<1> QED BY <1>1 DEF Unsettled

LEMMA SettledNext ==
    ASSUME \A q \in Pids : pc'[q] # "undo" PROVE Unsettled' = {}
BY DEF Unsettled

(* Every step of the chain that some step depends on is another one.       *)
LEMMA Dependencies ==
    \A s \in LogSteps : DependsOn(s) \subseteq ChainSteps \ {s}
BY DEF LogSteps, ChainSteps, DependsOn

-----------------------------------------------------------------------------
(* A process that ends, having written nothing.                            *)
LEMMA LeaveSound ==
    ASSUME IInv, TypeOK', NEW p \in Pids, Live(p), Leave(p),
           UNCHANGED <<yaml, file, made, clock>>,
           pc[p] = "undo" => todo[p] = <<>>
    PROVE  IInv'
<1>1. \A q \in Pids : born'[q] = 0 /\ pc'[q] = "off"
  BY Lone DEF Leave, IInv, TypeOK, ProcTypeOK
<1>2. Unsettled = {} /\ Unsettled' = {}
  BY <1>1, Settled, SettledNext
<1>3. Alone' /\ Synced' /\ AtWork'
  BY <1>1 DEF Alone, Synced, AtWork, Live, InStep, IInv, TypeOK, WorldTypeOK
<1>4. Owned'
  BY <1>1 DEF Owned, IInv
<1>5. Sound' /\ Linked'
  BY <1>2 DEF Sound, Linked, IInv
<1> QED BY <1>3, <1>4, <1>5 DEF IInv

(* A chain that goes past a step without running it.                       *)
LEMMA PassSound ==
    ASSUME IInv, TypeOK', NEW p \in Pids, Live(p), pc[p] = "ready", job[p].cmd = "run",
           NextStep(p),
           UNCHANGED <<yaml, engine, file, made, clock, born, job, mem>>
    PROVE  IInv'
<1>1. pc' = pc /\ (\A q \in Pids : q # p => todo'[q] = todo[q])
  BY DEF NextStep, IInv, TypeOK, ProcTypeOK
<1>2. Unsettled = {} /\ Unsettled' = {}
  <2>1. \A q \in Pids : pc[q] # "undo"
    BY Lone
  <2> QED BY <1>1, <2>1, Settled, SettledNext
<1>3. Alone' /\ Synced'
  BY <1>1 DEF Alone, Synced, Live, InStep, View, IInv
<1>4. \A q \in Pids : ~InStep(q)
  BY Lone DEF InStep
<1>5. AtWork' /\ Owned'
  BY <1>1, <1>4 DEF AtWork, Owned, InStep, Current, IInv
<1>6. Sound' /\ Linked'
  BY <1>2 DEF Sound, Linked, IInv
<1> QED BY <1>3, <1>5, <1>6 DEF IInv

(* A process that starts with nobody else about.                           *)
LEMMA StartSound ==
    ASSUME IInv, TypeOK', Discipline, NEW p \in Pids, NEW r \in Requests, Start(p, r)
    PROVE  IInv'
<1>1. \A q \in Pids : born[q] = 0 /\ pc[q] = "off"
  BY DEF Discipline, Start, Quiet, Live, IInv, Alone
<1>2. /\ born'[p] = clock + 1 /\ pc'[p] = "ready" /\ clock \in Nat
      /\ \A q \in Pids : q # p => born'[q] = 0 /\ pc'[q] = "off"
  BY <1>1 DEF Start, IInv, TypeOK, WorldTypeOK, ProcTypeOK
<1>3. Unsettled = {} /\ Unsettled' = {}
  BY <1>1, <1>2, SettledNext DEF Unsettled
<1>4. Alone'
  BY <1>2 DEF Start, Alone, Live
<1>5. Synced'
  <2>1. /\ mem'[p] = View' /\ job'[p].cfg = yaml' /\ job'[p].cmd = r.cmd
        /\ todo'[p] = r.steps
    BY DEF Start, View, IInv, TypeOK, ProcTypeOK
  <2>2. r.cmd \in Cmds \ {"direct"} /\ (r.cmd = "purge" => r.steps = PurgedSteps)
    BY RequestsOK DEF Discipline, Allotted
  <2> QED BY <1>2, <2>1, <2>2 DEF Synced, Live, InStep
<1>6. AtWork'
  BY <1>2 DEF AtWork, InStep
<1>7. Owned'
  BY <1>1, <1>2 DEF Start, Owned, InStep, IInv, TypeOK, WorldTypeOK, StepRecord
<1>8. Sound' /\ Linked'
  BY <1>2, <1>3 DEF Start, Sound, Linked, IInv, TypeOK, WorldTypeOK, StepRecord, LogSteps
<1> QED BY <1>4, <1>5, <1>6, <1>7, <1>8 DEF IInv

-----------------------------------------------------------------------------
(* Writing one record from what the file holds changes that record only.   *)
LEMMA WriteOne ==
    ASSUME IInv, TypeOK', NEW p \in Pids, NEW s \in LogSteps, mem[p] = View,
           NEW entry, NEW city, Save(p, city),
           city = [steps |-> [file EXCEPT ![s] = entry], digest |-> yaml],
           UNCHANGED yaml
    PROVE  /\ file'[s] = entry
           /\ \A t \in LogSteps : t # s => file'[t] = file[t]
           /\ mem'[p] = View'
BY DEF Save, View, IInv, TypeOK, WorldTypeOK, ProcTypeOK

LEMMA BegunView ==
    ASSUME NEW s \in LogSteps, NEW p, NEW t, NEW e
    PROVE  Begun(View, s, p, t, e) =
             [ steps |-> [file EXCEPT ![s] =
                 [ status |-> "running", finished |-> 0, digest |-> yaml,
                   pid |-> p, born |-> t, engine |-> e ]],
               digest |-> yaml ]
BY DEF Begun, WithRecord, View

LEMMA CompletedView ==
    ASSUME NEW s \in LogSteps, NEW t
    PROVE  Completed(View, s, t, yaml) =
             [ steps |-> [file EXCEPT ![s] =
                 [ file[s] EXCEPT !.status = "done", !.finished = t,
                                  !.digest = yaml, !.pid = Nobody ]],
               digest |-> yaml ]
<1>1. [View EXCEPT !.digest = yaml] = View /\ View.steps = file
  BY DEF View
<1>2. Completed(View, s, t, yaml) =
        WithRecord(View, s, [ file[s] EXCEPT !.status = "done", !.finished = t,
                                             !.digest = yaml, !.pid = Nobody ])
  BY <1>1 DEF Completed
<1> QED BY <1>2 DEF WithRecord, View

LEMMA FailedView ==
    ASSUME NEW s \in LogSteps, NEW t
    PROVE  Failed(View, s, t) =
             [ steps |-> [file EXCEPT ![s] =
                 [ file[s] EXCEPT !.status = "failed", !.finished = t, !.pid = Nobody ]],
               digest |-> yaml ]
BY DEF Failed, WithRecord, View

LEMMA UndoneView ==
    ASSUME NEW s \in LogSteps
    PROVE  Undone(View, s) =
             [ steps |-> [file EXCEPT ![s] =
                 [ file[s] EXCEPT !.status = "pending", !.digest = NoDigest, !.pid = Nobody ]],
               digest |-> yaml ]
BY DEF Undone, WithRecord, View

-----------------------------------------------------------------------------
(* A step begins: its record says running, its product may be half gone.   *)
LEMMA BeginSound ==
    ASSUME IInv, TypeOK', NEW p \in Pids, Begin(p)
    PROVE  IInv'
<1> DEFINE s == Current(p)
<1>1. /\ pc[p] = "ready" /\ todo[p] # <<>>
  BY DEF Begin, MayBegin, ToRun, AtStep
<1>2. s \in LogSteps /\ Live(p) /\ mem[p] = View /\ job[p].cmd \in Bracketed
  <2>1. s \in LogSteps
    BY <1>1, HeadAndTail DEF Current, IInv, TypeOK, ProcTypeOK
  <2>2. Live(p) /\ mem[p] = View /\ job[p].cmd # "direct"
    BY <1>1 DEF IInv, Alone, Synced
  <2>3. job[p].cmd \in Bracketed
    BY <2>2 DEF Begin, MayBegin, ToRun, AtStep, Bracketed
  <2> QED BY <2>1, <2>2, <2>3
<1>3. /\ file'[s].status = "running" /\ file'[s].pid = p
      /\ file'[s].born = born[p] /\ file'[s].engine = job[p].engine
      /\ \A t \in LogSteps : t # s => file'[t] = file[t]
      /\ mem'[p] = View'
  <2> DEFINE entry == [ status |-> "running", finished |-> 0, digest |-> yaml,
                        pid |-> p, born |-> born[p], engine |-> job[p].engine ]
  <2>1. Save(p, Begun(View, s, p, born[p], job[p].engine)) /\ UNCHANGED yaml
    BY <1>2 DEF Begin
  <2>2. Begun(View, s, p, born[p], job[p].engine)
          = [steps |-> [file EXCEPT ![s] = entry], digest |-> yaml]
    BY <1>2, BegunView
  <2>3. /\ entry.status = "running" /\ entry.pid = p
        /\ entry.born = born[p] /\ entry.engine = job[p].engine
    OBVIOUS
  <2> HIDE DEF entry
  <2>4. file'[s] = entry /\ (\A t \in LogSteps : t # s => file'[t] = file[t]) /\ mem'[p] = View'
    BY <1>2, <2>1, <2>2, WriteOne
  <2> QED BY <2>3, <2>4
<1>4. /\ pc'[p] = "work" /\ UNCHANGED <<yaml, engine, clock, born, job, todo>>
      /\ \A q \in Pids : q # p => pc'[q] = "off" /\ pc[q] = "off" /\ born[q] = 0
      /\ input'[p] = Reads(s)
      /\ \A t \in LogSteps : t # s => made'[t] = made[t]
  BY <1>2, Lone DEF Begin, IInv, TypeOK, WorldTypeOK, ProcTypeOK
<1>5. Unsettled = {} /\ Unsettled' = {}
  BY <1>1, <1>2, <1>4, Settled, SettledNext
<1>6. Alone'
  BY <1>1, <1>4 DEF Alone, Live, IInv
<1>7. Synced'
  BY <1>2, <1>3, <1>4 DEF Synced, Live, InStep, IInv
<1>8. AtWork'
  <2>1. \A d \in DependsOn(s) : input'[p][d] = made'[d].gen
    BY <1>2, <1>4, Dependencies DEF Reads, ChainSteps, LogSteps
  <2>2. \A q \in Pids : InStep(q)' => q = p
    BY <1>4 DEF InStep
  <2> QED BY <1>1, <1>3, <1>4, <2>1, <2>2 DEF AtWork, Current
<1>9. Owned'
  <2> SUFFICES ASSUME NEW t \in LogSteps, file'[t].status = "running"
               PROVE  /\ file'[t].pid \in Pids
                      /\ 0 < file'[t].born /\ file'[t].born <= clock'
                      /\ born'[file'[t].pid] = file'[t].born =>
                           (InStep(file[t].pid) /\ Current(file[t].pid) = t)'
    BY DEF Owned
  <2>1. CASE t = s
    <3>1. file'[t].pid = p /\ file'[t].born = born[p] /\ born'[p] = born[p]
      BY <1>3, <1>4, <2>1
    <3>2. (InStep(file[t].pid) /\ Current(file[t].pid) = t)'
      BY <1>4, <2>1, <3>1 DEF InStep, Current
    <3>3. 0 < born[p] /\ born[p] <= clock'
      BY <1>2, <1>4 DEF IInv, Alone, Live, TypeOK, ProcTypeOK
    <3> QED BY <3>1, <3>2, <3>3
  <2>2. CASE t # s
    <3>1. /\ file[t].pid \in Pids /\ 0 < file[t].born /\ file[t].born <= clock
          /\ born[file[t].pid] = file[t].born => InStep(file[t].pid)
      BY <1>3, <2>2 DEF IInv, Owned
    <3>2. \A q \in Pids : ~InStep(q)
      BY <1>1, <1>4 DEF InStep
    <3> QED BY <1>3, <1>4, <2>2, <3>1, <3>2
  <2> QED BY <2>1, <2>2
<1>10. Sound'
  <2>1. \A t \in ChainSteps : file'[t].status = "done" => t # s
    BY <1>3
  <2> QED BY <1>3, <1>4, <1>5, <2>1 DEF Sound, IInv, LogSteps
<1>11. Linked'
  <2>1. \A t \in LogSteps : file'[t].status = "done" => t # s
    BY <1>3
  <2>2. \A t \in ChainSteps : DependsOn(t) \subseteq LogSteps /\ t \in LogSteps
    BY Dependencies DEF LogSteps
  <2> QED BY <1>3, <1>4, <1>5, <2>1, <2>2 DEF Linked, IInv
<1> QED BY <1>6, <1>7, <1>8, <1>9, <1>10, <1>11 DEF IInv

(* The work of a step returns.                                             *)
LEMMA ProduceSound ==
    ASSUME IInv, TypeOK', NEW p \in Pids, Produce(p)
    PROVE  IInv'
<1> DEFINE s == Current(p)
<1>1. pc[p] = "work" /\ todo[p] # <<>> /\ clock' = clock + 1 /\ clock \in Nat
  BY DEF Produce, IInv, TypeOK, WorldTypeOK
<1>2. s \in LogSteps /\ Live(p)
  BY <1>1, HeadAndTail DEF Current, IInv, TypeOK, ProcTypeOK, Alone
<1>3. /\ pc'[p] = "record" /\ UNCHANGED <<yaml, engine, file, born, job, todo, mem, input>>
      /\ \A q \in Pids : q # p => pc'[q] = "off" /\ pc[q] = "off" /\ born[q] = 0
      /\ \A t \in LogSteps : t # s => made'[t] = made[t]
      /\ s # "preview" => made'[s] = Product(p)
  BY <1>2, Lone DEF Produce, IInv, TypeOK, WorldTypeOK, ProcTypeOK
<1>4. Unsettled = {} /\ Unsettled' = {}
  BY <1>1, <1>2, <1>3, Settled, SettledNext
<1>5. Alone' /\ Synced'
  BY <1>1, <1>3 DEF Alone, Synced, Live, InStep, View, IInv, TypeOK, ProcTypeOK
<1>6. /\ file[s].status = "running" /\ file[s].pid = p
      /\ file[s].born = born[p] /\ file[s].engine = job[p].engine
      /\ \A d \in DependsOn(s) : input[p][d] = made[d].gen
  BY <1>1 DEF IInv, AtWork, InStep
<1>7. AtWork'
  <2>1. \A d \in DependsOn(s) : input[p][d] = made'[d].gen
    BY <1>2, <1>3, <1>6, Dependencies DEF LogSteps
  <2>2. s # "preview" /\ job[p].cmd # "unpublish" =>
          /\ made'[s].state = "whole" /\ made'[s].cfg = yaml
          /\ made'[s].engine = job[p].engine /\ made'[s].from = input[p]
    BY <1>2, <1>3 DEF Product, IInv, Synced
  <2>3. \A q \in Pids : InStep(q)' => q = p
    BY <1>3 DEF InStep
  <2> QED BY <1>1, <1>3, <1>6, <2>1, <2>2, <2>3 DEF AtWork, Current
<1>8. Owned'
  <2> SUFFICES ASSUME NEW t \in LogSteps, file[t].status = "running"
               PROVE  /\ file[t].pid \in Pids
                      /\ 0 < file[t].born /\ file[t].born <= clock'
                      /\ born[file[t].pid] = file[t].born =>
                           (InStep(file[t].pid) /\ Current(file[t].pid) = t)'
    BY <1>3 DEF Owned
  <2>1. /\ file[t].pid \in Pids /\ 0 < file[t].born /\ file[t].born <= clock
        /\ born[file[t].pid] = file[t].born =>
             InStep(file[t].pid) /\ Current(file[t].pid) = t
    BY DEF IInv, Owned
  <2>2. file[t].born \in Nat
    BY DEF IInv, TypeOK, WorldTypeOK, StepRecord
  <2>3. \A q \in Pids : InStep(q) => InStep(q)' /\ Current(q)' = Current(q)
    BY <1>1, <1>3 DEF InStep, Current
  <2> QED BY <1>1, <1>3, <2>1, <2>2, <2>3
<1>9. Sound'
  BY <1>1, <1>3, <1>4, <1>6 DEF Sound, IInv, TypeOK, WorldTypeOK, StepRecord, LogSteps
<1>10. Linked'
  <2>1. \A t \in LogSteps : file[t].status = "done" => t # s
    BY <1>6
  <2>2. \A t \in ChainSteps : DependsOn(t) \subseteq LogSteps /\ t \in LogSteps
    BY Dependencies DEF LogSteps
  <2> QED BY <1>3, <1>4, <2>1, <2>2 DEF Linked, IInv
<1> QED BY <1>5, <1>7, <1>8, <1>9, <1>10 DEF IInv

-----------------------------------------------------------------------------
(* What every process inside a step has in hand.                           *)
LEMMA Inside ==
    ASSUME IInv, NEW p \in Pids, InStep(p)
    PROVE  /\ todo[p] # <<>> /\ Current(p) \in LogSteps /\ Live(p)
           /\ mem[p] = View /\ job[p].cmd \in Bracketed
           /\ \A q \in Pids : q # p => born[q] = 0 /\ pc[q] = "off"
           /\ Unsettled = {}
<1>1. todo[p] # <<>>
  BY DEF IInv, TypeOK, InStep
<1>2. Live(p) /\ mem[p] = View /\ job[p].cmd \in Bracketed
  BY DEF IInv, Alone, Synced, InStep
<1>3. Current(p) \in LogSteps
  BY <1>1, HeadAndTail DEF Current, IInv, TypeOK, ProcTypeOK
<1> QED BY <1>1, <1>2, <1>3, Lone, Settled DEF InStep

(* Nobody but the process inside a step owns a record that says running.   *)
LEMMA OwnedAfter ==
    ASSUME IInv, NEW p \in Pids, Live(p), InStep(p) => file'[Current(p)].status # "running",
           NEW s \in LogSteps, InStep(p) => Current(p) = s,
           \A t \in LogSteps : t # s => file'[t] = file[t],
           file'[s].status = "running" => file'[s] = file[s],
           clock' \in Nat, clock <= clock', clock \in Nat,
           file \in [LogSteps -> StepRecord],
           \A q \in Pids : born'[q] \in {0, born[q]}
    PROVE  Owned'
<1> SUFFICES ASSUME NEW t \in LogSteps, file'[t].status = "running"
             PROVE  /\ file'[t].pid \in Pids
                    /\ 0 < file'[t].born /\ file'[t].born <= clock'
                    /\ born'[file'[t].pid] # file'[t].born
  BY DEF Owned
<1>1. file'[t] = file[t] /\ file[t].status = "running" /\ file[t].born \in Nat
  BY DEF StepRecord
<1>2. /\ file[t].pid \in Pids /\ 0 < file[t].born /\ file[t].born <= clock
      /\ born[file[t].pid] = file[t].born =>
           InStep(file[t].pid) /\ Current(file[t].pid) = t
  BY <1>1 DEF IInv, Owned
<1>3. born[file[t].pid] # file[t].born
  <2> SUFFICES ASSUME born[file[t].pid] = file[t].born PROVE FALSE
    OBVIOUS
  <2>1. file[t].pid = p
    BY <1>1, <1>2, Lone
  <2> QED BY <1>1, <1>2, <2>1
<1> QED BY <1>1, <1>2, <1>3

(* The step is recorded: done, from what its dependencies have; or undone. *)
LEMMA RecordSound ==
    ASSUME IInv, TypeOK', NEW p \in Pids, Record(p)
    PROVE  IInv'
<1> DEFINE s == Current(p)
<1>1. pc[p] = "record" /\ InStep(p) /\ clock' = clock + 1 /\ clock \in Nat
  BY DEF Record, InStep, IInv, TypeOK, WorldTypeOK
<1>2. /\ todo[p] # <<>> /\ s \in LogSteps /\ Live(p)
      /\ mem[p] = View /\ job[p].cmd \in Bracketed
      /\ \A q \in Pids : q # p => born[q] = 0 /\ pc[q] = "off"
      /\ Unsettled = {}
  BY <1>1, Inside
<1>3. /\ \A t \in LogSteps : t # s => file'[t] = file[t]
      /\ mem'[p] = View'
      /\ \/ /\ file'[s].status = "done" /\ file'[s].finished = clock + 1
            /\ file'[s].digest = yaml /\ file'[s].engine = file[s].engine
            /\ job[p].cmd # "unpublish"
         \/ file'[s].status = "pending"
  <2>1. file[s] \in StepRecord
    BY <1>2 DEF IInv, TypeOK, WorldTypeOK
  <2>2. CASE job[p].cmd # "unpublish"
    <3>1. Outcome(p) = Completed(View, s, clock + 1, yaml)
      BY <1>2, <2>2 DEF Outcome, Bracketed, View
    <3>2. Save(p, Outcome(p)) /\ UNCHANGED yaml
      BY <1>2 DEF Record
    <3> DEFINE entry == [ file[s] EXCEPT !.status = "done", !.finished = clock + 1,
                                         !.digest = yaml, !.pid = Nobody ]
    <3>3. /\ entry.status = "done" /\ entry.finished = clock + 1
          /\ entry.digest = yaml /\ entry.engine = file[s].engine
      BY <2>1 DEF StepRecord
    <3>4. Outcome(p) = [steps |-> [file EXCEPT ![s] = entry], digest |-> yaml]
      BY <1>2, <3>1, CompletedView
    <3> HIDE DEF entry
    <3>5. file'[s] = entry /\ (\A t \in LogSteps : t # s => file'[t] = file[t]) /\ mem'[p] = View'
      BY <1>2, <3>2, <3>4, WriteOne
    <3> QED BY <2>2, <3>3, <3>5
  <2>3. CASE job[p].cmd = "unpublish"
    <3>1. Outcome(p) = Undone(View, s)
      BY <1>2, <2>3 DEF Outcome
    <3>2. Save(p, Outcome(p)) /\ UNCHANGED yaml
      BY <1>2 DEF Record
    <3> DEFINE entry == [ file[s] EXCEPT !.status = "pending", !.digest = NoDigest,
                                         !.pid = Nobody ]
    <3>3. entry.status = "pending"
      BY <2>1 DEF StepRecord
    <3>4. Outcome(p) = [steps |-> [file EXCEPT ![s] = entry], digest |-> yaml]
      BY <1>2, <3>1, UndoneView
    <3> HIDE DEF entry
    <3>5. file'[s] = entry /\ (\A t \in LogSteps : t # s => file'[t] = file[t]) /\ mem'[p] = View'
      BY <1>2, <3>2, <3>4, WriteOne
    <3> QED BY <3>3, <3>5
  <2> QED BY <2>2, <2>3
<1>4. /\ pc'[p] = "ready" /\ UNCHANGED <<yaml, engine, made, born, job>>
      /\ \A q \in Pids : q # p => pc'[q] = "off"
  BY <1>2 DEF Record, NextStep, IInv, TypeOK, ProcTypeOK
<1>5. Unsettled' = {}
  BY <1>4, SettledNext
<1>6. Alone'
  BY <1>1, <1>2, <1>4 DEF Alone, Live, IInv, TypeOK, ProcTypeOK
<1>7. Synced'
  <2>1. job[p].cmd # "purge" /\ job[p].cmd # "direct"
    BY <1>2 DEF Bracketed
  <2> QED BY <1>2, <1>3, <1>4, <2>1 DEF Synced, Live, InStep, IInv
<1>8. AtWork'
  BY <1>4 DEF AtWork, InStep
<1>9. Owned'
  <2>1. file'[s].status # "running"
    BY <1>3
  <2> QED BY <1>1, <1>2, <1>3, <1>4, <2>1, OwnedAfter DEF IInv, TypeOK, WorldTypeOK
<1>10. file'[s].status = "done" /\ s \in ChainSteps =>
         /\ made[s].state = "whole" /\ made[s].cfg = yaml
         /\ made[s].engine = file[s].engine
         /\ \A d \in DependsOn(s) : made[s].from[d] = made[d].gen
  BY <1>1, <1>3 DEF IInv, AtWork, ChainSteps
<1>11. Sound'
  <2>1. yaml \in Digests /\ file \in [LogSteps -> StepRecord]
    BY DEF IInv, TypeOK, WorldTypeOK
  <2>2. ASSUME NEW t \in ChainSteps, file'[t].status = "done"
        PROVE  /\ made'[t].state = "whole"
               /\ file'[t].digest \in Digests /\ made'[t].cfg = file'[t].digest
               /\ made'[t].engine = file'[t].engine
               /\ 0 < file'[t].finished /\ file'[t].finished <= clock'
    <3>1. CASE t = s
      BY <1>1, <1>3, <1>4, <1>10, <2>1, <2>2, <3>1
    <3>2. CASE t # s
      BY <1>1, <1>2, <1>3, <1>4, <2>1, <2>2, <3>2 DEF IInv, Sound, LogSteps, StepRecord
    <3> QED BY <3>1, <3>2
  <2> QED BY <2>2 DEF Sound
<1>12. Linked'
  <2> SUFFICES ASSUME NEW t \in ChainSteps, NEW d \in DependsOn(t),
                      file'[t].status = "done", file'[d].status = "done",
                      file'[d].finished <= file'[t].finished
               PROVE  made'[t].from[d] = made'[d].gen
    BY DEF Linked
  <2>1. t \in LogSteps /\ d \in LogSteps /\ d # t /\ d \in ChainSteps
    BY Dependencies DEF LogSteps
  <2>2. CASE t = s
    BY <1>4, <1>10, <2>2
  <2>3. CASE t # s /\ d = s
    <3>1. file[t].finished <= clock /\ file[t].finished \in Nat
      BY <1>2, <1>3, <2>1, <2>3 DEF IInv, Sound, TypeOK, WorldTypeOK, StepRecord
    <3> QED BY <1>1, <1>3, <2>1, <2>3, <3>1
  <2>4. CASE t # s /\ d # s
    BY <1>2, <1>3, <1>4, <2>1, <2>4 DEF IInv, Linked
  <2> QED BY <2>2, <2>3, <2>4
<1> QED BY <1>6, <1>7, <1>8, <1>9, <1>11, <1>12 DEF IInv

(* The step raises: its record says failed, and the process goes or stays. *)
LEMMA BreakSound ==
    ASSUME IInv, TypeOK', NEW p \in Pids, Break(p)
    PROVE  IInv'
<1> DEFINE s == Current(p)
           city == Failed(View, s, clock + 1)
           entry == [ file[s] EXCEPT !.status = "failed", !.finished = clock + 1,
                                     !.pid = Nobody ]
<1>1. pc[p] = "work" /\ InStep(p) /\ clock' = clock + 1 /\ clock \in Nat
  BY DEF Break, InStep, IInv, TypeOK, WorldTypeOK
<1>2. /\ todo[p] # <<>> /\ s \in LogSteps /\ Live(p)
      /\ mem[p] = View /\ job[p].cmd \in Bracketed
      /\ \A q \in Pids : q # p => born[q] = 0 /\ pc[q] = "off"
      /\ Unsettled = {}
  BY <1>1, Inside
<1>3. UNCHANGED <<yaml, engine, made>>
  BY DEF Break
<1>4. file' = city.steps /\ city = [steps |-> [file EXCEPT ![s] = entry], digest |-> yaml]
  BY <1>2, FailedView DEF Break, Save
<1>5. /\ \A t \in LogSteps : t # s => file'[t] = file[t]
      /\ file'[s].status = "failed"
  <2>1. file[s] \in StepRecord /\ file \in [LogSteps -> StepRecord]
    BY <1>2 DEF IInv, TypeOK, WorldTypeOK
  <2>2. entry.status = "failed"
    BY <2>1 DEF StepRecord
  <2> HIDE DEF entry, city
  <2>3. file' = [file EXCEPT ![s] = entry]
    BY <1>4
  <2> QED BY <1>2, <2>1, <2>2, <2>3
<1>6. \/ /\ mem'[p] = View' /\ job[p].cmd = "run" /\ pc'[p] = "ready"
         /\ UNCHANGED <<born, job>>
      \/ born'[p] = 0 /\ pc'[p] = "off"
  <2>1. CASE job[p].cmd = "run" /\ Save(p, city) /\ NextStep(p) /\ UNCHANGED <<born, job>>
    <3>1. mem'[p] = city
      BY <2>1 DEF Save, IInv, TypeOK, ProcTypeOK
    <3>2. mem'[p] = View'
      BY <1>3, <1>4, <3>1 DEF View
    <3> QED BY <2>1, <3>2 DEF NextStep, IInv, TypeOK, ProcTypeOK
  <2>2. CASE Leave(p)
    BY <2>2 DEF Leave, IInv, TypeOK, ProcTypeOK
  <2> QED BY <1>2, <2>1, <2>2 DEF Break
<1>7. \A q \in Pids : q # p => pc'[q] = "off" /\ born'[q] = 0
  BY <1>2 DEF Break, NextStep, Leave, IInv, TypeOK, ProcTypeOK
<1>8. Unsettled' = {}
  BY <1>6, <1>7, SettledNext
<1>9. Alone'
  <2>1. \A q \in Pids : born'[q] \in {0, born[q]} /\ born[q] \in Nat /\ born[q] <= clock
    BY <1>2, <1>6, <1>7 DEF IInv, Alone, TypeOK, ProcTypeOK
  <2>2. Live(p)' <=> pc'[p] # "off"
    BY <1>2, <1>6 DEF Live
  <2> QED BY <1>1, <1>7, <2>1, <2>2 DEF Alone, Live
<1>10. Synced'
  BY <1>2, <1>3, <1>6, <1>7 DEF Synced, Live, InStep, IInv
<1>11. AtWork'
  BY <1>6, <1>7 DEF AtWork, InStep
<1>12. Owned'
  <2>1. \A q \in Pids : born'[q] \in {0, born[q]}
    BY <1>2, <1>6, <1>7
  <2> QED BY <1>1, <1>2, <1>5, <2>1, OwnedAfter DEF IInv, TypeOK, WorldTypeOK
<1>13. Sound'
  BY <1>1, <1>2, <1>3, <1>5, <1>8 DEF Sound, IInv, TypeOK, WorldTypeOK, StepRecord, LogSteps
<1>14. Linked'
  <2>1. \A t \in ChainSteps : DependsOn(t) \subseteq LogSteps /\ t \in LogSteps
    BY Dependencies DEF LogSteps
  <2> QED BY <1>2, <1>3, <1>5, <1>8, <2>1 DEF Linked, IInv
<1> QED BY <1>9, <1>10, <1>11, <1>12, <1>13, <1>14 DEF IInv

-----------------------------------------------------------------------------
(* The purge deletes: every record it contradicts is on its list.          *)
LEMMA RemoveSound ==
    ASSUME IInv, TypeOK', NEW p \in Pids, RemoveTree(p), ~Exit(p)
    PROVE  IInv'
<1>1. /\ pc[p] = "ready" /\ job[p].cmd = "purge" /\ Live(p) /\ todo[p] = PurgedSteps
      /\ mem[p] = View
  BY DEF RemoveTree, AtStep, IInv, Alone, Synced
<1>2. /\ pc'[p] = "undo" /\ UNCHANGED <<yaml, engine, file, clock, born, job, todo, mem>>
      /\ \A q \in Pids : q # p => pc'[q] = "off" /\ pc[q] = "off" /\ born[q] = 0
      /\ \A s \in LogSteps \ Purged : made'[s] = made[s]
  BY <1>1, Lone DEF RemoveTree, IInv, TypeOK, ProcTypeOK
<1>3. Unsettled = {}
  BY <1>1, Settled
<1>4. Purged \subseteq LogSteps /\ Purged \subseteq Unsettled'
  <2>1. Purged = {"basemap", "build", "graph", "tiles"} /\ Len(PurgedSteps) = 4
    BY DEF Purged, PurgedSteps
  <2>2. \A s \in Purged : \E i \in 1..Len(todo[p]) : todo[p][i] = s
    BY <1>1, <2>1 DEF PurgedSteps
  <2>3. Purged \subseteq LogSteps
    BY <2>1 DEF LogSteps, ChainSteps
  <2> QED BY <1>2, <2>2, <2>3 DEF Unsettled
<1>5. Alone' /\ Synced' /\ AtWork'
  BY <1>1, <1>2 DEF Alone, Synced, AtWork, Live, InStep, View, IInv
<1>6. Owned'
  <2>1. ~InStep(p) /\ "area" \in LogSteps
    BY <1>1 DEF InStep, LogSteps, ChainSteps
  <2> QED BY <1>1, <1>2, <2>1, OwnedAfter DEF IInv, TypeOK, WorldTypeOK, ProcTypeOK
<1>7. Sound'
  BY <1>2, <1>3, <1>4 DEF Sound, IInv, LogSteps
<1>8. Linked'
  <2>1. \A t \in ChainSteps : DependsOn(t) \subseteq LogSteps /\ t \in LogSteps
    BY Dependencies DEF LogSteps
  <2> QED BY <1>2, <1>3, <1>4, <2>1 DEF Linked, IInv
<1> QED BY <1>5, <1>6, <1>7, <1>8 DEF IInv

(* ... and it strikes one off the list as it puts that step to pending.    *)
LEMMA UndoSound ==
    ASSUME IInv, TypeOK', NEW p \in Pids, UndoNext(p)
    PROVE  IInv'
<1> DEFINE s == Current(p)
<1>1. /\ pc[p] = "undo" /\ todo[p] # <<>> /\ Live(p) /\ mem[p] = View
      /\ todo[p] \in Seq(LogSteps) /\ s \in LogSteps
  BY HeadAndTail DEF UndoNext, Current, IInv, Alone, Synced, TypeOK, ProcTypeOK
<1>2. /\ UNCHANGED <<yaml, engine, made, clock, born, job, pc>>
      /\ todo'[p] = Tail(todo[p])
      /\ \A q \in Pids : q # p => pc[q] = "off" /\ born[q] = 0
  BY <1>1, Lone DEF UndoNext, IInv, TypeOK, ProcTypeOK
<1>3. /\ file'[s].status = "pending" /\ mem'[p] = View'
      /\ \A t \in LogSteps : t # s => file'[t] = file[t]
  <2>1. file[s] \in StepRecord /\ View.steps = file
    BY <1>1 DEF IInv, TypeOK, WorldTypeOK, View
  <2>2. CASE file[s].status = "pending"
    BY <1>1, <1>2, <2>1, <2>2 DEF UndoNext, View
  <2>3. CASE file[s].status # "pending"
    <3> DEFINE entry == [ file[s] EXCEPT !.status = "pending", !.digest = NoDigest,
                                         !.pid = Nobody ]
    <3>1. entry.status = "pending"
      BY <2>1 DEF StepRecord
    <3>2. Undone(View, s) = [steps |-> [file EXCEPT ![s] = entry], digest |-> yaml]
      BY <1>1, UndoneView
    <3>3. Save(p, Undone(View, s)) /\ UNCHANGED yaml
      BY <1>1, <2>1, <2>3 DEF UndoNext
    <3> HIDE DEF entry
    <3> QED BY <1>1, <3>1, <3>2, <3>3, WriteOne
  <2> QED BY <2>2, <2>3
<1>4. Unsettled \subseteq Unsettled' \union {s}
  <2> SUFFICES ASSUME NEW q \in Pids, pc[q] = "undo", NEW i \in 1..Len(todo[q]), todo[q][i] # s
               PROVE  todo[q][i] \in Unsettled' \/ todo[q][i] \notin LogSteps
    BY DEF Unsettled
  <2>1. q = p
    BY <1>2
  <2>2. i - 1 \in 1..Len(Tail(todo[p])) /\ Tail(todo[p])[i - 1] = todo[p][i]
    BY <1>1, <2>1 DEF Current
  <2> QED BY <1>1, <1>2, <2>1, <2>2 DEF Unsettled
<1>5. Alone' /\ AtWork'
  BY <1>1, <1>2 DEF Alone, AtWork, Live, InStep, IInv
<1>6. Synced'
  BY <1>1, <1>2, <1>3 DEF Synced, Live, InStep, IInv
<1>7. Owned'
  <2>1. ~InStep(p)
    BY <1>1 DEF InStep
  <2>2. file'[s].status # "running"
    BY <1>3
  <2>3. /\ clock' \in Nat /\ clock \in Nat /\ clock <= clock'
        /\ file \in [LogSteps -> StepRecord]
    BY <1>2 DEF IInv, TypeOK, WorldTypeOK
  <2>4. \A q \in Pids : born'[q] \in {0, born[q]}
    BY <1>2
  <2> HIDE DEF s
  <2> QED BY <1>1, <1>3, <2>1, <2>2, <2>3, <2>4, OwnedAfter
<1>8. Sound'
  <2>1. \A t \in ChainSteps : file'[t].status = "done" => t # s
    BY <1>3
  <2> QED BY <1>2, <1>3, <1>4, <2>1 DEF Sound, IInv, LogSteps
<1>9. Linked'
  <2>1. \A t \in LogSteps : file'[t].status = "done" => t # s
    BY <1>3
  <2>2. \A t \in ChainSteps : DependsOn(t) \subseteq LogSteps /\ t \in LogSteps
    BY Dependencies DEF LogSteps
  <2> QED BY <1>2, <1>3, <1>4, <2>1, <2>2 DEF Linked, IInv
<1> QED BY <1>5, <1>6, <1>7, <1>8, <1>9 DEF IInv

(* An edit with nobody at work, a deployment at any time.                  *)
LEMMA OutsideSound ==
    ASSUME IInv, TypeOK', Discipline, Edit \/ Upgrade
    PROVE  IInv'
<1>1. UNCHANGED <<file, made, clock, procVars>> /\ (Quiet \/ UNCHANGED yaml)
  BY DEF Discipline, Edit, Upgrade
<1>2. Unsettled' = Unsettled
  BY <1>1 DEF Unsettled, procVars
<1>3. Alone' /\ Owned' /\ Sound' /\ Linked'
  BY <1>1, <1>2 DEF Alone, Owned, Sound, Linked, Live, InStep, Current, procVars, IInv
<1>4. Synced' /\ AtWork'
  <2>1. CASE UNCHANGED yaml
    BY <1>1, <2>1 DEF Synced, AtWork, Live, InStep, Current, View, procVars, IInv
  <2>2. CASE Quiet
    <3>1. \A q \in Pids : born'[q] = 0 /\ pc'[q] = "off"
      BY <1>1, <2>2 DEF Quiet, Live, procVars, IInv, Alone
    <3> QED BY <3>1 DEF Synced, AtWork, Live, InStep
  <2> QED BY <1>1, <2>1, <2>2
<1> QED BY <1>3, <1>4 DEF IInv

(* IInv is inductive under the discipline.                                 *)
LEMMA StepSound ==
    ASSUME Discipline, IInv, [Next]_vars
    PROVE  IInv'
<1>0. TypeOK'
  BY TypeStep DEF IInv
<1>1. CASE UNCHANGED vars
  BY <1>0, <1>1 DEF vars, procVars, IInv, Alone, Synced, AtWork, Owned, Sound, Linked, Live,
                    InStep, Current, View, Unsettled
<1>2. CASE Edit \/ Upgrade
  BY <1>0, <1>2, OutsideSound
<1>3. ASSUME NEW p \in Pids, Launch(p) PROVE IInv'
  BY <1>0, <1>3, StartSound DEF Launch
<1>4. ASSUME NEW p \in Pids,
             Skip(p) \/ Refuse(p) \/ Gate(p) \/ Unmet(p) \/ TurnBack(p) \/ Finished(p)
               \/ OverBudget(p) \/ Die(p) \/ Remember(p) \/ (RemoveTree(p) /\ Exit(p))
      PROVE  IInv'
  <2>1. Live(p)
    BY <1>4 DEF Skip, Refuse, Gate, Unmet, TurnBack, Finished, OverBudget, Die, Remember, RemoveTree,
                ToRun, AtStep, IInv, Alone, Live
  <2>2. CASE /\ Leave(p) /\ UNCHANGED <<yaml, file, made, clock>>
             /\ pc[p] = "undo" => todo[p] = <<>>
    BY <1>0, <2>1, <2>2, LeaveSound
  <2>3. CASE /\ pc[p] = "ready" /\ job[p].cmd = "run" /\ NextStep(p)
             /\ UNCHANGED <<yaml, engine, file, made, clock, born, job, mem>>
    BY <1>0, <2>1, <2>3, PassSound
  <2>4. CASE Remember(p)
    <3>1. mem[p].steps = file
      BY <2>1 DEF IInv, Synced, View
    <3> QED BY <1>0, <2>1, <2>4, <3>1, LeaveSound DEF Remember
  <2> QED BY <1>4, <2>2, <2>3, <2>4 DEF Skip, Refuse, Gate, Unmet, TurnBack, Finished,
             OverBudget, Die, Exit, RemoveTree, ToRun, AtStep, Discipline
<1>5. ASSUME NEW p \in Pids, Advance(p) \/ Mishap(p) PROVE IInv'
  BY <1>0, <1>4, <1>5, BeginSound, ProduceSound, RecordSound, BreakSound, RemoveSound, UndoSound
     DEF Advance, Mishap
<1> QED BY <1>1, <1>2, <1>3, <1>5 DEF Next

(* What the invariant says to a reader of the state file.                  *)
LEMMA InvariantImplies ==
    ASSUME IInv PROVE DoneIsTrue /\ RunningIsOwned
<1>1. DoneIsTrue
  <2> SUFFICES ASSUME ~Purging, NEW s \in ChainSteps, Shown(s) = "done",
                      \A d \in DependsOn(s) : Shown(d) = "done"
               PROVE  UpToDate(s)
    BY DEF DoneIsTrue
  <2>1. Unsettled = {}
    BY DEF Purging, Unsettled
  <2>2. ASSUME NEW t \in LogSteps, Shown(t) = "done"
        PROVE  file[t].status = "done" /\ ~Stale(View, t, engine)
    BY <2>2 DEF Shown, Status, View, IInv, TypeOK, WorldTypeOK, StepRecord, Stored
  <2>3. s \in LogSteps /\ DependsOn(s) \subseteq LogSteps
    BY Dependencies DEF LogSteps
  <2>4. file[s].status = "done" /\ ~Stale(View, s, engine)
    BY <2>2, <2>3
  <2>5. /\ made[s].state = "whole"
        /\ file[s].digest \in Digests /\ made[s].cfg = file[s].digest
        /\ made[s].engine = file[s].engine /\ file[s].finished # 0
    BY <2>1, <2>4 DEF IInv, Sound
  <2>6. made[s].cfg = yaml
    BY <2>4, <2>5, Sentinels DEF Stale, View
  <2>7. s \in EngineSteps => made[s].engine = engine
    BY <2>4, <2>5 DEF Stale, View
  <2>8. ASSUME NEW d \in DependsOn(s) PROVE made[s].from[d] = made[d].gen
    <3>1. d \in LogSteps /\ file[d].status = "done"
      BY <2>2, <2>3
    <3>2. d \notin OutdatedBy(View, s)
      BY <2>4, <2>5 DEF Stale, View
    <3>3. file[d].finished <= file[s].finished
      BY <2>3, <3>1, <3>2 DEF OutdatedBy, View, IInv, TypeOK, WorldTypeOK, StepRecord
    <3> QED BY <2>1, <2>4, <3>1, <3>3 DEF IInv, Linked
  <2> QED BY <2>5, <2>6, <2>7, <2>8 DEF UpToDate
<1>2. RunningIsOwned
  BY DEF RunningIsOwned, Shown, Status, IsAlive, View, IInv, Owned, InStep
<1> QED BY <1>1, <1>2

-----------------------------------------------------------------------------
(* A step shown done, with its dependencies done, is up to date: for every *)
(* number of pids, configurations, engines and runs.                       *)
THEOREM DoneIsAlwaysTrue == ASSUME Discipline PROVE Spec => []DoneIsTrue
<1>1. IInv /\ [Next]_vars => IInv'
  BY StepSound
<1> QED BY <1>1, InitSound, InvariantImplies, PTL DEF Spec

(* A step shown running has its process inside it, pids being reused.      *)
THEOREM RunningIsAlwaysOwned == ASSUME Discipline PROVE Spec => []RunningIsOwned
<1>1. IInv /\ [Next]_vars => IInv'
  BY StepSound
<1> QED BY <1>1, InitSound, InvariantImplies, PTL DEF Spec

(* No chain is turned away by what an earlier one left behind.             *)
THEOREM ChainsAreNeverRefused == ASSUME Discipline PROVE Spec => NeverRefused
<1>1. IInv /\ [Next]_vars => IInv'
  BY StepSound
<1>2. ASSUME IInv, NEW p \in Pids, Refuse(p) PROVE FALSE
  <2>1. /\ pc[p] = "ready" /\ todo[p] # <<>> /\ Live(p) /\ mem[p] = View
        /\ Current(p) \in LogSteps
    BY <1>2, HeadAndTail DEF Refuse, AtStep, Current, IInv, Alone, Synced, TypeOK, ProcTypeOK
  <2>2. file[Current(p)].status = "running" /\ IsAlive(file[Current(p)], born)
    BY <1>2, <2>1 DEF Refuse, MemStatus, Status, View, IInv, TypeOK, WorldTypeOK, StepRecord,
                      Stored
  <2>3. PICK q \in Pids : q = file[Current(p)].pid /\ InStep(q)
    <3> DEFINE s == Current(p)
    <3>1. s \in LogSteps /\ file[s].status = "running" /\ born[file[s].pid] = file[s].born
      BY <2>1, <2>2 DEF IsAlive
    <3> HIDE DEF s
    <3>2. file[s].pid \in Pids /\ InStep(file[s].pid)
      BY <1>2, <3>1 DEF IInv, Owned
    <3> QED BY <3>2 DEF s
  <2>4. q # p => pc[q] = "off"
    BY <1>2, <2>1, Lone
  <2> QED BY <2>1, <2>3, <2>4 DEF InStep
<1>3. IInv /\ [Next]_vars => [\A p \in Pids : ~Refuse(p)]_vars
  BY <1>2
<1> QED BY <1>1, <1>3, InitSound, PTL DEF Spec, NeverRefused

-----------------------------------------------------------------------------
(* The state file implements the Ledger.                                   *)

(* The state of the Ledger that the commands are in.                       *)
Entries == [s \in LogSteps |-> [status |-> file[s].status, owner |-> file[s].pid]]
Places  == [p \in Pids |-> At(p)]
Seen    == <<Entries, Places>>

-----------------------------------------------------------------------------
(* Whoever is inside a step has it recorded: there is no other command.    *)
LEMMA PlaceIs ==
    ASSUME IInv
    PROVE  \A p \in Pids : At(p) = IF InStep(p) THEN Current(p) ELSE "nowhere"
BY DEF At, InStep, IInv, Synced, Alone

(* Being inside a step is being somewhere.                                 *)
LEMMA StepIsSomewhere ==
    ASSUME IInv, NEW p \in Pids, InStep(p)
    PROVE  Current(p) \in LogSteps /\ At(p) = Current(p) /\ At(p) # "nowhere"
<1>1. Current(p) \in LogSteps
  BY HeadAndTail DEF IInv, AtWork, TypeOK, ProcTypeOK, Current
<1>2. "nowhere" \notin LogSteps
  BY DEF LogSteps, ChainSteps
<1> QED
  BY <1>1, <1>2, PlaceIs

(* A step of one process that stays outside every step.                    *)
LEMMA OutsideStays ==
    ASSUME IInv, IInv', NEW p \in Pids, ~InStep(p), ~InStep(p)', UNCHANGED file,
           \A q \in Pids \ {p} : UNCHANGED <<pc[q], todo[q]>>
    PROVE  UNCHANGED Seen
<1>1. \A q \in Pids : At(q)' = IF InStep(q)' THEN Current(q)' ELSE "nowhere"
  BY DEF At, InStep, IInv, Synced, Alone
<1>2. \A q \in Pids : At(q)' = At(q)
  BY <1>1, PlaceIs DEF InStep, Current
<1> QED
  BY <1>2 DEF Seen, Entries, Places

LEMMA BeginEnters ==
    ASSUME IInv, IInv', Discipline, NEW p \in Pids, Begin(p)
    PROVE  \E s \in LogSteps : Promise!Enter(p, s)
<1>1. /\ Live(p) /\ pc[p] = "ready" /\ todo[p] # <<>>
      /\ job[p].cmd \in Bracketed
  BY DEF Begin, MayBegin, ToRun, AtStep, Bracketed, IInv, Alone, Synced
<1>2. PICK s \in LogSteps : s = Current(p)
  BY <1>1, HeadAndTail DEF IInv, TypeOK, ProcTypeOK, Current
<1>3. /\ pc' = [pc EXCEPT ![p] = "work"] /\ UNCHANGED <<job, todo>>
      /\ file' = Begun(mem[p], s, p, born[p], job[p].engine).steps
  BY <1>1, <1>2 DEF Begin, Save
<1>4. \A q \in Pids : At(q) = "nowhere"
  BY <1>1, Lone DEF At
<1>5. At(p)' = s /\ \A q \in Pids \ {p} : At(q)' = At(q)
  BY <1>1, <1>2, <1>3 DEF At, Current, IInv, TypeOK, ProcTypeOK
<1>6. /\ file'[s].status = "running" /\ file'[s].pid = p
      /\ \A t \in LogSteps \ {s} : file'[t] = file[t]
  BY <1>1, <1>2, <1>3 DEF Begun, WithRecord, View, IInv, Synced, TypeOK, WorldTypeOK
<1>7. Entries' = [Entries EXCEPT ![s] = [status |-> "running", owner |-> p]]
  BY <1>2, <1>6 DEF Entries
<1>8. Places' = [Places EXCEPT ![p] = s]
  BY <1>5 DEF Places
<1>9. "nowhere" \notin LogSteps
  BY DEF LogSteps, ChainSteps
<1> QED
  BY <1>2, <1>4, <1>7, <1>8, <1>9 DEF Promise!Enter, Promise!Entry, Entries, Places

(* A step that ends, one way or another, with its record written.          *)
LEMMA EndSettles ==
    ASSUME IInv, IInv', NEW p \in Pids, InStep(p), ~InStep(p)',
           \A q \in Pids \ {p} : UNCHANGED <<pc[q], todo[q]>>,
           NEW outcome \in {"done", "failed", "pending"},
           file'[Current(p)].status = outcome, file'[Current(p)].pid = Nobody,
           \A t \in LogSteps \ {Current(p)} : file'[t] = file[t]
    PROVE  Promise!Settle(p)
<1> DEFINE s == Current(p)
<1>1. s \in LogSteps /\ At(p) = s /\ At(p) # "nowhere"
  BY StepIsSomewhere
<1>2. \A q \in Pids : At(q)' = IF InStep(q)' THEN Current(q)' ELSE "nowhere"
  BY DEF At, InStep, IInv, Synced, Alone
<1>3. At(p)' = "nowhere" /\ \A q \in Pids \ {p} : At(q)' = At(q)
  BY <1>2, PlaceIs DEF InStep, Current
<1>4. Entries' = [Entries EXCEPT ![s] = [status |-> outcome, owner |-> Nobody]]
  BY <1>1 DEF Entries
<1>5. Places' = [Places EXCEPT ![p] = "nowhere"]
  BY <1>3 DEF Places
<1> QED
  BY <1>1, <1>4, <1>5 DEF Promise!Settle, Promise!Entry, Entries, Places

LEMMA RecordSettles ==
    ASSUME IInv, IInv', Discipline, NEW p \in Pids, Record(p)
    PROVE  Promise!Settle(p)
<1> DEFINE s == Current(p)
<1>1. /\ Live(p) /\ pc[p] = "record" /\ InStep(p) /\ mem[p] = View
      /\ job[p].cmd \in Bracketed /\ s \in LogSteps
  BY StepIsSomewhere DEF Record, InStep, IInv, Alone, Synced
<1>2. NextStep(p) /\ file' = Outcome(p).steps
  BY <1>1 DEF Record, Save
<1>3. pc'[p] = "ready" /\ \A q \in Pids \ {p} : UNCHANGED <<pc[q], todo[q]>>
  BY <1>2 DEF NextStep, IInv, TypeOK, ProcTypeOK
<1>4. /\ file'[s].status \in {"done", "pending"} /\ file'[s].pid = Nobody
      /\ \A t \in LogSteps \ {s} : file'[t] = file[t]
  <2>1. CASE job[p].cmd = "unpublish"
    <3>1. Outcome(p) = Undone(mem[p], s)
      BY <2>1 DEF Outcome
    <3> QED
      BY <1>1, <1>2, <3>1
      DEF Undone, WithRecord, View, IInv, TypeOK, WorldTypeOK, StepRecord
  <2>2. CASE job[p].cmd # "unpublish"
    <3>1. PICK d : Outcome(p) = Completed(mem[p], s, clock + 1, d)
      BY <1>1, <2>2 DEF Outcome, Bracketed
    <3> QED
      BY <1>1, <1>2, <3>1
      DEF Completed, WithRecord, View, IInv, TypeOK, WorldTypeOK, StepRecord
  <2> QED
    BY <2>1, <2>2
<1> QED
  BY <1>1, <1>3, <1>4, EndSettles DEF InStep

LEMMA BreakSettles ==
    ASSUME IInv, IInv', Discipline, NEW p \in Pids, Break(p)
    PROVE  Promise!Settle(p)
<1> DEFINE s == Current(p)
<1>1. /\ Live(p) /\ pc[p] = "work" /\ InStep(p) /\ mem[p] = View
      /\ job[p].cmd \in Bracketed /\ s \in LogSteps
  BY StepIsSomewhere DEF Break, InStep, IInv, Alone, Synced
<1>2. /\ NextStep(p) \/ Leave(p)
      /\ file' = Failed(mem[p], s, clock + 1).steps
  BY <1>1 DEF Break, Save
<1>3. pc'[p] \in {"ready", "off"} /\ \A q \in Pids \ {p} : UNCHANGED <<pc[q], todo[q]>>
  BY <1>2 DEF NextStep, Leave, IInv, TypeOK, ProcTypeOK
<1>4. /\ file'[s].status = "failed" /\ file'[s].pid = Nobody
      /\ \A t \in LogSteps \ {s} : file'[t] = file[t]
  BY <1>1, <1>2 DEF Failed, WithRecord, View, IInv, TypeOK, WorldTypeOK, StepRecord
<1> QED
  BY <1>1, <1>3, <1>4, EndSettles DEF InStep

LEMMA DieVanishes ==
    ASSUME IInv, IInv', NEW p \in Pids, InStep(p), Leave(p), UNCHANGED file
    PROVE  Promise!Vanish(p)
<1>1. At(p) # "nowhere"
  BY StepIsSomewhere
<1>2. pc'[p] = "off" /\ \A q \in Pids \ {p} : UNCHANGED <<pc[q], todo[q]>>
  BY DEF Leave, IInv, TypeOK, ProcTypeOK
<1>3. \A q \in Pids : At(q)' = IF InStep(q)' THEN Current(q)' ELSE "nowhere"
  BY DEF At, InStep, IInv, Synced, Alone
<1>4. At(p)' = "nowhere" /\ \A q \in Pids \ {p} : At(q)' = At(q)
  BY <1>2, <1>3, PlaceIs DEF InStep, Current
<1>5. Places' = [Places EXCEPT ![p] = "nowhere"] /\ Entries' = Entries
  BY <1>4 DEF Places, Entries
<1> QED
  BY <1>1, <1>5 DEF Promise!Vanish, Places, Entries

(* A purge puts one step back, or leaves it as it is.                      *)
LEMMA UndoResets ==
    ASSUME IInv, IInv', Discipline, NEW p \in Pids, UndoNext(p)
    PROVE  UNCHANGED Seen \/ \E s \in LogSteps : Promise!Reset(s)
<1>0. PICK s \in LogSteps : s = Current(p)
  BY HeadAndTail DEF UndoNext, IInv, Alone, Synced, TypeOK, ProcTypeOK, Current
<1>1. /\ Live(p) /\ pc[p] = "undo" /\ mem[p] = View
      /\ UNCHANGED <<pc, job>>
  BY DEF UndoNext, IInv, Alone, Synced, TypeOK, ProcTypeOK, Current
<1>2. \A q \in Pids : At(q) = "nowhere" /\ At(q)' = "nowhere"
  BY <1>1, Lone DEF At
<1>3. Places' = Places
  BY <1>2 DEF Places
<1>4. CASE UNCHANGED file
  BY <1>3, <1>4 DEF Seen, Entries
<1>5. CASE file' = Undone(mem[p], s).steps
  <2>1. /\ file'[s].status = "pending" /\ file'[s].pid = Nobody
        /\ \A t \in LogSteps \ {s} : file'[t] = file[t]
    BY <1>1, <1>5 DEF Undone, WithRecord, View, IInv, TypeOK, WorldTypeOK, StepRecord
  <2>2. Entries' = [Entries EXCEPT ![s] = [status |-> "pending", owner |-> Nobody]]
    BY <1>1, <2>1 DEF Entries
  <2>3. "nowhere" \notin LogSteps
    BY DEF LogSteps, ChainSteps
  <2>4. Promise!Reset(s)
    BY <1>2, <1>3, <2>2, <2>3 DEF Promise!Reset, Promise!Entry, Entries, Places
  <2> QED
    BY <2>4
<1> QED
  BY <1>0, <1>4, <1>5 DEF UndoNext, Save

(* The steps the Ledger does not see.                                      *)
LEMMA Unseen ==
    ASSUME IInv, IInv', Discipline, NEW p \in Pids,
           \/ Launch(p) \/ Skip(p) \/ Refuse(p) \/ Gate(p) \/ Unmet(p) \/ TurnBack(p)
           \/ Finished(p) \/ Remember(p) \/ RemoveTree(p) \/ OverBudget(p)
    PROVE  UNCHANGED Seen
<1>1. ~InStep(p)
  BY DEF Launch, Start, Skip, Refuse, Gate, Unmet, TurnBack, Finished, Remember, RemoveTree,
         OverBudget, ToRun, AtStep, InStep, Live, IInv, Alone
<1>2. pc' = [pc EXCEPT ![p] = "ready"] \/ pc' = [pc EXCEPT ![p] = "off"]
        \/ pc' = [pc EXCEPT ![p] = "undo"]
  BY DEF Launch, Start, Skip, Refuse, Gate, Unmet, TurnBack, Finished, Remember, RemoveTree,
         OverBudget, NextStep, Exit, Leave
<1>3. ~InStep(p)' /\ \A q \in Pids \ {p} : UNCHANGED pc[q]
  BY <1>2 DEF InStep, IInv, TypeOK, ProcTypeOK
<1>4. \A q \in Pids \ {p} : UNCHANGED todo[q]
  BY DEF Launch, Start, Skip, Refuse, Gate, Unmet, TurnBack, Finished, Remember, RemoveTree,
         OverBudget, NextStep, Exit, Leave, IInv, TypeOK, ProcTypeOK
<1>5. UNCHANGED file
  <2>1. CASE Remember(p)
    BY <2>1 DEF Remember, IInv, Alone, Synced, View
  <2> QED
    BY <2>1 DEF Launch, Start, Skip, Refuse, Gate, Unmet, TurnBack, Finished, RemoveTree,
                OverBudget, Exit
<1> QED
  BY <1>1, <1>3, <1>4, <1>5, OutsideStays

(* Every step of the commands is a step of the Ledger, or none.            *)
LEMMA StepMaps ==
    ASSUME IInv, IInv', Discipline, [Next]_vars
    PROVE  [Promise!Next]_Seen
<1>1. CASE UNCHANGED vars \/ Edit \/ Upgrade
  BY <1>1 DEF vars, procVars, Edit, Upgrade, Seen, Entries, Places, At, Current
<1>2. ASSUME NEW p \in Pids, Begin(p) PROVE Promise!Next
  BY <1>2, BeginEnters DEF Promise!Next
<1>3. ASSUME NEW p \in Pids, Record(p) \/ Break(p) PROVE Promise!Next
  BY <1>3, RecordSettles, BreakSettles DEF Promise!Next
<1>4. ASSUME NEW p \in Pids, Die(p) PROVE [Promise!Next]_Seen
  <2>1. Leave(p) /\ UNCHANGED file
    BY <1>4 DEF Die
  <2>2. CASE InStep(p)
    BY <2>1, <2>2, DieVanishes DEF Promise!Next
  <2>3. CASE ~InStep(p)
    <3>1. ~InStep(p)' /\ \A q \in Pids \ {p} : UNCHANGED <<pc[q], todo[q]>>
      BY <2>1 DEF Leave, InStep, IInv, TypeOK, ProcTypeOK
    <3> QED
      BY <2>1, <2>3, <3>1, OutsideStays
  <2> QED
    BY <2>2, <2>3
<1>5. ASSUME NEW p \in Pids, UndoNext(p) PROVE [Promise!Next]_Seen
  BY <1>5, UndoResets DEF Promise!Next
<1>6. ASSUME NEW p \in Pids, Produce(p) PROVE UNCHANGED Seen
  <2>1. /\ UNCHANGED <<file, job, todo>> /\ pc[p] = "work"
        /\ pc' = [pc EXCEPT ![p] = "record"]
    BY <1>6 DEF Produce
  <2>2. \A q \in Pids : At(q)' = At(q)
    BY <2>1 DEF At, Current, IInv, TypeOK, ProcTypeOK
  <2> QED
    BY <2>1, <2>2 DEF Seen, Entries, Places
<1>7. ASSUME NEW p \in Pids, Launch(p) \/ Advance(p) \/ Mishap(p)
      PROVE  [Promise!Next]_Seen
  BY <1>2, <1>3, <1>4, <1>5, <1>6, <1>7, Unseen DEF Advance, Mishap
<1> QED
  BY <1>1, <1>7 DEF Next

(* A new city is a new ledger.                                             *)
LEMMA InitMaps == Init => Promise!Init
BY DEF Init, Promise!Init, Unrun, At

(* The state file keeps the ledger's promise whatever fails, is killed or  *)
(* is purged, and whoever is given a dead process's pid.                   *)
THEOREM LedgerKept == ASSUME Discipline PROVE Spec => KeepsLedger
<1>1. IInv /\ [Next]_vars => IInv'
  BY StepSound
<1>2. IInv /\ IInv' /\ [Next]_vars => [Promise!Next]_Seen
  BY StepMaps
<1> QED
  BY <1>1, <1>2, InitSound, InitMaps, PTL DEF Spec, KeepsLedger, Promise!Spec, Seen, Entries, Places

=============================================================================
