------------------------------- MODULE Budget --------------------------------
(***************************************************************************)
(* What the machine can give a build.  The authority is the cgroup, read   *)
(* from the process's own directory upwards until a file answers, and the  *)
(* kernel's idea of what is free; a fifth of what both allow is kept back. *)
(***************************************************************************)
EXTENDS Integers, Sequences, FiniteSetsExt

CONSTANTS
    NoFile,      \* a directory without the file
    NoLimit,     \* a file that says "max"
    Unreadable   \* an amount nobody can tell

ASSUME BudgetAssumption ==
    NoFile # NoLimit /\ \A word \in {NoFile, NoLimit, Unreadable} : word \notin Nat

(* A machine: memory.max from the leaf to the root of the cgroups, where   *)
(* a directory may lack the file or say "max"; what the cgroup uses, and   *)
(* how much of that is page cache; MemAvailable.                           *)
Machines(limits, amounts) ==
    [max : limits, used : amounts, cache : amounts, free : amounts \cup {Unreadable}]

(* _read_cgroup: the first file on the way up.                             *)
ReadMax(machine) ==
    LET readable == {i \in DOMAIN machine.max : machine.max[i] # NoFile}
    IN  IF readable = {} THEN NoLimit ELSE machine.max[Min(readable)]

AtLeastZero(n) == IF n < 0 THEN 0 ELSE n

(* The page cache is reclaimable, so it does not count as used.            *)
CgroupAvailable(machine) ==
    IF ReadMax(machine) = NoLimit THEN Unreadable
    ELSE AtLeastZero(ReadMax(machine) - AtLeastZero(machine.used - machine.cache))

Available(machine) ==
    LET readable == {CgroupAvailable(machine), machine.free} \ {Unreadable}
    IN  IF readable = {} THEN Unreadable ELSE Min(readable)

(* What may be planned on; only asked when something was readable.         *)
Plannable(machine) == (Available(machine) * 8) \div 10

(* Workers counted against all there is.                                  *)
WorkersThatFitAll(machine, each) == Available(machine) \div each

WorkersThatFit(machine, each) == Plannable(machine) \div each

(* check_worker_budget: a machine that says nothing refuses nothing.       *)
BudgetAllows(machine, workers, each) ==
    \/ Available(machine) = Unreadable
    \/ workers * each <= Plannable(machine)

(* What the refusal says to use instead: the most that fits, 0 for none.   *)
Advice(machine, each) == WorkersThatFit(machine, each)
=============================================================================
