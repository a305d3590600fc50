----------------------------- MODULE RunHistory -----------------------------
(***************************************************************************)
(* The runs directory of a city: a log per run filed under its step, the   *)
(* old flat layout moved as it is met, the oldest logs pruned, latest/     *)
(* pointing at the newest, and history.jsonl, one line for every run.      *)
(* Commands work there at the same time: each reads the state file once    *)
(* and saves its own copy of it whole, `logs` tidies up when somebody      *)
(* reads, and any of them may die between two writes.                      *)
(*                                                                         *)
(* Runs are numbered in the order of the stamps that name their logs, no   *)
(* two of one second. The .jsonl beside a log goes where the log goes.     *)
(***************************************************************************)
EXTENDS Integers, Sequences, FiniteSetsExt, SequencesExt

CONSTANTS
    Logged,       \* steps that have logs
    Undoable,     \* those a purge puts back to pending
    KeepRuns,     \* logs kept per step
    MaxRuns,      \* bound: runs
    OldRuns,      \* <<step, run>> logs of the flat layout
    Clerks,       \* commands that may be at work at one time
    MaxCommands   \* bound: commands

ASSUME HistoryAssumption ==
    /\ KeepRuns \in Nat \ {0} /\ MaxRuns \in Nat
    /\ IsFiniteSet(Logged) /\ Undoable \subseteq Logged
    /\ OldRuns \subseteq Logged \X (1..MaxRuns)
    /\ \A o, p \in OldRuns : o[2] = p[2] => o = p

VARIABLES
    entry,        \* state.json, per step: [status, run, place]
    shelf,        \* <<step, run>> logs in the directory of their step
    flat,         \* logs still in the old layout
    latest,       \* per step, the run latest/ points at; 0 for none
    history,      \* [exists, lines], a line is [step, run]
    clerk,        \* per command: where it is, and its copy of the state
    ran,          \* runs so far, the old ones included
    commands,     \* commands so far
    opened,       \* history variable: every log there ever was
    mishaps       \* history variable: what leaves a record astray

historyVars == <<entry, shelf, flat, latest, history, clerk, ran, commands, opened, mishaps>>

-----------------------------------------------------------------------------
Pending == [status |-> "pending", run |-> 0, place |-> "none"]
LineOf(step, e) == [step |-> step, run |-> e.run]

(* list and moved are _migrate_flat's; behind, of a copy somebody saved    *)
(* over since it was read; late, of a look at the history that somebody    *)
(* wrote to since.                                                         *)
Away ==
    [at |-> "away", step |-> "none", run |-> 0, copy |-> [s \in Logged |-> Pending],
     list |-> {}, moved |-> {}, behind |-> FALSE, late |-> FALSE]

Becomes(p, c) == clerk' = [clerk EXCEPT ![p] = c]

(* save: p writes its whole copy over the state file.                      *)
Saves(p, c) ==
    /\ entry' = c.copy
    /\ clerk' = [q \in Clerks |->
                    IF q = p THEN [c EXCEPT !.behind = FALSE]
                    ELSE [clerk[q] EXCEPT !.behind = clerk[q].at # "away"]]
    /\ mishaps' = mishaps \cup IF clerk[p].behind THEN {"stale copy"} ELSE {}

(* p writes to the history, which others looked for in vain.               *)
Seeding(q) == clerk[q].at \in {"seeding", "writing"}
Writes(p, c, h) ==
    /\ history' = h
    /\ clerk' = [q \in Clerks |-> IF q = p THEN c
                                  ELSE [clerk[q] EXCEPT !.late = @ \/ Seeding(q)]]

(* The records that name a moved log follow it.                            *)
FollowNothing(copy, moved) == copy
Follow(copy, moved) ==
    [s \in Logged |-> IF <<s, copy[s].run>> \in moved THEN [copy[s] EXCEPT !.place = "shelf"]
                     ELSE copy[s]]

(* Lines of runs, none of one stamp, by their stamp.                       *)
InOrder(lines) ==
    [i \in 1..Cardinality(lines) |->
        CHOOSE line \in lines : Cardinality({l \in lines : l.run < line.run}) = i - 1]

(* A history begins with what the copy remembers.                          *)
Seeds(copy) == InOrder({LineOf(s, copy[s]) : s \in {t \in Logged : copy[t].run > 0}})
UnseededAnyway(h, copy) == \E s \in Logged : copy[s].run > 0
Unseeded(h, copy) == ~h.exists /\ \E s \in Logged : copy[s].run > 0

RunsOf(logs, s) == {n \in 1..MaxRuns : <<s, n>> \in logs}
RetainOldest(runs) == {n \in runs : Cardinality({m \in runs : m < n}) < KeepRuns}
Retain(runs) == {n \in runs : Cardinality({m \in runs : m > n}) < KeepRuns}

Appended(h, line) == [exists |-> TRUE, lines |-> Append(h.lines, line)]

-----------------------------------------------------------------------------
HistoryInit ==
    /\ \E old \in SUBSET OldRuns :
         /\ flat = old /\ opened = old
         /\ entry = [s \in Logged |->
                LET theirs == {o \in old : o[1] = s}
                IN IF theirs = {} THEN Pending
                   ELSE [status |-> "ended", run |-> Max({o[2] : o \in theirs}), place |-> "flat"]]
         /\ ran = Max({o[2] : o \in OldRuns} \cup {0})
    /\ shelf = {} /\ latest = [s \in Logged |-> 0]
    /\ history = [exists |-> FALSE, lines |-> <<>>]
    /\ clerk = [p \in Clerks |-> Away] /\ commands = 0 /\ mishaps = {}

(* RunState.open: the state file is read once.                             *)
ReadState(p) ==
    /\ clerk[p].at = "away" /\ commands < MaxCommands
    /\ commands' = commands + 1
    /\ Becomes(p, [Away EXCEPT !.at = "ready", !.copy = entry])
    /\ UNCHANGED <<entry, shelf, flat, latest, history, ran, opened, mishaps>>

(* paths_for of a step, or refresh_latest of none: the layout is tidied    *)
(* first, when a look at the directory finds any old logs.                 *)
ListFlat(p, s) ==
    /\ clerk[p].at = "ready"
    /\ Becomes(p, [clerk[p] EXCEPT !.at = IF flat = {} THEN "looking" ELSE "moving",
                                  !.step = s, !.list = flat])
    /\ UNCHANGED <<entry, shelf, flat, latest, history, ran, opened, mishaps, commands>>

(* One is renamed after the other; in which order changes nothing here.    *)
MoveLog(p) ==
    /\ clerk[p].at = "moving"
    /\ \E o \in clerk[p].list \cap flat :
         /\ flat' = flat \ {o} /\ shelf' = shelf \cup {o}
         /\ Becomes(p, [clerk[p] EXCEPT !.list = @ \ {o}, !.moved = @ \cup {o}])
    /\ UNCHANGED <<entry, latest, history, ran, opened, mishaps, commands>>

(* It ends, by itself or not. What it moved and did not save is moved.     *)
GoesAway(p) ==
    /\ Becomes(p, Away)
    /\ mishaps' = mishaps \cup IF clerk[p].moved = {} THEN {} ELSE {"half moved"}
    /\ UNCHANGED <<entry, shelf, flat, latest, history, ran, opened, commands>>

(* Somebody else moved the next one: FileNotFoundError, caught by nobody.  *)
MissLog(p) ==
    /\ clerk[p].at = "moving" /\ clerk[p].list \ flat # {}
    /\ GoesAway(p)

SaveMoved(p) ==
    /\ clerk[p].at = "moving" /\ clerk[p].list = {}
    /\ Saves(p, [clerk[p] EXCEPT !.at = "looking", !.moved = {},
                                !.copy = Follow(clerk[p].copy, clerk[p].moved)])
    /\ UNCHANGED <<shelf, flat, latest, history, ran, opened, commands>>

(* _seed_history: exists(), then open("w"), then the buffer.               *)
LookForHistory(p) ==
    /\ clerk[p].at = "looking" /\ Unseeded(history, clerk[p].copy)
    /\ Becomes(p, [clerk[p] EXCEPT !.at = "seeding"])
    /\ UNCHANGED <<entry, shelf, flat, latest, history, ran, opened, mishaps, commands>>

OpenHistory(p) ==
    /\ clerk[p].at = "seeding"
    /\ Writes(p, [clerk[p] EXCEPT !.at = "writing"], [exists |-> TRUE, lines |-> <<>>])
    /\ UNCHANGED <<entry, shelf, flat, latest, ran, opened, mishaps, commands>>

(* From the beginning of the file, over what may have been appended there. *)
SeedHistory(p) ==
    /\ clerk[p].at = "writing"
    /\ LET seeds == Seeds(clerk[p].copy)
       IN Writes(p, [clerk[p] EXCEPT !.at = "looking", !.late = FALSE],
                 [exists |-> TRUE,
                  lines |-> seeds \o SubSeq(history.lines, Len(seeds) + 1, Len(history.lines))])
    /\ UNCHANGED <<entry, shelf, flat, latest, ran, opened, mishaps, commands>>

(* A history there is stays there, so that it may be found at any later    *)
(* time, and what follows done at once.                                    *)
Tidied(p) == clerk[p].at = "looking" /\ ~Unseeded(history, clerk[p].copy)

(* `logs` ends with a link for every step that has a log.                  *)
RefreshLinks(p) ==
    /\ Tidied(p) /\ clerk[p].step = "none"
    /\ latest' = [s \in Logged |-> IF RunsOf(shelf, s) = {} THEN latest[s] ELSE Max(RunsOf(shelf, s))]
    /\ Becomes(p, Away)
    /\ UNCHANGED <<entry, shelf, flat, history, ran, opened, mishaps, commands>>

(* The next log is named and pointed at; the file is not there yet.        *)
NameLog(p) ==
    /\ Tidied(p) /\ clerk[p].step # "none" /\ ran < MaxRuns
    /\ ran' = ran + 1
    /\ latest' = [latest EXCEPT ![clerk[p].step] = ran + 1]
    /\ Becomes(p, [clerk[p] EXCEPT !.at = "named", !.run = ran + 1])
    /\ UNCHANGED <<entry, shelf, flat, history, opened, mishaps, commands>>

Prune(p) ==
    /\ clerk[p].at = "named"
    /\ LET kept == Retain(RunsOf(shelf, clerk[p].step))
       IN shelf' = {o \in shelf : o[1] = clerk[p].step => o[2] \in kept}
    /\ Becomes(p, [clerk[p] EXCEPT !.at = "pruned"])
    /\ UNCHANGED <<entry, flat, latest, history, ran, opened, mishaps, commands>>

BeginRun(p) ==
    /\ clerk[p].at = "pruned"
    /\ Saves(p, [clerk[p] EXCEPT !.at = "begun", !.copy[clerk[p].step] =
                     [status |-> "running", run |-> clerk[p].run, place |-> "shelf"]])
    /\ UNCHANGED <<shelf, flat, latest, history, ran, opened, commands>>

OpenLog(p) ==
    /\ clerk[p].at = "begun"
    /\ shelf' = shelf \cup {<<clerk[p].step, clerk[p].run>>}
    /\ opened' = opened \cup {<<clerk[p].step, clerk[p].run>>}
    /\ Becomes(p, [clerk[p] EXCEPT !.at = "logging"])
    /\ UNCHANGED <<entry, flat, latest, history, ran, mishaps, commands>>

(* complete, fail, or undo at the end of an unpublish: the record is saved *)
(* first and the line of history appended after it.                        *)
EndRun(p) ==
    /\ clerk[p].at = "logging"
    /\ \E status \in {"ended"} \cup IF clerk[p].step \in Undoable THEN {} ELSE {"pending"} :
         Saves(p, [clerk[p] EXCEPT !.at = "saved", !.copy[clerk[p].step].status = status])
    /\ UNCHANGED <<shelf, flat, latest, history, ran, opened, commands>>

(* execute_purge: the steps whose product is gone are undone.              *)
PurgeUndoes(p) ==
    /\ clerk[p].at = "ready"
    /\ \E s \in Undoable :
         /\ clerk[p].copy[s].status # "pending"
         /\ Saves(p, [clerk[p] EXCEPT !.at = "saved", !.step = s, !.copy[s].status = "pending"])
    /\ UNCHANGED <<shelf, flat, latest, history, ran, opened, commands>>

(* What is remembered is a run, whatever became of it.                     *)
RememberRun(p) ==
    /\ clerk[p].at = "saved"
    /\ Writes(p, [clerk[p] EXCEPT !.at = "ready", !.step = "none", !.run = 0],
              Appended(history, LineOf(clerk[p].step, clerk[p].copy[clerk[p].step])))
    /\ UNCHANGED <<entry, shelf, flat, latest, ran, opened, mishaps, commands>>

ClerkEnds(p) == clerk[p].at # "away" /\ GoesAway(p)

HistoryNext ==
    \E p \in Clerks :
        \/ ReadState(p) \/ \E s \in Logged \cup {"none"} : ListFlat(p, s)
        \/ MoveLog(p) \/ MissLog(p) \/ SaveMoved(p)
        \/ LookForHistory(p) \/ OpenHistory(p) \/ SeedHistory(p)
        \/ RefreshLinks(p) \/ NameLog(p) \/ Prune(p) \/ BeginRun(p)
        \/ OpenLog(p) \/ EndRun(p) \/ PurgeUndoes(p) \/ RememberRun(p) \/ ClerkEnds(p)

HistorySpec == HistoryInit /\ [][HistoryNext]_historyVars

-----------------------------------------------------------------------------
(* runstate.py:518: append-only, and never rewritten.  Whoever reads, runs *)
(* or dies, the lines of the history stay as they were, but for those      *)
(* written while another command, which had looked for a history and found *)
(* none, was about to begin one: exists() is asked before open("w").       *)
HistoryGrows ==
    [][\/ /\ history.exists => history'.exists
          /\ IsPrefix(history.lines, history'.lines)
       \/ \E p \in Clerks : clerk[p].late /\ clerk'[p] # clerk[p]]_historyVars

(* runstate.py:419: the state file points at the logs by name.  The log a  *)
(* record names, once it was opened, is where the record says, or in the   *)
(* hands of a command that is moving the old layout and has yet to save:   *)
(* as long as no command ended between a move and its save, and none saved *)
(* a copy that another had saved over.                                     *)
RecordsNameLogs ==
    \A s \in Logged :
        /\ entry[s].place = "flat" =>
             <<s, entry[s].run>> \in flat \cup UNION {clerk[p].moved : p \in Clerks}
        /\ (entry[s].place = "shelf" /\ <<s, entry[s].run>> \in opened)
             => <<s, entry[s].run>> \in shelf

(* Whatever happened, the newest logs of each step are on the disk, under  *)
(* the step or in the old layout, for newest_run to find.                  *)
NewestAreKept ==
    \A s \in Logged : Retain(RunsOf(opened, s)) \subseteq RunsOf(shelf \cup flat, s)

NamedLogIsThere == NewestAreKept /\ (mishaps = {} => RecordsNameLogs)
=============================================================================
