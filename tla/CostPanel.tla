----------------------------- MODULE CostPanel ------------------------------
(***************************************************************************)
(* The price of a city, computed in a thread and painted on the event      *)
(* loop.  Asking again cancels the threads before, but a thread cannot be  *)
(* interrupted: it asks whether it was cancelled once, when it has its     *)
(* figures, and then hands them to the loop.                               *)
(***************************************************************************)
EXTENDS Integers, FiniteSets

CONSTANTS
    Configs,      \* what may be priced
    MaxAsked,     \* bound: times a price is asked for
    Message       \* the text of a panel with nothing to price

VARIABLES
    wanted,       \* what the panel was last asked to show: a config, Message
    threads,      \* [n, of, at, cancelled]
    painted,      \* the figures on screen, and Message
    dimmed,       \* they are being computed again
    asked,        \* times asked so far
    answered      \* the latest of them whose figures were painted

panelVars == <<wanted, threads, painted, dimmed, asked, answered>>

-----------------------------------------------------------------------------
PanelInit ==
    /\ wanted = Message /\ threads = {} /\ painted = Message /\ dimmed = FALSE
    /\ asked = 0 /\ answered = 0

Cancelled(ts) == {[t EXCEPT !.cancelled = TRUE] : t \in ts}

ShowCancellingItself ==
    /\ asked < MaxAsked /\ asked' = asked + 1
    /\ \E c \in Configs :
         /\ wanted' = c
         /\ threads' = Cancelled(threads \cup
                {[n |-> asked + 1, of |-> c, at |-> "pricing", cancelled |-> FALSE]})
    /\ dimmed' = TRUE /\ UNCHANGED <<painted, answered>>

(* show: the old figures stay, dimmed; the threads before are cancelled.   *)
Show ==
    /\ asked < MaxAsked /\ asked' = asked + 1
    /\ \E c \in Configs :
         /\ wanted' = c
         /\ threads' = Cancelled(threads) \cup
                {[n |-> asked + 1, of |-> c, at |-> "pricing", cancelled |-> FALSE]}
    /\ dimmed' = TRUE /\ UNCHANGED <<painted, answered>>

(* clear: nothing to price, and what was on its way is abandoned.          *)
ClearPanel ==
    /\ asked < MaxAsked /\ asked' = asked + 1
    /\ wanted' = Message /\ painted' = Message /\ dimmed' = FALSE
    /\ threads' = Cancelled(threads) /\ UNCHANGED answered

(* plan_city, format_plan; then the one look at is_cancelled.              *)
Figure ==
    \E t \in threads :
        /\ t.at = "pricing"
        /\ threads' = (threads \ {t}) \cup
                (IF t.cancelled THEN {} ELSE {[t EXCEPT !.at = "settling"]})
        /\ UNCHANGED <<wanted, painted, dimmed, asked, answered>>

(* settle, called on the event loop.                                       *)
Settle ==
    \E t \in threads :
        /\ t.at = "settling"
        /\ threads' = threads \ {t}
        /\ painted' = t.of /\ dimmed' = FALSE
        /\ answered' = IF t.n > answered THEN t.n ELSE answered
        /\ UNCHANGED <<wanted, asked>>

PanelNext == Show \/ ClearPanel \/ Figure \/ Settle

(* The threads run and the loop turns.                                     *)
PanelFairness == WF_panelVars(Figure) /\ WF_panelVars(Settle)

-----------------------------------------------------------------------------
(* However often the price is asked for, and however the threads are        *)
(* scheduled, the figures last asked for are painted in the end.           *)
LastPriceArrives == (wanted # Message) ~> (answered = asked \/ wanted = Message)
=============================================================================
