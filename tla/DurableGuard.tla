---------------------------- MODULE DurableGuard ----------------------------
(***************************************************************************)
(* StopGuard over several lives of the program: what one life promises,    *)
(* and what a restart may change.  A crash ends the guard of whatever was  *)
(* guarded; only a start may guard a position again that had been guarded  *)
(* before, and then with any stop.  StopLossRestart implements it.         *)
(***************************************************************************)
EXTENDS StopGuard

VARIABLE up  \* the program runs

durableVars == <<guardVars, up>>

DurableInit == Init /\ up = TRUE

Live == up /\ Next /\ UNCHANGED up

\* Positions about to be guarded are given up with the one that is.
Fail ==
    /\ guarded' = 0 /\ side' = "none" /\ stop' = 0
    /\ up' = FALSE
    /\ used \subseteq used' /\ used' \subseteq used \cup Ids

Resume(o) ==
    /\ ~up
    /\ guarded = 0 /\ o \in used
    /\ guarded' = o
    /\ side' \in {"long", "short"}
    /\ stop' \in Int
    /\ UNCHANGED <<used, up>>

\* The end of a start: a position never seen before may be guarded with it.
Ready ==
    /\ ~up
    /\ up' = TRUE
    /\ \/ UNCHANGED guardVars
       \/ guarded = 0 /\ \E o \in Ids : Guard(o)

DurableNext == Live \/ Fail \/ Ready \/ \E o \in Ids : Resume(o)

DurableSpec == DurableInit /\ [][DurableNext]_durableVars
=============================================================================
