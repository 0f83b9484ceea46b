----------------------------- MODULE StopGuard -----------------------------
(***************************************************************************)
(* What the stop-loss management of one symbol promises its user, with     *)
(* nothing of the locks, calls and records that keep the promise: at most  *)
(* one position is guarded; a position is guarded once and for all; while  *)
(* it is, its stop only moves towards the price, unless the exchange says  *)
(* that its side is another one.  StopLossManager implements it.           *)
(***************************************************************************)
EXTENDS Integers

CONSTANT Ids  \* positions that can ever be guarded, 0 not among them

VARIABLES
    guarded,  \* the guarded position, or 0
    used,     \* the positions that are or were guarded
    side,     \* side of the guarded position
    stop      \* its stop price

guardVars == <<guarded, used, side, stop>>

\* After a restart a position found on the exchange is guarded from the start.
Init ==
    \/ guarded = 0 /\ used = {} /\ side = "none" /\ stop = 0
    \/ /\ guarded \in Ids
       /\ used = {guarded}
       /\ side \in {"long", "short"}
       /\ stop \in Int

Guard(o) ==
    /\ o \notin used
    /\ guarded' = o
    /\ used' = used \cup {o}
    /\ side' \in {"long", "short"}
    /\ stop' \in Int

Tighten ==
    /\ guarded # 0
    /\ stop' \in Int
    /\ side = "long" => stop' >= stop
    /\ side = "short" => stop' <= stop
    /\ UNCHANGED <<guarded, used, side>>

Correct ==
    /\ guarded # 0
    /\ side' \in {"long", "short"}
    /\ UNCHANGED <<guarded, used, stop>>

Release ==
    /\ guarded # 0
    /\ guarded' = 0 /\ side' = "none" /\ stop' = 0
    /\ UNCHANGED used

Next == (\E o \in Ids : Guard(o)) \/ Tighten \/ Correct \/ Release

Spec == Init /\ [][Next]_guardVars
=============================================================================
