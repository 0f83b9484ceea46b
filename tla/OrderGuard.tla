----------------------------- MODULE OrderGuard -----------------------------
(***************************************************************************)
(* What executing decisions promises an account, with nothing of the       *)
(* checks, readings, retries and lost answers in between: a decision sends *)
(* at most two orders, one of what was held when it was taken and then one *)
(* of the size settled before, both to its own side and neither of them    *)
(* twice.  Between and beside them only stops move the position, to        *)
(* nothing.  TradeExecution implements it.                                 *)
(***************************************************************************)
EXTENDS Integers

VARIABLES
    position,  \* signed: long is positive
    stage,     \* how far the decision has come
    held,      \* the position when it was taken
    side,      \* 1 when it buys, -1 when it sells
    size       \* what it opens, once settled

guardVars == <<position, stage, held, side, size>>

Stages == {"free", "deciding", "closing", "opening", "sent"}

\* No stage comes back but with a new decision.
Later(from) ==
    CASE from = "deciding" -> {"closing", "free"}
      [] from = "closing" -> {"opening", "free"}
      [] from = "opening" -> {"sent", "free"}
      [] OTHER -> {"free"}

Init ==
    /\ position \in Int
    /\ stage = "free"
    /\ held \in Int
    /\ side \in {1, -1}
    /\ size \in Nat

Decide ==
    /\ stage = "free"
    /\ stage' = "deciding"
    /\ held' = position
    /\ side' \in {1, -1}
    /\ size' = 0
    /\ UNCHANGED position

Settle ==
    /\ stage = "deciding"
    /\ stage' = "closing"
    /\ size' \in Nat
    /\ UNCHANGED <<position, held, side>>

\* The decision goes on, or ends, without an order.
Pass ==
    /\ stage # "free"
    /\ stage' \in Later(stage)
    /\ UNCHANGED <<position, held, side, size>>

\* The order against what was held; a stop may have been there first.
Close ==
    /\ stage = "closing"
    /\ -held * side > 0
    /\ position' = position - held
    /\ stage' \in Later(stage)
    /\ UNCHANGED <<held, side, size>>

Open ==
    /\ stage = "opening"
    /\ size > 0
    /\ position' = position + side * size
    /\ stage' \in Later(stage)
    /\ UNCHANGED <<held, side, size>>

Stop ==
    /\ position' = 0
    /\ UNCHANGED <<stage, held, side, size>>

Next == Decide \/ Settle \/ Pass \/ Close \/ Open \/ Stop

OrderSpec == Init /\ [][Next]_guardVars
=============================================================================
