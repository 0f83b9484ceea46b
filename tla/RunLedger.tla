------------------------------ MODULE RunLedger ------------------------------
(***************************************************************************)
(* What the analysis runs leave behind, with nothing of the agents, the    *)
(* model and the trades: the stored sessions of each symbol only grow, by  *)
(* one row of the run at most and before it trades; then a result goes     *)
(* into the last row, and no other row is ever written again.              *)
(* AnalysisRun implements it.                                              *)
(***************************************************************************)
EXTENDS Naturals, Sequences

CONSTANT Symbols

VARIABLES
    run,    \* number of the run
    stage,  \* how far it has come
    ledger  \* per symbol its rows, oldest first

ledgerVars == <<run, stage, ledger>>

Stages == {"between", "saving", "trading", "recording"}

Init ==
    /\ run = 0
    /\ stage = "between"
    /\ ledger = [s \in Symbols |-> <<>>]

Begin ==
    /\ stage = "between"
    /\ run' = run + 1
    /\ stage' = "saving"
    /\ UNCHANGED ledger

Save(s) ==
    /\ stage = "saving"
    /\ \A i \in DOMAIN ledger[s] : ledger[s][i].run # run
    /\ \E market \in {0, run} :
         ledger' = [ledger EXCEPT ![s] = Append(@, [run |-> run, market |-> market, result |-> 0])]
    /\ UNCHANGED <<run, stage>>

GoOn ==
    /\ \/ stage = "saving" /\ stage' = "trading"
       \/ stage = "trading" /\ stage' = "recording"
    /\ UNCHANGED <<run, ledger>>

Record(s) ==
    /\ stage = "recording"
    /\ ledger[s] # <<>>
    /\ ledger' = [ledger EXCEPT ![s][Len(ledger[s])].result = run]
    /\ UNCHANGED <<run, stage>>

\* The run ends, or is ended, at any point.
End ==
    /\ stage # "between"
    /\ stage' = "between"
    /\ UNCHANGED <<run, ledger>>

Next == Begin \/ GoOn \/ End \/ \E s \in Symbols : Save(s) \/ Record(s)

LedgerSpec == Init /\ [][Next]_ledgerVars
=============================================================================
