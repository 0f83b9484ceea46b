-------------------------- MODULE StopLossRestart --------------------------
(***************************************************************************)
(* Stop-loss management over several lives of the program.  It may be      *)
(* killed at any step.  What is in memory is then gone: the map, the       *)
(* Position objects and what the goroutines were doing; the exchange and   *)
(* the positions table stay.  main of cmd/web starts again by loading the  *)
(* active rows and then asks the exchange for positions without one, both  *)
(* before the goroutines run.                                              *)
(***************************************************************************)
EXTENDS StopLossManager

CONSTANT MaxStarts  \* bound: how often the program is started

ASSUME RestartAssumption == MaxStarts \in Nat \ {0}

VARIABLES
    boot,   \* "load" and "sync" while main starts, then "up"
    starts  \* how often it was started

lifeVars == <<vars, boot, starts>>

-----------------------------------------------------------------------------

\* The program is killed, also while it starts, or ended by a panic.
Crash ==
    /\ starts < MaxStarts
    /\ starts' = starts + 1
    /\ boot' = "load"
    /\ managed' = 0
    /\ pos' = [o \in PositionIds |-> NoPosition]
    /\ mu' = "free"
    /\ pc' = [t \in Threads |-> "idle"]
    /\ loc' = [t \in Threads |-> NoLocals]
    /\ UNCHANGED <<market, book, nextPos, db>>

\* While the program is down its owner may trade by hand.
TradeByHand ==
    /\ boot = "load"
    /\ exch' \in (Sides \cup {"none"}) \ {exch}
    /\ UNCHANGED <<price, book, memory, db, mu, pc, loc, boot, starts>>

\* GetActivePositions of the symbol.
ActiveRows == {o \in PositionIds : db[o].saved /\ ~db[o].closed}

\* The row main keeps of them, if there is any: the last opened of those with an
\* entry price, and only if none has one the last opened of all.
KeptRow ==
    LET priced == {o \in ActiveRows : db[o].entry # 0}
        eligible == IF priced # {} THEN priced ELSE ActiveRows
    IN  {o \in eligible : \A other \in eligible : other <= o}

\* What main makes of a row: like a position it has just opened, with an ID and
\* a quantity and no size, and with the order the row names.
FromRow(row) ==
    [NewPosition(row.side, row.entry, row.stop, 0, row.qty, TRUE) EXCEPT !.order = row.order]

\* A slip: closed rows are loaded as well.
LoadAll ==
    /\ boot = "load"
    /\ LET saved == {o \in PositionIds : db[o].saved}
       IN  \/ \E o \in saved :
                /\ \A other \in saved : other <= o
                /\ managed' = o
                /\ pos' = [pos EXCEPT ![o] = FromRow(db[o])]
           \/ saved = {} /\ UNCHANGED <<managed, pos>>
    /\ boot' = "sync"
    /\ UNCHANGED <<market, book, nextPos, db, mu, pc, loc, starts>>

\* main registers the row it keeps of the symbol and skips the others.  When the
\* table cannot be read there is a warning and the start goes on.
LoadPositions ==
    /\ boot = "load"
    /\ \/ \E o \in KeptRow :
            /\ managed' = o
            /\ pos' = [pos EXCEPT ![o] = FromRow(db[o])]
       \/ /\ ActiveRows = {} \/ RecordFails
          /\ UNCHANGED <<managed, pos>>
    /\ boot' = "sync"
    /\ UNCHANGED <<market, book, nextPos, db, mu, pc, loc, starts>>

\* A slip: the check for a position that is managed already is left out, and
\* the object made for the exchange's answer takes the place of a used one.
SyncOverwrites ==
    /\ boot = "sync"
    /\ IF exch # "none"
         THEN /\ pos' = [pos EXCEPT ![1] =
                           NewPosition(exch, price, DefaultStop(exch, price), Filled, 0, FALSE)]
              /\ managed' = 1
         ELSE UNCHANGED <<managed, pos>>
    /\ boot' = "up"
    /\ UNCHANGED <<market, book, nextPos, db, mu, pc, loc, starts>>

\* SyncPositionsFromBinance: a position that no row accounts for is registered
\* with the default stop and without an order.  Errors are skipped.
SyncPositionsFromBinance ==
    /\ boot = "sync"
    /\ \/ /\ exch # "none" /\ managed = 0
          /\ nextPos <= MaxPositions
          /\ \E entry \in Prices :
               pos' = [pos EXCEPT ![nextPos] =
                         NewPosition(exch, entry, DefaultStop(exch, entry), Filled, 0, FALSE)]
          /\ managed' = nextPos
          /\ nextPos' = nextPos + 1
       \/ /\ exch = "none" \/ managed # 0 \/ CallFails \/ nextPos > MaxPositions
          /\ UNCHANGED memory
    /\ boot' = "up"
    /\ UNCHANGED <<market, book, db, mu, pc, loc, starts>>

-----------------------------------------------------------------------------

LifeInit == Init /\ boot = "up" /\ starts = 1

Start == LoadPositions \/ SyncPositionsFromBinance

\* Within one life the goroutines run as in StopLossManager, and the exchange
\* goes on whatever the program does.
Live ==
    /\ \/ boot = "up" /\ Process
       \/ Exchange
    /\ UNCHANGED <<boot, starts>>

LifeNext == Live \/ Crash \/ TradeByHand \/ Start

LifeSpec == LifeInit /\ [][LifeNext]_lifeVars

\* A start goes on, and so do the goroutines of the running program.
LiveStep(t) == boot = "up" /\ Step(t) /\ UNCHANGED <<boot, starts>>

FairLifeSpec ==
    /\ LifeSpec
    /\ WF_lifeVars(Start)
    /\ \A t \in Threads : SF_lifeVars(LiveStep(t))

-----------------------------------------------------------------------------
(* Safety *)

\* A start begins with nothing in memory, and no goroutine runs before its end.
Starting ==
    /\ boot \in {"load", "sync", "up"}
    /\ boot # "up" => \A t \in Threads : pc[t] = "idle" /\ loc[t] = NoLocals
    /\ boot = "load" => managed = 0

\* A row belongs to a position that was registered once.
RowsKnown == \A o \in PositionIds : db[o].saved => o < nextPos

\* The rest of the state is as in any life.
LifeInv == ManagerInv /\ Starting /\ RowsKnown

\* The lives together keep the promise of DurableGuard.
Durable == INSTANCE DurableGuard WITH
    Ids <- PositionIds,
    guarded <- managed,
    used <- {o \in PositionIds : o < nextPos /\ ~Pending(o)},
    side <- IF managed = 0 THEN "none" ELSE pos[managed].side,
    stop <- IF managed = 0 THEN 0 ELSE pos[managed].stop,
    up <- boot = "up"

DurableSpec == Durable!DurableSpec

-----------------------------------------------------------------------------
(* Liveness *)

\* When the side of the position on the exchange does not change any more, what
\* is managed has that side in the end, although a start may restore a row from
\* before a flip and a correction may be based on an answer from before one.
SideSettles ==
    \A side \in Sides :
      <>[](exch = side) => <>[](managed # 0 => pos[managed].side = side)

=============================================================================
