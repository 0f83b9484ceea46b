----------------------------- MODULE MCStopLoss -----------------------------
(***************************************************************************)
(* StopLossManager for TLC.  The unit of price is 100 USDT and the table   *)
(* of distances is that of BTC: an update moves the stop by 0.15% at       *)
(* least, an initial stop lies 0.5% to 6% from the entry.  A proposal of   *)
(* 1010 suits a long position at 1020 and a short one at 1000, and is      *)
(* refused for the others; with two orders a stop moves twice, by the      *)
(* trading loop and by the trailing goroutine in either order.             *)
(***************************************************************************)
EXTENDS StopLossManager

\* The safety runs do not tell apart states that differ only in what no step
\* reads any more, and none of their properties does either: the rows' stop and
\* order columns, which are written and never decide anything; an object that is
\* neither managed nor at hand, nor one of which only the row is still to be
\* written; the ID of an object that is registered and the quantity of one whose
\* size is right; all of an order that has ended but the status its holder finds.
RowOnly == {"closeDelete", "closeSync", "closeWrite", "highSync", "highWrite"}

AtWork(o) == o = managed \/ \E t \in Threads : loc[t].o = o /\ pc[t] \notin RowOnly

InHand(o) == o = managed \/ \E t \in Threads : loc[t].o = o

Told(order, k) ==
    order.status = "live" \/ \E o \in PositionIds : AtWork(o) /\ pos[o].order = k

Marks(row) == <<row.saved, row.closed>>

Features(o) ==
    [pos[o] EXCEPT !.id = @ /\ Pending(o),
                   !.qty = IF pos[o].size = Filled THEN Filled ELSE @]

View ==
    <<price, exch, nextOrder, managed, nextPos, mu, pc,
      [k \in OrderIds |-> IF Told(orders[k], k) THEN orders[k] ELSE NoOrder],
      [o \in PositionIds |-> IF AtWork(o) THEN Features(o) ELSE NoPosition],
      [o \in PositionIds |-> IF InHand(o) THEN Marks(db[o]) ELSE <<>>],
      [t \in Threads |-> [loc[t] EXCEPT !.row = Marks(@)]]>>
=============================================================================
