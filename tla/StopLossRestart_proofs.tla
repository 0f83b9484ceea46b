----------------------- MODULE StopLossRestart_proofs -----------------------
(***************************************************************************)
(* The safety of the stop-loss management over several lives, for every    *)
(* instance.  A step within a life keeps ManagerInv by StopLossManager_proofs;   *)
(* what is new is that a row is only ever written for a position that was  *)
(* registered (RowsStep), so that a start can restore it, and that the     *)
(* steps of a crash and a start leave every goroutine at rest (AtRest).    *)
(***************************************************************************)
EXTENDS StopLossRestart, StopLossManager_proofs

-----------------------------------------------------------------------------
(* A step within a life *)

\* The table is left alone, or the row of the position at hand is written.
NoWrite == db' = db /\ nextPos' \in {nextPos, nextPos + 1}
Write(t) == nextPos' = nextPos /\ \E row : db' = [db EXCEPT ![loc[t].o] = row]

\* No step of the process or of the exchange writes the row of another position.
LEMMA DbSteps ==
    ASSUME [Next]_vars
    PROVE  NoWrite \/ \E t \in Threads : Write(t)
<1>0. "main" \in Threads /\ "trail" \in Threads
  BY DEF Threads
<1>1. CASE MainDecides
  BY <1>1 DEF MainDecides, HoldDecision, OpenDecision, CloseDecision, UnreportedTrade, memory, NoWrite
<1>2. CASE MainRecords
  <2>1. CASE BuildRecord
    BY <2>1 DEF BuildRecord, memory, NoWrite
  <2>2. CASE SaveRecord
    BY <1>0, <2>2 DEF SaveRecord, memory, NoWrite, Write
  <2> QED BY <1>2, <2>1, <2>2 DEF MainRecords
<1>3. ASSUME NEW t \in Threads, SharedCall(t) PROVE NoWrite \/ Write(t)
  <2>1. CASE RegisterPosition(t) \/ CheckInitialStop(t) \/ PlaceInitialStopLoss(t) \/ ReadForOrderID(t)
    BY <2>1 DEF RegisterPosition, CheckInitialStop, PlaceInitialStopLoss, ReadForOrderID, memory, NoWrite
  <2>2. CASE UpdateStopLoss(t) \/ AdoptPosition(t) \/ Relock(t) \/ ValidateStopLossPrice(t)
    BY <2>2 DEF UpdateStopLoss, AdoptPosition, Relock, ValidateStopLossPrice, memory, NoWrite
  <2>3. CASE CancelOldOrder(t) \/ CheckNewStop(t) \/ PlaceNewOrder(t) \/ ReadForStop(t)
    BY <2>3 DEF CancelOldOrder, CheckNewStop, PlaceNewOrder, ReadForStop, memory, NoWrite
  <2>4. CASE ClosePosition(t) \/ CancelOnClose(t) \/ RemoveFromMemory(t) \/ ReadForClose(t)
    BY <2>4 DEF ClosePosition, CancelOnClose, RemoveFromMemory, ReadForClose, memory, NoWrite
  <2>5. CASE WriteOrderID(t) \/ WriteStop(t) \/ WriteClosed(t)
    BY <2>5 DEF WriteOrderID, WriteStop, WriteClosed, WriteRow, memory, NoWrite, Write
  <2> QED BY <1>3, <2>1, <2>2, <2>3, <2>4, <2>5 DEF SharedCall
<1>4. CASE TrailRound
  <2>1. CASE \E high, low \in Prices : low <= high /\ ReadKline(high, low)
    BY <2>1 DEF ReadKline, memory, NoWrite
  <2>2. CASE SetHighest \/ ReadForHighest \/ ReconcilePosition \/ FixPosition
    BY <2>2 DEF SetHighest, ReadForHighest, ReconcilePosition, FixPosition, memory, NoWrite
  <2>3. CASE WriteHighest
    BY <1>0, <2>3 DEF WriteHighest, memory, NoWrite, Write
  <2>4. CASE CheckStopLossOrderStatus \/ \E distance \in StopDistances : AutoUpdateTrailingStop(distance)
    BY <2>4 DEF CheckStopLossOrderStatus, AutoUpdateTrailingStop, memory, NoWrite
  <2> QED BY <1>4, <2>1, <2>2, <2>3, <2>4 DEF TrailRound
<1>5. CASE Exchange
  BY <1>5 DEF Exchange, MovePrice, TriggerOrder, memory, NoWrite
<1>6. CASE UNCHANGED vars
  BY <1>6 DEF vars, NoWrite
<1> QED BY <1>1, <1>2, <1>3, <1>4, <1>5, <1>6 DEF Next, Process

\* So a row keeps belonging to a position that was made.
LEMMA RowsStep ==
    ASSUME ManagerInv, RowsKnown, [Next]_vars
    PROVE  RowsKnown'
<1> SUFFICES ASSUME NEW o \in PositionIds, db'[o].saved PROVE o < nextPos'
  BY DEF RowsKnown
<1>0. nextPos \in Nat /\ o \in Nat
  BY StopLossAssumption DEF ManagerInv, TypeOK, PositionIds
<1>1. CASE NoWrite
  <2>1. o < nextPos
    BY <1>1 DEF NoWrite, RowsKnown
  <2> QED BY <1>0, <1>1, <2>1 DEF NoWrite
<1>2. ASSUME NEW t \in Threads, Write(t) PROVE o < nextPos'
  <2>1. CASE o = loc[t].o
    BY <1>2, <2>1 DEF ManagerInv, Created, Write
  <2>2. CASE o # loc[t].o
    <3>1. db'[o] = db[o]
      BY <1>2, <2>2 DEF Write, ManagerInv, TypeOK
    <3> QED BY <1>2, <3>1 DEF RowsKnown, Write
  <2> QED BY <2>1, <2>2
<1> QED BY <1>1, <1>2, DbSteps

-----------------------------------------------------------------------------
(* A crash and a start *)

\* Every goroutine is idle and holds nothing.
Resting == mu = "free" /\ \A t \in Threads : pc[t] = "idle" /\ loc[t] = NoLocals

\* A step that leaves everything at rest answers only for the map and the
\* closed rows.
LEMMA AtRest ==
    ASSUME TypeOK', Resting', managed' < nextPos',
           \A o \in PositionIds : db'[o].closed => o < nextPos' /\ o # managed'
    PROVE  ManagerInv'
<1>1. "idle" \notin HasObject \cup Locked \cup WritesRow /\ "free" \notin Threads
  BY DEF HasObject, Locked, WritesRow, Threads
<1>2. 0 < nextPos'
  BY StopLossAssumption DEF TypeOK
<1>3. /\ AtHand' /\ LockHeld' /\ PendingAlone'
      /\ UpdatedIsManaged' /\ StopChecked'
  BY <1>1 DEF Resting, AtHand, LockHeld, PendingAlone, UpdatedIsManaged, StopChecked
<1>4. Created'
  BY <1>2 DEF Resting, Created, NoLocals
<1>5. ClosedRetired'
  BY <1>1 DEF Resting, ClosedRetired, Retired, Pending
<1> QED BY <1>3, <1>4, <1>5 DEF ManagerInv

\* While the program starts, sm.mu is free and no goroutine has begun.
LEMMA StartRests ==
    ASSUME LifeInv, boot # "up"
    PROVE  Resting
<1>1. \A t \in Threads : pc[t] = "idle" /\ loc[t] = NoLocals /\ "idle" \notin Locked
  BY DEF LifeInv, Starting, Locked
<1>2. mu \in Threads => FALSE
  BY <1>1 DEF LifeInv, ManagerInv, LockHeld
<1> QED BY <1>1, <1>2 DEF LifeInv, ManagerInv, TypeOK, Resting

\* What is closed is out of management.
LEMMA ClosedKnown ==
    ASSUME ManagerInv
    PROVE  \A o \in PositionIds : db[o].closed => o < nextPos /\ o # managed
  BY DEF ManagerInv, ClosedRetired, Retired

\* A crash leaves the rows and the exchange, and nothing in memory.
LEMMA CrashKeeps ==
    ASSUME LifeInv, Crash
    PROVE  LifeInv'
<1>1. pos' = [o \in PositionIds |-> NoPosition] /\ pc' = [t \in Threads |-> "idle"]
      /\ loc' = [t \in Threads |-> NoLocals] /\ mu' = "free" /\ managed' = 0
      /\ UNCHANGED <<price, exch, orders, nextOrder, nextPos, db>> /\ boot' = "load"
  BY DEF Crash, market, book
<1>2. pos' \in [PositionIds -> Position] /\ pc' \in [Threads -> Labels] /\ loc' \in [Threads -> Locals]
  BY <1>1, NoPositionTyped, NoLocalsTyped DEF Labels
<1>3. TypeOK'
  BY <1>1, <1>2 DEF LifeInv, ManagerInv, TypeOK
<1>4. Resting'
  BY <1>1 DEF Resting
<1>5. managed' < nextPos' /\ \A o \in PositionIds : db'[o].closed => o < nextPos' /\ o # managed'
  BY <1>1, ClosedKnown, StopLossAssumption DEF LifeInv, ManagerInv, TypeOK, PositionIds
<1>6. ManagerInv'
  BY <1>3, <1>4, <1>5, AtRest
<1> QED BY <1>1, <1>4, <1>6 DEF LifeInv, Starting, Resting, RowsKnown

\* What the owner trades by hand concerns the exchange alone.
LEMMA TradeByHandKeeps ==
    ASSUME LifeInv, TradeByHand
    PROVE  LifeInv'
<1>1. TypeOK'
  BY DEF TradeByHand, LifeInv, ManagerInv, TypeOK, book, memory
<1>2. ManagerInv'
  BY <1>1, NothingMoves DEF TradeByHand, LifeInv
<1> QED BY <1>2 DEF TradeByHand, LifeInv, Starting, RowsKnown, memory

\* A restored position has its type.
LEMMA FromRowTyped ==
    ASSUME NEW row \in Row
    PROVE  FromRow(row) \in Position /\ FromRow(row).side = row.side
<1>1. row.side \in Sides /\ row.entry \in Int /\ row.stop \in Int /\ row.qty \in Nat
      /\ row.order \in OrderIds \cup {0}
  BY DEF Row
<1>2. NewPosition(row.side, row.entry, row.stop, 0, row.qty, TRUE) \in Position
  BY <1>1, NewPositionTyped
<1>3. NewPosition(row.side, row.entry, row.stop, 0, row.qty, TRUE).side = row.side
  BY DEF NewPosition
<1> QED BY <1>1, <1>2, <1>3 DEF FromRow, Position

\* A start restores a position that had been registered, under an open row.
LEMMA LoadPositionsEffect ==
    ASSUME LifeInv, LoadPositions
    PROVE  \/ UNCHANGED <<managed, pos>>
           \/ \E o \in PositionIds :
                /\ o < nextPos /\ ~db[o].closed
                /\ managed' = o
                /\ pos' = [pos EXCEPT ![o] = FromRow(db[o])]
                /\ FromRow(db[o]) \in Position
<1>1. ASSUME NEW o \in KeptRow, managed' = o, pos' = [pos EXCEPT ![o] = FromRow(db[o])]
      PROVE  /\ o \in PositionIds
             /\ o < nextPos /\ ~db[o].closed
             /\ FromRow(db[o]) \in Position
  <2>1. o \in PositionIds /\ db[o].saved /\ ~db[o].closed
    BY DEF KeptRow, ActiveRows
  <2>2. db[o] \in Row
    BY <2>1 DEF LifeInv, ManagerInv, TypeOK
  <2> QED BY <2>1, <2>2, FromRowTyped DEF LifeInv, RowsKnown
<1> QED BY <1>1 DEF LoadPositions

\* Loading keeps the invariant.
LEMMA LoadPositionsKeeps ==
    ASSUME LifeInv, LoadPositions
    PROVE  LifeInv'
<1>1. boot = "load" /\ boot' = "sync" /\ Resting /\ managed = 0
      /\ UNCHANGED <<price, exch, orders, nextOrder, nextPos, db, mu, pc, loc>>
  BY StartRests DEF LoadPositions, market, book, LifeInv, Starting
<1>2. Resting' /\ RowsKnown'
  BY <1>1 DEF Resting, LifeInv, RowsKnown
<1>3. ManagerInv'
  <2>1. CASE UNCHANGED <<managed, pos>>
    <3>1. TypeOK'
      BY <1>1, <2>1 DEF LifeInv, ManagerInv, TypeOK
    <3> QED BY <1>1, <2>1, <3>1, NothingMoves DEF LifeInv, memory
  <2>2. ASSUME NEW o \in PositionIds, o < nextPos, ~db[o].closed, managed' = o,
               pos' = [pos EXCEPT ![o] = FromRow(db[o])], FromRow(db[o]) \in Position
        PROVE  ManagerInv'
    <3>1. TypeOK'
      BY <1>1, <2>2 DEF LifeInv, ManagerInv, TypeOK
    <3>2. \A q \in PositionIds : db'[q].closed => q < nextPos' /\ q # managed'
      BY <1>1, <2>2, ClosedKnown DEF LifeInv
    <3> QED BY <1>1, <1>2, <2>2, <3>1, <3>2, AtRest
  <2> QED BY <2>1, <2>2, LoadPositionsEffect
<1> QED BY <1>1, <1>2, <1>3 DEF LifeInv, Starting, Resting

\* The position the exchange knows and no row does is a new one.
LEMMA SyncPositionsEffect ==
    ASSUME LifeInv, SyncPositionsFromBinance
    PROVE  \/ UNCHANGED memory
           \/ /\ managed = 0 /\ managed' = nextPos /\ nextPos' = nextPos + 1
              /\ nextPos \in PositionIds
              /\ \E p \in Position : pos' = [pos EXCEPT ![nextPos] = p]
<1>1. ASSUME exch # "none", managed = 0, nextPos <= MaxPositions, NEW entry \in Prices,
             managed' = nextPos, nextPos' = nextPos + 1,
             pos' = [pos EXCEPT ![nextPos] =
                       NewPosition(exch, entry, DefaultStop(exch, entry), Filled, 0, FALSE)]
      PROVE  nextPos \in PositionIds /\ \E p \in Position : pos' = [pos EXCEPT ![nextPos] = p]
  <2>1. exch \in Sides /\ entry \in Nat /\ entry \in Int
    BY <1>1, StopLossAssumption DEF LifeInv, ManagerInv, TypeOK
  <2>2. DefaultStop(exch, entry) \in Int /\ Filled \in Nat
    BY <2>1, PricesTyped DEF Filled
  <2>3. NewPosition(exch, entry, DefaultStop(exch, entry), Filled, 0, FALSE) \in Position
    BY <2>1, <2>2, NewPositionTyped
  <2>4. nextPos \in PositionIds
    BY <1>1, StopLossAssumption DEF LifeInv, ManagerInv, TypeOK, PositionIds
  <2> QED BY <1>1, <2>3, <2>4
<1> QED BY <1>1 DEF SyncPositionsFromBinance

\* Asking the exchange keeps the invariant.
LEMMA SyncPositionsKeeps ==
    ASSUME LifeInv, SyncPositionsFromBinance
    PROVE  LifeInv'
<1>1. boot = "sync" /\ boot' = "up" /\ Resting
      /\ UNCHANGED <<price, exch, orders, nextOrder, db, mu, pc, loc>>
  BY StartRests DEF SyncPositionsFromBinance, market, book
<1>2. CASE UNCHANGED memory
  <2>1. TypeOK'
    BY <1>1, <1>2 DEF LifeInv, ManagerInv, TypeOK, memory
  <2>2. ManagerInv'
    BY <1>1, <1>2, <2>1, NothingMoves DEF LifeInv
  <2> QED BY <1>1, <1>2, <2>2 DEF LifeInv, Starting, RowsKnown, memory
<1>3. ASSUME managed' = nextPos, nextPos' = nextPos + 1, nextPos \in PositionIds,
             NEW p \in Position, pos' = [pos EXCEPT ![nextPos] = p]
      PROVE  LifeInv'
  <2>1. nextPos' \in 1..(MaxPositions + 1) /\ managed' < nextPos' /\ nextPos < nextPos'
    BY <1>3, StopLossAssumption DEF PositionIds
  <2>2. TypeOK'
    BY <1>1, <1>3, <2>1 DEF LifeInv, ManagerInv, TypeOK
  <2>3. \A o \in PositionIds : o < nextPos => o < nextPos' /\ o # nextPos
    BY <1>3, StopLossAssumption DEF PositionIds
  <2>4. \A o \in PositionIds : db'[o].closed => o < nextPos' /\ o # managed'
    BY <1>1, <1>3, <2>3, ClosedKnown DEF LifeInv
  <2>5. Resting'
    BY <1>1 DEF Resting
  <2>6. ManagerInv'
    BY <2>1, <2>2, <2>4, <2>5, AtRest
  <2>7. RowsKnown'
    BY <1>1, <2>3 DEF LifeInv, RowsKnown
  <2> QED BY <1>1, <2>6, <2>7 DEF LifeInv, Starting
<1> QED BY <1>2, <1>3, SyncPositionsEffect

-----------------------------------------------------------------------------
(* The invariant over all lives *)

\* The program starts in it.
LEMMA LifeInitInv == LifeInit => LifeInv
<1> SUFFICES ASSUME LifeInit PROVE LifeInv
  OBVIOUS
<1>1. ManagerInv
  BY InitManagerInv DEF LifeInit
<1>2. RowsKnown
  BY DEF LifeInit, Init, RowsKnown, NoRow
<1> QED BY <1>1, <1>2 DEF LifeInit, LifeInv, Starting

\* A step of a life keeps it; before the end of a start only the exchange moves.
LEMMA LiveKeeps ==
    ASSUME LifeInv, Live
    PROVE  LifeInv'
<1>1. [Next]_vars
  BY DEF Live, Next
<1>2. ManagerInv' /\ RowsKnown'
  BY <1>1, StepManagerInv, RowsStep DEF LifeInv
<1>3. CASE boot = "up"
  BY <1>2, <1>3 DEF Live, LifeInv, Starting
<1>4. CASE boot # "up"
  <2>1. UNCHANGED <<managed, pc, loc, boot>>
    BY <1>4 DEF Live, Exchange, MovePrice, TriggerOrder, memory
  <2> QED BY <1>2, <2>1 DEF LifeInv, Starting
<1> QED BY <1>3, <1>4

\* So does every step.
LEMMA LifeStepInv == LifeInv /\ [LifeNext]_lifeVars => LifeInv'
<1> SUFFICES ASSUME LifeInv, [LifeNext]_lifeVars PROVE LifeInv'
  OBVIOUS
<1>1. CASE UNCHANGED lifeVars
  <2>1. UNCHANGED vars /\ boot' = boot
    BY <1>1 DEF lifeVars
  <2>2. ManagerInv' /\ RowsKnown'
    BY <2>1, StepManagerInv, RowsStep DEF LifeInv
  <2> QED BY <2>1, <2>2 DEF LifeInv, Starting, vars
<1> QED BY <1>1, LiveKeeps, CrashKeeps, TradeByHandKeeps, LoadPositionsKeeps, SyncPositionsKeeps
        DEF LifeNext, Start

\* Through crashes and restarts: memory is what one life allows, a start finds
\* the goroutines at rest, and a row belongs to a position registered before.
THEOREM LivesInvariant == LifeSpec => []LifeInv
  BY LifeInitInv, LifeStepInv, PTL DEF LifeSpec

\* No restart brings a closed position back into management.
THEOREM LivesManagedIsOpen == LifeSpec => []ClosedNotManaged
<1>1. LifeInv => ClosedNotManaged
  BY DEF LifeInv, ManagerInv, TypeOK, ClosedRetired, Retired, ClosedNotManaged
<1> QED BY <1>1, LivesInvariant, PTL

-----------------------------------------------------------------------------
(* The ratchet over all lives *)

\* No step of a crash or a start is counted as a move of the stop, and every
\* other step is one of a single life.
LEMMA LifeFavourable == LifeInv /\ [LifeNext]_lifeVars => Favourable
<1> SUFFICES ASSUME LifeInv, [LifeNext]_lifeVars PROVE Favourable
  OBVIOUS
<1>0. 0 \notin PositionIds
  BY DEF PositionIds
<1>1. CASE Live \/ UNCHANGED lifeVars
  <2>1. [Next]_vars
    BY <1>1 DEF Live, Next, lifeVars
  <2> QED BY <2>1, RatchetStep DEF LifeInv
<1>2. CASE Crash
  BY <1>0, <1>2 DEF Crash, Favourable
<1>3. CASE TradeByHand
  BY <1>3, SameStopFavourable DEF TradeByHand, memory, LifeInv
<1>4. CASE LoadPositions
  BY <1>0, <1>4 DEF LoadPositions, Favourable, LifeInv, Starting
<1>5. CASE SyncPositionsFromBinance
  <2>1. CASE UNCHANGED memory
    BY <2>1, SameStopFavourable DEF memory, LifeInv
  <2>2. CASE managed = 0
    BY <1>0, <2>2 DEF Favourable
  <2> QED BY <1>5, <2>1, <2>2, SyncPositionsEffect
<1> QED BY <1>1, <1>2, <1>3, <1>4, <1>5 DEF LifeNext, Start

\* However often the program is killed and started, the stop of a position that
\* stays managed never moves away from the price.
THEOREM LivesStopRatchets == LifeSpec => RatchetStop
<1>1. LifeInv /\ [LifeNext]_lifeVars => [Favourable]_vars
  BY LifeFavourable
<1>2. LifeSpec => [][Favourable]_vars
  BY <1>1, LivesInvariant, PTL DEF LifeSpec
<1> QED BY <1>2 DEF RatchetStop, Favourable

-----------------------------------------------------------------------------
(* Rows that open again, over all lives *)

\* A crash and a start leave the table alone, so that a row is opened again only
\* within a life, and only when its position is not managed: what a later start
\* loads by mistake was retired before.
THEOREM LivesReopened == LifeSpec => ReopenedIsRetired
<1> DEFINE Harmless == \A o \in PositionIds :
                         db[o].closed /\ ~db'[o].closed => managed # o /\ managed' # o
<1>1. LifeInv /\ [LifeNext]_lifeVars => [Harmless]_vars
  <2> SUFFICES ASSUME LifeInv, [LifeNext]_lifeVars,
                      NEW o \in PositionIds, db[o].closed, ~db'[o].closed
               PROVE  managed # o /\ managed' # o
    OBVIOUS
  <2>1. Retired(o)
    BY DEF LifeInv, ManagerInv, ClosedRetired
  <2>2. db' # db
    OBVIOUS
  <2>3. CASE Live \/ UNCHANGED lifeVars
    <3>1. [Next]_vars
      BY <2>3 DEF Live, Next, lifeVars
    <3> QED BY <2>1, <3>1, RetiredUnmanaged DEF LifeInv, Retired
  <2>4. CASE Crash \/ TradeByHand \/ Start
    BY <2>2, <2>4 DEF Crash, TradeByHand, Start, LoadPositions, SyncPositionsFromBinance
  <2> QED BY <2>3, <2>4 DEF LifeNext
<1>2. LifeSpec => [][Harmless]_vars
  BY <1>1, LivesInvariant, PTL DEF LifeSpec
<1> QED BY <1>2 DEF ReopenedIsRetired

-----------------------------------------------------------------------------
(* The refinement of DurableGuard *)

\* The initial states are those of one life.
LEMMA DurableInitMaps == LifeInit => Durable!DurableInit
<1> SUFFICES ASSUME LifeInit PROVE Durable!DurableInit
  OBVIOUS
<1>1. Guard!Init /\ boot = "up"
  BY GuardInit DEF LifeInit
<1> QED BY <1>1 DEF Durable!DurableInit, Durable!Init, Guard!Init

\* At rest nothing is about to be guarded.
LEMMA RestingUsed ==
    ASSUME Resting
    PROVE  Used = {o \in PositionIds : o < nextPos}
  BY DEF Resting, Used, Pending

\* A step within a life is one of StopGuard.
LEMMA LiveMaps ==
    ASSUME LifeInv, Live
    PROVE  Durable!Live \/ UNCHANGED Durable!durableVars
<1>1. CASE boot = "up"
  <2>1. [Next]_vars /\ boot' = boot
    BY DEF Live, Next
  <2>2. Guard!Next \/ UNCHANGED Guard!guardVars
    BY <2>1, GuardStep DEF LifeInv
  <2>3. CASE Guard!Next
    BY <1>1, <2>1, <2>3
       DEF Durable!Live, Durable!Next, Durable!Guard, Durable!Tighten, Durable!Correct, Durable!Release,
           Guard!Next, Guard!Guard, Guard!Tighten, Guard!Correct, Guard!Release
  <2>4. CASE UNCHANGED Guard!guardVars
    BY <1>1, <2>1, <2>4 DEF Durable!durableVars, Durable!guardVars, Guard!guardVars
  <2> QED BY <2>2, <2>3, <2>4
<1>2. CASE boot # "up"
  <2>1. UNCHANGED <<memory, pc, loc, boot>>
    BY <1>2 DEF Live, Exchange, MovePrice, TriggerOrder
  <2> QED BY <2>1 DEF Durable!durableVars, Durable!guardVars, memory, Pending
<1> QED BY <1>1, <1>2

\* A crash ends the guard and gives up what was about to be guarded.
LEMMA CrashMaps ==
    ASSUME LifeInv, Crash
    PROVE  Durable!Fail
<1>1. Resting' /\ managed' = 0 /\ boot' = "load" /\ nextPos' = nextPos
  BY DEF Crash, Resting
<1>2. Used' = {o \in PositionIds : o < nextPos}
  BY <1>1 DEF Resting, Used, Pending
<1>3. Used \subseteq Used' /\ Used' \subseteq Used \cup PositionIds
  BY <1>2 DEF Used
<1> QED BY <1>1, <1>3 DEF Durable!Fail, Used

\* Loading guards a position again that had been guarded, or nothing.
LEMMA LoadMaps ==
    ASSUME LifeInv, LoadPositions
    PROVE  (\E o \in PositionIds : Durable!Resume(o)) \/ UNCHANGED Durable!durableVars
<1>1. boot = "load" /\ boot' = "sync" /\ Resting /\ managed = 0 /\ UNCHANGED <<nextPos, pc, loc>>
  BY StartRests DEF LoadPositions, LifeInv, Starting
<1>2. Used' = Used
  BY <1>1 DEF Used, Pending
<1>3. CASE UNCHANGED <<managed, pos>>
  BY <1>1, <1>2, <1>3 DEF Durable!durableVars, Durable!guardVars, Used
<1>4. ASSUME NEW o \in PositionIds, o < nextPos, managed' = o,
             pos' = [pos EXCEPT ![o] = FromRow(db[o])], FromRow(db[o]) \in Position
      PROVE  Durable!Resume(o)
  <2>1. pos'[o] \in Position
    BY <1>4 DEF LifeInv, ManagerInv, TypeOK
  <2>2. pos'[o].side \in {"long", "short"} /\ pos'[o].stop \in Int /\ o # 0
    BY <2>1 DEF Position, Sides, PositionIds
  <2>3. o \in Used
    BY <1>1, <1>4, RestingUsed
  <2> QED BY <1>1, <1>2, <1>4, <2>2, <2>3 DEF Durable!Resume, Used
<1> QED BY <1>3, <1>4, LoadPositionsEffect

\* The end of a start guards a position never seen before, or nothing more.
LEMMA SyncMaps ==
    ASSUME LifeInv, SyncPositionsFromBinance
    PROVE  Durable!Ready
<1>1. boot = "sync" /\ boot' = "up" /\ Resting /\ UNCHANGED <<pc, loc>>
  BY StartRests DEF SyncPositionsFromBinance
<1>2. CASE UNCHANGED memory
  <2>1. Used' = Used
    BY <1>1, <1>2 DEF Used, Pending, memory
  <2> QED BY <1>1, <1>2, <2>1 DEF Durable!Ready, Durable!guardVars, Used, memory
<1>3. ASSUME managed = 0, managed' = nextPos, nextPos' = nextPos + 1, nextPos \in PositionIds,
             NEW p \in Position, pos' = [pos EXCEPT ![nextPos] = p]
      PROVE  Durable!Ready
  <2>1. pos'[nextPos] = p
    BY <1>3 DEF LifeInv, ManagerInv, TypeOK
  <2>2. p.side \in {"long", "short"} /\ p.stop \in Int /\ nextPos # 0
    BY <1>3 DEF Position, Sides, PositionIds
  <2>3. Resting'
    BY <1>1 DEF SyncPositionsFromBinance, Resting
  <2>4. \A o \in PositionIds : (o < nextPos' <=> o < nextPos \/ o = nextPos) /\ ~(nextPos < nextPos)
    BY <1>3 DEF PositionIds
  <2>5. Used = {o \in PositionIds : o < nextPos} /\ Used' = {o \in PositionIds : o < nextPos'}
    BY <1>1, <2>3 DEF Resting, Used, Pending
  <2>6. Used' = Used \cup {nextPos} /\ nextPos \notin Used
    BY <1>3, <2>4, <2>5
  <2>7. PICK o \in PositionIds : o = nextPos
    BY <1>3
  <2>8. Durable!Guard(o)
    BY <1>3, <2>1, <2>2, <2>6, <2>7 DEF Durable!Guard, Used
  <2> QED BY <1>1, <1>3, <2>8 DEF Durable!Ready
<1> QED BY <1>2, <1>3, SyncPositionsEffect

\* Every step is one of DurableGuard or does not show.
LEMMA DurableStep ==
    LifeInv /\ [LifeNext]_lifeVars => [Durable!DurableNext]_Durable!durableVars
<1> SUFFICES ASSUME LifeInv, [LifeNext]_lifeVars
             PROVE  Durable!DurableNext \/ UNCHANGED Durable!durableVars
  OBVIOUS
<1>1. CASE TradeByHand \/ UNCHANGED lifeVars
  <2>1. UNCHANGED <<memory, pc, loc, boot>>
    BY <1>1 DEF TradeByHand, lifeVars, vars, memory
  <2> QED BY <2>1 DEF Durable!durableVars, Durable!guardVars, memory, Pending
<1> QED BY <1>1, LiveMaps, CrashMaps, LoadMaps, SyncMaps DEF LifeNext, Start, Durable!DurableNext

\* Over all its lives the program guards one position at a time, each for the
\* first time once, again only when a start restores it, and tightens its stop.
THEOREM DurableRefinement == LifeSpec => DurableSpec
<1>1. LifeSpec => [][Durable!DurableNext]_Durable!durableVars
  BY DurableStep, LivesInvariant, PTL DEF LifeSpec
<1> QED BY <1>1, DurableInitMaps DEF LifeSpec, DurableSpec, Durable!DurableSpec
=============================================================================
