---------------------------- MODULE TradingClock ----------------------------
(***************************************************************************)
(* When things run.  The trading loop of cmd/web/main.go and the trailing  *)
(* stop manager each wait for a ticker of one minute, ask a                *)
(* TradingScheduler whether this minute is a boundary of their timeframe,  *)
(* and then work for as long as it takes.  The channel of a ticker holds   *)
(* one tick.  The web server changes the timeframe of the trading loop     *)
(* meanwhile, and a signal ends the program.                               *)
(*                                                                         *)
(* Time is the local time of day, in slots of a minute.  A tick is taken   *)
(* in the slot in which it comes when its loop is waiting for it.          *)
(***************************************************************************)
EXTENDS Integers

CONSTANTS
    Day,            \* minutes of a day: 1440
    Slots,          \* slots of a minute
    Timeframes,     \* timeframeMinutes
    TickAt          \* the slot of a minute in which a loop's ticker ticks

Loops == {"main", "trail"}

ASSUME ClockAssumption ==
    /\ Day \in Nat \ {0}
    /\ Slots \in Nat \ {0}
    /\ Timeframes \subseteq 1..Day
    /\ \A m \in Timeframes : Day % m = 0
    /\ 3 \in Timeframes
    /\ TickAt \in [Loops -> 0..Slots - 1]

VARIABLES
    minute,     \* time.Now(): the minute of the day
    slot,       \* and the slot of the minute
    minutes,    \* TradingScheduler.minutes of the two schedulers
    tick,       \* the ticks in the channel of a ticker, one at most
    loop,       \* what a loop is at: "wait", "run" or "stopped"
    signal,     \* sigChan holds a signal
    next,       \* the next time that the trading loop has announced, and when
    begun,      \* runs that a loop began in this minute
    held        \* the loops whose timeframe is as it was when the minute began

vars == <<minute, slot, minutes, tick, loop, signal, next, begun, held>>

-----------------------------------------------------------------------------
(* TradingScheduler *)

\* A slip: a tolerance that ends before the minute does.
OnTimeframeEarly(m) == minute % m = 0 /\ slot = 0

\* The tolerance of 60 seconds is all of the minute.
IsOnTimeframe(m) == minute % m = 0

\* A slip: the boundary of the period that is running.
ThisTimeframe(time, m) == (time \div m) * m

\* A slip: the end of the day is forgotten.
NextPastMidnight(time, m) == ((time \div m) + 1) * m

\* The next boundary; the one at the end of the day is the first of the next.
GetNextTimeframeTime(time, m) ==
    LET nextPeriod == ((time \div m) + 1) * m
    IN  IF nextPeriod >= Day THEN nextPeriod - Day ELSE nextPeriod

NotSaid == [at |-> -1, said |-> -1]

Announcement(m) == [at |-> GetNextTimeframeTime(minute, m), said |-> minute]

-----------------------------------------------------------------------------
(* Time *)

\* What a goroutine waits for is there.
Urgent ==
    \/ \E l \in Loops : loop[l] = "wait" /\ tick[l] = 1
    \/ loop["main"] = "wait" /\ signal

\* A slip: a channel without room for a tick loses it while nobody waits.
TickUnbuffered(l, s) == IF s = TickAt[l] /\ loop[l] = "wait" THEN 1 ELSE 0

\* time.Ticker: a tick that finds the channel full is dropped.
Tick(l, s) == IF s = TickAt[l] THEN 1 ELSE tick[l]

\* Time passes.
Pass ==
    /\ ~Urgent
    /\ loop["main"] # "stopped"
    /\ \/ /\ slot < Slots - 1
          /\ slot' = slot + 1
          /\ UNCHANGED <<minute, begun, held>>
       \/ /\ slot = Slots - 1
          /\ slot' = 0
          /\ minute' = IF minute = Day - 1 THEN 0 ELSE minute + 1
          /\ begun' = [l \in Loops |-> 0]
          /\ held' = Loops
    /\ tick' = [l \in Loops |-> Tick(l, slot')]
    /\ UNCHANGED <<minutes, loop, signal, next>>

-----------------------------------------------------------------------------
(* The loops *)

\* A slip: the loop polls the clock instead of waiting for a tick.
Poll(l) ==
    /\ loop[l] = "wait"
    /\ IsOnTimeframe(minutes[l])
    /\ loop' = [loop EXCEPT ![l] = "run"]
    /\ begun' = [begun EXCEPT ![l] = @ + 1]
    /\ UNCHANGED <<minute, slot, minutes, tick, signal, next, held>>

\* case <-ticker.C: outside a boundary the tick is for nothing.
TakeTick(l) ==
    /\ loop[l] = "wait"
    /\ tick[l] = 1
    /\ tick' = [tick EXCEPT ![l] = 0]
    /\ IF IsOnTimeframe(minutes[l])
         THEN /\ loop' = [loop EXCEPT ![l] = "run"]
              /\ begun' = [begun EXCEPT ![l] = @ + 1]
         ELSE UNCHANGED <<loop, begun>>
    /\ UNCHANGED <<minute, slot, minutes, signal, next, held>>

\* The analysis ends, or all positions are updated.  The trading loop says when
\* it will be back.
EndRun(l) ==
    /\ loop[l] = "run"
    /\ loop' = [loop EXCEPT ![l] = "wait"]
    /\ IF l = "main"
         THEN next' = Announcement(minutes[l])
         ELSE UNCHANGED next
    /\ UNCHANGED <<minute, slot, minutes, tick, signal, begun, held>>

\* SIGINT or SIGTERM.
Signal ==
    /\ ~signal
    /\ loop["main"] # "stopped"
    /\ signal' = TRUE
    /\ UNCHANGED <<minute, slot, minutes, tick, loop, next, begun, held>>

\* A slip: break for return, which leaves the select and not the loop.
BreakOnSignal ==
    /\ loop["main"] = "wait"
    /\ signal
    /\ signal' = FALSE
    /\ loop' = [loop EXCEPT !["trail"] = "stopped"]
    /\ UNCHANGED <<minute, slot, minutes, tick, next, begun, held>>

\* case <-sigChan: Stop cancels the context of the trailing stop manager, and the
\* program ends with whatever it is at.
HandleSignal ==
    /\ loop["main"] = "wait"
    /\ signal
    /\ loop' = [l \in Loops |-> "stopped"]
    /\ UNCHANGED <<minute, slot, minutes, tick, signal, next, begun, held>>

\* handleUpdateConfig; the timeframe it has already changes nothing.  What was
\* announced no longer counts.
UpdateTimeframe(m) ==
    /\ loop["main"] # "stopped"
    /\ m # minutes["main"]
    /\ minutes' = [minutes EXCEPT !["main"] = m]
    /\ next' = NotSaid
    /\ held' = held \ {"main"}
    /\ UNCHANGED <<minute, slot, tick, loop, signal, begun>>

-----------------------------------------------------------------------------

\* The trading loop starts; the trailing stop manager has been running before.
Init ==
    /\ minute \in 0..Day - 1
    /\ slot = TickAt["main"]
    /\ \E m \in Timeframes : minutes = [l \in Loops |-> IF l = "main" THEN m ELSE 3]
    /\ tick \in [Loops -> 0..1] /\ tick["main"] = 0
    /\ loop \in [Loops -> {"wait", "run"}] /\ loop["main"] = "wait"
    /\ signal = FALSE
    /\ next = Announcement(minutes["main"])
    /\ begun = [l \in Loops |-> 0]
    /\ held = {}

Next ==
    \/ Pass
    \/ \E l \in Loops : TakeTick(l) \/ EndRun(l)
    \/ Signal \/ HandleSignal
    \/ \E m \in Timeframes : UpdateTimeframe(m)

\* Time passes, ticks are taken, runs end, and a select that finds a signal
\* again and again chooses it once, being random.
Fairness ==
    /\ WF_vars(Pass)
    /\ \A l \in Loops : WF_vars(TakeTick(l)) /\ WF_vars(EndRun(l))
    /\ SF_vars(HandleSignal)

Spec == Init /\ [][Next]_vars /\ Fairness

-----------------------------------------------------------------------------
(* Types and safety *)

\* Every variable has its type.
TypeOK ==
    /\ minute \in 0..Day - 1
    /\ slot \in 0..Slots - 1
    /\ minutes \in [Loops -> Timeframes]
    /\ tick \in [Loops -> 0..1]
    /\ loop \in [Loops -> {"wait", "run", "stopped"}]
    /\ signal \in BOOLEAN
    /\ next \in [at : 0..Day - 1, said : 0..Day - 1] \cup {NotSaid}
    /\ begun \in [Loops -> 0..2]
    /\ held \subseteq Loops

\* A run that overran may find the tick of an earlier minute in the channel, and
\* then that of this one: two runs begin in a boundary minute, never three.
AtMostTwo == \A l \in Loops : begun[l] <= 2

\* A loop that waits does not miss a boundary: in a boundary minute, once the
\* ticker has ticked, it has run or has a tick still to take, however long the
\* run before was.
BoundaryServed ==
    \A l \in held :
       loop[l] = "wait" /\ IsOnTimeframe(minutes[l]) /\ slot >= TickAt[l] =>
          tick[l] = 1 \/ begun[l] > 0

\* The trading loop is back when it said, or again in the minute in which it
\* said so; IsOnTimeframe and GetNextTimeframeTime agree, across midnight too.
AnnouncedKept ==
    [][ loop["main"] = "wait" /\ loop'["main"] = "run" /\ next # NotSaid
          => minute \in {next.at, next.said} ]_vars

-----------------------------------------------------------------------------
(* The inductive invariant *)

\* The tick in the channel and the one still to come in this minute may both
\* begin a run.
CountInv ==
    \A l \in Loops : begun[l] + tick[l] + (IF slot < TickAt[l] THEN 1 ELSE 0) <= 2

\* In a boundary minute a tick leads to a run, also when it has to wait for the
\* end of another.
ServedInv ==
    \A l \in held :
       IsOnTimeframe(minutes[l]) /\ slot >= TickAt[l] => tick[l] = 1 \/ begun[l] > 0

\* While the trading loop waits, the time is between its announcement and the
\* boundary it announced, and no run has begun but in the minute of the former.
AnnouncedInv ==
    loop["main"] = "wait" /\ next # NotSaid =>
       /\ next.at = GetNextTimeframeTime(next.said, minutes["main"])
       /\ \/ next.said < next.at /\ minute \in next.said..next.at
          \/ next.at = 0 /\ (minute >= next.said \/ minute = 0)
       /\ begun["main"] > 0 => minute = next.said
       /\ minute # next.said => "main" \in held

ClockInv == TypeOK /\ CountInv /\ ServedInv /\ AnnouncedInv

-----------------------------------------------------------------------------
(* Liveness *)

\* A loop runs again, whatever timeframes it is given meanwhile: all of them
\* have a boundary at midnight.
RunsAgain == \A l \in Loops : loop[l] = "wait" ~> (loop[l] = "run" \/ signal)

\* A signal ends the program, between two runs.
SignalHeeded == signal ~> loop["main"] = "stopped"
=============================================================================
