------------------------ MODULE TradingClock_proofs ------------------------
(* TradingClock for any day, any slots and any timeframes that divide the day. *)
EXTENDS TradingClock, TLAPS

\* A multiple leaves no remainder.
LEMMA Multiple ==
    ASSUME NEW m \in Nat \ {0}, NEW k \in Nat, NEW x \in Nat, x = k * m
    PROVE  x % m = 0
<1>1. PICK v \in Nat, w \in 0..m - 1 : x = v * m + w /\ w = x % m
  <2>1. x = (x \div m) * m + (x % m) /\ x \div m \in Nat /\ x % m \in 0..m - 1
    OBVIOUS
  <2> QED BY <2>1
<1> SUFFICES w = 0
  BY <1>1
<1>2. k * m \in Nat /\ v * m \in Nat /\ (v + 1) * m = v * m + m /\ k * m = v * m + w
  BY <1>1
<1>3. k <= v \/ k >= v + 1
  OBVIOUS
<1>4. k <= v => k * m <= v * m
  OBVIOUS
<1>5. k >= v + 1 => k * m >= (v + 1) * m
  OBVIOUS
<1> DEFINE a == k * m
<1> DEFINE b == v * m
<1> DEFINE c == (v + 1) * m
<1>6. a \in Nat /\ b \in Nat /\ c = b + m /\ a = b + w /\ (a <= b \/ a >= c)
  BY <1>2, <1>3, <1>4, <1>5
<1> HIDE DEF a, b, c
<1> QED BY <1>6

\* What GetNextTimeframeTime returns: a time of the day, with no boundary before
\* it that is later than now.
THEOREM NextBoundary ==
    ASSUME NEW m \in Timeframes, NEW t \in 0..Day - 1,
           NEW r, r = GetNextTimeframeTime(t, m)
    PROVE  /\ r % m = 0
           /\ \/ r \in t + 1..Day - 1 /\ \A x \in t + 1..r - 1 : x % m # 0
              \/ r = 0 /\ \A x \in t + 1..Day - 1 : x % m # 0
<1> DEFINE q == t \div m
<1> DEFINE p == (q + 1) * m
<1>1. m \in Nat \ {0} /\ Day \in Nat \ {0} /\ m <= Day /\ Day % m = 0 /\ t \in Nat /\ t < Day
  BY ClockAssumption
<1>2. q \in Nat /\ q * m <= t /\ t < p /\ p \in Nat /\ p = q * m + m
  BY <1>1
<1>3. PICK d \in Nat : Day = d * m
  <2>1. Day = (Day \div m) * m /\ Day \div m \in Nat
    BY <1>1
  <2> QED BY <2>1
<1>4. p <= Day
  <2>1. q * m < d * m
    BY <1>1, <1>2, <1>3
  <2>2. q < d
    <3> SUFFICES ASSUME d <= q PROVE FALSE
      BY <1>2, <1>3
    <3>1. d * m <= q * m
      BY <1>1, <1>2, <1>3
    <3> QED BY <1>1, <1>2, <1>3, <2>1, <3>1
  <2>3. (q + 1) * m <= d * m
    BY <1>1, <1>2, <2>2
  <2> QED BY <1>3, <2>3
<1>5. ASSUME NEW x \in t + 1..p - 1
      PROVE  x % m # 0
  <2> SUFFICES ASSUME x % m = 0 PROVE FALSE
    OBVIOUS
  <2>1. x \in Nat /\ q * m < x /\ x < p
    BY <1>1, <1>2
  <2>2. PICK k \in Nat : x = k * m
    <3>1. x = (x \div m) * m /\ x \div m \in Nat
      BY <1>1, <2>1
    <3> QED BY <3>1
  <2>3. q < k
    <3> SUFFICES ASSUME k <= q PROVE FALSE
      BY <1>2, <2>2
    <3>1. k * m <= q * m
      BY <1>1, <1>2
    <3> QED BY <1>1, <1>2, <2>1, <2>2, <3>1
  <2>4. (q + 1) * m <= k * m
    BY <1>1, <1>2, <2>3
  <2> QED BY <1>1, <1>2, <2>1, <2>2, <2>4
<1> DEFINE Off(x) == x % m # 0
<1>6. \A x \in t + 1..p - 1 : Off(x)
  BY <1>5
<1>7. r = IF p >= Day THEN p - Day ELSE p
  BY DEF GetNextTimeframeTime
<1>8. Day \in Nat /\ t \in Nat /\ t < Day /\ p \in Nat /\ t < p /\ p <= Day
  BY <1>1, <1>2, <1>4
<1>9. \/ r \in t + 1..Day - 1 /\ \A x \in t + 1..r - 1 : Off(x)
      \/ r = 0 /\ \A x \in t + 1..Day - 1 : Off(x)
  <2> HIDE DEF p, q, Off
  <2>1. CASE p = Day
    BY <1>6, <1>7, <1>8, <2>1
  <2>2. CASE p < Day
    BY <1>6, <1>7, <1>8, <2>2
  <2> QED BY <1>8, <2>1, <2>2
<1>10. r % m = 0
  <2>1. p % m = 0
    <3>1. q + 1 \in Nat
      BY <1>2
    <3> QED BY <1>1, <1>2, <3>1, Multiple
  <2>2. 0 % m = 0
    BY <1>1
  <2> QED BY <1>7, <1>8, <2>1, <2>2
<1> QED BY <1>9, <1>10

\* In particular, where it is.
LEMMA NextInDay ==
    ASSUME NEW m \in Timeframes, NEW t \in 0..Day - 1
    PROVE  /\ GetNextTimeframeTime(t, m) \in 0..Day - 1
           /\ t < GetNextTimeframeTime(t, m) \/ GetNextTimeframeTime(t, m) = 0
<1> DEFINE r == GetNextTimeframeTime(t, m)
<1>1. r \in t + 1..Day - 1 \/ r = 0
  BY NextBoundary, Zenon
<1> HIDE DEF r
<1>2. r \in 0..Day - 1 /\ (t < r \/ r = 0)
  BY <1>1, ClockAssumption
<1> QED BY <1>2 DEF r

-----------------------------------------------------------------------------
(* The invariant *)

\* The initial states.
LEMMA InitEstablishes == Init => ClockInv
<1> SUFFICES ASSUME Init PROVE ClockInv
  OBVIOUS
<1>1. minutes["main"] \in Timeframes /\ minute \in 0..Day - 1 /\ 3 \in Timeframes
  BY ClockAssumption DEF Init, Loops
<1>2. next.at \in 0..Day - 1 /\ next.said = minute
      /\ next.at = GetNextTimeframeTime(minute, minutes["main"])
      /\ (minute < next.at \/ next.at = 0)
  <2>1. next = [at |-> GetNextTimeframeTime(minute, minutes["main"]), said |-> minute]
    BY DEF Init, Announcement
  <2> QED BY <1>1, <2>1, NextInDay
<1>3. TypeOK
  <2>1. next \in [at : 0..Day - 1, said : 0..Day - 1]
    BY <1>1, <1>2 DEF Init, Announcement
  <2>2. slot \in 0..Slots - 1
    BY ClockAssumption DEF Init, Loops
  <2>3. minutes \in [Loops -> Timeframes]
    BY <1>1 DEF Init
  <2>4. /\ tick \in [Loops -> 0..1] /\ begun \in [Loops -> 0..2]
        /\ loop \in [Loops -> {"wait", "run", "stopped"}] /\ held \subseteq Loops
    BY DEF Init
  <2>5. signal \in BOOLEAN
    BY Zenon DEF Init
  <2> QED BY <1>1, <2>1, <2>2, <2>3, <2>4, <2>5, Zenon DEF TypeOK
<1>4. CountInv /\ ServedInv
  BY DEF Init, CountInv, ServedInv
<1>5. AnnouncedInv
  BY <1>1, <1>2 DEF Init, AnnouncedInv, Loops
<1> QED BY <1>3, <1>4, <1>5 DEF ClockInv

\* The trading loop does not leave the minute that it announced without a run.
LEMMA StaysUntilServed ==
    ASSUME ClockInv, Pass, slot = Slots - 1, loop["main"] = "wait", next # NotSaid,
           minute = next.at
    PROVE  minute = next.said
<1> SUFFICES ASSUME minute # next.said PROVE FALSE
  OBVIOUS
<1>1. "main" \in held /\ minutes["main"] \in Timeframes /\ next.said \in 0..Day - 1
      /\ next.at = GetNextTimeframeTime(next.said, minutes["main"])
      /\ ~(begun["main"] > 0)
  BY DEF ClockInv, TypeOK, AnnouncedInv, Loops
<1>2. IsOnTimeframe(minutes["main"])
  BY <1>1, NextBoundary DEF IsOnTimeframe
<1>3. slot >= TickAt["main"]
  BY ClockAssumption DEF Loops
<1>4. tick["main"] = 1
  BY <1>1, <1>2, <1>3 DEF ClockInv, ServedInv
<1> QED BY <1>4 DEF Pass, Urgent, Loops

\* Time passes within a minute or on to the next.
LEMMA PassKeeps == ASSUME ClockInv, Pass PROVE ClockInv'
<1>1. TypeOK /\ CountInv /\ ServedInv /\ AnnouncedInv
  BY DEF ClockInv
<1>2. /\ minutes' = minutes /\ loop' = loop /\ signal' = signal /\ next' = next
      /\ tick' = [l \in Loops |-> IF slot' = TickAt[l] THEN 1 ELSE tick[l]]
  BY DEF Pass, Tick
<1>3. Slots \in Nat \ {0} /\ Day \in Nat \ {0} /\ TickAt \in [Loops -> 0..Slots - 1]
  BY ClockAssumption
<1>4. CASE slot < Slots - 1
  <2>1. slot' = slot + 1 /\ minute' = minute /\ begun' = begun /\ held' = held
    BY <1>1, <1>3, <1>4 DEF Pass, TypeOK
  <2>2. TypeOK'
    BY <1>1, <1>2, <1>3, <1>4, <2>1 DEF TypeOK
  <2>3. CountInv'
    BY <1>1, <1>2, <1>3, <2>1 DEF TypeOK, CountInv
  <2>4. ServedInv'
    BY <1>1, <1>2, <1>3, <2>1 DEF TypeOK, ServedInv, IsOnTimeframe
  <2>5. AnnouncedInv'
    BY <1>1, <1>2, <2>1 DEF AnnouncedInv
  <2> QED BY <2>2, <2>3, <2>4, <2>5 DEF ClockInv
<1>5. CASE slot = Slots - 1
  <2>1. /\ slot' = 0 /\ minute' = IF minute = Day - 1 THEN 0 ELSE minute + 1
        /\ begun' = [l \in Loops |-> 0] /\ held' = Loops
    BY <1>1, <1>3, <1>5 DEF Pass, TypeOK
  <2>2. TypeOK'
    BY <1>1, <1>2, <1>3, <2>1 DEF TypeOK
  <2>3. CountInv'
    BY <1>1, <1>2, <1>3, <2>1 DEF TypeOK, CountInv
  <2>4. ServedInv'
    BY <1>1, <1>2, <1>3, <2>1 DEF TypeOK, ServedInv
  <2>5. AnnouncedInv'
    <3> SUFFICES ASSUME loop["main"] = "wait", next # NotSaid
                 PROVE  \/ next.said < next.at /\ minute' \in next.said..next.at
                        \/ next.at = 0 /\ (minute' >= next.said \/ minute' = 0)
      BY <1>1, <1>2, <2>1 DEF AnnouncedInv, Loops
    <3>1. /\ next.at \in 0..Day - 1 /\ next.said \in 0..Day - 1 /\ minute \in 0..Day - 1
          /\ \/ next.said < next.at /\ minute \in next.said..next.at
             \/ next.at = 0 /\ (minute >= next.said \/ minute = 0)
      BY <1>1 DEF TypeOK, AnnouncedInv
    <3>2. minute = next.at => minute = next.said
      BY <1>5, StaysUntilServed
    <3> QED BY <1>3, <2>1, <3>1, <3>2
  <2> QED BY <2>2, <2>3, <2>4, <2>5 DEF ClockInv
<1> QED BY <1>1, <1>3, <1>4, <1>5 DEF TypeOK

\* A tick is exchanged for a run or for nothing.
LEMMA TakeTickKeeps == ASSUME ClockInv, NEW l \in Loops, TakeTick(l) PROVE ClockInv'
<1>1. TypeOK /\ CountInv /\ ServedInv /\ AnnouncedInv
  BY DEF ClockInv
<1>2. /\ minute' = minute /\ slot' = slot /\ minutes' = minutes /\ signal' = signal
      /\ next' = next /\ held' = held
      /\ loop[l] = "wait" /\ tick[l] = 1 /\ tick' = [tick EXCEPT ![l] = 0]
  BY DEF TakeTick
<1>3. CASE IsOnTimeframe(minutes[l])
  <2>1. /\ loop' = [loop EXCEPT ![l] = "run"] /\ begun' = [begun EXCEPT ![l] = @ + 1]
    BY <1>3 DEF TakeTick
  <2>2. CountInv'
    BY <1>1, <1>2, <2>1, ClockAssumption DEF TypeOK, CountInv
  <2>3. begun[l] + 1 \in 0..2
    BY <1>1, <1>2, ClockAssumption DEF TypeOK, CountInv
  <2>4. TypeOK'
    BY <1>1, <1>2, <2>1, <2>3 DEF TypeOK
  <2>5. ServedInv'
    BY <1>1, <1>2, <2>1 DEF TypeOK, ServedInv, IsOnTimeframe
  <2>6. AnnouncedInv'
    BY <1>1, <1>2, <2>1 DEF TypeOK, AnnouncedInv
  <2> QED BY <2>2, <2>4, <2>5, <2>6 DEF ClockInv
<1>4. CASE ~IsOnTimeframe(minutes[l])
  <2>1. loop' = loop /\ begun' = begun
    BY <1>4 DEF TakeTick
  <2>2. TypeOK' /\ CountInv'
    BY <1>1, <1>2, <2>1, ClockAssumption DEF TypeOK, CountInv
  <2>3. ServedInv'
    BY <1>1, <1>2, <1>4, <2>1 DEF TypeOK, ServedInv, IsOnTimeframe
  <2>4. AnnouncedInv'
    BY <1>1, <1>2, <2>1 DEF AnnouncedInv
  <2> QED BY <2>2, <2>3, <2>4 DEF ClockInv
<1> QED BY <1>3, <1>4

\* A run ends; the trading loop announces the next.
LEMMA EndRunKeeps == ASSUME ClockInv, NEW l \in Loops, EndRun(l) PROVE ClockInv'
<1>1. TypeOK /\ CountInv /\ ServedInv /\ AnnouncedInv
  BY DEF ClockInv
<1>2. /\ UNCHANGED <<minute, slot, minutes, tick, signal, begun, held>>
      /\ loop[l] = "run" /\ loop' = [loop EXCEPT ![l] = "wait"]
  BY DEF EndRun
<1>3. CountInv' /\ ServedInv'
  BY <1>1, <1>2 DEF CountInv, ServedInv, IsOnTimeframe
<1>4. CASE l = "main"
  <2>1. next' = [at |-> GetNextTimeframeTime(minute, minutes["main"]), said |-> minute]
    BY <1>4 DEF EndRun, Announcement
  <2>2. minute \in 0..Day - 1 /\ minutes["main"] \in Timeframes
    BY <1>1 DEF TypeOK, Loops
  <2>3. next'.at \in 0..Day - 1 /\ (minute < next'.at \/ next'.at = 0)
    BY <2>1, <2>2, NextInDay
  <2>4. TypeOK'
    <3>1. next' \in [at : 0..Day - 1, said : 0..Day - 1]
      BY <2>1, <2>2, <2>3
    <3> QED BY <1>1, <1>2, <3>1 DEF TypeOK
  <2>5. AnnouncedInv'
    BY <1>2, <2>1, <2>2, <2>3 DEF AnnouncedInv
  <2> QED BY <1>3, <2>4, <2>5 DEF ClockInv
<1>5. CASE l # "main"
  <2>1. next' = next /\ loop'["main"] = loop["main"]
    BY <1>1, <1>2, <1>5 DEF EndRun, TypeOK, Loops
  <2>2. TypeOK'
    BY <1>1, <1>2, <2>1 DEF TypeOK
  <2>3. AnnouncedInv'
    BY <1>1, <1>2, <2>1 DEF AnnouncedInv
  <2> QED BY <1>3, <2>2, <2>3 DEF ClockInv
<1> QED BY <1>4, <1>5

\* Signals and new timeframes.
LEMMA OthersKeep ==
    ASSUME ClockInv, \/ Signal \/ HandleSignal \/ vars' = vars
                 \/ \E m \in Timeframes : UpdateTimeframe(m)
    PROVE  ClockInv'
<1>1. TypeOK /\ CountInv /\ ServedInv /\ AnnouncedInv
  BY DEF ClockInv
<1>2. CASE Signal
  <2>1. UNCHANGED <<minute, slot, minutes, tick, loop, next, begun, held>> /\ signal' = TRUE
    BY <1>2 DEF Signal
  <2>2. TypeOK'
    BY <1>1, <2>1 DEF TypeOK
  <2> QED BY <1>1, <2>1, <2>2
        DEF ClockInv, CountInv, ServedInv, AnnouncedInv, IsOnTimeframe
<1>3. CASE HandleSignal
  <2>1. UNCHANGED <<minute, slot, minutes, tick, signal, next, begun, held>>
        /\ loop' = [l \in Loops |-> "stopped"]
    BY <1>3 DEF HandleSignal
  <2>2. TypeOK'
    BY <1>1, <2>1 DEF TypeOK
  <2>3. loop'["main"] # "wait"
    BY <2>1 DEF Loops
  <2> QED BY <1>1, <2>1, <2>2, <2>3
        DEF ClockInv, CountInv, ServedInv, AnnouncedInv, IsOnTimeframe
<1>4. CASE vars' = vars
  BY <1>1, <1>4 DEF vars, ClockInv, TypeOK, CountInv, ServedInv, AnnouncedInv, IsOnTimeframe
<1>5. ASSUME NEW m \in Timeframes, UpdateTimeframe(m)
      PROVE  ClockInv'
  <2>1. /\ UNCHANGED <<minute, slot, tick, loop, signal, begun>>
        /\ minutes' = [minutes EXCEPT !["main"] = m] /\ next' = NotSaid
        /\ held' = held \ {"main"}
    BY <1>5 DEF UpdateTimeframe
  <2>2. TypeOK'
    BY <1>1, <2>1 DEF TypeOK
  <2>3. CountInv'
    BY <1>1, <2>1 DEF CountInv
  <2>4. ServedInv'
    BY <1>1, <2>1 DEF TypeOK, ServedInv, IsOnTimeframe
  <2>5. AnnouncedInv'
    BY <2>1 DEF AnnouncedInv
  <2> QED BY <2>2, <2>3, <2>4, <2>5 DEF ClockInv
<1> QED BY <1>2, <1>3, <1>4, <1>5

\* The invariant of the two loops and their tickers is inductive.
THEOREM ClockInvariance == Spec => []ClockInv
<1>1. ClockInv /\ [Next]_vars => ClockInv'
  BY PassKeeps, TakeTickKeeps, EndRunKeeps, OthersKeep DEF Next
<1> QED BY InitEstablishes, <1>1, PTL DEF Spec

\* Every variable keeps its type; the time that is announced is one of the day.
THEOREM ClockTypeCorrect == Spec => []TypeOK
<1>1. ClockInv => TypeOK
  BY DEF ClockInv
<1> QED BY ClockInvariance, <1>1, PTL

\* No minute begins three runs of a loop, however long runs are.
THEOREM TwoAtMost == Spec => []AtMostTwo
<1>1. ClockInv => AtMostTwo
  BY DEF ClockInv, TypeOK, AtMostTwo
<1> QED BY ClockInvariance, <1>1, PTL

\* A loop that waits serves every boundary.
THEOREM BoundariesServed == Spec => []BoundaryServed
<1>1. ClockInv => BoundaryServed
  BY DEF ClockInv, ServedInv, BoundaryServed
<1> QED BY ClockInvariance, <1>1, PTL

\* The trading loop runs when it said it would: the boundary that
\* GetNextTimeframeTime gives is the first that IsOnTimeframe finds.
THEOREM AnnouncementsKept == Spec => AnnouncedKept
<1> DEFINE Back == loop["main"] = "wait" /\ loop'["main"] = "run" /\ next # NotSaid
                     => minute \in {next.at, next.said}
<1>1. ClockInv /\ [Next]_vars => [Back]_vars
  <2> SUFFICES ASSUME ClockInv, Next, loop["main"] = "wait", loop'["main"] = "run", next # NotSaid
               PROVE  minute \in {next.at, next.said}
    BY DEF vars
  <2>1. IsOnTimeframe(minutes["main"])
    <3>1. TypeOK
      BY DEF ClockInv
    <3>2. PICK l \in Loops : TakeTick(l)
      BY <3>1 DEF Next, Pass, EndRun, Signal, HandleSignal, UpdateTimeframe, TypeOK, Loops
    <3>3. l = "main"
      BY <3>1, <3>2 DEF TakeTick, TypeOK, Loops
    <3> QED BY <3>2, <3>3 DEF TakeTick
  <2>2. /\ minute \in 0..Day - 1 /\ next.said \in 0..Day - 1 /\ next.at \in 0..Day - 1
        /\ minutes["main"] \in Timeframes
        /\ next.at = GetNextTimeframeTime(next.said, minutes["main"])
        /\ \/ next.said < next.at /\ minute \in next.said..next.at
           \/ next.at = 0 /\ (minute >= next.said \/ minute = 0)
    BY DEF ClockInv, TypeOK, AnnouncedInv, Loops
  <2> DEFINE Off(x) == x % minutes["main"] # 0
  <2>3. \/ next.at \in next.said + 1..Day - 1 /\ \A x \in next.said + 1..next.at - 1 : Off(x)
        \/ next.at = 0 /\ \A x \in next.said + 1..Day - 1 : Off(x)
    BY <2>2, NextBoundary
  <2>4. ~Off(minute)
    BY <2>1 DEF IsOnTimeframe
  <2> HIDE DEF Off
  <2> QED BY <2>2, <2>3, <2>4, ClockAssumption
<1> QED BY ClockInvariance, <1>1, PTL DEF Spec, AnnouncedKept
=============================================================================
