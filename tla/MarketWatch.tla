---------------------------- MODULE MarketWatch ----------------------------
(***************************************************************************)
(* What is computed from candles, by the two users of market_data.go: the  *)
(* analyst of the trading loop, and the goroutines of TrailingStopManager, *)
(* one per position and round, which share a cache of the ATR.  They share *)
(* the process as well: a panic in one ends all.                           *)
(*                                                                         *)
(* Of a cached ATR it counts when its candles were fetched and when it was *)
(* stored.  When a round begins is module TradingClock and what is done    *)
(* with the ATR is module StopLossManager; here both happen at any time.   *)
(***************************************************************************)
EXTENDS Indicators

CONSTANTS
    Symbols,  \* symbols with a position
    TTL,      \* atrCacheTTL
    Counts,   \* how many candles the exchange may have for what is asked
    Faults,   \* {"fetch"} when it may fail, or give an ATR that is not positive
    MaxTime   \* bound: the time

ASSUME WatchAssumption ==
    /\ TTL \in Nat \ {0}
    /\ Counts \subseteq Nat
    /\ Faults \subseteq {"fetch"}
    /\ MaxTime \in Nat

VARIABLES
    now,        \* the time
    cache,      \* atrCache
    cacheTime,  \* atrCacheTime, one for all symbols
    pc,         \* where the goroutine of each symbol is
    job,        \* its local variables
    analysed,   \* the candles of the last analysis
    died        \* how many candles ended the process, 0 while it runs

vars == <<now, cache, cacheTime, pc, job, analysed, died>>

\* No ATR in the cache; the time begins at 1.
None == [made |-> 0, stored |-> 0]

\* old: cachedATR; made: when the candles at hand were fetched.
NoJob == [old |-> None, made |-> 0]

\* One table for all states.
Indicated == [n \in Counts \ {0} |-> [name \in DOMAIN WarmUp |-> Last(n, name)]]
Reported ==
    [n \in Counts \ {0} |->
       [report |-> FormatIndicatorReport(n), longer |-> FormatLongerTimeframeReport(n),
        frames |-> GetMultiTimeframeIndicators(n)]]

\* The calculation over n candles: without any there is nothing to calculate.
Panics(n) == n # 0 /\ IndexOutOfRange(n, 14)

Goto(s, label) == pc' = [pc EXCEPT ![s] = label]

Finish(s) ==
    /\ Goto(s, "idle")
    /\ job' = [job EXCEPT ![s] = NoJob]

-----------------------------------------------------------------------------
(* The trailing goroutines *)

\* updateAllPositions: a goroutine per position, once those of the last round
\* have finished.
StartRound(positions) ==
    /\ died = 0
    /\ \A s \in Symbols : pc[s] = "idle"
    /\ pc' = [s \in Symbols |-> IF s \in positions THEN "read" ELSE "idle"]
    /\ UNCHANGED <<now, cache, cacheTime, job, analysed, died>>

\* Without a price the round of this position ends before the ATR is asked for.
GiveUp(s) ==
    /\ died = 0
    /\ "fetch" \in Faults
    /\ pc[s] = "read"
    /\ Finish(s)
    /\ UNCHANGED <<now, cache, cacheTime, analysed, died>>

\* A slip: the age is not looked at.
ReadUntimed(s) ==
    /\ died = 0
    /\ pc[s] = "read"
    /\ IF cache[s] # None
         THEN Goto(s, "update") /\ UNCHANGED job
         ELSE Goto(s, "fetch") /\ job' = [job EXCEPT ![s] = [old |-> cache[s], made |-> 0]]
    /\ UNCHANGED <<now, cache, cacheTime, analysed, died>>

\* getATRWithCache up to the RUnlock: the symbol's entry, and the age of the
\* cache.
ReadCache(s) ==
    /\ died = 0
    /\ pc[s] = "read"
    /\ IF cache[s] # None /\ now - cacheTime < TTL
         THEN Goto(s, "update") /\ UNCHANGED job
         ELSE Goto(s, "fetch") /\ job' = [job EXCEPT ![s] = [old |-> cache[s], made |-> 0]]
    /\ UNCHANGED <<now, cache, cacheTime, analysed, died>>

\* A slip: after a failure the cache is read again.
FetchAgain(s) ==
    /\ died = 0
    /\ pc[s] = "fetch"
    /\ Goto(s, "read")
    /\ UNCHANGED <<now, cache, cacheTime, job, analysed, died>>

\* fetchATRFromBinance: with fewer than 14 candles, without an ATR, and when the
\* call fails, the old ATR has to do, if there is one.
FetchATR(s) ==
    /\ died = 0
    /\ pc[s] = "fetch"
    /\ \E n \in Counts :
         \/ /\ n >= 14 /\ ~Panics(n) /\ Indicated[n].atr7 # "nan"
            /\ job' = [job EXCEPT ![s] = [old |-> job[s].old, made |-> now]]
            /\ Goto(s, "store")
            /\ UNCHANGED died
         \/ /\ n >= 14 /\ Panics(n)
            /\ died' = n
            /\ Goto(s, "panic")
            /\ UNCHANGED job
         \/ /\ n < 14 \/ "fetch" \in Faults
            /\ IF job[s].old # None
                 THEN Goto(s, "update") /\ UNCHANGED job
                 ELSE Finish(s)
            /\ UNCHANGED died
    /\ UNCHANGED <<now, cache, cacheTime, analysed>>

\* A slip: atrCacheTime is left as it is.
StoreUndated(s) ==
    /\ died = 0
    /\ pc[s] = "store"
    /\ cache' = [cache EXCEPT ![s] = [made |-> job[s].made, stored |-> now]]
    /\ Goto(s, "update")
    /\ UNCHANGED <<now, cacheTime, job, analysed, died>>

\* A slip: the cache is dated when the candles were asked for.
StoreBackdated(s) ==
    /\ died = 0
    /\ pc[s] = "store"
    /\ cache' = [cache EXCEPT ![s] = [made |-> job[s].made, stored |-> now]]
    /\ cacheTime' = job[s].made
    /\ Goto(s, "update")
    /\ UNCHANGED <<now, job, analysed, died>>

\* The rest of getATRWithCache, under the lock.
StoreATR(s) ==
    /\ died = 0
    /\ pc[s] = "store"
    /\ cache' = [cache EXCEPT ![s] = [made |-> job[s].made, stored |-> now]]
    /\ cacheTime' = now
    /\ Goto(s, "update")
    /\ UNCHANGED <<now, job, analysed, died>>

\* AutoUpdateTrailingStop has returned.
UpdateStop(s) ==
    /\ died = 0
    /\ pc[s] = "update"
    /\ Finish(s)
    /\ UNCHANGED <<now, cache, cacheTime, analysed, died>>

-----------------------------------------------------------------------------
(* The analyst *)

\* marketAnalyst and GetMultiTimeframeIndicators calculate over what they get,
\* however little it is, each in a goroutine that nothing recovers.
Analyse(n) ==
    /\ died = 0
    /\ IF Panics(n)
         THEN died' = n /\ UNCHANGED analysed
         ELSE analysed' = n /\ UNCHANGED died
    /\ UNCHANGED <<now, cache, cacheTime, pc, job>>

Tick ==
    /\ now < MaxTime
    /\ now' = now + 1
    /\ UNCHANGED <<cache, cacheTime, pc, job, analysed, died>>

-----------------------------------------------------------------------------

Init ==
    /\ now = 1
    /\ cache = [s \in Symbols |-> None]
    /\ cacheTime = 0
    /\ pc = [s \in Symbols |-> "idle"]
    /\ job = [s \in Symbols |-> NoJob]
    /\ analysed = 0
    /\ died = 0

Work(s) == GiveUp(s) \/ ReadCache(s) \/ FetchATR(s) \/ StoreATR(s) \/ UpdateStop(s)

Next ==
    \/ \E positions \in SUBSET Symbols \ {{}} : StartRound(positions)
    \/ \E s \in Symbols : Work(s)
    \/ \E n \in Counts : Analyse(n)
    \/ Tick

Spec == Init /\ [][Next]_vars

\* Every call of a goroutine returns.
FairSpec == Spec /\ \A s \in Symbols : WF_vars(Work(s))

-----------------------------------------------------------------------------
(* Safety *)

Entry == [made : Nat, stored : Nat]

\* Every variable has its type.
TypeOK ==
    /\ now \in Nat
    /\ cache \in [Symbols -> Entry]
    /\ cacheTime \in Nat
    /\ pc \in [Symbols -> {"idle", "read", "fetch", "store", "update", "panic"}]
    /\ job \in [Symbols -> [old : Entry, made : Nat]]
    /\ analysed \in Counts \cup {0}
    /\ died \in Nat

\* The one time of the cache is that of the ATR stored last.
CacheDated ==
    /\ cacheTime <= now
    /\ \A s \in Symbols :
         /\ cache[s].made <= cache[s].stored
         /\ cache[s].stored <= cacheTime
    /\ cacheTime = 0 \/ \E s \in Symbols : cache[s].stored = cacheTime

\* A symbol whose ATR is being fetched has none, or one that is old enough, and
\* no other goroutine stores one for it meanwhile.
FetchedOld ==
    \A s \in Symbols : pc[s] \in {"fetch", "store"} =>
       /\ job[s].made <= now
       /\ cache[s] = job[s].old
       /\ cache[s] # None => now - cache[s].stored >= TTL

\* The inductive invariant behind the two properties of the cache.
WatchInv == TypeOK /\ CacheDated /\ FetchedOld

\* "Cached for 15 minutes": an ATR is replaced no earlier than that, in
\* whatever order the goroutines of a round read and store.
FetchesSpaced ==
    [][\A s \in Symbols : cache[s] # None /\ cache'[s] # cache[s] =>
          now - cache[s].stored >= TTL]_vars

\* And it passes for a fresh one no longer, unless another symbol's ATR has been
\* stored since: atrCacheTime is one for all.
StaleOnlyThroughOthers ==
    [][\A s \in Symbols : pc[s] = "read" /\ pc'[s] = "update" =>
          \/ now - cache[s].stored < TTL
          \/ \E other \in Symbols : cache[other].stored > cache[s].stored]_vars

\* So that it never does when there is one position only.
FreshAlone ==
    [][\A s \in Symbols : pc[s] = "read" /\ pc'[s] = "update" => now - cache[s].stored < TTL]_vars

\* What the last analysis reads is computed from as many candles as the
\* indicator takes, or NaN; but signal and ADX may be a zero that stands for
\* nothing (and is reported as "no trend").
WarmedUp ==
    analysed # 0 =>
       \A name \in DOMAIN WarmUp :
          LET value == Indicated[analysed][name]
          IN  /\ value = "num" <=> analysed >= WarmUp[name]
              /\ value = "zero" => name \in {"signal", "adx"}

\* The three reports agree on what there is: a value that no candles suffice for
\* is 0.0 or N/A, and a series of the last ten candles begins with the first for
\* which they do; the ADX, reported since the directions are, begins with zeros.
ReportsAgree ==
    analysed # 0 =>
       LET told == Reported[analysed]
           Enough(name, n) == n >= (IF name = "adx" THEN WarmUp.di ELSE WarmUp[name])
           From(name) == {i \in (analysed - 10)..(analysed - 1) : i >= 0 /\ Enough(name, i + 1)}
       IN  /\ \A name \in DOMAIN told.report.values :
                told.report.values[name] = "num" <=> analysed >= WarmUp[name]
           /\ \A name \in DOMAIN told.longer.values :
                told.longer.values[name] = "num" <=> analysed >= WarmUp[name]
           /\ told.longer.volume = Shown(Indicated[analysed].volumeRatio)
           /\ \A name \in DOMAIN told.frames : told.frames[name] = "nan" <=> ~Enough(name, analysed)
           /\ \A name \in DOMAIN told.report.series : told.report.series[name] = From(name)
           /\ \A name \in DOMAIN told.longer.series : told.longer.series[name] = From(name)

\* No other number of candles than 2 to 14 ends the process.
DiesOnlyShort == died # 0 => died \in 2..14

\* The process has not ended.
Alive == died = 0

\* What a goroutine still has before it.
Ahead(label) ==
    CASE label = "read" -> 4
      [] label = "fetch" -> 3
      [] label = "store" -> 2
      [] label = "update" -> 1
      [] OTHER -> 0

\* A goroutine never goes back, and the next round begins when all have ended:
\* a round has four steps for each position at most.
OnlyForward ==
    [][\A s \in Symbols : pc'[s] # pc[s] =>
          \/ Ahead(pc'[s]) < Ahead(pc[s])
          \/ \A other \in Symbols : pc[other] = "idle"]_vars

-----------------------------------------------------------------------------
(* Liveness *)

\* A round comes to its end, so that there is a next one, or the process does.
RoundEnds == (\E s \in Symbols : pc[s] # "idle") ~> (died # 0 \/ \A s \in Symbols : pc[s] = "idle")

-----------------------------------------------------------------------------
(* What a comment of the code says, and the code does not keep *)

\* fetchATRFromBinance: "ATR needs at least 14 Klines", of which it makes sure:
\* the calculation that follows does not panic.
FourteenSuffice == \A s \in Symbols : pc[s] # "panic"
=============================================================================
