------------------------- MODULE MarketWatch_proofs -------------------------
(***************************************************************************)
(* What holds of MarketWatch for any symbols, any TTL, any numbers of      *)
(* candles and any time: the cache of the ATR, the panic, and what the     *)
(* last entry of each indicator is worth.                                  *)
(***************************************************************************)
EXTENDS MarketWatch, Indicators_proofs, TLAPS

-----------------------------------------------------------------------------
(* The cache *)

\* At the start there is nothing in the cache.
LEMMA InitWatchInv == Init => WatchInv
BY WatchAssumption
   DEF Init, WatchInv, TypeOK, CacheDated, FetchedOld, Entry, None, NoJob

\* A panic, if any, is over a number of candles that the exchange may have.
LEMMA DeathStep ==
    ASSUME Next, died \in Nat
    PROVE  /\ died' = died \/ \E n \in Counts : Panics(n) /\ died' = n
           /\ died' \in Nat
<1>1. ASSUME NEW positions \in SUBSET Symbols \ {{}}, StartRound(positions)
      PROVE died' = died
  BY <1>1 DEF StartRound
<1>2. ASSUME NEW s \in Symbols, GiveUp(s) PROVE died' = died
  BY <1>2 DEF GiveUp
<1>3. ASSUME NEW s \in Symbols, ReadCache(s) PROVE died' = died
  BY <1>3 DEF ReadCache
<1>4. ASSUME NEW s \in Symbols, FetchATR(s)
      PROVE died' = died \/ \E n \in Counts : Panics(n) /\ died' = n
  BY <1>4, Zenon DEF FetchATR
<1>5. ASSUME NEW s \in Symbols, StoreATR(s) PROVE died' = died
  BY <1>5 DEF StoreATR
<1>6. ASSUME NEW s \in Symbols, UpdateStop(s) PROVE died' = died
  BY <1>6 DEF UpdateStop
<1>7. ASSUME NEW n \in Counts, Analyse(n)
      PROVE died' = died \/ (Panics(n) /\ died' = n)
  BY <1>7 DEF Analyse
<1>8. CASE Tick
  BY <1>8, WatchAssumption DEF Tick
<1>9. died' = died \/ \E n \in Counts : Panics(n) /\ died' = n
  BY <1>1, <1>2, <1>3, <1>4, <1>5, <1>6, <1>7, <1>8, Zenon DEF Next, Work, Tick
<1> QED
  BY <1>9, WatchAssumption

\* A step leaves the clock, the cache and the goroutines in order.
LEMMA StepWatchInv == WatchInv /\ [Next]_vars => WatchInv'
<1> SUFFICES ASSUME WatchInv, [Next]_vars PROVE WatchInv'
  OBVIOUS
<1> USE WatchAssumption
<1>1. ASSUME NEW positions \in SUBSET Symbols \ {{}}, StartRound(positions) PROVE WatchInv'
  <2>1. pc' \in [Symbols -> {"idle", "read"}]
    BY <1>1 DEF StartRound
  <2>2. \A s \in Symbols : pc'[s] \notin {"fetch", "store"}
    BY <2>1
  <2> QED
    BY <1>1, <2>1, <2>2 DEF StartRound, WatchInv, TypeOK, CacheDated, FetchedOld
<1>2. ASSUME NEW s \in Symbols, Finish(s), UNCHANGED <<now, cache, cacheTime, analysed, died>>
      PROVE WatchInv'
  <2>1. TypeOK'
    BY <1>2 DEF Finish, Goto, WatchInv, TypeOK, NoJob, None, Entry
  <2>2. CacheDated'
    BY <1>2 DEF WatchInv, CacheDated
  <2>3. FetchedOld'
    BY <1>2 DEF Finish, Goto, WatchInv, TypeOK, FetchedOld
  <2> QED
    BY <2>1, <2>2, <2>3 DEF WatchInv
<1>3. ASSUME NEW s \in Symbols, ReadCache(s) PROVE WatchInv'
  <2>1. CASE cache[s] # None /\ now - cacheTime < TTL
    BY <1>3, <2>1 DEF ReadCache, Goto, WatchInv, TypeOK, CacheDated, FetchedOld
  <2>2. CASE ~(cache[s] # None /\ now - cacheTime < TTL)
    <3>1. /\ pc' = [pc EXCEPT ![s] = "fetch"]
          /\ job' = [job EXCEPT ![s] = [old |-> cache[s], made |-> 0]]
          /\ UNCHANGED <<now, cache, cacheTime, analysed, died>>
          /\ pc[s] = "read"
      BY <1>3, <2>2 DEF ReadCache, Goto
    <3>2. TypeOK'
      BY <3>1 DEF WatchInv, TypeOK, Entry
    <3>3. CacheDated'
      BY <3>1 DEF WatchInv, CacheDated
    <3> QED
      BY <3>1, <3>2, <3>3, <2>2 DEF WatchInv, TypeOK, CacheDated, FetchedOld, Entry
  <2> QED
    BY <2>1, <2>2
<1>4. ASSUME NEW s \in Symbols, FetchATR(s) PROVE WatchInv'
  <2>1. CASE /\ job' = [job EXCEPT ![s] = [old |-> job[s].old, made |-> now]]
             /\ Goto(s, "store")
             /\ UNCHANGED died
    <3>1. UNCHANGED <<now, cache, cacheTime, analysed>> /\ pc[s] = "fetch"
      BY <1>4 DEF FetchATR
    <3>2. TypeOK'
      BY <2>1, <3>1 DEF Goto, WatchInv, TypeOK, Entry
    <3>3. CacheDated'
      BY <3>1 DEF WatchInv, CacheDated
    <3>4. FetchedOld'
      BY <2>1, <3>1 DEF Goto, WatchInv, TypeOK, FetchedOld
    <3> QED
      BY <3>2, <3>3, <3>4 DEF WatchInv
  <2>2. CASE Goto(s, "panic") /\ UNCHANGED job
    <3>1. UNCHANGED <<now, cache, cacheTime, analysed>>
      BY <1>4 DEF FetchATR
    <3>2. died' \in Nat
      BY <1>4, DeathStep DEF Next, Work, WatchInv, TypeOK
    <3> QED
      BY <2>2, <3>1, <3>2 DEF Goto, WatchInv, TypeOK, CacheDated, FetchedOld
  <2>3. CASE Goto(s, "update") /\ UNCHANGED <<job, died>>
    <3>1. UNCHANGED <<now, cache, cacheTime, analysed>>
      BY <1>4 DEF FetchATR
    <3> QED
      BY <2>3, <3>1 DEF Goto, WatchInv, TypeOK, CacheDated, FetchedOld
  <2>4. CASE Finish(s) /\ UNCHANGED died
    BY <1>2, <1>4, <2>4 DEF FetchATR
  <2> QED
    BY <1>4, <2>1, <2>2, <2>3, <2>4, Zenon DEF FetchATR
<1>5. ASSUME NEW s \in Symbols, StoreATR(s) PROVE WatchInv'
  <2> DEFINE stored == [made |-> job[s].made, stored |-> now]
  <2>1. /\ cache' = [cache EXCEPT ![s] = stored]
        /\ pc' = [pc EXCEPT ![s] = "update"]
        /\ cacheTime' = now
        /\ UNCHANGED <<now, job, analysed, died>>
        /\ pc[s] = "store"
    BY <1>5 DEF StoreATR, Goto
  <2>2. stored \in Entry /\ stored.stored = now /\ stored.made <= now
    BY <2>1 DEF WatchInv, TypeOK, Entry, FetchedOld
  <2> HIDE DEF stored
  <2>3. TypeOK'
    BY <2>1, <2>2 DEF WatchInv, TypeOK
  <2>4. CacheDated'
    BY <2>1, <2>2 DEF WatchInv, TypeOK, CacheDated, Entry
  <2>5. FetchedOld'
    BY <2>1, <2>2 DEF WatchInv, TypeOK, FetchedOld
  <2> QED
    BY <2>3, <2>4, <2>5 DEF WatchInv
<1>6. ASSUME NEW n \in Counts, Analyse(n) PROVE WatchInv'
  <2>1. died' \in Nat
    BY <1>6, DeathStep DEF Next, WatchInv, TypeOK
  <2> QED
    BY <1>6, <2>1 DEF Analyse, WatchInv, TypeOK, CacheDated, FetchedOld
<1>7. CASE Tick
  BY <1>7 DEF Tick, WatchInv, TypeOK, CacheDated, FetchedOld, Entry
<1>8. CASE UNCHANGED vars
  BY <1>8 DEF vars, WatchInv, TypeOK, CacheDated, FetchedOld
<1>9. ASSUME NEW s \in Symbols, GiveUp(s) PROVE WatchInv'
  BY <1>2, <1>9 DEF GiveUp
<1>10. ASSUME NEW s \in Symbols, UpdateStop(s) PROVE WatchInv'
  BY <1>2, <1>10 DEF UpdateStop
<1> QED
  BY <1>1, <1>3, <1>4, <1>5, <1>6, <1>7, <1>8, <1>9, <1>10, Zenon DEF Next, Work

\* The cache of the ATR and the goroutines that use it agree on its age, for
\* any number of symbols.
THEOREM WatchInvariant == Spec => []WatchInv
BY InitWatchInv, StepWatchInv, PTL DEF Spec

\* A cached ATR is replaced only when the time to live of the whole cache is
\* over, whatever the goroutines of a round do in between.
THEOREM FetchesAreSpaced == Spec => FetchesSpaced
<1> DEFINE Spaced == \A s \in Symbols : cache[s] # None /\ cache'[s] # cache[s] =>
                        now - cache[s].stored >= TTL
<1>1. WatchInv /\ [Next]_vars => Spaced \/ UNCHANGED vars
  <2> SUFFICES ASSUME WatchInv, Next PROVE Spaced
    OBVIOUS
  <2>1. ASSUME NEW s \in Symbols, StoreATR(s) PROVE Spaced
    <3>1. \A other \in Symbols \ {s} : cache'[other] = cache[other]
      BY <2>1 DEF StoreATR, WatchInv, TypeOK
    <3>2. cache[s] # None => now - cache[s].stored >= TTL
      BY <2>1 DEF StoreATR, WatchInv, FetchedOld
    <3> QED
      BY <3>1, <3>2, Zenon
  <2>2. ASSUME UNCHANGED cache PROVE Spaced
    BY <2>2
  <2> QED
    BY <2>1, <2>2, Zenon
       DEF Next, Work, StartRound, GiveUp, ReadCache, FetchATR, UpdateStop, Analyse, Tick
<1> QED
  BY <1>1, WatchInvariant, PTL DEF Spec, FetchesSpaced

\* An ATR older than the time to live passes for a fresh one only when another
\* symbol's has been stored after it.
THEOREM StaleThroughOthers == Spec => StaleOnlyThroughOthers
<1> DEFINE Dated == \A s \in Symbols : pc[s] = "read" /\ pc'[s] = "update" =>
                       \/ now - cache[s].stored < TTL
                       \/ \E other \in Symbols : cache[other].stored > cache[s].stored
<1>1. WatchInv /\ [Next]_vars => Dated \/ UNCHANGED vars
  <2> SUFFICES ASSUME WatchInv, Next,
                      NEW s \in Symbols, pc[s] = "read", pc'[s] = "update"
               PROVE  \/ now - cache[s].stored < TTL
                      \/ \E other \in Symbols : cache[other].stored > cache[s].stored
    OBVIOUS
  <2>1. cache[s] # None /\ now - cacheTime < TTL
    <3>1. ASSUME NEW t \in Symbols, ReadCache(t) PROVE cache[s] # None /\ now - cacheTime < TTL
      BY <3>1 DEF ReadCache, Goto, WatchInv, TypeOK
    <3>2. ASSUME NEW t \in Symbols, FetchATR(t) \/ StoreATR(t) \/ UpdateStop(t) \/ GiveUp(t) PROVE FALSE
      BY <3>2 DEF FetchATR, StoreATR, UpdateStop, GiveUp, Finish, Goto, WatchInv, TypeOK
    <3>3. ASSUME NEW positions \in SUBSET Symbols \ {{}}, StartRound(positions) PROVE FALSE
      BY <3>3 DEF StartRound
    <3>4. ASSUME pc' = pc PROVE FALSE
      BY <3>4
    <3> QED
      BY <3>1, <3>2, <3>3, <3>4, Zenon DEF Next, Work, Analyse, Tick
  <2>2. /\ now \in Nat /\ cacheTime \in Nat /\ TTL \in Nat
        /\ \A t \in Symbols : cache[t].stored \in Nat /\ cache[t].stored <= cacheTime
    BY WatchAssumption DEF WatchInv, TypeOK, CacheDated, Entry
  <2>3. CASE cache[s].stored = cacheTime
    BY <2>1, <2>2, <2>3
  <2>4. CASE cache[s].stored # cacheTime
    <3>1. PICK other \in Symbols : cache[other].stored = cacheTime
      BY <2>2, <2>4 DEF WatchInv, CacheDated
    <3> QED
      BY <2>2, <2>4, <3>1
  <2> QED
    BY <2>3, <2>4
<1> QED
  BY <1>1, WatchInvariant, PTL DEF Spec, StaleOnlyThroughOthers

\* One time for all symbols is no loss while there is one symbol.
THEOREM AloneIsFresh ==
    ASSUME NEW symbol, Symbols = {symbol} PROVE Spec => FreshAlone
<1> DEFINE Dated == \A s \in Symbols : pc[s] = "read" /\ pc'[s] = "update" =>
                       \/ now - cache[s].stored < TTL
                       \/ \E other \in Symbols : cache[other].stored > cache[s].stored
           Fresh == \A s \in Symbols : pc[s] = "read" /\ pc'[s] = "update" =>
                       now - cache[s].stored < TTL
<1>1. WatchInv /\ [Dated]_vars => [Fresh]_vars
  <2> SUFFICES ASSUME WatchInv, Dated, NEW s \in Symbols, pc[s] = "read", pc'[s] = "update"
               PROVE  now - cache[s].stored < TTL
    OBVIOUS
  <2>1. \A other \in Symbols : other = s
    OBVIOUS
  <2>2. cache[s].stored \in Nat
    BY DEF WatchInv, TypeOK, Entry
  <2> QED BY <2>1, <2>2
<1>2. Spec => [][Dated]_vars
  BY StaleThroughOthers DEF StaleOnlyThroughOthers
<1> QED
  BY <1>1, <1>2, WatchInvariant, PTL DEF FreshAlone

-----------------------------------------------------------------------------
(* The panic *)

\* The sum of calculateADX has an entry to go to unless there are 2 to 14
\* candles, and with those it never has.
THEOREM PanicRange ==
    ASSUME NEW n \in Nat PROVE Panics(n) <=> n \in 2..14
<1>1. Panics(n) => n \in 2..14
  BY DEF Panics, IndexOutOfRange, Index
<1>2. n \in 2..14 => Panics(n)
  <2> SUFFICES ASSUME n \in 2..14 PROVE \E i \in 1..14 : i < n /\ 14 \notin Index(n)
    BY DEF Panics, IndexOutOfRange
  <2>1. 1 \in 1..14 /\ 1 < n /\ 14 \notin Index(n)
    BY DEF Index
  <2> QED BY <2>1
<1> QED BY <1>1, <1>2

\* Whatever the exchange has, no other number of candles ends the process.
THEOREM ShortDeaths == Spec => []DiesOnlyShort
<1>1. Init => DiesOnlyShort
  BY DEF Init, DiesOnlyShort
<1>2. WatchInv /\ DiesOnlyShort /\ [Next]_vars => DiesOnlyShort'
  <2> SUFFICES ASSUME WatchInv, DiesOnlyShort, [Next]_vars PROVE DiesOnlyShort'
    OBVIOUS
  <2>1. CASE Next
    <3>1. died' = died \/ \E n \in Counts : Panics(n) /\ died' = n
      BY <2>1, DeathStep DEF WatchInv, TypeOK
    <3> QED
      BY <3>1, PanicRange, WatchAssumption DEF DiesOnlyShort
  <2>2. CASE UNCHANGED vars
    BY <2>2 DEF vars, DiesOnlyShort
  <2> QED
    BY <2>1, <2>2
<1> QED
  BY <1>1, <1>2, WatchInvariant, PTL DEF Spec

\* An exchange that never gives 2 to 14 candles, as one with a history does,
\* never ends the process.
THEOREM LongHistoriesLive ==
    ASSUME Counts \cap (2..14) = {} PROVE Spec => []Alive
<1>1. Init => Alive
  BY DEF Init, Alive
<1>2. WatchInv /\ Alive /\ [Next]_vars => Alive'
  <2> SUFFICES ASSUME WatchInv, Alive, [Next]_vars PROVE Alive'
    OBVIOUS
  <2>1. CASE Next
    <3>1. died' = died \/ \E n \in Counts : Panics(n) /\ died' = n
      BY <2>1, DeathStep DEF WatchInv, TypeOK
    <3> QED
      BY <3>1, PanicRange, WatchAssumption DEF Alive
  <2>2. CASE UNCHANGED vars
    BY <2>2 DEF vars, Alive
  <2> QED
    BY <2>1, <2>2
<1> QED
  BY <1>1, <1>2, WatchInvariant, PTL DEF Spec

\* How a goroutine goes on.
LEMMA WhereTo ==
    ASSUME WatchInv, Next, NEW s \in Symbols, pc'[s] # pc[s]
    PROVE  \/ pc[s] \in {"read", "update"} /\ pc'[s] = "idle"
           \/ pc[s] = "read" /\ pc'[s] \in {"fetch", "update"}
           \/ pc[s] = "fetch" /\ pc'[s] \in {"store", "update", "idle"}
           \/ pc[s] = "fetch" /\ pc'[s] = "panic" /\ \E n \in Counts : n >= 14 /\ Panics(n)
           \/ pc[s] = "store" /\ pc'[s] = "update"
           \/ \A other \in Symbols : pc[other] = "idle" /\ pc'[other] \in {"idle", "read"}
<1> DEFINE Goal == \/ pc[s] \in {"read", "update"} /\ pc'[s] = "idle"
                   \/ pc[s] = "read" /\ pc'[s] \in {"fetch", "update"}
                   \/ pc[s] = "fetch" /\ pc'[s] \in {"store", "update", "idle"}
                   \/ pc[s] = "fetch" /\ pc'[s] = "panic" /\ \E n \in Counts : n >= 14 /\ Panics(n)
                   \/ pc[s] = "store" /\ pc'[s] = "update"
                   \/ \A other \in Symbols : pc[other] = "idle" /\ pc'[other] \in {"idle", "read"}
<1>1. ASSUME NEW positions \in SUBSET Symbols \ {{}}, StartRound(positions) PROVE Goal
  BY <1>1 DEF StartRound
<1>2. ASSUME NEW t \in Symbols, NEW label, Goto(t, label) PROVE t = s /\ pc'[s] = label
  BY <1>2 DEF Goto, WatchInv, TypeOK
<1>3. ASSUME NEW t \in Symbols, GiveUp(t) \/ UpdateStop(t) PROVE Goal
  BY <1>2, <1>3 DEF GiveUp, UpdateStop, Finish
<1>4. ASSUME NEW t \in Symbols, ReadCache(t) PROVE Goal
  <2>1. pc[t] = "read" /\ (Goto(t, "update") \/ Goto(t, "fetch"))
    BY <1>4, Zenon DEF ReadCache
  <2> QED BY <1>2, <2>1
<1>5. ASSUME NEW t \in Symbols, FetchATR(t) PROVE Goal
  <2>1. /\ pc[t] = "fetch"
        /\ \/ Goto(t, "store") \/ Goto(t, "update") \/ Goto(t, "idle")
           \/ Goto(t, "panic") /\ \E n \in Counts : n >= 14 /\ Panics(n)
    BY <1>5, Zenon DEF FetchATR, Finish
  <2> QED BY <1>2, <2>1
<1>6. ASSUME NEW t \in Symbols, StoreATR(t) PROVE Goal
  BY <1>2, <1>6 DEF StoreATR
<1>7. ASSUME UNCHANGED pc PROVE Goal
  BY <1>7
<1> QED
  BY <1>1, <1>3, <1>4, <1>5, <1>6, <1>7 DEF Next, Work, Analyse, Tick

\* The bound of fetchATRFromBinance is one too low and no more: only fourteen
\* candles end the process in a trailing goroutine.
THEOREM OnlyFourteen ==
    ASSUME 14 \notin Counts PROVE Spec => []FourteenSuffice
<1>1. Init => FourteenSuffice
  BY DEF Init, FourteenSuffice
<1>2. WatchInv /\ FourteenSuffice /\ [Next]_vars => FourteenSuffice'
  <2> SUFFICES ASSUME WatchInv, FourteenSuffice, Next, NEW s \in Symbols, pc'[s] = "panic"
               PROVE  FALSE
    BY DEF FourteenSuffice, vars
  <2>1. pc'[s] # pc[s]
    BY DEF FourteenSuffice
  <2>2. PICK n \in Counts : n >= 14 /\ Panics(n)
    BY <2>1, WhereTo
  <2>3. n \in Nat /\ n \in 2..14
    BY <2>2, PanicRange, WatchAssumption
  <2> QED BY <2>2, <2>3
<1> QED
  BY <1>1, <1>2, WatchInvariant, PTL DEF Spec

\* Every goroutine of a round is on its way to its end.
THEOREM RoundsGoForward == Spec => OnlyForward
<1> DEFINE Forward == \A s \in Symbols : pc'[s] # pc[s] =>
                         \/ Ahead(pc'[s]) < Ahead(pc[s])
                         \/ \A other \in Symbols : pc[other] = "idle"
<1>1. WatchInv /\ [Next]_vars => [Forward]_vars
  <2> SUFFICES ASSUME WatchInv, Next, NEW s \in Symbols, pc'[s] # pc[s]
               PROVE  \/ Ahead(pc'[s]) < Ahead(pc[s])
                      \/ \A other \in Symbols : pc[other] = "idle"
    OBVIOUS
  <2> QED BY WhereTo DEF Ahead
<1> QED
  BY <1>1, WatchInvariant, PTL DEF Spec, OnlyForward

-----------------------------------------------------------------------------
(* What the analyst reads *)

\* The tables hold what their names say.
LEMMA Tables ==
    ASSUME WatchInv, analysed # 0
    PROVE  /\ analysed \in Nat \ {0}
           /\ \A name \in DOMAIN WarmUp : Indicated[analysed][name] = Last(analysed, name)
           /\ Reported[analysed] =
                [report |-> FormatIndicatorReport(analysed),
                 longer |-> FormatLongerTimeframeReport(analysed),
                 frames |-> GetMultiTimeframeIndicators(analysed)]
<1>1. analysed \in Counts \ {0} /\ analysed \in Nat \ {0}
  BY WatchAssumption DEF WatchInv, TypeOK
<1> QED
  BY <1>1 DEF Indicated, Reported

\* What an analysis reads is computed from enough candles or NaN, signal and ADX
\* apart, for every number of candles and not for the few of a run only.
THEOREM AnalysisWarmedUp == Spec => []WarmedUp
<1>1. WatchInv => WarmedUp
  <2> SUFFICES ASSUME WatchInv, analysed # 0, NEW name \in DOMAIN WarmUp
               PROVE  LET value == Indicated[analysed][name]
                      IN  /\ value = "num" <=> analysed >= WarmUp[name]
                          /\ value = "zero" => name \in {"signal", "adx"}
    BY DEF WarmedUp
  <2> QED
    BY Tables, LastEntries
<1> QED
  BY <1>1, WatchInvariant, PTL

\* The reports agree with one another and with the indicators, for every number
\* of candles.
THEOREM ReportsDoAgree == Spec => []ReportsAgree
<1>1. WatchInv => ReportsAgree
  <2> SUFFICES ASSUME WatchInv, analysed # 0 PROVE ReportsAgree
    BY DEF ReportsAgree
  <2> DEFINE n == analysed
             told == Reported[n]
             Enough(name, k) == k >= (IF name = "adx" THEN WarmUp.di ELSE WarmUp[name])
             From(name) == {i \in (n - 10)..(n - 1) : i >= 0 /\ Enough(name, i + 1)}
             Listed == {"ema12", "ema26", "macd", "bands", "rsi7", "rsi", "adx"}
  <2>1. n \in Nat \ {0}
    BY Tables
  <2>2. /\ told.report = FormatIndicatorReport(n)
        /\ told.longer = FormatLongerTimeframeReport(n)
        /\ told.frames = GetMultiTimeframeIndicators(n)
    BY Tables
  <2>3. \A name \in DOMAIN WarmUp : Last(n, name) = "num" <=> n >= WarmUp[name]
    BY <2>1, LastEntries
  <2>4. \A name \in DOMAIN WarmUp \ {"signal", "adx"} : Last(n, name) = "nan" <=> ~Enough(name, n)
    BY <2>1, LastIsNaN
  <2>5. \A name \in DOMAIN WarmUp \ {"signal"} : formatSeries(n, name) = From(name)
    BY <2>1, SeriesEntries
  <2>6. \A value : Shown(value) = "num" <=> value = "num"
    BY DEF Shown
  <2>7. told.longer.volume = Shown(Indicated[n].volumeRatio)
    <3>1. Indicated[n].volumeRatio = Last(n, "volumeRatio") /\ WarmUp.volumeRatio = 20
      BY Tables DEF WarmUp
    <3>2. Last(n, "volumeRatio") = IF n < 20 THEN "nan" ELSE "num"
      BY <2>3, <2>4, <3>1, <2>1 DEF WarmUp
    <3> QED
      BY <2>1, <2>2, <3>1, <3>2 DEF FormatLongerTimeframeReport, Shown
  <2>8. {"ema12", "ema26", "macd", "rsi7", "rsi", "adx"} \subseteq DOMAIN WarmUp
    BY DEF WarmUp
  <2>9. {"ema20", "ema50", "atr3", "atr7", "atr14"} \subseteq DOMAIN WarmUp
    BY DEF WarmUp
  <2>10. /\ {"ema20", "ema50", "macd", "rsi7", "rsi"} \subseteq DOMAIN WarmUp \ {"signal", "adx"}
         /\ Listed \subseteq DOMAIN WarmUp \ {"signal"}
         /\ {"macd", "rsi"} \subseteq DOMAIN WarmUp \ {"signal"}
    BY DEF WarmUp
  <2>11. \A name \in DOMAIN told.report.values :
           told.report.values[name] = "num" <=> n >= WarmUp[name]
    BY <2>2, <2>3, <2>6, <2>8 DEF FormatIndicatorReport
  <2>12. \A name \in DOMAIN told.longer.values :
           told.longer.values[name] = "num" <=> n >= WarmUp[name]
    BY <2>2, <2>3, <2>6, <2>9 DEF FormatLongerTimeframeReport
  <2>13. \A name \in DOMAIN told.frames : told.frames[name] = "nan" <=> ~Enough(name, n)
    BY <2>2, <2>4, <2>10 DEF GetMultiTimeframeIndicators
  <2>14. \A name \in DOMAIN told.report.series : told.report.series[name] = From(name)
    BY <2>2, <2>5, <2>10 DEF FormatIndicatorReport
  <2>15. \A name \in DOMAIN told.longer.series : told.longer.series[name] = From(name)
    BY <2>2, <2>5, <2>10 DEF FormatLongerTimeframeReport
  <2> QED
    BY <2>7, <2>11, <2>12, <2>13, <2>14, <2>15 DEF ReportsAgree
<1> QED
  BY <1>1, WatchInvariant, PTL
=============================================================================
