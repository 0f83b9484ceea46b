-------------------------- MODULE Indicators_proofs --------------------------
(***************************************************************************)
(* What the last entry of each indicator is worth, for every number of     *)
(* candles.                                                                *)
(***************************************************************************)
EXTENDS Indicators, TLAPS

\* Of numbers only, numbers come.
LEMMA OfNumbers ==
    ASSUME NEW values, \A v \in values : v = "num"
    PROVE  Computed(values) = "num"
BY DEF Computed

\* The first entry that is not NaN is found where there is one.
LEMMA FirstValidIs ==
    ASSUME NEW n \in Nat, NEW data, NEW k \in Index(n),
           data[k] # "nan", \A j \in 0..(k - 1) : data[j] = "nan"
    PROVE  FirstValid(data, n) = k
<1> DEFINE P(i) == data[i] # "nan" /\ \A j \in 0..(i - 1) : data[j] = "nan"
<1>1. P(k)
  OBVIOUS
<1>2. ASSUME NEW i \in Index(n), P(i) PROVE i = k
  BY <1>2 DEF Index
<1>3. (CHOOSE i \in Index(n) : P(i)) = k
  <2>1. (CHOOSE i \in Index(n) : P(i)) \in Index(n) /\ P(CHOOSE i \in Index(n) : P(i))
    BY <1>1, Zenon
  <2> QED
    BY <2>1, <1>2
<1> QED
  BY <1>3 DEF FirstValid

\* An average over the prices is a number from its period on.
LEMMA AverageOfPrices ==
    ASSUME NEW n \in Nat, NEW period \in Nat \ {0}, NEW i \in Index(n)
    PROVE  calculateSMA(Prices(n), n, period)[i] = IF i < period - 1 THEN "nan" ELSE "num"
<1>1. CASE i < period - 1
  BY <1>1 DEF calculateSMA
<1>2. CASE ~(i < period - 1)
  <2> DEFINE values == {Prices(n)[j] : j \in (i - period + 1)..i}
  <2>1. \A v \in values : v = "num"
    BY <1>2 DEF Prices, Index
  <2>2. Computed(values) = "num"
    BY <2>1, OfNumbers
  <2> QED
    BY <1>2, <2>2 DEF calculateSMA
<1> QED
  BY <1>1, <1>2

\* So is an exponential average over the prices.
LEMMA ExponentialOfPrices ==
    ASSUME NEW n \in Nat, NEW period \in Nat \ {0}, NEW i \in Index(n)
    PROVE  calculateEMA(Prices(n), n, period)[i] = IF i < period - 1 THEN "nan" ELSE "num"
<1>1. FirstValid(Prices(n), n) = 0
  <2>1. 0 \in Index(n) /\ Prices(n)[0] # "nan" /\ 0..(0 - 1) = {}
    BY DEF Prices, Index
  <2> QED
    BY <2>1, FirstValidIs
<1>2. CASE i < period - 1
  BY <1>1, <1>2 DEF calculateEMA
<1>3. CASE ~(i < period - 1)
  <2> DEFINE values == {Prices(n)[j] : j \in 0..i}
  <2>1. \A j \in 0..i : Prices(n)[j] = "num"
    BY DEF Prices, Index
  <2>2. Computed(values) = "num"
    BY <2>1, OfNumbers
  <2>3. period - 1 < n /\ \A j \in 0..(period - 1) : Prices(n)[j] # "nan"
    BY <1>3, <2>1 DEF Index
  <2> QED
    BY <1>1, <1>3, <2>2, <2>3 DEF calculateEMA
<1> QED
  BY <1>2, <1>3

\* The MACD is a number once both averages are.
LEMMA DifferenceOfAverages ==
    ASSUME NEW n \in Nat, NEW i \in Index(n)
    PROVE  calculateMACD(n)[i] = IF i < 25 THEN "nan" ELSE "num"
<1>1. /\ calculateEMA(Prices(n), n, 12)[i] = IF i < 11 THEN "nan" ELSE "num"
      /\ calculateEMA(Prices(n), n, 26)[i] = IF i < 25 THEN "nan" ELSE "num"
  BY ExponentialOfPrices
<1>2. calculateMACD(n)[i] = Computed({calculateEMA(Prices(n), n, 12)[i],
                                      calculateEMA(Prices(n), n, 26)[i]})
  BY DEF calculateMACD
<1>3. i \in Int
  BY DEF Index
<1> QED
  BY <1>1, <1>2, <1>3 DEF Computed

\* The signal is an average of nine entries of the MACD.  With 9 to 25 candles
\* it finds nothing to average and is left at zero, which is not NaN.
LEMMA LastSignal ==
    ASSUME NEW n \in Nat \ {0}
    PROVE  calculateEMA(calculateMACD(n), n, 9)[n - 1] =
             IF n >= 34 THEN "num" ELSE IF n \in 9..25 THEN "zero" ELSE "nan"
<1> DEFINE macd == calculateMACD(n)
<1>1. \A i \in Index(n) : macd[i] = IF i < 25 THEN "nan" ELSE "num"
  BY DifferenceOfAverages
<1>2. n - 1 \in Index(n)
  BY DEF Index
<1> HIDE DEF macd
<1>3. CASE n < 26
  <2>1. FirstValid(macd, n) = 0
    BY <1>1, <1>3 DEF FirstValid, Index
  <2>2. macd[0] = "nan"
    BY <1>1 DEF Index
  <2>3. ~(8 < n /\ \A i \in 0..8 : macd[i] # "nan")
    BY <2>2
  <2>4. calculateEMA(macd, n, 9)[n - 1] = IF n - 1 < 8 THEN "nan" ELSE "zero"
    BY <1>2, <2>1, <2>3 DEF calculateEMA
  <2> QED
    BY <1>3, <2>4 DEF macd
<1>4. CASE n >= 26
  <2>1. FirstValid(macd, n) = 25
    <3>1. /\ 25 \in Index(n)
          /\ macd[25] # "nan"
          /\ \A j \in 0..(25 - 1) : macd[j] = "nan"
      BY <1>1, <1>4 DEF Index
    <3> QED
      BY <3>1, FirstValidIs
  <2>2. CASE n < 34
    <3>1. calculateEMA(macd, n, 9)[n - 1] = "nan"
      BY <1>2, <2>1, <2>2 DEF calculateEMA
    <3> QED
      BY <1>4, <2>2, <3>1 DEF macd
  <2>3. CASE n >= 34
    <3> DEFINE values == {macd[j] : j \in 25..(n - 1)}
    <3>1. \A j \in 25..(n - 1) : macd[j] = "num"
      BY <1>1 DEF Index
    <3>2. Computed(values) = "num"
      BY <3>1, OfNumbers
    <3>3. 33 < n /\ \A j \in 25..33 : macd[j] # "nan"
      BY <2>3, <3>1
    <3>4. calculateEMA(macd, n, 9)[n - 1] = "num"
      BY <1>2, <2>1, <2>3, <3>2, <3>3 DEF calculateEMA
    <3> QED
      BY <2>3, <3>4 DEF macd
  <2> QED
    BY <2>2, <2>3
<1> QED
  BY <1>3, <1>4

\* Where an entry of a series is NaN, where a number and where a zero, the
\* signal apart.
LEMMA Entries ==
    ASSUME NEW n \in Nat \ {0}, NEW name \in DOMAIN WarmUp \ {"signal"}, NEW i \in Index(n)
    PROVE  CalculateIndicators(n)[name][i] =
             IF i + 1 < (IF name = "adx" THEN 15 ELSE WarmUp[name]) THEN "nan"
             ELSE IF i + 1 < WarmUp[name] THEN "zero" ELSE "num"
<1> DEFINE all == CalculateIndicators(n)
           Is(value, p) == value = IF i + 1 < p THEN "nan" ELSE "num"
<1>1. i \in Nat
  BY DEF Index
<1>2. \A p \in Nat \ {0} : Is(calculateSMA(Prices(n), n, p)[i], p)
  BY <1>1, AverageOfPrices
<1>3. \A p \in Nat \ {0} : Is(calculateEMA(Prices(n), n, p)[i], p)
  BY <1>1, ExponentialOfPrices
<1>4. Is(all.sma20[i], 20) /\ Is(all.sma50[i], 50) /\ Is(all.sma200[i], 200)
  BY <1>2 DEF CalculateIndicators
<1>5. /\ Is(all.ema12[i], 12) /\ Is(all.ema20[i], 20)
      /\ Is(all.ema26[i], 26) /\ Is(all.ema50[i], 50)
  BY <1>3 DEF CalculateIndicators
<1>6. Is(all.macd[i], 26)
  BY <1>1, DifferenceOfAverages DEF CalculateIndicators
<1>7. Is(all.bands[i], 20)
  <2>1. calculateBollingerBands(n, 20)[i] = Computed({calculateSMA(Prices(n), n, 20)[i]})
    BY DEF calculateBollingerBands
  <2>2. Is(calculateBollingerBands(n, 20)[i], 20)
    BY <1>2, <2>1 DEF Computed
  <2> QED
    BY <2>2 DEF CalculateIndicators
<1>8. Is(all.volumeRatio[i], 20)
  BY <1>2 DEF CalculateIndicators, calculateVolumeRatio
<1>9. Is(all.rsi[i], 15) /\ Is(all.rsi7[i], 8)
  BY <1>1 DEF CalculateIndicators, calculateRSI, Index
<1>10. Is(all.atr14[i], 15) /\ Is(all.atr7[i], 8) /\ Is(all.atr3[i], 4)
  BY <1>1 DEF CalculateIndicators, calculateATR
<1>11. Is(all.di[i], 15)
  BY <1>1 DEF CalculateIndicators, calculateDI
<1>12. all.adx[i] = IF i + 1 < 15 THEN "nan" ELSE IF i + 1 < 28 THEN "zero" ELSE "num"
  BY <1>1 DEF CalculateIndicators, calculateADX
<1> HIDE DEF all
<1>13. CASE name = "adx"
  BY <1>12, <1>13 DEF WarmUp, all
<1>14. CASE name # "adx"
  <2>1. all[name][i] = IF i + 1 < WarmUp[name] THEN "nan" ELSE "num"
    BY <1>4, <1>5, <1>6, <1>7, <1>8, <1>9, <1>10, <1>11, <1>14 DEF WarmUp
  <2> QED
    BY <1>14, <2>1 DEF all
<1> QED
  BY <1>13, <1>14

\* Every indicator is worth a number exactly when there are as many candles as
\* it takes by its definition; what else may be zero, and not NaN, are the
\* signal and the ADX.
THEOREM LastEntries ==
    ASSUME NEW n \in Nat \ {0}, NEW name \in DOMAIN WarmUp
    PROVE  /\ Last(n, name) = "num" <=> n >= WarmUp[name]
           /\ Last(n, name) = "zero" => name \in {"signal", "adx"}
<1>1. CASE name = "signal"
  <2>1. CalculateIndicators(n).signal = calculateEMA(calculateMACD(n), n, 9)
    BY DEF CalculateIndicators
  <2> QED
    BY <1>1, <2>1, LastSignal DEF Last, WarmUp
<1>2. CASE name # "signal"
  <2>1. n - 1 \in Index(n) /\ n - 1 + 1 = n
    BY DEF Index
  <2>2. WarmUp[name] \in Nat /\ (name = "adx" => WarmUp[name] = 28)
    BY DEF WarmUp
  <2>3. Last(n, name) = IF n < (IF name = "adx" THEN 15 ELSE WarmUp[name]) THEN "nan"
                        ELSE IF n < WarmUp[name] THEN "zero" ELSE "num"
    BY <1>2, <2>1, Entries DEF Last
  <2> QED
    BY <2>2, <2>3
<1> QED
  BY <1>1, <1>2

\* And where it is NaN.
LEMMA LastIsNaN ==
    ASSUME NEW n \in Nat \ {0}, NEW name \in DOMAIN WarmUp \ {"signal", "adx"}
    PROVE  Last(n, name) = "nan" <=> ~(n >= WarmUp[name])
<1>1. n - 1 \in Index(n) /\ n - 1 + 1 = n
  BY DEF Index
<1>2. WarmUp[name] \in Nat
  BY DEF WarmUp
<1>3. Last(n, name) = IF n < WarmUp[name] THEN "nan" ELSE "num"
  BY <1>1, Entries DEF Last
<1> QED
  BY <1>2, <1>3

\* A series of a report begins with the first of its ten candles for which there
\* is enough before it.
THEOREM SeriesEntries ==
    ASSUME NEW n \in Nat \ {0}, NEW name \in DOMAIN WarmUp \ {"signal"}
    PROVE  formatSeries(n, name) =
             {i \in (n - 10)..(n - 1) :
                i >= 0 /\ i + 1 >= (IF name = "adx" THEN WarmUp.di ELSE WarmUp[name])}
<1>1. WarmUp[name] \in Nat /\ WarmUp.di = 15
  BY DEF WarmUp
<1>2. \A i \in Index(n) :
        CalculateIndicators(n)[name][i] # "nan" <=>
          i + 1 >= (IF name = "adx" THEN 15 ELSE WarmUp[name])
  <2> SUFFICES ASSUME NEW i \in Index(n)
               PROVE  CalculateIndicators(n)[name][i] # "nan" <=>
                        i + 1 >= (IF name = "adx" THEN 15 ELSE WarmUp[name])
    OBVIOUS
  <2>1. i \in Nat
    BY DEF Index
  <2>2. CalculateIndicators(n)[name][i] =
          IF i + 1 < (IF name = "adx" THEN 15 ELSE WarmUp[name]) THEN "nan"
          ELSE IF i + 1 < WarmUp[name] THEN "zero" ELSE "num"
    BY Entries
  <2> QED
    BY <1>1, <2>1, <2>2
<1> QED
  BY <1>1, <1>2 DEF formatSeries, Index
=============================================================================
