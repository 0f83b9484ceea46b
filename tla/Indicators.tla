----------------------------- MODULE Indicators -----------------------------
(***************************************************************************)
(* The indicator series of market_data.go, as to what each entry is worth: *)
(* whether it is NaN, a number computed from candles, or a zero that the   *)
(* allocation of the series put there and nothing has overwritten.  A      *)
(* series over n candles is a function on 0..n-1, and the periods are the  *)
(* code's.                                                                 *)
(***************************************************************************)
EXTENDS Integers

\* The positions of a series over n candles; the closing prices are numbers.
Index(n) == 0..(n - 1)
Prices(n) == [i \in Index(n) |-> "num"]

\* Arithmetic: NaN stays NaN, and what a zero of the allocation goes into is
\* worth no more than it.
Computed(values) ==
    IF "nan" \in values THEN "nan" ELSE IF "zero" \in values THEN "zero" ELSE "num"

calculateSMA(data, n, period) ==
    [i \in Index(n) |->
       IF i < period - 1 THEN "nan" ELSE Computed({data[j] : j \in (i - period + 1)..i})]

\* The first entry that is not NaN; 0 when there is none.
FirstValid(data, n) ==
    IF \E i \in Index(n) : data[i] # "nan"
      THEN CHOOSE i \in Index(n) : data[i] # "nan" /\ \A j \in 0..(i - 1) : data[j] = "nan"
      ELSE 0

\* A slip: one entry more than the period is asked for.
LateEMA(data, n, period) ==
    LET first == FirstValid(data, n)
    IN  [i \in Index(n) |-> IF i < first + period THEN "nan" ELSE "num"]

\* NaN up to the first average of period entries.  Without enough of them, and
\* with a NaN among them, the rest of the series is left as it was allocated.
calculateEMA(data, n, period) ==
    LET first == FirstValid(data, n)
        seed == first + period - 1
        enough == seed < n /\ \A i \in first..seed : data[i] # "nan"
    IN  [i \in Index(n) |->
           IF i < seed THEN "nan"
           ELSE IF enough THEN Computed({data[j] : j \in first..i}) ELSE "zero"]

calculateRSI(n, period) ==
    [i \in Index(n) |-> IF n < period + 1 \/ i < period THEN "nan" ELSE "num"]

calculateMACD(n) ==
    LET ema12 == calculateEMA(Prices(n), n, 12)
        ema26 == calculateEMA(Prices(n), n, 26)
    IN  [i \in Index(n) |-> Computed({ema12[i], ema26[i]})]

calculateBollingerBands(n, period) ==
    LET middle == calculateSMA(Prices(n), n, period)
    IN  [i \in Index(n) |-> Computed({middle[i]})]

calculateATR(n, period) ==
    [i \in Index(n) |-> IF i = 0 \/ i < period THEN "nan" ELSE "num"]

\* Before the period NaN is written, after it the smoothed indicators are.
calculateDI(n, period) ==
    [i \in Index(n) |-> IF i < period THEN "nan" ELSE "num"]

\* The first average of the DX comes period - 1 entries later; those in between
\* are left as they were allocated.
calculateADX(n, period) ==
    [i \in Index(n) |->
       IF i < period THEN "nan" ELSE IF i < 2 * period - 1 THEN "zero" ELSE "num"]

\* A slip: the first sum takes in the first candle.
SumFromStart(n, period) == \E i \in 0..period : i < n /\ period \notin Index(n)

\* calculateADX adds up the first period values, as many as there are, in entry
\* period of the smoothed series; without such an entry this is a panic.
IndexOutOfRange(n, period) == \E i \in 1..period : i < n /\ period \notin Index(n)

calculateVolumeRatio(n, period) == calculateSMA(Prices(n), n, period)

CalculateIndicators(n) ==
    [rsi |-> calculateRSI(n, 14), rsi7 |-> calculateRSI(n, 7),
     macd |-> calculateMACD(n), signal |-> calculateEMA(calculateMACD(n), n, 9),
     bands |-> calculateBollingerBands(n, 20),
     sma20 |-> calculateSMA(Prices(n), n, 20), sma50 |-> calculateSMA(Prices(n), n, 50),
     sma200 |-> calculateSMA(Prices(n), n, 200),
     ema12 |-> calculateEMA(Prices(n), n, 12), ema20 |-> calculateEMA(Prices(n), n, 20),
     ema26 |-> calculateEMA(Prices(n), n, 26), ema50 |-> calculateEMA(Prices(n), n, 50),
     atr14 |-> calculateATR(n, 14), atr7 |-> calculateATR(n, 7), atr3 |-> calculateATR(n, 3),
     adx |-> calculateADX(n, 14), di |-> calculateDI(n, 14),
     volumeRatio |-> calculateVolumeRatio(n, 20)]

-----------------------------------------------------------------------------
(* The reports, over at least one candle *)

Last(n, name) == CalculateIndicators(n)[name][n - 1]

\* A single value that is NaN is reported as 0.0.
Shown(value) == IF value = "nan" THEN "zero" ELSE value

\* A slip: one candle more.
Eleven(n, name) == {i \in Index(n) : i >= n - 11 /\ CalculateIndicators(n)[name][i] # "nan"}

\* A series shows which of the last ten entries are not NaN.
formatSeries(n, name) ==
    {i \in Index(n) : i >= n - 10 /\ CalculateIndicators(n)[name][i] # "nan"}

FormatIndicatorReport(n) ==
    [values |-> [name \in {"ema12", "ema26", "macd", "rsi7", "rsi", "adx"} |->
                   Shown(Last(n, name))],
     series |-> [name \in {"ema12", "ema26", "macd", "bands", "rsi7", "rsi", "adx"} |->
                   formatSeries(n, name)]]

\* The volume and its average come with 20 candles only.
FormatLongerTimeframeReport(n) ==
    [values |-> [name \in {"ema20", "ema50", "atr3", "atr7", "atr14"} |-> Shown(Last(n, name))],
     volume |-> IF n >= 20 THEN "num" ELSE "zero",
     series |-> [name \in {"macd", "rsi"} |-> formatSeries(n, name)]]

\* Here NaN stays NaN and is reported as N/A.
GetMultiTimeframeIndicators(n) ==
    [name \in {"ema20", "ema50", "macd", "rsi7", "rsi"} |-> Last(n, name)]

-----------------------------------------------------------------------------
(* The reference *)

\* How many candles each indicator takes by its definition: an average of p
\* values p of them, one of p changes p + 1, and an average of averages the sum
\* of both less one.
WarmUp ==
    [rsi |-> 15, rsi7 |-> 8, macd |-> 26, signal |-> 34, bands |-> 20,
     sma20 |-> 20, sma50 |-> 50, sma200 |-> 200,
     ema12 |-> 12, ema20 |-> 20, ema26 |-> 26, ema50 |-> 50,
     atr14 |-> 15, atr7 |-> 8, atr3 |-> 4, adx |-> 28, di |-> 15, volumeRatio |-> 20]
=============================================================================
