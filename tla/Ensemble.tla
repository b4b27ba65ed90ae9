------------------------------- MODULE Ensemble -------------------------------
(***************************************************************************)
(* The pure part of the weather cross-check: how each provider finds the   *)
(* hour it was asked for in the answer of its service, and how the         *)
(* ensemble turns the points it got into one irradiance and a status.      *)
(*                                                                         *)
(* Irradiance is in whole W/m^2, and negative when a service says so: no   *)
(* provider refuses that.  A median of two is a half: medians are carried  *)
(* doubled, and the square roots and divisions of the code are multiplied  *)
(* out, so the thresholds are compared exactly.  Numbers too large for a   *)
(* double, which only PVGIS's reader refuses, are left out.                *)
(***************************************************************************)
EXTENDS Integers, Sequences, FiniteSets, SequencesExt

CONSTANTS
    Unreadable,   (* a time stamp the provider's parser rejects            *)
    Missing       (* null or undefined                                     *)

(* A body as its service sends it: not JSON, JSON that reports an error or *)
(* lacks the series, or a series of hours with their irradiance.           *)
Body == [kind : {"broken", "refusal", "series"},
         series : Seq([time : Nat \cup {Unreadable}, ghi : Int \cup {Missing}])]
Broken == [kind |-> "broken", series |-> <<>>]
Refusal == [kind |-> "refusal", series |-> <<>>]
Series(s) == [kind |-> "series", series |-> s]

Readable(series) == {i \in DOMAIN series : series[i].time # Unreadable}

Distance(a, b) == IF a > b THEN a - b ELSE b - a

(* An entry replaces the best one so far, 0 while there is none and        *)
(* closestDelta is Infinity, if its time is readable and strictly nearer.  *)
Nearer_NoAbs(series, ts, i, best) ==  \* Math.abs forgotten
    /\ series[i].time # Unreadable
    /\ best # 0 => series[i].time - ts < series[best].time - ts

Nearer(series, ts, i, best) ==
    /\ series[i].time # Unreadable
    /\ best # 0 => Distance(series[i].time, ts) < Distance(series[best].time, ts)

(* The loops over a series: best[n] is their best entry after the first n. *)
Closest(series, ts) ==
    LET best[n \in 0..Len(series)] ==
            IF n = 0 THEN 0
            ELSE IF Nearer(series, ts, n, best[n - 1]) THEN n ELSE best[n - 1]
    IN  best[Len(series)]

(* What a fetch makes of an entry: a point, unless its irradiance is among *)
(* the values its provider refuses, or the error code "malformed".         *)
Malformed == [error |-> "malformed"]

PointOf(entry, refused) ==
    IF entry.ghi \in refused THEN Malformed
    ELSE [time |-> entry.time, ghi |-> entry.ghi]

MISSING_DATA == -999    \* NASA's, and only its reader knows it

(* Open-Meteo's loop starts at the first entry and compares with NaN when  *)
(* a time is unreadable, so a series without readable times yields its     *)
(* first entry; the others report an error.                                *)
OpenMeteoPoint(body, ts) ==
    IF body.kind # "series" \/ body.series = <<>> THEN Malformed
    ELSE LET i == Closest(body.series, ts)
         IN  PointOf(body.series[IF i = 0 THEN 1 ELSE i], {Missing})

NASAPowerPoint(body, ts) ==
    IF body.kind # "series" \/ Closest(body.series, ts) = 0 THEN Malformed
    ELSE PointOf(body.series[Closest(body.series, ts)], {Missing, MISSING_DATA})

PVGISPoint(body, ts) ==
    IF body.kind # "series" \/ Closest(body.series, ts) = 0 THEN Malformed
    ELSE PointOf(body.series[Closest(body.series, ts)], {Missing})

-----------------------------------------------------------------------------
DivergenceThreshold == 3    \* tenths of the median
NightStdThreshold == 50     \* W/m^2

(* Sequences and other functions with a finite domain alike.               *)
Size(values) == Cardinality(DOMAIN values)
Total(values) == SumFunction(values)

(* computeMedian, doubled; the values are in any order.                    *)
Median2_Unsorted(values) ==
    LET n == Len(values)
    IN  IF n % 2 = 1 THEN 2 * values[(n + 1) \div 2]
        ELSE values[n \div 2] + values[n \div 2 + 1]

(* The k-th smallest, which sorting moves to the k-th place.               *)
Ranked(values, k) ==
    CHOOSE x \in Range(values) :
        /\ Cardinality({i \in DOMAIN values : values[i] < x}) < k
        /\ Cardinality({i \in DOMAIN values : values[i] <= x}) >= k

Median2(values) ==
    LET n == Len(values)
    IN  IF n % 2 = 1 THEN 2 * Ranked(values, (n + 1) \div 2)
        ELSE Ranked(values, n \div 2) + Ranked(values, n \div 2 + 1)

(* computeStdDev: n^2 times the population variance.                       *)
Variance(values) ==
    Size(values) * Total([i \in DOMAIN values |-> values[i] * values[i]])
        - Total(values) * Total(values)

(* At least two points: divergent when the deviation reaches the night     *)
(* threshold in the dark, or its share of the median otherwise.  A         *)
(* negative median makes the quotient negative, which reaches nothing.     *)
Diverges(values) ==
    LET n == Len(values)
        m == Median2(values)
    IN  IF m = 0
        THEN Variance(values) >= NightStdThreshold * NightStdThreshold * n * n
        ELSE /\ m > 0
             /\ 4 * 10 * 10 * Variance(values)
                   >= DivergenceThreshold * DivergenceThreshold * n * n * m * m

classify(values) ==
    CASE Len(values) = 0 -> [status |-> "unavailable", ghi2 |-> 0, responded |-> 0]
      [] Len(values) = 1 -> [status |-> "degraded", ghi2 |-> 2 * values[1],
                             responded |-> 1]
      [] OTHER -> [status |-> IF Diverges(values) THEN "divergent" ELSE "ok",
                   ghi2 |-> Median2(values), responded |-> Len(values)]

Statuses == {"ok", "degraded", "divergent", "unavailable"}

EnsembleResult == [status : Statuses, ghi2 : Int, responded : Nat]
=============================================================================
