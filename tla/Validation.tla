------------------------------ MODULE Validation ------------------------------
(***************************************************************************)
(* The cross-check of one accepted submission after another                *)
(* (aggregator/src/validation/pipeline.ts): the weather of the place and   *)
(* two queries over the device's history run side by side, then the flags  *)
(* are derived and one row is inserted.  The queries read the rows earlier *)
(* calls inserted.                                                         *)
(*                                                                         *)
(* The ensemble is what module Weather shows it to be: it answers with     *)
(* classify of any points, and never with an exception.  The pipeline is   *)
(* called by a worker that waits for it, so calls do not overlap.          *)
(***************************************************************************)
EXTENDS Ensemble

CONSTANTS
    Submissions,      (* records of deviceId, energy (25 mWh) and tamper   *)
    Readings,         (* sequences of points the providers may return      *)
    Seeds,            (* histories the hypertable may hold at the start    *)
    FirstDay,         (* the day at the start                              *)
    LastDay,          (* bound on the clock                                *)
    MaxCalls,         (* bound on the calls of process                     *)
    NoAnswer,         (* a promise that is still pending                   *)
    Null              (* no z-score                                        *)

WINDOW_DAYS == 7      \* DEFAULT_WINDOW_S, and detectDrift's baseline
RECENT_DAYS == 1      \* detectDrift's 24 hours
MIN_SAMPLES == 10
DRIFT_THRESHOLD_STD == 2
ZSCORE_OUTLIER_THRESHOLD == 3
NIGHT_GHI_THRESHOLD == 10
NIGHT_ENERGY_THRESHOLD == 4    \* 100 mWh
HIGH_SEVERITY == {"energy_inconsistent_with_weather", "tamper_flag_set"}

Flags == HIGH_SEVERITY \cup {"energy_zscore_high", "divergent_weather_sources",
                             "weather_unavailable", "drift_detected"}

VARIABLES
    day,              (* the clock of aggregator and database, in days     *)
    history,          (* the rows of device_readings_history               *)
    running,          (* the submission being processed, or NoAnswer       *)
    ensemble,         (* the three promises of Promise.all                 *)
    zscore,
    drift,
    returned,         (* calls that returned an outcome                    *)
    started           (* calls of process so far                           *)

validationVars ==
    <<day, history, running, ensemble, zscore, drift, returned, started>>
promises == <<ensemble, zscore, drift>>

(* A row keeps the call it was inserted by; 0 in the seeds.                *)
DeviceIds == {s.deviceId : s \in Submissions}
Row == [call : Nat, deviceId : DeviceIds, energy : Nat,
        status : Statuses, submittedAt : Nat, flags : SUBSET Flags]

ASSUME ValidationAssumption ==
    /\ Submissions \subseteq [deviceId : DeviceIds, energy : Nat, tamper : BOOLEAN]
    /\ \A r \in Readings : r \in Seq(Int) /\ Len(r) <= 3    \* three providers
    /\ \A h \in Seeds : h \in Seq(Row) /\ \A i \in DOMAIN h : h[i].call = 0
    /\ FirstDay \in Nat /\ LastDay \in Nat /\ FirstDay <= LastDay
    /\ MaxCalls \in Nat

ValidationTypeOK ==
    /\ day \in FirstDay..LastDay
    /\ history \in Seq(Row)
    /\ running \in Submissions \cup {NoAnswer}
    /\ running = NoAnswer => \A p \in {ensemble, zscore, drift} : p = NoAnswer
    /\ ensemble \in EnsembleResult \cup {NoAnswer}
    /\ zscore \in {NoAnswer, Null, "inside", "outlier"}
    /\ drift \in {NoAnswer} \cup BOOLEAN
    /\ returned \subseteq 1..started
    /\ started \in 0..MaxCalls

ValidationInit ==
    /\ day = FirstDay
    /\ history \in Seeds
    /\ running = NoAnswer
    /\ ensemble = NoAnswer
    /\ zscore = NoAnswer
    /\ drift = NoAnswer
    /\ returned = {}
    /\ started = 0

-----------------------------------------------------------------------------
(***************************************************************************)
(* The two queries.  AVG and STDDEV (of a sample: divisor n - 1) are kept  *)
(* as sums; comparisons with them are multiplied out.                      *)
(***************************************************************************)
Energies(rows, indices) == [i \in indices |-> rows[i].energy]

TrustedRow(row) == row.status \in {"ok", "degraded"}

Within(row, days, today) == row.submittedAt >= today - days

(* |current - mean| / std > threshold over n values of sum s and           *)
(* n^2-fold population variance v; std is sqrt(v / (n (n - 1))).           *)
Outside(current, n, s, v, threshold) ==
    LET d == n * current - s
    IN  d * d * (n - 1) > threshold * threshold * n * v

(* The rows of one device in the window, by their index.                   *)
Recorded(rows, deviceId, today) ==
    {i \in DOMAIN rows : /\ rows[i].deviceId = deviceId
                         /\ Within(rows[i], WINDOW_DAYS, today)}

Score(energy, e) ==
    IF Size(e) < MIN_SAMPLES \/ Variance(e) = 0 THEN Null
    ELSE IF Outside(energy, Size(e), Total(e), Variance(e), ZSCORE_OUTLIER_THRESHOLD)
         THEN "outlier" ELSE "inside"

computeEnergyZScore_AnyRow(rows, submission, today) ==  \* no status filter
    Score(submission.energy,
          Energies(rows, Recorded(rows, submission.deviceId, today)))

computeEnergyZScore(rows, submission, today) ==
    Score(submission.energy,
          Energies(rows, {i \in Recorded(rows, submission.deviceId, today) :
                              TrustedRow(rows[i])}))

(* The mean of the last day against the mean of the days before it, in     *)
(* deviations of the whole window.                                         *)
MeansDiffer(recent, baseline, spreadOf) ==
    LET nr == Size(recent)
        nb == Size(baseline)
        n  == Size(spreadOf)
        d  == nb * Total(recent) - nr * Total(baseline)
    IN  /\ nr > 0 /\ nb > 0 /\ n > 1
        /\ Variance(spreadOf) # 0
        /\ d * d * n * (n - 1)
              > DRIFT_THRESHOLD_STD * DRIFT_THRESHOLD_STD * nr * nr * nb * nb
                    * Variance(spreadOf)

detectDrift_BaselineSpread(rows, deviceId, today) ==  \* STDDEV of the baseline
    LET mine == Recorded(rows, deviceId, today)
        recent == {i \in mine : Within(rows[i], RECENT_DAYS, today)}
    IN  MeansDiffer(Energies(rows, recent), Energies(rows, mine \ recent),
                    Energies(rows, mine \ recent))

detectDrift(rows, deviceId, today) ==
    LET mine == Recorded(rows, deviceId, today)
        recent == {i \in mine : Within(rows[i], RECENT_DAYS, today)}
    IN  MeansDiffer(Energies(rows, recent), Energies(rows, mine \ recent),
                    Energies(rows, mine))

(* evaluateAnomaly; the night rule trusts the irradiance only when the     *)
(* sources agree or there is one.                                          *)
evaluateAnomaly(submission, weather, z, drifted) ==
    {f \in Flags :
        CASE f = "tamper_flag_set" -> submission.tamper
          [] f = "divergent_weather_sources" -> weather.status = "divergent"
          [] f = "weather_unavailable" -> weather.status = "unavailable"
          [] f = "energy_inconsistent_with_weather" ->
                 /\ weather.status \in {"ok", "degraded"}
                 /\ weather.ghi2 < 2 * NIGHT_GHI_THRESHOLD
                 /\ submission.energy > NIGHT_ENERGY_THRESHOLD
          [] f = "energy_zscore_high" -> z = "outlier"
          [] f = "drift_detected" -> drifted}

-----------------------------------------------------------------------------
process(submission) ==
    /\ running = NoAnswer
    /\ started < MaxCalls
    /\ running' = submission
    /\ started' = started + 1
    /\ UNCHANGED <<day, history, promises, returned>>

EnsembleAnswers ==
    /\ running # NoAnswer
    /\ ensemble = NoAnswer
    /\ \E points \in Readings : ensemble' = classify(points)
    /\ UNCHANGED <<day, history, running, zscore, drift, returned, started>>

ZScoreAnswers ==
    /\ running # NoAnswer
    /\ zscore = NoAnswer
    /\ zscore' = computeEnergyZScore(history, running, day)
    /\ UNCHANGED <<day, history, running, ensemble, drift, returned, started>>

DriftAnswers ==
    /\ running # NoAnswer
    /\ drift = NoAnswer
    /\ drift' = detectDrift(history, running.deviceId, day)
    /\ UNCHANGED <<day, history, running, ensemble, zscore, returned, started>>

Leave ==
    /\ running' = NoAnswer
    /\ ensemble' = NoAnswer
    /\ zscore' = NoAnswer
    /\ drift' = NoAnswer
    /\ UNCHANGED <<day, started>>

QueryFails_KeepsAnswers ==  \* the answers that came are left over
    /\ running # NoAnswer
    /\ zscore = NoAnswer \/ drift = NoAnswer
    /\ running' = NoAnswer
    /\ UNCHANGED <<day, history, promises, returned, started>>

(* A query that throws rejects Promise.all; the worker catches it.         *)
QueryFails ==
    /\ running # NoAnswer
    /\ zscore = NoAnswer \/ drift = NoAnswer
    /\ Leave
    /\ UNCHANGED <<history, returned>>

Insert ==
    history' = Append(history,
        [call |-> started, deviceId |-> running.deviceId, energy |-> running.energy,
         status |-> ensemble.status, submittedAt |-> day,
         flags |-> evaluateAnomaly(running, ensemble, zscore, drift)])

Persist_Unawaited ==  \* returns whether or not the row is stored
    /\ NoAnswer \notin {running, ensemble, zscore, drift}
    /\ Insert \/ UNCHANGED history
    /\ returned' = returned \cup {started}
    /\ Leave

(* The insert may throw, with the row stored (its answer was lost) or not. *)
Persist ==
    /\ NoAnswer \notin {running, ensemble, zscore, drift}
    /\ \/ Insert /\ returned' = returned \cup {started}
       \/ UNCHANGED returned /\ (Insert \/ UNCHANGED history)
    /\ Leave

NextDay ==
    /\ day < LastDay
    /\ day' = day + 1
    /\ UNCHANGED <<history, running, promises, returned, started>>

ValidationNext ==
    \/ \E s \in Submissions : process(s)
    \/ EnsembleAnswers \/ ZScoreAnswers \/ DriftAnswers
    \/ QueryFails
    \/ Persist
    \/ NextDay

ValidationSpec == ValidationInit /\ [][ValidationNext]_validationVars

-----------------------------------------------------------------------------
(***************************************************************************)
(* Properties.                                                             *)
(***************************************************************************)

(* "Persistence is done on return": a call that returned an outcome left   *)
(* one row, and no call ever leaves two, though the insert's answer may be *)
(* lost and a query of it may fail while others are under way.             *)
RowsOf(call) == {i \in DOMAIN history : history[i].call = call}

ReturnedMeansStored ==
    \A call \in 1..started :
        /\ Cardinality(RowsOf(call)) <= 1
        /\ call \in returned => RowsOf(call) # {}

(* The rows at hand without the i-th.                                      *)
Without(i) == [j \in 1..(Len(history) - 1) |->
                  IF j < i THEN history[j] ELSE history[j + 1]]

(* "Quality filtering" of the statistics: a row recorded under divergent   *)
(* or no weather changes nobody's z-score: not by its value, not by making *)
(* up the minimum number of samples.                                       *)
ScoreIgnoresUntrusted ==
    \A i \in DOMAIN history : ~TrustedRow(history[i]) =>
        \A s \in Submissions :
            computeEnergyZScore(Without(i), s, day) = computeEnergyZScore(history, s, day)

(* Drift is raised by lopsided histories only: with r rows in the last day *)
(* and b in the days before, not unless (r - b)^2 > r + b, so neither the  *)
(* second day of a device nor a burst as long as its past ever raises it,  *)
(* however far the readings jump.  (The deviation is that of the whole     *)
(* window, and two clusters of like size inflate it as they part.)         *)
DriftNeedsLopsidedHistory ==
    \A d \in DeviceIds :
        detectDrift(history, d, day) =>
            LET mine == Recorded(history, d, day)
                r == Cardinality({i \in mine : Within(history[i], RECENT_DAYS, day)})
                b == Cardinality(mine) - r
            IN  (r - b) * (r - b) > r + b
=============================================================================
