-------------------------------- MODULE Weather --------------------------------
(***************************************************************************)
(* The irradiance of one place and hour, asked of three public services at *)
(* once (aggregator/src/validation/weather).  Each provider sends one HTTP *)
(* request, a second one after a pause if the first is answered with a     *)
(* server error, reads the body and picks the nearest hour; the ensemble   *)
(* waits for all of them (Promise.allSettled) and classifies what it got.  *)
(*                                                                         *)
(* The pipeline may stop waiting, when a database query fails meanwhile:   *)
(* the requests go on, and the next submission's fetch overtakes them.     *)
(***************************************************************************)
EXTENDS Ensemble

CONSTANTS
    Hours,        (* timestamps a fetch can ask for; 0 is refused          *)
    Bodies,       (* Bodies[p]: bodies the service of provider p can send  *)
    NoResult      (* no answer yet                                         *)

Providers == {"open-meteo", "nasa-power", "pvgis"}

ASSUME WeatherAssumption ==
    /\ Hours \subseteq Nat
    /\ Bodies \in [Providers -> SUBSET Body]

VARIABLES
    target,       (* the hour asked for                                    *)
    fetching,     (* the ensemble's promise is awaited                     *)
    calls,        (* calls[p]: where the fetch of provider p stands        *)
    late,         (* providers with a request of an abandoned fetch        *)
    healthy,      (* healthy[p]: what isHealthy of provider p returns      *)
    result        (* what the ensemble returned last                       *)

weatherVars == <<target, fetching, calls, late, healthy, result>>

Codes == {"network", "rate-limit", "malformed", "not-found"}
InFlight == {"request", "pause", "retry", "body"}
At(phase) == [at |-> phase]
Idle == At("idle")
Failed(code) == [at |-> "failed", code |-> code]
Answered(body) == [at |-> "answered", body |-> body]

Point(p, body, ts) ==
    CASE p = "open-meteo" -> OpenMeteoPoint(body, ts)
      [] p = "nasa-power" -> NASAPowerPoint(body, ts)
      [] p = "pvgis"      -> PVGISPoint(body, ts)

IsPoint(p, body, ts) == Point(p, body, ts) # Malformed

(* The points of the fulfilled promises; the order is that of main.ts.     *)
Reading(p) == IF calls[p].at = "answered"
              THEN <<Point(p, calls[p].body, target).ghi>> ELSE <<>>
Points == Reading("open-meteo") \o Reading("nasa-power") \o Reading("pvgis")

Call == {At(phase) : phase \in InFlight \cup {"idle"}}
            \cup {Failed(code) : code \in Codes}
            \cup UNION {{Answered(b) : b \in Bodies[p]} : p \in Providers}

(* Type correctness; an answered call holds a body with a point in it.     *)
WeatherTypeOK ==
    /\ target \in Hours
    /\ fetching \in BOOLEAN
    /\ calls \in [Providers -> Call]
    /\ late \subseteq Providers
    /\ healthy \in [Providers -> BOOLEAN]
    /\ \A p \in Providers : calls[p].at = "answered" =>
           IsPoint(p, calls[p].body, target)
    /\ ~fetching => \A p \in Providers : calls[p] = Idle
    /\ result \in EnsembleResult \cup {NoResult}

WeatherInit ==
    /\ target \in Hours
    /\ fetching = FALSE
    /\ calls = [p \in Providers |-> Idle]
    /\ late = {}
    /\ healthy = [p \in Providers |-> TRUE]
    /\ result = NoResult

-----------------------------------------------------------------------------
Settle(p, call, health) ==
    /\ calls' = [calls EXCEPT ![p] = call]
    /\ healthy' = [healthy EXCEPT ![p] = health]
    /\ UNCHANGED <<target, fetching, late, result>>

(* All providers are called in one turn of the event loop.  validateInputs *)
(* refuses a timestamp of 0 before anything is sent.                       *)
EnsembleFetch(ts) ==
    /\ ~fetching
    /\ target' = ts
    /\ fetching' = TRUE
    /\ calls' = [p \in Providers |-> IF ts = 0 THEN Failed("malformed")
                                     ELSE At("request")]
    /\ result' = NoResult
    /\ UNCHANGED <<late, healthy>>

(* fetchWithTimeout ends without a response: the timer aborts it, which is *)
(* a ProviderError already and passes the catch of fetchWithRetry ...      *)
TimesOut(p) ==
    /\ calls[p].at \in {"request", "retry"}
    /\ Settle(p, Failed("network"), healthy[p])

(* ... or the connection fails, which that catch turns into one and notes. *)
ConnectionFails(p) ==
    /\ calls[p].at \in {"request", "retry"}
    /\ Settle(p, Failed("network"), FALSE)

ServerError_RetriesOn(p) ==  \* retries as long as the server fails
    /\ calls[p].at \in {"request", "retry"}
    /\ Settle(p, At("pause"), healthy[p])

ServerError(p) ==
    \/ /\ calls[p].at = "request"
       /\ Settle(p, At("pause"), healthy[p])
    \/ /\ calls[p].at = "retry"
       /\ Settle(p, Failed("network"), FALSE)

Retry(p) ==
    /\ calls[p].at = "pause"
    /\ Settle(p, At("retry"), healthy[p])

ClientError(p) ==
    /\ calls[p].at \in {"request", "retry"}
    /\ \/ Settle(p, Failed("rate-limit"), FALSE)      \* 429
       \/ Settle(p, Failed("not-found"), healthy[p])  \* 404
       \/ Settle(p, Failed("network"), FALSE)         \* any other

HeadersArrive(p) ==
    /\ calls[p].at \in {"request", "retry"}
    /\ Settle(p, At("body"), healthy[p])

ReadBody_Unchecked(p, body) ==  \* no test for null
    /\ calls[p].at = "body"
    /\ IF body.kind = "series" /\ body.series # <<>>
       THEN Settle(p, Answered(body), TRUE)
       ELSE Settle(p, Failed("malformed"), healthy[p])

(* response.json(): the timer was cleared when the headers arrived.        *)
ReadBody(p, body) ==
    /\ calls[p].at = "body"
    /\ IF IsPoint(p, body, target)
       THEN Settle(p, Answered(body), TRUE)
       ELSE Settle(p, Failed("malformed"), healthy[p])

(* What the timer, the event loop and the service's first bytes bring.     *)
FetchStep(p) ==
    \/ TimesOut(p) \/ ConnectionFails(p)
    \/ ServerError(p) \/ Retry(p) \/ ClientError(p) \/ HeadersArrive(p)

OpenMeteoFetch ==
    FetchStep("open-meteo") \/ \E b \in Bodies["open-meteo"] : ReadBody("open-meteo", b)
NASAPowerFetch ==
    FetchStep("nasa-power") \/ \E b \in Bodies["nasa-power"] : ReadBody("nasa-power", b)
PVGISFetch ==
    FetchStep("pvgis") \/ \E b \in Bodies["pvgis"] : ReadBody("pvgis", b)

(* Promise.allSettled: every provider has a point or an error.             *)
AllSettled == \A p \in Providers : calls[p].at \in {"failed", "answered"}

Return ==
    /\ fetching
    /\ AllSettled
    /\ result' = classify(Points)
    /\ fetching' = FALSE
    /\ calls' = [p \in Providers |-> Idle]
    /\ UNCHANGED <<target, late, healthy>>

(* Promise.all of the pipeline rejected: nobody waits for the ensemble.    *)
Abandon ==
    /\ fetching
    /\ late' = late \cup {p \in Providers : calls[p].at \in InFlight}
    /\ fetching' = FALSE
    /\ calls' = [p \in Providers |-> Idle]
    /\ UNCHANGED <<target, healthy, result>>

(* All that is left of such a request is what it does to the health flag.  *)
LateAnswer(p) ==
    /\ p \in late
    /\ late' = late \ {p}
    /\ healthy' \in {[healthy EXCEPT ![p] = h] : h \in BOOLEAN}
    /\ UNCHANGED <<target, fetching, calls, result>>

WeatherNext ==
    \/ \E ts \in Hours : EnsembleFetch(ts)
    \/ OpenMeteoFetch \/ NASAPowerFetch \/ PVGISFetch
    \/ Return
    \/ Abandon
    \/ \E p \in Providers : LateAnswer(p)

WeatherSpec == WeatherInit /\ [][WeatherNext]_weatherVars

(***************************************************************************)
(* Fairness.  A request ends by its timer and a pause by its own; that a   *)
(* body which has begun to arrive also ends is an assumption about the     *)
(* services, because no timer covers it.                                   *)
(***************************************************************************)
TimersFire ==
    /\ \A p \in Providers : WF_weatherVars(FetchStep(p))
    /\ WF_weatherVars(Return)

BodiesEnd ==
    \A p \in Providers : WF_weatherVars(\E b \in Bodies[p] : ReadBody(p, b))

FairWeatherSpec == WeatherSpec /\ TimersFire /\ BodiesEnd

-----------------------------------------------------------------------------
(***************************************************************************)
(* Properties.                                                             *)
(***************************************************************************)

(* Each point the ensemble uses is of the readable hour nearest to the one *)
(* asked for, whatever else the series holds and however it is ordered.    *)
(* (Of a series without any, Open-Meteo's loop yields the first hour.)     *)
PointsAreNearest ==
    \A p \in Providers : calls[p].at = "answered" =>
        LET s == calls[p].body.series
            used == Point(p, calls[p].body, target)
        IN  Readable(s) # {} =>
            /\ used.time # Unreadable
            /\ \A i \in Readable(s) :
                  Distance(used.time, target) <= Distance(s[i].time, target)

(* "ok" is said only of sources that agree, unless their median is         *)
(* negative (the code divides by it, ensemble.ts:182): in the light their spread is below 74 per cent of the median, *)
(* in the dark below 123 W/m^2 (the widest a standard deviation below the  *)
(* thresholds allows).  No single source of three decides: the result lies *)
(* between any two of them.  One service's failure neither fails the call  *)
(* nor counts as a reading: the sources behind a result are those that     *)
(* answered.                                                               *)
Spread(values) ==
    LET all == {values[i] : i \in DOMAIN values}
    IN  (CHOOSE x \in all : \A y \in all : y <= x)
            - (CHOOSE x \in all : \A y \in all : x <= y)

Agree(values, ghi2) ==
    IF ghi2 = 0 THEN Spread(values) < 123
    ELSE 200 * Spread(values) < 74 * ghi2

OkMeansAgreement ==
    fetching /\ AllSettled =>
        LET r == classify(Points)
        IN  /\ r.responded = Cardinality({p \in Providers : calls[p].at = "answered"})
            /\ r.status = "ok" =>
                 /\ r.responded >= 2
                 /\ r.ghi2 >= 0 => Agree(Points, r.ghi2)
            /\ r.responded = 3 =>
                 \A i \in 1..3 :
                    LET others == {2 * Points[j] : j \in (1..3) \ {i}}
                    IN  /\ \E v \in others : v <= r.ghi2
                        /\ \E v \in others : r.ghi2 <= v

(* Every fetch that is not abandoned comes to an end.                      *)
FetchSettles == fetching ~> ~fetching
=============================================================================
