----------------------------- MODULE MCValidation -----------------------------
(***************************************************************************)
(* Model values for Validation: two devices, a usual, a large and a        *)
(* tampered submission, and histories that are one row short of, or past,  *)
(* what the statistics need, with and without rows of distrusted weather.  *)
(***************************************************************************)
EXTENDS Validation

CONSTANTS d1, d2, noAnswer, null

MCSubmissions ==
    {[deviceId |-> d1, energy |-> 2, tamper |-> FALSE],
     [deviceId |-> d1, energy |-> 5, tamper |-> FALSE],
     [deviceId |-> d2, energy |-> 2, tamper |-> TRUE]}

MCReadings == {<<>>, <<0>>, <<500>>, <<0, 3>>, <<0, -1, 9>>, <<400, 510, 450>>}

Seed(energy, status, submittedAt) ==
    [call |-> 0, deviceId |-> d1, energy |-> energy, status |-> status,
     submittedAt |-> submittedAt, flags |-> {}]

(* n rows of days 2, 3, ... with energies 2, 1, 2, ...                  *)
Usual(n) == [i \in 1..n |-> Seed(1 + (i % 2), "ok", 1 + i - 6 * ((i - 1) \div 6))]

MCSeeds ==
    {<<>>,
     Usual(3),
     Usual(5),
     Usual(9) \o <<Seed(9, "divergent", 5)>>,
     Usual(10) \o <<Seed(9, "unavailable", 7), Seed(2, "degraded", 8)>>}
=============================================================================
