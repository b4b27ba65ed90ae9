------------------------------- MODULE MCWeather -------------------------------
(***************************************************************************)
(* Model values for Weather: the noon of one day (and the hour 0, which is *)
(* refused), and a few bodies of each service: errors, gaps, NASA's mark   *)
(* of missing data from two of them, negative, dark, dawn and bright       *)
(* readings, a tie between two hours, an hour out of order.                *)
(***************************************************************************)
EXTENDS Weather

CONSTANTS unreadable, missing, noResult

Entry(time, ghi) == [time |-> time, ghi |-> ghi]

MCHours == {0, 12}

MCBodies ==
    [p \in Providers |->
        CASE p = "open-meteo" ->
               {Refusal, Series(<<Entry(unreadable, 80)>>),
                Series(<<Entry(11, 0), Entry(12, missing)>>),
                Series(<<Entry(11, 9), Entry(12, -1), Entry(13, 400)>>),
                Series(<<Entry(11, 300), Entry(12, 500), Entry(13, 0)>>)}
          [] p = "nasa-power" ->
               {Refusal,
                Series(<<Entry(unreadable, 7)>>),
                Series(<<Entry(12, -999), Entry(13, 5)>>),
                Series(<<Entry(11, 5), Entry(13, 900)>>),
                Series(<<Entry(11, 0), Entry(12, 400)>>)}
          [] p = "pvgis" ->
               {Broken,
                Series(<<Entry(13, 9), Entry(unreadable, 0), Entry(12, 0)>>),
                Series(<<Entry(12, -999), Entry(13, 0)>>),
                Series(<<Entry(12, 120), Entry(13, 0)>>),
                Series(<<Entry(12, 510), Entry(13, 0)>>)}]
=============================================================================
