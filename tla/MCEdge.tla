-------------------------------- MODULE MCEdge --------------------------------
(***************************************************************************)
(* Model values for Edge: bytes with four values, so that an int64 lies in *)
(* -8..7 and a uint64 in 0..15, and payloads of two readings.  The first   *)
(* session is measured in the north, in the south or not completely; the   *)
(* second in the dark, with more energy than a uint64 holds, or out of the *)
(* range of a latitude.                                                    *)
(***************************************************************************)
EXTENDS Edge

Daylight == collect_readings(<< <<2, 2>>, <<3, 15>> >>)
Bright == collect_readings(<< <<7, 3>>, <<6, 1>> >>)
Short == collect_readings(<< <<2, 2>> >>)
Dark == read_readings(2, <<5, 2>>, TRUE)
Lit == read_readings(2, <<1, 1>>, FALSE)

MCPayloads ==
    {make_payload(1, 1, 3, <<2, 5>>, Daylight), make_payload(1, 1, 3, <<-2, 5>>, Lit),
     make_payload(1, 1, 3, <<2, 5>>, Short), make_payload(1, 2, 4, <<2, 5>>, Dark),
     make_payload(1, 2, 4, <<2, 5>>, Bright), make_payload(1, 2, 4, <<7, 5>>, Lit)}

MCJobIds == {<<1, 1>>, <<1, 2>>}
MCCodes == EdgeCodes
=============================================================================
