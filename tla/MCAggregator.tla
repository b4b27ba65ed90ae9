---------------------------- MODULE MCAggregator ----------------------------
(***************************************************************************)
(* Model values for Aggregator: one device with two sessions, an epoch     *)
(* each.  The first session can also arrive badly signed, the second with  *)
(* a payload the circuit rejects.                                          *)
(***************************************************************************)
EXTENDS Aggregator

CONSTANTS admin, operator, r1, p1, h1, h2, k1, d1, s1, s2

MCJobIds == DeviceIds \X SessionIds
MCCodes == AllCodes

Honest(session, epoch, signature) ==
    [deviceId |-> d1, sessionId |-> session, epochStartTs |-> epoch,
     devicePubkey |-> k1, hashesAgree |-> TRUE,
     signatureLengthOk |-> TRUE, pubkeyLengthOk |-> TRUE,
     signatureAcceptedBy |-> signature, proofAcceptedBy |-> {h1}]

First == Honest(s1, 1, {p1})
Second == Honest(s2, 2, {p1})
Forged == Honest(s1, 1, {})
Unproved == [Second EXCEPT !.proofAcceptedBy = {}]

Chain == {"V3_ADDRESS", "RPC_URL", "OPERATOR_PRIVATE_KEY"}
Database == {"POSTGRES_USER", "POSTGRES_PASSWORD"}

MCProduction == {Chain \cup Database}
MCEnvironments == {Chain \cup {"DATABASE_URL"}, Database}

MCCalls == {First, Second, Forged, Unproved}
MCProvable == {First, Second}
=============================================================================
