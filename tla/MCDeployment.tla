----------------------------- MODULE MCDeployment -----------------------------
(***************************************************************************)
(* Model values for Deployment.  The one account holds any subset of the   *)
(* roles; calls differ in session and epoch and are proved for either      *)
(* proof verifier.  Coordinates are at the ends of the signed half of a    *)
(* narrow ABI word.  Foreign code forgets all sessions and gives the       *)
(* account every role again, or it pauses, points elsewhere, emits an      *)
(* event of its own and leaves a cache that is wrong for its chain.        *)
(***************************************************************************)
EXTENDS Deployment

CONSTANTS admin, r1, r2, p1, p2, h1, h2, k1, d1, s1, s2, proxy, hash

MCCalls ==
    [deviceId : DeviceIds, sessionId : SessionIds, epochStartTs : Epochs,
     devicePubkey : PubKeys, hashesAgree : {TRUE},
     signatureLengthOk : {TRUE}, pubkeyLengthOk : {TRUE},
     signatureAcceptedBy : {P256Verifiers},
     proofAcceptedBy : {{h} : h \in HonkVerifiers}]

MCPublicInputs ==
    [deviceId : {1}, sessionId : {1}, epochStartTs : {15}, lat_e7 : {-8, -1, 7},
     lon_e7 : {-8, 0, 7}, lightLevel : {0, 15}, tamperFlag : {0, 1},
     payloadHash : {hash}, totalEnergyMWh : {15}]

Reset ==
    [roles |-> [r \in Roles |-> Accounts], paused |-> FALSE,
     deviceRegistry |-> r1, p256Verifier |-> p1, honkVerifier |-> h1,
     lastSubmissionTimestamp |-> [d \in DeviceIds |-> 0],
     usedSessionKeys |-> {}, events |-> <<>>,
     initialized |-> 1, cachedChainId |-> 0, cachedSeparator |-> ZeroWord]

Forged ==
    [roles |-> [r \in Roles |-> {}], paused |-> TRUE,
     deviceRegistry |-> r2, p256Verifier |-> p2, honkVerifier |-> h2,
     lastSubmissionTimestamp |-> [d \in DeviceIds |-> 2],
     usedSessionKeys |-> {<<d1, s1>>},
     events |-> <<[deviceId |-> d1, sessionId |-> s1, timestamp |-> 2,
                   gapFromPrevious |-> 0, postDisconnection |-> FALSE]>>,
     initialized |-> 2, cachedChainId |-> 1, cachedSeparator |-> ZeroWord]

MCForeignStorages == {Reset, Forged}
=============================================================================
