---------------------- MODULE MCEnergyProofRegistryV3 ----------------------
(***************************************************************************)
(* Model values for EnergyProofRegistryV3.  Calls are well-formed calls of *)
(* every device, session and epoch, signed with each key (any signature    *)
(* verifier accepts it) and proved for one proof verifier, and one call    *)
(* per way of being malformed.                                             *)
(***************************************************************************)
EXTENDS EnergyProofRegistryV3, TLC

CONSTANTS admin, operator, r1, r2, p1, p2, h1, h2, k1, d1, d2, s1, s2, s3

WellFormed ==
    [deviceId : DeviceIds, sessionId : SessionIds, epochStartTs : Epochs,
     devicePubkey : PubKeys, hashesAgree : {TRUE},
     signatureLengthOk : {TRUE}, pubkeyLengthOk : {TRUE},
     signatureAcceptedBy : {P256Verifiers},
     proofAcceptedBy : {{h} : h \in HonkVerifiers}]

Flawed(call) ==
    {[call EXCEPT !.hashesAgree = FALSE], [call EXCEPT !.signatureLengthOk = FALSE],
     [call EXCEPT !.pubkeyLengthOk = FALSE], [call EXCEPT !.signatureAcceptedBy = {}],
     [call EXCEPT !.proofAcceptedBy = {}]}

MCCalls ==
    WellFormed \cup UNION {Flawed(call) : call \in {c \in WellFormed : c.epochStartTs = 1}}

(* Spec for instances with one registry and one verifier of each kind: the *)
(* three setters, which reject the address that is already set, are left   *)
(* out because they are never enabled.  MCDeployment runs them.            *)
FixedAddressesNext ==
    \/ \E caller \in Accounts :
          \/ \E call \in Calls : submitProof(caller, call)
          \/ pause(caller)
          \/ unpause(caller)
    \/ RoleTransaction
    \/ \E registry \in Registries, key \in PubKeys : AuthorizationChanges(registry, key)
    \/ NewBlock

FixedAddressesSpec == Init /\ [][FixedAddressesNext]_vars

(* No call and no variable singles out a device or a session.              *)
MCSymmetry == Permutations(DeviceIds) \cup Permutations(SessionIds)
=============================================================================
