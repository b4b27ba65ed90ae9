----------------------------- MODULE ProofLedger -----------------------------
(***************************************************************************)
(* What EnergyProofRegistryV3 promises its readers, without its storage: a *)
(* growing list of accepted proofs in which every session appears at most  *)
(* once and every entry is measured against the device's previous entry.   *)
(* "Previous" is defined on the list itself.  The contract instead caches  *)
(* it in two mappings; that the caches never disagree with the list is     *)
(* what the refinement says.                                               *)
(***************************************************************************)
EXTENDS Integers, Sequences

CONSTANTS
    DeviceIds,
    SessionIds,
    Epochs,          (* the uint64 start times submitted                   *)
    MAX_GAP_SECONDS  (* a longer gap is flagged as a disconnection         *)

VARIABLE ledger

Entry == [deviceId : DeviceIds, sessionId : SessionIds, timestamp : Nat,
          gapFromPrevious : Nat, postDisconnection : BOOLEAN]

EntriesOf(l, deviceId) == {i \in DOMAIN l : l[i].deviceId = deviceId}

Latest(entries) == CHOOSE i \in entries : \A j \in entries : j <= i

(* The epoch a device reported last; 0 when it has reported none.          *)
LatestEpoch(l, deviceId) ==
    LET entries == EntriesOf(l, deviceId)
    IN  IF entries = {} THEN 0 ELSE l[Latest(entries)].timestamp

(* The gap an epoch leaves behind the previous one.  Epoch 0 stands for    *)
(* "no previous epoch", as it does in the contract.                        *)
GapFrom(previous, epoch) == IF previous = 0 THEN 0 ELSE epoch - previous

Init == ledger = <<>>

(* A proof of a session not in the ledger, later than the device's         *)
(* previous entry if there is one.                                         *)
Accept(deviceId, sessionId, epoch) ==
    LET previous == LatestEpoch(ledger, deviceId)
        gap      == GapFrom(previous, epoch)
    IN  /\ \A i \in EntriesOf(ledger, deviceId) : ledger[i].sessionId # sessionId
        /\ previous # 0 => epoch > previous
        /\ ledger' = Append(ledger,
               [deviceId |-> deviceId, sessionId |-> sessionId,
                timestamp |-> epoch, gapFromPrevious |-> gap,
                postDisconnection |-> gap > MAX_GAP_SECONDS])

Next == \E deviceId \in DeviceIds, sessionId \in SessionIds, epoch \in Epochs :
            Accept(deviceId, sessionId, epoch)

Spec == Init /\ [][Next]_ledger
=============================================================================
