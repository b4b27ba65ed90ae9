------------------------------- MODULE Payload -------------------------------
(***************************************************************************)
(* A measurement on its way from the sensor to the contract: how a device  *)
(* samples, serialises and signs it, what the request schema lets through, *)
(* and the three encodings of it as field elements that have to agree: the *)
(* signed bytes, the witness of the proof, and the public inputs which the *)
(* contract hands to the verifier.                                         *)
(*                                                                         *)
(* Widths are constants.  An integer of 64 bits has two bytes here, so its *)
(* values are those below BYTE * BYTE; fields, order and signs are kept.   *)
(***************************************************************************)
EXTENDS Integers, Sequences, SequencesExt, FiniteSetsExt

CONSTANTS
    BYTE,               (* 256                                             *)
    FIELD_SIZE,         (* BN254_FIELD_SIZE                                *)
    SLOT,               (* 2^256                                           *)
    LAT_MAX_E7,
    LON_MAX_E7,
    READINGS_PER_PAYLOAD,
    RATE                (* field elements the sponge absorbs at a time     *)

WORD == BYTE * BYTE
U64 == 0..(WORD - 1)
I64 == -(WORD \div 2)..(WORD \div 2 - 1)

(* A uint64 and every sum of products of two of them are field elements,   *)
(* and a field element fits a slot: as for 2^64, the BN254 prime and 2^256.*)
ASSUME PayloadAssumption ==
    /\ BYTE \in Nat \ {0} /\ BYTE % 2 = 0
    /\ READINGS_PER_PAYLOAD \in Nat \ {0}
    /\ FIELD_SIZE \in Nat /\ FIELD_SIZE > READINGS_PER_PAYLOAD * (WORD * WORD)
    /\ SLOT \in Nat /\ SLOT > FIELD_SIZE
    /\ RATE \in Nat \ {0}
    /\ LAT_MAX_E7 \in I64 /\ LON_MAX_E7 \in I64

(* What is signed; the request schema decodes to it as well.               *)
Reading == [voltage_mv : U64, current_ma : U64, timestamp_ms : U64]

CanonicalPayload ==
    [device_id : U64, session_id : U64, epoch_start_ts : U64, lat_e7 : I64, lon_e7 : I64,
     light_level : U64, tamper_flag : U64, readings : Seq(Reading)]

-----------------------------------------------------------------------------
(***************************************************************************)
(* The device.                                                             *)
(***************************************************************************)
signed(raw) == IF raw > WORD \div 2 - 1 THEN raw - WORD ELSE raw

(* round(raw * 1.25), half to even as Python rounds.                       *)
millivolts(raw) ==
    LET whole == (5 * raw) \div 4
        quarters == (5 * raw) % 4
    IN  IF quarters > 2 \/ (quarters = 2 /\ whole % 2 = 1) THEN whole + 1 ELSE whole

(* One sample of the INA226's registers: a reverse current counts as none. *)
sample(bus, current, time) ==
    [voltage_mv |-> millivolts(bus), current_ma |-> Max({signed(current), 0}),
     timestamp_ms |-> time]

collect_readings(registers) ==
    [i \in DOMAIN registers |-> sample(registers[i][1], registers[i][2], i)]

(* MockEdgeDevice: a fixed pattern around the baseline, or a dark night.   *)
read_readings(n, base, nighttime) ==
    [i \in 1..n |->
        [voltage_mv |-> IF nighttime THEN 0 ELSE base[1] + ((i - 1) % 10),
         current_ma |-> IF nighttime THEN 0 ELSE base[2] + ((i - 1) % 8),
         timestamp_ms |-> i]]

make_payload(device_id, session_id, epoch_start_ts, place, readings) ==
    [device_id |-> device_id, session_id |-> session_id,
     epoch_start_ts |-> epoch_start_ts, lat_e7 |-> place[1], lon_e7 |-> place[2],
     light_level |-> 1, tamper_flag |-> 0, readings |-> readings]

(* The two bytes of a word, most significant first.  A negative number has *)
(* the bytes of its two's complement.                                      *)
bigEndian(v) == <<(v % WORD) \div BYTE, v % BYTE>>

Flat(readings) ==
    FlattenSeq([i \in DOMAIN readings |->
        <<readings[i].voltage_mv, readings[i].current_ma, readings[i].timestamp_ms>>])

(* struct.pack raises outside a format's range.                            *)
Packable(p) == Len(p.readings) = READINGS_PER_PAYLOAD /\ p \in CanonicalPayload

(* edge/hal/canonical.py and aggregator/src/verify/canonical.ts.  (The     *)
(* first is defined where Packable; the second wraps.)                     *)
edge_canonicalize(p) ==
    FlattenSeq(
        <<bigEndian(p.device_id), bigEndian(p.session_id), bigEndian(p.epoch_start_ts),
          bigEndian(p.lat_e7), bigEndian(p.lon_e7),
          bigEndian(p.light_level), bigEndian(p.tamper_flag)>>
        \o [i \in DOMAIN Flat(p.readings) |-> bigEndian(Flat(p.readings)[i])])

canonicalize(p) ==
    LET words == <<p.device_id, p.session_id, p.epoch_start_ts, p.lat_e7, p.lon_e7,
                   p.light_level, p.tamper_flag>> \o Flat(p.readings)
    IN  [i \in 1..2 * Len(words) |-> bigEndian(words[(i + 1) \div 2])[2 - (i % 2)]]

bytesToFieldElements(bytes) ==
    [i \in 1..(Len(bytes) \div 2) |-> bytes[2 * i - 1] * BYTE + bytes[2 * i]]

(* The sponge: whole blocks of field elements, the last filled up with the *)
(* zeros of the initial state.  The permutation keeps them apart.          *)
poseidonSponge(msg) ==
    LET blocks == (Len(msg) + RATE - 1) \div RATE
    IN  [i \in 1..(blocks * RATE) |-> IF i <= Len(msg) THEN msg[i] % FIELD_SIZE ELSE 0]

edge_payload_hash(p) == poseidonSponge(bytesToFieldElements(edge_canonicalize(p)))
computePayloadHash(p) == poseidonSponge(bytesToFieldElements(canonicalize(p)))

(* What the library returns may have either s; the signer makes it low.    *)
sign_AsReturned(key, digest, s) == [by |-> key, over |-> digest, s |-> s]
sign(key, digest, s) == [by |-> key, over |-> digest,
                         s |-> IF s = "high" THEN "low" ELSE s]

-----------------------------------------------------------------------------
(***************************************************************************)
(* The aggregator.                                                         *)
(***************************************************************************)
submissionSchema(p) ==
    /\ p \in CanonicalPayload
    /\ p.lat_e7 \in -LAT_MAX_E7..LAT_MAX_E7
    /\ p.lon_e7 \in -LON_MAX_E7..LON_MAX_E7
    /\ p.tamper_flag \in {0, 1}
    /\ Len(p.readings) = READINGS_PER_PAYLOAD

computeSessionKey(p) == <<p.device_id, p.session_id>>

(* total[i] is the running total after i readings.                         *)
computeTotalEnergy(p) ==
    LET total[i \in 0..Len(p.readings)] ==
            IF i = 0 THEN 0
            ELSE total[i - 1] + p.readings[i].voltage_mv * p.readings[i].current_ma
    IN  total[Len(p.readings)]

(* Negative numbers become field elements by the field's own complement.   *)
toFieldHex(v) == IF v < 0 THEN v % FIELD_SIZE ELSE v

prepareWitnessInputs(submission) ==
    LET p == submission.payload
    IN  [public |-> [field \in {"device_id", "session_id", "epoch_start_ts", "lat_e7",
                                "lon_e7", "light_level", "tamper_flag"}
                        |-> toFieldHex(p[field])],
         payload_hash |-> computePayloadHash(p),
         total_energy_mwh |-> toFieldHex(computeTotalEnergy(p)),
         canonical_payload |-> [i \in DOMAIN bytesToFieldElements(canonicalize(p)) |->
                                   toFieldHex(bytesToFieldElements(canonicalize(p))[i])],
         signature |-> submission.signature,
         pubkey |-> submission.public_key]

-----------------------------------------------------------------------------
(***************************************************************************)
(* The circuit.  Executing it on a witness fails unless all checks hold.   *)
(***************************************************************************)
MetadataOrder == <<"device_id", "session_id", "epoch_start_ts", "lat_e7", "lon_e7",
                   "light_level", "tamper_flag">>

circuit(w) ==
    LET payload == w.canonical_payload
        energy[i \in 0..READINGS_PER_PAYLOAD] ==
            IF i = 0 THEN 0
            ELSE (energy[i - 1] + payload[5 + 3 * i] * payload[6 + 3 * i]) % FIELD_SIZE
    IN  /\ poseidonSponge(payload) = w.payload_hash
        /\ \A i \in DOMAIN MetadataOrder : payload[i] = w.public[MetadataOrder[i]]
        /\ w.signature.by = w.pubkey
        /\ w.signature.over = w.payload_hash
        /\ w.signature.s = "low"
        /\ energy[READINGS_PER_PAYLOAD] = w.total_energy_mwh

(* The public inputs a proof of the witness is good for.                   *)
Proved(w) ==
    [i \in DOMAIN MetadataOrder |-> w.public[MetadataOrder[i]]]
        \o <<w.payload_hash, w.total_energy_mwh>>

-----------------------------------------------------------------------------
(***************************************************************************)
(* The chain client and the contract.                                      *)
(***************************************************************************)

(* The ABI encoder throws for a uint64 out of range: there is no call.     *)
AbiEncodable_Always(p) == TRUE  \* the total is cut to its lowest 64 bits
AbiEncodable(p) == computeTotalEnergy(p) \in U64

PublicInputs(p) ==
    [deviceId |-> p.device_id, sessionId |-> p.session_id,
     epochStartTs |-> p.epoch_start_ts, lat_e7 |-> p.lat_e7, lon_e7 |-> p.lon_e7,
     lightLevel |-> p.light_level, tamperFlag |-> p.tamper_flag,
     payloadHash |-> computePayloadHash(p), totalEnergyMWh |-> computeTotalEnergy(p)]

(* A sign-extended int64 as an unsigned slot.                              *)
slotOf(v) == v % SLOT

_encodePublicInputs(pi) ==
    <<slotOf(pi.deviceId), slotOf(pi.sessionId), slotOf(pi.epochStartTs),
      slotOf(pi.lat_e7), slotOf(pi.lon_e7), slotOf(pi.lightLevel),
      slotOf(pi.tamperFlag), pi.payloadHash, slotOf(pi.totalEnergyMWh)>>

(* The contract is called at all, and its cryptographic checks pass: the   *)
(* signature over the hash, and a proof for exactly the inputs it computes.*)
ContractVerifies(submission) ==
    LET pi == PublicInputs(submission.payload)
    IN  /\ AbiEncodable(submission.payload)
        /\ submission.signature.by = submission.public_key
        /\ submission.signature.over = pi.payloadHash
        /\ Proved(prepareWitnessInputs(submission)) = _encodePublicInputs(pi)
=============================================================================
