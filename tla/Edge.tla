--------------------------------- MODULE Edge ---------------------------------
(***************************************************************************)
(* A device and its operator in front of the aggregator.  Each run of the  *)
(* script (edge/scripts/sepolia_smoke.py, or the one for the chip) signs   *)
(* one payload, posts it once and polls the job until it settles or the    *)
(* script's time is up.  The request schema, the duplicate check and the   *)
(* rate limit stand between the two; requests and answers get lost, come   *)
(* late, and find an aggregator that has restarted with an empty queue.    *)
(*                                                                         *)
(* The worker is abridged to what Aggregator shows of it: it settles only  *)
(* what it has claimed, and completes only what the contract accepted, or, *)
(* without a chain client, what it has proved.  It decides from the        *)
(* payload whether circuit, encoder and contract go along.                 *)
(***************************************************************************)
EXTENDS Payload, SubmissionQueue

CONSTANTS
    Payloads,       (* what the device may measure, one epoch a session    *)
    Key,            (* its key                                             *)
    RATE_MAX,       (* requests per minute and address                     *)
    None,
    MaxRuns,        (* bounds: runs of the script,                         *)
    MaxPolls,       (* polls within max_poll_s, more than RATE_MAX,        *)
    MaxRestarts     (* and restarts of the aggregator                      *)

EdgeCodes == {"CircuitConstraintFailed", "SessionKeyAlreadyUsed", "UNKNOWN"}

ASSUME EdgeAssumption ==
    /\ JobIds = {computeSessionKey(p) : p \in Payloads}
    /\ Codes = EdgeCodes
    /\ None \notin JobIds
    /\ RATE_MAX \in Nat \ {0}
    /\ MaxPolls \in Nat \ {0}
    /\ MaxRuns \in Nat /\ MaxRestarts \in Nat

VARIABLES
    client,         (* the running script                                  *)
    runs,           (* how many were started                               *)
    wire,           (* POST requests on their way to the aggregator        *)
    reply,          (* the response to the script's current request        *)
    told,           (* told[id]: outcomes the scripts printed for id       *)
    hits,           (* requests counted in the current minute              *)
    data,           (* data[id]: the submission of the job                 *)
    landed,         (* this attempt has seen its transaction succeed       *)
    accepted,       (* sessions in the contract                            *)
    process,        (* which process is serving: number of restarts        *)
    live            (* the aggregator has a chain client; else: mock mode  *)

clientVars == <<client, runs, told>>
serverVars == <<records, pending, data, landed, hits, process, live>>
edgeVars == <<clientVars, wire, reply, serverVars, accepted>>

Outcomes == {"SUCCESS", "FAILED", "QUARANTINED", "REJECTED", "TRANSPORT", "TIMEOUT"}

Stages == {"idle", "posting", "polling", "getting"}

Idle == [stage |-> "idle", id |-> None, polls |-> 0, since |-> 0]

Response == [code : {202, 400, 409, 429}, process : 0..MaxRestarts]
               \cup [code : {404, 429}] \cup [code : {200}, status : JobStatus]

(* Type correctness; a script that waits has at most one response, and a   *)
(* job has the submission it was enqueued with.                            *)
EdgeTypeOK ==
    /\ QueueTypeOK
    /\ client \in [stage : Stages, id : JobIds \cup {None},
                   polls : 0..MaxPolls, since : 0..MaxRestarts]
    /\ client.stage = "idle" <=> client.id = None
    /\ runs \in 0..MaxRuns
    /\ reply \in Response \cup {None}
    /\ reply # None => client.stage \in {"posting", "getting"}
    /\ told \in [JobIds -> SUBSET Outcomes]
    /\ hits \in 0..RATE_MAX
    /\ \A id \in JobIds :
          records[id].status # "absent" => computeSessionKey(data[id].payload) = id
    /\ landed \in BOOLEAN
    /\ accepted \subseteq JobIds
    /\ live \in BOOLEAN

EdgeInit ==
    /\ QueueInit
    /\ client = Idle
    /\ runs = 0
    /\ wire = {}
    /\ reply = None
    /\ told = [id \in JobIds |-> {}]
    /\ hits = 0
    /\ data = [id \in JobIds |-> None]
    /\ landed = FALSE
    /\ accepted = {}
    /\ process = 0
    /\ live \in BOOLEAN

-----------------------------------------------------------------------------
(***************************************************************************)
(* The script.                                                             *)
(***************************************************************************)
Send(p, s) ==
    /\ client' = [Idle EXCEPT !.stage = "posting", !.id = computeSessionKey(p)]
    /\ wire' = wire \cup
          {[run |-> runs + 1,
            submission |-> [payload |-> p, public_key |-> Key,
                            signature |-> sign(Key, edge_payload_hash(p), s)]]}
    /\ UNCHANGED told

(* client.submit serialises before it sends: a payload that can not be     *)
(* packed raises, and counts as a transport error.                         *)
StartRun(p, s) ==
    /\ client.stage = "idle"
    /\ runs < MaxRuns
    /\ runs' = runs + 1
    /\ IF Packable(p) THEN Send(p, s)
       ELSE /\ told' = [told EXCEPT ![computeSessionKey(p)] = @ \cup {"TRANSPORT"}]
            /\ UNCHANGED <<client, wire>>
    /\ UNCHANGED <<reply, serverVars, accepted>>

Exit(outcome) ==
    /\ told' = [told EXCEPT ![client.id] = @ \cup {outcome}]
    /\ client' = Idle
    /\ reply' = None
    /\ UNCHANGED <<runs, serverVars, accepted>>

GoOn_KeepsReply ==  \* the answer is there for the next poll as well
    /\ client' = [client EXCEPT !.stage = "polling"]
    /\ UNCHANGED <<reply, runs, told, serverVars, accepted>>

GoOn ==
    /\ client' = [client EXCEPT !.stage = "polling"]
    /\ reply' = None
    /\ UNCHANGED <<runs, told, serverVars, accepted>>

ReceiveSubmitted_AnyAnswer ==  \* no look at the status code
    /\ client.stage = "posting"
    /\ reply # None
    /\ client' = [client EXCEPT !.stage = "polling", !.since = reply.process]
    /\ reply' = None
    /\ UNCHANGED <<runs, told, wire, serverVars, accepted>>

(* submit(): 202 is a response, 400 and 409 a SubmissionRejected, anything *)
(* else an exception that counts as a transport error.                     *)
ReceiveSubmitted ==
    /\ client.stage = "posting"
    /\ reply # None
    /\ \/ /\ reply.code = 202
          /\ client' = [client EXCEPT !.stage = "polling", !.since = reply.process]
          /\ reply' = None
          /\ UNCHANGED <<runs, told, serverVars, accepted>>
       \/ reply.code \in {400, 409} /\ Exit("REJECTED")
       \/ reply.code = 429 /\ Exit("TRANSPORT")
    /\ UNCHANGED wire

Poll_Uncounted ==  \* the clock is read once, before the loop
    /\ client.stage = "polling"
    /\ client' = [client EXCEPT !.stage = "getting"]
    /\ UNCHANGED <<runs, told, wire, reply, serverVars, accepted>>

Poll ==
    /\ client.stage = "polling"
    /\ client.polls < MaxPolls
    /\ client' = [client EXCEPT !.stage = "getting", !.polls = @ + 1]
    /\ UNCHANGED <<runs, told, wire, reply, serverVars, accepted>>

(* A settled job ends the script; an exception (404, 429) is printed and   *)
(* the script sleeps on, as it does for a job still at work.               *)
OutcomeOf(status) == CASE status = "complete"    -> "SUCCESS"
                       [] status = "failed"      -> "FAILED"
                       [] status = "quarantined" -> "QUARANTINED"

ReceiveStatus ==
    /\ client.stage = "getting"
    /\ reply # None
    /\ IF reply.code = 200 /\ reply.status \in Terminal
       THEN Exit(OutcomeOf(reply.status))
       ELSE GoOn
    /\ UNCHANGED wire

(* The timeout of a request, or a connection that breaks.  A request given *)
(* up may still reach the aggregator.                                      *)
HttpFails ==
    \/ /\ client.stage = "posting"
       /\ Exit("TRANSPORT")
       /\ wire' \in {wire, {m \in wire : m.run # runs}}
    \/ /\ client.stage = "getting"
       /\ GoOn
       /\ UNCHANGED wire

(* The loop's condition: tested before a poll, and true at first.          *)
TimeIsUp ==
    /\ client.stage = "polling"
    /\ client.polls > 0
    /\ Exit("TIMEOUT")
    /\ UNCHANGED wire

ScriptStep ==
    ReceiveSubmitted \/ Poll \/ ReceiveStatus \/ HttpFails \/ TimeIsUp

-----------------------------------------------------------------------------
(***************************************************************************)
(* The server.                                                             *)
(***************************************************************************)
Limited == hits = RATE_MAX

CountHit == hits' = IF Limited THEN hits ELSE hits + 1

Respond(m, code) ==
    reply' = IF client.stage = "posting" /\ m.run = runs
             THEN [code |-> code, process |-> process] ELSE reply

ServePost(m) ==
    LET p == m.submission.payload
        id == computeSessionKey(p)
    IN  /\ wire' = wire \ {m}
        /\ CountHit
        /\ \/ /\ \/ Limited /\ Respond(m, 429)
                 \/ ~Limited /\ ~submissionSchema(p) /\ Respond(m, 400)
                 \/ /\ ~Limited /\ submissionSchema(p)
                    /\ records[id].status # "absent"
                    /\ Respond(m, 409)
              /\ UNCHANGED <<records, pending, data>>
           \/ /\ ~Limited /\ submissionSchema(p)
              /\ enqueue(id)
              /\ data' = [data EXCEPT ![id] = m.submission]
              /\ Respond(m, 202)
        /\ UNCHANGED <<clientVars, landed, process, live, accepted>>

ServeGet ==
    /\ client.stage = "getting"
    /\ reply = None
    /\ CountHit
    /\ reply' = IF Limited THEN [code |-> 429]
                ELSE IF records[client.id].status = "absent" THEN [code |-> 404]
                ELSE [code |-> 200, status |-> records[client.id].status]
    /\ UNCHANGED <<clientVars, wire, records, pending, data, landed, process, live,
                   accepted>>

NewMinute ==
    /\ hits > 0
    /\ hits' = 0
    /\ UNCHANGED <<clientVars, wire, reply, records, pending, data, landed,
                   process, live, accepted>>

-----------------------------------------------------------------------------
(***************************************************************************)
(* The worker and the chain.                                               *)
(***************************************************************************)
Working(id) == records[id].status = "processing"

Claim(id) ==
    /\ \A other \in JobIds : ~Working(other)
    /\ claim(id)
    /\ landed' = FALSE
    /\ UNCHANGED <<data, accepted>>

Provable(id) == circuit(prepareWitnessInputs(data[id]))

Sendable(id) == Provable(id) /\ ContractVerifies(data[id])

Land(id) ==
    /\ live
    /\ Working(id)
    /\ Sendable(id)
    /\ id \notin accepted
    /\ accepted' = accepted \cup {id}
    /\ landed' = TRUE
    /\ UNCHANGED <<records, pending, data>>

(* Without a chain client a proof is all it takes to be complete.          *)
Done_MockToo(id) == landed \/ Provable(id)  \* the mode is forgotten
Done(id) == IF live THEN landed ELSE Provable(id)

(* UNKNOWN stands for every other exception: a lost answer, a prover that  *)
(* runs out of memory, a total the encoder refuses.                        *)
Settled(id) ==
    /\ Working(id)
    /\ \/ Done(id) /\ complete(id)
       \/ ~Provable(id) /\ quarantine(id, "CircuitConstraintFailed")
       \/ /\ live /\ Sendable(id) /\ ~landed /\ id \in accepted
          /\ quarantine(id, "SessionKeyAlreadyUsed")
       \/ fail(id, "UNKNOWN")
    /\ UNCHANGED <<data, landed, accepted>>

WorkerDoes ==
    /\ \E id \in JobIds : Claim(id) \/ Land(id) \/ Settled(id)
    /\ UNCHANGED <<clientVars, wire, reply, hits, process, live>>

(* A new process knows no job and counts from zero.  What the contract     *)
(* accepted stays, and the script notices nothing.                         *)
Restart ==
    /\ process < MaxRestarts
    /\ process' = process + 1
    /\ lose
    /\ data' = [id \in JobIds |-> None]
    /\ landed' = FALSE
    /\ hits' = 0
    /\ UNCHANGED <<clientVars, wire, reply, live, accepted>>

EdgeNext ==
    \/ \E p \in Payloads, s \in {"low", "high"} : StartRun(p, s)
    \/ ScriptStep
    \/ \E m \in wire : ServePost(m)
    \/ ServeGet
    \/ NewMinute
    \/ WorkerDoes
    \/ Restart

EdgeSpec == EdgeInit /\ [][EdgeNext]_edgeVars

(* The script's own steps happen: httpx ends every request after its       *)
(* timeout, sleep returns, and the loop looks at the clock.  Nothing is    *)
(* assumed of the aggregator.                                              *)
FairEdgeSpec == EdgeSpec /\ WF_edgeVars(ScriptStep)

-----------------------------------------------------------------------------
(***************************************************************************)
(* Properties.                                                             *)
(***************************************************************************)
NonNegative(p) == p.lat_e7 >= 0 /\ p.lon_e7 >= 0

(* canonical.ts asks for encodings that match "bit-exact".  For every job  *)
(* the API let in without a negative coordinate they do, whichever s the   *)
(* signer's library returned: the device's signature and the two sides of  *)
(* the aggregator satisfy the circuit.  The contract computes the inputs   *)
(* the proof was made for exactly when the total fits the uint64 it is     *)
(* passed as; a larger one, which the circuit allows, is never sent.       *)
EncodingsAgree ==
    \A id \in JobIds :
        records[id].status # "absent" /\ NonNegative(data[id].payload) =>
            /\ circuit(prepareWitnessInputs(data[id]))
            /\ ContractVerifies(data[id])
                  <=> computeTotalEnergy(data[id].payload) < WORD

(* edge_design.md promises it of the southern hemisphere too.              *)
EncodingsAgreeEverywhere ==
    \A id \in JobIds :
        records[id].status # "absent" /\ computeTotalEnergy(data[id].payload) < WORD =>
            /\ circuit(prepareWitnessInputs(data[id]))
            /\ ContractVerifies(data[id])

(* A script that prints SUCCESS speaks of a session the contract accepted  *)
(* (sepolia_smoke.py:194), whatever was lost or restarted on the way, if   *)
(* the aggregator it talked to has a chain client; in mock mode it prints  *)
(* the same of what was only proved.                                       *)
SuccessIsReal == live => \A id \in JobIds : "SUCCESS" \in told[id] => id \in accepted

(* A script polls only for a job the aggregator has: between its 202 and a *)
(* restart of the process the record is there to be found.                 *)
PollingIsTracked ==
    client.stage \in {"polling", "getting"} /\ client.since = process
        => records[client.id].status # "absent"

(* What a run of the script believes.                                      *)
OutcomesAreTrue == SuccessIsReal /\ PollingIsTracked

(* A run of the script ends, whatever the aggregator, the network and the  *)
(* rate limit do.                                                          *)
RunEnds == client.stage # "idle" ~> client.stage = "idle"
=============================================================================
