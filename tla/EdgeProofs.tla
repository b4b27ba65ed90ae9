------------------------------- MODULE EdgeProofs -------------------------------
(***************************************************************************)
(* Proofs about Edge, for any payloads, any number of runs, polls and      *)
(* restarts and any rate limit.                                            *)
(*                                                                         *)
(* What a script prints is true because each of the four hops it came over *)
(* keeps a promise: a request carries its run's session (WireInv), a       *)
(* response was true when it was given and stays so (ReplyInv), a record   *)
(* is complete only for an accepted session (WorkInv), and nothing takes a *)
(* session out of the contract again.                                      *)
(*                                                                         *)
(* That the three encodings of a payload agree is a matter of its data:    *)
(* the second half follows its words through bytes, field elements, sums   *)
(* and slots, by induction over positions, and SubmissionsInv says that    *)
(* every job is a payload as the device packed and signed it.              *)
(***************************************************************************)
EXTENDS Edge, SubmissionQueueProofs, WellFoundedInduction

ClientType == [stage : Stages, id : JobIds \cup {None},
               polls : 0..MaxPolls, since : 0..MaxRestarts]

PostAnswer == [code : {202, 400, 409, 429}, process : 0..MaxRestarts]
GetAnswer == [code : {404, 429}] \cup [code : {200}, status : JobStatus]

(* The script; it remembers a process that was running when it was told.   *)
ClientInv ==
    /\ client \in ClientType
    /\ client.stage = "idle" <=> client.id = None
    /\ client.since <= process
    /\ runs \in 0..MaxRuns
    /\ told \in [JobIds -> SUBSET Outcomes]

(* A request that the waiting script could get an answer to is for the     *)
(* session it waits for.                                                   *)
WireInv ==
    \A m \in wire :
        /\ m.submission.payload \in Payloads
        /\ m.run \in 1..runs
        /\ m.run = runs /\ client.stage # "idle" =>
              computeSessionKey(m.submission.payload) = client.id

Known(id) == records[id].status # "absent"

ReplyInv ==
    reply # None =>
        \/ /\ client.stage = "posting"
           /\ reply \in PostAnswer
           /\ reply.process <= process
           /\ reply.code = 202 /\ reply.process = process => Known(client.id)
        \/ /\ client.stage = "getting"
           /\ reply \in GetAnswer
           /\ live /\ reply.code = 200 /\ reply.status = "complete" =>
                 client.id \in accepted

ServerInv ==
    /\ hits \in 0..RATE_MAX
    /\ process \in 0..MaxRestarts
    /\ landed \in BOOLEAN /\ live \in BOOLEAN
    /\ accepted \subseteq JobIds
    /\ DOMAIN data = JobIds
    /\ \A id \in JobIds : Known(id) => computeSessionKey(data[id].payload) = id

(* One job at a time, and the worker's memory of a success is of its job.  *)
WorkInv ==
    /\ \A i, j \in JobIds : Working(i) /\ Working(j) => i = j
    /\ \A id \in JobIds : landed /\ Working(id) => id \in accepted
    /\ live => \A id \in JobIds : records[id].status = "complete" => id \in accepted

EdgeInv ==
    /\ ClientInv
    /\ WireInv
    /\ ReplyInv
    /\ ServerInv
    /\ WorkInv
    /\ OutcomesAreTrue
    /\ QInv

(* It has everything the run checks of types and outcomes.                 *)
LEMMA EdgeInvIsEnough == EdgeInv => EdgeTypeOK /\ OutcomesAreTrue
<1> SUFFICES ASSUME EdgeInv PROVE EdgeTypeOK
  BY DEF EdgeInv
<1>1. QueueTypeOK
  BY InvariantIsEnough DEF EdgeInv
<1>2. PostAnswer \subseteq Response /\ GetAnswer \subseteq Response
  BY DEF PostAnswer, GetAnswer, Response
<1>3. reply \in Response \cup {None}
  BY <1>2 DEF EdgeInv, ReplyInv
<1>4. reply # None => client.stage \in {"posting", "getting"}
  BY DEF EdgeInv, ReplyInv
<1> QED
  BY <1>1, <1>3, <1>4 DEF EdgeInv, ClientInv, ClientType, ServerInv, EdgeTypeOK, Known

-----------------------------------------------------------------------------
(***************************************************************************)
(* The queue.                                                              *)
(***************************************************************************)
(* The worker's steps are the queue's.                                     *)
LEMMA WorkerUsesQueue ==
    ASSUME NEW id \in JobIds, Claim(id) \/ Land(id) \/ Settled(id)
    PROVE  [QueueNext]_qvars
<1>1. CASE Claim(id)
  BY <1>1 DEF Claim, QueueNext
<1>2. CASE Land(id)
  BY <1>2 DEF Land, qvars
<1>3. CASE Settled(id)
  <2>1. {"CircuitConstraintFailed", "SessionKeyAlreadyUsed", "UNKNOWN"} \subseteq Codes
    BY EdgeAssumption DEF EdgeCodes
  <2>2. Settle(id)
    BY <1>3, <2>1 DEF Settled, Settle, Working
  <2> QED
    BY <2>2 DEF QueueNext
<1> QED
  BY <1>1, <1>2, <1>3

(* Script, API, worker and restarts use the queue as its specification     *)
(* says, as long as requests carry sessions that exist.                    *)
LEMMA StepUsesQueue ==
    ASSUME WireInv, [EdgeNext]_edgeVars
    PROVE  [QueueNext]_qvars
<1>1. ASSUME NEW p \in Payloads, NEW s \in {"low", "high"}, StartRun(p, s)
      PROVE  UNCHANGED qvars
  BY <1>1 DEF StartRun, serverVars, qvars
<1>2. ScriptStep => UNCHANGED qvars
  BY DEF ScriptStep, ReceiveSubmitted, Poll, ReceiveStatus, HttpFails, TimeIsUp,
         Exit, GoOn, serverVars, qvars
<1>3. ASSUME NEW m \in wire, ServePost(m)
      PROVE  [QueueNext]_qvars
  <2> DEFINE id == computeSessionKey(m.submission.payload)
  <2>1. id \in JobIds
    BY EdgeAssumption DEF WireInv
  <2>2. enqueue(id) \/ UNCHANGED <<records, pending>>
    BY <1>3 DEF ServePost
  <2> HIDE DEF id
  <2> QED
    BY <2>1, <2>2 DEF QueueNext, qvars
<1>4. WorkerDoes => [QueueNext]_qvars
  BY WorkerUsesQueue DEF WorkerDoes
<1>5. Restart => QueueNext
  BY DEF Restart, QueueNext
<1>6. ServeGet \/ NewMinute \/ UNCHANGED edgeVars => UNCHANGED qvars
  BY DEF ServeGet, NewMinute, edgeVars, serverVars, qvars
<1> QED
  BY <1>1, <1>2, <1>3, <1>4, <1>5, <1>6 DEF EdgeNext

-----------------------------------------------------------------------------
(***************************************************************************)
(* The script's steps.                                                     *)
(***************************************************************************)
(* A step that touches neither queue, job data nor chain.                  *)
LEMMA ServerUntouched ==
    ASSUME EdgeInv, UNCHANGED serverVars, UNCHANGED accepted
    PROVE  ServerInv' /\ WorkInv' /\ QInv' /\ \A id : Known(id)' = Known(id)
<1>1. UNCHANGED <<records, pending, data, landed, hits, process, live, accepted>>
  BY DEF serverVars
<1>2. \A id : Known(id)' = Known(id) /\ Working(id)' = Working(id)
  BY <1>1 DEF Known, Working
<1> QED
  BY <1>1, <1>2 DEF EdgeInv, ServerInv, WorkInv, QInv

(* Nobody waits for the requests of earlier runs, so a new one is alone.   *)
LEMMA SendSafe ==
    ASSUME EdgeInv, NEW p \in Payloads, NEW s \in {"low", "high"}, StartRun(p, s),
           Packable(p)
    PROVE  EdgeInv'
<1> DEFINE id == computeSessionKey(p)
           m == [run |-> runs + 1,
                 submission |-> [payload |-> p, public_key |-> Key,
                                 signature |-> sign(Key, edge_payload_hash(p), s)]]
<1>1. id \in JobIds /\ None \notin JobIds /\ MaxRuns \in Nat /\ MaxRestarts \in Nat
      /\ MaxPolls \in Nat
  BY EdgeAssumption
<1>2. /\ client.stage = "idle" /\ runs < MaxRuns /\ runs' = runs + 1
      /\ client' = [Idle EXCEPT !.stage = "posting", !.id = id]
      /\ wire' = wire \cup {m}
      /\ UNCHANGED <<reply, told, serverVars, accepted>>
  BY DEF StartRun, Send
<1>3. m.run = runs + 1 /\ m.submission.payload = p
  OBVIOUS
<1> HIDE DEF id, m
<1>4. client' = [stage |-> "posting", id |-> id, polls |-> 0, since |-> 0]
  BY <1>2 DEF Idle
<1>5. ServerInv' /\ WorkInv' /\ QInv' /\ \A i : Known(i)' = Known(i)
  BY <1>2, ServerUntouched
<1>6. process' = process /\ process \in Nat
  BY <1>1, <1>2 DEF EdgeInv, ServerInv, serverVars
<1>7. ClientInv'
  <2>1. client' \in ClientType
    BY <1>1, <1>4 DEF ClientType, Stages
  <2>2. client'.stage # "idle" /\ client'.id # None /\ client'.since <= process'
    BY <1>1, <1>4, <1>6
  <2>3. runs' \in 0..MaxRuns /\ told' \in [JobIds -> SUBSET Outcomes]
    BY <1>1, <1>2 DEF EdgeInv, ClientInv
  <2> QED
    BY <2>1, <2>2, <2>3 DEF ClientInv
<1>8. WireInv'
  <2> SUFFICES ASSUME NEW n \in wire'
               PROVE  /\ n.submission.payload \in Payloads
                      /\ n.run \in 1..runs'
                      /\ n.run = runs' => computeSessionKey(n.submission.payload) = id
    BY <1>4 DEF WireInv
  <2>1. runs \in Nat
    BY <1>1 DEF EdgeInv, ClientInv
  <2>2. CASE n = m
    BY <1>2, <1>3, <2>1, <2>2 DEF id
  <2>3. CASE n \in wire
    BY <1>2, <2>1, <2>3 DEF EdgeInv, WireInv
  <2> QED
    BY <1>2, <2>2, <2>3
<1>9. ReplyInv'
  BY <1>2, <1>4 DEF EdgeInv, ReplyInv
<1>10. OutcomesAreTrue'
  BY <1>2, <1>4 DEF EdgeInv, OutcomesAreTrue, SuccessIsReal, PollingIsTracked, serverVars
<1> QED
  BY <1>5, <1>7, <1>8, <1>9, <1>10 DEF EdgeInv

(* A payload that can not be packed is reported and not sent.              *)
LEMMA StartRunSafe ==
    ASSUME EdgeInv, NEW p \in Payloads, NEW s \in {"low", "high"}, StartRun(p, s)
    PROVE  EdgeInv'
<1>1. CASE ~Packable(p)
  <2> DEFINE id == computeSessionKey(p)
  <2>1. id \in JobIds /\ MaxRuns \in Nat
    BY EdgeAssumption
  <2>2. /\ client.stage = "idle" /\ runs < MaxRuns /\ runs' = runs + 1
        /\ told' = [told EXCEPT ![id] = told[id] \cup {"TRANSPORT"}]
        /\ UNCHANGED <<client, wire, reply, serverVars, accepted>>
    BY <1>1 DEF StartRun
  <2> HIDE DEF id
  <2>3. ServerInv' /\ WorkInv' /\ QInv' /\ \A i : Known(i)' = Known(i)
    BY <2>2, ServerUntouched
  <2>4. process' = process /\ live' = live
    BY <2>2 DEF serverVars
  <2>5. told \in [JobIds -> SUBSET Outcomes] /\ runs \in 0..MaxRuns
    BY DEF EdgeInv, ClientInv
  <2>6. ClientInv'
    <3>1. told' \in [JobIds -> SUBSET Outcomes]
      BY <2>1, <2>2, <2>5 DEF Outcomes
    <3>2. runs' \in 0..MaxRuns
      BY <2>1, <2>2, <2>5
    <3> QED
      BY <2>2, <2>4, <3>1, <3>2 DEF EdgeInv, ClientInv
  <2>7. WireInv'
    BY <2>1, <2>2, <2>5 DEF EdgeInv, WireInv
  <2>8. ReplyInv'
    BY <2>2 DEF EdgeInv, ReplyInv
  <2>9. OutcomesAreTrue'
    <3>1. SuccessIsReal'
      BY <2>1, <2>2, <2>4, <2>5 DEF EdgeInv, OutcomesAreTrue, SuccessIsReal
    <3> QED
      BY <2>2, <3>1 DEF OutcomesAreTrue, PollingIsTracked
  <2> QED
    BY <2>3, <2>6, <2>7, <2>8, <2>9 DEF EdgeInv
<1> QED
  BY <1>1, SendSafe

(* The end of a run; the outcome it prints has to be one it may print.     *)
LEMMA ExitSafe ==
    ASSUME EdgeInv, client.stage # "idle", NEW outcome \in Outcomes, Exit(outcome),
           outcome = "SUCCESS" /\ live => client.id \in accepted, wire' \subseteq wire
    PROVE  EdgeInv'
<1>1. /\ told' = [told EXCEPT ![client.id] = @ \cup {outcome}]
      /\ client' = [stage |-> "idle", id |-> None, polls |-> 0, since |-> 0]
      /\ reply' = None
      /\ UNCHANGED <<runs, serverVars, accepted>>
  BY DEF Exit, Idle
<1>2. None \notin JobIds /\ MaxPolls \in Nat /\ MaxRestarts \in Nat
  BY EdgeAssumption
<1>3. /\ client.id \in JobIds
      /\ told \in [JobIds -> SUBSET Outcomes]
  BY <1>2 DEF EdgeInv, ClientInv, ClientType
<1>4. ServerInv' /\ WorkInv' /\ QInv' /\ \A i : Known(i)' = Known(i)
  BY <1>1, ServerUntouched
<1>5. told' \in [JobIds -> SUBSET Outcomes]
  BY <1>1, <1>3
<1>6. process' = process /\ process \in Nat /\ live' = live
  BY <1>1, <1>2 DEF EdgeInv, ServerInv, serverVars
<1>7. ClientInv'
  BY <1>1, <1>2, <1>5, <1>6 DEF EdgeInv, ClientInv, ClientType, Stages
<1>8. WireInv'
  BY <1>1 DEF EdgeInv, WireInv
<1>9. ReplyInv'
  BY <1>1 DEF ReplyInv
<1>10. SuccessIsReal'
  BY <1>1, <1>3, <1>6 DEF EdgeInv, OutcomesAreTrue, SuccessIsReal
<1>11. OutcomesAreTrue'
  BY <1>1, <1>10 DEF OutcomesAreTrue, PollingIsTracked
<1> QED
  BY <1>4, <1>7, <1>8, <1>9, <1>11 DEF EdgeInv

(* A step of the loop that leaves the script with the job it has.          *)
LEMMA LoopSafe ==
    ASSUME EdgeInv, client.stage # "idle",
           NEW stage \in {"polling", "getting"}, NEW polls \in 0..MaxPolls,
           NEW since \in 0..MaxRestarts,
           client' = [stage |-> stage, id |-> client.id, polls |-> polls,
                      since |-> since],
           since <= process, since = process => Known(client.id),
           reply' = None \/ (reply' = reply /\ client.stage = "polling"),
           UNCHANGED <<runs, told, wire, serverVars, accepted>>
    PROVE  EdgeInv'
<1>1. ServerInv' /\ WorkInv' /\ QInv' /\ \A i : Known(i)' = Known(i)
  BY ServerUntouched
<1>2. process' = process /\ live' = live
  BY DEF serverVars
<1>3. client.id \in JobIds /\ client.id # None
  BY EdgeAssumption DEF EdgeInv, ClientInv, ClientType
<1>4. ClientInv'
  BY <1>2, <1>3 DEF EdgeInv, ClientInv, ClientType, Stages
<1>5. WireInv'
  BY DEF EdgeInv, WireInv
<1>6. ReplyInv'
  BY DEF EdgeInv, ReplyInv
<1>7. OutcomesAreTrue'
  BY <1>1, <1>2 DEF EdgeInv, OutcomesAreTrue, SuccessIsReal, PollingIsTracked, Known
<1> QED
  BY <1>1, <1>4, <1>5, <1>6, <1>7 DEF EdgeInv

(* A script that has been answered or given up on one poll goes on.        *)
LEMMA GoOnSafe ==
    ASSUME EdgeInv, client.stage = "getting", GoOn, UNCHANGED wire
    PROVE  EdgeInv'
<1>1. client \in ClientType /\ client.since <= process
  BY DEF EdgeInv, ClientInv
<1>2. /\ client' = [stage |-> "polling", id |-> client.id, polls |-> client.polls,
                    since |-> client.since]
      /\ client.polls \in 0..MaxPolls /\ client.since \in 0..MaxRestarts
  BY <1>1 DEF GoOn, ClientType
<1>3. client.since = process => Known(client.id)
  BY DEF EdgeInv, OutcomesAreTrue, PollingIsTracked, Known
<1> QED
  BY <1>1, <1>2, <1>3, LoopSafe DEF GoOn

(* Every step of the script.                                               *)
LEMMA ScriptSafe ==
    ASSUME EdgeInv, ScriptStep
    PROVE  EdgeInv'
<1>1. client \in ClientType /\ client.since <= process
      /\ process \in 0..MaxRestarts /\ MaxPolls \in Nat /\ MaxRestarts \in Nat
  BY EdgeAssumption DEF EdgeInv, ClientInv, ServerInv
<1>2. CASE ReceiveSubmitted
  <2>1. /\ client.stage = "posting" /\ wire' = wire
        /\ reply \in PostAnswer /\ reply.process <= process
        /\ reply.code = 202 /\ reply.process = process => Known(client.id)
    BY <1>2 DEF ReceiveSubmitted, EdgeInv, ReplyInv
  <2>2. CASE /\ reply.code = 202
             /\ client' = [client EXCEPT !.stage = "polling", !.since = reply.process]
             /\ reply' = None
             /\ UNCHANGED <<runs, told, serverVars, accepted>>
    <3>1. /\ client' = [stage |-> "polling", id |-> client.id,
                        polls |-> client.polls, since |-> reply.process]
          /\ client.polls \in 0..MaxPolls
      BY <1>1, <2>2 DEF ClientType
    <3>2. reply.process \in 0..MaxRestarts
      BY <2>1 DEF PostAnswer
    <3>3. UNCHANGED <<runs, told, wire, serverVars, accepted>>
      BY <2>1, <2>2
    <3>4. reply.process = process => Known(client.id)
      BY <2>1, <2>2
    <3>5. client.stage # "idle" /\ reply.process <= process /\ reply' = None
      BY <2>1, <2>2
    <3> QED
      BY <3>1, <3>2, <3>3, <3>4, <3>5, LoopSafe
  <2>3. CASE Exit("REJECTED") \/ Exit("TRANSPORT")
    BY <2>1, <2>3, ExitSafe DEF Outcomes
  <2> QED
    BY <1>2, <2>2, <2>3 DEF ReceiveSubmitted
<1>3. CASE Poll
  <2>1. /\ client' = [stage |-> "getting", id |-> client.id,
                      polls |-> client.polls + 1, since |-> client.since]
        /\ client.polls + 1 \in 0..MaxPolls /\ client.since \in 0..MaxRestarts
    <3>1. /\ client.polls \in 0..MaxPolls /\ client.since \in 0..MaxRestarts
          /\ client.polls < MaxPolls
          /\ client' = [client EXCEPT !.stage = "getting", !.polls = client.polls + 1]
      BY <1>1, <1>3 DEF Poll, ClientType
    <3>2. client' = [stage |-> "getting", id |-> client.id,
                     polls |-> client.polls + 1, since |-> client.since]
      BY <1>1, <3>1 DEF ClientType
    <3>3. client.polls + 1 \in 0..MaxPolls
      BY <1>1, <3>1
    <3> QED
      BY <3>1, <3>2, <3>3
  <2>2. client.since = process => Known(client.id)
    BY <1>3 DEF Poll, EdgeInv, OutcomesAreTrue, PollingIsTracked, Known
  <2> QED
    BY <1>1, <1>3, <2>1, <2>2, LoopSafe DEF Poll
<1>4. CASE ReceiveStatus
  <2>1. /\ client.stage = "getting" /\ wire' = wire /\ reply # None
    BY <1>4 DEF ReceiveStatus
  <2>2. live /\ reply.code = 200 /\ reply.status = "complete" => client.id \in accepted
    BY <2>1 DEF EdgeInv, ReplyInv
  <2>3. CASE reply.code = 200 /\ reply.status \in Terminal
    <3>1. OutcomeOf(reply.status) \in Outcomes
          /\ (OutcomeOf(reply.status) = "SUCCESS" => reply.status = "complete")
      BY <2>3 DEF OutcomeOf, Outcomes, Terminal
    <3> QED
      BY <1>4, <2>1, <2>2, <2>3, <3>1, ExitSafe DEF ReceiveStatus
  <2>4. CASE ~(reply.code = 200 /\ reply.status \in Terminal)
    BY <1>4, <2>1, <2>4, GoOnSafe DEF ReceiveStatus
  <2> QED
    BY <2>3, <2>4
<1>5. CASE HttpFails
  <2>1. CASE client.stage = "posting" /\ Exit("TRANSPORT")
             /\ wire' \in {wire, {m \in wire : m.run # runs}}
    BY <2>1, ExitSafe DEF Outcomes
  <2>2. CASE client.stage = "getting" /\ GoOn /\ UNCHANGED wire
    BY <2>2, GoOnSafe
  <2> QED
    BY <1>5, <2>1, <2>2 DEF HttpFails
<1>6. CASE TimeIsUp
  BY <1>6, ExitSafe DEF TimeIsUp, Outcomes
<1> QED
  BY <1>2, <1>3, <1>4, <1>5, <1>6 DEF ScriptStep

-----------------------------------------------------------------------------
(***************************************************************************)
(* The server's steps.                                                     *)
(***************************************************************************)
(* The rate limit's counter stays in range.                                *)
LEMMA CountHitSafe ==
    ASSUME EdgeInv, CountHit
    PROVE  hits' \in 0..RATE_MAX
<1>1. hits \in 0..RATE_MAX /\ RATE_MAX \in Nat
  BY EdgeAssumption DEF EdgeInv, ServerInv
<1> QED
  BY <1>1 DEF CountHit, Limited

(* An answer that was true when it was given: the script waits for it, and *)
(* a 202 speaks of a job that is in the map.                               *)
LEMMA RespondSafe ==
    ASSUME EdgeInv, NEW m \in wire, NEW code \in {202, 400, 409, 429}, Respond(m, code),
           \A id \in JobIds : Known(id) => Known(id)',
           code = 202 => Known(computeSessionKey(m.submission.payload))',
           UNCHANGED <<clientVars, process, live, accepted>>
    PROVE  ReplyInv'
<1>1. client.stage = "getting" \/ client.stage = "posting" => client.id \in JobIds
  BY EdgeAssumption DEF EdgeInv, ClientInv, ClientType
<1>2. client' = client /\ process' = process /\ accepted' = accepted
  BY DEF clientVars
<1>3. process \in 0..MaxRestarts /\ MaxRestarts \in Nat
  BY EdgeAssumption DEF EdgeInv, ServerInv
<1>4. CASE client.stage = "posting" /\ m.run = runs
  <2>1. reply' = [code |-> code, process |-> process]
    BY <1>4 DEF Respond
  <2>2. client.id = computeSessionKey(m.submission.payload)
    BY <1>4 DEF EdgeInv, WireInv
  <2>3. reply' \in PostAnswer
    BY <1>3, <2>1 DEF PostAnswer
  <2>4. reply'.code = 202 => Known(client.id)'
    <3>1. ASSUME code = 202 PROVE Known(client.id)'
      BY <1>2, <2>2, <3>1 DEF Known
    <3> QED
      BY <2>1, <3>1
  <2> QED
    BY <1>2, <1>3, <1>4, <2>1, <2>3, <2>4 DEF ReplyInv
<1>5. CASE ~(client.stage = "posting" /\ m.run = runs)
  <2>1. reply' = reply
    BY <1>5 DEF Respond
  <2>2. client.stage = "posting" /\ Known(client.id) => Known(client.id)'
    BY <1>1, <1>2 DEF Known
  <2> QED
    BY <1>2, <2>1, <2>2 DEF EdgeInv, ReplyInv
<1> QED
  BY <1>4, <1>5

(* A request served: refused for one of three reasons, or enqueued.        *)
LEMMA ServePostSafe ==
    ASSUME EdgeInv, NEW m \in wire, ServePost(m)
    PROVE  EdgeInv'
<1>1. PICK id \in JobIds : id = computeSessionKey(m.submission.payload)
  BY EdgeAssumption DEF EdgeInv, WireInv
<1>2. /\ wire' = wire \ {m} /\ CountHit
      /\ UNCHANGED <<clientVars, landed, process, live, accepted>>
      /\ UNCHANGED <<client, runs, told>>
  BY DEF ServePost, clientVars
<1>3. [QueueNext]_qvars
  <2>1. EdgeNext
    BY DEF EdgeNext
  <2> QED
    BY <2>1, StepUsesQueue DEF EdgeInv
<1>4. QInv'
  BY <1>3, StepAgrees DEF EdgeInv
<1>5. records \in [JobIds -> Record]
  BY InvariantIsEnough DEF EdgeInv, QueueTypeOK
<1>6. hits' \in 0..RATE_MAX
  BY <1>2, CountHitSafe
<1>7. ClientInv' /\ WireInv'
  BY <1>2 DEF EdgeInv, ClientInv, WireInv
<1>8. CASE /\ UNCHANGED <<records, pending, data>>
           /\ \E code \in {400, 409, 429} : Respond(m, code)
  <2>1. \A i : Known(i)' = Known(i) /\ Working(i)' = Working(i)
    BY <1>8 DEF Known, Working
  <2>2. ReplyInv'
    BY <1>2, <1>8, <2>1, RespondSafe
  <2>3. ServerInv' /\ WorkInv'
    BY <1>2, <1>6, <1>8, <2>1 DEF EdgeInv, ServerInv, WorkInv
  <2>4. OutcomesAreTrue'
    BY <1>2, <1>8 DEF EdgeInv, OutcomesAreTrue, SuccessIsReal, PollingIsTracked
  <2> QED
    BY <1>4, <1>7, <2>2, <2>3, <2>4 DEF EdgeInv
<1>9. CASE /\ enqueue(id)
           /\ data' = [data EXCEPT ![id] = m.submission]
           /\ Respond(m, 202)
  <2>1. /\ records[id].status = "absent"
        /\ records'[id].status = "pending"
        /\ \A i \in JobIds : i # id => records'[i] = records[i]
    BY <1>5, <1>9 DEF enqueue, Enqueued
  <2>2. /\ \A i \in JobIds : Known(i) => Known(i)'
        /\ \A i \in JobIds : Working(i)' => Working(i)
    BY <2>1 DEF Known, Working
  <2>3. ReplyInv'
    <3>1. Known(computeSessionKey(m.submission.payload))'
      BY <1>1, <2>1 DEF Known
    <3> QED
      BY <1>2, <1>9, <2>2, <3>1, RespondSafe
  <2>4. ServerInv'
    BY <1>1, <1>2, <1>6, <1>9, <2>1 DEF EdgeInv, ServerInv, Known
  <2>5. WorkInv'
    BY <1>2, <2>1, <2>2 DEF EdgeInv, WorkInv
  <2>6. OutcomesAreTrue'
    <3>1. client.stage \in {"polling", "getting"} => client.id \in JobIds
      BY EdgeAssumption DEF EdgeInv, ClientInv, ClientType
    <3> QED
      BY <1>2, <2>1, <3>1 DEF EdgeInv, OutcomesAreTrue, SuccessIsReal, PollingIsTracked
  <2> QED
    BY <1>4, <1>7, <2>3, <2>4, <2>5, <2>6 DEF EdgeInv
<1> QED
  BY <1>1, <1>8, <1>9 DEF ServePost

(* A poll served, and a minute that begins.                                *)
LEMMA ServeGetSafe ==
    ASSUME EdgeInv, ServeGet \/ NewMinute
    PROVE  EdgeInv'
<1>1. /\ UNCHANGED <<client, runs, told, wire, records, pending, data, landed,
                     process, live, accepted>>
      /\ hits' \in 0..RATE_MAX
  <2>1. 0 \in 0..RATE_MAX
    BY EdgeAssumption
  <2> QED
    BY <2>1, CountHitSafe DEF ServeGet, NewMinute, clientVars
<1>2. \A i : Known(i)' = Known(i) /\ Working(i)' = Working(i)
  BY <1>1 DEF Known, Working
<1>3. ClientInv' /\ WireInv' /\ ServerInv' /\ WorkInv' /\ QInv' /\ OutcomesAreTrue'
  BY <1>1, <1>2 DEF EdgeInv, ClientInv, WireInv, ServerInv, WorkInv, QInv,
                    OutcomesAreTrue, SuccessIsReal, PollingIsTracked
<1>4. CASE NewMinute
  <2>1. ReplyInv'
    BY <1>1, <1>2, <1>4 DEF NewMinute, EdgeInv, ReplyInv
  <2> QED
    BY <1>3, <2>1 DEF EdgeInv
<1>5. CASE ServeGet
  <2>1. client.stage = "getting" /\ client.id \in JobIds
    BY <1>5, EdgeAssumption DEF ServeGet, EdgeInv, ClientInv, ClientType
  <2>2. records[client.id] \in Record
    BY <2>1, InvariantIsEnough DEF EdgeInv, QueueTypeOK
  <2>3. reply' = IF Limited THEN [code |-> 429]
                 ELSE IF records[client.id].status = "absent" THEN [code |-> 404]
                 ELSE [code |-> 200, status |-> records[client.id].status]
    BY <1>5 DEF ServeGet
  <2>4. reply' \in GetAnswer
    BY <2>2, <2>3 DEF GetAnswer, Record
  <2>5. live /\ reply'.code = 200 /\ reply'.status = "complete" => client.id \in accepted
    BY <2>1, <2>3 DEF EdgeInv, WorkInv
  <2>6. ReplyInv'
    BY <1>1, <2>1, <2>4, <2>5 DEF ReplyInv
  <2> QED
    BY <1>3, <2>6 DEF EdgeInv
<1> QED
  BY <1>4, <1>5

-----------------------------------------------------------------------------
(***************************************************************************)
(* The worker's steps and restarts.                                        *)
(***************************************************************************)
(* What a step of the worker leaves alone, and what follows for the rest   *)
(* when no record disappears and no session leaves the contract.           *)
LEMMA WorkerKeeps ==
    ASSUME EdgeInv, UNCHANGED <<clientVars, wire, reply, hits, process, live, data>>,
           \A id \in JobIds : Known(id)' <=> Known(id),
           accepted \subseteq accepted', accepted' \subseteq JobIds,
           landed' \in BOOLEAN
    PROVE  ClientInv' /\ WireInv' /\ ReplyInv' /\ ServerInv' /\ OutcomesAreTrue'
<1>1. UNCHANGED <<client, runs, told, wire, reply, hits, process, live, data>>
  BY DEF clientVars
<1>2. ClientInv' /\ WireInv'
  BY <1>1 DEF EdgeInv, ClientInv, WireInv
<1>3. client.stage \in {"posting", "polling", "getting"} => client.id \in JobIds
  BY EdgeAssumption DEF EdgeInv, ClientInv, ClientType
<1>4. ReplyInv'
  BY <1>1, <1>3 DEF EdgeInv, ReplyInv, Known
<1>5. ServerInv'
  BY <1>1 DEF EdgeInv, ServerInv, Known
<1>6. OutcomesAreTrue'
  BY <1>1, <1>3 DEF EdgeInv, OutcomesAreTrue, SuccessIsReal, PollingIsTracked, Known
<1> QED
  BY <1>2, <1>4, <1>5, <1>6

(* Claiming, landing and settling: a job completes only after it landed.   *)
LEMMA WorkerSafe ==
    ASSUME EdgeInv, NEW id \in JobIds, Claim(id) \/ Land(id) \/ Settled(id),
           UNCHANGED <<clientVars, wire, reply, hits, process, live>>
    PROVE  EdgeInv'
<1>1. QInv'
  BY WorkerUsesQueue, StepAgrees DEF EdgeInv
<1>2. /\ records \in [JobIds -> Record]
      /\ accepted \subseteq JobIds /\ landed \in BOOLEAN
  BY InvariantIsEnough DEF EdgeInv, QueueTypeOK, ServerInv
<1>3. /\ \A i, j \in JobIds : Working(i) /\ Working(j) => i = j
      /\ \A i \in JobIds : landed /\ Working(i) => i \in accepted
      /\ live => \A i \in JobIds : records[i].status = "complete" => i \in accepted
  BY DEF EdgeInv, WorkInv
<1>4. CASE Claim(id)
  <2>1. /\ \A i \in JobIds : ~Working(i)
        /\ pending # <<>> /\ id = Head(pending)
        /\ records' = [records EXCEPT ![id] = Claimed(records[id])]
        /\ landed' = FALSE /\ data' = data /\ accepted' = accepted
    BY <1>4 DEF Claim, claim
  <2>2. records[id].status = "pending"
    <3>1. pending \in Seq(JobIds) /\ PendingMatchesStatus
      BY InvariantIsEnough DEF EdgeInv, QueueTypeOK
    <3>2. 1 \in DOMAIN pending /\ pending[1] = id
      BY <2>1, <3>1
    <3> QED
      BY <3>1, <3>2 DEF PendingMatchesStatus
  <2>3. /\ records'[id].status = "processing"
        /\ \A i \in JobIds : i # id => records'[i] = records[i]
    BY <1>2, <2>1 DEF Claimed, Record
  <2>4. WorkInv'
    BY <1>3, <2>1, <2>3 DEF WorkInv, Working
  <2>5. \A i \in JobIds : Known(i)' <=> Known(i)
    BY <2>2, <2>3 DEF Known
  <2> QED
    BY <1>1, <1>2, <2>1, <2>4, <2>5, WorkerKeeps DEF EdgeInv
<1>5. CASE Land(id)
  <2>1. /\ Working(id) /\ records' = records /\ data' = data
        /\ accepted' = accepted \cup {id} /\ landed' = TRUE
    BY <1>5 DEF Land
  <2>2. \A i : (Known(i)' <=> Known(i)) /\ (Working(i)' <=> Working(i))
    BY <2>1 DEF Known, Working
  <2>3. WorkInv'
    BY <1>3, <2>1, <2>2 DEF WorkInv
  <2>4. /\ accepted \subseteq accepted' /\ accepted' \subseteq JobIds
        /\ landed' \in BOOLEAN
    BY <1>2, <2>1
  <2> QED
    BY <1>1, <2>1, <2>2, <2>3, <2>4, WorkerKeeps DEF EdgeInv
<1>6. CASE Settled(id)
  <2>1. Working(id) /\ UNCHANGED <<data, landed, accepted>>
    BY <1>6 DEF Settled
  <2>2. \/ (live => landed) /\ complete(id)
        \/ \E code \in EdgeCodes : quarantine(id, code) \/ fail(id, code)
    BY <1>6 DEF Settled, Done, EdgeCodes
  <2>3. /\ records'[id].status \in {"complete", "quarantined", "pending", "failed"}
        /\ records'[id].status = "complete" => (live => landed)
        /\ \A i \in JobIds : i # id => records'[i] = records[i]
    BY <1>2, <2>2 DEF complete, quarantine, fail, Record
  <2>4. \A i \in JobIds : Known(i)' <=> Known(i)
    BY <2>1, <2>3 DEF Known, Working
  <2>5. \A i \in JobIds : Working(i)' => Working(i) /\ i # id
    BY <2>3 DEF Working
  <2>6. WorkInv'
    BY <1>3, <2>1, <2>3, <2>5 DEF WorkInv
  <2> QED
    BY <1>1, <1>2, <2>1, <2>4, <2>6, WorkerKeeps DEF EdgeInv
<1> QED
  BY <1>4, <1>5, <1>6

(* A new process has a new number, so nothing said of the old one binds.   *)
LEMMA RestartSafe ==
    ASSUME EdgeInv, Restart
    PROVE  EdgeInv'
<1>1. /\ process < MaxRestarts /\ process' = process + 1
      /\ \A id \in JobIds : records'[id].status = "absent"
      /\ landed' = FALSE /\ hits' = 0 /\ data' = [id \in JobIds |-> None]
      /\ UNCHANGED <<client, runs, told, wire, reply, live, accepted>>
  BY DEF Restart, lose, Absent, clientVars
<1>2. process \in 0..MaxRestarts /\ MaxRestarts \in Nat /\ RATE_MAX \in Nat
  BY EdgeAssumption DEF EdgeInv, ServerInv
<1>3. QInv'
  <2>1. QueueNext
    BY DEF Restart, QueueNext
  <2> QED
    BY <2>1, StepAgrees DEF EdgeInv
<1>4. client.since \in Nat /\ client.since <= process
  BY <1>2 DEF EdgeInv, ClientInv, ClientType
<1>5. ClientInv'
  BY <1>1, <1>2, <1>4 DEF EdgeInv, ClientInv
<1>6. WireInv'
  BY <1>1 DEF EdgeInv, WireInv
<1>7. ReplyInv'
  <2>1. reply # None /\ client.stage = "posting" =>
            reply \in PostAnswer /\ reply.process <= process /\ reply.process \in Nat
    BY <1>2 DEF EdgeInv, ReplyInv, PostAnswer
  <2> QED
    BY <1>1, <1>2, <2>1 DEF EdgeInv, ReplyInv
<1>8. ServerInv'
  <2>1. hits' \in 0..RATE_MAX /\ process' \in 0..MaxRestarts
    BY <1>1, <1>2
  <2>2. /\ landed' \in BOOLEAN /\ live' \in BOOLEAN
        /\ accepted' \subseteq JobIds /\ DOMAIN data' = JobIds
    BY <1>1 DEF EdgeInv, ServerInv
  <2>3. \A id \in JobIds : ~Known(id)'
    BY <1>1, Zenon DEF Known
  <2> QED
    BY <2>1, <2>2, <2>3, Zenon DEF ServerInv
<1>9. WorkInv'
  BY <1>1 DEF WorkInv, Working
<1>10. OutcomesAreTrue'
  BY <1>1, <1>2, <1>4 DEF EdgeInv, OutcomesAreTrue, SuccessIsReal, PollingIsTracked
<1> QED
  BY <1>3, <1>5, <1>6, <1>7, <1>8, <1>9, <1>10 DEF EdgeInv

-----------------------------------------------------------------------------
(***************************************************************************)
(* The theorems.                                                           *)
(***************************************************************************)
(* Nothing sent, nothing queued, nobody waiting.                           *)
LEMMA EdgeStarts == EdgeInit => EdgeInv
<1> SUFFICES ASSUME EdgeInit PROVE EdgeInv
  OBVIOUS
<1>1. QInv
  BY InitAgrees DEF EdgeInit
<1>2. \A id \in JobIds : records[id].status = "absent"
  BY DEF EdgeInit, QueueInit, Absent
<1>3. client = [stage |-> "idle", id |-> None, polls |-> 0, since |-> 0]
  BY DEF EdgeInit, Idle
<1>4. MaxRuns \in Nat /\ MaxPolls \in Nat /\ MaxRestarts \in Nat /\ RATE_MAX \in Nat
  BY EdgeAssumption
<1>5. ClientInv
  BY <1>3, <1>4 DEF EdgeInit, ClientInv, ClientType, Stages
<1>6. WireInv /\ ReplyInv
  BY DEF EdgeInit, WireInv, ReplyInv
<1>7. ServerInv /\ WorkInv
  <2>1. hits \in 0..RATE_MAX /\ process \in 0..MaxRestarts
    BY <1>4 DEF EdgeInit
  <2>2. /\ landed = FALSE /\ accepted = {} /\ live \in BOOLEAN
        /\ DOMAIN data = JobIds
    BY DEF EdgeInit
  <2>3. \A id \in JobIds : ~Known(id) /\ ~Working(id) /\ records[id].status # "complete"
    BY <1>2 DEF Known, Working
  <2>4. ServerInv
    BY <2>1, <2>2, <2>3 DEF ServerInv
  <2> QED
    BY <2>2, <2>3, <2>4 DEF WorkInv
<1>8. OutcomesAreTrue
  BY <1>3 DEF EdgeInit, OutcomesAreTrue, SuccessIsReal, PollingIsTracked
<1> QED
  BY <1>1, <1>5, <1>6, <1>7, <1>8 DEF EdgeInv

(* Every step keeps the invariant.                                         *)
LEMMA EdgeStep == EdgeInv /\ [EdgeNext]_edgeVars => EdgeInv'
<1> SUFFICES ASSUME EdgeInv, [EdgeNext]_edgeVars PROVE EdgeInv'
  OBVIOUS
<1>1. CASE UNCHANGED edgeVars
  <2>1. UNCHANGED <<client, runs, told, wire, reply, records, pending, data, landed,
                    hits, process, live, accepted>>
    BY <1>1 DEF edgeVars, clientVars, serverVars
  <2> QED
    BY <2>1 DEF EdgeInv, ClientInv, WireInv, ReplyInv, ServerInv, WorkInv, QInv, Known,
                Working, OutcomesAreTrue, SuccessIsReal, PollingIsTracked
<1>2. CASE WorkerDoes
  BY <1>2, WorkerSafe DEF WorkerDoes
<1> QED
  BY <1>1, <1>2, StartRunSafe, ScriptSafe, ServePostSafe, ServeGetSafe, RestartSafe
     DEF EdgeNext

(* So it holds in every state.                                             *)
LEMMA EdgeInvariant == EdgeSpec => []EdgeInv
  BY EdgeStarts, EdgeStep, PTL DEF EdgeSpec

(* The API, the abridged worker and restarts drive the queue as its own    *)
(* specification says (enqueue, claim, complete, fail and quarantine of    *)
(* queue/index.ts), so what is proved of the queue holds behind the API.   *)
THEOREM EdgeUsesQueue == EdgeSpec => QueueSpec
<1>1. EdgeInit => QueueInit
  BY DEF EdgeInit
<1>2. EdgeInv /\ [EdgeNext]_edgeVars => [QueueNext]_qvars
  BY StepUsesQueue DEF EdgeInv
<1> QED
  BY <1>1, <1>2, EdgeInvariant, PTL DEF EdgeSpec, QueueSpec

(* Types; a waiting script has at most one response, and every job is the  *)
(* submission whose session it is named after (computeSessionKey).         *)
THEOREM EdgeTypeCorrect == EdgeSpec => []EdgeTypeOK
  BY EdgeInvariant, EdgeInvIsEnough, PTL

(* Unless the aggregator has no chain client, SUCCESS is printed only of a *)
(* session the contract accepted; and between its 202 and a restart the    *)
(* polled job is there (the script's loop and the status handler),         *)
(* whatever was lost, delayed or limited on the way.                       *)
THEOREM OutcomesHold == EdgeSpec => []OutcomesAreTrue
  BY EdgeInvariant, EdgeInvIsEnough, PTL

-----------------------------------------------------------------------------
(***************************************************************************)
(* Recursion on an interval: the folds of FlattenSeq and the running totals *)
(* are functions defined by what they hold one place earlier.              *)
(***************************************************************************)
(* Induction over naturals by a least counterexample.                      *)
LEMMA LeastNatural ==
    ASSUME NEW S, S \subseteq Nat, S # {}
    PROVE  \E m \in S : \A k \in S : m <= k
<1> DEFINE R == OpToRel(<, Nat)
<1>1. IsWellFoundedOn(R, Nat)
  BY NatLessThanWellFounded
<1>2. PICK m \in S : \A k \in S : <<k, m>> \notin R
  <2> HIDE DEF R
  <2> QED
    BY <1>1, WFMin
<1>3. \A k \in S : ~(k < m)
  BY <1>2 DEF OpToRel
<1> QED
  BY <1>3

(* What holds at a and is handed on from each i - 1 to i holds up to n.    *)
LEMMA Climb ==
    ASSUME NEW a \in Nat, NEW n \in Nat, NEW S, a \in S,
           \A i \in a..n : i # a /\ i - 1 \in S => i \in S
    PROVE  a..n \subseteq S
<1> DEFINE Bad == (a..n) \ S
<1> SUFFICES ASSUME Bad # {} PROVE FALSE
  OBVIOUS
<1>1. PICK m \in Bad : \A k \in Bad : m <= k
  <2>1. Bad \subseteq Nat
    OBVIOUS
  <2> HIDE DEF Bad
  <2> QED
    BY <2>1, LeastNatural
<1>2. m \in a..n /\ m # a /\ m - 1 \in a..n /\ ~(m <= m - 1)
  OBVIOUS
<1>3. m - 1 \in S
  BY <1>1, <1>2
<1> QED
  BY <1>2, <1>3

(* A loop computes each value from the one before; f[i] is its variable    *)
(* after i rounds.                                                         *)
IsLoop(f, n, V, first, step) ==
    /\ f \in [0..n -> V]
    /\ f[0] = first
    /\ \A i \in 1..n : f[i] = step[<<i, f[i - 1]>>]

(* Every loop has a run: what TLA+'s recursive functions on an interval    *)
(* rest on.                                                                *)
LEMMA LoopExists ==
    ASSUME NEW n \in Nat, NEW V, NEW first \in V, NEW step \in [(1..n) \X V -> V]
    PROVE  \E f : IsLoop(f, n, V, first, step)
<1> USE DEF IsLoop
<1> DEFINE Solved == {m \in 0..n : \E f : IsLoop(f, m, V, first, step)}
<1>1. 0 \in Solved
  <2> DEFINE g == [i \in 0..0 |-> first]
  <2>1. IsLoop(g, 0, V, first, step) /\ 0 \in 0..n
    OBVIOUS
  <2> HIDE DEF g, IsLoop
  <2> QED
    BY <2>1
<1>2. ASSUME NEW m \in 1..n, m - 1 \in Solved
      PROVE  m \in Solved
  <2>1. PICK g : IsLoop(g, m - 1, V, first, step)
    BY <1>2
  <2> DEFINE top == step[<<m, g[m - 1]>>]
             f == [i \in 0..m |-> IF i = m THEN top ELSE g[i]]
  <2>2. m - 1 \in 0..(m - 1) /\ m \in Nat /\ m # 0
    OBVIOUS
  <2>3. top \in V
    BY <2>1, <2>2
  <2>4. f \in [0..m -> V]
    <3> HIDE DEF top
    <3>1. ASSUME NEW i \in 0..m, i # m PROVE i \in 0..(m - 1)
      BY <2>2, <3>1
    <3> QED
      BY <2>1, <2>3, <3>1
  <2>5. f[0] = first
    <3> HIDE DEF top
    <3> QED
      BY <2>1, <2>2
  <2>6. ASSUME NEW i \in 1..m PROVE f[i] = step[<<i, f[i - 1]>>]
    <3>1. i - 1 \in 0..m /\ i - 1 # m /\ i \in 0..m
      BY <2>2
    <3>2. f[i - 1] = g[i - 1]
      BY <3>1
    <3>3. CASE i = m
      BY <3>1, <3>2, <3>3
    <3>4. CASE i # m
      <4>1. i \in 1..(m - 1)
        BY <2>2, <3>4
      <4>2. f[i] = g[i]
        BY <3>1, <3>4
      <4> QED
        BY <2>1, <3>2, <4>1, <4>2
    <3> QED
      BY <3>3, <3>4
  <2>7. IsLoop(f, m, V, first, step)
    <3> HIDE DEF f
    <3> QED
      BY <2>4, <2>5, <2>6
  <2>8. m \in 0..n
    OBVIOUS
  <2> QED
    BY <2>7, <2>8
<1> HIDE DEF Solved
<1>3. 0..n \subseteq Solved
  <2>1. 0 \in Nat /\ \A m \in 0..n : m # 0 /\ m - 1 \in Solved => m \in Solved
    BY <1>2
  <2> QED
    BY <1>1, <2>1, Climb, Zenon
<1>4. n \in Solved
  BY <1>3
<1> QED
  BY <1>4 DEF Solved

(* FlattenSeq runs such a loop: one sequence more each time.               *)
IsFlat(seqs, f) ==
    f = [i \in 1..Len(seqs) |-> IF i = 1 THEN seqs[i] ELSE f[i - 1] \o seqs[i]]

(* Its last value is what FlattenSeq returns.                              *)
LEMMA FlattenLoop ==
    ASSUME NEW V, NEW seqs \in Seq(Seq(V)), seqs # <<>>
    PROVE  \E f \in [1..Len(seqs) -> Seq(V)] :
              /\ FlattenSeq(seqs) = f[Len(seqs)]
              /\ f[1] = seqs[1]
              /\ \A i \in 2..Len(seqs) : f[i] = f[i - 1] \o seqs[i]
<1> DEFINE n == Len(seqs)
           step == [t \in (1..n) \X Seq(V) |->
                      IF t[1] = 1 THEN seqs[1] ELSE t[2] \o seqs[t[1]]]
           f == CHOOSE g : IsFlat(seqs, g)
<1>1. n \in Nat \ {0} /\ \A i \in 1..n : seqs[i] \in Seq(V)
  OBVIOUS
<1>2. FlattenSeq(seqs) = f[n]
  BY <1>1 DEF FlattenSeq, IsFlat
<1>3. step \in [(1..n) \X Seq(V) -> Seq(V)]
  BY <1>1
<1>4. PICK g : IsLoop(g, n, Seq(V), <<>>, step)
  <2>1. <<>> \in Seq(V) /\ n \in Nat
    BY <1>1
  <2> HIDE DEF step, n
  <2> QED
    BY <1>3, <2>1, LoopExists, Zenon
<1> DEFINE h == [i \in 1..n |-> g[i]]
<1>5. \A i \in 1..n : g[i] = IF i = 1 THEN seqs[1] ELSE g[i - 1] \o seqs[i]
  <2> SUFFICES ASSUME NEW i \in 1..n
               PROVE  g[i] = IF i = 1 THEN seqs[1] ELSE g[i - 1] \o seqs[i]
    OBVIOUS
  <2>1. i - 1 \in 0..n
    BY <1>1
  <2>2. <<i, g[i - 1]>> \in (1..n) \X Seq(V)
    BY <1>4, <2>1 DEF IsLoop
  <2>3. step[<<i, g[i - 1]>>] = IF i = 1 THEN seqs[1] ELSE g[i - 1] \o seqs[i]
    BY <2>2
  <2> QED
    BY <1>4, <2>3 DEF IsLoop
<1>6. IsFlat(seqs, h)
  <2>1. ASSUME NEW i \in 1..n
        PROVE  h[i] = IF i = 1 THEN seqs[i] ELSE h[i - 1] \o seqs[i]
    <3>1. CASE i = 1
      BY <1>5, <3>1
    <3>2. CASE i # 1
      <4>1. i - 1 \in 1..n
        BY <1>1, <3>2
      <4>2. h[i] = g[i] /\ h[i - 1] = g[i - 1]
        BY <4>1
      <4> QED
        BY <1>5, <3>2, <4>2
    <3> QED
      BY <3>1, <3>2
  <2> HIDE DEF h
  <2>2. h = [i \in 1..n |-> h[i]]
    BY DEF h
  <2>3. h = [i \in 1..n |-> IF i = 1 THEN seqs[i] ELSE h[i - 1] \o seqs[i]]
    BY <2>1, <2>2
  <2> QED
    BY <2>3 DEF IsFlat
<1>7. IsFlat(seqs, f)
  <2> HIDE DEF h
  <2> QED
    BY <1>6, Zenon
<1> HIDE DEF f
<1>8. /\ DOMAIN f = 1..n
      /\ \A i \in 1..n : f[i] = IF i = 1 THEN seqs[i] ELSE f[i - 1] \o seqs[i]
  BY <1>7 DEF IsFlat
<1>9. f[1] = seqs[1] /\ \A i \in 2..n : f[i] = f[i - 1] \o seqs[i]
  <2> HIDE DEF n
  <2>1. 1 \in 1..n /\ \A i \in 2..n : i \in 1..n /\ i # 1
    BY <1>1
  <2> QED
    BY <1>8, <2>1
<1>10. f = h
  <2>1. f[1] = h[1]
    BY <1>1, <1>5, <1>9
  <2>2. ASSUME NEW i \in 2..n, f[i - 1] = h[i - 1] PROVE f[i] = h[i]
    <3>1. i \in 1..n /\ i - 1 \in 1..n /\ i # 1
      BY <1>1
    <3>2. h[i] = g[i - 1] \o seqs[i] /\ h[i - 1] = g[i - 1]
      BY <1>5, <3>1
    <3> QED
      BY <1>9, <2>2, <3>2
  <2> HIDE DEF h, n
  <2> DEFINE S == {i \in Nat : f[i] = h[i]}
  <2>3. /\ n \in Nat /\ 1 \in Nat /\ 1 \in S
        /\ \A i \in 1..n : i # 1 /\ i - 1 \in S => i \in S
    BY <1>1, <2>1, <2>2
  <2> HIDE DEF S
  <2>7. 1..n \subseteq S
    BY <2>3, Climb, Zenon
  <2>4. \A i \in 1..n : f[i] = h[i]
    BY <2>7 DEF S
  <2>5. h = [i \in 1..n |-> h[i]]
    BY DEF h
  <2>6. f = [i \in 1..n |-> f[i]]
    BY <1>8, <1>7 DEF IsFlat
  <2> QED
    BY <2>4, <2>5, <2>6
<1>11. h \in [1..n -> Seq(V)]
  BY <1>4 DEF IsLoop
<1> QED
  BY <1>2, <1>9, <1>10, <1>11

(* A function on 1..n is a sequence of length n.                           *)
LEMMA IsSequence ==
    ASSUME NEW V, NEW n \in Nat, NEW s \in [1..n -> V]
    PROVE  s \in Seq(V) /\ Len(s) = n
  OBVIOUS

(* Where the elements of a concatenation come from.                        *)
Joins(c, s, t) ==
    /\ Len(c) = Len(s) + Len(t)
    /\ \A i \in 1..Len(s) : c[i] = s[i]
    /\ \A i \in 1..Len(t) : c[Len(s) + i] = t[i]

(* They come from the one sequence, then from the other.                   *)
LEMMA ConcatJoins ==
    ASSUME NEW V, NEW s \in Seq(V), NEW t \in Seq(V)
    PROVE  s \o t \in Seq(V) /\ Joins(s \o t, s, t)
  BY DEF Joins

(* The sequences follow one another in flat, K elements each.              *)
Evenly(flat, seqs, K) ==
    /\ Len(flat) = K * Len(seqs)
    /\ \A a \in 1..Len(seqs), b \in 1..K : flat[K * (a - 1) + b] = seqs[a][b]

(* Sequences of one length K flatten to a sequence in which each keeps its *)
(* place.                                                                  *)
LEMMA FlattenEven ==
    ASSUME NEW V, NEW seqs \in Seq(Seq(V)), seqs # <<>>, NEW K \in Nat \ {0},
           \A i \in 1..Len(seqs) : Len(seqs[i]) = K
    PROVE  FlattenSeq(seqs) \in Seq(V) /\ Evenly(FlattenSeq(seqs), seqs, K)
<1> DEFINE n == Len(seqs)
<1>1. PICK f \in [1..n -> Seq(V)] :
          /\ FlattenSeq(seqs) = f[n]
          /\ f[1] = seqs[1]
          /\ \A i \in 2..n : f[i] = f[i - 1] \o seqs[i]
  BY FlattenLoop
<1>2. n \in Nat \ {0} /\ \A i \in 1..n : seqs[i] \in Seq(V) /\ Len(seqs[i]) = K
  OBVIOUS
<1> DEFINE Good(i) == /\ Len(f[i]) = K * i
                      /\ \A a \in 1..i, b \in 1..K : f[i][K * (a - 1) + b] = seqs[a][b]
           S == {i \in 1..n : Good(i)}
<1> HIDE DEF n
<1>3. 1 \in S
  <2>1. Len(f[1]) = K * 1 /\ 1 \in 1..n
    BY <1>1, <1>2
  <2>2. ASSUME NEW a \in 1..1, NEW b \in 1..K
        PROVE  f[1][K * (a - 1) + b] = seqs[a][b]
    BY <1>1
  <2> QED
    BY <2>1, <2>2
<1>7. ASSUME NEW m \in 2..n, m - 1 \in S
      PROVE  m \in S
  <2> DEFINE g == f[m - 1]
  <2>1. m - 1 \in 1..n /\ m \in 1..n /\ m \in Nat
    BY <1>2
  <2>2. Good(m - 1)
    BY <1>7
  <2>3. f[m] = g \o seqs[m] /\ g \in Seq(V) /\ seqs[m] \in Seq(V)
    BY <1>1, <1>2, <2>1
  <2>4. Len(g) = K * (m - 1) /\ Len(seqs[m]) = K /\ Len(g) \in Nat
    BY <1>2, <2>1, <2>2, <2>3
  <2>5. \A a \in 1..(m - 1), b \in 1..K : g[K * (a - 1) + b] = seqs[a][b]
    BY <2>2
  <2> HIDE DEF g, Good
  <2>9. /\ Len(f[m]) = Len(g) + Len(seqs[m])
        /\ \A i \in 1..Len(g) : f[m][i] = g[i]
        /\ \A i \in 1..Len(seqs[m]) : f[m][Len(g) + i] = seqs[m][i]
    BY <2>3, ConcatJoins DEF Joins
  <2>6. Len(f[m]) = K * m
    <3>1. K * (m - 1) + K = K * m
      BY <2>1
    <3>2. Len(f[m]) = Len(g) + K
      BY <2>4, <2>9
    <3> QED
      BY <2>4, <3>1, <3>2
  <2>7. ASSUME NEW a \in 1..m, NEW b \in 1..K
        PROVE  f[m][K * (a - 1) + b] = seqs[a][b]
    <3> DEFINE at == K * (a - 1) + b
    <3>1. CASE a = m
      <4>1. at = Len(g) + b
        BY <2>4, <3>1
      <4>2. f[m][Len(g) + b] = seqs[m][b]
        BY <2>4, <2>9
      <4> QED
        BY <3>1, <4>1, <4>2
    <3>2. CASE a # m
      <4>1. a \in 1..(m - 1) /\ a - 1 \in Nat /\ m - 1 - a \in Nat
        BY <2>1, <3>2
      <4>2. at \in 1..Len(g)
        <5> DEFINE before == K * (a - 1)
                   after == K * (m - 1 - a)
        <5>1. before \in Nat /\ after \in Nat
          BY <4>1
        <5>2. Len(g) = before + K + after
          BY <2>1, <2>4
        <5> HIDE DEF before, after
        <5> SUFFICES before + b \in 1..Len(g)
          BY DEF before
        <5> QED
          BY <5>1, <5>2
      <4>3. g[at] = seqs[a][b]
        BY <2>5, <4>1
      <4> HIDE DEF at
      <4>4. f[m][at] = g[at]
        BY <4>2, <2>9
      <4> QED
        BY <4>3, <4>4 DEF at
    <3> QED
      BY <3>1, <3>2
  <2>8. Good(m)
    BY <2>6, <2>7 DEF Good
  <2> QED
    BY <2>1, <2>8
<1> HIDE DEF S
<1>8. 1..n \subseteq S
  <2>1. /\ n \in Nat /\ 1 \in Nat
        /\ \A m \in 1..n : m # 1 /\ m - 1 \in S => m \in S
    BY <1>2, <1>7
  <2> QED
    BY <1>3, <2>1, Climb, Zenon
<1>4. n \in 1..n
  BY <1>2
<1>5. Good(n)
  <2> HIDE DEF Good
  <2> QED
    BY <1>4, <1>8 DEF S
<1>6. f[n] \in Seq(V)
  BY <1>1, <1>4
<1> QED
  BY <1>1, <1>5, <1>6 DEF n, Evenly

-----------------------------------------------------------------------------
(* The words of a payload: seven of its own, three of each reading.        *)
Words(p) ==
    <<p.device_id, p.session_id, p.epoch_start_ts, p.lat_e7, p.lon_e7,
      p.light_level, p.tamper_flag>> \o Flat(p.readings)

(* A complete payload from the north-east.                                 *)
North(p) ==
    /\ p \in CanonicalPayload
    /\ Len(p.readings) = READINGS_PER_PAYLOAD
    /\ p.lat_e7 >= 0 /\ p.lon_e7 >= 0

(* A word is a natural number; a coordinate that is not negative is one.   *)
LEMMA Sizes ==
    /\ BYTE \in Nat \ {0} /\ WORD \in Nat \ {0} /\ WORD = BYTE * BYTE
    /\ U64 \subseteq Nat /\ \A v \in I64 : v >= 0 => v \in U64
<1>1. WORD \in Nat \ {0}
  BY PayloadAssumption DEF WORD
<1>2. WORD \div 2 - 1 \in Int /\ WORD \div 2 - 1 <= WORD - 1
  BY <1>1
<1> QED
  BY <1>1, <1>2, PayloadAssumption DEF WORD, U64, I64

(* Reading i has the words 3i - 2, 3i - 1 and 3i of the readings.          *)
LEMMA FlatReadings ==
    ASSUME NEW rs \in Seq(Reading), rs # <<>>
    PROVE  /\ Flat(rs) \in Seq(U64)
           /\ Len(Flat(rs)) = 3 * Len(rs)
           /\ \A i \in 1..Len(rs) :
                 /\ Flat(rs)[3 * i - 2] = rs[i].voltage_mv
                 /\ Flat(rs)[3 * i - 1] = rs[i].current_ma
                 /\ Flat(rs)[3 * i] = rs[i].timestamp_ms
<1> DEFINE n == Len(rs)
           seqs == [i \in DOMAIN rs |->
                      <<rs[i].voltage_mv, rs[i].current_ma, rs[i].timestamp_ms>>]
<1>1. n \in Nat \ {0} /\ DOMAIN rs = 1..n /\ \A i \in 1..n : rs[i] \in Reading
  OBVIOUS
<1> HIDE DEF n
<1>2. \A i \in 1..n : seqs[i] \in Seq(U64) /\ Len(seqs[i]) = 3
  BY <1>1 DEF Reading
<1>3. seqs \in Seq(Seq(U64)) /\ Len(seqs) = n /\ seqs # <<>>
  <2>1. seqs \in [1..n -> Seq(U64)]
    BY <1>1, <1>2
  <2> HIDE DEF seqs
  <2>2. seqs \in Seq(Seq(U64)) /\ Len(seqs) = n
    BY <1>1, <2>1, IsSequence
  <2> QED
    BY <1>1, <2>2
<1>4. /\ FlattenSeq(seqs) \in Seq(U64)
      /\ Len(FlattenSeq(seqs)) = 3 * Len(seqs)
      /\ \A a \in 1..Len(seqs), b \in 1..3 :
            FlattenSeq(seqs)[3 * (a - 1) + b] = seqs[a][b]
  <2> HIDE DEF seqs
  <2>1. 3 \in Nat \ {0} /\ \A i \in 1..Len(seqs) : Len(seqs[i]) = 3
    BY <1>2, <1>3
  <2>2. seqs \in Seq(Seq(U64)) /\ seqs # <<>>
    BY <1>3
  <2>3. FlattenSeq(seqs) \in Seq(U64) /\ Evenly(FlattenSeq(seqs), seqs, 3)
    BY <2>1, <2>2, FlattenEven
  <2> QED
    BY <2>3 DEF Evenly
<1>5. Flat(rs) = FlattenSeq(seqs)
  BY DEF Flat
<1>6. ASSUME NEW i \in 1..n
      PROVE  /\ Flat(rs)[3 * i - 2] = rs[i].voltage_mv
             /\ Flat(rs)[3 * i - 1] = rs[i].current_ma
             /\ Flat(rs)[3 * i] = rs[i].timestamp_ms
  <2>1. /\ seqs[i][1] = rs[i].voltage_mv
        /\ seqs[i][2] = rs[i].current_ma
        /\ seqs[i][3] = rs[i].timestamp_ms
    BY <1>1
  <2> HIDE DEF seqs
  <2>2. /\ 3 * (i - 1) + 1 = 3 * i - 2
        /\ 3 * (i - 1) + 2 = 3 * i - 1
        /\ 3 * (i - 1) + 3 = 3 * i
    BY <1>1
  <2>3. /\ Flat(rs)[3 * (i - 1) + 1] = seqs[i][1]
        /\ Flat(rs)[3 * (i - 1) + 2] = seqs[i][2]
        /\ Flat(rs)[3 * (i - 1) + 3] = seqs[i][3]
    BY <1>3, <1>4, <1>5
  <2> QED
    BY <2>1, <2>2, <2>3
<1> QED
  BY <1>3, <1>4, <1>5, <1>6 DEF n

(* Where each word comes from.                                             *)
LEMMA WordsOf ==
    ASSUME NEW p, North(p)
    PROVE  /\ Words(p) \in Seq(U64)
           /\ Len(Words(p)) = 7 + 3 * READINGS_PER_PAYLOAD
           /\ \A i \in 1..7 : Words(p)[i] = p[MetadataOrder[i]]
           /\ \A i \in 1..READINGS_PER_PAYLOAD :
                 /\ Words(p)[5 + 3 * i] = p.readings[i].voltage_mv
                 /\ Words(p)[6 + 3 * i] = p.readings[i].current_ma
<1> DEFINE rs == p.readings
           N == READINGS_PER_PAYLOAD
           meta == <<p.device_id, p.session_id, p.epoch_start_ts, p.lat_e7, p.lon_e7,
                     p.light_level, p.tamper_flag>>
<1>1. N \in Nat \ {0} /\ rs \in Seq(Reading) /\ Len(rs) = N /\ rs # <<>>
  BY PayloadAssumption DEF North, CanonicalPayload
<1>2. /\ p.device_id \in U64 /\ p.session_id \in U64 /\ p.epoch_start_ts \in U64
      /\ p.lat_e7 \in U64 /\ p.lon_e7 \in U64
      /\ p.light_level \in U64 /\ p.tamper_flag \in U64
  BY Sizes DEF North, CanonicalPayload
<1>3. meta \in Seq(U64) /\ Len(meta) = 7
  BY <1>2
<1>4. \A i \in 1..7 : meta[i] = p[MetadataOrder[i]]
  BY DEF MetadataOrder
<1>5. /\ Flat(rs) \in Seq(U64) /\ Len(Flat(rs)) = 3 * N
      /\ \A i \in 1..N : /\ Flat(rs)[3 * i - 2] = rs[i].voltage_mv
                         /\ Flat(rs)[3 * i - 1] = rs[i].current_ma
  BY <1>1, FlatReadings
<1> HIDE DEF meta
<1>6. Words(p) = meta \o Flat(rs)
  BY DEF Words, meta
<1>7. Words(p) \in Seq(U64) /\ Joins(Words(p), meta, Flat(rs))
  BY <1>3, <1>5, <1>6, ConcatJoins
<1> HIDE DEF rs, N
<1>8. Len(Words(p)) = 7 + 3 * N
  BY <1>3, <1>5, <1>7 DEF Joins
<1>9. \A i \in 1..7 : Words(p)[i] = meta[i]
  BY <1>3, <1>7 DEF Joins
<1>10. \A i \in 1..(3 * N) : Words(p)[7 + i] = Flat(rs)[i]
  BY <1>3, <1>5, <1>7 DEF Joins
<1>11. ASSUME NEW i \in 1..N
       PROVE  /\ Words(p)[5 + 3 * i] = rs[i].voltage_mv
              /\ Words(p)[6 + 3 * i] = rs[i].current_ma
  <2>1. /\ 3 * i - 2 \in 1..(3 * N) /\ 7 + (3 * i - 2) = 5 + 3 * i
        /\ 3 * i - 1 \in 1..(3 * N) /\ 7 + (3 * i - 1) = 6 + 3 * i
    BY <1>1
  <2> QED
    BY <1>5, <1>10, <2>1
<1> QED
  BY <1>4, <1>7, <1>8, <1>9, <1>11 DEF N, rs

-----------------------------------------------------------------------------
(* A word is the two bytes it is packed into (struct.pack, setBigUint64).  *)
LEMMA BytesOfWord ==
    ASSUME NEW v \in U64
    PROVE  /\ bigEndian(v) \in Seq(Int) /\ Len(bigEndian(v)) = 2
           /\ bigEndian(v)[1] * BYTE + bigEndian(v)[2] = v
<1>1. v \in Nat /\ v \in 0..(WORD - 1) /\ v % WORD = v
  <2>1. \A M \in Nat \ {0} : \A u \in 0..(M - 1) : u % M = u
    OBVIOUS
  <2> QED
    BY <2>1, Sizes DEF U64
<1>2. v \div BYTE \in Int /\ v % BYTE \in Int /\ (v \div BYTE) * BYTE + (v % BYTE) = v
  <2>1. \A M \in Nat \ {0} : \A u \in Nat :
           u \div M \in Int /\ u % M \in Int /\ (u \div M) * M + (u % M) = u
    OBVIOUS
  <2> QED
    BY <1>1, <2>1, Sizes
<1>3. bigEndian(v) = <<v \div BYTE, v % BYTE>>
  BY <1>1 DEF bigEndian
<1> QED
  BY <1>2, <1>3

(* The words' bytes in order, as canonical.ts writes them.                 *)
LEMMA ServerBytes ==
    ASSUME NEW p, North(p)
    PROVE  /\ canonicalize(p) \in Seq(Int)
           /\ Len(canonicalize(p)) = 2 * Len(Words(p))
           /\ \A w \in 1..Len(Words(p)) :
                 /\ canonicalize(p)[2 * w - 1] = bigEndian(Words(p)[w])[1]
                 /\ canonicalize(p)[2 * w] = bigEndian(Words(p)[w])[2]
<1> DEFINE ws == Words(p)
           L == Len(ws)
           c == [i \in 1..2 * L |-> bigEndian(ws[(i + 1) \div 2])[2 - (i % 2)]]
<1>1. ws \in Seq(U64)
  BY WordsOf
<1>2. L \in Nat /\ \A w \in 1..L : ws[w] \in U64
  BY <1>1
<1>3. canonicalize(p) = c
  BY DEF canonicalize, Words
<1> HIDE DEF ws, L
<1>4. \A w \in 1..L : /\ bigEndian(ws[w])[1] \in Int
                      /\ bigEndian(ws[w])[2] \in Int
  BY <1>2, BytesOfWord
<1>5. ASSUME NEW w \in 1..L
      PROVE  /\ c[2 * w - 1] = bigEndian(ws[w])[1]
             /\ c[2 * w] = bigEndian(ws[w])[2]
  <2>1. /\ 2 * w - 1 \in 1..2 * L /\ 2 * w \in 1..2 * L
        /\ ((2 * w - 1) + 1) \div 2 = w /\ (2 * w + 1) \div 2 = w
        /\ 2 - ((2 * w - 1) % 2) = 1 /\ 2 - ((2 * w) % 2) = 2
    BY <1>2
  <2> QED
    BY <2>1
<1>6. c \in [1..2 * L -> Int]
  <2>1. ASSUME NEW i \in 1..2 * L
        PROVE  (i + 1) \div 2 \in 1..L /\ 2 - (i % 2) \in {1, 2}
    BY <1>2
  <2>2. ASSUME NEW i \in 1..2 * L
        PROVE  bigEndian(ws[(i + 1) \div 2])[2 - (i % 2)] \in Int
    BY <1>4, <2>1
  <2> QED
    BY <2>2
<1>7. 2 * L \in Nat
  BY <1>2
<1> HIDE DEF c
<1>8. c \in Seq(Int) /\ Len(c) = 2 * L
  BY <1>6, <1>7, IsSequence
<1> QED
  BY <1>3, <1>5, <1>8 DEF L, ws

(* Two sequences with the same pairs are the same.                         *)
LEMMA SamePairs ==
    ASSUME NEW V, NEW s \in Seq(V), NEW t \in Seq(V), NEW n \in Nat,
           Len(s) = 2 * n, Len(t) = 2 * n,
           \A w \in 1..n : s[2 * w - 1] = t[2 * w - 1] /\ s[2 * w] = t[2 * w]
    PROVE  s = t
<1>1. ASSUME NEW i \in 1..(2 * n) PROVE s[i] = t[i]
  <2>1. PICK w \in 1..n : i = 2 * w - 1 \/ i = 2 * w
    <3> DEFINE w == (i + 1) \div 2
    <3>1. w \in 1..n /\ (i = 2 * w - 1 \/ i = 2 * w)
      OBVIOUS
    <3> QED
      BY <3>1
  <2> QED
    BY <2>1
<1> QED
  BY <1>1

(* Sequences with the same elements are the same.                          *)
LEMMA SameElements ==
    ASSUME NEW V, NEW s \in Seq(V), NEW t \in Seq(V), Len(s) = Len(t),
           \A i \in 1..Len(s) : s[i] = t[i]
    PROVE  s = t
  OBVIOUS

(* The device packs field by field and joins; the bytes are the same.      *)
LEMMA EdgeBytes ==
    ASSUME NEW p, North(p)
    PROVE  edge_canonicalize(p) = canonicalize(p)
<1> DEFINE flat == Flat(p.readings)
           meta == <<p.device_id, p.session_id, p.epoch_start_ts, p.lat_e7, p.lon_e7,
                     p.light_level, p.tamper_flag>>
           first == <<bigEndian(p.device_id), bigEndian(p.session_id),
                      bigEndian(p.epoch_start_ts), bigEndian(p.lat_e7),
                      bigEndian(p.lon_e7), bigEndian(p.light_level),
                      bigEndian(p.tamper_flag)>>
           rest == [i \in DOMAIN flat |-> bigEndian(flat[i])]
           packed == first \o rest
           ws == Words(p)
           L == Len(ws)
<1>1. ws \in Seq(U64) /\ L \in Nat \ {0} /\ \A i \in 1..L : ws[i] \in U64
  <2>1. ws \in Seq(U64) /\ L = 7 + 3 * READINGS_PER_PAYLOAD
    BY WordsOf
  <2> QED
    BY <2>1, PayloadAssumption
<1>2. flat \in Seq(U64)
  <2>1. p.readings \in Seq(Reading) /\ p.readings # <<>>
    BY PayloadAssumption DEF North, CanonicalPayload
  <2> QED
    BY <2>1, FlatReadings
<1>3. /\ p.device_id \in U64 /\ p.session_id \in U64 /\ p.epoch_start_ts \in U64
      /\ p.lat_e7 \in U64 /\ p.lon_e7 \in U64
      /\ p.light_level \in U64 /\ p.tamper_flag \in U64
  BY Sizes DEF North, CanonicalPayload
<1>4. meta \in Seq(U64) /\ Len(meta) = 7
  BY <1>3
<1>5. \A v \in U64 : bigEndian(v) \in Seq(Int) /\ Len(bigEndian(v)) = 2
  BY BytesOfWord
<1>6. first \in Seq(Seq(Int)) /\ Len(first) = 7
  <2>1. /\ bigEndian(p.device_id) \in Seq(Int) /\ bigEndian(p.session_id) \in Seq(Int)
        /\ bigEndian(p.epoch_start_ts) \in Seq(Int) /\ bigEndian(p.lat_e7) \in Seq(Int)
        /\ bigEndian(p.lon_e7) \in Seq(Int) /\ bigEndian(p.light_level) \in Seq(Int)
        /\ bigEndian(p.tamper_flag) \in Seq(Int)
    BY <1>3, <1>5
  <2> QED
    BY <2>1
<1>7. \A i \in 1..7 : first[i] = bigEndian(meta[i])
  OBVIOUS
<1>8. /\ edge_canonicalize(p) = FlattenSeq(packed)
      /\ ws = meta \o flat
  BY DEF edge_canonicalize, Words
<1> HIDE DEF meta, first, flat, ws, L
<1>9. /\ Len(flat) \in Nat /\ DOMAIN flat = 1..Len(flat)
      /\ \A i \in 1..Len(flat) : flat[i] \in U64
  BY <1>2
<1>10. /\ rest \in Seq(Seq(Int)) /\ Len(rest) = Len(flat)
       /\ \A i \in 1..Len(flat) : rest[i] = bigEndian(flat[i])
  <2>1. rest \in [1..Len(flat) -> Seq(Int)]
    BY <1>5, <1>9
  <2>2. \A i \in 1..Len(flat) : rest[i] = bigEndian(flat[i])
    BY <1>9
  <2> HIDE DEF rest
  <2> QED
    BY <1>9, <2>1, <2>2, IsSequence
<1> HIDE DEF rest
<1>11. Joins(ws, meta, flat)
  BY <1>2, <1>4, <1>8, ConcatJoins
<1>12. packed \in Seq(Seq(Int)) /\ Joins(packed, first, rest)
  BY <1>6, <1>10, ConcatJoins
<1> HIDE DEF packed
<1>13. Len(packed) = L /\ L = 7 + Len(flat)
  BY <1>4, <1>6, <1>10, <1>11, <1>12 DEF Joins, L
<1>14. ASSUME NEW w \in 1..L PROVE packed[w] = bigEndian(ws[w])
  <2>1. CASE w \in 1..7
    <3>1. packed[w] = first[w] /\ ws[w] = meta[w]
      BY <1>4, <1>6, <1>11, <1>12, <2>1 DEF Joins
    <3> QED
      BY <1>7, <2>1, <3>1
  <2>2. CASE w \notin 1..7
    <3> DEFINE i == w - 7
    <3>1. i \in 1..Len(flat) /\ 7 + i = w
      BY <1>1, <1>9, <1>13, <2>2
    <3> HIDE DEF i
    <3>2. packed[7 + i] = rest[i] /\ ws[7 + i] = flat[i]
      BY <1>4, <1>6, <1>10, <1>11, <1>12, <3>1 DEF Joins
    <3> QED
      BY <1>10, <3>1, <3>2
  <2> QED
    BY <2>1, <2>2
<1>15. \A w \in 1..L : Len(packed[w]) = 2
  BY <1>1, <1>5, <1>14
<1> DEFINE e == FlattenSeq(packed)
<1>16. /\ e \in Seq(Int) /\ Len(e) = 2 * L
       /\ \A a \in 1..L, b \in 1..2 : e[2 * (a - 1) + b] = packed[a][b]
  <2>1. 2 \in Nat \ {0} /\ packed # <<>> /\ \A i \in 1..Len(packed) : Len(packed[i]) = 2
    <3>1. L # 0 /\ Len(packed) = L
      BY <1>1, <1>13
    <3>2. packed # <<>>
      BY <3>1
    <3> QED
      BY <1>15, <3>1, <3>2
  <2>2. /\ e \in Seq(Int) /\ Len(e) = 2 * Len(packed)
        /\ \A a \in 1..Len(packed), b \in 1..2 : e[2 * (a - 1) + b] = packed[a][b]
    <3>1. packed \in Seq(Seq(Int))
      BY <1>12
    <3>2. FlattenSeq(packed) \in Seq(Int) /\ Evenly(FlattenSeq(packed), packed, 2)
      BY <2>1, <3>1, FlattenEven
    <3> QED
      BY <3>2 DEF Evenly
  <2> HIDE DEF e
  <2> QED
    BY <1>13, <2>2
<1> HIDE DEF e
<1> DEFINE c == canonicalize(p)
<1>17. /\ c \in Seq(Int) /\ Len(c) = 2 * L
       /\ \A w \in 1..L : /\ c[2 * w - 1] = bigEndian(ws[w])[1]
                          /\ c[2 * w] = bigEndian(ws[w])[2]
  BY ServerBytes DEF L, ws
<1> HIDE DEF c
<1>18. ASSUME NEW w \in 1..L
       PROVE  e[2 * w - 1] = c[2 * w - 1] /\ e[2 * w] = c[2 * w]
  <2>1. 2 * (w - 1) + 1 = 2 * w - 1 /\ 2 * (w - 1) + 2 = 2 * w
    BY <1>1
  <2>2. e[2 * (w - 1) + 1] = packed[w][1] /\ e[2 * (w - 1) + 2] = packed[w][2]
    BY <1>16
  <2> QED
    BY <1>14, <1>17, <2>1, <2>2
<1>19. e = c
  BY <1>1, <1>16, <1>17, <1>18, SamePairs
<1> QED
  BY <1>8, <1>19 DEF e, c

(* Reading the bytes back gives the words (bytesToFieldElements).          *)
LEMMA WordsComeBack ==
    ASSUME NEW p, North(p)
    PROVE  bytesToFieldElements(canonicalize(p)) = Words(p)
<1> DEFINE ws == Words(p)
           L == Len(ws)
           c == canonicalize(p)
           fe == [i \in 1..(Len(c) \div 2) |-> c[2 * i - 1] * BYTE + c[2 * i]]
<1>1. ws \in Seq(U64) /\ L \in Nat /\ \A i \in 1..L : ws[i] \in U64
  <2>1. ws \in Seq(U64)
    BY WordsOf
  <2> QED
    BY <2>1
<1>2. /\ Len(c) = 2 * L
      /\ \A w \in 1..L : /\ c[2 * w - 1] = bigEndian(ws[w])[1]
                         /\ c[2 * w] = bigEndian(ws[w])[2]
  BY ServerBytes
<1>3. bytesToFieldElements(c) = fe
  BY DEF bytesToFieldElements
<1> HIDE DEF ws, L, c
<1>4. Len(c) \div 2 = L
  BY <1>1, <1>2
<1>5. \A i \in 1..L : fe[i] = ws[i]
  BY <1>1, <1>2, <1>4, BytesOfWord
<1>6. fe \in [1..L -> U64]
  <2> HIDE DEF fe
  <2>1. fe = [i \in 1..L |-> fe[i]]
    BY <1>4 DEF fe
  <2> QED
    BY <1>1, <1>5, <2>1
<1> HIDE DEF fe
<1>7. fe \in Seq(U64) /\ Len(fe) = L
  BY <1>1, <1>6, IsSequence
<1>8. fe = ws
  BY <1>1, <1>5, <1>7, SameElements DEF L
<1> QED
  BY <1>3, <1>8 DEF ws, c

-----------------------------------------------------------------------------
(* The running totals of computeTotalEnergy and of the circuit.            *)
IsTotal(p, f) ==
    f = [i \in 0..Len(p.readings) |->
            IF i = 0 THEN 0
            ELSE f[i - 1] + p.readings[i].voltage_mv * p.readings[i].current_ma]

IsEnergy(ws, f) ==
    f = [i \in 0..READINGS_PER_PAYLOAD |->
            IF i = 0 THEN 0
            ELSE (f[i - 1] + ws[5 + 3 * i] * ws[6 + 3 * i]) % FIELD_SIZE]

(* The energy of one reading is a product of two words.                    *)
LEMMA TermBounds ==
    ASSUME NEW p, North(p), NEW i \in 1..READINGS_PER_PAYLOAD
    PROVE  p.readings[i].voltage_mv * p.readings[i].current_ma \in 0..(WORD * WORD)
<1>1. p.readings[i] \in Reading
  BY PayloadAssumption DEF North, CanonicalPayload
<1>2. /\ p.readings[i].voltage_mv \in 0..(WORD - 1)
      /\ p.readings[i].current_ma \in 0..(WORD - 1)
  BY <1>1 DEF Reading, U64
<1>3. \A M \in Nat : \A a, b \in 0..(M - 1) : a * b \in 0..(M * M)
  <2> SUFFICES ASSUME NEW M \in Nat, NEW a \in 0..(M - 1), NEW b \in 0..(M - 1)
               PROVE  a * b \in 0..(M * M)
    OBVIOUS
  <2>1. M * M = a * b + (M - a) * b + M * (M - b)
    OBVIOUS
  <2>2. a * b >= 0 /\ (M - a) * b >= 0 /\ M * (M - b) >= 0
    OBVIOUS
  <2> QED
    BY <2>1, <2>2
<1> QED
  BY <1>2, <1>3, Sizes

(* The totals exist: the loop over the readings runs.                      *)
LEMMA TotalExists ==
    ASSUME NEW p, North(p)
    PROVE  \E f : IsTotal(p, f)
<1> DEFINE n == READINGS_PER_PAYLOAD
           term(i) == p.readings[i].voltage_mv * p.readings[i].current_ma
           step == [t \in (1..n) \X Nat |-> t[2] + term(t[1])]
<1>1. n \in Nat /\ n = Len(p.readings) /\ 0 \in Nat
  BY PayloadAssumption DEF North
<1>2. \A i \in 1..n : term(i) \in Nat
  <2>1. WORD * WORD \in Nat
    BY Sizes
  <2> QED
    BY <2>1, TermBounds
<1> HIDE DEF n, term
<1>3. step \in [(1..n) \X Nat -> Nat]
  BY <1>2
<1>4. PICK f : IsLoop(f, n, Nat, 0, step)
  <2> HIDE DEF step
  <2> QED
    BY <1>1, <1>3, LoopExists, Zenon
<1>5. /\ f \in [0..n -> Nat]
      /\ \A i \in 0..n : f[i] = IF i = 0 THEN 0 ELSE f[i - 1] + term(i)
  <2> SUFFICES ASSUME NEW i \in 0..n, i # 0 PROVE f[i] = f[i - 1] + term(i)
    BY <1>4 DEF IsLoop
  <2>1. i \in 1..n /\ i - 1 \in 0..n
    BY <1>1
  <2>2. <<i, f[i - 1]>> \in (1..n) \X Nat
    BY <1>4, <2>1 DEF IsLoop
  <2>3. step[<<i, f[i - 1]>>] = f[i - 1] + term(i)
    BY <2>2
  <2> QED
    BY <1>4, <2>1, <2>3 DEF IsLoop
<1>6. f = [i \in 0..n |-> IF i = 0 THEN 0 ELSE f[i - 1] + term(i)]
  BY <1>5
<1> QED
  BY <1>1, <1>6 DEF IsTotal, term

(* i readings have at most i products' worth.                              *)
LEMMA TotalBounds ==
    ASSUME NEW p, North(p), NEW f, IsTotal(p, f)
    PROVE  \A i \in 0..READINGS_PER_PAYLOAD : f[i] \in 0..(i * (WORD * WORD))
<1> DEFINE n == READINGS_PER_PAYLOAD
           W == WORD * WORD
           term(i) == p.readings[i].voltage_mv * p.readings[i].current_ma
           S == {i \in Nat : f[i] \in 0..(i * W)}
<1>1. n \in Nat /\ n = Len(p.readings) /\ 0 \in Nat /\ W \in Nat
  BY PayloadAssumption, Sizes DEF North
<1>2. \A i \in 1..n : term(i) \in 0..W
  BY TermBounds
<1>3. \A i \in 0..n : f[i] = IF i = 0 THEN 0 ELSE f[i - 1] + term(i)
  BY <1>1 DEF IsTotal
<1> HIDE DEF n, W, term
<1>4. 0 \in S
  BY <1>1, <1>3
<1>5. \A i \in 0..n : i # 0 /\ i - 1 \in S => i \in S
  <2> SUFFICES ASSUME NEW i \in 0..n, i # 0, i - 1 \in S PROVE f[i] \in 0..(i * W)
    BY <1>1
  <2>1. f[i] = f[i - 1] + term(i) /\ term(i) \in 0..W /\ f[i - 1] \in 0..((i - 1) * W)
    BY <1>1, <1>2, <1>3
  <2>2. (i - 1) * W + W = i * W /\ (i - 1) * W \in Nat
    BY <1>1
  <2> QED
    BY <1>1, <2>1, <2>2
<1> HIDE DEF S
<1>6. 0..n \subseteq S
  BY <1>1, <1>4, <1>5, Climb, Zenon
<1> QED
  BY <1>6 DEF S, n, W

(* A product splits with its first factor.                                 *)
LEMMA PartOfProduct ==
    ASSUME NEW n \in Nat, NEW i \in 0..n, NEW W \in Nat
    PROVE  i * W \in Nat /\ (n - i) * W \in Nat /\ n * W = i * W + (n - i) * W
  OBVIOUS

(* No total reaches the field's size, so the circuit's sums are the same.  *)
LEMMA SameTotals ==
    ASSUME NEW p, North(p), NEW f, IsTotal(p, f)
    PROVE  /\ f[READINGS_PER_PAYLOAD] \in 0..(FIELD_SIZE - 1)
           /\ IsEnergy(Words(p), f)
           /\ \A e : IsEnergy(Words(p), e) =>
                    e[READINGS_PER_PAYLOAD] = f[READINGS_PER_PAYLOAD]
<1> DEFINE n == READINGS_PER_PAYLOAD
           ws == Words(p)
           W == WORD * WORD
           term(i) == p.readings[i].voltage_mv * p.readings[i].current_ma
<1>1. n \in Nat /\ n = Len(p.readings) /\ 0 \in Nat /\ W \in Nat
      /\ FIELD_SIZE \in Nat /\ FIELD_SIZE > n * W
  BY PayloadAssumption, Sizes DEF North
<1>2. \A i \in 1..n : ws[5 + 3 * i] * ws[6 + 3 * i] = term(i)
  BY WordsOf
<1>3. /\ f = [i \in 0..n |-> IF i = 0 THEN 0 ELSE f[i - 1] + term(i)]
      /\ \A i \in 0..n : f[i] = IF i = 0 THEN 0 ELSE f[i - 1] + term(i)
  BY <1>1 DEF IsTotal
<1>4. \A i \in 0..n : f[i] \in 0..(i * W)
  BY TotalBounds
<1> HIDE DEF n, W, ws, term
<1>5. \A i \in 0..n : f[i] \in 0..(FIELD_SIZE - 1)
  <2> SUFFICES ASSUME NEW i \in 0..n PROVE f[i] \in 0..(FIELD_SIZE - 1)
    OBVIOUS
  <2>1. i * W \in Nat /\ (n - i) * W \in Nat /\ n * W = i * W + (n - i) * W
    BY <1>1, PartOfProduct
  <2> DEFINE bound == i * W
             rest == (n - i) * W
  <2>2. f[i] \in 0..bound
    BY <1>4
  <2>3. bound \in Nat /\ rest \in Nat /\ FIELD_SIZE > bound + rest
    BY <1>1, <2>1
  <2> HIDE DEF bound, rest
  <2> QED
    BY <1>1, <2>2, <2>3
<1>6. \A u \in 0..(FIELD_SIZE - 1) : u % FIELD_SIZE = u
  BY <1>1
<1>7. \A i \in 1..n : (f[i - 1] + term(i)) % FIELD_SIZE = f[i]
  <2> SUFFICES ASSUME NEW i \in 1..n PROVE (f[i - 1] + term(i)) % FIELD_SIZE = f[i]
    OBVIOUS
  <2>1. i \in 0..n /\ i # 0
    BY <1>1
  <2>2. f[i] = f[i - 1] + term(i) /\ f[i] % FIELD_SIZE = f[i]
    BY <1>3, <1>5, <1>6, <2>1
  <2> QED
    BY <2>2
<1>8. IsEnergy(ws, f)
  <2>1. \A i \in 0..n :
           f[i] = IF i = 0 THEN 0
                  ELSE (f[i - 1] + ws[5 + 3 * i] * ws[6 + 3 * i]) % FIELD_SIZE
    <3> SUFFICES ASSUME NEW i \in 0..n, i # 0
                 PROVE  f[i] = (f[i - 1] + ws[5 + 3 * i] * ws[6 + 3 * i]) % FIELD_SIZE
      BY <1>1, <1>3
    <3>1. i \in 1..n
      BY <1>1
    <3> QED
      BY <1>2, <1>7, <3>1
  <2>2. f = [i \in 0..n |-> f[i]]
    BY <1>3
  <2>3. f = [i \in 0..n |-> IF i = 0 THEN 0
                  ELSE (f[i - 1] + ws[5 + 3 * i] * ws[6 + 3 * i]) % FIELD_SIZE]
    BY <2>1, <2>2
  <2> QED
    BY <2>3 DEF IsEnergy, n
<1>9. ASSUME NEW e, IsEnergy(ws, e) PROVE e[n] = f[n]
  <2> DEFINE S == {i \in Nat : e[i] = f[i]}
  <2>1. \A i \in 0..n :
           e[i] = IF i = 0 THEN 0
                  ELSE (e[i - 1] + ws[5 + 3 * i] * ws[6 + 3 * i]) % FIELD_SIZE
    BY <1>9 DEF IsEnergy, n
  <2>2. 0 \in S
    BY <1>1, <1>3, <2>1
  <2>3. \A i \in 0..n : i # 0 /\ i - 1 \in S => i \in S
    <3> SUFFICES ASSUME NEW i \in 0..n, i # 0, i - 1 \in S PROVE e[i] = f[i]
      BY <1>1
    <3>1. i \in 1..n
      BY <1>1
    <3> QED
      BY <1>2, <1>7, <2>1, <3>1
  <2> HIDE DEF S
  <2>4. 0..n \subseteq S
    BY <1>1, <2>2, <2>3, Climb, Zenon
  <2>5. n \in 0..n
    BY <1>1
  <2> QED
    BY <2>4, <2>5 DEF S
<1>10. n \in 0..n
  BY <1>1
<1> QED
  BY <1>5, <1>8, <1>9, <1>10 DEF n, ws

(* The total the circuit computes of its payload.                          *)
Energy(ws) == (CHOOSE e : IsEnergy(ws, e))[READINGS_PER_PAYLOAD]

(* The readings have one total on both sides, and it is a field element.   *)
LEMMA OneTotal ==
    ASSUME NEW p, North(p)
    PROVE  /\ computeTotalEnergy(p) \in 0..(FIELD_SIZE - 1)
           /\ Energy(Words(p)) = computeTotalEnergy(p)
<1> DEFINE f == CHOOSE g : IsTotal(p, g)
           e == CHOOSE g : IsEnergy(Words(p), g)
<1>1. computeTotalEnergy(p) = f[READINGS_PER_PAYLOAD]
  <2>1. Len(p.readings) = READINGS_PER_PAYLOAD
    BY DEF North
  <2>2. computeTotalEnergy(p) = f[Len(p.readings)]
    BY DEF computeTotalEnergy, IsTotal
  <2> QED
    BY <2>1, <2>2
<1>2. IsTotal(p, f)
  BY TotalExists, Zenon
<1> HIDE DEF f
<1>3. f[READINGS_PER_PAYLOAD] \in 0..(FIELD_SIZE - 1) /\ IsEnergy(Words(p), f)
  BY <1>2, SameTotals
<1>4. IsEnergy(Words(p), e)
  BY <1>3, Zenon
<1>5. Energy(Words(p)) = e[READINGS_PER_PAYLOAD]
  BY DEF Energy
<1> HIDE DEF e
<1>6. e[READINGS_PER_PAYLOAD] = f[READINGS_PER_PAYLOAD]
  BY <1>2, <1>4, SameTotals
<1> QED
  BY <1>1, <1>3, <1>5, <1>6

-----------------------------------------------------------------------------
(* A small number is the field element, and the slot, it stands for.       *)
LEMMA SmallNumbers ==
    ASSUME NEW v \in 0..(FIELD_SIZE - 1)
    PROVE  toFieldHex(v) = v /\ v % FIELD_SIZE = v /\ slotOf(v) = v
<1>1. \A M \in Nat \ {0} : \A u \in 0..(M - 1) : u % M = u
  OBVIOUS
<1>2. FIELD_SIZE \in Nat \ {0} /\ SLOT \in Nat \ {0} /\ v \in 0..(SLOT - 1) /\ v >= 0
  BY PayloadAssumption
<1> QED
  BY <1>1, <1>2 DEF toFieldHex, slotOf

(* Every word is small.                                                    *)
LEMMA WordsAreSmall == WORD < FIELD_SIZE /\ U64 \subseteq 0..(FIELD_SIZE - 1)
<1>1. WORD \in Nat \ {0} /\ READINGS_PER_PAYLOAD \in Nat \ {0} /\ FIELD_SIZE \in Nat
      /\ FIELD_SIZE > READINGS_PER_PAYLOAD * (WORD * WORD)
  BY Sizes, PayloadAssumption
<1>2. \A M, n \in Nat \ {0} : n * (M * M) >= M
  <2> SUFFICES ASSUME NEW M \in Nat \ {0}, NEW n \in Nat \ {0}
               PROVE  n * (M * M) >= M
    OBVIOUS
  <2>1. M * M \in Nat /\ M * M >= M
    <3>1. M * M = M + M * (M - 1) /\ M * (M - 1) \in Nat
      OBVIOUS
    <3> QED
      BY <3>1
  <2>2. \A q \in Nat : n * q >= q
    <3> SUFFICES ASSUME NEW q \in Nat PROVE n * q >= q
      OBVIOUS
    <3>1. n * q = q + (n - 1) * q /\ (n - 1) * q \in Nat
      OBVIOUS
    <3> QED
      BY <3>1
  <2> QED
    BY <2>1, <2>2
<1>3. READINGS_PER_PAYLOAD * (WORD * WORD) >= WORD
  BY <1>1, <1>2
<1>4. READINGS_PER_PAYLOAD * (WORD * WORD) \in Nat
  BY <1>1
<1> QED
  BY <1>1, <1>3, <1>4 DEF U64

(* So a word is its own field element and its own slot.                    *)
LEMMA WordsAsFields == \A v \in U64 : toFieldHex(v) = v /\ slotOf(v) = v
<1> SUFFICES ASSUME NEW v \in U64 PROVE toFieldHex(v) = v /\ slotOf(v) = v
  OBVIOUS
<1>1. v \in 0..(FIELD_SIZE - 1)
  BY WordsAreSmall
<1> QED
  BY <1>1, SmallNumbers

(* The witness of a complete payload from the north-east is its numbers.   *)
LEMMA WitnessOf ==
    ASSUME NEW submission, North(submission.payload)
    PROVE  LET p == submission.payload
               w == prepareWitnessInputs(submission)
           IN  /\ w.canonical_payload = Words(p)
               /\ \A i \in 1..7 : /\ w.public[MetadataOrder[i]] = p[MetadataOrder[i]]
                                  /\ p[MetadataOrder[i]] \in U64
               /\ w.payload_hash = poseidonSponge(Words(p))
               /\ w.payload_hash = edge_payload_hash(p)
               /\ w.payload_hash = computePayloadHash(p)
               /\ w.total_energy_mwh = computeTotalEnergy(p)
               /\ w.signature = submission.signature
               /\ w.pubkey = submission.public_key
<1> DEFINE p == submission.payload
           ws == Words(p)
           w == prepareWitnessInputs(submission)
           fields == {"device_id", "session_id", "epoch_start_ts", "lat_e7",
                      "lon_e7", "light_level", "tamper_flag"}
<1>1. ws \in Seq(U64) /\ \A i \in 1..Len(ws) : toFieldHex(ws[i]) = ws[i]
  <2>1. ws \in Seq(U64)
    BY WordsOf
  <2> HIDE DEF ws
  <2>2. \A i \in 1..Len(ws) : ws[i] \in U64
    BY <2>1
  <2> QED
    BY <2>1, <2>2, WordsAsFields
<1>2. bytesToFieldElements(canonicalize(p)) = ws
  BY WordsComeBack
<1>3. w.canonical_payload = ws
  <2>1. w.canonical_payload =
           [i \in DOMAIN bytesToFieldElements(canonicalize(p)) |->
               toFieldHex(bytesToFieldElements(canonicalize(p))[i])]
    BY DEF prepareWitnessInputs
  <2>2. w.canonical_payload = [i \in DOMAIN ws |-> toFieldHex(ws[i])]
    BY <1>2, <2>1
  <2> HIDE DEF ws, w
  <2>3. DOMAIN ws = 1..Len(ws) /\ ws = [i \in DOMAIN ws |-> ws[i]]
    BY <1>1
  <2> QED
    BY <1>1, <2>2, <2>3
<1>4. w.public = [f \in fields |-> toFieldHex(p[f])]
  BY DEF prepareWitnessInputs
<1>5. \A f \in fields : p[f] \in U64
  <2>1. /\ p.device_id \in U64 /\ p.session_id \in U64 /\ p.epoch_start_ts \in U64
        /\ p.lat_e7 \in U64 /\ p.lon_e7 \in U64
        /\ p.light_level \in U64 /\ p.tamper_flag \in U64
    BY Sizes DEF North, CanonicalPayload
  <2> QED
    BY <2>1
<1>6. \A i \in 1..7 : MetadataOrder[i] \in fields
  BY DEF MetadataOrder
<1>7. \A i \in 1..7 : /\ w.public[MetadataOrder[i]] = p[MetadataOrder[i]]
                      /\ p[MetadataOrder[i]] \in U64
  <2> HIDE DEF w, p, fields
  <2>1. \A f \in fields : w.public[f] = p[f]
    BY <1>4, <1>5, WordsAsFields
  <2> QED
    BY <1>5, <1>6, <2>1
<1>8. w.payload_hash = computePayloadHash(p)
  BY DEF prepareWitnessInputs
<1>9. computePayloadHash(p) = poseidonSponge(ws)
  BY <1>2 DEF computePayloadHash
<1>10. edge_payload_hash(p) = poseidonSponge(ws)
  BY <1>2, EdgeBytes DEF edge_payload_hash
<1>11. w.total_energy_mwh = computeTotalEnergy(p)
  <2>1. w.total_energy_mwh = toFieldHex(computeTotalEnergy(p))
    BY DEF prepareWitnessInputs
  <2> QED
    BY <2>1, OneTotal, SmallNumbers
<1>12. w.signature = submission.signature /\ w.pubkey = submission.public_key
  BY DEF prepareWitnessInputs
<1> QED
  BY <1>3, <1>7, <1>8, <1>9, <1>10, <1>11, <1>12

(* What the device's signer makes of a payload.                            *)
Signed(submission) ==
    /\ submission.signature.by = submission.public_key
    /\ submission.signature.over = edge_payload_hash(submission.payload)
    /\ submission.signature.s = "low"

(* A signed payload from the north-east satisfies every check of main.nr.  *)
LEMMA CircuitHolds ==
    ASSUME NEW submission, North(submission.payload), Signed(submission)
    PROVE  circuit(prepareWitnessInputs(submission))
<1> DEFINE p == submission.payload
           w == prepareWitnessInputs(submission)
<1>1. /\ w.canonical_payload = Words(p)
      /\ \A i \in 1..7 : w.public[MetadataOrder[i]] = p[MetadataOrder[i]]
      /\ w.payload_hash = poseidonSponge(Words(p))
      /\ w.payload_hash = edge_payload_hash(p)
      /\ w.total_energy_mwh = computeTotalEnergy(p)
      /\ w.signature = submission.signature
      /\ w.pubkey = submission.public_key
  BY WitnessOf
<1>2. \A i \in 1..7 : Words(p)[i] = p[MetadataOrder[i]]
  BY WordsOf
<1>3. Energy(Words(p)) = computeTotalEnergy(p)
  BY OneTotal
<1> HIDE DEF w, p
<1>4. DOMAIN MetadataOrder = 1..7
  BY DEF MetadataOrder
<1>5. \A i \in DOMAIN MetadataOrder : w.canonical_payload[i] = w.public[MetadataOrder[i]]
  BY <1>1, <1>2, <1>4
<1>6. /\ w.signature.by = w.pubkey
      /\ w.signature.over = w.payload_hash
      /\ w.signature.s = "low"
  BY <1>1 DEF Signed, p
<1>7. Energy(w.canonical_payload) = w.total_energy_mwh
  BY <1>1, <1>3
<1>8. poseidonSponge(w.canonical_payload) = w.payload_hash
  BY <1>1
<1>9. circuit(w)
  BY <1>5, <1>6, <1>7, <1>8 DEF circuit, Energy, IsEnergy
<1> QED
  BY <1>9 DEF w

(* An element of a sequence is one of its set.                             *)
LEMMA ElementOf ==
    ASSUME NEW V, NEW s \in Seq(V), NEW i \in 1..Len(s)
    PROVE  s[i] \in V
  OBVIOUS

(* The seven metadata words with the hash and the total behind them.       *)
LEMMA SevenAndTwo ==
    ASSUME NEW V, NEW s \in Seq(V), Len(s) = 7, NEW h \in V, NEW k \in V
    PROVE  s \o <<h, k>> = <<s[1], s[2], s[3], s[4], s[5], s[6], s[7], h, k>>
<1> DEFINE t == <<h, k>>
           r == <<s[1], s[2], s[3], s[4], s[5], s[6], s[7], h, k>>
<1>1. t \in Seq(V) /\ Len(t) = 2 /\ t[1] = h /\ t[2] = k
  OBVIOUS
<1>2. \A i \in 1..7 : s[i] \in V
  <2> HIDE DEF r, t
  <2> QED
    BY ElementOf
<1>3. r \in Seq(V) /\ Len(r) = 9
  BY <1>2
<1>4. (\A i \in 1..7 : r[i] = s[i]) /\ r[8] = h /\ r[9] = k
  OBVIOUS
<1> HIDE DEF r, t
<1>5. s \o t \in Seq(V) /\ Joins(s \o t, s, t)
  BY <1>1, ConcatJoins
<1>6. Len(s \o t) = 9
  BY <1>1, <1>5 DEF Joins
<1>7. (\A i \in 1..7 : (s \o t)[i] = s[i]) /\ (s \o t)[8] = h /\ (s \o t)[9] = k
  <2>1. (s \o t)[7 + 1] = t[1] /\ (s \o t)[7 + 2] = t[2]
    BY <1>1, <1>5 DEF Joins
  <2> QED
    BY <1>1, <1>5, <2>1 DEF Joins
<1>8. \A i \in 1..9 : (s \o t)[i] = r[i]
  <2>1. \A i \in 1..9 : i \in 1..7 \/ i = 8 \/ i = 9
    OBVIOUS
  <2> QED
    BY <1>4, <1>7, <2>1
<1>9. s \o t = r
  BY <1>3, <1>5, <1>6, <1>8, SameElements
<1> QED
  BY <1>9 DEF r, t

(* No slot wraps: _encodePublicInputs lists what the proof was made for.   *)
LEMMA InputsMatch ==
    ASSUME NEW submission, North(submission.payload), Signed(submission)
    PROVE  ContractVerifies(submission) <=> AbiEncodable(submission.payload)
<1> DEFINE p == submission.payload
           w == prepareWitnessInputs(submission)
           pi == PublicInputs(p)
<1>1. /\ \A i \in 1..7 : /\ w.public[MetadataOrder[i]] = p[MetadataOrder[i]]
                         /\ p[MetadataOrder[i]] \in U64
      /\ w.payload_hash = edge_payload_hash(p)
      /\ w.payload_hash = computePayloadHash(p)
      /\ w.total_energy_mwh = computeTotalEnergy(p)
  BY WitnessOf
<1>2. computeTotalEnergy(p) \in 0..(FIELD_SIZE - 1)
  BY OneTotal
<1>3. /\ pi.deviceId = p.device_id /\ pi.sessionId = p.session_id
      /\ pi.epochStartTs = p.epoch_start_ts /\ pi.lat_e7 = p.lat_e7
      /\ pi.lon_e7 = p.lon_e7 /\ pi.lightLevel = p.light_level
      /\ pi.tamperFlag = p.tamper_flag /\ pi.payloadHash = computePayloadHash(p)
      /\ pi.totalEnergyMWh = computeTotalEnergy(p)
  BY DEF PublicInputs
<1> HIDE DEF w, pi, p
<1>4. \A v \in U64 : slotOf(v) = v
  BY WordsAsFields
<1>5. slotOf(computeTotalEnergy(p)) = computeTotalEnergy(p)
  BY <1>2, SmallNumbers
<1>6. /\ DOMAIN MetadataOrder = 1..7
      /\ p[MetadataOrder[1]] = p.device_id /\ p[MetadataOrder[2]] = p.session_id
      /\ p[MetadataOrder[3]] = p.epoch_start_ts /\ p[MetadataOrder[4]] = p.lat_e7
      /\ p[MetadataOrder[5]] = p.lon_e7 /\ p[MetadataOrder[6]] = p.light_level
      /\ p[MetadataOrder[7]] = p.tamper_flag
  BY DEF MetadataOrder
<1>7. /\ p.device_id \in U64 /\ p.session_id \in U64 /\ p.epoch_start_ts \in U64
      /\ p.lat_e7 \in U64 /\ p.lon_e7 \in U64
      /\ p.light_level \in U64 /\ p.tamper_flag \in U64
  <2>1. \A i \in 1..7 : p[MetadataOrder[i]] \in U64
    BY <1>1
  <2> QED
    BY <1>6, <2>1
<1>8. _encodePublicInputs(pi) =
          <<p.device_id, p.session_id, p.epoch_start_ts, p.lat_e7, p.lon_e7,
            p.light_level, p.tamper_flag, computePayloadHash(p), computeTotalEnergy(p)>>
  <2>1. /\ slotOf(p.device_id) = p.device_id /\ slotOf(p.session_id) = p.session_id
        /\ slotOf(p.epoch_start_ts) = p.epoch_start_ts /\ slotOf(p.lat_e7) = p.lat_e7
        /\ slotOf(p.lon_e7) = p.lon_e7 /\ slotOf(p.light_level) = p.light_level
        /\ slotOf(p.tamper_flag) = p.tamper_flag
    BY <1>4, <1>7
  <2> QED
    BY <1>3, <1>5, <2>1 DEF _encodePublicInputs
<1> DEFINE meta == [i \in DOMAIN MetadataOrder |-> w.public[MetadataOrder[i]]]
<1>9. meta = <<p.device_id, p.session_id, p.epoch_start_ts, p.lat_e7, p.lon_e7,
               p.light_level, p.tamper_flag>>
  <2>1. /\ w.public[MetadataOrder[1]] = p.device_id
        /\ w.public[MetadataOrder[2]] = p.session_id
        /\ w.public[MetadataOrder[3]] = p.epoch_start_ts
        /\ w.public[MetadataOrder[4]] = p.lat_e7
        /\ w.public[MetadataOrder[5]] = p.lon_e7
        /\ w.public[MetadataOrder[6]] = p.light_level
        /\ w.public[MetadataOrder[7]] = p.tamper_flag
    BY <1>1, <1>6
  <2>2. meta = [i \in 1..7 |-> w.public[MetadataOrder[i]]]
    BY <1>6
  <2> QED
    BY <2>1, <2>2
<1>10. Proved(w) = meta \o <<w.payload_hash, w.total_energy_mwh>>
  BY DEF Proved
<1> HIDE DEF meta
<1>11. Proved(w) = _encodePublicInputs(pi)
  <2> DEFINE V == U64 \cup {computePayloadHash(p), computeTotalEnergy(p)}
             s == <<p.device_id, p.session_id, p.epoch_start_ts, p.lat_e7, p.lon_e7,
                    p.light_level, p.tamper_flag>>
  <2>1. /\ s \in Seq(V) /\ Len(s) = 7
        /\ computePayloadHash(p) \in V /\ computeTotalEnergy(p) \in V
    BY <1>7
  <2>2. /\ s[1] = p.device_id /\ s[2] = p.session_id /\ s[3] = p.epoch_start_ts
        /\ s[4] = p.lat_e7 /\ s[5] = p.lon_e7 /\ s[6] = p.light_level
        /\ s[7] = p.tamper_flag
    OBVIOUS
  <2> HIDE DEF V, s
  <2>3. s \o <<computePayloadHash(p), computeTotalEnergy(p)>> =
            <<s[1], s[2], s[3], s[4], s[5], s[6], s[7],
              computePayloadHash(p), computeTotalEnergy(p)>>
    BY <2>1, SevenAndTwo
  <2>4. Proved(w) = s \o <<computePayloadHash(p), computeTotalEnergy(p)>>
    BY <1>1, <1>9, <1>10 DEF s
  <2> QED
    BY <1>8, <2>2, <2>3, <2>4
<1>12. /\ submission.signature.by = submission.public_key
       /\ submission.signature.over = pi.payloadHash
  BY <1>1, <1>3 DEF Signed, p
<1> QED
  BY <1>11, <1>12 DEF ContractVerifies, w, pi, p

-----------------------------------------------------------------------------
(***************************************************************************)
(* And where they do not agree: a negative coordinate is one number among  *)
(* the payload's words, and another among the public inputs.               *)
(***************************************************************************)
(* A sequence over a set is one over any larger set.                       *)
LEMMA WiderSeq ==
    ASSUME NEW V, NEW W, V \subseteq W, NEW s \in Seq(V)
    PROVE  s \in Seq(W)
<1>1. Len(s) \in Nat /\ s \in [1..Len(s) -> V]
  OBVIOUS
<1>2. s \in [1..Len(s) -> W]
  BY <1>1
<1> QED
  BY <1>1, <1>2, IsSequence

(* The residue of a number is unique.                                      *)
LEMMA ResidueIs ==
    ASSUME NEW M \in Nat \ {0}, NEW v \in Int, NEW q \in Int, NEW r \in 0..(M - 1),
           v = q * M + r
    PROVE  v % M = r
<1> DEFINE q2 == v \div M
           r2 == v % M
<1>1. q2 \in Int /\ r2 \in 0..(M - 1) /\ v = q2 * M + r2
  OBVIOUS
<1> HIDE DEF q2, r2
<1>2. (q - q2) * M = r2 - r
  BY <1>1
<1>3. q - q2 = 0
  <2> DEFINE d == q - q2
  <2>1. d \in Int /\ d * M = r2 - r /\ r2 - r < M /\ r2 - r > -M
    BY <1>1, <1>2
  <2> HIDE DEF d
  <2>2. ASSUME d >= 1 PROVE FALSE
    <3>1. d * M = M + (d - 1) * M /\ (d - 1) * M >= 0
      BY <2>1, <2>2
    <3> QED
      BY <2>1, <3>1
  <2>3. ASSUME d <= -1 PROVE FALSE
    <3>1. d * M = (d + 1) * M - M /\ (d + 1) * M <= 0
      BY <2>1, <2>3
    <3> QED
      BY <2>1, <3>1
  <2>4. d = 0
    BY <2>1, <2>2, <2>3
  <2> QED
    BY <2>4 DEF d
<1>4. r2 = r
  BY <1>1, <1>2, <1>3
<1> QED
  BY <1>4 DEF r2

(* The bytes of a negative coordinate are those of a large word.           *)
LEMMA BytesOfNegative ==
    ASSUME NEW v \in I64, v < 0
    PROVE  /\ bigEndian(v)[1] * BYTE + bigEndian(v)[2] = v + WORD
           /\ v + WORD \in U64
<1> DEFINE u == v + WORD
<1>1. /\ v \in Int /\ u \in 0..(WORD - 1) /\ u \in Int /\ WORD \in Nat \ {0}
      /\ BYTE \in Nat \ {0} /\ WORD = BYTE * BYTE
  <2>1. WORD \in Nat \ {0} /\ BYTE \in Nat \ {0} /\ WORD = BYTE * BYTE
    BY Sizes
  <2>2. v \in Int /\ v >= -(WORD \div 2)
    BY <2>1 DEF I64
  <2>3. WORD \div 2 \in Int /\ WORD \div 2 <= WORD
    BY <2>1
  <2> QED
    BY <2>1, <2>2, <2>3
<1>2. v = (-1) * WORD + u
  BY <1>1
<1> HIDE DEF u
<1>3. v % WORD = u
  <2>1. -1 \in Int
    OBVIOUS
  <2> QED
    BY <1>1, <1>2, <2>1, ResidueIs
<1>4. u \div BYTE \in Int /\ u % BYTE \in 0..(BYTE - 1)
      /\ u = (u \div BYTE) * BYTE + (u % BYTE)
  BY <1>1
<1>5. v % BYTE = u % BYTE
  <2> DEFINE q == (u \div BYTE) - BYTE
             r == u % BYTE
  <2>1. q \in Int /\ r \in 0..(BYTE - 1) /\ v = q * BYTE + r
    BY <1>1, <1>2, <1>4
  <2> HIDE DEF q, r
  <2> QED
    BY <1>1, <2>1, ResidueIs DEF r
<1>6. bigEndian(v) = <<u \div BYTE, u % BYTE>>
  BY <1>3, <1>5 DEF bigEndian
<1> QED
  BY <1>1, <1>4, <1>6 DEF u, U64

(* In the proof's public inputs it is a number just below the field's size.*)
LEMMA FieldOfNegative ==
    ASSUME NEW v \in I64, v < 0
    PROVE  toFieldHex(v) = v + FIELD_SIZE /\ toFieldHex(v + WORD) # toFieldHex(v)
<1> DEFINE r == v + FIELD_SIZE
<1>1. /\ v + WORD \in 0..(WORD - 1) /\ v + WORD \in 0..(FIELD_SIZE - 1)
      /\ WORD \in Nat \ {0} /\ FIELD_SIZE \in Nat \ {0} /\ v \in Int
  <2>1. v + WORD \in U64 /\ WORD \in Nat \ {0} /\ FIELD_SIZE \in Nat
    BY BytesOfNegative, Sizes, PayloadAssumption
  <2>2. v + WORD \in 0..(FIELD_SIZE - 1)
    BY <2>1, WordsAreSmall
  <2>3. v \in Int
    BY <2>1 DEF I64
  <2> QED
    BY <2>1, <2>2, <2>3 DEF U64
<1>2. WORD < FIELD_SIZE
  BY WordsAreSmall
<1>3. r \in 0..(FIELD_SIZE - 1) /\ v = (-1) * FIELD_SIZE + r
  BY <1>1, <1>2
<1> HIDE DEF r
<1>4. v % FIELD_SIZE = r
  <2>1. -1 \in Int
    OBVIOUS
  <2> QED
    BY <1>1, <1>3, <2>1, ResidueIs
<1>5. toFieldHex(v) = r
  BY <1>4 DEF toFieldHex
<1>6. toFieldHex(v + WORD) = v + WORD
  BY <1>1, SmallNumbers
<1> QED
  BY <1>1, <1>2, <1>5, <1>6 DEF r

(* The circuit compares the two and fails.                                 *)
LEMMA SouthFails ==
    ASSUME NEW submission, submission.payload \in CanonicalPayload,
           Len(submission.payload.readings) = READINGS_PER_PAYLOAD,
           ~NonNegative(submission.payload)
    PROVE  ~circuit(prepareWitnessInputs(submission))
<1> DEFINE p == submission.payload
           w == prepareWitnessInputs(submission)
           ws == Words(p)
           L == Len(ws)
           meta == <<p.device_id, p.session_id, p.epoch_start_ts, p.lat_e7, p.lon_e7,
                     p.light_level, p.tamper_flag>>
           flat == Flat(p.readings)
           c == [i \in 1..2 * L |-> bigEndian(ws[(i + 1) \div 2])[2 - (i % 2)]]
           fe == [i \in 1..(Len(c) \div 2) |-> c[2 * i - 1] * BYTE + c[2 * i]]
<1>1. BYTE \in Nat \ {0} /\ WORD \in Nat \ {0} /\ U64 \subseteq Int /\ I64 \subseteq Int
  BY Sizes DEF I64
<1>2. flat \in Seq(Int)
  <2>1. p.readings \in Seq(Reading) /\ p.readings # <<>>
    BY PayloadAssumption DEF CanonicalPayload
  <2>2. flat \in Seq(U64)
    BY <2>1, FlatReadings
  <2> HIDE DEF flat
  <2> QED
    BY <1>1, <2>2, WiderSeq
<1>3. meta \in Seq(Int) /\ Len(meta) = 7
  <2>1. /\ p.device_id \in Int /\ p.session_id \in Int /\ p.epoch_start_ts \in Int
        /\ p.lat_e7 \in Int /\ p.lon_e7 \in Int
        /\ p.light_level \in Int /\ p.tamper_flag \in Int
    BY <1>1 DEF CanonicalPayload
  <2> QED
    BY <2>1
<1>4. meta[4] = p.lat_e7 /\ meta[5] = p.lon_e7
  OBVIOUS
<1>5. /\ canonicalize(p) = c
      /\ bytesToFieldElements(c) = fe
      /\ ws = meta \o flat
  BY DEF canonicalize, bytesToFieldElements, Words
<1>6. w.canonical_payload = [i \in DOMAIN fe |-> toFieldHex(fe[i])]
  <2>1. w.canonical_payload =
           [i \in DOMAIN bytesToFieldElements(canonicalize(p)) |->
               toFieldHex(bytesToFieldElements(canonicalize(p))[i])]
    BY DEF prepareWitnessInputs
  <2> HIDE DEF w, c, fe
  <2> QED
    BY <1>5, <2>1
<1>7. /\ w.public["lat_e7"] = toFieldHex(p.lat_e7)
      /\ w.public["lon_e7"] = toFieldHex(p.lon_e7)
  BY DEF prepareWitnessInputs
<1>8. /\ p.lat_e7 \in I64 /\ p.lon_e7 \in I64
      /\ p.lat_e7 < 0 \/ p.lon_e7 < 0
  <2>1. p.lat_e7 \in I64 /\ p.lon_e7 \in I64
    BY DEF CanonicalPayload
  <2>2. p.lat_e7 \in Int /\ p.lon_e7 \in Int
    BY <1>1, <2>1
  <2>3. ~(p.lat_e7 >= 0 /\ p.lon_e7 >= 0)
    BY DEF NonNegative
  <2> HIDE DEF p
  <2> QED
    BY <2>1, <2>2, <2>3
<1>9. ASSUME circuit(w)
      PROVE  /\ w.canonical_payload[4] = w.public["lat_e7"]
             /\ w.canonical_payload[5] = w.public["lon_e7"]
  <2>1. \A i \in DOMAIN MetadataOrder : w.canonical_payload[i] = w.public[MetadataOrder[i]]
    BY <1>9 DEF circuit
  <2>2. /\ 4 \in DOMAIN MetadataOrder /\ MetadataOrder[4] = "lat_e7"
        /\ 5 \in DOMAIN MetadataOrder /\ MetadataOrder[5] = "lon_e7"
    BY DEF MetadataOrder
  <2> QED
    BY <2>1, <2>2
<1> HIDE DEF w, p, ws, meta, flat, L
<1>10. ws \in Seq(Int) /\ Joins(ws, meta, flat)
  BY <1>2, <1>3, <1>5, ConcatJoins
<1>11. L \in Nat /\ L >= 7 /\ ws[4] = p.lat_e7 /\ ws[5] = p.lon_e7
  BY <1>2, <1>3, <1>4, <1>10 DEF Joins, L
<1>12. c \in Seq(Int) /\ Len(c) = 2 * L
  <2>1. \A u \in Int : bigEndian(u)[1] \in Int /\ bigEndian(u)[2] \in Int
    <3> SUFFICES ASSUME NEW u \in Int
                 PROVE  bigEndian(u)[1] \in Int /\ bigEndian(u)[2] \in Int
      OBVIOUS
    <3>1. (u % WORD) \div BYTE \in Int /\ u % BYTE \in Int
      BY <1>1
    <3> QED
      BY <3>1 DEF bigEndian
  <2>2. ASSUME NEW i \in 1..2 * L
        PROVE  bigEndian(ws[(i + 1) \div 2])[2 - (i % 2)] \in Int
    <3>1. (i + 1) \div 2 \in 1..L /\ 2 - (i % 2) \in {1, 2}
      BY <1>11
    <3>2. ws[(i + 1) \div 2] \in Int
      BY <1>10, <3>1, ElementOf DEF L
    <3> QED
      BY <2>1, <3>1, <3>2
  <2>3. c \in [1..2 * L -> Int] /\ 2 * L \in Nat
    BY <1>11, <2>2
  <2> HIDE DEF c
  <2> QED
    BY <2>3, IsSequence
<1>13. /\ c[7] = bigEndian(p.lat_e7)[1] /\ c[8] = bigEndian(p.lat_e7)[2]
       /\ c[9] = bigEndian(p.lon_e7)[1] /\ c[10] = bigEndian(p.lon_e7)[2]
  <2>1. /\ 7 \in 1..2 * L /\ 8 \in 1..2 * L /\ 9 \in 1..2 * L /\ 10 \in 1..2 * L
        /\ (7 + 1) \div 2 = 4 /\ (8 + 1) \div 2 = 4 /\ (9 + 1) \div 2 = 5
        /\ (10 + 1) \div 2 = 5
        /\ 2 - (7 % 2) = 1 /\ 2 - (8 % 2) = 2 /\ 2 - (9 % 2) = 1 /\ 2 - (10 % 2) = 2
    BY <1>11
  <2> QED
    BY <1>11, <2>1
<1> HIDE DEF c
<1>14. /\ 4 \in DOMAIN fe /\ fe[4] = c[7] * BYTE + c[8]
       /\ 5 \in DOMAIN fe /\ fe[5] = c[9] * BYTE + c[10]
  <2>1. 4 \in 1..(Len(c) \div 2) /\ 5 \in 1..(Len(c) \div 2)
    BY <1>11, <1>12
  <2> QED
    BY <2>1
<1> HIDE DEF fe
<1>15. /\ w.canonical_payload[4] = toFieldHex(fe[4])
       /\ w.canonical_payload[5] = toFieldHex(fe[5])
  BY <1>6, <1>14
<1>16. SUFFICES ASSUME circuit(w) PROVE FALSE
  BY DEF w
<1>17. CASE p.lat_e7 < 0
  <2>1. fe[4] = p.lat_e7 + WORD
    BY <1>8, <1>13, <1>14, <1>17, BytesOfNegative
  <2> QED
    BY <1>7, <1>8, <1>9, <1>15, <1>16, <1>17, <2>1, FieldOfNegative
<1>18. CASE p.lon_e7 < 0
  <2>1. fe[5] = p.lon_e7 + WORD
    BY <1>8, <1>13, <1>14, <1>18, BytesOfNegative
  <2> QED
    BY <1>7, <1>8, <1>9, <1>15, <1>16, <1>18, <2>1, FieldOfNegative
<1> QED
  BY <1>8, <1>17, <1>18

-----------------------------------------------------------------------------
(***************************************************************************)
(* Every job has the device's signature over a complete payload.           *)
(***************************************************************************)
Genuine(submission) ==
    /\ Signed(submission)
    /\ submission.payload \in CanonicalPayload
    /\ Len(submission.payload.readings) = READINGS_PER_PAYLOAD

SubmissionsInv ==
    /\ \A m \in wire : Genuine(m.submission)
    /\ \A id \in JobIds : Known(id) => Genuine(data[id])

(* A genuine submission from the north-east can be proved, and verified by *)
(* the contract unless its total is too large to be passed.                *)
LEMMA GenuineAgree ==
    ASSUME NEW submission, Genuine(submission), NonNegative(submission.payload)
    PROVE  /\ circuit(prepareWitnessInputs(submission))
           /\ ContractVerifies(submission)
                 <=> computeTotalEnergy(submission.payload) < WORD
<1>1. North(submission.payload) /\ Signed(submission)
  BY DEF Genuine, North, NonNegative
<1>2. computeTotalEnergy(submission.payload) \in 0..(FIELD_SIZE - 1)
  BY <1>1, OneTotal
<1>3. AbiEncodable(submission.payload) <=> computeTotalEnergy(submission.payload) < WORD
  BY <1>2, Sizes, PayloadAssumption DEF AbiEncodable, U64
<1> QED
  BY <1>1, <1>3, CircuitHolds, InputsMatch

(* The device signs what it packs; the API stores what was sent; no other  *)
(* step touches a submission.                                              *)
LEMMA SubmissionsStep ==
    ASSUME EdgeInv, SubmissionsInv, [EdgeNext]_edgeVars
    PROVE  SubmissionsInv'
<1>1. ASSUME wire' \subseteq wire, data' = data,
             \A id \in JobIds : Known(id)' => Known(id)
      PROVE  SubmissionsInv'
  BY <1>1 DEF SubmissionsInv
<1>2. ASSUME NEW p \in Payloads, NEW s \in {"low", "high"}, StartRun(p, s)
      PROVE  SubmissionsInv'
  <2> DEFINE submission == [payload |-> p, public_key |-> Key,
                            signature |-> sign(Key, edge_payload_hash(p), s)]
  <2>1. /\ submission.payload = p /\ submission.public_key = Key
        /\ submission.signature.by = Key
        /\ submission.signature.over = edge_payload_hash(p)
        /\ submission.signature.s = "low"
    BY DEF sign
  <2>2. data' = data /\ records' = records
    BY <1>2 DEF StartRun, serverVars
  <2>3. CASE ~Packable(p)
    BY <1>1, <1>2, <2>2, <2>3 DEF StartRun, Known
  <2>4. CASE Packable(p)
    <3>1. wire' = wire \cup {[run |-> runs + 1, submission |-> submission]}
      BY <1>2, <2>4 DEF StartRun, Send
    <3> HIDE DEF submission
    <3>2. Genuine(submission)
      BY <2>1, <2>4 DEF Genuine, Signed, Packable
    <3> QED
      BY <2>2, <3>1, <3>2 DEF SubmissionsInv, Known
  <2> QED
    BY <2>3, <2>4
<1>3. CASE ScriptStep
  <2>1. wire' \subseteq wire /\ data' = data /\ records' = records
    BY <1>3 DEF ScriptStep, ReceiveSubmitted, Poll, ReceiveStatus, HttpFails, TimeIsUp,
                Exit, GoOn, serverVars
  <2> QED
    BY <1>1, <2>1 DEF Known
<1>4. ASSUME NEW m \in wire, ServePost(m)
      PROVE  SubmissionsInv'
  <2>1. PICK id \in JobIds : id = computeSessionKey(m.submission.payload)
    BY EdgeAssumption DEF EdgeInv, WireInv
  <2>2. wire' \subseteq wire
    BY <1>4 DEF ServePost
  <2>3. CASE UNCHANGED <<records, pending, data>>
    BY <1>1, <2>2, <2>3 DEF Known
  <2>4. CASE enqueue(id) /\ data' = [data EXCEPT ![id] = m.submission]
    <3>1. records \in [JobIds -> Record] /\ DOMAIN data = JobIds
      BY InvariantIsEnough DEF EdgeInv, QueueTypeOK, ServerInv
    <3>2. \A i \in JobIds : i # id => records'[i] = records[i] /\ data'[i] = data[i]
      BY <2>4, <3>1 DEF enqueue
    <3>3. data'[id] = m.submission
      BY <2>4, <3>1
    <3> QED
      BY <2>2, <3>2, <3>3 DEF SubmissionsInv, Known
  <2> QED
    BY <1>4, <2>1, <2>3, <2>4 DEF ServePost
<1>5. CASE ServeGet \/ NewMinute
  <2>1. wire' = wire /\ data' = data /\ records' = records
    BY <1>5 DEF ServeGet, NewMinute
  <2> QED
    BY <1>1, <2>1 DEF Known
<1>6. ASSUME NEW id \in JobIds, Claim(id) \/ Land(id) \/ Settled(id), WorkerDoes
      PROVE  SubmissionsInv'
  <2>1. wire' = wire /\ data' = data
    BY <1>6 DEF WorkerDoes, Claim, Land, Settled
  <2>2. records \in [JobIds -> Record] /\ pending \in Seq(JobIds) /\ PendingMatchesStatus
    BY InvariantIsEnough DEF EdgeInv, QueueTypeOK
  <2>3. CASE Land(id)
    BY <1>1, <2>1, <2>3 DEF Land, Known
  <2>4. CASE Claim(id) \/ Settled(id)
    <3>1. Known(id)
      <4>1. CASE Settled(id)
        BY <4>1 DEF Settled, Working, Known
      <4>2. CASE Claim(id)
        <5>1. pending # <<>> /\ id = Head(pending)
          BY <4>2 DEF Claim, claim
        <5>2. 1 \in DOMAIN pending /\ pending[1] = id
          BY <2>2, <5>1
        <5> QED
          BY <2>2, <5>2 DEF PendingMatchesStatus, Known
      <4> QED
        BY <2>4, <4>1, <4>2
    <3>2. \A i \in JobIds : i # id => records'[i] = records[i]
      BY <2>2, <2>4 DEF Claim, claim, Settled, complete, fail, quarantine
    <3> QED
      BY <1>1, <2>1, <3>1, <3>2 DEF Known
  <2> QED
    BY <1>6, <2>3, <2>4
<1>7. CASE Restart
  <2>1. \A id \in JobIds : ~Known(id)'
    BY <1>7 DEF Restart, lose, Absent, Known
  <2>2. wire' = wire
    BY <1>7 DEF Restart
  <2> QED
    BY <2>1, <2>2, Zenon DEF SubmissionsInv
<1>8. CASE UNCHANGED edgeVars
  <2>1. wire' = wire /\ data' = data /\ records' = records
    BY <1>8 DEF edgeVars, serverVars
  <2> QED
    BY <1>1, <2>1 DEF Known
<1> QED
  BY <1>2, <1>3, <1>4, <1>5, <1>6, <1>7, <1>8 DEF EdgeNext, WorkerDoes

(* So every job is genuine in every state.                                 *)
LEMMA SubmissionsInvariant == EdgeSpec => []SubmissionsInv
<1>1. EdgeInit => SubmissionsInv
  BY DEF EdgeInit, SubmissionsInv, QueueInit, Absent, Known
<1>2. EdgeInv /\ SubmissionsInv /\ [EdgeNext]_edgeVars => SubmissionsInv'
  BY SubmissionsStep
<1> QED
  BY <1>1, <1>2, EdgeInvariant, PTL DEF EdgeSpec

(* Whatever the API let in, without a coordinate south or west of zero:    *)
(* the device's bytes, the witness and the public inputs the contract      *)
(* computes denote the same numbers (canonical.py, canonical.ts,           *)
(* witness.ts, main.nr and _encodePublicInputs), for any width of the      *)
(* words, any number of readings and any field large enough.  The one      *)
(* thing that can stand between a proof and the contract is a total that   *)
(* does not fit its word.                                                  *)
THEOREM EncodingsHold == EdgeSpec => []EncodingsAgree
<1>1. SubmissionsInv => EncodingsAgree
  <2> SUFFICES ASSUME SubmissionsInv, NEW id \in JobIds,
                      records[id].status # "absent", NonNegative(data[id].payload)
               PROVE  /\ circuit(prepareWitnessInputs(data[id]))
                      /\ ContractVerifies(data[id])
                            <=> computeTotalEnergy(data[id].payload) < WORD
    BY DEF EncodingsAgree
  <2> QED
    BY GenuineAgree DEF SubmissionsInv, Known
<1> QED
  BY <1>1, SubmissionsInvariant, PTL

(* No job with a coordinate south or west of zero ever satisfies the       *)
(* circuit (toFieldHex of witness.ts, canonical_payload[3] and [4] of      *)
(* main.nr), whatever the widths, so the worker never sends it.            *)
THEOREM SouthIsNeverProved ==
    EdgeSpec => [](\A id \in JobIds :
                      Known(id) /\ ~NonNegative(data[id].payload) => ~Provable(id))
<1>1. SubmissionsInv =>
          \A id \in JobIds :
             Known(id) /\ ~NonNegative(data[id].payload) => ~Provable(id)
  <2> SUFFICES ASSUME SubmissionsInv, NEW id \in JobIds, Known(id),
                      ~NonNegative(data[id].payload)
               PROVE  ~Provable(id)
    OBVIOUS
  <2>1. Genuine(data[id])
    BY DEF SubmissionsInv
  <2> QED
    BY <2>1, SouthFails DEF Genuine, Provable
<1> QED
  BY <1>1, SubmissionsInvariant, PTL
=============================================================================
