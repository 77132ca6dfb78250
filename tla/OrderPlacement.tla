--------------------------- MODULE OrderPlacement ---------------------------
(***************************************************************************)
(* TradingService.place (apps/api/src/trading/trading.service.ts): keyed   *)
(* order placement through the pending audit row that serves as the        *)
(* idempotency claim, with the recovery of a claim whose owner died.       *)
(*                                                                         *)
(* A request is one call of place, possibly on another API instance: each  *)
(* inserts at most one audit row and sends at most one broker order, so    *)
(* the request also names the row it inserts and the order it sends.       *)
(***************************************************************************)
EXTENDS Naturals, FiniteSets

CONSTANTS
  Requests,       \* calls of place; a client retry is another request
  Keys,           \* (userId, idempotencyKey) pairs
  KeyOf,          \* the key each request carries
  Contract,       \* contract, side, quantity and type a key's order resolves to
  AutoKeys,       \* keys whose request names no contract until it is prepared
  NoRequest,      \* null
  Dedupes,        \* the broker refuses a client order id it has seen
  ExactRecovery,  \* the gateway can query one order by its client order id
  Resends,        \* the gateway's client sends an order again after a 429 or a 5xx
  Definite,       \* the broker outcomes the gateway reports as a typed error
  Slow            \* requests that may outlast PENDING_CLAIM_TTL_MS (any, in the code)

ASSUME PlacementAssumption ==
  /\ KeyOf \in [Requests -> Keys]
  /\ NoRequest \notin Requests
  /\ AutoKeys \subseteq Keys
  /\ Dedupes \in BOOLEAN
  /\ ExactRecovery \in BOOLEAN
  /\ Resends \in BOOLEAN
  /\ Definite \subseteq {"refused", "timeout", "server"}
  /\ Slow \subseteq Requests

VARIABLES
  pc,      \* where each request is in place
  audit,   \* the OrderAudit row of each key (unique on user and key)
  prior,   \* the stale row a request read and is recovering
  broker,  \* what became of the order each request sends
  answer,  \* how each request was answered
  result,  \* the order a request's success reply names
  exposed  \* the requests whose claim stopped covering what they may still buy:
           \* it passed its TTL under them, or their gateway typed the failure of
           \* a live order as a refusal (history only, no step reads it)

vars == <<pc, audit, prior, broker, answer, result, exposed>>

NoRow == [owner |-> NoRequest, status |-> "none", prepared |-> FALSE,
          fresh |-> FALSE, order |-> NoRequest, before |-> {}]

Row == [owner : Requests \cup {NoRequest}, status : {"none", "pending", "placed"},
        prepared : BOOLEAN, fresh : BOOLEAN, order : Requests \cup {NoRequest},
        before : SUBSET Requests]

Phases == {"idle", "claiming", "conflict", "recovering", "adopting", "ingesting",
           "reclaiming", "reinserting", "validating", "sending", "awaiting",
           "acked", "releasing", "done", "crashed"}

Answers == {"none", "placed", "rejected", "in_flight", "uncertain",
            "unavailable", "ambiguous"}

\* Every variable stays in the range the code's types and columns give it.
TypeOK ==
  /\ pc \in [Requests -> Phases]
  /\ audit \in [Keys -> Row]
  /\ prior \in [Requests -> Row]
  /\ broker \in [Requests -> {"unsent", "inflight", "lost", "accepted", "refused"}]
  /\ answer \in [Requests -> Answers]
  /\ result \in [Requests -> Requests \cup {NoRequest}]
  /\ exposed \subseteq Requests

Init ==
  /\ pc = [r \in Requests |-> "idle"]
  /\ audit = [k \in Keys |-> NoRow]
  /\ prior = [r \in Requests |-> NoRow]
  /\ broker = [r \in Requests |-> "unsent"]
  /\ answer = [r \in Requests |-> "none"]
  /\ result = [r \in Requests |-> NoRequest]
  /\ exposed = {}

Live(r) == broker[r] \in {"inflight", "accepted"}
Accepted == {o \in Requests : broker[o] = "accepted"}

Goto(r, phase) == pc' = [pc EXCEPT ![r] = phase]

Reply(r, a, o) ==
  /\ Goto(r, "done")
  /\ answer' = [answer EXCEPT ![r] = a]
  /\ result' = [result EXCEPT ![r] = o]

NoReply == UNCHANGED <<answer, result>>

\* Mutant: the row is identified by its key, not by the insert.
PendingRowByKey(r) ==
  [owner |-> KeyOf[r], status |-> "pending", prepared |-> FALSE, fresh |-> TRUE,
   order |-> NoRequest, before |-> Accepted]

\* The row a claim inserts; orders the broker accepted before it are recorded
\* because recovery discards them by timestamp.
PendingRow(r) ==
  [owner |-> r, status |-> "pending", prepared |-> FALSE, fresh |-> TRUE,
   order |-> NoRequest, before |-> Accepted]

Prepared(row) == [row EXCEPT !.prepared = TRUE]
Completed(row, o) == [row EXCEPT !.status = "placed", !.order = o]
Aged(row) == [row EXCEPT !.fresh = FALSE]

\* Mutant: statements address the row by key, whoever inserted it.
OwnsByKey(r) == audit[KeyOf[r]] # NoRow

Owns(r) == audit[KeyOf[r]].owner = r

-----------------------------------------------------------------------------
(* place: kill switch and legal checks precede the claim.                  *)

Arrive(r) ==
  /\ pc[r] = "idle"
  /\ Goto(r, "claiming")
  /\ UNCHANGED <<audit, prior, broker, answer, result, exposed>>

RefuseEarly(r) ==
  /\ pc[r] = "claiming"
  /\ Reply(r, "rejected", NoRequest)
  /\ UNCHANGED <<audit, prior, broker, exposed>>

(* claimIdempotencyKey: the insert, and the read after a unique violation. *)

Claim(r) ==
  /\ pc[r] = "claiming"
  /\ IF audit[KeyOf[r]] = NoRow
       THEN /\ audit' = [audit EXCEPT ![KeyOf[r]] = PendingRow(r)]
            /\ Goto(r, "validating")
       ELSE /\ Goto(r, "conflict")
            /\ UNCHANGED audit
  /\ UNCHANGED <<prior, broker, answer, result, exposed>>

ReadGone(r) ==
  /\ pc[r] = "conflict"
  /\ audit[KeyOf[r]] = NoRow
  /\ Reply(r, "in_flight", NoRequest)
  /\ UNCHANGED <<audit, prior, broker, exposed>>

ReadCompleted(r) ==
  /\ pc[r] = "conflict"
  /\ audit[KeyOf[r]].status = "placed"
  /\ prior' = [prior EXCEPT ![r] = audit[KeyOf[r]]]
  /\ result' = [result EXCEPT ![r] = audit[KeyOf[r]].order]
  /\ Goto(r, "ingesting")
  /\ UNCHANGED <<audit, broker, answer, exposed>>

ReadFresh(r) ==
  /\ pc[r] = "conflict"
  /\ audit[KeyOf[r]].status = "pending"
  /\ audit[KeyOf[r]].fresh
  /\ Reply(r, "in_flight", NoRequest)
  /\ UNCHANGED <<audit, prior, broker, exposed>>

ReadStale(r) ==
  /\ pc[r] = "conflict"
  /\ audit[KeyOf[r]].status = "pending"
  /\ ~audit[KeyOf[r]].fresh
  /\ prior' = [prior EXCEPT ![r] = audit[KeyOf[r]]]
  /\ Goto(r, "recovering")
  /\ UNCHANGED <<audit, broker, answer, result, exposed>>

\* A statement of the claim fails in the database: the error is the answer.
ClaimQueryFails(r) ==
  /\ pc[r] \in {"conflict", "reclaiming", "reinserting"}
  /\ Reply(r, "rejected", NoRequest)
  /\ UNCHANGED <<audit, prior, broker, exposed>>

-----------------------------------------------------------------------------
(* recoverStalePlacement: ask the broker what became of the interrupted    *)
(* order.  Without an exact query the answer is matched on what the order  *)
(* looks like: the prepared request when one was saved, the raw one if not.*)

LooksLike(r, o) ==
  \/ Contract[KeyOf[o]] = Contract[KeyOf[r]]
  \/ ~prior[r].prepared /\ KeyOf[r] \in AutoKeys

\* slack: earlier orders that fall in the 5 s the query reaches before the claim.
Candidates(r, slack) ==
  {o \in (Accepted \ prior[r].before) \cup slack : LooksLike(r, o)}

ExactMatch(r) == {o \in Accepted : KeyOf[o] = KeyOf[r]}

\* Mutant: recovery looks at working orders only and misses a filled one.
FoundNothing(r, slack) == {}

Found(r, slack) == IF ExactRecovery THEN ExactMatch(r) ELSE Candidates(r, slack)

RecoverOne(r) ==
  /\ pc[r] = "recovering"
  /\ \E slack \in SUBSET (prior[r].before \cap Accepted) : \E o \in Found(r, slack) :
       /\ Found(r, slack) = {o}
       /\ result' = [result EXCEPT ![r] = o]
  /\ Goto(r, "adopting")
  /\ UNCHANGED <<audit, prior, broker, answer, exposed>>

RecoverNone(r) ==
  /\ pc[r] = "recovering"
  /\ \E slack \in SUBSET (prior[r].before \cap Accepted) : Found(r, slack) = {}
  /\ Goto(r, "reclaiming")
  /\ UNCHANGED <<audit, prior, broker, answer, result, exposed>>

RecoverAmbiguous(r) ==
  /\ pc[r] = "recovering"
  /\ \E slack \in SUBSET (prior[r].before \cap Accepted) :
       Cardinality(Found(r, slack)) > 1
  /\ Reply(r, "ambiguous", NoRequest)
  /\ UNCHANGED <<audit, prior, broker, exposed>>

RecoverFails(r) ==
  /\ pc[r] = "recovering"
  /\ Reply(r, "unavailable", NoRequest)
  /\ UNCHANGED <<audit, prior, broker, exposed>>

\* The recovered order is written to the row that was read, by its id; a
\* failed write is swallowed.
Adopt(r) ==
  LET k == KeyOf[r] IN
  /\ pc[r] = "adopting"
  /\ \/ /\ audit[k].owner = prior[r].owner
        /\ audit' = [audit EXCEPT ![k] = Completed(audit[k], result[r])]
     \/ UNCHANGED audit
  /\ Goto(r, "ingesting")
  /\ UNCHANGED <<prior, broker, answer, result, exposed>>

\* ingestRecoveredPlacement: the reply waits for the durable order row.
Ingest(r) ==
  /\ pc[r] = "ingesting"
  /\ \/ Reply(r, "placed", result[r])
     \/ Reply(r, "unavailable", NoRequest)
  /\ UNCHANGED <<audit, prior, broker, exposed>>

\* Delete the stale row by id, then insert another: two statements.
Reclaim(r) ==
  LET k == KeyOf[r] IN
  /\ pc[r] = "reclaiming"
  /\ IF audit[k].owner = prior[r].owner
       THEN /\ audit' = [audit EXCEPT ![k] = NoRow]
            /\ Goto(r, "reinserting")
            /\ NoReply
       ELSE /\ Reply(r, "rejected", NoRequest)
            /\ UNCHANGED audit
  /\ UNCHANGED <<prior, broker, exposed>>

Reinsert(r) ==
  LET k == KeyOf[r] IN
  /\ pc[r] = "reinserting"
  /\ IF audit[k] = NoRow
       THEN /\ audit' = [audit EXCEPT ![k] = PendingRow(r)]
            /\ Goto(r, "validating")
            /\ NoReply
       ELSE /\ Reply(r, "rejected", NoRequest)
            /\ UNCHANGED audit
  /\ UNCHANGED <<prior, broker, exposed>>

-----------------------------------------------------------------------------
(* place, once it holds the claim.                                         *)

\* resolveAndValidate and capToPosition succeed; the prepared order is saved
\* on the row this request inserted, which fails if that row is gone.
Prepare(r) ==
  LET k == KeyOf[r] IN
  /\ pc[r] = "validating"
  /\ IF Owns(r)
       THEN /\ audit' = [audit EXCEPT ![k] = Prepared(audit[k])]
            /\ Goto(r, "sending")
       ELSE /\ Goto(r, "releasing")
            /\ UNCHANGED audit
  /\ UNCHANGED <<prior, broker, answer, result, exposed>>

FailValidation(r) ==
  /\ pc[r] = "validating"
  /\ Goto(r, "releasing")
  /\ UNCHANGED <<audit, prior, broker, answer, result, exposed>>

\* The gateway's own checks (mode, account, credentials) refuse before the send.
GatewayRefuses(r) ==
  /\ pc[r] = "sending"
  /\ Goto(r, "releasing")
  /\ UNCHANGED <<audit, prior, broker, answer, result, exposed>>

GatewayFails(r) ==
  /\ pc[r] = "sending"
  /\ Reply(r, "uncertain", NoRequest)
  /\ UNCHANGED <<audit, prior, broker, exposed>>

Send(r) ==
  /\ pc[r] = "sending"
  /\ broker' = [broker EXCEPT ![r] = "inflight"]
  /\ Goto(r, "awaiting")
  /\ UNCHANGED <<audit, prior, answer, result, exposed>>

Acknowledged(r) ==
  /\ pc[r] = "awaiting"
  /\ broker[r] = "accepted"
  /\ Goto(r, "acked")
  /\ UNCHANGED <<audit, prior, broker, answer, result, exposed>>

\* Mutant: every failure of the send is taken for a refusal.
SortedAsRefusal(r, outcome) == Goto(r, "releasing") /\ NoReply

\* placementOutcomeUncertain sorts the failure: a typed error other than
\* BROKER_UNAVAILABLE releases the claim, anything else keeps it.
Sorted(r, outcome) ==
  IF outcome \in Definite
    THEN Goto(r, "releasing") /\ NoReply
    ELSE Reply(r, "uncertain", NoRequest)

\* The send ends in a failure, which exposes a live order where it is typed.
Fails(r, outcome) ==
  /\ pc[r] = "awaiting"
  /\ Sorted(r, outcome)
  /\ exposed' = IF outcome \in Definite /\ Live(r) THEN exposed \cup {r} ELSE exposed
  /\ UNCHANGED <<audit, prior, broker>>

\* The broker turned the order down; to a client that sends again it may so answer
\* the second copy of an order it has taken.
Refused(r) ==
  /\ broker[r] = "refused" \/ (Resends /\ Live(r))
  /\ Fails(r, "refused")

\* Mutant: a lost request is never given up.
TimesOutIfRefused(r) ==
  /\ broker[r] = "refused"
  /\ Fails(r, "timeout")

TimesOut(r) == Fails(r, "timeout")

\* A 5xx, whatever became of the order behind it.
ServerFails(r) == Fails(r, "server")

Disconnected(r) == Fails(r, "transport")

\* WebullClient.request tries again, once for a 5xx and up to
\* MAX_RATE_LIMIT_RETRIES for a 429, within one placement; an earlier copy that is
\* on its way or accepted stays so.
Resend(r) ==
  /\ pc[r] = "awaiting"
  /\ Resends
  /\ broker[r] \in {"lost", "refused"}
  /\ broker' = [broker EXCEPT ![r] = "inflight"]
  /\ UNCHANGED <<pc, audit, prior, answer, result, exposed>>

\* The accepted order is written to the claim; a failed write is only logged.
RecordPlaced(r) ==
  LET k == KeyOf[r] IN
  /\ pc[r] = "acked"
  /\ \/ /\ Owns(r)
        /\ audit' = [audit EXCEPT ![k] = Completed(audit[k], r)]
     \/ UNCHANGED audit
  /\ Reply(r, "placed", r)
  /\ UNCHANGED <<prior, broker, exposed>>

\* The catch deletes the claim this request inserted; a failed delete is ignored.
Release(r) ==
  LET k == KeyOf[r] IN
  /\ pc[r] = "releasing"
  /\ \/ /\ Owns(r)
        /\ audit' = [audit EXCEPT ![k] = NoRow]
     \/ UNCHANGED audit
  /\ Reply(r, "rejected", NoRequest)
  /\ UNCHANGED <<prior, broker, exposed>>

-----------------------------------------------------------------------------
(* Environment: the broker, the clock, the death of an API process.        *)

BrokerAccepts(r) ==
  /\ broker[r] = "inflight"
  /\ Dedupes => \A o \in Accepted : KeyOf[o] # KeyOf[r]
  /\ broker' = [broker EXCEPT ![r] = "accepted"]
  /\ UNCHANGED <<pc, audit, prior, answer, result, exposed>>

BrokerRefuses(r) ==
  /\ broker[r] = "inflight"
  /\ broker' = [broker EXCEPT ![r] = "refused"]
  /\ UNCHANGED <<pc, audit, prior, answer, result, exposed>>

RequestLost(r) ==
  /\ broker[r] = "inflight"
  /\ broker' = [broker EXCEPT ![r] = "lost"]
  /\ UNCHANGED <<pc, audit, prior, answer, result, exposed>>

Validating(o) == pc[o] = "validating"
Placing(o) == pc[o] \in {"sending", "awaiting"} \/ broker[o] = "inflight"

\* The claim of k grows older than PENDING_CLAIM_TTL_MS, a limit that nothing holds
\* its owner to.
Age(k) ==
  LET o == audit[k].owner IN
  /\ audit[k].status = "pending"
  /\ audit[k].fresh
  /\ Validating(o) \/ Placing(o) => o \in Slow
  /\ audit' = [audit EXCEPT ![k] = Aged(audit[k])]
  /\ exposed' = IF Validating(o) \/ Placing(o) THEN exposed \cup {o} ELSE exposed
  /\ UNCHANGED <<pc, prior, broker, answer, result>>

Crash(r) ==
  /\ pc[r] \notin {"idle", "done", "crashed"}
  /\ Goto(r, "crashed")
  /\ UNCHANGED <<audit, prior, broker, answer, result, exposed>>

-----------------------------------------------------------------------------
RecoverStalePlacement(r) ==
  RecoverOne(r) \/ RecoverNone(r) \/ RecoverAmbiguous(r) \/ RecoverFails(r)

ClaimIdempotencyKey(r) ==
  \/ Claim(r)
  \/ ReadGone(r) \/ ReadCompleted(r) \/ ReadFresh(r) \/ ReadStale(r)
  \/ ClaimQueryFails(r)
  \/ RecoverStalePlacement(r)
  \/ Adopt(r) \/ Ingest(r)
  \/ Reclaim(r) \/ Reinsert(r)

Place(r) ==
  \/ RefuseEarly(r)
  \/ Prepare(r) \/ FailValidation(r)
  \/ GatewayRefuses(r) \/ GatewayFails(r) \/ Send(r)
  \/ Acknowledged(r) \/ Refused(r) \/ TimesOut(r)
  \/ RecordPlaced(r) \/ Release(r)

Broker(r) == BrokerAccepts(r) \/ BrokerRefuses(r) \/ RequestLost(r)

Misfortune(r) == Disconnected(r) \/ ServerFails(r) \/ Resend(r) \/ Crash(r)

Next ==
  \/ \E r \in Requests :
       Arrive(r) \/ ClaimIdempotencyKey(r) \/ Place(r) \/ Broker(r) \/ Misfortune(r)
  \/ \E k \in Keys : Age(k)

Spec == Init /\ [][Next]_vars

\* A running request takes its next step: database calls return, and the
\* gateways' clients abandon a broker request after their timeout.  The broker
\* settles what it was sent and the clock moves.  A lost connection, a failing
\* server and a crash are never owed.
Fairness ==
  /\ \A r \in Requests : WF_vars(ClaimIdempotencyKey(r) \/ Place(r))
  /\ \A r \in Requests : WF_vars(Broker(r))
  /\ \A k \in Keys : WF_vars(Age(k))

FairSpec == Spec /\ Fairness

-----------------------------------------------------------------------------
(* The inductive invariant: what holds of the keys none of whose requests  *)
(* is exposed.                                                             *)

\* No request of the key is exposed.
Covered(k) == \A r \in exposed : KeyOf[r] # k

\* The owner of a stale row has nothing left to send.
Settled(o) ==
  /\ pc[o] \in {"acked", "releasing", "done", "crashed"}
  /\ broker[o] # "inflight"

RowsNameTheirKey ==
  \A k \in Keys : audit[k] # NoRow =>
    /\ audit[k].owner \in Requests
    /\ KeyOf[audit[k].owner] = k
    /\ audit[k].owner \notin audit[k].before
    /\ audit[k].status # "none"
    /\ pc[audit[k].owner] \in {"validating", "sending", "awaiting", "acked",
                              "releasing", "done", "crashed"}

ClaimHeld ==
  \A r \in Requests : Covered(KeyOf[r]) =>
    (pc[r] \in {"validating", "sending", "awaiting", "acked"} \/ Live(r) => Owns(r))

OneSend ==
  \A r \in Requests :
    /\ broker[r] # "unsent" =>
         pc[r] \in {"awaiting", "acked", "releasing", "done", "crashed"}
    /\ pc[r] = "acked" => broker[r] = "accepted"

\* A refusal, and its answer, mean that the order is not and will not be live.
RefusalsTrue ==
  \A r \in Requests :
    /\ answer[r] = "rejected" => pc[r] = "done"
    /\ Covered(KeyOf[r]) /\ (pc[r] = "releasing" \/ answer[r] = "rejected") => ~Live(r)

StaleOwnersSettled ==
  \A k \in Keys : Covered(k) =>
    (audit[k].status = "pending" /\ ~audit[k].fresh => Settled(audit[k].owner))

RecoveriesSound ==
  \A r \in Requests : pc[r] \in {"recovering", "adopting", "reclaiming"} =>
    /\ prior[r].owner \in Requests
    /\ KeyOf[prior[r].owner] = KeyOf[r]
    /\ prior[r].owner \notin prior[r].before
    /\ Covered(KeyOf[r]) =>
         /\ Settled(prior[r].owner)
         /\ pc[r] = "reclaiming" => broker[prior[r].owner] # "accepted"

\* What keeps one order per key: a claim is held, under the key of its owner,
\* from validation until its order is settled; stale claims and recoveries in
\* progress only concern settled owners.
PlacementInv ==
  /\ TypeOK
  /\ RowsNameTheirKey
  /\ ClaimHeld
  /\ OneSend /\ RefusalsTrue
  /\ StaleOwnersSettled
  /\ RecoveriesSound

-----------------------------------------------------------------------------
\* Two orders of one idempotency key reach the broker's books only if a claim of
\* the key passed its TTL under a request that was still placing, or a gateway
\* typed the failure of a live order of the key as a refusal: requests, retries,
\* crashes, failed writes and recoveries alone never do it (place: "single-flight
\* marker").
OneOrderPerKey ==
  \A o, p \in Accepted : KeyOf[o] = KeyOf[p] /\ Covered(KeyOf[o]) => o = p

\* While an order is on its way to the broker or accepted, its key stays claimed,
\* so no later request can read the key as unused; with the same two exceptions.
ClaimCoversOrder ==
  \A o \in Requests :
    Live(o) /\ Covered(KeyOf[o]) => audit[KeyOf[o]].status # "none"

\* A request answered with a definite failure has no order that is or can become
\* live: "Typed broker rejections are definitive; transport loss, timeout and a
\* broker-unavailable response are not" (placementOutcomeUncertain).
DefiniteMeansNotPlaced ==
  \A r \in Requests : answer[r] = "rejected" => ~Live(r)

\* The order a success reply names is a live order of the request's own key,
\* whether it comes from the send, from a replay or from recovery.
ReplyIsOwnOrder ==
  \A r \in Requests :
    answer[r] = "placed" =>
      result[r] \in Accepted /\ KeyOf[result[r]] = KeyOf[r]

\* A claim completed with the order its key bought is final: no later step of any
\* request deletes it or makes it answer with another order (Reclaim deletes by
\* row id alone, Adopt overwrites what it read), as long as no request of the key
\* is exposed.
CompletedClaimIsFinal ==
  [][\A k \in Keys :
        audit[k].status = "placed" /\ KeyOf[audit[k].order] = k /\ Covered(k) =>
          audit'[k].status = "placed" /\ audit'[k].order = audit[k].order]_vars

\* In the end every request that arrived is answered, unless its process died,
\* although requests for one key wait on each other's claim and on the broker.
EveryRequestAnswered ==
  <>[](\A r \in Requests : pc[r] \in {"idle", "done", "crashed"})

-----------------------------------------------------------------------------
(* What the key's order rests on when claims complete and are replayed.    *)

\* Once a claim is stale and not exposed, its owner's order is settled: what a
\* recovery adopts is that order if there is one, and some accepted order if not.
RecoveriesTrue ==
  /\ \A r \in Requests : pc[r] = "adopting" =>
       /\ result[r] \in Accepted
       /\ Covered(KeyOf[r]) /\ prior[r].owner \in Accepted => result[r] = prior[r].owner
  /\ \A k \in Keys : audit[k].status = "placed" => audit[k].order \in Accepted

NamesOwnOrder(r) == result[r] \in Accepted /\ KeyOf[result[r]] = KeyOf[r]

\* With an exact query, what a claim, a recovery or a reply names is an accepted
\* order of the key, however late the claim's owner is.
ReplyInv ==
  /\ TypeOK /\ OneSend
  /\ \A r \in Requests :
       /\ pc[r] \in {"adopting", "ingesting"} \/ answer[r] = "placed" => NamesOwnOrder(r)
       /\ answer[r] # "none" => pc[r] = "done"
  /\ \A k \in Keys : audit[k].status = "placed" =>
       audit[k].order \in Accepted /\ KeyOf[audit[k].order] = k

-----------------------------------------------------------------------------
(* The refinement: a key has bought the order the broker accepted for it,  *)
(* and a request's result counts once its reply is out.                    *)

Bought == [k \in Keys |->
  IF \E o \in Accepted : KeyOf[o] = k
    THEN CHOOSE o \in Accepted : KeyOf[o] = k
    ELSE NoRequest]

Told == [r \in Requests |-> IF answer[r] = "placed" THEN result[r] ELSE NoRequest]

Submission == INSTANCE KeyedSubmission WITH bought <- Bought, result <- Told

\* Placement implements keyed submission: one order per key, truthful success
\* replies (place and claimIdempotencyKey together).
ImplementsKeyedSubmission == Submission!Spec

=============================================================================
