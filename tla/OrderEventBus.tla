---------------------------- MODULE OrderEventBus ----------------------------
(***************************************************************************)
(* The way of an order's observations to persistence: SnapTrade's webhooks *)
(* through the leased inbox (snaptrade-webhook.controller.ts,              *)
(* snaptrade-webhook-inbox.service.ts, snaptrade-webhook-processor), and   *)
(* the gateways' own observations (`emit'), through the bus of each        *)
(* process (order-events.service.ts) to its ingestors: the order record,   *)
(* the push outbox, the event log.                                         *)
(*                                                                         *)
(* One order of one user.  A webhook and an emission are identified; what  *)
(* the ingestors write is keyed by what was observed, its status.          *)
(***************************************************************************)
EXTENDS Naturals, Sequences, FiniteSets, SequencesExt

CONSTANTS
    Webhooks,        \* webhooks the provider sends, each until it gets a 2xx
    Emissions,       \* observations of gateways, fire and forget
    StatusOf,        \* the status each of them reports
    Terminal,        \* the statuses that are pushed to devices
    Instances,       \* API instances
    MaxAttempts,     \* MAX_ATTEMPTS of the inbox (8)
    IngestAttempts,  \* INGEST_ATTEMPTS of the bus (3)
    MaxFaults,       \* bound on failures, crashes, stalls, lost answers
    Nobody           \* no owner

Events == Webhooks \cup Emissions

ASSUME BusAssumption ==
    /\ Webhooks \cap Emissions = {}
    /\ DOMAIN StatusOf = Events
    /\ MaxAttempts \in Nat \ {0} /\ IngestAttempts \in Nat \ {0}
    /\ MaxFaults \in Nat
    /\ Nobody \notin Instances \cup Events

VARIABLES
    answered,   \* webhooks the provider got a 2xx for
    received,   \* the inbox's rows by age (createdAt)
    inbox,      \* the row of each webhook
    claims,     \* how often each row was claimed
    worker,     \* the drain of each instance
    queue,      \* the user's queue in each process; its head is being ingested
    ingest,     \* attempt and next ingestor of the head, for each process
    emissions,  \* observations still to be made
    recorded,   \* statuses in the order record
    pushed,     \* statuses with rows in the push outbox
    log,        \* statuses in the event log, in order
    fanned,     \* events handed to the bus's subscribers
    faults

inboxVars == <<answered, received, inbox, claims>>
busVars == <<queue, ingest, emissions, recorded, pushed, log, fanned>>
vars == <<inboxVars, worker, busVars, faults>>

Statuses == {StatusOf[e] : e \in Events}
RowStatus == {"none", "pending", "retry", "leased", "processed", "dead"}
Idle == [pc |-> "idle", row |-> Nobody, attempts |-> 0]
Fresh == [attempt |-> 1, step |-> 1]

Row == [status : RowStatus, attempts : Nat, due : BOOLEAN,
        owner : Instances \cup {Nobody}, lapsed : BOOLEAN]

Drain == {d \in [pc : {"idle", "found", "dispatching", "done", "failed"},
                 row : Webhooks \cup {Nobody}, attempts : Nat] :
             d.pc # "idle" => d.row # Nobody}

Turn == [attempt : 1..IngestAttempts, step : 1..3]

TypeOK ==
    /\ answered \subseteq Webhooks
    /\ received \in Seq(Webhooks)
    /\ inbox \in [Webhooks -> Row] /\ claims \in [Webhooks -> Nat]
    /\ worker \in [Instances -> Drain]
    /\ queue \in [Instances -> Seq(Events)] /\ ingest \in [Instances -> Turn]
    /\ emissions \subseteq Emissions
    /\ recorded \subseteq Statuses /\ pushed \subseteq Statuses \cap Terminal
    /\ log \in Seq(Statuses) /\ IsInjective(log)
    /\ fanned \subseteq Events
    /\ faults \in 0..MaxFaults

Init ==
    /\ answered = {}
    /\ received = << >>
    /\ inbox = [w \in Webhooks |-> [status |-> "none", attempts |-> 0, due |-> TRUE,
                                    owner |-> Nobody, lapsed |-> FALSE]]
    /\ claims = [w \in Webhooks |-> 0]
    /\ worker = [i \in Instances |-> Idle]
    /\ queue = [i \in Instances |-> << >>]
    /\ ingest = [i \in Instances |-> Fresh]
    /\ emissions = Emissions
    /\ recorded = {} /\ pushed = {} /\ log = << >> /\ fanned = {}
    /\ faults = 0

Fault == faults < MaxFaults /\ faults' = faults + 1

-----------------------------------------------------------------------------
(* The webhook's receipt *)

\* The controller: a known id is acknowledged, a new one inserted first.  The
\* answer may be lost, or the insert fail with a 5xx; the provider sends again.
Receive(w, stored, told) ==
    /\ w \notin answered
    /\ IF stored /\ told THEN UNCHANGED faults ELSE Fault
    /\ IF stored /\ inbox[w].status = "none"
         THEN /\ inbox' = [inbox EXCEPT ![w].status = "pending"]
              /\ received' = Append(received, w)
         ELSE UNCHANGED <<inbox, received>>
    /\ answered' = IF stored /\ told THEN answered \cup {w} ELSE answered
    /\ UNCHANGED <<claims, worker, busVars>>

-----------------------------------------------------------------------------
(* The inbox's workers *)

\* Mutant: a row whose worker died is never due again.
MutDue(w) == inbox[w].status \in {"pending", "retry"} /\ inbox[w].due

\* dueWhere.
Due(w) ==
    \/ inbox[w].status \in {"pending", "retry"} /\ inbox[w].due
    \/ inbox[w].status = "leased" /\ inbox[w].lapsed

\* processDue: the oldest due row, as it is read.
Find(i) ==
    /\ worker[i].pc = "idle"
    /\ \E n \in 1..Len(received) :
          /\ Due(received[n])
          /\ \A m \in 1..(n - 1) : ~Due(received[m])
          /\ worker' = [worker EXCEPT ![i] =
                [pc |-> "found", row |-> received[n],
                 attempts |-> inbox[received[n]].attempts + 1]]
    /\ UNCHANGED <<inboxVars, busVars, faults>>

\* The claim by compare-and-set; the processor then ingests the webhook's order.
Claim(i) ==
    LET w == worker[i].row IN
    /\ worker[i].pc = "found"
    /\ IF Due(w)
         THEN /\ inbox' = [inbox EXCEPT ![w] =
                    [status |-> "leased", attempts |-> worker[i].attempts, due |-> FALSE,
                     owner |-> i, lapsed |-> FALSE]]
              /\ claims' = [claims EXCEPT ![w] = @ + 1]
              /\ worker' = [worker EXCEPT ![i].pc = "dispatching"]
              /\ queue' = [queue EXCEPT ![i] = Append(@, w)]
         ELSE /\ worker' = [worker EXCEPT ![i] = Idle]
              /\ UNCHANGED <<inbox, claims, queue>>
    /\ UNCHANGED <<answered, received, ingest, emissions, recorded, pushed, log, fanned,
                   faults>>

\* Mutant: the outcome is written whoever holds the row.
MutHolds(i, w) == TRUE

\* The where clause of both outcomes' updates.
Holds(i, w) == inbox[w].status = "leased" /\ inbox[w].owner = i

Settled(i, w, status) ==
    inbox' = IF Holds(i, w)
             THEN [inbox EXCEPT ![w].status = status, ![w].owner = Nobody,
                                ![w].lapsed = FALSE]
             ELSE inbox

\* Dispatch succeeded: `processed'.
Complete(i) ==
    /\ worker[i].pc = "done"
    /\ Settled(i, worker[i].row, "processed")
    /\ worker' = [worker EXCEPT ![i] = Idle]
    /\ UNCHANGED <<answered, received, claims, busVars, faults>>

\* Writing `processed' fails: the same catch as a failed dispatch.
CompleteFails(i) ==
    /\ worker[i].pc = "done"
    /\ Fault
    /\ worker' = [worker EXCEPT ![i].pc = "failed"]
    /\ UNCHANGED <<inboxVars, busVars>>

Spent(attempts) == attempts >= MaxAttempts

\* Dispatch failed: `retry' after a backoff, or `dead'.
GiveUpOrRetry(i) ==
    /\ worker[i].pc = "failed"
    /\ Settled(i, worker[i].row, IF Spent(worker[i].attempts) THEN "dead" ELSE "retry")
    /\ worker' = [worker EXCEPT ![i] = Idle]
    /\ UNCHANGED <<answered, received, claims, busVars, faults>>

\* That write fails too: the drain ends, the row stays leased until it lapses.
OutcomeLost(i) ==
    /\ worker[i].pc = "failed"
    /\ Fault
    /\ worker' = [worker EXCEPT ![i] = Idle]
    /\ UNCHANGED <<inboxVars, busVars>>

BackoffOver(w) ==
    /\ inbox[w].status = "retry" /\ ~inbox[w].due
    /\ inbox' = [inbox EXCEPT ![w].due = TRUE]
    /\ UNCHANGED <<answered, received, claims, worker, busVars, faults>>

\* Some worker is at work on the row and its heartbeat renews the lease; writing
\* the outcome takes no time beside a lease.
Renewed(w) ==
    \E i \in Instances :
       /\ worker[i].pc \in {"dispatching", "done", "failed"}
       /\ worker[i].row = w
       /\ inbox[w].owner = i

\* A lease lapses once nobody renews it, or under a worker that stalls.
Lapse(w) ==
    /\ inbox[w].status = "leased" /\ ~inbox[w].lapsed
    /\ IF Renewed(w) THEN Fault ELSE UNCHANGED faults
    /\ inbox' = [inbox EXCEPT ![w].lapsed = TRUE]
    /\ UNCHANGED <<answered, received, claims, worker, busVars>>

\* The heartbeat of a worker that went on renews the row if it still holds it.
Renew(i) ==
    LET w == worker[i].row IN
    /\ worker[i].pc = "dispatching"
    /\ Holds(i, w) /\ inbox[w].lapsed
    /\ inbox' = [inbox EXCEPT ![w].lapsed = FALSE]
    /\ UNCHANGED <<answered, received, claims, worker, busVars, faults>>

-----------------------------------------------------------------------------
(* The bus *)

\* A gateway's placement, cancel or poll reports an observation.
Emit(i, e) ==
    /\ e \in emissions
    /\ emissions' = emissions \ {e}
    /\ queue' = [queue EXCEPT ![i] = Append(@, e)]
    /\ UNCHANGED <<inboxVars, worker, ingest, recorded, pushed, log, fanned, faults>>

\* The head leaves the queue; a webhook's worker learns how it went.
Resolve(i, outcome) ==
    /\ queue' = [queue EXCEPT ![i] = Tail(@)]
    /\ ingest' = [ingest EXCEPT ![i] = Fresh]
    /\ worker' = IF Head(queue[i]) = worker[i].row
                 THEN [worker EXCEPT ![i].pc = outcome] ELSE worker

\* The ingestors by priority: OrdersService 100, OrderNotificationsService 50, the bridge.
Ingestors == <<"record", "push", "log">>

LastStep == Len(Ingestors)

\* Mutant: the event is logged again at each attempt.
MutLogged(s) == FALSE

\* The log has a row under the observation's key.
Logged(s) == Contains(log, s)

\* The next ingestor succeeds, each idempotent by what was observed; after the
\* last one the event is fanned out.
Ingest(i) ==
    /\ queue[i] # << >>
    /\ LET e == Head(queue[i])
           s == StatusOf[e]
           ingestor == Ingestors[ingest[i].step]
       IN  /\ recorded' = IF ingestor = "record" THEN recorded \cup {s} ELSE recorded
           /\ pushed' = IF ingestor = "push" /\ s \in Terminal
                        THEN pushed \cup {s} ELSE pushed
           /\ log' = IF ingestor = "log" /\ ~Logged(s) THEN Append(log, s) ELSE log
           /\ IF ingest[i].step = LastStep
                THEN fanned' = fanned \cup {e} /\ Resolve(i, "done")
                ELSE /\ ingest' = [ingest EXCEPT ![i].step = @ + 1]
                     /\ UNCHANGED <<fanned, queue, worker>>
    /\ UNCHANGED <<inboxVars, emissions, faults>>

\* Mutant: an exhausted event is reported as ingested.
MutExhausted == "done"

Exhausted == "failed"

\* An ingestor throws: the whole chain again, or the event is given up.
IngestFails(i) ==
    /\ queue[i] # << >>
    /\ Fault
    /\ IF ingest[i].attempt < IngestAttempts
         THEN /\ ingest' = [ingest EXCEPT ![i] = [attempt |-> @.attempt + 1, step |-> 1]]
              /\ UNCHANGED <<queue, worker>>
         ELSE Resolve(i, Exhausted)
    /\ UNCHANGED <<inboxVars, emissions, recorded, pushed, log, fanned>>

\* The process dies with its queue; its next incarnation has another owner id.
Crash(i) ==
    /\ Fault
    /\ worker' = [worker EXCEPT ![i] = Idle]
    /\ queue' = [queue EXCEPT ![i] = << >>]
    /\ ingest' = [ingest EXCEPT ![i] = Fresh]
    /\ inbox' = [w \in Webhooks |->
                    IF inbox[w].owner = i THEN [inbox[w] EXCEPT !.owner = Nobody]
                    ELSE inbox[w]]
    /\ UNCHANGED <<answered, received, claims, emissions, recorded, pushed, log, fanned>>

Next ==
    \/ \E w \in Webhooks :
          \/ \E stored, told \in BOOLEAN : Receive(w, stored, told)
          \/ BackoffOver(w)
          \/ Lapse(w)
    \/ \E i \in Instances :
          \/ Find(i)
          \/ Claim(i)
          \/ Complete(i)
          \/ CompleteFails(i)
          \/ GiveUpOrRetry(i)
          \/ OutcomeLost(i)
          \/ Renew(i)
          \/ \E e \in Emissions : Emit(i, e)
          \/ Ingest(i)
          \/ IngestFails(i)
          \/ Crash(i)

Spec == Init /\ [][Next]_vars

\* The provider retries, the workers poll, time passes, ingestion goes on.
Fairness ==
    /\ \A w \in Webhooks :
          /\ WF_vars(Receive(w, TRUE, TRUE))
          /\ WF_vars(BackoffOver(w))
          /\ WF_vars(Lapse(w) /\ ~Renewed(w))
    /\ \A i \in Instances :
          /\ WF_vars(Find(i))
          /\ WF_vars(Claim(i))
          /\ WF_vars(Complete(i))
          /\ WF_vars(GiveUpOrRetry(i))
          /\ WF_vars(Ingest(i))

FairSpec == Spec /\ Fairness

-----------------------------------------------------------------------------
Persisted(s) ==
    s \in recorded /\ Contains(log, s) /\ (s \in Terminal => s \in pushed)

(* What a webhook marked processed observed, and what the bus's subscribers *)
(* were told, is in the order record, the push outbox and the event log,    *)
(* whatever failed, was retried or overtaken, and whoever finished it.      *)
ProcessedIsPersisted ==
    /\ \A w \in Webhooks : inbox[w].status = "processed" => Persisted(StatusOf[w])
    /\ \A e \in fanned : Persisted(StatusOf[e])

(* A finished row stays finished: a worker whose lease lapsed and that ends *)
(* late, either way, changes nothing of what the next holder has done.      *)
FinishedIsFinal ==
    [][\A w \in Webhooks :
          inbox[w].status \in {"processed", "dead"} => inbox'[w].status = inbox[w].status]_vars

(* Every webhook reaches an end, whatever dies: it is processed, or dead    *)
(* after it was claimed as often as allowed.                                *)
EveryWebhookSettles ==
    \A w \in Webhooks :
       <>(inbox[w].status = "processed"
            \/ (inbox[w].status = "dead" /\ claims[w] >= MaxAttempts))

(* No observation is given up before its time: a row is dead only after it   *)
(* was claimed as often as allowed, whoever made those claims.                *)
DeadIsSpent ==
    \A w \in Webhooks : inbox[w].status = "dead" => claims[w] >= MaxAttempts

-----------------------------------------------------------------------------
(* Why these hold (OrderEventBus_proofs).                                    *)

\* The ingestors the head has passed have written what it observed.
HeadPersisted(i) ==
    LET s == StatusOf[Head(queue[i])] IN
    /\ ingest[i].step > 1 => queue[i] # << >> /\ s \in recorded
    /\ ingest[i].step > 2 /\ s \in Terminal => s \in pushed

\* A process holds one webhook at a time, that of its worker.
OneDispatched(i) ==
    \A m \in 1..Len(queue[i]) :
       queue[i][m] \in Webhooks =>
          /\ worker[i].pc = "dispatching" /\ worker[i].row = queue[i][m]
          /\ \A n \in 1..Len(queue[i]) : queue[i][n] = queue[i][m] => n = m

\* A worker counts the claims of its row, the one it is about to make included.
AttemptsCounted(i) ==
    LET w == worker[i].row IN
    worker[i].pc # "idle" =>
       worker[i].attempts <= claims[w] + (IF worker[i].pc = "found" THEN 1 ELSE 0)

DonePersisted(i) == worker[i].pc = "done" => Persisted(StatusOf[worker[i].row])

BusInv ==
    /\ TypeOK
    /\ \A i \in Instances :
          /\ HeadPersisted(i) /\ OneDispatched(i) /\ AttemptsCounted(i)
          /\ DonePersisted(i)
    /\ \A w \in Webhooks : inbox[w].attempts <= claims[w]
    /\ ProcessedIsPersisted /\ DeadIsSpent

=============================================================================
