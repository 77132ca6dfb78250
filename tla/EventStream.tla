----------------------------- MODULE EventStream -----------------------------
(***************************************************************************)
(* From the durable log to the consumers of one device: EventTransport     *)
(* composed with the stream gateway of every API instance                  *)
(* (market-data/stream.gateway.ts) and with the desktop client's socket    *)
(* and cursor (core/api/QuoteSocket.ts, DurableEventCursor.ts).            *)
(*                                                                         *)
(* A connection belongs to one instance.  While the gateway catches it up, *)
(* from the client's cursor or from a baseline, live events are buffered;  *)
(* then they are flushed and live fan-out begins.  The network keeps the   *)
(* order of a connection's messages and loses them all with it.  The       *)
(* device persists `cursor' at every step, so a restart loses only what is *)
(* in memory: the queue, the deferred server cursor, the connection.       *)
(***************************************************************************)
EXTENDS EventTransport

CONSTANTS
    KindOf,        \* "orderUpdate", "chartOrder" or "ivAlert", for each event
    ReplayPage,    \* rows of one replay query (1000 in the code)
    QueueLimit,    \* MAX_PENDING_DURABLE_EVENTS
    Nobody,        \* no instance
    NoCursor       \* no checkpoint stored

\* The kinds that carry a sequence on the wire; IV alerts and configurations do not.
DurableKinds == {"orderUpdate", "chartOrder"}

ASSUME StreamAssumption ==
    /\ KindOf \in [Events -> DurableKinds \cup {"ivAlert"}]
    /\ ReplayPage \in Nat \ {0}
    /\ QueueLimit \in Nat \ {0}
    /\ Nobody \notin Instances
    /\ NoCursor \notin Nat

VARIABLES
    at,          \* the instance the device is connected to, or Nobody
    phase,       \* where the gateway is with the connection
    sent,        \* state.lastSequence of the connection
    pending,     \* sequences buffered while the connection is replaying
    after,       \* the replay's place in the log
    page,        \* sequences the last replay query returned
    baseline,    \* the tail a fresh connection starts from
    net,         \* messages on their way to the device
    cursor,      \* the device's checkpoint, in memory and in storage
    queue,       \* pendingDurableEvents
    deferred,    \* deferredServerCursor
    ready,       \* what made connectionState `connected', or "no" while it is not
    listening,   \* kinds that have a consumer
    heard,       \* sequences a consumer has observed
    origin,      \* the log's length when a device without cursor connected
    opened       \* the log's length when the device last connected

serverVars == <<at, phase, sent, pending, after, page, baseline>>
deviceVars == <<cursor, queue, deferred, ready, listening, heard>>
vars == <<transportVars, serverVars, net, deviceVars, origin, opened>>

KindAt(s) == KindOf[rows[s].event]
Tail0 == Len(rows)

Phases == {"none", "replaying", "fetched", "baselining", "polling", "live"}
Message == [type : {"event", "cursor"}, sequence : Nat]

TypeOK ==
    /\ TransportTypeOK
    /\ at \in Instances \cup {Nobody}
    /\ phase \in Phases
    /\ sent \in Nat /\ after \in Nat /\ baseline \in Nat
    /\ pending \subseteq 1..Tail0
    /\ page \in Seq(1..Tail0)
    /\ net \in Seq(Message)
    /\ cursor \in 0..Tail0 \cup {NoCursor}
    /\ queue \in Seq(1..Tail0) /\ Len(queue) <= QueueLimit
    /\ deferred \in Nat \cup {NoCursor}
    /\ ready \in {"no", "handshake", "timer"}
    /\ listening \subseteq DurableKinds
    /\ heard \subseteq 1..Tail0
    /\ origin \in 0..Tail0 /\ opened \in 0..Tail0

Init ==
    /\ TransportInit
    /\ at = Nobody /\ phase = "none"
    /\ sent = 0 /\ pending = {} /\ after = 0 /\ page = << >> /\ baseline = 0
    /\ net = << >>
    /\ cursor = NoCursor
    /\ queue = << >>
    /\ deferred = NoCursor
    /\ ready = "no"
    /\ listening = {}
    /\ heard = {}
    /\ origin = 0
    /\ opened = 0

-----------------------------------------------------------------------------
(* The gateway *)

\* sendDurable on one event of a connection: c.sent is its lastSequence, c.out
\* what goes on the wire.  An IV alert moves lastSequence and sends no sequence.
SendDurable(c, s, live) ==
    IF KindAt(s) = "ivAlert" /\ live
      THEN [c EXCEPT !.sent = IF s > @ THEN s ELSE @]
    ELSE IF s <= c.sent THEN c
    ELSE [sent |-> s,
          out |-> IF KindAt(s) \in DurableKinds
                  THEN Append(c.out, [type |-> "event", sequence |-> s])
                  ELSE c.out]

\* One call after the other: the connection after the first n.
SendEach(from, sequences, live) ==
    LET c[n \in 0..Len(sequences)] ==
          IF n = 0 THEN [sent |-> from, out |-> << >>]
          ELSE SendDurable(c[n - 1], sequences[n], live)
    IN  c
SendAll(from, sequences, live) == SendEach(from, sequences, live)[Len(sequences)]

\* The sequences in S by rising rank.
Ascending(S, rank) ==
    CHOOSE q \in [1..Cardinality(S) -> S] :
       \A m, n \in 1..Cardinality(S) : m < n => rank[q[m]] < rank[q[n]]

\* Mutant: the buffer is dropped instead of flushed.
MutBuffered == << >>

Buffered == Ascending(pending, [s \in pending |-> s])

\* What is sent once a connection is caught up: the buffer in order, live, and
\* then the handshake with the connection's last sequence.
CaughtUp(c) ==
    LET flushed == SendAll(c.sent, Buffered, TRUE)
    IN  /\ sent' = flushed.sent
        /\ net' = net \o c.out \o flushed.out
                      \o << [type |-> "cursor", sequence |-> flushed.sent] >>
        /\ pending' = {}
        /\ phase' = "live"

\* replay(userId, after): the next page of rows with a greater sequence.
ReplayQuery ==
    /\ phase = "replaying"
    /\ page' = [n \in 1..(IF Tail0 - after < ReplayPage THEN Tail0 - after
                          ELSE ReplayPage) |-> after + n]
    /\ phase' = "fetched"
    /\ UNCHANGED <<transportVars, at, sent, pending, after, baseline, net, deviceVars,
                   origin, opened>>

\* The page is sent; a full one is followed by another query.
ReplaySend ==
    /\ phase = "fetched"
    /\ LET c == SendAll(sent, page, FALSE)
       IN  IF Len(page) = ReplayPage
             THEN /\ sent' = c.sent
                  /\ net' = net \o c.out
                  /\ after' = page[Len(page)]
                  /\ phase' = "replaying"
                  /\ UNCHANGED pending
             ELSE CaughtUp(c) /\ UNCHANGED after
    /\ page' = << >>
    /\ UNCHANGED <<transportVars, at, baseline, deviceVars, origin, opened>>

\* A fresh connection reads the tail and then forces its instance to poll.
BaselineRead ==
    /\ phase = "baselining"
    /\ baseline' = Tail0
    /\ phase' = "polling"
    /\ PollOnce(at)
    /\ UNCHANGED <<publishVars, last, since, batch, emitted, faults, at, sent, pending,
                   after, page, net, deviceVars, origin, opened>>

\* A fresh connection starts at the tail, but before the first buffered event.
Start ==
    LET before == {baseline} \cup {s - 1 : s \in pending}
    IN  CHOOSE n \in before : \A m \in before : n <= m

\* The forced poll is through.
BaselineSet ==
    /\ phase = "polling"
    /\ poll[at] = "idle"
    /\ CaughtUp([sent |-> Start, out |-> << >>])
    /\ UNCHANGED <<transportVars, at, after, page, baseline, deviceVars, origin, opened>>

\* The emission of a batch reaches the connection of the same instance at once:
\* buffered while it is catching up, sent otherwise.
FanOut(i) ==
    /\ Emit(i)
    /\ LET c == SendAll(sent, Ascending(Unseen(i), [s \in Unseen(i) |-> Ordinal(s)]), TRUE)
       IN  CASE at # i -> UNCHANGED <<sent, pending, net>>
             [] at = i /\ phase = "live" ->
                  /\ sent' = c.sent
                  /\ net' = net \o c.out
                  /\ UNCHANGED pending
             [] OTHER -> pending' = pending \cup Unseen(i) /\ UNCHANGED <<sent, net>>
    /\ UNCHANGED <<at, phase, after, page, baseline, deviceVars, origin, opened>>

-----------------------------------------------------------------------------
(* The device *)

\* The connection is gone: teardownConnection, and what the gateway kept of it.
Torn ==
    /\ at' = Nobody /\ phase' = "none"
    /\ sent' = 0 /\ pending' = {} /\ after' = 0 /\ page' = << >> /\ baseline' = 0
    /\ net' = << >>
    /\ queue' = << >>
    /\ deferred' = NoCursor
    /\ ready' = "no"

\* openConnection: with the stored cursor if there is one.
Connect(i) ==
    /\ at = Nobody
    /\ at' = i
    /\ opened' = Tail0
    /\ IF cursor = NoCursor
         THEN phase' = "baselining" /\ origin' = Tail0 /\ UNCHANGED <<sent, after>>
         ELSE phase' = "replaying" /\ sent' = cursor /\ after' = cursor /\ UNCHANGED origin
    /\ UNCHANGED <<transportVars, pending, page, baseline, net, deviceVars>>

\* Mutant: an event nobody listens for is passed on to its commit.
MutConsumed(d, s) == TRUE

\* The event's kind has a consumer.
Consumed(d, s) == KindAt(s) \in d.consumers

\* drainDurableEvents, one queued event: the result's `state' says whether the
\* drain goes on.  `bad' is an event whose consumer, or whose commit, fails.
DrainOne(d, s, bad) ==
    IF d.state # "going" THEN [d EXCEPT !.queue = Append(@, s)]
    ELSE IF s <= d.cursor THEN d
    ELSE IF s # d.cursor + 1 THEN [d EXCEPT !.state = "broken"]
    ELSE IF ~Consumed(d, s)
      THEN [d EXCEPT !.state = "waiting", !.queue = Append(@, s)]
    ELSE IF s = bad THEN [d EXCEPT !.state = "broken", !.heard = @ \cup {s}]
    ELSE [d EXCEPT !.cursor = s,
                   !.heard = IF KindAt(s) \in d.consumers THEN @ \cup {s} ELSE @]

\* Mutant: the server's cursor is established whatever is still queued.
MutDelivered(d) == TRUE

\* Everything queued was delivered.
Delivered(d) == d.state = "going"

\* The first n events of the queue q, from checkpoint c.
DrainEach(consumers, c, q, bad) ==
    LET d[n \in 0..Len(q)] ==
          IF n = 0 THEN [state |-> "going", cursor |-> c, queue |-> << >>, heard |-> heard,
                         consumers |-> consumers]
          ELSE DrainOne(d[n - 1], q[n], bad)
    IN  d

\* The whole queue; the server's cursor `tail' is established and the stream is
\* ready once the queue is empty.
Drain(consumers, c, q, tail, bad) ==
    LET d == DrainEach(consumers, c, q, bad)[Len(q)]
    IN  /\ heard' = d.heard
        /\ IF d.state = "broken" THEN cursor' = d.cursor /\ Torn
           ELSE /\ queue' = d.queue
                /\ IF Delivered(d) /\ tail # NoCursor
                     THEN /\ cursor' = IF d.cursor = NoCursor \/ tail > d.cursor
                                       THEN tail ELSE d.cursor
                          /\ deferred' = NoCursor
                          /\ ready' = IF ready = "no" THEN "handshake" ELSE ready
                     ELSE cursor' = d.cursor /\ deferred' = tail /\ UNCHANGED ready
                /\ UNCHANGED serverVars

\* enqueueDurable on a device without a checkpoint establishes the sequence just
\* before the event.
CursorBefore(s) == IF cursor = NoCursor THEN s - 1 ELSE cursor

\* Mutant: the backlog has no limit.
MutBacklogFull == FALSE

BacklogFull == Len(queue) >= QueueLimit

\* An event arrives.  bad = 0 when its delivery succeeds.
ReceiveEvent(bad) ==
    /\ net # << >> /\ Head(net).type = "event"
    /\ LET s == Head(net).sequence
       IN  /\ bad \in {0, s}
           /\ IF bad = s THEN Fault ELSE UNCHANGED faults
           /\ IF BacklogFull
                THEN Torn /\ UNCHANGED <<cursor, heard>>
                ELSE /\ Drain(listening, CursorBefore(s), Append(queue, s), deferred, bad)
                     /\ net' = IF at' = Nobody THEN << >> ELSE Tail(net)
    /\ UNCHANGED <<publishVars, pollVars, listening, origin, opened>>

\* The handshake arrives: deferred until the queue before it is delivered.
ReceiveCursor ==
    /\ net # << >> /\ Head(net).type = "cursor"
    /\ Drain(listening, cursor, queue,
             IF deferred = NoCursor \/ Head(net).sequence > deferred
             THEN Head(net).sequence ELSE deferred, 0)
    /\ net' = IF at' = Nobody THEN << >> ELSE Tail(net)
    /\ UNCHANGED <<transportVars, listening, origin, opened>>

\* A consumer is installed and drains what waited for it.
Listen(kind) ==
    /\ kind \in DurableKinds \ listening
    /\ listening' = listening \cup {kind}
    /\ Drain(listening', cursor, queue, deferred, 0)
    /\ net' = IF at' = Nobody THEN << >> ELSE net
    /\ UNCHANGED <<transportVars, origin, opened>>

\* scheduleLegacyReadyFallback: no handshake within LEGACY_READY_FALLBACK_MS of the
\* opening.  The server is taken for one that has none, although it may be replaying.
LegacyReady ==
    /\ at # Nobody
    /\ ready = "no"
    /\ deferred = NoCursor
    /\ ready' = "timer"
    /\ UNCHANGED <<transportVars, serverVars, net, cursor, queue, deferred, listening, heard,
                   origin, opened>>

\* The network drops the connection, or the watchdog gives it up.
Drop ==
    /\ at # Nobody
    /\ Fault
    /\ Torn
    /\ UNCHANGED <<publishVars, pollVars, cursor, listening, heard, origin, opened>>

\* The application restarts: memory goes, the stored cursor stays.
Relaunch ==
    /\ Fault
    /\ Torn
    /\ listening' = {}
    /\ UNCHANGED <<publishVars, pollVars, cursor, heard, origin, opened>>

\* An instance restarts and takes its connections with it.
RestartInstance(i) ==
    /\ Restart(i)
    /\ IF at = i THEN Torn ELSE UNCHANGED <<serverVars, net, queue, deferred, ready>>
    /\ UNCHANGED <<cursor, listening, heard, origin, opened>>

\* A poll fails; a fresh connection that waits for it is closed (1011).
FailPoll(i) ==
    /\ PollFails(i)
    /\ IF at = i /\ phase = "polling"
         THEN Torn ELSE UNCHANGED <<serverVars, net, queue, deferred, ready>>
    /\ UNCHANGED <<cursor, listening, heard, origin, opened>>

\* A connection waiting for the poll resumes before the next tick.
Poll(i) == Tick(i) /\ ~(at = i /\ phase = "polling")

Unconnected == UNCHANGED <<serverVars, net, deviceVars, origin, opened>>

Next ==
    \/ PublishStep /\ Unconnected
    \/ \E i \in Instances :
          \/ Poll(i) /\ Unconnected
          \/ Overlap(i) /\ Unconnected
          \/ Query(i) /\ Unconnected
          \/ FanOut(i)
          \/ FailPoll(i)
          \/ RestartInstance(i)
          \/ Connect(i)
    \/ ReplayQuery
    \/ ReplaySend
    \/ BaselineRead
    \/ BaselineSet
    \/ \E bad \in 0..Cardinality(Events) : ReceiveEvent(bad)
    \/ ReceiveCursor
    \/ \E kind \in DurableKinds : Listen(kind)
    \/ LegacyReady
    \/ Drop
    \/ Relaunch

Spec == Init /\ [][Next]_vars

\* Timers tick, queries return, a closed connection is reopened after its
\* backoff, the application installs its consumers; faults are bounded.
Fairness ==
    /\ \A e \in Events :
          /\ WF_vars(Allocate(e) /\ Unconnected)
          /\ WF_vars(Commit(e, TRUE) /\ Unconnected)
    /\ \A i \in Instances :
          /\ WF_vars(Poll(i) /\ Unconnected)
          /\ WF_vars(Query(i) /\ Unconnected)
          /\ WF_vars(FanOut(i))
    /\ WF_vars(\E i \in Instances : Connect(i))
    /\ WF_vars(ReplayQuery)
    /\ WF_vars(ReplaySend)
    /\ WF_vars(BaselineRead)
    /\ WF_vars(BaselineSet)
    /\ WF_vars(ReceiveEvent(0))
    /\ WF_vars(ReceiveCursor)
    /\ \A kind \in DurableKinds : WF_vars(Listen(kind))

FairSpec == Spec /\ Fairness

-----------------------------------------------------------------------------
Durable(s) == KindAt(s) \in DurableKinds

(* A stream that the server's eventCursor made ready has delivered          *)
(* everything that was committed when its connection was opened: it "proves *)
(* auth + replay catch-up" (QuoteSocket.ts:410).  What the fallback's timer *)
(* made ready proves nothing.                                               *)
ReadyMeansCaughtUp ==
    ready = "handshake" =>
      \A s \in 1..opened : origin < s /\ Durable(s) => s \in heard

(* Every order or chart event committed after a device first connected is   *)
(* observed in the end, whatever was dropped, restarted or failed before:   *)
(* "ordered, resumable, at-least-once delivery" (docs/API-SPEC.md).         *)
EveryEventArrives ==
    <>[](\A s \in 1..Tail0 : origin < s /\ Durable(s) => s \in heard)
-----------------------------------------------------------------------------
(* The promise kept: rows are the log, the device's cursor is the          *)
(* checkpoint, IV alerts are never replayed.                               *)

Promise == INSTANCE DurableDelivery WITH
    Replayed <- {e \in Events : KindOf[e] \in DurableKinds},
    length <- Len(rows),
    log <- [s \in 1..Len(rows) |-> rows[s].event],
    checkpoint <- cursor

(* The pipeline keeps the promise of DurableDelivery. *)
KeepsPromise == Promise!Spec

-----------------------------------------------------------------------------
(* Why (EventStream_proofs).                                               *)

\* Ordinals grow with sequences, and no event has two rows.
LogInOrder ==
    \A s, t \in 1..Tail0 :
       s < t => Ordinal(s) < Ordinal(t) /\ rows[s].event # rows[t].event

\* What an instance has emitted are rows its poller has passed; what it is about
\* to emit comes after them.
EmittedInOrder(i) ==
    /\ since[i] <= last[i]
    /\ \A e \in emitted[i] : \E s \in 1..Tail0 : rows[s].event = e /\ Ordinal(s) <= last[i]
    /\ \A s \in batch[i] : last[i] < Ordinal(s)

\* Events the device is still to hear.
Owed == {s \in 1..Tail0 : origin < s /\ Durable(s) /\ s \notin heard}

\* The cursor handed to the device is not behind what was committed when it
\* connected, unless the device is new and starts there.
Reaches(n) == opened <= origin \/ opened <= n

\* What the device has or will have once it has received p messages of w.
Arrived(w, p) ==
    {queue[n] : n \in 1..Len(queue)} \cup
      {w[q].sequence : q \in {q \in 1..p : w[q].type = "event"}}

\* w is a wire on which a connection has sent everything owed up to n: nothing
\* owed comes after a greater sequence.
Wire(w, n) ==
    /\ w \in Seq(Message) /\ n \in 0..Tail0
    /\ \A p \in 1..Len(w) :
          /\ w[p].sequence \in 0..Tail0 /\ (w[p].type = "event" => w[p].sequence > 0)
          /\ w[p].type = "cursor" => Reaches(w[p].sequence)
          /\ \A s \in Owed : s <= w[p].sequence => s \in Arrived(w, p)
    /\ \A s \in Owed : s <= n => s \in Arrived(w, Len(w))

\* Rows committed since the device connected are buffered, or sent, when emitted.
EmittedReached ==
    \A s \in 1..Tail0 : opened < s /\ rows[s].event \in emitted[at] =>
       IF phase = "live" THEN s <= sent ELSE s \in pending

\* The forced poll sees every row up to the baseline before it is through.
PollCovers ==
    \A s \in 1..baseline :
       \/ Ordinal(s) <= last[at]
       \/ poll[at] = "querying"
       \/ poll[at] = "fetched" /\ (AnotherRound(at) \/ s \in batch[at])

\* A connection, from its opening until it is live.
ConnectionSound ==
    /\ phase # "none" <=> at # Nobody
    /\ phase = "none" =>
          net = << >> /\ queue = << >> /\ deferred = NoCursor /\ ready = "no" /\ pending = {}
    /\ phase # "none" =>
          /\ EmittedReached
          /\ \A s \in pending : rows[s].event \in emitted[at]
          /\ \A s \in 1..Tail0 : opened < s => since[at] < Ordinal(s)
    /\ phase \in {"baselining", "polling"} =>
          cursor = NoCursor /\ net = << >> /\ opened = origin
    /\ phase = "polling" => baseline <= Tail0 /\ PollCovers
    /\ phase \in {"replaying", "fetched"} => sent = after
    /\ phase = "fetched" =>
          /\ Len(page) <= ReplayPage
          /\ \A n \in 1..Len(page) : page[n] = after + n
          /\ Len(page) < ReplayPage => opened <= after + Len(page)
    /\ phase \in {"baselining", "polling"} \/ Wire(net, sent)
    /\ phase = "live" => Reaches(sent)

\* The device's checkpoint covers what it passes; a deferred cursor waits for
\* nothing but the queue.
DeviceSound ==
    /\ cursor = NoCursor => queue = << >> /\ deferred = NoCursor
    /\ cursor # NoCursor => \A s \in Owed : s > cursor
    /\ deferred # NoCursor =>
          /\ deferred <= Tail0 /\ Reaches(deferred)
          /\ \A s \in Owed : s <= deferred => s \in {queue[n] : n \in 1..Len(queue)}
    /\ ready = "handshake" => cursor # NoCursor /\ Reaches(cursor)

StreamInv ==
    /\ TypeOK /\ TransportInv
    /\ LogInOrder
    /\ \A i \in Instances : EmittedInOrder(i)
    /\ ConnectionSound /\ DeviceSound
=============================================================================
