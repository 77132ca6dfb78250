---------------------------- MODULE PushDelivery ----------------------------
(***************************************************************************)
(* The per-device push outbox,                                             *)
(* apps/api/src/notifications/order-notifications.service.ts, and the      *)
(* device registry it depends on, devices.service.ts.                      *)
(*                                                                         *)
(* An alert of one user becomes one row per device.  Workers of every      *)
(* instance claim due rows with a lease and send each inside a transaction *)
(* that holds the token's advisory lock; registering a token, which may    *)
(* move it to another user, and removing it take the same lock.  What a    *)
(* transaction wrote is visible when it commits: a row under delivery is   *)
(* row-locked, and the transaction may be lost after APNs took the alert.  *)
(***************************************************************************)
EXTENDS Naturals, Sequences, FiniteSets, SequencesExt

CONSTANTS
    Users, Tokens,
    Alerts,       \* terminal outcomes, each under its deduplication key
    UserOf,       \* the user of each alert
    Instances,
    MaxDevices,   \* MAX_DEVICES_PER_USER
    MaxAttempts,  \* MAX_ATTEMPTS
    MaxMoves,     \* bound on registrations and removals
    MaxFaults,    \* bound on faults
    LongSends,    \* a send may outlast its transaction
    Nobody        \* no user, no instance, no lock holder

ASSUME PushAssumption ==
    /\ UserOf \in [Alerts -> Users]
    /\ MaxDevices \in Nat \ {0} /\ MaxAttempts \in Nat \ {0}
    /\ MaxMoves \in Nat /\ MaxFaults \in Nat
    /\ LongSends \in BOOLEAN
    /\ IsFiniteSet(Tokens) /\ Alerts \cap Instances = {}
    /\ Nobody \notin Users \cup Instances \cup Alerts \cup (Alerts \X Tokens)

Deliveries == Alerts \X Tokens
UserFor(d) == UserOf[d[1]]
TokenOf(d) == d[2]

VARIABLES
    owner,     \* deviceToken: the user each token is registered to
    lock,      \* the token's advisory lock: an instance, an alert or Nobody
    row,       \* pushDelivery
    outbox,    \* rows by createdAt
    listed,    \* devices an enqueue has still to go through, per alert
    enqueue,   \* "new", "listed", "done" for each alert
    worker,    \* what each instance's drain is at
    accepted,  \* how often APNs took a delivery
    excused,   \* how often an acceptance went unnoticed
    strayed,   \* deliveries whose token has left their user since enqueued
    moved,     \* ... and has belonged to another one
    moves, faults

registry == <<owner, strayed, moved, moves>>
vars == <<owner, lock, row, outbox, listed, enqueue, worker, accepted, excused,
          strayed, moved, moves, faults>>

Status == {"none", "pending", "retry", "leased", "delivered", "dead"}
Live == {"pending", "retry", "leased"}
NoRow == [status |-> "none", attempts |-> 0, due |-> FALSE, holder |-> Nobody,
          lapsed |-> FALSE]
Idle == [pc |-> "idle", row |-> Nobody, attempts |-> 0, answer |-> "none"]
Answers == {"ok", "unanswered", "refused", "gone"}
Pcs == {"idle", "found", "claimed", "sending", "answered", "orphan"}

Row == [status : Status, attempts : Nat, due : BOOLEAN,
        holder : Instances \cup {Nobody}, lapsed : BOOLEAN]

Drain == {d \in [pc : Pcs, row : Deliveries \cup {Nobody}, attempts : Nat,
                 answer : Answers \cup {"none"}] :
             d.pc # "idle" => d.row # Nobody}

DevicesOf(u) == {t \in Tokens : owner[t] = u}

TypeOK ==
    /\ owner \in [Tokens -> Users \cup {Nobody}]
    /\ lock \in [Tokens -> Instances \cup Alerts \cup {Nobody}]
    /\ row \in [Deliveries -> Row]
    /\ outbox \in Seq(Deliveries) /\ IsInjective(outbox)
    /\ listed \in [Alerts -> SUBSET Tokens]
    /\ enqueue \in [Alerts -> {"new", "listed", "done"}]
    /\ worker \in [Instances -> Drain]
    /\ accepted \in [Deliveries -> Nat] /\ excused \in [Deliveries -> Nat]
    /\ strayed \subseteq Deliveries /\ moved \subseteq Deliveries
    /\ moves \in 0..MaxMoves /\ faults \in 0..MaxFaults
    /\ \A u \in Users : Cardinality(DevicesOf(u)) <= MaxDevices

Init ==
    /\ owner \in [Tokens -> Users \cup {Nobody}]
    /\ \A u \in Users : Cardinality(DevicesOf(u)) <= MaxDevices
    /\ lock = [t \in Tokens |-> Nobody]
    /\ row = [d \in Deliveries |-> NoRow]
    /\ outbox = << >>
    /\ listed = [a \in Alerts |-> {}]
    /\ enqueue = [a \in Alerts |-> "new"]
    /\ worker = [i \in Instances |-> Idle]
    /\ accepted = [d \in Deliveries |-> 0]
    /\ excused = [d \in Deliveries |-> 0]
    /\ strayed = {} /\ moved = {}
    /\ moves = 0 /\ faults = 0

Fault == faults < MaxFaults /\ faults' = faults + 1
Rest(i) == worker' = [worker EXCEPT ![i] = Idle]
Unlocked(t) == lock[t] = Nobody
Freed(t) == lock' = [lock EXCEPT ![t] = Nobody]

\* The row is being written by a delivery that has not committed.
RowLocked(d) ==
    \E i \in Instances :
       worker[i].pc \in {"sending", "answered"} /\ worker[i].row = d

-----------------------------------------------------------------------------
(* The registry *)

\* Rows in r still to be sent are given up.
Buried(r) ==
    row' = [d \in Deliveries |->
               IF d \in r /\ row[d].status \in Live
               THEN [row[d] EXCEPT !.status = "dead", !.holder = Nobody, !.lapsed = FALSE]
               ELSE row[d]]

\* Mutant: a row of the token's former owner is left to the check at send time.
MutSuperseded(u, t) == {}

\* Rows of the token that belong to somebody else.
Superseded(u, t) == {d \in Deliveries : TokenOf(d) = t /\ UserFor(d) # u}

\* Mutant: the cleanup gives up the user's rows of every device.
MutRemoved(u, overflow) == {d \in Deliveries : UserFor(d) = u}

\* Rows of the devices a user's registration pushes over the limit.
Removed(u, overflow) == {d \in Deliveries : UserFor(d) = u /\ TokenOf(d) \in overflow}

\* Mutant: the registered device itself is not counted.
MutOthersKept == MaxDevices

\* How many devices besides the registered one a user keeps.
OthersKept == MaxDevices - 1

Enqueued(d) == row[d].status # "none"

\* Rows whose token leaves their user when the owners become owner2.
Strays(owner2) ==
    {d \in Deliveries : /\ Enqueued(d)
                        /\ owner[TokenOf(d)] = UserFor(d)
                        /\ owner2[TokenOf(d)] # UserFor(d)}

Move(owner2) ==
    /\ moves < MaxMoves /\ moves' = moves + 1
    /\ owner' = owner2
    /\ strayed' = strayed \cup Strays(owner2)
    /\ moved' = moved \cup {d \in Deliveries :
                               Enqueued(d) /\ owner2[TokenOf(d)] \notin {UserFor(d), Nobody}}

\* register: the token moves to the user, and the user's oldest devices over the
\* limit are removed.  The cleanup waits for rows under delivery, not for the
\* removed tokens' locks; which devices are the oldest is left open.
Register(u, t, overflow) ==
    /\ Unlocked(t)
    /\ LET others == {x \in Tokens \ {t} : owner[x] = u}
       IN  /\ overflow \subseteq others
           /\ Cardinality(others \ overflow) <= OthersKept
           /\ overflow # {} => Cardinality(others \ overflow) = OthersKept
           /\ \A d \in Removed(u, overflow) : ~RowLocked(d)
           /\ Buried(Superseded(u, t) \cup Removed(u, overflow))
           /\ Move([x \in Tokens |-> IF x = t THEN u
                                     ELSE IF x \in overflow THEN Nobody ELSE owner[x]])
    /\ UNCHANGED <<lock, outbox, listed, enqueue, worker, accepted, excused, faults>>

\* unregister and prune.
Unregister(t) ==
    /\ Unlocked(t) /\ owner[t] # Nobody
    /\ Buried({d \in Deliveries : TokenOf(d) = t})
    /\ Move([owner EXCEPT ![t] = Nobody])
    /\ UNCHANGED <<lock, outbox, listed, enqueue, worker, accepted, excused, faults>>

-----------------------------------------------------------------------------
(* Enqueueing *)

\* listForUser, on the observation of an outcome.
List(a) ==
    /\ enqueue[a] = "new"
    /\ enqueue' = [enqueue EXCEPT ![a] = "listed"]
    /\ listed' = [listed EXCEPT ![a] = DevicesOf(UserOf[a])]
    /\ UNCHANGED <<registry, lock, row, outbox, worker, accepted, excused, faults>>

\* One device's transaction: the ownership and the key are checked under the lock.
\* The cleanup of a registration does not wait for it.
CheckDevice(a, t) ==
    /\ t \in listed[a] /\ Unlocked(t)
    /\ IF owner[t] = UserOf[a] /\ ~Enqueued(<<a, t>>)
         THEN lock' = [lock EXCEPT ![t] = a] /\ UNCHANGED listed
         ELSE listed' = [listed EXCEPT ![a] = @ \ {t}] /\ UNCHANGED lock
    /\ UNCHANGED <<registry, row, outbox, enqueue, worker, accepted, excused, faults>>

Insert(a, t) ==
    /\ lock[t] = a
    /\ Freed(t)
    /\ row' = [row EXCEPT ![<<a, t>>] = [NoRow EXCEPT !.status = "pending", !.due = TRUE]]
    /\ outbox' = Append(outbox, <<a, t>>)
    /\ listed' = [listed EXCEPT ![a] = @ \ {t}]
    /\ strayed' = IF owner[t] # UserOf[a] THEN strayed \cup {<<a, t>>} ELSE strayed
    /\ UNCHANGED <<owner, moved, moves, enqueue, worker, accepted, excused, faults>>

Enqueue(a) ==
    /\ enqueue[a] = "listed" /\ listed[a] = {}
    /\ enqueue' = [enqueue EXCEPT ![a] = "done"]
    /\ UNCHANGED <<registry, lock, row, outbox, listed, worker, accepted, excused, faults>>

\* The enqueue dies half way, or the outcome is observed once more.
Again(a) ==
    /\ enqueue[a] # "new"
    /\ Fault
    /\ enqueue' = [enqueue EXCEPT ![a] = "new"]
    /\ listed' = [listed EXCEPT ![a] = {}]
    /\ lock' = [t \in Tokens |-> IF lock[t] = a THEN Nobody ELSE lock[t]]
    /\ UNCHANGED <<registry, row, outbox, worker, accepted, excused>>

-----------------------------------------------------------------------------
(* The workers *)

\* Mutant: a row whose worker died is never due again.
MutDue(d) == row[d].status \in {"pending", "retry"} /\ row[d].due

\* dueWhere.
Due(d) ==
    \/ row[d].status \in {"pending", "retry"} /\ row[d].due
    \/ row[d].status = "leased" /\ row[d].lapsed

\* processDue: the oldest due row, as it is read.
Find(i) ==
    /\ worker[i].pc = "idle"
    /\ \E n \in 1..Len(outbox) :
          /\ Due(outbox[n])
          /\ \A m \in 1..(n - 1) : ~Due(outbox[m])
          /\ worker' = [worker EXCEPT ![i] =
                [pc |-> "found", row |-> outbox[n], answer |-> "none",
                 attempts |-> row[outbox[n]].attempts + 1]]
    /\ UNCHANGED <<registry, lock, row, outbox, listed, enqueue, accepted, excused, faults>>

\* The claim by compare-and-set; it waits for a delivery of the row to commit.
Claim(i) ==
    LET d == worker[i].row IN
    /\ worker[i].pc = "found" /\ ~RowLocked(d)
    /\ IF Due(d)
         THEN /\ row' = [row EXCEPT ![d] =
                    [status |-> "leased", attempts |-> worker[i].attempts, due |-> FALSE,
                     holder |-> i, lapsed |-> FALSE]]
              /\ worker' = [worker EXCEPT ![i].pc = "claimed"]
         ELSE Rest(i) /\ UNCHANGED row
    /\ UNCHANGED <<registry, lock, outbox, listed, enqueue, accepted, excused, faults>>

\* Mutant: the claim is not verified again under the token's lock.
MutHolds(i, d) == TRUE

\* `owned': the row is still leased to this instance.
Holds(i, d) == row[d].status = "leased" /\ row[d].holder = i

Outcome(d, status) ==
    row' = [row EXCEPT ![d] = [status |-> status, attempts |-> @.attempts, due |-> FALSE,
                               holder |-> Nobody, lapsed |-> FALSE]]

\* deliver, up to the request: the token's lock, the claim, the token's owner.
Authorize(i) ==
    LET d == worker[i].row IN
    /\ worker[i].pc = "claimed" /\ Unlocked(TokenOf(d))
    /\ CASE ~Holds(i, d) -> Rest(i) /\ UNCHANGED <<lock, row>>
         [] Holds(i, d) /\ owner[TokenOf(d)] # UserFor(d) ->
              Outcome(d, "dead") /\ Rest(i) /\ UNCHANGED lock
         [] OTHER ->
              /\ lock' = [lock EXCEPT ![TokenOf(d)] = i]
              /\ worker' = [worker EXCEPT ![i].pc = "sending"]
              /\ UNCHANGED row
    /\ UNCHANGED <<registry, outbox, listed, enqueue, accepted, excused, faults>>

\* The request reaches APNs, or not; a send without its transaction ends in an
\* error whatever the answer is.
Send(i, answer) ==
    LET d == worker[i].row
        took == answer \in {"ok", "unanswered"}
        noticed == answer = "ok" /\ worker[i].pc = "sending"
    IN
    /\ worker[i].pc \in {"sending", "orphan"}
    /\ IF answer = "ok" THEN UNCHANGED faults ELSE Fault
    /\ accepted' = [accepted EXCEPT ![d] = IF took THEN @ + 1 ELSE @]
    /\ excused' = [excused EXCEPT ![d] = IF took /\ ~noticed THEN @ + 1 ELSE @]
    /\ IF worker[i].pc = "sending"
         THEN worker' = [worker EXCEPT ![i] = [@ EXCEPT !.pc = "answered", !.answer = answer]]
         ELSE Rest(i)
    /\ UNCHANGED <<registry, lock, row, outbox, listed, enqueue>>

\* The outcome is written and the transaction commits; a token APNs reports gone
\* is removed with it.
Commit(i) ==
    LET d == worker[i].row IN
    /\ worker[i].pc = "answered"
    /\ Outcome(d, CASE worker[i].answer = "ok" -> "delivered"
                    [] worker[i].answer = "gone" -> "dead"
                    [] OTHER -> IF worker[i].attempts >= MaxAttempts THEN "dead" ELSE "retry")
    /\ IF worker[i].answer = "gone"
         THEN LET owner2 == [owner EXCEPT ![TokenOf(d)] = Nobody]
              IN  /\ owner' = owner2
                  /\ strayed' = strayed \cup Strays(owner2)
         ELSE UNCHANGED <<owner, strayed>>
    /\ Freed(TokenOf(d)) /\ Rest(i)
    /\ UNCHANGED <<outbox, listed, enqueue, accepted, excused, moved, moves, faults>>

\* The transaction expires, the database fails or the process dies: its writes
\* and its lock are gone, the lease stays until it lapses.  The request of a live
\* process may still be on its way.
Lose(i, crash) ==
    LET d == worker[i].row IN
    /\ worker[i].pc # "idle"
    /\ Fault
    /\ excused' = IF worker[i].pc = "answered" /\ worker[i].answer = "ok"
                  THEN [excused EXCEPT ![d] = @ + 1] ELSE excused
    /\ lock' = [t \in Tokens |-> IF lock[t] = i THEN Nobody ELSE lock[t]]
    /\ IF worker[i].pc = "sending" /\ LongSends /\ ~crash
         THEN worker' = [worker EXCEPT ![i].pc = "orphan"] ELSE Rest(i)
    /\ row' = IF crash THEN [x \in Deliveries |->
                                IF row[x].holder = i THEN [row[x] EXCEPT !.holder = Nobody]
                                ELSE row[x]]
              ELSE row
    /\ UNCHANGED <<registry, outbox, listed, enqueue, accepted>>

BackoffOver(d) ==
    /\ row[d].status = "retry" /\ ~row[d].due
    /\ row' = [row EXCEPT ![d].due = TRUE]
    /\ UNCHANGED <<registry, lock, outbox, listed, enqueue, worker, accepted, excused, faults>>

Held(d) ==
    \E i \in Instances :
       /\ worker[i].pc \in {"claimed", "sending", "answered"}
       /\ worker[i].row = d /\ row[d].holder = i

\* The lease runs out, under its holder only when it is held up.
Lapse(d) ==
    /\ row[d].status = "leased" /\ ~row[d].lapsed
    /\ IF Held(d) THEN Fault ELSE UNCHANGED faults
    /\ row' = [row EXCEPT ![d].lapsed = TRUE]
    /\ UNCHANGED <<registry, lock, outbox, listed, enqueue, worker, accepted, excused>>

Next ==
    \/ \E t \in Tokens :
          \/ \E u \in Users, overflow \in SUBSET Tokens : Register(u, t, overflow)
          \/ Unregister(t)
    \/ \E a \in Alerts :
          \/ List(a)
          \/ \E t \in Tokens : CheckDevice(a, t) \/ Insert(a, t)
          \/ Enqueue(a)
          \/ Again(a)
    \/ \E i \in Instances :
          \/ Find(i)
          \/ Claim(i)
          \/ Authorize(i)
          \/ \E answer \in Answers : Send(i, answer)
          \/ Commit(i)
          \/ \E crash \in BOOLEAN : Lose(i, crash)
    \/ \E d \in Deliveries :
          \/ BackoffOver(d)
          \/ Lapse(d)

Spec == Init /\ [][Next]_vars

\* The ingestor runs, the workers' timers tick, requests are answered, time passes.
Fairness ==
    /\ \A a \in Alerts :
          /\ WF_vars(List(a))
          /\ \A t \in Tokens : WF_vars(Insert(a, t)) /\ WF_vars(CheckDevice(a, t))
          /\ WF_vars(Enqueue(a))
    /\ \A i \in Instances :
          /\ WF_vars(Find(i))
          /\ WF_vars(Claim(i))
          /\ WF_vars(Authorize(i))
          /\ WF_vars(Send(i, "ok"))
          /\ WF_vars(Commit(i))
    /\ \A d \in Deliveries :
          /\ WF_vars(BackoffOver(d))
          /\ WF_vars(Lapse(d) /\ ~Held(d))

FairSpec == Spec /\ Fairness

-----------------------------------------------------------------------------
(* An alert is taken by APNs only for a device that belongs to its user and *)
(* has belonged to nobody else since the row was written: "ownership cannot *)
(* change between authorization and disclosure", nor change twice before it.*)
OnlyToItsOwner ==
    [][\A d \in Deliveries :
          accepted'[d] > accepted[d] => owner[TokenOf(d)] = UserFor(d) /\ d \notin moved]_vars

(* A device is alerted again only when an acceptance went unnoticed: the    *)
(* answer or the transaction was lost.  Racing workers, lapsed leases and   *)
(* repeated observations never repeat an alert.                             *)
RepeatsAreExcused == \A d \in Deliveries : accepted[d] <= 1 + excused[d]

(* A delivery is given up only with its attempts spent or because its token *)
(* has left the user; another device's removal never takes it along.        *)
DeadIsDeserved ==
    \A d \in Deliveries :
       row[d].status = "dead" =>
          d \in strayed \/ row[d].attempts >= MaxAttempts

(* Every row reaches an end, also when its workers die or lose their leases.*)
EveryDeliverySettles ==
    \A d \in Deliveries : Enqueued(d) ~> row[d].status \in {"delivered", "dead"}

-----------------------------------------------------------------------------
(* Why these hold (PushDelivery_proofs).                                     *)

\* A delivery's transaction has the claim, the token's lock, and the token's
\* owner with them: no registration and no cleanup gets in between.
Authorized(i) ==
    LET d == worker[i].row IN
    worker[i].pc \in {"sending", "answered"} =>
       Holds(i, d) /\ lock[TokenOf(d)] = i /\ owner[TokenOf(d)] = UserFor(d)

\* A worker that still has its claim knows how often the row was tried.
AttemptsAgree(i) ==
    LET d == worker[i].row IN
    worker[i].pc \in {"claimed", "sending", "answered"} /\ Holds(i, d) =>
       row[d].attempts = worker[i].attempts

OrphansAreLong(i) == worker[i].pc = "orphan" => LongSends

\* An enqueue that has the token's lock has not written its row, and only the
\* cleanup of a registration has touched the token.
Reserved(a, t) ==
    lock[t] = a => ~Enqueued(<<a, t>>) /\ owner[t] \in {UserOf[a], Nobody}

AnsweredOk(i, d) ==
    worker[i].pc = "answered" /\ worker[i].answer = "ok" /\ worker[i].row = d

\* One acceptance at most is noticed: the one that is, or is being, recorded.
Accounted(d) ==
    accepted[d] <= excused[d] +
       (IF row[d].status = "delivered" \/ \E i \in Instances : AnsweredOk(i, d) THEN 1 ELSE 0)

\* A row whose token is not its user's has strayed; once the token is, or was,
\* another user's, the row is settled.
Departed(d) ==
    /\ d \in moved \/ (Enqueued(d) /\ owner[TokenOf(d)] # UserFor(d)) => d \in strayed
    /\ d \in moved \/ (Enqueued(d) /\ owner[TokenOf(d)] \notin {UserFor(d), Nobody}) =>
          row[d].status \in {"delivered", "dead"}

PushInv ==
    /\ TypeOK
    /\ \A n \in 1..Len(outbox) : Enqueued(outbox[n])
    /\ \A i \in Instances : Authorized(i) /\ AttemptsAgree(i) /\ OrphansAreLong(i)
    /\ \A a \in Alerts, t \in Tokens : Reserved(a, t)
    /\ \A d \in Deliveries : Accounted(d) /\ Departed(d)
    /\ DeadIsDeserved

=============================================================================
