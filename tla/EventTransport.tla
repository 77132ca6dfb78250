--------------------------- MODULE EventTransport ---------------------------
(***************************************************************************)
(* The durable event log of one user and the pollers that fan it out,      *)
(* apps/api/src/events/event-transport.service.ts.                         *)
(*                                                                         *)
(* A publisher allocates a global ordinal under the row lock of the        *)
(* `global' allocator, inserts its row and commits; every API instance     *)
(* polls the table past the last ordinal it saw and emits what it finds to *)
(* its own subscribers.  A row is an event and its ordinal; the position   *)
(* of a row in `rows' is its `sequence', the number clients persist.       *)
(* Ordinals have holes: an allocation whose event turns out to be a        *)
(* duplicate is committed without a row.                                   *)
(***************************************************************************)
EXTENDS Naturals, Sequences, FiniteSets

CONSTANTS
    Events,      \* publications: one call of `publish' each, retried on failure
    Keys,        \* semantic deduplication keys
    KeyOf,       \* the key of each publication
    Instances,   \* API instances
    PollBatch,   \* rows one query of the poller takes (500 in the code)
    MaxFaults    \* bound on everything that goes wrong in a behaviour

ASSUME TransportAssumption ==
    /\ KeyOf \in [Events -> Keys]
    /\ PollBatch \in Nat \ {0}
    /\ MaxFaults \in Nat

VARIABLES
    rows,         \* committed rows, in the order of their sequences
    nextOrdinal,  \* the allocator's next ordinal, as its lock's holder sees it
    holders,      \* publishers holding the allocator's row lock
    allocated,    \* the ordinal each publisher was given
    pub,          \* "idle", "locked" or "done", for each publisher
    last,         \* lastOrdinal of each instance's poller
    since,        \* lastOrdinal at the instance's boot
    poll,         \* "idle", "querying" or "fetched", for each instance
    requested,    \* pollRequested of each instance
    batch,        \* sequences of the rows the query of an instance returned
    emitted,      \* events an instance has emitted since its boot (`seen')
    faults        \* faults so far

transportVars == <<rows, nextOrdinal, holders, allocated, pub, last, since, poll,
                   requested, batch, emitted, faults>>
publishVars == <<rows, nextOrdinal, holders, allocated, pub>>
pollVars == <<last, since, poll, requested, batch, emitted>>

Row == [event : Events, ordinal : Nat]

TransportTypeOK ==
    /\ rows \in Seq(Row)
    /\ nextOrdinal \in Nat
    /\ holders \subseteq Events
    /\ allocated \in [Events -> Nat]
    /\ pub \in [Events -> {"idle", "locked", "done"}]
    /\ last \in [Instances -> Nat]
    /\ since \in [Instances -> Nat]
    /\ poll \in [Instances -> {"idle", "querying", "fetched"}]
    /\ requested \in [Instances -> BOOLEAN]
    /\ batch \in [Instances -> SUBSET (1..Len(rows))]
    /\ emitted \in [Instances -> SUBSET Events]
    /\ faults \in 0..MaxFaults

TransportInit ==
    /\ rows = << >>
    /\ nextOrdinal = 1
    /\ holders = {}
    /\ allocated = [e \in Events |-> 0]
    /\ pub = [e \in Events |-> "idle"]
    /\ last = [i \in Instances |-> 0]
    /\ since = [i \in Instances |-> 0]
    /\ poll = [i \in Instances |-> "idle"]
    /\ requested = [i \in Instances |-> FALSE]
    /\ batch = [i \in Instances |-> {}]
    /\ emitted = [i \in Instances |-> {}]
    /\ faults = 0

Fault == faults < MaxFaults /\ faults' = faults + 1

-----------------------------------------------------------------------------
(* Publishing *)

\* Mutant: the allocation does not wait for the publisher before it.
MutAllocatorFree == TRUE

\* The allocator row is free: `upsert' waits for the transaction that holds it.
AllocatorFree == holders = {}

\* publishInTransaction takes the row lock and an ordinal with it.
Allocate(e) ==
    /\ pub[e] = "idle"
    /\ AllocatorFree
    /\ pub' = [pub EXCEPT ![e] = "locked"]
    /\ holders' = holders \cup {e}
    /\ allocated' = [allocated EXCEPT ![e] = nextOrdinal]
    /\ nextOrdinal' = nextOrdinal + 1
    /\ UNCHANGED <<rows, pollVars, faults>>

\* A row with the publication's key is already there.
Duplicate(e) == \E n \in 1..Len(rows) : KeyOf[rows[n].event] = KeyOf[e]

\* The rest of the transaction up to its commit: the lookup of the key under the
\* lock, then the row with the user's next sequence.  The reply may be lost,
\* and the publisher then runs the whole publication again.
Commit(e, reply) ==
    /\ pub[e] = "locked"
    /\ rows' = IF Duplicate(e) THEN rows
               ELSE Append(rows, [event |-> e, ordinal |-> allocated[e]])
    /\ holders' = holders \ {e}
    /\ pub' = [pub EXCEPT ![e] = IF reply THEN "done" ELSE "idle"]
    /\ IF reply THEN faults' = faults ELSE Fault
    /\ UNCHANGED <<nextOrdinal, allocated, pollVars>>

\* The transaction times out or fails: the ordinal goes back, the ingestor retries.
Abort(e) ==
    /\ pub[e] = "locked"
    /\ Fault
    /\ pub' = [pub EXCEPT ![e] = "idle"]
    /\ holders' = holders \ {e}
    /\ nextOrdinal' = allocated[e]
    /\ UNCHANGED <<rows, allocated, pollVars>>

-----------------------------------------------------------------------------
(* Polling.  The composing module says what happens to the emitted rows. *)

Ordinal(s) == rows[s].ordinal

\* The first rows past ordinal n, as many as one query returns.
RowsAfter(n) ==
    LET later == {s \in 1..Len(rows) : Ordinal(s) > n}
    IN  {s \in later :
            Cardinality({t \in later : Ordinal(t) < Ordinal(s)}) < PollBatch}

\* pollOnce: a call during a running poll only asks for one more round.
PollOnce(i) ==
    IF poll[i] = "idle"
      THEN poll' = [poll EXCEPT ![i] = "querying"] /\ UNCHANGED requested
      ELSE requested' = [requested EXCEPT ![i] = TRUE] /\ UNCHANGED poll

\* The database evaluates the query; the process has not seen the answer yet.
Query(i) ==
    /\ poll[i] = "querying"
    /\ batch' = [batch EXCEPT ![i] = RowsAfter(last[i])]
    /\ poll' = [poll EXCEPT ![i] = "fetched"]
    /\ UNCHANGED <<publishVars, last, since, requested, emitted, faults>>

\* emitUnseen: the rows of a batch that were not emitted before.  The code
\* remembers the last SEEN_LIMIT ids; no row is fetched twice within that.
Unseen(i) == {s \in batch[i] : rows[s].event \notin emitted[i]}

FullBatch(i) == Cardinality(batch[i]) >= PollBatch

\* Another page, or another round if one was requested, or the poll resolves.
AnotherRound(i) == FullBatch(i) \/ requested[i]

\* Each row of the batch in order of its ordinal.
Emit(i) ==
    /\ poll[i] = "fetched"
    /\ \/ batch[i] = {} /\ UNCHANGED last
       \/ \E s \in batch[i] :
             /\ \A t \in batch[i] : Ordinal(t) <= Ordinal(s)
             /\ last' = [last EXCEPT ![i] = Ordinal(s)]
    /\ emitted' = [emitted EXCEPT ![i] = @ \cup {rows[s].event : s \in batch[i]}]
    /\ batch' = [batch EXCEPT ![i] = {}]
    /\ poll' = [poll EXCEPT ![i] = IF AnotherRound(i) THEN "querying" ELSE "idle"]
    /\ requested' = [requested EXCEPT ![i] = @ /\ FullBatch(i)]
    /\ UNCHANGED <<publishVars, since, faults>>

\* The query fails; pollSafely swallows the error and the next tick polls again.
PollFails(i) ==
    /\ poll[i] = "querying"
    /\ Fault
    /\ poll' = [poll EXCEPT ![i] = "idle"]
    /\ requested' = [requested EXCEPT ![i] = FALSE]
    /\ UNCHANGED <<publishVars, last, since, batch, emitted>>

\* The process dies and boots: onModuleInit starts at the latest ordinal.
Restart(i) ==
    /\ Fault
    /\ \E latest \in {0} \cup {Ordinal(s) : s \in 1..Len(rows)} :
          /\ \A s \in 1..Len(rows) : Ordinal(s) <= latest
          /\ last' = [last EXCEPT ![i] = latest]
          /\ since' = [since EXCEPT ![i] = latest]
    /\ poll' = [poll EXCEPT ![i] = "idle"]
    /\ requested' = [requested EXCEPT ![i] = FALSE]
    /\ batch' = [batch EXCEPT ![i] = {}]
    /\ emitted' = [emitted EXCEPT ![i] = {}]
    /\ UNCHANGED publishVars

\* The interval asks for a poll.
Tick(i) ==
    /\ poll[i] = "idle"
    /\ PollOnce(i)
    /\ UNCHANGED <<publishVars, last, since, batch, emitted, faults>>

\* A tick, or a publisher's own poll, falls into a running round.  A round is
\* shorter than POLL_MS but for a bounded number of times.
Overlap(i) ==
    /\ poll[i] # "idle"
    /\ Fault
    /\ PollOnce(i)
    /\ UNCHANGED <<publishVars, last, since, batch, emitted>>

PublishStep ==
    \E e \in Events :
       \/ Allocate(e)
       \/ \E reply \in BOOLEAN : Commit(e, reply)
       \/ Abort(e)

-----------------------------------------------------------------------------
(* A poller that has passed a row's ordinal has emitted the row: ordinals   *)
(* become visible in order, so `lastOrdinal' never steps over a row that is *)
(* committed later (the barrier of publishInTransaction).                   *)
PollerPassesNothing ==
    \A i \in Instances, s \in 1..Len(rows) :
       since[i] < Ordinal(s) /\ Ordinal(s) <= last[i] => rows[s].event \in emitted[i]

-----------------------------------------------------------------------------
(* Why it holds (EventStream_proofs).                                        *)

\* One publisher at a time has the allocator's row.
OneHolder ==
    /\ \A e \in Events : pub[e] = "locked" <=> e \in holders
    /\ \A e, f \in holders : e = f

\* n is above every ordinal that was committed, and that a poller has seen.
AboveAll(n) ==
    /\ \A s \in 1..Len(rows) : Ordinal(s) < n
    /\ \A i \in Instances : last[i] < n

\* An ordinal that is still to be committed is above what is committed.
OrdinalsInOrder ==
    /\ AboveAll(nextOrdinal)
    /\ \A e \in holders : AboveAll(allocated[e]) /\ allocated[e] + 1 = nextOrdinal

\* A batch leaves out no row between the poller's place and its own rows.
BatchClosed ==
    \A i \in Instances, s \in 1..Len(rows) :
       \A t \in batch[i] : last[i] < Ordinal(s) /\ Ordinal(s) <= Ordinal(t) => s \in batch[i]

TransportInv ==
    TransportTypeOK /\ OneHolder /\ OrdinalsInOrder /\ BatchClosed /\ PollerPassesNothing

=============================================================================
