------------------------- MODULE EventStream_proofs -------------------------
(***************************************************************************)
(* Proofs about EventStream, for any publications, keys, kinds, instances, *)
(* batch, page and queue sizes and number of faults.  First the log and    *)
(* its pollers, which no other part of the system writes to; then the      *)
(* connection of one device, from the wire to its checkpoint, up to the    *)
(* refinement of DurableDelivery.                                          *)
(***************************************************************************)
EXTENDS EventStream, FiniteSetTheorems, SequenceTheorems, WellFoundedInduction, TLAPS

\* A poll is asked for: by a tick, an overlap or a fresh connection.
AskedToPoll ==
    /\ \E i : PollOnce(i)
    /\ UNCHANGED <<publishVars, last, since, batch, emitted>>

\* Every step of the system, as the log and its pollers see it.
TransportStep ==
    \/ PublishStep
    \/ \E i \in Instances : Query(i) \/ Emit(i) \/ PollFails(i) \/ Restart(i)
    \/ /\ AskedToPoll \/ UNCHANGED <<publishVars, pollVars>>
       /\ UNCHANGED faults \/ Fault

-----------------------------------------------------------------------------
(* The log and its pollers.                                                *)

\* Gateway and device do not write to the log, and ask for polls at most.
LEMMA StreamStep == [Next]_vars => TransportStep
<1> SUFFICES ASSUME [Next]_vars PROVE TransportStep
  OBVIOUS
<1>1. CASE PublishStep
  BY <1>1 DEF TransportStep
<1>2. ASSUME NEW i \in Instances,
             Poll(i) \/ Overlap(i) \/ Query(i) \/ FanOut(i) \/ FailPoll(i)
               \/ RestartInstance(i) \/ Connect(i)
      PROVE  TransportStep
  BY <1>2 DEF Poll, Tick, Overlap, FanOut, FailPoll, RestartInstance, Connect, TransportStep,
              AskedToPoll, transportVars, publishVars, pollVars
<1>3. CASE ReplayQuery \/ ReplaySend \/ BaselineRead \/ BaselineSet
  BY <1>3 DEF ReplayQuery, ReplaySend, BaselineRead, BaselineSet, TransportStep, AskedToPoll,
              transportVars, publishVars, pollVars
<1>4. ASSUME NEW n, ReceiveEvent(n) PROVE TransportStep
  BY <1>4 DEF ReceiveEvent, TransportStep, publishVars, pollVars
<1>5. CASE \/ ReceiveCursor \/ Drop \/ Relaunch \/ LegacyReady
           \/ \E kind \in DurableKinds : Listen(kind)
  BY <1>5 DEF ReceiveCursor, Listen, LegacyReady, Drop, Relaunch, TransportStep, transportVars,
              publishVars, pollVars
<1>6. CASE UNCHANGED vars
  BY <1>6 DEF vars, transportVars, publishVars, pollVars, TransportStep
<1> QED
  BY <1>1, <1>2, <1>3, <1>4, <1>5, <1>6 DEF Next

\* A committed row has an ordinal and an event.
LEMMA RowAt ==
  ASSUME rows \in Seq(Row), NEW s \in 1..Len(rows)
  PROVE  Ordinal(s) \in Nat /\ rows[s].event \in Events
<1>1. rows[s] \in Row
  OBVIOUS
<1> QED
  BY <1>1 DEF Row, Ordinal

\* A commit adds one row behind the others.
LEMMA RowAppended ==
  ASSUME NEW log \in Seq(Row), NEW row \in Row
  PROVE  /\ Append(log, row) \in Seq(Row)
         /\ 1..Len(log) \subseteq 1..Len(Append(log, row))
         /\ \A s \in 1..Len(log) : Append(log, row)[s] = log[s]
         /\ \A s \in 1..Len(Append(log, row)) :
              s \in 1..Len(log) \/ Append(log, row)[s] = row
BY AppendProperties

\* An empty log, and pollers that have seen nothing.
LEMMA TransportInitInv == Init => TransportInv
BY TransportAssumption
   DEF Init, TransportInit, TransportInv, TransportTypeOK, OneHolder, OrdinalsInOrder, AboveAll,
       BatchClosed, PollerPassesNothing, Ordinal, Row

\* The first rows past n leave out no row before one of them.
LEMMA FirstRows ==
  ASSUME rows \in Seq(Row), NEW n \in Nat, NEW t \in RowsAfter(n), NEW s \in 1..Len(rows),
         n < Ordinal(s), Ordinal(s) <= Ordinal(t)
  PROVE  s \in RowsAfter(n)
<1> DEFINE later == {r \in 1..Len(rows) : Ordinal(r) > n}
           Before(r) == {q \in later : Ordinal(q) < Ordinal(r)}
<1>1. \A r \in 1..Len(rows) : Ordinal(r) \in Nat
  BY RowAt
<1>2. IsFiniteSet(1..Len(rows))
  BY FS_Interval
<1>3. IsFiniteSet(Before(t)) /\ t \in 1..Len(rows) /\ Cardinality(Before(t)) < PollBatch
  <2>1. Before(t) \subseteq 1..Len(rows)
    OBVIOUS
  <2> QED
    BY <1>2, <2>1, FS_Subset DEF RowsAfter
<1>4. Before(s) \subseteq Before(t)
  BY <1>1, <1>3
<1>5. /\ Cardinality(Before(s)) <= Cardinality(Before(t))
      /\ Cardinality(Before(s)) \in Nat /\ Cardinality(Before(t)) \in Nat
  <2>1. IsFiniteSet(Before(s)) /\ Cardinality(Before(s)) <= Cardinality(Before(t))
    BY <1>3, <1>4, FS_Subset
  <2> QED
    BY <1>3, <2>1, FS_CardinalityType
<1>6. Cardinality(Before(s)) < PollBatch
  BY <1>3, <1>5, TransportAssumption
<1> QED
  BY <1>6 DEF RowsAfter

\* Publishing and polling keep the types.
LEMMA TransportTyped == TransportTypeOK /\ TransportStep => TransportTypeOK'
<1> SUFFICES ASSUME TransportTypeOK, TransportStep PROVE TransportTypeOK'
  OBVIOUS
<1> USE TransportAssumption DEF TransportTypeOK
<1>ord. \A s \in 1..Len(rows) : Ordinal(s) \in Nat /\ rows[s].event \in Events
  BY RowAt
<1>1. ASSUME NEW e \in Events, Allocate(e) PROVE TransportTypeOK'
  BY <1>1 DEF Allocate, pollVars
<1>2. ASSUME NEW e \in Events, NEW reply \in BOOLEAN, Commit(e, reply) PROVE TransportTypeOK'
  <2>1. rows' \in Seq(Row) /\ \A i \in Instances : batch[i] \subseteq 1..Len(rows')
    <3>1. [event |-> e, ordinal |-> allocated[e]] \in Row
      BY DEF Row
    <3>2. rows' = rows \/ rows' = Append(rows, [event |-> e, ordinal |-> allocated[e]])
      BY <1>2 DEF Commit
    <3>3. rows' \in Seq(Row) /\ 1..Len(rows) \subseteq 1..Len(rows')
      <4>1. CASE rows' = Append(rows, [event |-> e, ordinal |-> allocated[e]])
        <5>1. rows \in Seq(Row)
          OBVIOUS
        <5> QED
          BY <3>1, <4>1, <5>1, RowAppended
      <4> QED
        BY <3>2, <4>1
    <3> QED
      BY <3>3
  <2>2. faults' \in 0..MaxFaults
    BY <1>2 DEF Commit, Fault
  <2>3. pub' \in [Events -> {"idle", "locked", "done"}] /\ holders' \subseteq Events
    BY <1>2 DEF Commit
  <2> QED
    BY <1>2, <2>1, <2>2, <2>3 DEF Commit, pollVars
<1>3. ASSUME NEW e \in Events, Abort(e) PROVE TransportTypeOK'
  BY <1>3 DEF Abort, Fault, pollVars
<1>4. ASSUME NEW i \in Instances, Query(i) PROVE TransportTypeOK'
  <2>1. RowsAfter(last[i]) \subseteq 1..Len(rows)
    BY DEF RowsAfter
  <2> QED
    BY <1>4, <2>1 DEF Query, publishVars
<1>5. ASSUME NEW i \in Instances, Emit(i) PROVE TransportTypeOK'
  <2>1. last' \in [Instances -> Nat]
    BY <1>5, <1>ord DEF Emit
  <2>2. emitted' \in [Instances -> SUBSET Events]
    BY <1>5, <1>ord DEF Emit
  <2>3. requested' \in [Instances -> BOOLEAN]
    BY <1>5 DEF Emit, FullBatch
  <2>4. batch' \in [Instances -> SUBSET (1..Len(rows))]
    BY <1>5 DEF Emit
  <2> QED
    BY <1>5, <2>1, <2>2, <2>3, <2>4 DEF Emit, publishVars
<1>6. ASSUME NEW i \in Instances, PollFails(i) PROVE TransportTypeOK'
  BY <1>6 DEF PollFails, Fault, publishVars
<1>7. ASSUME NEW i \in Instances, Restart(i) PROVE TransportTypeOK'
  BY <1>7, <1>ord DEF Restart, Fault, publishVars
<1>8. CASE /\ AskedToPoll \/ UNCHANGED <<publishVars, pollVars>>
           /\ UNCHANGED faults \/ Fault
  <2>1. faults' \in 0..MaxFaults
    BY <1>8 DEF Fault
  <2>2. CASE UNCHANGED <<publishVars, pollVars>>
    BY <2>1, <2>2 DEF publishVars, pollVars
  <2>3. ASSUME NEW i, PollOnce(i), UNCHANGED <<publishVars, last, since, batch, emitted>>
        PROVE  TransportTypeOK'
    BY <2>1, <2>3 DEF PollOnce, publishVars
  <2> QED
    BY <1>8, <2>2, <2>3 DEF AskedToPoll
<1> QED
  BY <1>1, <1>2, <1>3, <1>4, <1>5, <1>6, <1>7, <1>8 DEF TransportStep, PublishStep

\* Publishing and polling keep the invariant.
LEMMA TransportKept == TransportInv /\ TransportStep => TransportInv'
<1> SUFFICES ASSUME TransportInv, TransportStep PROVE TransportInv'
  OBVIOUS
<1>type. TransportTypeOK /\ TransportTypeOK'
  BY TransportTyped DEF TransportInv
<1>fun. /\ rows \in Seq(Row) /\ nextOrdinal \in Nat /\ holders \subseteq Events
        /\ allocated \in [Events -> Nat] /\ pub \in [Events -> {"idle", "locked", "done"}]
        /\ last \in [Instances -> Nat] /\ since \in [Instances -> Nat]
        /\ batch \in [Instances -> SUBSET (1..Len(rows))]
        /\ emitted \in [Instances -> SUBSET Events]
  BY <1>type DEF TransportTypeOK
<1>ord. \A s \in 1..Len(rows) : Ordinal(s) \in Nat
  BY <1>fun, RowAt
<1>inv. OneHolder /\ OrdinalsInOrder /\ BatchClosed /\ PollerPassesNothing
  BY DEF TransportInv
\* What a publisher does leaves the pollers alone.
<1>1. ASSUME UNCHANGED <<rows, pollVars>>
      PROVE  /\ BatchClosed' /\ PollerPassesNothing'
             /\ \A n : AboveAll(n)' <=> AboveAll(n)
  BY <1>1, <1>inv DEF BatchClosed, PollerPassesNothing, AboveAll, Ordinal, pollVars
<1>2. ASSUME NEW e \in Events, Allocate(e) PROVE TransportInv'
  <2>1. /\ holders' = {e} /\ nextOrdinal' = nextOrdinal + 1
        /\ allocated' = [allocated EXCEPT ![e] = nextOrdinal]
        /\ pub' = [pub EXCEPT ![e] = "locked"] /\ holders = {}
        /\ UNCHANGED <<rows, pollVars>>
    BY <1>2 DEF Allocate, AllocatorFree
  <2>2. OneHolder'
    BY <2>1, <1>fun, <1>inv DEF OneHolder
  <2>3. AboveAll(nextOrdinal) /\ AboveAll(nextOrdinal + 1)
    BY <1>fun, <1>ord, <1>inv DEF OrdinalsInOrder, AboveAll
  <2>4. OrdinalsInOrder'
    <3>1. nextOrdinal' = nextOrdinal + 1 /\ \A f \in holders' : allocated'[f] = nextOrdinal
      BY <2>1, <1>fun
    <3>2. UNCHANGED <<rows, last>>
      BY <2>1 DEF pollVars
    <3> QED
      BY <2>3, <3>1, <3>2 DEF OrdinalsInOrder, AboveAll, Ordinal
  <2> QED
    BY <1>1, <1>type, <2>1, <2>2, <2>4 DEF TransportInv
<1>3. ASSUME NEW e \in Events, Abort(e) PROVE TransportInv'
  <2>1. /\ holders' = holders \ {e} /\ nextOrdinal' = allocated[e] /\ e \in holders
        /\ pub' = [pub EXCEPT ![e] = "idle"]
        /\ UNCHANGED <<rows, allocated, pollVars>>
    BY <1>3, <1>inv DEF Abort, OneHolder
  <2>2. holders' = {}
    BY <2>1, <1>inv DEF OneHolder
  <2>3. OneHolder'
    BY <2>1, <2>2, <1>fun, <1>inv DEF OneHolder
  <2>4. OrdinalsInOrder'
    <3>1. AboveAll(allocated[e]) /\ UNCHANGED <<rows, last>>
      BY <2>1, <1>inv DEF OrdinalsInOrder, pollVars
    <3> QED
      BY <2>1, <2>2, <3>1 DEF OrdinalsInOrder, AboveAll, Ordinal
  <2> QED
    BY <1>1, <1>type, <2>1, <2>3, <2>4 DEF TransportInv
<1>4. ASSUME NEW e \in Events, NEW reply \in BOOLEAN, Commit(e, reply) PROVE TransportInv'
  <2> DEFINE new == Len(rows) + 1
  <2>1. /\ holders' = holders \ {e} /\ e \in holders
        /\ pub' = [pub EXCEPT ![e] = IF reply THEN "done" ELSE "idle"]
        /\ \/ rows' = rows
           \/ rows' = Append(rows, [event |-> e, ordinal |-> allocated[e]])
        /\ UNCHANGED <<nextOrdinal, allocated, pollVars>>
    BY <1>4, <1>inv DEF Commit, OneHolder
  <2>2. holders' = {} /\ OneHolder'
    BY <2>1, <1>fun, <1>inv DEF OneHolder
  <2>3. /\ \A s \in 1..Len(rows) : s \in 1..Len(rows') /\ rows'[s] = rows[s]
        /\ \A s \in 1..Len(rows') : s \in 1..Len(rows) \/ rows'[s].ordinal = allocated[e]
    <3>1. [event |-> e, ordinal |-> allocated[e]] \in Row
      BY <1>fun DEF Row
    <3>2. CASE rows' = Append(rows, [event |-> e, ordinal |-> allocated[e]])
      BY <3>1, <3>2, <1>fun, RowAppended
    <3> QED
      BY <2>1, <3>2
  <2>4. AboveAll(allocated[e]) /\ allocated[e] + 1 = nextOrdinal /\ allocated[e] \in Nat
    BY <2>1, <1>fun, <1>inv DEF OrdinalsInOrder
  <2>5. OrdinalsInOrder'
    <3>1. \A s \in 1..Len(rows') : rows'[s].ordinal < nextOrdinal
      <4>1. \A s \in 1..Len(rows) : rows[s].ordinal < nextOrdinal
        BY <1>inv DEF OrdinalsInOrder, AboveAll, Ordinal
      <4>2. allocated[e] < nextOrdinal
        BY <2>4
      <4> QED
        BY <2>3, <4>1, <4>2
    <3>2. \A i \in Instances : last'[i] < nextOrdinal
      BY <2>1, <1>inv DEF OrdinalsInOrder, AboveAll, pollVars
    <3> QED
      BY <2>1, <2>2, <3>1, <3>2 DEF OrdinalsInOrder, AboveAll, Ordinal
  <2>6. BatchClosed'
    <3> SUFFICES ASSUME NEW i \in Instances, NEW s \in 1..Len(rows'), NEW t \in batch[i],
                        last[i] < rows'[s].ordinal, rows'[s].ordinal <= rows'[t].ordinal
                 PROVE  s \in batch[i]
      BY <2>1 DEF BatchClosed, Ordinal, pollVars
    <3>1. t \in 1..Len(rows) /\ rows'[t] = rows[t] /\ Ordinal(t) < allocated[e]
      BY <1>fun, <2>3, <2>4 DEF AboveAll
    <3>2. Ordinal(t) \in Nat
      BY <1>ord, <3>1
    <3>3. rows'[s].ordinal # allocated[e]
      BY <2>4, <3>1, <3>2 DEF Ordinal
    <3>4. s \in 1..Len(rows) /\ rows'[s] = rows[s]
      BY <2>3, <3>3
    <3> QED
      BY <3>1, <3>4, <1>inv DEF BatchClosed, Ordinal
  <2>7. PollerPassesNothing'
    <3> SUFFICES ASSUME NEW i \in Instances, NEW s \in 1..Len(rows'),
                        since[i] < rows'[s].ordinal, rows'[s].ordinal <= last[i]
                 PROVE  rows'[s].event \in emitted[i]
      BY <2>1 DEF PollerPassesNothing, Ordinal, pollVars
    <3>1. rows'[s].ordinal # allocated[e]
      BY <2>4, <1>fun DEF AboveAll
    <3>2. s \in 1..Len(rows) /\ rows'[s] = rows[s]
      BY <2>3, <3>1
    <3> QED
      BY <3>2, <1>inv DEF PollerPassesNothing, Ordinal
  <2> QED
    BY <1>type, <2>2, <2>5, <2>6, <2>7 DEF TransportInv
\* What a poller does leaves the publishers alone.
<1>5. ASSUME UNCHANGED publishVars, \A i \in Instances : last'[i] < nextOrdinal,
             \A i \in Instances, e \in holders : last'[i] < allocated[e]
      PROVE  OneHolder' /\ OrdinalsInOrder'
  <2>1. UNCHANGED <<rows, nextOrdinal, holders, allocated, pub>>
    BY <1>5 DEF publishVars
  <2>2. OneHolder'
    BY <2>1, <1>inv DEF OneHolder
  <2>3. OrdinalsInOrder'
    BY <1>5, <2>1, <1>inv DEF OrdinalsInOrder, AboveAll, Ordinal
  <2> QED
    BY <2>2, <2>3
<1>6. ASSUME UNCHANGED publishVars, UNCHANGED last PROVE OneHolder' /\ OrdinalsInOrder'
  BY <1>5, <1>6, <1>inv DEF OrdinalsInOrder, AboveAll
<1>7. ASSUME NEW i \in Instances, Query(i) PROVE TransportInv'
  <2>1. /\ batch' = [batch EXCEPT ![i] = RowsAfter(last[i])]
        /\ UNCHANGED <<publishVars, rows, last, since, emitted>>
    BY <1>7 DEF Query, publishVars
  <2>2. BatchClosed'
    <3> SUFFICES ASSUME NEW j \in Instances, NEW s \in 1..Len(rows), NEW t \in batch'[j],
                        last[j] < Ordinal(s), Ordinal(s) <= Ordinal(t)
                 PROVE  s \in batch'[j]
      BY <2>1 DEF BatchClosed, Ordinal
    <3>1. CASE j = i
      BY <2>1, <3>1, <1>fun, FirstRows
    <3>2. CASE j # i
      BY <2>1, <3>2, <1>fun, <1>inv DEF BatchClosed
    <3> QED
      BY <3>1, <3>2
  <2>3. PollerPassesNothing'
    BY <2>1, <1>inv DEF PollerPassesNothing, Ordinal
  <2> QED
    BY <1>type, <1>6, <2>1, <2>2, <2>3 DEF TransportInv
<1>8. ASSUME NEW i \in Instances, Emit(i) PROVE TransportInv'
  <2>1. /\ \/ batch[i] = {} /\ last' = last
           \/ \E s \in batch[i] : last' = [last EXCEPT ![i] = Ordinal(s)]
        /\ emitted' = [emitted EXCEPT ![i] = @ \cup {rows[s].event : s \in batch[i]}]
        /\ batch' = [batch EXCEPT ![i] = {}]
        /\ UNCHANGED <<publishVars, rows, since>>
    BY <1>8 DEF Emit, publishVars
  <2>2. \A j \in Instances :
          \/ last'[j] = last[j]
          \/ j = i /\ \E s \in batch[i] : s \in 1..Len(rows) /\ last'[j] = Ordinal(s)
    BY <2>1, <1>fun
  <2>3. OneHolder' /\ OrdinalsInOrder'
    BY <1>5, <2>1, <2>2, <1>inv DEF OrdinalsInOrder, AboveAll
  <2>4. BatchClosed'
    <3> SUFFICES ASSUME NEW j \in Instances, NEW s \in 1..Len(rows), NEW t \in batch'[j],
                        last'[j] < Ordinal(s), Ordinal(s) <= Ordinal(t)
                 PROVE  s \in batch'[j]
      BY <2>1 DEF BatchClosed, Ordinal
    <3>1. j # i
      BY <2>1, <1>fun
    <3> QED
      BY <2>1, <2>2, <3>1, <1>fun, <1>inv DEF BatchClosed
  <2>5. PollerPassesNothing'
    <3> SUFFICES ASSUME NEW j \in Instances, NEW s \in 1..Len(rows),
                        since[j] < Ordinal(s), Ordinal(s) <= last'[j]
                 PROVE  rows[s].event \in emitted'[j]
      BY <2>1 DEF PollerPassesNothing, Ordinal
    <3>1. emitted[j] \subseteq emitted'[j]
      BY <2>1, <1>fun
    <3>2. CASE Ordinal(s) <= last[j]
      BY <3>1, <3>2, <1>inv DEF PollerPassesNothing
    <3>3. CASE ~(Ordinal(s) <= last[j])
      <4>1. j = i /\ last[i] < Ordinal(s)
        BY <2>2, <3>3, <1>fun, <1>ord
      <4>2. PICK t \in batch[i] : last'[i] = Ordinal(t)
        BY <2>2, <3>3, <4>1
      <4>3. s \in batch[i]
        BY <4>1, <4>2, <1>inv DEF BatchClosed
      <4> QED
        BY <2>1, <4>1, <4>3, <1>fun
    <3> QED
      BY <3>2, <3>3
  <2> QED
    BY <1>type, <2>3, <2>4, <2>5 DEF TransportInv
<1>9. ASSUME NEW i \in Instances, Restart(i) PROVE TransportInv'
  <2>1. PICK latest \in {0} \cup {Ordinal(s) : s \in 1..Len(rows)} :
          /\ last' = [last EXCEPT ![i] = latest] /\ since' = [since EXCEPT ![i] = latest]
    BY <1>9 DEF Restart
  <2>2. /\ batch' = [batch EXCEPT ![i] = {}] /\ emitted' = [emitted EXCEPT ![i] = {}]
        /\ UNCHANGED <<publishVars, rows>>
    BY <1>9 DEF Restart, publishVars
  <2>3. \A j \in Instances :
          \/ j # i /\ last'[j] = last[j] /\ since'[j] = since[j]
          \/ j = i /\ last'[j] = latest /\ since'[j] = latest /\ batch'[j] = {}
    BY <2>1, <2>2, <1>fun
  <2>4. OneHolder' /\ OrdinalsInOrder'
    <3>1. latest < nextOrdinal /\ \A e \in holders : latest < allocated[e]
      <4>1. CASE latest = 0
        <5>1. last[i] \in Nat /\ last[i] < nextOrdinal
          BY <1>fun, <1>inv DEF OrdinalsInOrder, AboveAll
        <5>2. ASSUME NEW e \in holders PROVE latest < allocated[e]
          BY <4>1, <5>1, <1>fun, <1>inv DEF OrdinalsInOrder, AboveAll
        <5> QED
          BY <4>1, <5>1, <5>2, <1>fun
      <4>2. CASE \E s \in 1..Len(rows) : latest = Ordinal(s)
        BY <4>2, <1>inv DEF OrdinalsInOrder, AboveAll
      <4> QED
        BY <4>1, <4>2
    <3> QED
      BY <1>5, <2>2, <2>3, <3>1, <1>inv DEF OrdinalsInOrder, AboveAll
  <2>5. BatchClosed'
    <3> SUFFICES ASSUME NEW j \in Instances, NEW s \in 1..Len(rows), NEW t \in batch'[j],
                        last'[j] < Ordinal(s), Ordinal(s) <= Ordinal(t)
                 PROVE  s \in batch'[j]
      BY <2>2 DEF BatchClosed, Ordinal
    <3> QED
      BY <2>2, <2>3, <1>fun, <1>inv DEF BatchClosed
  <2>6. PollerPassesNothing'
    <3> SUFFICES ASSUME NEW j \in Instances, NEW s \in 1..Len(rows),
                        since'[j] < Ordinal(s), Ordinal(s) <= last'[j]
                 PROVE  rows[s].event \in emitted'[j]
      BY <2>2 DEF PollerPassesNothing, Ordinal
    <3>1. j # i
      BY <2>1, <2>3, <1>ord
    <3> QED
      BY <2>2, <2>3, <3>1, <1>fun, <1>inv DEF PollerPassesNothing
  <2> QED
    BY <1>type, <2>4, <2>5, <2>6 DEF TransportInv
<1>10. ASSUME UNCHANGED <<publishVars, last, since, batch, emitted>> PROVE TransportInv'
  BY <1>10, <1>6, <1>type, <1>inv
     DEF TransportInv, BatchClosed, PollerPassesNothing, Ordinal, publishVars
<1> QED
  BY <1>2, <1>3, <1>4, <1>7, <1>8, <1>9, <1>10
     DEF TransportStep, PublishStep, AskedToPoll, PollFails, pollVars, publishVars

-----------------------------------------------------------------------------
(* Of every behaviour of the stream.                                       *)

\* The invariant of log and pollers holds in every reachable state.
LEMMA Invariant == Spec => []TransportInv
<1>1. TransportInv /\ [Next]_vars => TransportInv'
  BY StreamStep, TransportKept
<1> QED
  BY <1>1, TransportInitInv, PTL DEF Spec

\* The log's variables stay typed: a fetched batch is of committed rows.
THEOREM TransportTypeCorrect == Spec => []TransportTypeOK
<1>1. TransportInv => TransportTypeOK
  BY DEF TransportInv
<1> QED
  BY <1>1, Invariant, PTL

\* No poller passes an ordinal whose row is committed later: the lock held from
\* the allocation to the commit orders what becomes visible.
THEOREM NothingPassed == Spec => []PollerPassesNothing
<1>1. TransportInv => PollerPassesNothing
  BY DEF TransportInv
<1> QED
  BY <1>1, Invariant, PTL


-----------------------------------------------------------------------------
(* Induction over the data of the model: recursive functions, sorted sequences.*)

\* A set of numbers that is not empty has a least one.
LEMMA Least ==
  ASSUME NEW S \in SUBSET Nat, S # {}
  PROVE  \E n \in S : \A m \in S : n <= m
<1>1. IsWellFoundedOn(OpToRel(<, Nat), Nat)
  BY NatLessThanWellFounded, Zenon
<1>2. PICK n \in S : \A m \in S : ~(<<m, n>> \in OpToRel(<, Nat))
  BY <1>1, WFMin
<1>3. \A m \in S : ~(m < n)
  BY <1>2 DEF OpToRel
<1> QED
  BY <1>3

\* Induction over the numbers, for a set instead of a predicate.
LEMMA Induction ==
  ASSUME NEW S, 0 \in S, \A n \in Nat : n \in S => n + 1 \in S
  PROVE  \A n \in Nat : n \in S
<1> SUFFICES ASSUME Nat \ S # {} PROVE FALSE
  OBVIOUS
<1>1. PICK n \in Nat \ S : \A m \in Nat \ S : n <= m
  BY Least
<1>2. n # 0 /\ n - 1 \in Nat /\ n - 1 \in S
  BY <1>1
<1> QED
  BY <1>1, <1>2

\* What SendEach says of itself.
LEMMA SendEachIs ==
  ASSUME NEW from, NEW q \in Seq(Nat), NEW live
  PROVE  LET c == SendEach(from, q, live) IN
         /\ c[0] = [sent |-> from, out |-> << >>]
         /\ \A n \in 1..Len(q) : c[n] = SendDurable(c[n - 1], q[n], live)
<1> DEFINE Is(c, N) ==
             c = [n \in 0..N |-> IF n = 0 THEN [sent |-> from, out |-> << >>]
                                 ELSE SendDurable(c[n - 1], q[n], live)]
           S == {N \in Nat : \E c : Is(c, N)}
<1>1. 0 \in S
  <2> DEFINE c == [n \in 0..0 |-> [sent |-> from, out |-> << >>]]
  <2>1. Is(c, 0)
    OBVIOUS
  <2> QED
    BY <2>1
<1>2. ASSUME NEW N \in Nat, N \in S PROVE N + 1 \in S
  <2>1. PICK c : Is(c, N)
    BY <1>2
  <2> DEFINE d == [n \in 0..(N + 1) |->
                      IF n \in 0..N THEN c[n] ELSE SendDurable(c[N], q[N + 1], live)]
  <2> HIDE DEF Is
  <2>2. \A n \in 0..N : d[n] = c[n]
    OBVIOUS
  <2>3. ASSUME NEW n \in 0..(N + 1)
        PROVE  d[n] = IF n = 0 THEN [sent |-> from, out |-> << >>]
                      ELSE SendDurable(d[n - 1], q[n], live)
    <3>1. CASE n = 0
      BY <2>1, <2>2, <3>1 DEF Is
    <3>2. CASE n \in 1..N
      <4>1. d[n] = c[n] /\ d[n - 1] = c[n - 1]
        BY <2>2, <3>2
      <4> QED
        BY <2>1, <3>2, <4>1 DEF Is
    <3>3. CASE n = N + 1
      <4>1. n - 1 = N /\ d[N] = c[N]
        BY <2>2, <3>3
      <4> QED
        BY <3>3, <4>1
    <3> QED
      BY <3>1, <3>2, <3>3
  <2>4. Is(d, N + 1)
    BY <2>3 DEF Is
  <2> QED
    BY <2>4
<1>3. \E c : Is(c, Len(q))
  <2> HIDE DEF S
  <2>1. \A N \in Nat : N \in S
    BY <1>1, <1>2, Induction
  <2> QED
    BY <2>1 DEF S
<1>4. Is(SendEach(from, q, live), Len(q))
  BY <1>3 DEF SendEach
<1> QED
  BY <1>4

\* What DrainEach says of itself.
LEMMA DrainEachIs ==
  ASSUME NEW consumers, NEW from, NEW q \in Seq(Nat), NEW bad
  PROVE  LET d == DrainEach(consumers, from, q, bad) IN
         /\ d[0] = [state |-> "going", cursor |-> from, queue |-> << >>, heard |-> heard,
                    consumers |-> consumers]
         /\ \A n \in 1..Len(q) : d[n] = DrainOne(d[n - 1], q[n], bad)
<1> DEFINE first == [state |-> "going", cursor |-> from, queue |-> << >>, heard |-> heard,
                     consumers |-> consumers]
           Is(d, N) ==
             d = [n \in 0..N |-> IF n = 0 THEN first ELSE DrainOne(d[n - 1], q[n], bad)]
           S == {N \in Nat : \E d : Is(d, N)}
<1>first. first = [state |-> "going", cursor |-> from, queue |-> << >>, heard |-> heard,
                   consumers |-> consumers]
  OBVIOUS
<1> HIDE DEF first
<1>1. 0 \in S
  <2> DEFINE d == [n \in 0..0 |-> first]
  <2>1. Is(d, 0)
    OBVIOUS
  <2> QED
    BY <2>1
<1>2. ASSUME NEW N \in Nat, N \in S PROVE N + 1 \in S
  <2>1. PICK d : Is(d, N)
    BY <1>2
  <2> DEFINE e == [n \in 0..(N + 1) |->
                      IF n \in 0..N THEN d[n] ELSE DrainOne(d[N], q[N + 1], bad)]
  <2> HIDE DEF Is
  <2>2. \A n \in 0..N : e[n] = d[n]
    OBVIOUS
  <2>3. ASSUME NEW n \in 0..(N + 1)
        PROVE  e[n] = IF n = 0 THEN first ELSE DrainOne(e[n - 1], q[n], bad)
    <3>1. CASE n = 0
      BY <2>1, <2>2, <3>1 DEF Is
    <3>2. CASE n \in 1..N
      <4>1. e[n] = d[n] /\ e[n - 1] = d[n - 1]
        BY <2>2, <3>2
      <4> QED
        BY <2>1, <3>2, <4>1 DEF Is
    <3>3. CASE n = N + 1
      <4>1. n - 1 = N /\ e[N] = d[N]
        BY <2>2, <3>3
      <4> QED
        BY <3>3, <4>1
    <3> QED
      BY <3>1, <3>2, <3>3
  <2>4. Is(e, N + 1)
    BY <2>3 DEF Is
  <2> QED
    BY <2>4
<1>3. \E d : Is(d, Len(q))
  <2> HIDE DEF S
  <2>1. \A N \in Nat : N \in S
    BY <1>1, <1>2, Induction
  <2> QED
    BY <2>1 DEF S
<1>4. Is(DrainEach(consumers, from, q, bad), Len(q))
  BY <1>3, <1>first DEF DrainEach
<1> QED
  BY <1>4, <1>first

\* A finite set that is ranked without ties can be put in order.
LEMMA AscendingIs ==
  ASSUME NEW S, IsFiniteSet(S), NEW rank, \A s \in S : rank[s] \in Nat,
         \A s, t \in S : rank[s] = rank[t] => s = t
  PROVE  /\ Ascending(S, rank) \in [1..Cardinality(S) -> S]
         /\ \A m, n \in 1..Cardinality(S) :
              m < n => rank[Ascending(S, rank)[m]] < rank[Ascending(S, rank)[n]]
         /\ S \subseteq {Ascending(S, rank)[n] : n \in 1..Cardinality(S)}
<1> DEFINE Rises(T, q) ==
             /\ q \in [1..Cardinality(T) -> T]
             /\ \A m, n \in 1..Cardinality(T) : m < n => rank[q[m]] < rank[q[n]]
           I == {N \in Nat : \A T \in SUBSET S : Cardinality(T) = N => \E q : Rises(T, q)}
<1>1. 0 \in I
  <2> SUFFICES ASSUME NEW T \in SUBSET S, Cardinality(T) = 0 PROVE \E q : Rises(T, q)
    OBVIOUS
  <2> DEFINE q == [n \in 1..0 |-> n]
  <2>1. Rises(T, q)
    OBVIOUS
  <2> QED
    BY <2>1
<1>2. ASSUME NEW N \in Nat, N \in I PROVE N + 1 \in I
  <2> SUFFICES ASSUME NEW T \in SUBSET S, Cardinality(T) = N + 1 PROVE \E q : Rises(T, q)
    OBVIOUS
  <2>1. IsFiniteSet(T) /\ T # {}
    BY FS_Subset, FS_EmptySet
  \* The greatest of T: its rank is the least bound of all ranks.
  <2>2. PICK t \in T : \A s \in T : rank[s] <= rank[t]
    <3> DEFINE Above(t) == {s \in T : rank[t] < rank[s]}
               B == {Cardinality(Above(t)) : t \in T}
    <3>1. \A t \in T : IsFiniteSet(Above(t)) /\ Cardinality(Above(t)) \in Nat
      <4> SUFFICES ASSUME NEW t \in T PROVE IsFiniteSet(Above(t)) /\ Cardinality(Above(t)) \in Nat
        OBVIOUS
      <4>1. Above(t) \in SUBSET T
        OBVIOUS
      <4> HIDE DEF Above
      <4>2. IsFiniteSet(Above(t))
        BY <2>1, <4>1, FS_Subset
      <4> QED
        BY <4>2, FS_CardinalityType
    <3>2. B \in SUBSET Nat /\ B # {}
      <4> HIDE DEF Above
      <4> QED
        BY <2>1, <3>1
    <3>3. PICK n \in B : \A m \in B : n <= m
      <4> HIDE DEF B
      <4> QED
        BY <3>2, Least
    <3>4. PICK t \in T : n = Cardinality(Above(t))
      <4> HIDE DEF Above
      <4> QED
        OBVIOUS
    <3>5. ASSUME NEW u \in T, rank[t] < rank[u] PROVE FALSE
      <4>1. \A s \in T : rank[s] \in Nat
        OBVIOUS
      <4>2. Above(u) \in SUBSET Above(t) /\ u \in Above(t) /\ u \notin Above(u)
        BY <3>5, <4>1
      <4> HIDE DEF Above
      <4>3. /\ Cardinality(Above(u)) <= Cardinality(Above(t))
            /\ Cardinality(Above(t)) # Cardinality(Above(u))
        BY <3>1, <4>2, FS_Subset
      <4>4. Cardinality(Above(t)) <= Cardinality(Above(u))
        BY <3>3, <3>4
      <4> QED
        BY <3>1, <4>3, <4>4
    <3>6. \A s \in T : rank[s] \in Nat
      OBVIOUS
    <3> QED
      BY <3>5, <3>6
  <2>3. Cardinality(T \ {t}) = N
    <3>1. Cardinality(T \ {t}) = Cardinality(T) - 1
      BY <2>1, FS_RemoveElement, Zenon
    <3> QED
      BY <3>1
  <2>4. PICK p : Rises(T \ {t}, p)
    BY <1>2, <2>3
  <2> DEFINE q == [n \in 1..(N + 1) |-> IF n \in 1..N THEN p[n] ELSE t]
  <2>5. q \in [1..Cardinality(T) -> T] /\ p \in [1..N -> T \ {t}]
    BY <2>3, <2>4
  <2>6. ASSUME NEW m \in 1..(N + 1), NEW n \in 1..(N + 1), m < n
        PROVE  rank[q[m]] < rank[q[n]]
    <3>1. m \in 1..N /\ q[m] = p[m]
      BY <2>6
    <3>2. CASE n \in 1..N
      BY <2>3, <2>4, <2>6, <3>1, <3>2
    <3>3. CASE n = N + 1
      <4>1. p[m] \in T /\ p[m] # t /\ q[n] = t
        BY <2>5, <3>1, <3>3
      <4>2. rank[p[m]] <= rank[t] /\ rank[p[m]] # rank[t] /\ rank[p[m]] \in Nat /\ rank[t] \in Nat
        BY <2>2, <4>1
      <4> QED
        BY <3>1, <4>1, <4>2
    <3> QED
      BY <3>2, <3>3
  <2>7. Rises(T, q)
    BY <2>5, <2>6
  <2> QED
    BY <2>7
<1>3. Cardinality(S) \in Nat
  BY FS_CardinalityType
<1>4. \E q : Rises(S, q)
  <2> HIDE DEF I
  <2>1. Cardinality(S) \in I
    BY <1>1, <1>2, <1>3, Induction
  <2> QED
    BY <2>1 DEF I
<1>5. Rises(S, Ascending(S, rank))
  BY <1>4 DEF Ascending
<1>6. \A s \in S : \E n \in 1..Cardinality(S) : Ascending(S, rank)[n] = s
  <2> DEFINE q == Ascending(S, rank)
             range == {q[n] : n \in 1..Cardinality(S)}
  <2>1. q \in [1..Cardinality(S) -> S]
    BY <1>5
  <2>2. \A m, n \in 1..Cardinality(S) : q[m] = q[n] => m = n
    <3> SUFFICES ASSUME NEW m \in 1..Cardinality(S), NEW n \in 1..Cardinality(S),
                        q[m] = q[n], m # n
                 PROVE  FALSE
      OBVIOUS
    <3>1. m < n \/ n < m
      BY <1>3
    <3>2. rank[q[m]] < rank[q[n]] \/ rank[q[n]] < rank[q[m]]
      BY <1>5, <3>1
    <3>3. rank[q[m]] \in Nat
      BY <2>1
    <3> QED
      BY <3>2, <3>3
  <2>3. ExistsBijection(1..Cardinality(S), range)
    <3>1. q \in [1..Cardinality(S) -> range]
      BY <2>1
    <3>2. q \in Bijection(1..Cardinality(S), range)
      BY <2>2, <3>1 DEF Bijection, Injection, Surjection, IsInjective
    <3> QED
      BY <3>2 DEF ExistsBijection
  <2>4. Cardinality(range) = Cardinality(S)
    BY <1>3, <2>3, FS_CountingElements
  <2>5. range = S
    BY <2>1, <2>4, FS_Subset
  <2> QED
    BY <2>5
<1> QED
  BY <1>5, <1>6

-----------------------------------------------------------------------------
(* What is sent reaches the wire in order.                                 *)

\* Messages behind the first p do not change what the first p bring.
LEMMA ArrivedAppend ==
  ASSUME NEW w \in Seq(Message), NEW x \in Message
  PROVE  /\ \A p \in 0..Len(w) : Arrived(Append(w, x), p) = Arrived(w, p)
         /\ Arrived(w, Len(w)) \subseteq Arrived(Append(w, x), Len(w) + 1)
         /\ x.type = "event" => x.sequence \in Arrived(Append(w, x), Len(w) + 1)
<1> DEFINE v == Append(w, x)
<1>1. \A p \in 1..Len(w) : v[p] = w[p]
  OBVIOUS
<1>2. v[Len(w) + 1] = x /\ Len(w) \in Nat
  OBVIOUS
<1>3. ASSUME NEW p \in 0..Len(w) PROVE Arrived(v, p) = Arrived(w, p)
  <2>1. \A q \in 1..p : v[q] = w[q]
    BY <1>1, <1>2
  <2> QED
    BY <2>1 DEF Arrived
<1>4. Arrived(w, Len(w)) \subseteq Arrived(v, Len(w) + 1)
  <2>1. Arrived(v, Len(w)) = Arrived(w, Len(w))
    BY <1>2, <1>3
  <2>2. 1..Len(w) \subseteq 1..(Len(w) + 1)
    BY <1>2
  <2> HIDE DEF v
  <2>3. Arrived(v, Len(w)) \subseteq Arrived(v, Len(w) + 1)
    BY <2>2 DEF Arrived
  <2> QED
    BY <2>1, <2>3
<1>5. ASSUME x.type = "event" PROVE x.sequence \in Arrived(v, Len(w) + 1)
  <2>1. Len(w) + 1 \in 1..(Len(w) + 1)
    BY <1>2
  <2> HIDE DEF v
  <2> QED
    BY <1>2, <1>5, <2>1 DEF Arrived
<1> QED
  BY <1>3, <1>4, <1>5

\* The wire grows by a message that everything owed up to it has preceded.
LEMMA WireAppend ==
  ASSUME NEW w, NEW n, Wire(w, n), NEW x \in Message, n <= x.sequence, x.sequence \in 0..Tail0,
         x.type = "event" => x.sequence > 0,
         x.type = "cursor" => x.sequence = n /\ Reaches(n),
         \A s \in Owed : n < s /\ s <= x.sequence => x.type = "event" /\ s = x.sequence
  PROVE  Wire(Append(w, x), x.sequence)
<1> DEFINE v == Append(w, x)
           m == x.sequence
<1>type. w \in Seq(Message) /\ n \in 0..Tail0 /\ Len(w) \in Nat
  BY DEF Wire
<1>own. Owed \subseteq Nat
  BY DEF Owed
<1>1. v \in Seq(Message) /\ Len(v) = Len(w) + 1 /\ v[Len(w) + 1] = x
      /\ \A p \in 1..Len(w) : v[p] = w[p]
  BY <1>type
<1>2. \A s \in Owed : s <= m => s \in Arrived(v, Len(v))
  <2> SUFFICES ASSUME NEW s \in Owed, s <= m PROVE s \in Arrived(v, Len(v))
    OBVIOUS
  <2>1. CASE s <= n
    BY <1>type, <1>1, <2>1, ArrivedAppend DEF Wire
  <2>2. CASE ~(s <= n)
    <3>1. n < s
      BY <1>type, <1>own, <2>2
    <3> QED
      BY <1>type, <1>1, <3>1, ArrivedAppend
  <2> QED
    BY <2>1, <2>2
<1>3. ASSUME NEW p \in 1..Len(v)
      PROVE  /\ v[p].sequence \in 0..Tail0 /\ (v[p].type = "event" => v[p].sequence > 0)
             /\ v[p].type = "cursor" => Reaches(v[p].sequence)
             /\ \A s \in Owed : s <= v[p].sequence => s \in Arrived(v, p)
  <2>1. CASE p \in 1..Len(w)
    <3>1. v[p] = w[p] /\ Arrived(v, p) = Arrived(w, p)
      BY <1>type, <1>1, <2>1, ArrivedAppend
    <3> HIDE DEF v
    <3> QED
      BY <2>1, <3>1 DEF Wire
  <2>2. CASE p = Len(v)
    <3>1. v[p] = x
      BY <1>1, <2>2
    <3> HIDE DEF v
    <3> QED
      BY <1>2, <2>2, <3>1
  <2> QED
    BY <1>type, <1>1, <1>3, <2>1, <2>2
<1> HIDE DEF v
<1>4. m \in 0..Tail0
  OBVIOUS
<1> QED
  BY <1>1, <1>2, <1>3, <1>4 DEF Wire, v

\* A connection may skip what is not owed.
LEMMA WireSkip ==
  ASSUME NEW w, NEW n, Wire(w, n), NEW m \in 0..Tail0, \A s \in Owed : ~(n < s /\ s <= m)
  PROVE  Wire(w, m)
<1>1. \A s \in Owed : s <= m => s <= n
  BY DEF Owed, Wire
<1> QED
  BY <1>1 DEF Wire

\* Appending to the second part appends to the whole.
LEMMA AppendConcat ==
  ASSUME NEW S, NEW s \in Seq(S), NEW t \in Seq(S), NEW x \in S
  PROVE  s \o Append(t, x) = Append(s \o t, x) /\ Append(t, x) \in Seq(S)
<1>1. Append(t, x) \in Seq(S) /\ Append(t, x) = t \o <<x>> /\ <<x>> \in Seq(S)
  BY AppendProperties, AppendIsConcat
<1>2. s \o t \in Seq(S)
  BY ConcatProperties
<1>3. Append(s \o t, x) = (s \o t) \o <<x>>
  BY <1>2, AppendIsConcat
<1> QED
  BY <1>1, <1>3, ConcatAssociative

\* sendDurable for each of a rising sequence of events that leaves out nothing owed:
\* the connection has sent everything owed up to the last of them.
LEMMA SendAllWire ==
  ASSUME NEW w, NEW n, Wire(w, n), NEW live \in BOOLEAN, NEW q \in Seq(1..Tail0),
         \A a, b \in 1..Len(q) : a < b => q[a] < q[b],
         \A s \in Owed, b \in 1..Len(q) :
           n < s /\ s <= q[b] => \E a \in 1..Len(q) : q[a] = s,
         Tail0 \in Nat
  PROVE  LET c == SendAll(n, q, live) IN
         /\ c.out \in Seq(Message) /\ Wire(w \o c.out, c.sent)
         /\ n <= c.sent /\ \A b \in 1..Len(q) : q[b] <= c.sent
         /\ \A m \in Nat : n <= m /\ (\A b \in 1..Len(q) : q[b] <= m) => c.sent <= m
<1> DEFINE c == SendEach(n, q, live)
           Sound(d, N) ==
             /\ d.out \in Seq(Message) /\ Wire(w \o d.out, d.sent)
             /\ n <= d.sent /\ \A b \in 1..N : q[b] <= d.sent
             /\ d.sent = n \/ \E b \in 1..N : d.sent = q[b]
           S == {N \in Nat : N <= Len(q) => Sound(c[N], N)}
<1>type. w \in Seq(Message) /\ n \in 0..Tail0
  BY DEF Wire
<1>c. /\ c[0] = [sent |-> n, out |-> << >>]
      /\ \A b \in 1..Len(q) : c[b] = SendDurable(c[b - 1], q[b], live)
  <2>1. q \in Seq(Nat)
    OBVIOUS
  <2> QED
    BY <2>1, SendEachIs
<1> HIDE DEF c
<1>1. 0 \in S
  <2>1. w \o << >> = w
    BY <1>type
  <2>2. << >> \in Seq(Message)
    OBVIOUS
  <2>3. c[0].sent = n /\ c[0].out = << >>
    BY <1>c
  <2>4. n <= n
    BY <1>type
  <2>5. Sound(c[0], 0)
    BY <2>1, <2>2, <2>3, <2>4
  <2> HIDE DEF Sound
  <2> QED
    BY <2>5
<1>2. ASSUME NEW N \in Nat, N \in S PROVE N + 1 \in S
  <2> SUFFICES ASSUME N + 1 \in 1..Len(q) PROVE Sound(c[N + 1], N + 1)
    OBVIOUS
  <2> DEFINE d == c[N]
             e == c[N + 1]
             s == q[N + 1]
  <2>d. d.out \in Seq(Message) /\ Wire(w \o d.out, d.sent) /\ n <= d.sent
        /\ (\A b \in 1..N : q[b] <= d.sent)
        /\ (d.sent = n \/ \E b \in 1..N : d.sent = q[b])
    <3>1. Sound(c[N], N)
      <4> HIDE DEF Sound
      <4> QED
        BY <1>2
    <3> QED
      BY <3>1
  <2>e. e = SendDurable(d, s, live)
    BY <1>c
  <2>s. s \in 1..Tail0 /\ d.sent \in 0..Tail0
    BY <2>d DEF Wire
  <2> HIDE DEF d, e, s
  <2>1. \A t \in Owed : d.sent < t /\ t <= s => t = s
    <3> SUFFICES ASSUME NEW t \in Owed, d.sent < t, t <= s PROVE t = s
      OBVIOUS
    <3>0. t \in Nat
      BY DEF Owed
    <3>1. n < t
      BY <1>type, <2>d, <2>s, <3>0
    <3>2. PICK a \in 1..Len(q) : q[a] = t
      BY <3>1 DEF s
    <3>3. ~(a \in 1..N)
      BY <2>d, <2>s, <3>0, <3>2
    <3>4. ~(N + 1 < a)
      <4>1. N + 1 < a => s < t
        BY <3>2 DEF s
      <4> QED
        BY <2>s, <3>0, <4>1
    <3>5. a = N + 1
      BY <3>3, <3>4
    <3> QED
      BY <3>2, <3>5 DEF s
  <2>5. ASSUME s <= d.sent PROVE \A b \in 1..(N + 1) : q[b] <= d.sent
    <3>1. \A b \in 1..(N + 1) : b \in 1..N \/ q[b] = s
      BY DEF s
    <3> QED
      BY <2>d, <2>5, <3>1
  <2>6. ASSUME e.sent = d.sent PROVE e.sent = n \/ \E b \in 1..(N + 1) : e.sent = q[b]
    BY <2>d, <2>6
  <2>7. ASSUME e.sent = s PROVE \E b \in 1..(N + 1) : e.sent = q[b]
    BY <2>7 DEF s
  <2>8. SUFFICES Sound(e, N + 1)
    BY DEF e
  <2>2. CASE KindAt(s) = "ivAlert" /\ live
    <3>1. e.out = d.out /\ e.sent = IF s > d.sent THEN s ELSE d.sent
      BY <2>e, <2>2, <2>d DEF SendDurable
    <3>2. \A t \in Owed : Durable(t)
      BY DEF Owed
    <3>3. CASE s > d.sent
      <4>1. \A t \in Owed : ~(d.sent < t /\ t <= s)
        BY <2>1, <2>2, <3>2 DEF Durable, DurableKinds
      <4>2. Wire(w \o d.out, s)
        BY <2>d, <2>s, <4>1, WireSkip
      <4>3. n <= s /\ \A b \in 1..(N + 1) : q[b] <= s
        <5> SUFFICES ASSUME NEW b \in 1..(N + 1) PROVE n <= s /\ q[b] <= s
          BY <2>s, <2>d, <3>3, <1>type
        <5>1. b \in 1..N \/ q[b] = s
          BY DEF s
        <5>2. q[b] \in Nat
          OBVIOUS
        <5> QED
          BY <1>type, <2>s, <2>d, <3>3, <5>1, <5>2
      <4> QED
        BY <2>7, <2>d, <3>1, <3>3, <4>2, <4>3
    <3>4. CASE ~(s > d.sent)
      <4>1. e.sent = d.sent
        BY <3>1, <3>4
      <4> QED
        BY <2>d, <2>s, <2>5, <2>6, <3>1, <3>4, <4>1
    <3> QED
      BY <3>3, <3>4
  <2>3. CASE s <= d.sent /\ ~(KindAt(s) = "ivAlert" /\ live)
    <3>1. e = d
      BY <2>e, <2>3 DEF SendDurable
    <3> QED
      BY <2>d, <2>s, <2>3, <2>5, <2>6, <3>1
  <2>4. CASE ~(s <= d.sent) /\ ~(KindAt(s) = "ivAlert" /\ live)
    <3> DEFINE x == [type |-> "event", sequence |-> s]
    <3>1. e.sent = s /\ e.out = IF KindAt(s) \in DurableKinds THEN Append(d.out, x) ELSE d.out
      BY <2>e, <2>4 DEF SendDurable
    <3>2. n <= s /\ \A b \in 1..(N + 1) : q[b] <= s
      <4> SUFFICES ASSUME NEW b \in 1..(N + 1) PROVE n <= s /\ q[b] <= s
        BY <2>s, <2>d, <2>4, <1>type
      <4>1. b \in 1..N \/ q[b] = s
        BY DEF s
      <4>2. q[b] \in Nat
        OBVIOUS
      <4> QED
        BY <1>type, <2>s, <2>d, <2>4, <4>1, <4>2
    <3>3. CASE KindAt(s) \in DurableKinds
      <4>1. x \in Message /\ x.type = "event" /\ x.sequence = s
        BY <2>s DEF Message
      <4> HIDE DEF x
      <4>2. w \o Append(d.out, x) = Append(w \o d.out, x) /\ Append(d.out, x) \in Seq(Message)
        BY <1>type, <2>d, <4>1, AppendConcat
      <4>3. Wire(Append(w \o d.out, x), x.sequence)
        BY <2>d, <2>s, <2>1, <2>4, <4>1, WireAppend
      <4> QED
        BY <2>7, <3>1, <3>2, <3>3, <4>1, <4>2, <4>3
    <3>4. CASE KindAt(s) \notin DurableKinds
      <4>1. \A t \in Owed : ~(d.sent < t /\ t <= s)
        BY <2>1, <3>4 DEF Owed, Durable
      <4>2. Wire(w \o d.out, s)
        BY <2>d, <2>s, <4>1, WireSkip
      <4> QED
        BY <2>7, <2>d, <3>1, <3>2, <3>4, <4>2
    <3> QED
      BY <3>3, <3>4
  <2> QED
    BY <2>2, <2>3, <2>4
<1>3. Sound(c[Len(q)], Len(q))
  <2> HIDE DEF S
  <2>1. Len(q) \in Nat
    OBVIOUS
  <2>2. Len(q) \in S
    BY <1>1, <1>2, <2>1, Induction
  <2> HIDE DEF Sound
  <2> QED
    BY <2>1, <2>2 DEF S
<1>4. \A m \in Nat : n <= m /\ (\A b \in 1..Len(q) : q[b] <= m) => c[Len(q)].sent <= m
  BY <1>3
<1> QED
  BY <1>3, <1>4 DEF SendAll, c

-----------------------------------------------------------------------------
(* What a drain does to the queue.                                         *)

\* What stands in a queue.
Queued(q) == {q[n] : n \in 1..Len(q)}

\* A drain hears events in order and forgets none: what it passes is heard, what it
\* does not pass is queued again, unless it breaks.
LEMMA DrainSound ==
  ASSUME NEW consumers, NEW from \in 0..Tail0, NEW q \in Seq(1..Tail0), NEW bad,
         heard \subseteq 1..Tail0, \A s \in Owed : from < s, Tail0 \in Nat
  PROVE  LET d == DrainEach(consumers, from, q, bad)[Len(q)] IN
         /\ d.cursor \in 0..Tail0 /\ from <= d.cursor
         /\ heard \subseteq d.heard /\ d.heard \subseteq 1..Tail0
         /\ d.queue \in Seq(1..Tail0) /\ Len(d.queue) <= Len(q)
         /\ \A s \in Owed : s <= d.cursor => s \in d.heard
         /\ \A s \in d.heard \ heard : \A t \in Owed : t <= s => t \in d.heard
         /\ d.state = "going" => d.queue = << >>
         /\ d.state # "broken" => \A m \in 1..Len(q) : q[m] <= d.cursor \/ q[m] \in Queued(d.queue)
<1> DEFINE d == DrainEach(consumers, from, q, bad)
           Place(e, N) ==
             /\ DOMAIN e = {"state", "cursor", "queue", "heard", "consumers"}
             /\ e.cursor \in 0..Tail0 /\ from <= e.cursor
             /\ e.queue \in Seq(1..Tail0) /\ Len(e.queue) <= N
             /\ e.state = "going" => e.queue = << >>
           Heard(e) ==
             /\ heard \subseteq e.heard /\ e.heard \subseteq 1..Tail0
             /\ \A s \in Owed : s <= e.cursor => s \in e.heard
             /\ \A s \in e.heard \ heard : \A t \in Owed : t <= s => t \in e.heard
           Kept(e, N) ==
             e.state # "broken" => \A m \in 1..N : q[m] <= e.cursor \/ q[m] \in Queued(e.queue)
           Sound(e, N) == Place(e, N) /\ Heard(e) /\ Kept(e, N)
           S == {N \in Nat : N <= Len(q) => Sound(d[N], N)}
           first == [state |-> "going", cursor |-> from, queue |-> << >>, heard |-> heard,
                     consumers |-> consumers]
<1>own. \A s \in Owed : s \in 1..Tail0
  BY DEF Owed
<1>d. /\ d[0] = first
      /\ \A b \in 1..Len(q) : d[b] = DrainOne(d[b - 1], q[b], bad)
  <2>1. q \in Seq(Nat)
    OBVIOUS
  <2> QED
    BY <2>1, DrainEachIs
<1> HIDE DEF d
<1>1. 0 \in S
  <2>1. Place(first, 0)
    OBVIOUS
  <2>2. Heard(first)
    BY <1>own
  <2>3. Kept(first, 0)
    OBVIOUS
  <2> HIDE DEF Place, Heard, Kept, first
  <2> QED
    BY <1>d, <2>1, <2>2, <2>3
<1>2. ASSUME NEW N \in Nat, N \in S PROVE N + 1 \in S
  <2> SUFFICES ASSUME N + 1 \in 1..Len(q) PROVE Sound(d[N + 1], N + 1)
    OBVIOUS
  <2> DEFINE e == d[N]
             f == d[N + 1]
             s == q[N + 1]
  <2>e. Place(e, N) /\ Heard(e) /\ Kept(e, N)
    <3> HIDE DEF Place, Heard, Kept
    <3> QED
      BY <1>2
  <2>f. f = DrainOne(e, s, bad)
    BY <1>d
  <2>s. s \in 1..Tail0 /\ \A m \in 1..(N + 1) : m \in 1..N \/ q[m] = s
    OBVIOUS
  <2> HIDE DEF d, e, f, s
  <2>typ. \A m \in 1..(N + 1) : q[m] \in Nat
    OBVIOUS
  <2>1. CASE /\ e.state # "going" \/ (s > e.cursor /\ s = e.cursor + 1 /\ ~Consumed(e, s))
             /\ f.queue = Append(e.queue, s) /\ f.cursor = e.cursor /\ f.heard = e.heard
             /\ DOMAIN f = DOMAIN e /\ f.state # "going"
             /\ f.state = "broken" <=> e.state = "broken"
    <3>1. Append(e.queue, s) \in Seq(1..Tail0) /\ Len(Append(e.queue, s)) = Len(e.queue) + 1
          /\ Queued(e.queue) \cup {s} \subseteq Queued(Append(e.queue, s))
          /\ Len(e.queue) \in Nat
      <4>1. /\ Append(e.queue, s) \in Seq(1..Tail0) /\ Len(Append(e.queue, s)) = Len(e.queue) + 1
            /\ \A i \in 1..Len(e.queue) : Append(e.queue, s)[i] = e.queue[i]
            /\ Append(e.queue, s)[Len(e.queue) + 1] = s /\ Len(e.queue) \in Nat
        BY <2>e, <2>s, AppendProperties, LenProperties
      <4> DEFINE r == Append(e.queue, s)
      <4> HIDE DEF r
      <4>2. Queued(e.queue) \cup {s} \subseteq Queued(r)
        BY <4>1 DEF Queued, r
      <4> QED
        BY <4>1, <4>2 DEF r
    <3>2. Place(f, N + 1)
      BY <2>1, <2>e, <3>1
    <3>3. Heard(f)
      BY <2>1, <2>e
    <3>4. Kept(f, N + 1)
      BY <2>1, <2>e, <2>s, <3>1
    <3> QED
      BY <3>2, <3>3, <3>4 DEF f
  <2>2. CASE e.state = "going" /\ s <= e.cursor /\ f = e
    <3>1. Place(f, N + 1)
      BY <2>2, <2>e
    <3>2. Kept(f, N + 1)
      BY <2>2, <2>e, <2>s
    <3> QED
      BY <2>2, <2>e, <3>1, <3>2 DEF f
  <2>3. CASE /\ e.state = "going" /\ f.state = "broken" /\ f.queue = e.queue /\ f.cursor = e.cursor
             /\ DOMAIN f = DOMAIN e
             /\ f.heard = e.heard \/ (f.heard = e.heard \cup {s} /\ s = e.cursor + 1)
    <3>1. Place(f, N + 1)
      BY <2>3, <2>e
    <3>2. Heard(f)
      <4>0. CASE f.heard = e.heard
        BY <2>3, <2>e, <4>0
      <4>1. CASE f.heard = e.heard \cup {s} /\ s = e.cursor + 1
        <5>1. \A t \in Owed : t <= s => t \in f.heard
          <6>1. \A t \in Owed : t <= s => t <= e.cursor \/ t = s
            BY <2>e, <2>s, <1>own, <4>1
          <6> QED
            BY <2>e, <4>1, <6>1
        <5>2. \A u \in f.heard \ heard : u = s \/ u \in e.heard \ heard
          BY <4>1
        <5>3. \A u \in f.heard \ heard : \A t \in Owed : t <= u => t \in f.heard
          BY <2>e, <4>1, <5>1, <5>2
        <5>4. \A t \in Owed : t <= f.cursor => t \in f.heard
          BY <2>3, <2>e, <4>1, <5>1
        <5>5. heard \subseteq f.heard /\ f.heard \subseteq 1..Tail0
          BY <2>e, <2>s, <4>1
        <5> QED
          BY <5>3, <5>4, <5>5
      <4> QED
        BY <2>3, <4>0, <4>1
    <3>3. Kept(f, N + 1)
      BY <2>3
    <3> QED
      BY <3>1, <3>2, <3>3 DEF f
  <2>4. CASE /\ e.state = "going" /\ s = e.cursor + 1 /\ f.state = "going" /\ f.cursor = s
             /\ f.queue = e.queue /\ f.heard = e.heard \cup {s} /\ DOMAIN f = DOMAIN e
    <3>1. Place(f, N + 1)
      BY <2>4, <2>e, <2>s
    <3>2. Heard(f)
      <4>1. CASE f.heard = e.heard \cup {s} /\ s = e.cursor + 1
        <5>1. \A t \in Owed : t <= s => t \in f.heard
          <6>1. \A t \in Owed : t <= s => t <= e.cursor \/ t = s
            BY <2>e, <2>s, <1>own, <4>1
          <6> QED
            BY <2>e, <4>1, <6>1
        <5>2. \A u \in f.heard \ heard : u = s \/ u \in e.heard \ heard
          BY <4>1
        <5>3. \A u \in f.heard \ heard : \A t \in Owed : t <= u => t \in f.heard
          BY <2>e, <4>1, <5>1, <5>2
        <5>4. \A t \in Owed : t <= f.cursor => t \in f.heard
          BY <2>4, <2>e, <4>1, <5>1
        <5>5. heard \subseteq f.heard /\ f.heard \subseteq 1..Tail0
          BY <2>e, <2>s, <4>1
        <5> QED
          BY <5>3, <5>4, <5>5
      <4> QED
        BY <2>4, <4>1
    <3>3. Kept(f, N + 1)
      <4>1. ASSUME NEW m \in 1..(N + 1) PROVE q[m] <= f.cursor
        <5>1. m \in 1..N => q[m] <= e.cursor
          BY <2>4, <2>e DEF Queued
        <5> QED
          BY <2>4, <2>e, <2>s, <2>typ, <5>1
      <4> QED
        BY <4>1
    <3> QED
      BY <3>1, <3>2, <3>3 DEF f
  <2>5. DOMAIN e = {"state", "cursor", "queue", "heard", "consumers"} /\ e.cursor \in Nat
    BY <2>e
  <2> HIDE DEF Sound
  <2> QED
    BY <2>f, <2>s, <2>1, <2>2, <2>3, <2>4, <2>5 DEF DrainOne, Consumed, f
<1>3. Sound(d[Len(q)], Len(q))
  <2>1. Len(q) \in Nat
    OBVIOUS
  <2> HIDE DEF S
  <2>2. Len(q) \in S
    BY <1>1, <1>2, <2>1, Induction
  <2> HIDE DEF Sound
  <2> QED
    BY <2>1, <2>2 DEF S
<1> QED
  BY <1>3 DEF d

\* What a drain of the queue q does to the device: nothing owed is lost, the checkpoint covers
\* what it passes, and the connection stays unless the drain breaks.
Drained(q) ==
  /\ DeviceSound'
  /\ heard \subseteq heard' /\ heard' \subseteq 1..Tail0 /\ Owed' \subseteq Owed
  /\ cursor' \in 0..Tail0 \cup {NoCursor}
  /\ queue' \in Seq(1..Tail0) /\ Len(queue') <= QueueLimit
  /\ deferred' \in Nat \cup {NoCursor} /\ ready' \in {"no", "handshake", "timer"}
  /\ \A s \in heard' \ heard : \A t \in Owed : t <= s => t \in heard'
  /\ cursor # NoCursor => cursor' # NoCursor /\ cursor <= cursor'
  /\ \/ Torn
     \/ UNCHANGED serverVars /\ \A s \in Owed' : s \in Queued(q) => s \in Queued(queue')

\* A drain from a sound device, of a queue with everything its cursor waits for, is Drained.
LEMMA DrainKeeps ==
  ASSUME DeviceSound, Tail0 \in Nat, opened \in 0..Tail0, heard \subseteq 1..Tail0,
         ready \in {"no", "handshake", "timer"},
         cursor \in 0..Tail0 \cup {NoCursor},
         NEW consumers, NEW from \in 0..Tail0 \cup {NoCursor}, NEW q \in Seq(1..Tail0),
         NEW tail \in 0..Tail0 \cup {NoCursor}, NEW bad,
         from = NoCursor => q = << >>, Len(q) <= QueueLimit,
         cursor # NoCursor => from = cursor,
         from # NoCursor => \A s \in Owed : from < s,
         tail # NoCursor => Reaches(tail) /\ \A s \in Owed : s <= tail => s \in Queued(q),
         Drain(consumers, from, q, tail, bad), UNCHANGED <<rows, origin, opened>>
  PROVE  /\ Drained(q)
         /\ q = << >> /\ tail = NoCursor =>
              /\ UNCHANGED <<serverVars, ready, heard>> /\ queue' = << >> /\ deferred' = NoCursor
              /\ cursor' = from
<1> DEFINE d == DrainEach(consumers, from, q, bad)[Len(q)]
<1>nc. NoCursor \notin Nat /\ QueueLimit \in Nat
  BY StreamAssumption
<1>own. \A s \in Owed : s \in 1..Tail0
  BY DEF Owed
<1>first. DrainEach(consumers, from, q, bad)[0] =
            [state |-> "going", cursor |-> from, queue |-> << >>, heard |-> heard,
             consumers |-> consumers]
  <2>1. q \in Seq(Nat)
    OBVIOUS
  <2> QED
    BY <2>1, DrainEachIs
<1>0. ASSUME q = << >>
      PROVE  d = [state |-> "going", cursor |-> from, queue |-> << >>, heard |-> heard,
                  consumers |-> consumers]
  <2>1. Len(q) = 0
    BY <1>0
  <2> QED
    BY <1>first, <2>1
<1>1. /\ d.cursor \in 0..Tail0 \cup {NoCursor}
      /\ from # NoCursor => d.cursor # NoCursor /\ from <= d.cursor
      /\ from = NoCursor => d.cursor = NoCursor /\ d.state = "going"
      /\ heard \subseteq d.heard /\ d.heard \subseteq 1..Tail0
      /\ d.queue \in Seq(1..Tail0) /\ Len(d.queue) <= Len(q)
      /\ d.cursor # NoCursor => \A s \in Owed : s <= d.cursor => s \in d.heard
      /\ \A s \in d.heard \ heard : \A t \in Owed : t <= s => t \in d.heard
      /\ d.state = "going" => d.queue = << >>
      /\ d.state # "broken" =>
           \A s \in Queued(q) : (d.cursor # NoCursor /\ s <= d.cursor) \/ s \in Queued(d.queue)
  <2>1. CASE from = NoCursor
    <3>1. q = << >> /\ Queued(q) = {} /\ Len(q) = 0
      BY <2>1 DEF Queued
    <3>2. d.cursor = NoCursor /\ d.state = "going" /\ d.heard = heard /\ d.queue = << >>
      BY <1>0, <2>1, <3>1
    <3> HIDE DEF d
    <3> QED
      BY <2>1, <3>1, <3>2
  <2>2. CASE from # NoCursor
    <3>1. from \in 0..Tail0 /\ \A s \in Owed : from < s
      BY <2>2
    <3>2. /\ d.cursor \in 0..Tail0 /\ from <= d.cursor
          /\ heard \subseteq d.heard /\ d.heard \subseteq 1..Tail0
          /\ d.queue \in Seq(1..Tail0) /\ Len(d.queue) <= Len(q)
          /\ \A s \in Owed : s <= d.cursor => s \in d.heard
          /\ \A s \in d.heard \ heard : \A t \in Owed : t <= s => t \in d.heard
          /\ d.state = "going" => d.queue = << >>
          /\ d.state # "broken" =>
               \A m \in 1..Len(q) : q[m] <= d.cursor \/ q[m] \in Queued(d.queue)
      BY <3>1, DrainSound
    <3> HIDE DEF d
    <3>3. d.cursor # NoCursor
      BY <1>nc, <3>2
    <3> QED
      BY <2>2, <3>2, <3>3 DEF Queued
  <2> QED
    BY <2>1, <2>2
<1>2. /\ heard' = d.heard
      /\ \/ d.state = "broken" /\ cursor' = d.cursor /\ Torn
         \/ /\ d.state = "going" /\ tail # NoCursor
            /\ queue' = d.queue
            /\ cursor' = IF d.cursor = NoCursor \/ tail > d.cursor THEN tail ELSE d.cursor
            /\ ready' = IF ready = "no" THEN "handshake" ELSE ready
            /\ deferred' = NoCursor /\ UNCHANGED serverVars
         \/ /\ d.state # "broken" /\ (d.state # "going" \/ tail = NoCursor)
            /\ queue' = d.queue
            /\ cursor' = d.cursor /\ deferred' = tail /\ UNCHANGED <<ready, serverVars>>
  BY DEF Drain, Delivered
<1> HIDE DEF d
<1>3. Owed' = {s \in Owed : s \notin d.heard}
  BY <1>1, <1>2 DEF Owed, Durable, KindAt, Tail0
<1>r. \A n : Reaches(n)' <=> Reaches(n)
  BY DEF Reaches
<1>dev. ready = "handshake" => cursor # NoCursor /\ Reaches(cursor)
  BY DEF DeviceSound
<1>4. CASE d.state = "broken" /\ cursor' = d.cursor /\ Torn
  <2>1. queue' = << >> /\ deferred' = NoCursor /\ ready' = "no"
    BY <1>4 DEF Torn
  <2>2. from # NoCursor /\ d.cursor # NoCursor
    BY <1>1, <1>4
  <2>3. DeviceSound'
    <3>1. \A s \in Owed' : s > d.cursor
      BY <1>1, <1>3, <1>own, <2>2
    <3> QED
      BY <1>4, <2>1, <2>2, <3>1 DEF DeviceSound
  <2>4. q # << >>
    BY <1>0, <1>4
  <2>5. << >> \in Seq(1..Tail0) /\ Len(<< >>) <= QueueLimit
    BY <1>nc
  <2> QED
    BY <1>1, <1>2, <1>3, <1>4, <2>1, <2>2, <2>3, <2>4, <2>5 DEF Drained
<1>5. CASE /\ d.state = "going" /\ tail # NoCursor
           /\ queue' = d.queue
           /\ cursor' = IF d.cursor = NoCursor \/ tail > d.cursor THEN tail ELSE d.cursor
           /\ ready' = IF ready = "no" THEN "handshake" ELSE ready
           /\ deferred' = NoCursor /\ UNCHANGED serverVars
  <2>1. queue' = << >> /\ Queued(queue') = {}
    BY <1>1, <1>5 DEF Queued
  <2>t. tail \in 0..Tail0 /\ (d.cursor # NoCursor => d.cursor \in 0..Tail0)
    BY <1>1, <1>5
  <2>2. cursor' \in 0..Tail0 /\ tail <= cursor' /\ (d.cursor # NoCursor => d.cursor <= cursor')
        /\ (cursor' = tail \/ (cursor' = d.cursor /\ d.cursor # NoCursor))
    <3>1. CASE d.cursor = NoCursor
      <4>1. cursor' = tail
        BY <1>5, <3>1, Zenon
      <4>2. tail <= tail
        BY <2>t
      <4>3. cursor' \in 0..Tail0 /\ tail <= cursor'
        BY <2>t, <4>1, <4>2, Zenon
      <4> QED
        BY <3>1, <4>1, <4>3, Zenon
    <3>2. CASE d.cursor # NoCursor
      <4>1. d.cursor \in 0..Tail0
        BY <2>t, <3>2
      <4>2. tail > d.cursor \/ tail <= d.cursor
        BY <2>t, <4>1
      <4> QED
        BY <1>5, <2>t, <3>2, <4>1, <4>2
    <3> QED
      BY <3>1, <3>2
  <2>3. \A s \in Owed' : s \notin Queued(q)
    BY <1>1, <1>3, <1>5, <1>own, <2>1
  <2>4. \A s \in Owed' : s > cursor'
    <3> SUFFICES ASSUME NEW s \in Owed', s <= cursor' PROVE FALSE
      BY <1>3, <1>own, <2>2
    <3>1. s \in Owed /\ s \notin d.heard
      BY <1>3
    <3>2. s <= tail \/ (d.cursor # NoCursor /\ s <= d.cursor)
      BY <2>2
    <3> QED
      BY <1>1, <1>5, <2>3, <3>1, <3>2
  <2>5. Reaches(cursor')
    BY <1>5, <2>2, <1>nc DEF Reaches
  <2>6. cursor' # NoCursor /\ (cursor # NoCursor => cursor <= cursor')
    BY <1>1, <1>nc, <2>2
  <2>7. DeviceSound'
    <3>1. Reaches(cursor)'
      BY <2>5 DEF Reaches
    <3> QED
      BY <1>5, <2>4, <2>6, <3>1 DEF DeviceSound
  <2>8. Len(queue') <= QueueLimit /\ queue' \in Seq(1..Tail0)
    BY <2>1, <1>nc
  <2> QED
    BY <1>1, <1>2, <1>3, <1>5, <2>1, <2>2, <2>3, <2>6, <2>7, <2>8 DEF Drained
<1>6. CASE /\ d.state # "broken" /\ (d.state # "going" \/ tail = NoCursor)
           /\ queue' = d.queue
           /\ cursor' = d.cursor /\ deferred' = tail /\ UNCHANGED <<ready, serverVars>>
  <2>0. d.state # "broken"
    BY <1>6
  <2>1. \A s \in Owed' : s \in Queued(q) => s \in Queued(queue')
    BY <1>1, <1>3, <1>6, <1>own, <2>0
  <2>2. tail # NoCursor => \A s \in Owed' : s <= tail => s \in Queued(queue')
    BY <1>3, <2>1
  <2>3. cursor' # NoCursor => \A s \in Owed' : s > cursor'
    BY <1>1, <1>3, <1>6, <1>own
  <2>4. cursor' = NoCursor => queue' = << >> /\ deferred' = NoCursor
    <3> SUFFICES ASSUME cursor' = NoCursor PROVE queue' = << >> /\ deferred' = NoCursor
      OBVIOUS
    <3>1. d.state = "going"
      BY <1>1, <1>6
    <3> QED
      BY <1>1, <1>6, <3>1
  <2>5. ready' = "handshake" => cursor' # NoCursor /\ Reaches(cursor')
    <3> SUFFICES ASSUME ready = "handshake" PROVE cursor' # NoCursor /\ Reaches(cursor')
      BY <1>6
    <3>1. cursor # NoCursor /\ Reaches(cursor) /\ from = cursor
      BY <1>dev
    <3>2. cursor' # NoCursor /\ cursor <= cursor'
      BY <1>1, <1>6, <3>1
    <3>3. cursor \in Nat /\ cursor' \in Nat
      BY <1>1, <1>6, <3>1, <3>2
    <3> QED
      BY <3>1, <3>2, <3>3 DEF Reaches
  <2>6. DeviceSound'
    <3>1. UNCHANGED Tail0
      BY DEF Tail0
    <3>2. ready' = "handshake" => Reaches(cursor)'
      BY <2>5 DEF Reaches
    <3>3. deferred' # NoCursor => deferred' <= Tail0 /\ Reaches(deferred)'
      BY <1>6 DEF Reaches
    <3> QED
      BY <1>6, <2>2, <2>3, <2>4, <2>5, <3>1, <3>2, <3>3 DEF DeviceSound, Queued
  <2>7. q = << >> /\ tail = NoCursor =>
          queue' = << >> /\ deferred' = NoCursor /\ cursor' = from /\ heard' = heard
    <3> SUFFICES ASSUME q = << >>, tail = NoCursor
                 PROVE  queue' = << >> /\ deferred' = NoCursor /\ cursor' = from /\ heard' = heard
      OBVIOUS
    <3>1. d.queue = << >> /\ d.cursor = from /\ d.heard = heard
      BY <1>0
    <3> QED
      BY <1>2, <1>6, <3>1
  <2>8. /\ heard \subseteq heard' /\ heard' \subseteq 1..Tail0 /\ Owed' \subseteq Owed
        /\ \A s \in heard' \ heard : \A t \in Owed : t <= s => t \in heard'
    BY <1>1, <1>2, <1>3
  <2>9. /\ cursor' \in 0..Tail0 \cup {NoCursor}
        /\ queue' \in Seq(1..Tail0) /\ Len(queue') <= QueueLimit
        /\ deferred' \in Nat \cup {NoCursor}
    BY <1>1, <1>6, <1>nc
  <2>11. ready' \in {"no", "handshake", "timer"}
    BY <1>6
  <2>10. cursor # NoCursor => cursor' # NoCursor /\ cursor <= cursor'
    BY <1>1, <1>6
  <2> QED
    BY <1>6, <2>1, <2>6, <2>7, <2>8, <2>9, <2>10, <2>11 DEF Drained
<1> QED
  BY <1>2, <1>4, <1>5, <1>6

-----------------------------------------------------------------------------
(* The log grows in order.                                                 *)

\* A publication adds at most one row: past every ordinal in sight, of a new event.
NewRow(row) ==
  /\ rows' = Append(rows, row)
  /\ \A s \in 1..Len(rows) : Ordinal(s) < row.ordinal /\ rows[s].event # row.event
  /\ \A i \in Instances :
       since[i] < row.ordinal /\ last[i] < row.ordinal /\ row.event \notin emitted[i]

\* Publishing leaves the pollers alone.
LEMMA Published ==
  ASSUME TransportInv, \A i \in Instances : EmittedInOrder(i), PublishStep
  PROVE  UNCHANGED pollVars /\ (rows' = rows \/ \E row \in Row : NewRow(row))
<1>inv. TransportTypeOK /\ OneHolder /\ OrdinalsInOrder
  BY DEF TransportInv
<1>1. ASSUME NEW e \in Events, Allocate(e) \/ Abort(e)
      PROVE  UNCHANGED pollVars /\ rows' = rows
  BY <1>1 DEF Allocate, Abort
<1>2. ASSUME NEW e \in Events, NEW reply \in BOOLEAN, Commit(e, reply)
      PROVE  UNCHANGED pollVars /\ (rows' = rows \/ \E row \in Row : NewRow(row))
  <2> DEFINE row == [event |-> e, ordinal |-> allocated[e]]
  <2>1. UNCHANGED pollVars /\ e \in holders
    BY <1>2, <1>inv DEF Commit, OneHolder
  <2>2. AboveAll(allocated[e]) /\ allocated[e] \in Nat
    BY <2>1, <1>inv DEF OrdinalsInOrder, TransportTypeOK
  <2>3. rows' = rows \/ (~Duplicate(e) /\ rows' = Append(rows, row))
    BY <1>2 DEF Commit
  <2>4. ASSUME ~Duplicate(e), rows' = Append(rows, row) PROVE NewRow(row)
    <3>1. \A s \in 1..Len(rows) : Ordinal(s) < row.ordinal /\ rows[s].event # e
      BY <2>2, <2>4 DEF AboveAll, Duplicate
    <3>2. ASSUME NEW i \in Instances
          PROVE  since[i] < row.ordinal /\ last[i] < row.ordinal /\ e \notin emitted[i]
      <4>1. last[i] < row.ordinal
        BY <2>2 DEF AboveAll
      <4>2. since[i] <= last[i] /\ since[i] \in Nat /\ last[i] \in Nat
        BY <1>inv DEF EmittedInOrder, TransportTypeOK
      <4>3. e \notin emitted[i]
        BY <3>1 DEF EmittedInOrder, Tail0
      <4> QED
        BY <2>2, <4>1, <4>2, <4>3
    <3> QED
      BY <2>4, <3>1, <3>2 DEF NewRow
  <2>5. row \in Row
    BY <2>2 DEF Row
  <2> QED
    BY <2>1, <2>3, <2>4, <2>5
<1> QED
  BY <1>1, <1>2 DEF PublishStep

\* The rows there are stay where they are, and one may follow them.
LEMMA RowsGrow ==
  ASSUME rows \in Seq(Row), NEW row \in Row, NewRow(row)
  PROVE  /\ Len(rows) \in Nat /\ Len(rows') = Len(rows) + 1 /\ rows'[Len(rows) + 1] = row
         /\ \A s \in 1..Len(rows) : s \in 1..Len(rows') /\ rows'[s] = rows[s]
         /\ \A s \in 1..Len(rows') : s \in 1..Len(rows) \/ s = Len(rows) + 1
BY AppendProperties, LenProperties DEF NewRow

\* The log stays in order, and what an instance has emitted behind its place.
LEMMA LogKept ==
  ASSUME TransportInv, LogInOrder, \A i \in Instances : EmittedInOrder(i), TransportStep
  PROVE  LogInOrder' /\ \A i \in Instances : EmittedInOrder(i)'
<1>type. TransportTypeOK
  BY DEF TransportInv
<1>fun. /\ rows \in Seq(Row)
        /\ last \in [Instances -> Nat] /\ since \in [Instances -> Nat]
        /\ batch \in [Instances -> SUBSET (1..Len(rows))]
        /\ emitted \in [Instances -> SUBSET Events]
        /\ Len(rows) \in Nat
  BY <1>type, LenProperties DEF TransportTypeOK
<1>ord. \A s \in 1..Len(rows) : Ordinal(s) \in Nat
  BY <1>fun, RowAt
<1>0. ASSUME UNCHANGED rows PROVE LogInOrder'
  BY <1>0 DEF LogInOrder, Tail0, Ordinal
<1>1. CASE PublishStep
  <2>1. UNCHANGED <<last, since, batch, emitted>> /\ (rows' = rows \/ \E row \in Row : NewRow(row))
    BY <1>1, Published DEF pollVars
  <2>2. CASE rows' = rows
    BY <1>0, <2>1, <2>2 DEF EmittedInOrder, Tail0, Ordinal
  <2>3. ASSUME NEW row \in Row, NewRow(row)
        PROVE  LogInOrder' /\ \A i \in Instances : EmittedInOrder(i)'
    <3>1. /\ Len(rows') = Len(rows) + 1 /\ rows'[Len(rows) + 1] = row
          /\ \A s \in 1..Len(rows) : s \in 1..Len(rows') /\ rows'[s] = rows[s]
          /\ \A s \in 1..Len(rows') : s \in 1..Len(rows) \/ s = Len(rows) + 1
      BY <1>fun, <2>3, RowsGrow
    <3>2. LogInOrder'
      <4> SUFFICES ASSUME NEW s \in 1..Len(rows'), NEW t \in 1..Len(rows'), s < t
                   PROVE  rows'[s].ordinal < rows'[t].ordinal /\ rows'[s].event # rows'[t].event
        BY DEF LogInOrder, Tail0, Ordinal
      <4>1. s \in 1..Len(rows) /\ rows'[s] = rows[s]
        BY <1>fun, <3>1
      <4>2. CASE t \in 1..Len(rows)
        <5>1. Ordinal(s) < Ordinal(t) /\ rows[s].event # rows[t].event
          BY <4>1, <4>2 DEF LogInOrder, Tail0
        <5> QED
          BY <3>1, <4>1, <4>2, <5>1 DEF Ordinal
      <4>3. CASE t = Len(rows) + 1
        BY <2>3, <3>1, <4>1, <4>3 DEF NewRow, Ordinal
      <4> QED
        BY <3>1, <4>2, <4>3
    <3>3. ASSUME NEW i \in Instances PROVE EmittedInOrder(i)'
      <4>1. /\ since[i] <= last[i]
            /\ \A e \in emitted[i] : \E s \in 1..Len(rows) : rows[s].event = e /\ Ordinal(s) <= last[i]
            /\ \A s \in batch[i] : last[i] < Ordinal(s)
        BY DEF EmittedInOrder, Tail0
      <4>2. \A e \in emitted[i] : \E s \in 1..Len(rows') :
               rows'[s].event = e /\ rows'[s].ordinal <= last[i]
        BY <3>1, <4>1 DEF Ordinal
      <4>3. \A s \in batch[i] : last[i] < rows'[s].ordinal
        BY <1>fun, <3>1, <4>1 DEF Ordinal
      <4> QED
        BY <2>1, <4>1, <4>2, <4>3 DEF EmittedInOrder, Tail0, Ordinal
    <3> QED
      BY <3>2, <3>3
  <2> QED
    BY <2>1, <2>2, <2>3
<1>2. ASSUME NEW i \in Instances, Query(i)
      PROVE  UNCHANGED rows /\ \A j \in Instances : EmittedInOrder(j)'
  <2>1. /\ batch' = [batch EXCEPT ![i] = RowsAfter(last[i])]
        /\ UNCHANGED <<rows, last, since, emitted>>
    BY <1>2 DEF Query, publishVars
  <2>2. \A j \in Instances : \A s \in batch'[j] : last[j] < Ordinal(s)
    BY <1>fun, <1>ord, <2>1 DEF RowsAfter, EmittedInOrder
  <2> QED
    BY <2>1, <2>2 DEF EmittedInOrder, Ordinal, Tail0
<1>3. ASSUME NEW i \in Instances, Emit(i)
      PROVE  UNCHANGED rows /\ \A j \in Instances : EmittedInOrder(j)'
  <2>1. /\ \/ batch[i] = {} /\ last' = last
           \/ \E s \in batch[i] : /\ \A t \in batch[i] : Ordinal(t) <= Ordinal(s)
                                  /\ last' = [last EXCEPT ![i] = Ordinal(s)]
        /\ emitted' = [emitted EXCEPT ![i] = @ \cup {rows[s].event : s \in batch[i]}]
        /\ batch' = [batch EXCEPT ![i] = {}]
        /\ UNCHANGED <<rows, since>>
    BY <1>3 DEF Emit, publishVars
  <2> SUFFICES ASSUME NEW j \in Instances PROVE EmittedInOrder(j)'
    BY <2>1
  <2>old. /\ since[j] <= last[j]
          /\ \A e \in emitted[j] : \E s \in 1..Len(rows) : rows[s].event = e /\ Ordinal(s) <= last[j]
          /\ \A s \in batch[j] : last[j] < Ordinal(s)
    BY DEF EmittedInOrder, Tail0
  <2>2. CASE j # i
    <3>1. last'[j] = last[j] /\ emitted'[j] = emitted[j] /\ batch'[j] = batch[j]
      BY <1>fun, <2>1, <2>2
    <3> QED
      BY <2>1, <2>old, <3>1 DEF EmittedInOrder, Tail0, Ordinal
  <2>3. CASE j = i
    <3>1. last'[i] \in Nat /\ last[i] <= last'[i] /\ \A s \in batch[i] : Ordinal(s) <= last'[i]
      <4>1. CASE batch[i] = {} /\ last' = last
        BY <1>fun, <4>1
      <4>2. ASSUME NEW s \in batch[i], \A t \in batch[i] : Ordinal(t) <= Ordinal(s),
                   last' = [last EXCEPT ![i] = Ordinal(s)]
            PROVE  last'[i] \in Nat /\ last[i] <= last'[i]
                   /\ \A t \in batch[i] : Ordinal(t) <= last'[i]
        <5>1. last'[i] = Ordinal(s) /\ s \in 1..Len(rows) /\ Ordinal(s) \in Nat /\ last[i] \in Nat
          BY <1>fun, <1>ord, <4>2
        <5>2. last[i] < Ordinal(s)
          BY <2>old, <2>3
        <5> QED
          BY <4>2, <5>1, <5>2
      <4> QED
        BY <2>1, <4>1, <4>2
    <3>2. \A e \in emitted'[i] : \E s \in 1..Len(rows) : rows[s].event = e /\ Ordinal(s) <= last'[i]
      <4> SUFFICES ASSUME NEW e \in emitted'[i]
                   PROVE  \E s \in 1..Len(rows) : rows[s].event = e /\ Ordinal(s) <= last'[i]
        OBVIOUS
      <4>1. e \in emitted[i] \/ \E s \in batch[i] : e = rows[s].event
        BY <1>fun, <2>1
      <4>2. CASE e \in emitted[i]
        <5>1. PICK s \in 1..Len(rows) : rows[s].event = e /\ Ordinal(s) <= last[i]
          BY <2>old, <2>3, <4>2
        <5>2. Ordinal(s) <= last'[i]
          BY <1>fun, <1>ord, <3>1, <5>1
        <5> QED
          BY <5>1, <5>2
      <4>3. CASE \E s \in batch[i] : e = rows[s].event
        BY <1>fun, <3>1, <4>3
      <4> QED
        BY <4>1, <4>2, <4>3
    <3>3. batch'[i] = {} /\ since[i] <= last'[i]
      BY <1>fun, <2>1, <2>old, <2>3, <3>1
    <3> QED
      BY <2>1, <2>3, <3>2, <3>3 DEF EmittedInOrder, Tail0, Ordinal
  <2> QED
    BY <2>2, <2>3
<1>4. ASSUME NEW i \in Instances, Restart(i)
      PROVE  UNCHANGED rows /\ \A j \in Instances : EmittedInOrder(j)'
  <2>1. PICK latest \in {0} \cup {Ordinal(s) : s \in 1..Len(rows)} :
          /\ last' = [last EXCEPT ![i] = latest] /\ since' = [since EXCEPT ![i] = latest]
    BY <1>4 DEF Restart
  <2>2. /\ batch' = [batch EXCEPT ![i] = {}] /\ emitted' = [emitted EXCEPT ![i] = {}]
        /\ UNCHANGED rows
    BY <1>4 DEF Restart, publishVars
  <2> SUFFICES ASSUME NEW j \in Instances PROVE EmittedInOrder(j)'
    BY <2>2
  <2>3. CASE j = i
    <3>1. last'[i] = latest /\ since'[i] = latest /\ batch'[i] = {} /\ emitted'[i] = {}
          /\ latest \in Nat
      BY <1>fun, <1>ord, <2>1, <2>2
    <3> QED
      BY <2>3, <3>1 DEF EmittedInOrder
  <2>4. CASE j # i
    <3>1. last'[j] = last[j] /\ since'[j] = since[j] /\ batch'[j] = batch[j]
          /\ emitted'[j] = emitted[j]
      BY <1>fun, <2>1, <2>2, <2>4
    <3> QED
      BY <2>2, <3>1 DEF EmittedInOrder, Tail0, Ordinal
  <2> QED
    BY <2>3, <2>4
<1>5. ASSUME UNCHANGED <<rows, last, since, batch, emitted>>
      PROVE  \A j \in Instances : EmittedInOrder(j)'
  BY <1>5 DEF EmittedInOrder, Tail0, Ordinal
<1> QED
  BY <1>0, <1>1, <1>2, <1>3, <1>4, <1>5
     DEF TransportStep, AskedToPoll, PollFails, pollVars, publishVars

\* An instance emits in order: with a row it has emitted those before it.
LEMMA EmittedPrefix ==
  ASSUME TransportInv, LogInOrder, NEW i \in Instances, EmittedInOrder(i),
         NEW s \in 1..Len(rows), NEW t \in 1..Len(rows), s < t,
         since[i] < Ordinal(s), rows[t].event \in emitted[i]
  PROVE  rows[s].event \in emitted[i]
<1>1. /\ rows \in Seq(Row) /\ last \in [Instances -> Nat] /\ PollerPassesNothing
      /\ Len(rows) \in Nat
  BY LenProperties DEF TransportInv, TransportTypeOK
<1>2. PICK u \in 1..Len(rows) : rows[u].event = rows[t].event /\ Ordinal(u) <= last[i]
  BY DEF EmittedInOrder, Tail0
<1>3. u = t
  <2>1. u < t \/ t < u \/ u = t
    BY <1>1
  <2> QED
    BY <1>2, <2>1 DEF LogInOrder, Tail0
<1>4. Ordinal(s) < Ordinal(t) /\ Ordinal(s) \in Nat /\ Ordinal(t) \in Nat
  BY <1>1, RowAt DEF LogInOrder, Tail0
<1>5. Ordinal(s) <= last[i]
  BY <1>1, <1>2, <1>3, <1>4
<1> QED
  BY <1>1, <1>5 DEF PollerPassesNothing

\* A query that leaves a later row out is full.
LEMMA FullUnlessAll ==
  ASSUME rows \in Seq(Row), NEW n \in Nat, NEW s \in 1..Len(rows), n < Ordinal(s),
         s \notin RowsAfter(n)
  PROVE  Cardinality(RowsAfter(n)) >= PollBatch
<1> DEFINE later == {r \in 1..Len(rows) : Ordinal(r) > n}
           Before(r) == {q \in later : Ordinal(q) < Ordinal(r)}
           left == {Ordinal(r) : r \in later \ RowsAfter(n)}
<1>1. \A r \in 1..Len(rows) : Ordinal(r) \in Nat
  BY RowAt
<1>2. left \in SUBSET Nat /\ left # {}
  BY <1>1
<1>3. PICK t \in later \ RowsAfter(n) : \A r \in later \ RowsAfter(n) : Ordinal(t) <= Ordinal(r)
  <2>1. PICK o \in left : \A m \in left : o <= m
    <3> HIDE DEF left
    <3> QED
      BY <1>2, Least
  <2> QED
    BY <2>1
<1>4. Before(t) \subseteq RowsAfter(n)
  <2> SUFFICES ASSUME NEW r \in later, Ordinal(r) < Ordinal(t), r \notin RowsAfter(n)
               PROVE  FALSE
    OBVIOUS
  <2>1. Ordinal(t) <= Ordinal(r) /\ Ordinal(t) \in Nat /\ Ordinal(r) \in Nat
    BY <1>1, <1>3
  <2> QED
    BY <2>1
<1>5. IsFiniteSet(RowsAfter(n)) /\ Cardinality(RowsAfter(n)) \in Nat
  <2>1. RowsAfter(n) \in SUBSET (1..Len(rows))
    BY DEF RowsAfter
  <2>2. IsFiniteSet(1..Len(rows))
    BY FS_Interval
  <2> QED
    BY <2>1, <2>2, FS_Subset, FS_CardinalityType
<1>6. Cardinality(Before(t)) <= Cardinality(RowsAfter(n)) /\ Cardinality(Before(t)) \in Nat
  <2>1. Before(t) \in SUBSET RowsAfter(n)
    BY <1>4
  <2> HIDE DEF Before
  <2> QED
    BY <1>5, <2>1, FS_Subset, FS_CardinalityType
<1>7. ~(Cardinality(Before(t)) < PollBatch)
  BY <1>3 DEF RowsAfter
<1> HIDE DEF Before
<1> QED
  BY <1>5, <1>6, <1>7, TransportAssumption

-----------------------------------------------------------------------------
(* What keeps the stream in order.                                         *)

\* What is not of the log alone.
StreamRest == TypeOK /\ ConnectionSound /\ DeviceSound

\* A wire nothing is put on stays one while owed events are heard or stay queued.
LEMMA WireStays ==
  ASSUME Wire(net, sent), UNCHANGED <<net, sent, origin, opened>>, Tail0 \in Nat, Tail0' \in Nat,
         Tail0 <= Tail0',
         \A s \in Owed' : s <= Tail0 => s \in Owed /\ (s \in Queued(queue) => s \in Queued(queue'))
  PROVE  Wire(net, sent)'
<1> DEFINE Heads(p) == {net[q].sequence : q \in {q \in 1..p : net[q].type = "event"}}
<1>1. /\ net \in Seq(Message) /\ sent \in 0..Tail0
      /\ \A p \in 1..Len(net) :
            /\ net[p].sequence \in 0..Tail0 /\ (net[p].type = "event" => net[p].sequence > 0)
            /\ net[p].type = "cursor" => Reaches(net[p].sequence)
            /\ \A s \in Owed : s <= net[p].sequence => s \in Queued(queue) \/ s \in Heads(p)
      /\ \A s \in Owed : s <= sent => s \in Queued(queue) \/ s \in Heads(Len(net))
  BY DEF Wire, Arrived, Queued
<1>2. \A s \in Owed' : s \in Nat
  BY DEF Owed
<1> HIDE DEF Heads
<1>3. sent \in 0..Tail0' /\ \A p \in 1..Len(net) : net[p].sequence \in 0..Tail0'
  BY <1>1
<1>4. ASSUME NEW n \in 0..Tail0, NEW H,
             \A s \in Owed : s <= n => s \in Queued(queue) \/ s \in H
      PROVE  \A s \in Owed' : s <= n => s \in Queued(queue') \/ s \in H
  BY <1>2, <1>4
<1>5. \A p \in 1..Len(net) :
        \A s \in Owed' : s <= net[p].sequence => s \in Queued(queue') \/ s \in Heads(p)
  BY <1>1, <1>4
<1>6. \A s \in Owed' : s <= sent => s \in Queued(queue') \/ s \in Heads(Len(net))
  BY <1>1, <1>4
<1> QED
  BY <1>1, <1>3, <1>5, <1>6 DEF Wire, Arrived, Queued, Reaches, Heads

\* What is put on a wire while the device does nothing.
LEMMA WireMoves ==
  ASSUME Wire(net', sent'), UNCHANGED <<rows, queue, heard, origin, opened>>
  PROVE  Wire(net, sent)'
BY DEF Wire, Arrived, Reaches, Owed, Durable, KindAt, Tail0

\* Nothing is on the way to a device without connection, and nothing is missing.
LEMMA WireEmpty ==
  ASSUME Tail0 \in Nat, NEW n \in 0..Tail0, \A s \in Owed : n < s
  PROVE  Wire(<< >>, n)
<1>1. << >> \in Seq(Message) /\ Len(<< >>) = 0
  OBVIOUS
<1>2. \A s \in Owed : s \in Nat
  BY DEF Owed
<1> QED
  BY <1>1, <1>2 DEF Wire

\* A torn connection is none, and nothing is on its wire.
LEMMA TornSound ==
  ASSUME Torn, Tail0' \in Nat
  PROVE  ConnectionSound'
<1>1. /\ at' = Nobody /\ phase' = "none" /\ sent' = 0 /\ pending' = {}
      /\ net' = << >> /\ queue' = << >> /\ deferred' = NoCursor /\ ready' = "no"
  BY DEF Torn
<1>2. Wire(net, sent)'
  <2>1. \A s \in Owed' : s \in Nat /\ 0 < s
    BY DEF Owed
  <2>2. net' \in Seq(Message) /\ Len(net') = 0
    BY <1>1
  <2> QED
    BY <1>1, <2>1, <2>2 DEF Wire
<1> QED
  BY <1>1, <1>2 DEF ConnectionSound

\* A torn connection leaves the checkpoint where it was.
LEMMA TornKept ==
  ASSUME StreamInv, TransportTypeOK', Torn, UNCHANGED <<rows, origin, opened, cursor, heard>>,
         listening' \subseteq DurableKinds
  PROVE  StreamRest'
<1>1. Tail0 \in Nat /\ UNCHANGED Tail0 /\ Tail0' \in Nat
  BY LenProperties DEF StreamInv, TypeOK, TransportTypeOK, Tail0
<1>2. /\ at' = Nobody /\ phase' = "none"
      /\ sent' = 0 /\ pending' = {} /\ after' = 0 /\ page' = << >> /\ baseline' = 0
      /\ net' = << >> /\ queue' = << >> /\ deferred' = NoCursor /\ ready' = "no"
  BY DEF Torn
<1>3. \A s \in Owed' : s \in Owed /\ s \in 1..Tail0
  BY DEF Owed, Durable, KindAt, Tail0
<1>4. TypeOK'
  <2>1. /\ << >> \in Seq(1..Tail0') /\ << >> \in Seq(Message) /\ Len(<< >>) <= QueueLimit
    BY StreamAssumption
  <2>2. /\ cursor' \in 0..Tail0' \cup {NoCursor} /\ heard' \subseteq 1..Tail0'
        /\ origin' \in 0..Tail0' /\ opened' \in 0..Tail0'
    BY <1>1 DEF StreamInv, TypeOK
  <2> QED
    BY <1>2, <2>1, <2>2 DEF TypeOK, Phases
<1>6. ConnectionSound'
  BY <1>1, TornSound
<1>7. DeviceSound'
  <2>1. cursor' # NoCursor => \A s \in Owed' : s > cursor'
    BY <1>3 DEF StreamInv, DeviceSound
  <2> QED
    BY <1>2, <2>1 DEF DeviceSound
<1> QED
  BY <1>4, <1>6, <1>7 DEF StreamRest

\* Log and pollers move on, the connection and the device do not.
LEMMA UnconnectedKept ==
  ASSUME StreamInv, TransportTypeOK', Unconnected,
         rows' = rows \/ \E row \in Row : NewRow(row),
         at # Nobody => since'[at] = since[at] /\ emitted'[at] = emitted[at],
         phase = "polling" => PollCovers'
  PROVE  StreamRest'
<1>inv. TypeOK /\ ConnectionSound /\ DeviceSound /\ rows \in Seq(Row)
  BY DEF StreamInv, TypeOK, TransportTypeOK
<1>1. Tail0 \in Nat /\ Tail0' \in Nat /\ Tail0 <= Tail0'
      /\ \A s \in 1..Tail0 : s \in 1..Tail0' /\ rows'[s] = rows[s]
  <2>1. CASE rows' = rows
    BY <1>inv, <2>1, LenProperties DEF Tail0
  <2>2. ASSUME NEW row \in Row, NewRow(row)
        PROVE  Tail0 \in Nat /\ Tail0' \in Nat /\ Tail0 <= Tail0'
               /\ \A s \in 1..Tail0 : s \in 1..Tail0' /\ rows'[s] = rows[s]
    BY <1>inv, <2>2, RowsGrow DEF Tail0
  <2> QED
    BY <2>1, <2>2
<1>2. \A s \in 1..Tail0' : s \in 1..Tail0 \/
        (/\ \A i \in Instances : since[i] < rows'[s].ordinal /\ rows'[s].event \notin emitted[i])
  <2>1. CASE rows' = rows
    BY <2>1 DEF Tail0
  <2>2. ASSUME NEW row \in Row, NewRow(row), NEW s \in 1..Tail0'
        PROVE  s \in 1..Tail0 \/
           (/\ \A i \in Instances : since[i] < rows'[s].ordinal /\ rows'[s].event \notin emitted[i])
    <3>1. s \in 1..Len(rows) \/ rows'[s] = row
      BY <1>inv, <2>2, RowsGrow DEF Tail0
    <3> QED
      BY <2>2, <3>1 DEF Tail0, NewRow
  <2> QED
    BY <2>1, <2>2
<1>same. UNCHANGED <<at, phase, sent, pending, after, page, baseline, net, cursor, queue, deferred,
                     ready, listening, heard, origin, opened>>
  BY DEF Unconnected, serverVars, deviceVars
<1>3. \A s \in Owed' : s <= Tail0 => s \in Owed
  BY <1>1, <1>same DEF Owed, Durable, KindAt
<1>4. TypeOK'
  <2>1. Seq(1..Tail0) \subseteq Seq(1..Tail0')
    BY <1>1, SeqMonotonic
  <2>2. /\ pending \subseteq 1..Tail0' /\ heard \subseteq 1..Tail0' /\ cursor \in 0..Tail0' \cup {NoCursor}
        /\ origin \in 0..Tail0' /\ opened \in 0..Tail0'
    BY <1>inv, <1>1 DEF TypeOK
  <2>3. page \in Seq(1..Tail0') /\ queue \in Seq(1..Tail0')
    BY <1>inv, <2>1 DEF TypeOK
  <2> QED
    BY <1>inv, <1>same, <2>2, <2>3 DEF TypeOK
<1>5. DeviceSound'
  <2>1. cursor # NoCursor => \A s \in Owed' : s > cursor
    <3> SUFFICES ASSUME cursor # NoCursor, NEW s \in Owed' PROVE s > cursor
      OBVIOUS
    <3>1. s \in Nat /\ cursor \in 0..Tail0
      BY <1>inv DEF Owed, TypeOK
    <3> QED
      BY <1>inv, <1>1, <1>3, <3>1 DEF DeviceSound
  <2>2. deferred # NoCursor =>
          /\ deferred <= Tail0' /\ Reaches(deferred)
          /\ \A s \in Owed' : s <= deferred => s \in {queue[n] : n \in 1..Len(queue)}
    <3> SUFFICES ASSUME deferred # NoCursor
                 PROVE  /\ deferred <= Tail0' /\ Reaches(deferred)
                        /\ \A s \in Owed' : s <= deferred => s \in {queue[n] : n \in 1..Len(queue)}
      OBVIOUS
    <3>1. deferred <= Tail0 /\ Reaches(deferred) /\ deferred \in Nat
          /\ \A s \in Owed : s <= deferred => s \in {queue[n] : n \in 1..Len(queue)}
      BY <1>inv DEF DeviceSound, TypeOK
    <3>2. \A s \in Owed' : s <= deferred => s \in Owed
      <4>1. \A s \in Owed' : s \in Nat
        BY DEF Owed
      <4> QED
        BY <1>1, <1>3, <3>1, <4>1
    <3> QED
      BY <1>1, <3>1, <3>2
  <2> QED
    BY <1>inv, <1>same, <2>1, <2>2 DEF DeviceSound, Reaches
<1>6. ConnectionSound'
  <2>1. phase # "none" => EmittedReached'
    <3> SUFFICES ASSUME phase # "none", NEW s \in 1..Tail0', opened < s, rows'[s].event \in emitted[at]
                 PROVE  IF phase = "live" THEN s <= sent ELSE s \in pending
      BY <1>inv, <1>same DEF EmittedReached, ConnectionSound
    <3>1. at \in Instances /\ EmittedReached
      BY <1>inv DEF ConnectionSound, TypeOK
    <3>2. s \in 1..Tail0 /\ rows'[s] = rows[s]
      BY <1>1, <1>2, <3>1
    <3> QED
      BY <3>1, <3>2 DEF EmittedReached
  <2>2. phase # "none" => \A s \in 1..Tail0' : opened < s => since'[at] < rows'[s].ordinal
    <3> SUFFICES ASSUME phase # "none", NEW s \in 1..Tail0', opened < s
                 PROVE  since[at] < rows'[s].ordinal
      BY <1>inv DEF ConnectionSound
    <3>1. at \in Instances /\ \A r \in 1..Tail0 : opened < r => since[at] < Ordinal(r)
      BY <1>inv DEF ConnectionSound, TypeOK
    <3>2. CASE s \in 1..Tail0
      BY <1>1, <3>1, <3>2 DEF Ordinal
    <3> QED
      BY <1>2, <3>1, <3>2
  <2>3. phase # "none" => \A s \in pending : rows'[s].event \in emitted'[at]
    BY <1>inv, <1>1 DEF ConnectionSound, TypeOK
  <2>4. phase \in {"baselining", "polling"} \/ Wire(net, sent)'
    <3>1. CASE Wire(net, sent)
      BY <1>1, <1>3, <1>same, <3>1, WireStays
    <3> QED
      BY <1>inv, <3>1 DEF ConnectionSound
  <2>5. phase = "polling" => baseline <= Tail0'
    BY <1>inv, <1>1 DEF ConnectionSound, TypeOK
  <2> QED
    BY <1>inv, <1>same, <2>1, <2>2, <2>3, <2>4, <2>5 DEF ConnectionSound, Reaches, Ordinal
<1> QED
  BY <1>4, <1>5, <1>6 DEF StreamRest

\* A set of sequences sent in order puts everything owed up to its last on the wire, when
\* it leaves out nothing owed.
LEMMA SetSent ==
  ASSUME NEW w, NEW n, Wire(w, n), Tail0 \in Nat, NEW S, \A s \in S : s \in 1..Tail0,
         NEW rank, \A s \in S : rank[s] \in Nat,
         \A s, t \in S : s < t => rank[s] < rank[t],
         \A s \in Owed, u \in S : n < s /\ s <= u => s \in S
  PROVE  LET c == SendAll(n, Ascending(S, rank), TRUE) IN
         /\ c.out \in Seq(Message) /\ Wire(w \o c.out, c.sent)
         /\ n <= c.sent /\ \A u \in S : u <= c.sent
<1>1. IsFiniteSet(S)
  <2>1. IsFiniteSet(1..Tail0)
    BY FS_Interval
  <2>2. S \in SUBSET (1..Tail0)
    OBVIOUS
  <2> QED
    BY <2>1, <2>2, FS_Subset
<1>2. \A s, t \in S : rank[s] = rank[t] => s = t
  <2> SUFFICES ASSUME NEW s \in S, NEW t \in S, rank[s] = rank[t], s # t PROVE FALSE
    OBVIOUS
  <2>1. s < t \/ t < s
    OBVIOUS
  <2>2. rank[s] < rank[t] \/ rank[t] < rank[s]
    BY <2>1
  <2>3. rank[s] \in Nat
    OBVIOUS
  <2> QED
    BY <2>2, <2>3
<1>a. Ascending(S, rank) \in [1..Cardinality(S) -> S]
  BY <1>1, <1>2, AscendingIs
<1>b. S \subseteq {Ascending(S, rank)[k] : k \in 1..Cardinality(S)}
  BY <1>1, <1>2, AscendingIs
<1>c. \A m, k \in 1..Cardinality(S) :
        m < k => rank[Ascending(S, rank)[m]] < rank[Ascending(S, rank)[k]]
  BY <1>1, <1>2, AscendingIs, Zenon
<1> DEFINE q == Ascending(S, rank)
           N == Cardinality(S)
<1>3. /\ q \in [1..N -> S] /\ N \in Nat
      /\ \A m, k \in 1..N : m < k => rank[q[m]] < rank[q[k]]
      /\ \A s \in S : \E k \in 1..N : q[k] = s
  BY <1>1, <1>a, <1>b, <1>c, FS_CardinalityType
<1> HIDE DEF q, N
<1>4. q \in Seq(1..Tail0) /\ Len(q) = N
  <2>1. q \in [1..N -> 1..Tail0]
    BY <1>3
  <2> QED
    BY <1>3, <2>1
<1>5. \A a, b \in 1..Len(q) : a < b => q[a] < q[b]
  <2> SUFFICES ASSUME NEW a \in 1..N, NEW b \in 1..N, a < b PROVE q[a] < q[b]
    BY <1>4
  <2>1. q[a] \in S /\ q[b] \in S /\ q[a] \in 1..Tail0 /\ q[b] \in 1..Tail0
    BY <1>3
  <2>2. rank[q[a]] < rank[q[b]] /\ rank[q[a]] \in Nat /\ rank[q[b]] \in Nat
    BY <1>3, <2>1
  <2>3. ~(q[b] < q[a]) /\ q[a] # q[b]
    BY <2>1, <2>2
  <2> QED
    BY <2>1, <2>3
<1>6. \A s \in Owed, b \in 1..Len(q) : n < s /\ s <= q[b] => \E a \in 1..Len(q) : q[a] = s
  BY <1>3, <1>4
<1>7. LET c == SendAll(n, q, TRUE) IN
      /\ c.out \in Seq(Message) /\ Wire(w \o c.out, c.sent)
      /\ n <= c.sent /\ \A b \in 1..Len(q) : q[b] <= c.sent
  BY <1>4, <1>5, <1>6, SendAllWire
<1>8. \A u \in S : u <= SendAll(n, q, TRUE).sent
  BY <1>3, <1>4, <1>7
<1> QED
  BY <1>7, <1>8 DEF q

\* What is owed, was committed since the device connected and comes before an emitted row
\* was emitted too.
LEMMA OwedEmitted ==
  ASSUME TransportInv, LogInOrder, \A i \in Instances : EmittedInOrder(i), at \in Instances,
         \A s \in 1..Tail0 : opened < s => since[at] < Ordinal(s),
         NEW s \in Owed, opened < s, NEW u \in 1..Tail0, s <= u, rows[u].event \in emitted[at]
  PROVE  rows[s].event \in emitted[at]
<1>1. s \in 1..Len(rows) /\ u \in 1..Len(rows) /\ since[at] < Ordinal(s)
  BY DEF Owed, Tail0
<1>2. CASE s < u
  BY <1>1, <1>2, EmittedPrefix
<1>3. CASE s = u
  BY <1>3
<1> QED
  BY <1>1, <1>2, <1>3

\* Everything owed beyond what reaches the device's connection was committed since.
LEMMA OwedSince ==
  ASSUME opened \in 0..Tail0, origin \in 0..Tail0, Tail0 \in Nat, NEW n \in 0..Tail0, Reaches(n)
  PROVE  \A s \in Owed : n < s => opened < s
BY DEF Owed, Reaches

\* A connection that is caught up has sent what it buffered and hands over its cursor.
LEMMA CaughtUpKept ==
  ASSUME StreamInv, phase \notin {"none", "live"}, NEW c, c.out \in Seq(Message),
         Wire(net \o c.out, c.sent), Reaches(c.sent), CaughtUp(c),
         UNCHANGED <<rows, queue, heard, origin, opened, at, emitted>>
  PROVE  /\ net' \in Seq(Message) /\ sent' \in 0..Tail0
         /\ Wire(net, sent)' /\ Reaches(sent)' /\ EmittedReached'
<1> DEFINE flushed == SendAll(c.sent, Buffered, TRUE)
           done == [type |-> "cursor", sequence |-> flushed.sent]
           w == net \o c.out
<1>typ. /\ Tail0 \in Nat /\ opened \in 0..Tail0 /\ origin \in 0..Tail0
        /\ pending \in SUBSET (1..Tail0) /\ at \in Instances /\ net \in Seq(Message)
        /\ c.sent \in 0..Tail0
  BY LenProperties
     DEF StreamInv, TypeOK, TransportTypeOK, Tail0, ConnectionSound, Wire
<1>con. /\ EmittedReached /\ \A s \in pending : rows[s].event \in emitted[at]
        /\ \A s \in 1..Tail0 : opened < s => since[at] < Ordinal(s)
  BY DEF StreamInv, ConnectionSound
<1>1. ASSUME NEW s \in Owed, NEW u \in pending, c.sent < s, s <= u PROVE s \in pending
  <2>1. opened < s
    BY <1>typ, <1>1, OwedSince
  <2>2. rows[s].event \in emitted[at]
    BY <1>typ, <1>con, <1>1, <2>1, OwedEmitted DEF StreamInv
  <2>3. s \in 1..Tail0
    BY DEF Owed
  <2> QED
    BY <1>con, <2>1, <2>2, <2>3 DEF EmittedReached
<1>2. /\ flushed.out \in Seq(Message) /\ Wire(w \o flushed.out, flushed.sent)
      /\ c.sent <= flushed.sent /\ \A u \in pending : u <= flushed.sent
  <2> DEFINE rank == [s \in pending |-> s]
  <2>1. (\A s \in pending : rank[s] \in Nat) /\ \A s, t \in pending : s < t => rank[s] < rank[t]
    BY <1>typ
  <2>2. Buffered = Ascending(pending, rank)
    BY DEF Buffered
  <2> HIDE DEF rank
  <2> QED
    BY <1>typ, <1>1, <2>1, <2>2, SetSent
<1>3. /\ sent' = flushed.sent /\ pending' = {} /\ phase' = "live"
      /\ net' = (w \o flushed.out) \o << done >>
  BY DEF CaughtUp
<1> HIDE DEF flushed, w
<1>4. flushed.sent \in 0..Tail0 /\ w \o flushed.out \in Seq(Message)
  BY <1>2 DEF Wire
<1>5. Reaches(flushed.sent)
  BY <1>typ, <1>2, <1>4 DEF Reaches
<1>6. done \in Message /\ done.type = "cursor" /\ done.sequence = flushed.sent
  BY <1>4 DEF Message
<1> HIDE DEF done
<1>7. net' = Append(w \o flushed.out, done) /\ net' \in Seq(Message)
  BY <1>3, <1>4, <1>6, AppendIsConcat, AppendProperties
<1>8. Wire(net', sent')
  <2>1. \A s \in Owed : ~(flushed.sent < s /\ s <= done.sequence)
    BY <1>4, <1>6 DEF Owed
  <2>2. flushed.sent <= done.sequence /\ done.type # "event"
    BY <1>4, <1>6
  <2>3. Wire(Append(w \o flushed.out, done), done.sequence)
    BY <1>2, <1>4, <1>5, <1>6, <2>1, <2>2, WireAppend
  <2> QED
    BY <1>3, <1>6, <1>7, <2>3
<1>9. Wire(net, sent)'
  BY <1>8, WireMoves
<1>10. Reaches(sent)'
  BY <1>3, <1>5 DEF Reaches
<1>11. EmittedReached'
  <2> SUFFICES ASSUME NEW s \in 1..Tail0, opened < s, rows[s].event \in emitted[at]
               PROVE  s <= flushed.sent
    BY <1>3 DEF EmittedReached, Tail0
  <2>1. s \in pending
    BY <1>con DEF EmittedReached
  <2> QED
    BY <1>2, <2>1
<1> QED
  BY <1>3, <1>4, <1>7, <1>9, <1>10, <1>11

-----------------------------------------------------------------------------
(* Steps of the log and of the gateway.                                    *)

\* The device keeps what it has while the server works.
LEMMA DeviceKept ==
  ASSUME DeviceSound, UNCHANGED <<rows, deviceVars, origin, opened>>
  PROVE  DeviceSound'
BY DEF DeviceSound, deviceVars, Owed, Durable, KindAt, Tail0, Reaches

\* The types of all the state at hand in the proofs below.
LEMMA Typed ==
  ASSUME StreamInv
  PROVE  /\ Tail0 \in Nat /\ rows \in Seq(Row) /\ TypeOK /\ TransportTypeOK
         /\ last \in [Instances -> Nat] /\ since \in [Instances -> Nat]
         /\ batch \in [Instances -> SUBSET (1..Tail0)] /\ emitted \in [Instances -> SUBSET Events]
         /\ poll \in [Instances -> {"idle", "querying", "fetched"}]
         /\ requested \in [Instances -> BOOLEAN]
         /\ \A s \in 1..Tail0 : Ordinal(s) \in Nat /\ rows[s].event \in Events
         /\ phase # "none" => at \in Instances
         /\ phase \notin {"baselining", "polling"} => sent \in 0..Tail0
<1>1. TypeOK /\ TransportTypeOK /\ ConnectionSound
  BY DEF StreamInv, TypeOK
<1>2. rows \in Seq(Row) /\ Tail0 \in Nat
  BY <1>1, LenProperties DEF TransportTypeOK, Tail0
<1>3. \A s \in 1..Tail0 : Ordinal(s) \in Nat /\ rows[s].event \in Events
  BY <1>2, RowAt DEF Tail0
<1>4. phase # "none" => at \in Instances
  BY <1>1 DEF ConnectionSound, TypeOK
<1>5. phase \notin {"baselining", "polling"} => sent \in 0..Tail0
  BY <1>1 DEF ConnectionSound, Wire
<1> QED
  BY <1>1, <1>2, <1>3, <1>4, <1>5 DEF TransportTypeOK, Tail0

\* Publishers and pollers on their own.
LEMMA TransportMoves ==
  ASSUME StreamInv, TransportTypeOK',
         \/ PublishStep
         \/ \E i \in Instances : Poll(i) \/ Overlap(i) \/ Query(i),
         Unconnected
  PROVE  StreamRest'
<1>1. CASE PublishStep
  <2>1. UNCHANGED pollVars /\ (rows' = rows \/ \E row \in Row : NewRow(row))
    BY <1>1, Published DEF StreamInv
  <2>2. phase = "polling" => PollCovers'
    <3> SUFFICES ASSUME phase = "polling" PROVE PollCovers'
      OBVIOUS
    <3>1. PollCovers /\ baseline <= Tail0 /\ baseline \in Nat /\ Tail0 \in Nat
      BY Typed DEF StreamInv, ConnectionSound, TypeOK
    <3>2. \A s \in 1..baseline : rows'[s] = rows[s]
      <4>1. CASE rows' = rows
        BY <4>1
      <4>2. ASSUME NEW row \in Row, NewRow(row) PROVE \A s \in 1..baseline : rows'[s] = rows[s]
        BY <3>1, <4>2, RowsGrow, Typed DEF Tail0
      <4> QED
        BY <2>1, <4>1, <4>2
    <3>3. UNCHANGED <<last, poll, requested, batch, at, baseline>>
      BY <2>1 DEF pollVars, Unconnected, serverVars
    <3> QED
      BY <3>1, <3>2, <3>3 DEF PollCovers, AnotherRound, FullBatch, Ordinal
  <2> QED
    BY <2>1, <2>2, UnconnectedKept DEF pollVars
<1>2. ASSUME NEW i \in Instances, Poll(i) \/ Overlap(i) PROVE StreamRest'
  <2>1. UNCHANGED <<rows, last, since, batch, emitted>> /\ PollOnce(i)
    BY <1>2 DEF Poll, Tick, Overlap, publishVars
  <2>2. phase = "polling" => PollCovers'
    <3> SUFFICES ASSUME phase = "polling" PROVE PollCovers'
      OBVIOUS
    <3>1. PollCovers /\ at \in Instances
      BY Typed DEF StreamInv, ConnectionSound
    <3>2. UNCHANGED <<at, baseline>>
      BY DEF Unconnected, serverVars
    <3>3. poll'[at] = poll[at] /\ (requested[at] => requested'[at])
      BY <1>2, <2>1, <3>1, Typed DEF Poll, Tick, Overlap, PollOnce
    <3> QED
      BY <2>1, <3>1, <3>2, <3>3 DEF PollCovers, AnotherRound, FullBatch, Ordinal
  <2> QED
    BY <2>1, <2>2, UnconnectedKept
<1>3. ASSUME NEW i \in Instances, Query(i) PROVE StreamRest'
  <2>1. /\ UNCHANGED <<rows, last, since, requested, emitted>> /\ poll[i] = "querying"
        /\ batch' = [batch EXCEPT ![i] = RowsAfter(last[i])]
        /\ poll' = [poll EXCEPT ![i] = "fetched"]
    BY <1>3 DEF Query, publishVars
  <2>2. phase = "polling" => PollCovers'
    <3> SUFFICES ASSUME phase = "polling", NEW s \in 1..baseline
                 PROVE  \/ Ordinal(s) <= last[at]
                        \/ poll'[at] = "querying"
                        \/ poll'[at] = "fetched" /\ (AnotherRound(at)' \/ s \in batch'[at])
      BY <2>1 DEF PollCovers, Ordinal, Unconnected, serverVars
    <3>1. PollCovers /\ at \in Instances /\ s \in 1..Tail0
      BY Typed DEF StreamInv, ConnectionSound, TypeOK
    <3>u. UNCHANGED at
      BY DEF Unconnected, serverVars
    <3>2. CASE at # i
      <4>1. poll'[at] = poll[at] /\ batch'[at] = batch[at] /\ requested'[at] = requested[at]
        BY <2>1, <3>1, <3>2, Typed
      <4> QED
        BY <3>1, <3>u, <4>1 DEF PollCovers, AnotherRound, FullBatch
    <3>3. CASE at = i
      <4>1. poll'[at] = "fetched" /\ batch'[at] = RowsAfter(last[at])
        BY <2>1, <3>1, <3>3, Typed
      <4>2. Ordinal(s) <= last[at] \/ last[at] < Ordinal(s)
        BY <3>1, Typed
      <4>3. ASSUME last[at] < Ordinal(s), s \notin RowsAfter(last[at]) PROVE AnotherRound(at)'
        <5>1. Cardinality(RowsAfter(last[at])) >= PollBatch
          BY <3>1, <4>3, FullUnlessAll, Typed DEF Tail0
        <5> QED
          BY <3>u, <4>1, <5>1 DEF AnotherRound, FullBatch
      <4> QED
        BY <4>1, <4>2, <4>3
    <3> QED
      BY <3>2, <3>3
  <2> QED
    BY <2>1, <2>2, UnconnectedKept
<1> QED
  BY <1>1, <1>2, <1>3

\* A poll fails, an instance restarts: its connection goes or is not concerned.
LEMMA InstanceFails ==
  ASSUME StreamInv, TransportTypeOK', NEW i \in Instances, FailPoll(i) \/ RestartInstance(i)
  PROVE  StreamRest'
<1>1. UNCHANGED <<rows, cursor, listening, heard, origin, opened>>
  BY DEF FailPoll, PollFails, RestartInstance, Restart, publishVars
<1>2. CASE Torn
  BY <1>1, <1>2, TornKept, Typed DEF TypeOK
<1>3. CASE /\ UNCHANGED <<serverVars, net, queue, deferred, ready>>
           /\ \/ RestartInstance(i) /\ at # i
              \/ FailPoll(i) /\ ~(at = i /\ phase = "polling")
  <2>1. Unconnected
    BY <1>1, <1>3 DEF Unconnected, deviceVars
  <2>2. at # Nobody => at \in Instances
    BY Typed DEF TypeOK
  <2>3. at # Nobody => since'[at] = since[at] /\ emitted'[at] = emitted[at]
    BY <1>3, <2>2, Typed DEF FailPoll, PollFails, RestartInstance, Restart
  <2>4. phase = "polling" => PollCovers'
    <3> SUFFICES ASSUME phase = "polling" PROVE PollCovers'
      OBVIOUS
    <3>1. PollCovers /\ at \in Instances /\ at # i
      BY <1>3, Typed DEF StreamInv, ConnectionSound, RestartInstance
    <3>2. UNCHANGED <<at, baseline>>
      BY <1>3 DEF serverVars
    <3>3. last'[at] = last[at] /\ poll'[at] = poll[at] /\ requested'[at] = requested[at]
          /\ batch'[at] = batch[at]
      BY <1>3, <3>1, Typed DEF FailPoll, PollFails, RestartInstance, Restart
    <3> QED
      BY <1>1, <3>1, <3>2, <3>3 DEF PollCovers, AnotherRound, FullBatch, Ordinal
  <2> QED
    BY <1>1, <2>1, <2>3, <2>4, UnconnectedKept
<1> QED
  BY <1>2, <1>3 DEF FailPoll, RestartInstance

\* A device connects: nothing is owed to it up to where its connection starts.
LEMMA Connected ==
  ASSUME StreamInv, TransportTypeOK', NEW i \in Instances, Connect(i)
  PROVE  StreamRest'
<1>typ. Tail0 \in Nat /\ TypeOK /\ ConnectionSound /\ DeviceSound
  BY Typed DEF StreamInv
<1>1. /\ at = Nobody /\ at' = i /\ opened' = Tail0
      /\ UNCHANGED <<rows, since, emitted, pending, page, baseline, net, cursor, queue, deferred,
                     ready, listening, heard>>
  BY DEF Connect, transportVars, deviceVars
<1>2. phase = "none" /\ net = << >> /\ queue = << >> /\ deferred = NoCursor /\ ready = "no"
      /\ pending = {} /\ i # Nobody
  BY <1>1, <1>typ, StreamAssumption DEF ConnectionSound
<1>3. UNCHANGED Tail0
  BY <1>1 DEF Tail0
<1>4. CASE cursor = NoCursor /\ phase' = "baselining" /\ origin' = Tail0 /\ UNCHANGED <<sent, after>>
  <2>1. TypeOK'
    BY <1>1, <1>3, <1>4, <1>typ DEF TypeOK, Phases
  <2>2. ConnectionSound'
    BY <1>1, <1>2, <1>3, <1>4, <1>typ DEF ConnectionSound, EmittedReached
  <2>3. DeviceSound'
    BY <1>1, <1>2, <1>4 DEF DeviceSound
  <2> QED
    BY <2>1, <2>2, <2>3 DEF StreamRest
<1>5. CASE cursor # NoCursor /\ phase' = "replaying" /\ sent' = cursor /\ after' = cursor
           /\ UNCHANGED origin
  <2>0. cursor \in 0..Tail0
    BY <1>5, <1>typ DEF TypeOK
  <2>1. TypeOK'
    BY <1>1, <1>3, <1>5, <2>0, <1>typ DEF TypeOK, Phases
  <2>o. Owed' = Owed
    BY <1>1, <1>5 DEF Owed, Durable, KindAt, Tail0
  <2>2. Wire(net, sent)'
    <3>1. \A s \in Owed : cursor < s /\ s \in Nat
      BY <1>5, <1>typ, <2>0 DEF DeviceSound, Owed
    <3>2. << >> \in Seq(Message) /\ Len(<< >>) = 0
      OBVIOUS
    <3>3. net' = << >> /\ sent' = cursor
      BY <1>1, <1>2, <1>5
    <3>4. \A s \in Owed' : ~(s <= sent')
      BY <2>0, <2>o, <3>1, <3>3
    <3>5. sent' \in 0..Tail0'
      BY <1>3, <2>0, <3>3
    <3>6. net' \in Seq(Message) /\ Len(net') = 0
      BY <3>2, <3>3
    <3> QED
      BY <3>4, <3>5, <3>6 DEF Wire
  <2>3. ConnectionSound'
    BY <1>1, <1>2, <1>3, <1>5, <2>2, <1>typ DEF ConnectionSound, EmittedReached
  <2>4. DeviceSound'
    BY <1>1, <1>2, <1>5, <1>typ, <2>o DEF DeviceSound
  <2> QED
    BY <2>1, <2>3, <2>4 DEF StreamRest
<1> QED
  BY <1>4, <1>5 DEF Connect

\* A replay query: the page continues the log where the replay stands.
LEMMA Replayed ==
  ASSUME StreamInv, TransportTypeOK', ReplayQuery
  PROVE  StreamRest'
<1> DEFINE k == IF Tail0 - after < ReplayPage THEN Tail0 - after ELSE ReplayPage
<1>typ. Tail0 \in Nat /\ TypeOK /\ ConnectionSound /\ DeviceSound
  BY Typed DEF StreamInv
<1>1. /\ phase = "replaying" /\ phase' = "fetched" /\ page' = [n \in 1..k |-> after + n]
      /\ UNCHANGED <<transportVars, at, sent, pending, after, baseline, net, deviceVars, origin,
                     opened>>
  BY DEF ReplayQuery
<1>2. /\ UNCHANGED <<rows, since, emitted, last, poll, requested, batch, cursor, queue, deferred,
                     ready, listening, heard>>
      /\ UNCHANGED Tail0
  BY <1>1 DEF transportVars, deviceVars, Tail0
<1>3. sent = after /\ after \in 0..Tail0 /\ Wire(net, sent)
  BY <1>1, <1>typ DEF ConnectionSound, Wire
<1>4. k \in Nat /\ k <= ReplayPage /\ k <= Tail0 - after /\ (k < ReplayPage => k = Tail0 - after)
  BY <1>3, <1>typ, StreamAssumption
<1> HIDE DEF k
<1>5. Len(page') = k /\ page' \in Seq(1..Tail0) /\ \A n \in 1..k : page'[n] = after + n
  <2>1. \A n \in 1..k : after + n \in 1..Tail0
    BY <1>3, <1>4, <1>typ
  <2>2. page' \in [1..k -> 1..Tail0]
    BY <1>1, <2>1
  <2> QED
    BY <1>1, <1>4, <2>2
<1>6. k < ReplayPage => opened <= after + k
  BY <1>3, <1>4, <1>typ DEF TypeOK
<1>7. TypeOK'
  BY <1>1, <1>2, <1>5, <1>typ DEF TypeOK, Phases
<1>8. Wire(net, sent)'
  BY <1>1, <1>2, <1>3, WireMoves
<1>9. ConnectionSound'
  <2>1. EmittedReached' /\ phase # "none" /\ EmittedReached
    BY <1>1, <1>2, <1>typ DEF ConnectionSound, EmittedReached
  <2> QED
    BY <1>1, <1>2, <1>3, <1>4, <1>5, <1>6, <1>8, <1>typ, <2>1 DEF ConnectionSound, Ordinal
<1>10. DeviceSound'
  BY <1>1, <1>2, <1>typ, DeviceKept
<1> QED
  BY <1>7, <1>9, <1>10 DEF StreamRest

\* A page is sent: what is owed up to its last row is on the wire.
LEMMA PageSent ==
  ASSUME StreamInv, phase = "fetched"
  PROVE  LET c == SendAll(sent, page, FALSE) IN
         /\ c.out \in Seq(Message) /\ Wire(net \o c.out, c.sent)
         /\ c.sent = after + Len(page)
<1>typ. Tail0 \in Nat /\ TypeOK /\ ConnectionSound
  BY Typed DEF StreamInv
<1>1. /\ sent = after /\ Wire(net, sent) /\ sent \in 0..Tail0
      /\ \A n \in 1..Len(page) : page[n] = after + n
      /\ page \in Seq(1..Tail0) /\ Len(page) \in Nat
  BY <1>typ, LenProperties DEF ConnectionSound, Wire, TypeOK
<1>2. \A a, b \in 1..Len(page) : a < b => page[a] < page[b]
  BY <1>1
<1>3. ASSUME NEW s \in Owed, NEW b \in 1..Len(page), sent < s, s <= page[b]
      PROVE  \E a \in 1..Len(page) : page[a] = s
  <2>1. s \in Nat /\ page[b] = after + b
    BY <1>1 DEF Owed
  <2>2. s - after \in 1..Len(page)
    BY <1>1, <1>3, <2>1
  <2>3. after + (s - after) = s
    BY <1>1, <2>1
  <2> QED
    BY <1>1, <2>2, <2>3
<1> DEFINE c == SendAll(sent, page, FALSE)
<1>4. /\ c.out \in Seq(Message) /\ Wire(net \o c.out, c.sent)
      /\ sent <= c.sent /\ \A b \in 1..Len(page) : page[b] <= c.sent
      /\ \A m \in Nat : sent <= m /\ (\A b \in 1..Len(page) : page[b] <= m) => c.sent <= m
  <2>1. \A s \in Owed, b \in 1..Len(page) :
          sent < s /\ s <= page[b] => \E a \in 1..Len(page) : page[a] = s
    BY <1>3
  <2>2. /\ Wire(net, sent) /\ page \in Seq(1..Tail0) /\ Tail0 \in Nat
        /\ \A m, k \in 1..Len(page) : m < k => page[m] < page[k]
    BY <1>1, <1>2, <1>typ
  <2>3. LET d == SendAll(sent, page, FALSE) IN
        /\ d.out \in Seq(Message) /\ Wire(net \o d.out, d.sent)
        /\ sent <= d.sent /\ \A b \in 1..Len(page) : page[b] <= d.sent
    BY <2>1, <2>2, SendAllWire
  <2>4. \A m \in Nat : sent <= m /\ (\A b \in 1..Len(page) : page[b] <= m)
                         => SendAll(sent, page, FALSE).sent <= m
    BY <2>1, <2>2, SendAllWire
  <2> QED
    BY <2>3, <2>4
<1> HIDE DEF c
<1>5. c.sent = after + Len(page)
  <2>0. c.sent \in Nat /\ after + Len(page) \in Nat
    BY <1>1, <1>4 DEF Wire
  <2>1. c.sent <= after + Len(page)
    <3>1. sent <= after + Len(page) /\ \A b \in 1..Len(page) : page[b] <= after + Len(page)
      BY <1>1
    <3> QED
      BY <1>4, <2>0, <3>1
  <2>2. after + Len(page) <= c.sent
    <3>1. CASE Len(page) = 0
      BY <1>1, <1>4, <3>1
    <3>2. CASE Len(page) > 0
      BY <1>1, <1>4, <3>2
    <3> QED
      BY <1>1, <3>1, <3>2
  <2> QED
    BY <2>0, <2>1, <2>2
<1> QED
  BY <1>4, <1>5 DEF c

\* A page of the replay is sent, and after the last one what was buffered meanwhile.
LEMMA Sent ==
  ASSUME StreamInv, TransportTypeOK', ReplaySend
  PROVE  StreamRest'
<1> DEFINE c == SendAll(sent, page, FALSE)
<1>typ. Tail0 \in Nat /\ TypeOK /\ ConnectionSound /\ DeviceSound
  BY Typed DEF StreamInv
<1>1. /\ phase = "fetched" /\ page' = << >>
      /\ UNCHANGED <<transportVars, at, baseline, deviceVars, origin, opened>>
  BY DEF ReplaySend
<1>2. /\ UNCHANGED <<rows, since, emitted, last, poll, requested, batch, cursor, queue, deferred,
                     ready, listening, heard>>
      /\ UNCHANGED Tail0
  BY <1>1 DEF transportVars, deviceVars, Tail0
<1>3. c.out \in Seq(Message) /\ Wire(net \o c.out, c.sent) /\ c.sent = after + Len(page)
  BY <1>1, PageSent
<1>4. \/ /\ Len(page) = ReplayPage
         /\ sent' = c.sent /\ net' = net \o c.out /\ after' = page[Len(page)]
         /\ phase' = "replaying" /\ UNCHANGED pending
      \/ Len(page) # ReplayPage /\ CaughtUp(c) /\ UNCHANGED after
  BY DEF ReplaySend
<1> HIDE DEF c
<1>5. DeviceSound'
  BY <1>1, <1>2, <1>typ, DeviceKept
<1>6. /\ EmittedReached /\ \A s \in pending : rows[s].event \in emitted[at]
      /\ \A s \in 1..Tail0 : opened < s => since[at] < Ordinal(s)
      /\ at # Nobody
  BY <1>1, <1>typ DEF ConnectionSound
<1>7. << >> \in Seq(1..Tail0)
  OBVIOUS
<1>8. CASE /\ Len(page) = ReplayPage
           /\ sent' = c.sent /\ net' = net \o c.out /\ after' = page[Len(page)]
           /\ phase' = "replaying" /\ UNCHANGED pending
  <2>1. after' = sent' /\ sent' \in 0..Tail0 /\ net' \in Seq(Message)
    <3>1. page[Len(page)] = after + Len(page)
      BY <1>1, <1>8, <1>typ, StreamAssumption DEF ConnectionSound
    <3> QED
      BY <1>3, <1>8, <3>1 DEF Wire
  <2>2. Wire(net, sent)'
    BY <1>1, <1>2, <1>3, <1>8, WireMoves
  <2>3. TypeOK'
    BY <1>1, <1>2, <1>7, <1>8, <1>typ, <2>1 DEF TypeOK, Phases
  <2>4. EmittedReached'
    BY <1>1, <1>2, <1>6, <1>8 DEF EmittedReached
  <2>5. ConnectionSound'
    BY <1>1, <1>2, <1>6, <1>8, <2>1, <2>2, <2>4 DEF ConnectionSound, Ordinal
  <2> QED
    BY <1>5, <2>3, <2>5 DEF StreamRest
<1>9. CASE Len(page) # ReplayPage /\ CaughtUp(c) /\ UNCHANGED after
  <2>1. Reaches(c.sent)
    <3>1. Len(page) < ReplayPage
      <4>1. Len(page) <= ReplayPage /\ Len(page) \in Nat
        BY <1>1, <1>typ, LenProperties DEF ConnectionSound, TypeOK
      <4> QED
        BY <1>9, <4>1, StreamAssumption
    <3> QED
      BY <1>1, <1>3, <1>typ, <3>1 DEF ConnectionSound, Reaches
  <2>2. /\ net' \in Seq(Message) /\ sent' \in 0..Tail0
        /\ Wire(net, sent)' /\ Reaches(sent)' /\ EmittedReached'
    BY <1>1, <1>2, <1>3, <1>9, <2>1, CaughtUpKept
  <2>3. phase' = "live" /\ pending' = {}
    BY <1>9 DEF CaughtUp
  <2>4. TypeOK'
    BY <1>1, <1>2, <1>7, <1>9, <1>typ, <2>2, <2>3 DEF TypeOK, Phases
  <2>5. ConnectionSound'
    BY <1>1, <1>2, <1>6, <2>2, <2>3 DEF ConnectionSound, Ordinal
  <2> QED
    BY <1>5, <2>4, <2>5 DEF StreamRest
<1> QED
  BY <1>4, <1>8, <1>9

\* A fresh connection reads the tail, and makes sure of a poll that sees it.
LEMMA BaselineTaken ==
  ASSUME StreamInv, TransportTypeOK', BaselineRead
  PROVE  StreamRest'
<1>typ. Tail0 \in Nat /\ TypeOK /\ ConnectionSound /\ DeviceSound
  BY Typed DEF StreamInv
<1>1. /\ phase = "baselining" /\ baseline' = Tail0 /\ phase' = "polling" /\ PollOnce(at)
      /\ UNCHANGED <<publishVars, last, since, batch, emitted, faults, at, sent, pending, after,
                     page, net, deviceVars, origin, opened>>
  BY DEF BaselineRead
<1>2. /\ UNCHANGED <<rows, cursor, queue, deferred, ready, listening, heard>> /\ UNCHANGED Tail0
  BY <1>1 DEF publishVars, deviceVars, Tail0
<1>3. at \in Instances
  BY <1>1, Typed
<1>4. PollCovers'
  <2>1. \/ poll'[at] = "querying"
        \/ poll'[at] = poll[at] /\ poll[at] # "idle" /\ requested'[at]
    BY <1>1, <1>3, Typed DEF PollOnce
  <2>2. poll[at] \in {"idle", "querying", "fetched"}
    BY <1>3, Typed
  <2> QED
    BY <1>1, <2>1, <2>2 DEF PollCovers, AnotherRound
<1>5. TypeOK'
  BY <1>1, <1>2, <1>typ DEF TypeOK, Phases
<1>6. EmittedReached'
  BY <1>1, <1>2, <1>typ DEF ConnectionSound, EmittedReached
<1>7. ConnectionSound'
  BY <1>1, <1>2, <1>4, <1>6, <1>typ DEF ConnectionSound, Ordinal
<1> QED
  BY <1>1, <1>2, <1>5, <1>7, <1>typ, DeviceKept DEF StreamRest

\* A fresh connection starts before everything owed.
LEMMA BaselineReady ==
  ASSUME StreamInv, TransportTypeOK', BaselineSet
  PROVE  StreamRest'
<1>typ. Tail0 \in Nat /\ TypeOK /\ ConnectionSound /\ DeviceSound
  BY Typed DEF StreamInv
<1> DEFINE c == [sent |-> Start, out |-> << >>]
<1>1. /\ phase = "polling" /\ poll[at] = "idle" /\ CaughtUp(c)
      /\ UNCHANGED <<transportVars, at, after, page, baseline, deviceVars, origin, opened>>
  BY DEF BaselineSet
<1>2. /\ UNCHANGED <<rows, since, emitted, last, poll, requested, batch, cursor, queue, deferred,
                     ready, listening, heard>>
      /\ UNCHANGED Tail0
  BY <1>1 DEF transportVars, deviceVars, Tail0
<1>3. /\ at \in Instances /\ net = << >> /\ opened = origin /\ baseline \in 0..Tail0
      /\ PollCovers /\ EmittedReached
      /\ \A s \in 1..Tail0 : opened < s => since[at] < Ordinal(s)
      /\ pending \subseteq 1..Tail0 /\ PollerPassesNothing
  BY <1>1, <1>typ, Typed DEF ConnectionSound, TypeOK, StreamInv, TransportInv
<1>4. Start \in 0..Tail0 /\ Start <= baseline /\ \A s \in pending : Start < s
  <2> DEFINE before == {baseline} \cup {s - 1 : s \in pending}
  <2>1. before \in SUBSET (0..Tail0) /\ before # {}
    BY <1>3, <1>typ
  <2>2. \E n \in before : \A m \in before : n <= m
    <3>1. before \in SUBSET Nat
      BY <2>1
    <3> HIDE DEF before
    <3> QED
      BY <2>1, <3>1, Least
  <2>3. Start \in before /\ \A m \in before : Start <= m
    BY <2>2 DEF Start
  <2>4. \A s \in pending : Start <= s - 1
    BY <2>3
  <2>5. Start <= baseline
    BY <2>3
  <2>6. Start \in 0..Tail0
    BY <2>1, <2>3
  <2>7. \A s \in pending : s \in Nat
    BY <1>3
  <2> HIDE DEF before
  <2> QED
    BY <2>4, <2>5, <2>6, <2>7
<1>5. \A s \in Owed : Start < s
  <2> SUFFICES ASSUME NEW s \in Owed, ~(Start < s) PROVE FALSE
    OBVIOUS
  <2>1. s \in 1..Tail0 /\ opened < s
    BY <1>3 DEF Owed
  <2>2. s \in 1..baseline
    BY <1>3, <1>4, <2>1
  <2>3. Ordinal(s) <= last[at] /\ since[at] < Ordinal(s)
    BY <1>1, <1>3, <2>1, <2>2 DEF PollCovers
  <2>4. s \in pending
    BY <1>1, <1>3, <2>1, <2>3 DEF PollerPassesNothing, EmittedReached, Tail0
  <2> QED
    BY <1>4, <2>4
<1>6. c.out \in Seq(Message) /\ Wire(net \o c.out, c.sent) /\ Reaches(c.sent)
  <2>1. Wire(<< >>, Start)
    BY <1>4, <1>5, <1>typ, WireEmpty
  <2>2. << >> \o << >> = << >> /\ << >> \in Seq(Message)
    OBVIOUS
  <2>3. Reaches(Start)
    BY <1>3, <1>typ DEF Reaches, TypeOK
  <2> QED
    BY <1>3, <2>1, <2>2, <2>3
<1> HIDE DEF c
<1>7. /\ net' \in Seq(Message) /\ sent' \in 0..Tail0
      /\ Wire(net, sent)' /\ Reaches(sent)' /\ EmittedReached'
  BY <1>1, <1>2, <1>6, CaughtUpKept
<1>8. phase' = "live" /\ pending' = {}
  BY <1>1 DEF CaughtUp
<1>9. TypeOK'
  BY <1>1, <1>2, <1>7, <1>8, <1>typ DEF TypeOK, Phases
<1>10. ConnectionSound'
  BY <1>1, <1>2, <1>3, <1>7, <1>8, <1>typ DEF ConnectionSound, Ordinal
<1> QED
  BY <1>1, <1>2, <1>9, <1>10, <1>typ, DeviceKept DEF StreamRest

\* A batch is emitted: to nobody, to the buffer of a connection that is catching up, or
\* to the wire.
LEMMA FannedOut ==
  ASSUME StreamInv, TransportTypeOK', NEW i \in Instances, FanOut(i)
  PROVE  StreamRest'
<1>typ. /\ Tail0 \in Nat /\ TypeOK /\ ConnectionSound /\ DeviceSound /\ LogInOrder
        /\ last \in [Instances -> Nat] /\ batch \in [Instances -> SUBSET (1..Tail0)]
        /\ emitted \in [Instances -> SUBSET Events]
        /\ poll \in [Instances -> {"idle", "querying", "fetched"}]
        /\ requested \in [Instances -> BOOLEAN]
        /\ \A s \in 1..Tail0 : Ordinal(s) \in Nat
  BY Typed DEF StreamInv
<1>1. /\ UNCHANGED <<rows, since, at, phase, after, page, baseline, cursor, queue, deferred, ready,
                     listening, heard, origin, opened>>
      /\ UNCHANGED Tail0
      /\ poll[i] = "fetched"
      /\ \/ batch[i] = {} /\ UNCHANGED last
         \/ \E s \in batch[i] : /\ \A t \in batch[i] : Ordinal(t) <= Ordinal(s)
                                /\ last' = [last EXCEPT ![i] = Ordinal(s)]
      /\ emitted' = [emitted EXCEPT ![i] = @ \cup {rows[s].event : s \in batch[i]}]
      /\ batch' = [batch EXCEPT ![i] = {}]
      /\ poll' = [poll EXCEPT ![i] = IF AnotherRound(i) THEN "querying" ELSE "idle"]
      /\ requested' = [requested EXCEPT ![i] = @ /\ FullBatch(i)]
  BY DEF FanOut, Emit, publishVars, deviceVars, Tail0
<1>2. phase = "polling" => PollCovers'
  <2> SUFFICES ASSUME phase = "polling", NEW s \in 1..baseline
               PROVE  \/ Ordinal(s) <= last'[at]
                      \/ poll'[at] = "querying"
                      \/ poll'[at] = "fetched" /\ (AnotherRound(at)' \/ s \in batch'[at])
    BY <1>1 DEF PollCovers, Ordinal
  <2>1. /\ at \in Instances /\ s \in 1..Tail0 /\ Ordinal(s) \in Nat
        /\ \/ Ordinal(s) <= last[at]
           \/ poll[at] = "querying"
           \/ poll[at] = "fetched" /\ (AnotherRound(at) \/ s \in batch[at])
    BY <1>typ, Typed DEF ConnectionSound, TypeOK, PollCovers
  <2>2. CASE at # i
    <3>1. last'[at] = last[at] /\ poll'[at] = poll[at] /\ batch'[at] = batch[at]
          /\ requested'[at] = requested[at]
      BY <1>1, <1>typ, <2>1, <2>2
    <3> QED
      BY <1>1, <2>1, <3>1 DEF AnotherRound, FullBatch
  <2>3. CASE at = i
    <3>1. CASE AnotherRound(i)
      BY <1>1, <1>typ, <2>1, <2>3, <3>1
    <3>2. CASE ~AnotherRound(i) /\ s \in batch[i]
      <4>1. PICK t \in batch[i] : Ordinal(s) <= Ordinal(t) /\ last' = [last EXCEPT ![i] = Ordinal(t)]
        BY <1>1, <3>2
      <4> QED
        BY <1>typ, <2>3, <4>1
    <3>3. CASE Ordinal(s) <= last[i]
      <4>1. last[i] <= last'[i] /\ last[i] \in Nat /\ last'[i] \in Nat
        <5>1. CASE UNCHANGED last
          BY <1>typ, <5>1
        <5>2. ASSUME NEW t \in batch[i], last' = [last EXCEPT ![i] = Ordinal(t)]
              PROVE  last[i] <= last'[i] /\ last[i] \in Nat /\ last'[i] \in Nat
          <6>1. last[i] < Ordinal(t)
            BY DEF StreamInv, EmittedInOrder
          <6>2. t \in 1..Tail0 /\ Ordinal(t) \in Nat /\ last[i] \in Nat /\ last'[i] = Ordinal(t)
            BY <1>typ, <5>2
          <6> QED
            BY <6>1, <6>2
        <5> QED
          BY <1>1, <5>1, <5>2
      <4> QED
        BY <2>1, <2>3, <3>3, <4>1
    <3> QED
      BY <1>1, <2>1, <2>3, <3>1, <3>2, <3>3
  <2> QED
    BY <2>2, <2>3
<1>3. CASE at # i
  <2>1. Unconnected
    BY <1>1, <1>3 DEF FanOut, Unconnected, serverVars, deviceVars
  <2>2. at # Nobody => since'[at] = since[at] /\ emitted'[at] = emitted[at]
    BY <1>1, <1>3, <1>typ DEF TypeOK
  <2> QED
    BY <1>1, <1>2, <2>1, <2>2, UnconnectedKept
<1>dev. DeviceSound'
  BY <1>1, <1>typ, DeviceKept DEF deviceVars
<1>4. ASSUME at = i
      PROVE  /\ phase # "none" /\ at # Nobody /\ EmittedReached
             /\ \A s \in pending : rows[s].event \in emitted[i]
             /\ \A s \in 1..Tail0 : opened < s => since[i] < Ordinal(s)
             /\ emitted'[i] = emitted[i] \cup {rows[s].event : s \in batch[i]}
             /\ \A s \in 1..Tail0 : rows[s].event \in emitted'[i] =>
                  rows[s].event \in emitted[i] \/ s \in Unseen(i)
             /\ \A s \in Unseen(i) : s \in 1..Tail0 /\ rows[s].event \in emitted'[i]
  <2>1. i # Nobody
    BY StreamAssumption
  <2>2. /\ phase # "none" /\ EmittedReached
        /\ \A s \in pending : rows[s].event \in emitted[i]
        /\ \A s \in 1..Tail0 : opened < s => since[i] < Ordinal(s)
    BY <1>4, <1>typ, <2>1 DEF ConnectionSound
  <2>3. emitted'[i] = emitted[i] \cup {rows[s].event : s \in batch[i]} /\ batch[i] \subseteq 1..Tail0
    BY <1>1, <1>typ
  <2>4. ASSUME NEW s \in 1..Tail0, NEW t \in batch[i], rows[s].event = rows[t].event PROVE s = t
    <3>1. t \in 1..Tail0 /\ (s < t \/ t < s \/ s = t)
      BY <2>3
    <3> QED
      BY <1>typ, <2>4, <3>1 DEF LogInOrder
  <2>5. \A s \in 1..Tail0 : rows[s].event \in emitted'[i] =>
          rows[s].event \in emitted[i] \/ s \in Unseen(i)
    BY <2>3, <2>4 DEF Unseen
  <2>6. \A s \in Unseen(i) : s \in 1..Tail0 /\ rows[s].event \in emitted'[i]
    BY <2>3 DEF Unseen
  <2> QED
    BY <1>4, <2>1, <2>2, <2>3, <2>5, <2>6
<1>5. CASE at = i /\ phase # "live"
  <2>1. pending' = pending \cup Unseen(i) /\ UNCHANGED <<sent, net>>
    BY <1>5 DEF FanOut
  <2>2. TypeOK'
    <3>1. pending' \subseteq 1..Tail0
      BY <1>4, <1>5, <1>typ, <2>1 DEF TypeOK
    <3> QED
      BY <1>1, <1>typ, <2>1, <3>1 DEF TypeOK
  <2>3. EmittedReached'
    BY <1>1, <1>4, <1>5, <2>1 DEF EmittedReached
  <2>4. \A s \in pending' : rows[s].event \in emitted'[at]
    BY <1>4, <1>5, <2>1
  <2>5. phase \in {"baselining", "polling"} \/ Wire(net, sent)'
    BY <1>1, <1>typ, <2>1, WireMoves DEF ConnectionSound
  <2>6. ConnectionSound'
    BY <1>1, <1>2, <1>4, <1>5, <1>typ, <2>1, <2>3, <2>4, <2>5 DEF ConnectionSound, Ordinal, Reaches
  <2> QED
    BY <1>dev, <2>2, <2>6 DEF StreamRest
<1>6. CASE at = i /\ phase = "live"
  <2> DEFINE rank == [s \in Unseen(i) |-> Ordinal(s)]
             c == SendAll(sent, Ascending(Unseen(i), rank), TRUE)
  <2>1. sent' = c.sent /\ net' = net \o c.out /\ UNCHANGED pending
    BY <1>6 DEF FanOut
  <2>2. Wire(net, sent) /\ Reaches(sent) /\ sent \in 0..Tail0 /\ pending \subseteq 1..Tail0
    BY <1>6, <1>typ DEF ConnectionSound, Wire, TypeOK
  <2>3. ASSUME NEW s \in Owed, NEW u \in Unseen(i), sent < s, s <= u PROVE s \in Unseen(i)
    <3>1. opened < s /\ s \in 1..Tail0
      <4>1. opened \in 0..Tail0 /\ origin \in 0..Tail0
        BY <1>typ DEF TypeOK
      <4> QED
        BY <1>typ, <2>2, <2>3, <4>1, OwedSince DEF Owed
    <3>2. rows[s].event \notin emitted[i]
      <4>1. rows[s].event \in emitted[i] => s <= sent
        BY <1>4, <1>6, <3>1 DEF EmittedReached
      <4> QED
        BY <2>2, <2>3, <3>1, <4>1
    <3>3. u \in batch[i] /\ u \in 1..Tail0
      BY <1>typ DEF Unseen
    <3>4. since[i] < Ordinal(s)
      BY <1>4, <1>6, <3>1
    <3>5. last[i] < Ordinal(s)
      <4>1. ~(Ordinal(s) <= last[i])
        BY <3>1, <3>2, <3>4 DEF StreamInv, TransportInv, PollerPassesNothing, Tail0
      <4> QED
        BY <1>typ, <3>1, <4>1
    <3>6. Ordinal(s) <= Ordinal(u)
      <4>1. s = u \/ s < u
        BY <2>3, <3>1, <3>3
      <4>2. Ordinal(s) \in Nat
        BY <1>typ, <3>1
      <4>3. s < u => Ordinal(s) < Ordinal(u)
        BY <1>typ, <3>1, <3>3 DEF LogInOrder
      <4> QED
        BY <1>typ, <3>1, <3>3, <4>1, <4>3
    <3>7. s \in batch[i]
      BY <3>1, <3>3, <3>5, <3>6 DEF StreamInv, TransportInv, BatchClosed, Tail0
    <3> QED
      BY <3>2, <3>7 DEF Unseen
  <2>4. /\ c.out \in Seq(Message) /\ Wire(net \o c.out, c.sent)
        /\ sent <= c.sent /\ \A u \in Unseen(i) : u <= c.sent
    <3>1. \A s \in Unseen(i) : s \in 1..Tail0
      BY <1>4, <1>6
    <3>2. \A s \in Unseen(i) : rank[s] \in Nat
      BY <1>typ, <3>1
    <3>3. \A s, t \in Unseen(i) : s < t => rank[s] < rank[t]
      BY <1>typ, <3>1 DEF LogInOrder
    <3> HIDE DEF rank
    <3> QED
      BY <1>typ, <2>2, <2>3, <3>1, <3>2, <3>3, SetSent
  <2> HIDE DEF c
  <2>5. sent' \in 0..Tail0 /\ net' \in Seq(Message)
    BY <2>1, <2>4 DEF Wire
  <2>6. TypeOK'
    BY <1>1, <1>typ, <2>1, <2>5 DEF TypeOK
  <2>7. Wire(net, sent)'
    BY <1>1, <2>1, <2>4, WireMoves
  <2>8. EmittedReached'
    <3> SUFFICES ASSUME NEW s \in 1..Tail0, opened < s, rows[s].event \in emitted'[i]
                 PROVE  s <= sent'
      BY <1>1, <1>6 DEF EmittedReached
    <3>1. CASE s \in Unseen(i)
      BY <2>1, <2>4, <3>1
    <3>2. CASE rows[s].event \in emitted[i]
      <4>1. s <= sent
        BY <1>4, <1>6, <3>2 DEF EmittedReached
      <4> QED
        BY <2>1, <2>2, <2>4, <2>5, <4>1
    <3> QED
      BY <1>4, <1>6, <3>1, <3>2
  <2>9. Reaches(sent)'
    <3>1. opened \in Nat
      BY <1>typ DEF TypeOK
    <3> QED
      BY <1>1, <2>1, <2>2, <2>4, <2>5, <3>1 DEF Reaches
  <2>10. \A s \in pending' : rows[s].event \in emitted'[at]
    BY <1>4, <1>6, <2>1
  <2>11. ConnectionSound'
    BY <1>1, <1>4, <1>6, <2>1, <2>7, <2>8, <2>9, <2>10 DEF ConnectionSound, Ordinal
  <2> QED
    BY <1>dev, <2>6, <2>11 DEF StreamRest
<1> QED
  BY <1>3, <1>5, <1>6

-----------------------------------------------------------------------------
(* Steps of the device.                                                    *)

\* What a drain has no part in.
Aside == <<rows, last, since, poll, requested, batch, emitted, origin, opened>>

\* A drain leaves a device and a connection in order, if it leaves the wire in order.
LEMMA DrainedRest ==
  ASSUME StreamInv, TransportTypeOK', UNCHANGED Aside, listening' \subseteq DurableKinds,
         NEW q, Drained(q), net' \in Seq(Message),
         phase \notin {"none", "baselining", "polling"},
         Torn \/ Wire(net, sent)'
  PROVE  StreamRest'
<1>typ. Tail0 \in Nat /\ TypeOK /\ ConnectionSound
  BY Typed DEF StreamInv
<1>1. UNCHANGED <<rows, last, since, poll, requested, batch, emitted, origin, opened>>
      /\ UNCHANGED Tail0
  BY DEF Aside, Tail0
<1>2. /\ DeviceSound'
      /\ heard' \subseteq 1..Tail0
      /\ cursor' \in 0..Tail0 \cup {NoCursor}
      /\ queue' \in Seq(1..Tail0) /\ Len(queue') <= QueueLimit
      /\ deferred' \in Nat \cup {NoCursor} /\ ready' \in {"no", "handshake", "timer"}
  BY DEF Drained
<1>3. Torn \/ UNCHANGED <<at, phase, sent, pending, after, page, baseline>>
  BY DEF Drained, serverVars
<1>4. CASE Torn
  <2>1. ConnectionSound'
    BY <1>1, <1>4, <1>typ, TornSound
  <2>2. /\ << >> \in Seq(1..Tail0)
        /\ at' = Nobody /\ phase' = "none" /\ sent' = 0 /\ pending' = {} /\ after' = 0
        /\ page' = << >> /\ baseline' = 0
    BY <1>4 DEF Torn
  <2>3. TypeOK'
    BY <1>1, <1>2, <1>typ, <2>2 DEF TypeOK, Phases
  <2> QED
    BY <1>2, <2>1, <2>3 DEF StreamRest
<1>5. CASE UNCHANGED <<at, phase, sent, pending, after, page, baseline>> /\ Wire(net, sent)'
  <2>1. TypeOK'
    BY <1>1, <1>2, <1>5, <1>typ DEF TypeOK
  <2>2. EmittedReached /\ EmittedReached'
    BY <1>1, <1>5, <1>typ DEF ConnectionSound, EmittedReached
  <2>3. ConnectionSound'
    BY <1>1, <1>5, <1>typ, <2>2 DEF ConnectionSound, Ordinal, Reaches
  <2> QED
    BY <1>2, <2>1, <2>3 DEF StreamRest
<1> QED
  BY <1>3, <1>4, <1>5

\* The first message on the wire.
LEMMA HeadOfWire ==
  ASSUME StreamInv, net # << >>
  PROVE  /\ phase \notin {"none", "baselining", "polling"} /\ at # Nobody /\ Wire(net, sent)
         /\ net \in Seq(Message) /\ Len(net) \in Nat /\ 1 \in 1..Len(net) /\ Head(net) = net[1]
         /\ Head(net).sequence \in 0..Tail0
         /\ Head(net).type = "event" => Head(net).sequence \in 1..Tail0
         /\ Head(net).type = "cursor" => Reaches(Head(net).sequence)
         /\ \A s \in Owed : s <= Head(net).sequence =>
              s \in Queued(queue) \/ (Head(net).type = "event" /\ s = Head(net).sequence)
<1>1. /\ phase \notin {"none", "baselining", "polling"} /\ at # Nobody
      /\ Wire(net, sent) /\ Tail0 \in Nat
  BY Typed DEF StreamInv, ConnectionSound
<1>2. net \in Seq(Message) /\ Len(net) \in Nat /\ 1 \in 1..Len(net) /\ Head(net) = net[1]
  BY <1>1, EmptySeq DEF Wire
<1>3. /\ net[1].sequence \in 0..Tail0 /\ (net[1].type = "event" => net[1].sequence > 0)
      /\ net[1].type = "cursor" => Reaches(net[1].sequence)
      /\ \A s \in Owed : s <= net[1].sequence => s \in Arrived(net, 1)
  BY <1>1, <1>2 DEF Wire
<1>4. Arrived(net, 1) = Queued(queue) \cup
        (IF net[1].type = "event" THEN {net[1].sequence} ELSE {})
  <2>1. \A p \in 1..1 : p = 1
    OBVIOUS
  <2> QED
    BY <2>1 DEF Arrived, Queued
<1> QED
  BY <1>1, <1>2, <1>3, <1>4

\* The wire without its first message, once a drain of the queue and that message is through.
LEMMA WireShifts ==
  ASSUME StreamInv, net # << >>, UNCHANGED Aside, UNCHANGED sent, net' = Tail(net),
         NEW q, Owed' \subseteq Owed, \A s \in Owed' : s \in Queued(q) => s \in Queued(queue'),
         Queued(queue) \subseteq Queued(q),
         Head(net).type = "event" => Head(net).sequence \in Queued(q)
  PROVE  Wire(net, sent)'
<1> DEFINE w == Tail(net)
<1>1. Wire(net, sent) /\ net \in Seq(Message) /\ Len(net) \in Nat /\ Head(net) = net[1]
  BY HeadOfWire
<1>2. w \in Seq(Message) /\ Len(w) = Len(net) - 1 /\ \A p \in 1..Len(w) : w[p] = net[p + 1]
  BY <1>1, HeadTailProperties
<1>3. ASSUME NEW p \in 0..Len(w), NEW s \in Owed', s \in Arrived(net, p + 1)
      PROVE  s \in Queued(queue') \/ \E r \in 1..p : w[r].type = "event" /\ s = w[r].sequence
  <2>1. s \in Queued(queue) \/ \E r \in 1..(p + 1) : net[r].type = "event" /\ s = net[r].sequence
    BY <1>3 DEF Arrived, Queued
  <2>2. ASSUME NEW r \in 1..(p + 1), net[r].type = "event", s = net[r].sequence
        PROVE  s \in Queued(q) \/ \E t \in 1..p : w[t].type = "event" /\ s = w[t].sequence
    <3>1. CASE r = 1
      BY <1>1, <2>2, <3>1
    <3>2. CASE r # 1
      <4>1. r - 1 \in 1..p /\ r - 1 \in 1..Len(w) /\ (r - 1) + 1 = r
        BY <1>1, <1>2, <3>2
      <4>2. w[r - 1] = net[r]
        BY <1>2, <4>1
      <4> HIDE DEF w
      <4> QED
        BY <2>2, <4>1, <4>2
    <3> QED
      BY <3>1, <3>2
  <2> HIDE DEF w
  <2> QED
    BY <2>1, <2>2
<1>4. \A s \in Owed' : s \in Owed
  OBVIOUS
<1>5. /\ sent' \in 0..Tail0' /\ Tail0' = Tail0 /\ net' = w
      /\ \A n : Reaches(n)' <=> Reaches(n)
  BY <1>1 DEF Wire, Aside, Tail0, Reaches
<1> HIDE DEF w
<1>6. ASSUME NEW p \in 1..Len(w)
      PROVE  /\ w[p].sequence \in 0..Tail0 /\ (w[p].type = "event" => w[p].sequence > 0)
             /\ w[p].type = "cursor" => Reaches(w[p].sequence)
             /\ \A s \in Owed' : s <= w[p].sequence =>
                  s \in Queued(queue') \/ \E r \in 1..p : w[r].type = "event" /\ s = w[r].sequence
  <2>1. p + 1 \in 1..Len(net) /\ w[p] = net[p + 1]
    BY <1>1, <1>2
  <2>2. /\ w[p].sequence \in 0..Tail0 /\ (w[p].type = "event" => w[p].sequence > 0)
        /\ w[p].type = "cursor" => Reaches(w[p].sequence)
        /\ \A s \in Owed : s <= w[p].sequence => s \in Arrived(net, p + 1)
    BY <1>1, <2>1 DEF Wire
  <2>3. p \in 0..Len(w)
    OBVIOUS
  <2> QED
    BY <1>3, <1>4, <2>2, <2>3
<1>7. \A s \in Owed' : s <= sent =>
        s \in Queued(queue') \/ \E r \in 1..Len(w) : w[r].type = "event" /\ s = w[r].sequence
  <2>1. Len(w) \in 0..Len(w) /\ Len(w) + 1 = Len(net)
    BY <1>1, <1>2, EmptySeq
  <2>2. \A s \in Owed : s <= sent => s \in Arrived(net, Len(w) + 1)
    BY <1>1, <2>1 DEF Wire
  <2> QED
    BY <1>3, <1>4, <2>1, <2>2
<1> DEFINE Heads(p) == {w[r].sequence : r \in {r \in 1..p : w[r].type = "event"}}
           There(p) == Queued(queue') \cup Heads(p)
<1>8. ASSUME NEW p \in 1..Len(w)
      PROVE  /\ w[p].sequence \in 0..Tail0 /\ (w[p].type = "event" => w[p].sequence > 0)
             /\ w[p].type = "cursor" => opened <= origin \/ opened <= w[p].sequence
             /\ \A s \in Owed' : s <= w[p].sequence => s \in There(p)
  <2>1. \A s \in Owed' : s <= w[p].sequence => s \in There(p)
    BY <1>6
  <2> HIDE DEF There
  <2> QED
    BY <1>6, <2>1 DEF Reaches
<1>9. \A s \in Owed' : s <= sent => s \in There(Len(w))
  BY <1>7
<1>10. /\ net' = w /\ sent' = sent /\ opened' = opened /\ origin' = origin /\ Tail0' = Tail0
       /\ \A p : Arrived(net, p)' = There(p)
  BY <1>5 DEF Arrived, Queued, Aside
<1> HIDE DEF There
<1> QED
  BY <1>2, <1>5, <1>8, <1>9, <1>10 DEF Wire, Reaches

\* A connection on which nothing happens, or only its timer fires, stays sound.
LEMMA ConnectionKept ==
  ASSUME ConnectionSound, ready' = ready \/ phase # "none",
         UNCHANGED <<rows, last, since, poll, requested, batch, emitted, at, phase, sent, pending,
                     after, page, baseline, net, cursor, queue, deferred, heard, origin, opened>>
  PROVE  ConnectionSound'
<1>1. /\ UNCHANGED <<Tail0, Owed>>
      /\ \A n : Reaches(n)' <=> Reaches(n)
      /\ \A w, p : Arrived(w, p)' = Arrived(w, p)
  BY DEF Tail0, Owed, Durable, KindAt, Reaches, Arrived
<1>2. Wire(net, sent)' <=> Wire(net, sent)
  BY <1>1 DEF Wire
<1>3. (EmittedReached' <=> EmittedReached) /\ (PollCovers' <=> PollCovers)
  BY <1>1 DEF EmittedReached, PollCovers, AnotherRound, FullBatch, Ordinal
<1> QED
  BY <1>1, <1>2, <1>3 DEF ConnectionSound, Ordinal

\* What the device keeps, as a drain needs it.
LEMMA DeviceTyped ==
  ASSUME StreamInv
  PROVE  /\ DeviceSound /\ Tail0 \in Nat /\ opened \in 0..Tail0 /\ heard \subseteq 1..Tail0
         /\ ready \in {"no", "handshake", "timer"} /\ cursor \in 0..Tail0 \cup {NoCursor}
         /\ queue \in Seq(1..Tail0) /\ Len(queue) <= QueueLimit /\ Len(queue) \in Nat
         /\ deferred \in 0..Tail0 \cup {NoCursor} /\ NoCursor \notin Nat /\ QueueLimit \in Nat
         /\ deferred # NoCursor =>
              Reaches(deferred) /\ \A s \in Owed : s <= deferred => s \in Queued(queue)
         /\ cursor = NoCursor => queue = << >> /\ deferred = NoCursor
         /\ cursor # NoCursor => \A s \in Owed : cursor < s
<1>1. TypeOK /\ DeviceSound /\ Tail0 \in Nat
  BY Typed DEF StreamInv
<1>2. deferred \in 0..Tail0 \cup {NoCursor}
  BY <1>1 DEF TypeOK, DeviceSound
<1>3. cursor # NoCursor => \A s \in Owed : cursor < s
  <2>1. \A s \in Owed : s \in Nat
    BY DEF Owed
  <2> QED
    BY <1>1, <2>1 DEF DeviceSound, TypeOK
<1> QED
  BY <1>1, <1>2, <1>3, StreamAssumption, LenProperties DEF TypeOK, DeviceSound, Queued

\* The wire without its first message, or none.
LEMMA NetDrained ==
  ASSUME StreamInv, net # << >>, UNCHANGED Aside, NEW q, Drained(q),
         net' = IF at' = Nobody THEN << >> ELSE Tail(net),
         Queued(queue) \subseteq Queued(q),
         Head(net).type = "event" => Head(net).sequence \in Queued(q)
  PROVE  net' \in Seq(Message) /\ (Torn \/ Wire(net, sent)')
<1>1. net \in Seq(Message) /\ << >> \in Seq(Message)
  BY HeadOfWire
<1>2. Tail(net) \in Seq(Message)
  BY <1>1, HeadTailProperties
<1>3. ASSUME UNCHANGED serverVars, \A s \in Owed' : s \in Queued(q) => s \in Queued(queue')
      PROVE  Wire(net, sent)'
  <2>1. at # Nobody
    BY HeadOfWire
  <2>2. UNCHANGED sent /\ net' = Tail(net)
    BY <1>3, <2>1 DEF serverVars
  <2>3. Owed' \subseteq Owed
    BY DEF Drained
  <2> QED
    BY <1>3, <2>2, <2>3, WireShifts
<1>4. \/ Torn
      \/ UNCHANGED serverVars /\ \A s \in Owed' : s \in Queued(q) => s \in Queued(queue')
  BY DEF Drained
<1> QED
  BY <1>1, <1>2, <1>3, <1>4

\* The promise counts what is still to be heard as the stream does.
LEMMA CoveredIs ==
  ASSUME rows \in Seq(Row), NEW n \in 0..Tail0, NEW known,
         \A s \in 1..n : origin < s /\ Durable(s) => s \in known
  PROVE  Promise!CoveredTo(n, origin, known)
<1>1. Tail0 = Len(rows) /\ Tail0 \in Nat
  BY LenProperties DEF Tail0
<1>2. \A s \in 1..n : s \in 1..Len(rows)
  BY <1>1
<1> QED
  BY <1>2 DEF Promise!CoveredTo, Durable, KindAt

\* A drain is a delivery as the promise has it.
LEMMA DrainDelivers ==
  ASSUME StreamInv, NEW q, Drained(q), UNCHANGED <<rows, origin, opened>>
  PROVE  Promise!Deliver
<1>typ. /\ Tail0 = Len(rows) /\ Tail0 \in Nat /\ rows \in Seq(Row) /\ NoCursor \notin Nat
        /\ \A s \in Owed : s \in Nat
  BY Typed, StreamAssumption DEF Tail0, Owed
<1>1. /\ heard \subseteq heard' /\ heard' \subseteq 1..Tail0
      /\ cursor' # NoCursor => cursor' \in 0..Tail0
      /\ cursor # NoCursor => cursor' # NoCursor /\ cursor <= cursor'
  BY DEF Drained
<1>2. ASSUME NEW s \in heard' \ heard PROVE Promise!CoveredTo(s, origin, heard')
  <2>1. s \in 0..Tail0 /\ \A t \in Owed : t <= s => t \in heard'
    BY <1>1, <1>typ DEF Drained
  <2>2. \A t \in 1..s : origin < t /\ Durable(t) => t \in heard'
    BY <1>1, <1>typ, <2>1 DEF Owed
  <2> QED
    BY <1>typ, <2>1, <2>2, CoveredIs
<1>3. ASSUME cursor' # NoCursor PROVE Promise!CoveredTo(cursor', origin, heard')
  <2>1. \A s \in Owed' : s > cursor'
    BY <1>3 DEF Drained, DeviceSound
  <2>2. Owed' = {s \in 1..Tail0 : origin < s /\ Durable(s) /\ s \notin heard'}
    BY DEF Owed, Tail0, Durable, KindAt
  <2>3. cursor' \in 0..Tail0
    BY <1>1, <1>3
  <2>4. \A s \in 1..cursor' : origin < s /\ Durable(s) => s \in heard'
    BY <1>typ, <2>1, <2>2, <2>3
  <2> QED
    BY <1>typ, <2>3, <2>4, CoveredIs
<1> QED
  BY <1>typ, <1>1, <1>2, <1>3 DEF Promise!Deliver

\* An event arrives and the queue is drained, or the backlog is full.
LEMMA EventReceived ==
  ASSUME StreamInv, TransportTypeOK', NEW bad, ReceiveEvent(bad)
  PROVE  StreamRest' /\ (Promise!Deliver \/ UNCHANGED <<cursor, heard>>)
<1> DEFINE s == Head(net).sequence
           q == Append(queue, s)
<1>1. net # << >> /\ Head(net).type = "event" /\ UNCHANGED <<Aside, listening, rows, origin, opened>>
  BY DEF ReceiveEvent, publishVars, pollVars, Aside
<1>2. /\ phase \notin {"none", "baselining", "polling"} /\ s \in 1..Tail0
      /\ \A t \in Owed : t <= s => t \in Queued(queue) \/ t = s
  BY <1>1, HeadOfWire
<1>typ. listening \subseteq DurableKinds
  BY Typed DEF TypeOK
<1>3. CASE BacklogFull
  <2>1. Torn /\ UNCHANGED <<cursor, heard>>
    BY <1>3 DEF ReceiveEvent
  <2> QED
    BY <1>1, <1>typ, <2>1, TornKept
<1>4. CASE ~BacklogFull
  <2>1. /\ Drain(listening, CursorBefore(s), q, deferred, bad)
        /\ net' = IF at' = Nobody THEN << >> ELSE Tail(net)
    BY <1>4 DEF ReceiveEvent
  <2>2. /\ q \in Seq(1..Tail0) /\ Len(q) <= QueueLimit /\ q # << >>
        /\ Queued(queue) \subseteq Queued(q) /\ s \in Queued(q)
    <3>1. /\ q \in Seq(1..Tail0) /\ Len(q) = Len(queue) + 1
          /\ \A n \in 1..Len(queue) : q[n] = queue[n]
          /\ q[Len(queue) + 1] = s
      BY <1>2, DeviceTyped, AppendProperties
    <3>2. Len(queue) \in Nat /\ QueueLimit \in Nat /\ ~(Len(queue) >= QueueLimit)
      BY <1>4, DeviceTyped DEF BacklogFull
    <3> HIDE DEF q
    <3>3. Len(q) # 0 /\ Len(q) <= QueueLimit
      BY <3>1, <3>2
    <3>4. q # << >>
      BY <3>3
    <3>5. Queued(queue) \subseteq Queued(q) /\ s \in Queued(q)
      BY <3>1, <3>2 DEF Queued
    <3> QED
      BY <3>1, <3>3, <3>4, <3>5
  <2>3. /\ CursorBefore(s) \in 0..Tail0 \cup {NoCursor}
        /\ CursorBefore(s) # NoCursor
        /\ cursor # NoCursor => CursorBefore(s) = cursor
        /\ \A t \in Owed : CursorBefore(s) < t
    <3>1. CASE cursor = NoCursor
      <4>1. Queued(queue) = {}
        BY <3>1, DeviceTyped DEF Queued
      <4>2. s - 1 \in 0..Tail0 /\ CursorBefore(s) = s - 1
        BY <1>2, <3>1, DeviceTyped DEF CursorBefore
      <4>3. \A t \in Owed : t \in Nat
        BY DEF Owed
      <4>4. \A t \in Owed : s - 1 < t
        <5> HIDE DEF s
        <5> QED
          BY <1>2, <4>1, <4>3
      <4> QED
        BY <3>1, <4>2, <4>4, DeviceTyped
    <3>2. CASE cursor # NoCursor
      BY <3>2, DeviceTyped DEF CursorBefore
    <3> QED
      BY <3>1, <3>2
  <2> HIDE DEF s, q
  <2>4. deferred # NoCursor => Reaches(deferred) /\ \A t \in Owed : t <= deferred => t \in Queued(q)
    BY <2>2, DeviceTyped
  <2>5. Drained(q)
    BY <1>1, <2>1, <2>2, <2>3, <2>4, DeviceTyped, DrainKeeps
  <2>6. net' \in Seq(Message) /\ (Torn \/ Wire(net, sent)')
    BY <1>1, <2>1, <2>2, <2>5, NetDrained DEF s
  <2> QED
    BY <1>1, <1>2, <1>typ, <2>5, <2>6, DrainedRest, DrainDelivers
<1> QED
  BY <1>3, <1>4

\* The handshake arrives: its cursor waits for the queue.
LEMMA CursorReceived ==
  ASSUME StreamInv, TransportTypeOK', ReceiveCursor
  PROVE  StreamRest' /\ Promise!Deliver
<1> DEFINE n == Head(net).sequence
           tail == IF deferred = NoCursor \/ n > deferred THEN n ELSE deferred
<1>1. net # << >> /\ Head(net).type = "cursor" /\ UNCHANGED <<Aside, listening, rows, origin, opened>>
      /\ Drain(listening, cursor, queue, tail, 0)
      /\ net' = IF at' = Nobody THEN << >> ELSE Tail(net)
  BY DEF ReceiveCursor, transportVars, Aside
<1>2. /\ phase \notin {"none", "baselining", "polling"} /\ n \in 0..Tail0 /\ Reaches(n)
      /\ \A t \in Owed : t <= n => t \in Queued(queue)
  BY <1>1, HeadOfWire
<1>typ. listening \subseteq DurableKinds
  BY Typed DEF TypeOK
<1>3. /\ tail \in 0..Tail0 \cup {NoCursor}
      /\ tail # NoCursor => Reaches(tail) /\ \A t \in Owed : t <= tail => t \in Queued(queue)
  <2>1. tail = n \/ tail = deferred
    OBVIOUS
  <2> HIDE DEF tail, n
  <2>2. CASE tail = n
    BY <1>2, <2>2
  <2>3. CASE tail = deferred
    BY <2>3, DeviceTyped
  <2> QED
    BY <2>1, <2>2, <2>3
<1> HIDE DEF tail
<1>4. Drained(queue)
  BY <1>1, <1>3, DeviceTyped, DrainKeeps
<1>5. net' \in Seq(Message) /\ (Torn \/ Wire(net, sent)')
  BY <1>1, <1>4, NetDrained
<1> QED
  BY <1>1, <1>2, <1>4, <1>5, <1>typ, DrainedRest, DrainDelivers

\* A consumer arrives and what waited for it is drained.
LEMMA Listened ==
  ASSUME StreamInv, TransportTypeOK', NEW kind \in DurableKinds, Listen(kind)
  PROVE  StreamRest' /\ Promise!Deliver
<1>1. /\ UNCHANGED <<Aside, rows, origin, opened>>
      /\ listening' = listening \cup {kind}
      /\ Drain(listening', cursor, queue, deferred, 0)
      /\ net' = IF at' = Nobody THEN << >> ELSE net
  BY DEF Listen, transportVars, Aside
<1>typ. listening' \subseteq DurableKinds /\ TypeOK /\ ConnectionSound /\ net \in Seq(Message)
  BY <1>1, Typed DEF TypeOK, StreamInv
<1>2. /\ Drained(queue)
      /\ queue = << >> /\ deferred = NoCursor =>
           /\ UNCHANGED <<serverVars, ready, heard>> /\ queue' = << >> /\ deferred' = NoCursor
           /\ cursor' = cursor
  BY <1>1, DeviceTyped, DrainKeeps
<1>3. CASE phase \in {"none", "baselining", "polling"}
  <2>1. queue = << >> /\ deferred = NoCursor /\ (phase = "none" => net = << >>)
        /\ (phase = "none" <=> at = Nobody)
    BY <1>3, <1>typ, DeviceTyped DEF ConnectionSound
  <2>2. UNCHANGED <<at, phase, sent, pending, after, page, baseline, cursor, queue, deferred, ready,
                    heard, net>>
    BY <1>1, <1>2, <2>1 DEF serverVars
  <2>3. ConnectionSound'
    BY <1>1, <1>typ, <2>2, ConnectionKept DEF Aside
  <2>4. TypeOK'
    BY <1>1, <1>typ, <2>2 DEF TypeOK, Aside, Tail0
  <2> QED
    BY <1>1, <1>2, <2>3, <2>4, DrainDelivers DEF StreamRest, Drained
<1>4. CASE phase \notin {"none", "baselining", "polling"}
  <2>1. at # Nobody /\ Wire(net, sent)
    BY <1>4, <1>typ DEF ConnectionSound
  <2>2. net' \in Seq(Message)
    BY <1>1, <1>typ
  <2>3. ASSUME UNCHANGED serverVars, \A s \in Owed' : s \in Queued(queue) => s \in Queued(queue')
        PROVE  Wire(net, sent)'
    <3>1. UNCHANGED <<net, sent>>
      BY <1>1, <2>1, <2>3 DEF serverVars
    <3>2. Tail0' = Tail0 /\ Tail0 \in Nat /\ Tail0 <= Tail0' /\ Owed' \subseteq Owed
      BY <1>1, <1>2, Typed DEF Drained, Tail0
    <3> QED
      BY <1>1, <2>1, <2>3, <3>1, <3>2, WireStays
  <2>4. Torn \/ Wire(net, sent)'
    BY <1>2, <2>3 DEF Drained
  <2> QED
    BY <1>1, <1>2, <1>4, <1>typ, <2>2, <2>4, DrainedRest, DrainDelivers
<1> QED
  BY <1>3, <1>4

-----------------------------------------------------------------------------
(* The invariant, and what follows from it.                                *)

\* Every step keeps connection and device in order, if it keeps the types of the log.
LEMMA RestKept == StreamInv /\ TransportTypeOK' /\ [Next]_vars => StreamRest'
<1> SUFFICES ASSUME StreamInv, TransportTypeOK', [Next]_vars PROVE StreamRest'
  OBVIOUS
<1>typ. TypeOK /\ ConnectionSound /\ DeviceSound
  BY DEF StreamInv
<1>1. CASE PublishStep /\ Unconnected
  BY <1>1, TransportMoves
<1>2. ASSUME NEW i \in Instances, (Poll(i) \/ Overlap(i) \/ Query(i)) /\ Unconnected
      PROVE  StreamRest'
  BY <1>2, TransportMoves
<1>3. ASSUME NEW i \in Instances, FanOut(i) PROVE StreamRest'
  BY <1>3, FannedOut
<1>4. ASSUME NEW i \in Instances, FailPoll(i) \/ RestartInstance(i) PROVE StreamRest'
  BY <1>4, InstanceFails
<1>5. ASSUME NEW i \in Instances, Connect(i) PROVE StreamRest'
  BY <1>5, Connected
<1>6. CASE ReplayQuery
  BY <1>6, Replayed
<1>7. CASE ReplaySend
  BY <1>7, Sent
<1>8. CASE BaselineRead
  BY <1>8, BaselineTaken
<1>9. CASE BaselineSet
  BY <1>9, BaselineReady
<1>10. ASSUME NEW bad, ReceiveEvent(bad) PROVE StreamRest'
  BY <1>10, EventReceived
<1>11. CASE ReceiveCursor
  BY <1>11, CursorReceived
<1>12. ASSUME NEW kind \in DurableKinds, Listen(kind) PROVE StreamRest'
  BY <1>12, Listened
<1>13. CASE Drop \/ Relaunch
  <2>1. /\ Torn /\ UNCHANGED <<rows, origin, opened, cursor, heard>>
        /\ listening' \subseteq DurableKinds
    BY <1>13, <1>typ DEF Drop, Relaunch, publishVars, TypeOK
  <2> QED
    BY <2>1, TornKept
<1>14. CASE UNCHANGED vars
  <2>1. UNCHANGED <<rows, last, since, poll, requested, batch, emitted, at, phase, sent, pending,
                    after, page, baseline, net, cursor, queue, deferred, ready, listening, heard,
                    origin, opened, deviceVars>>
    BY <1>14 DEF vars, transportVars, serverVars, deviceVars
  <2>2. TypeOK'
    BY <1>typ, <2>1 DEF TypeOK, Tail0
  <2> QED
    BY <1>typ, <2>1, <2>2, ConnectionKept, DeviceKept DEF StreamRest
<1>15. CASE LegacyReady
  <2>1. /\ UNCHANGED <<rows, last, since, poll, requested, batch, emitted, at, phase, sent,
                       pending, after, page, baseline, net, cursor, queue, deferred, listening,
                       heard, origin, opened>>
        /\ ready' = "timer" /\ phase # "none"
    BY <1>15, <1>typ DEF LegacyReady, transportVars, publishVars, pollVars, serverVars,
                         ConnectionSound
  <2>2. TypeOK'
    BY <1>typ, <2>1 DEF TypeOK, Tail0
  <2>3. /\ UNCHANGED <<Owed, Tail0>>
        /\ \A n : Reaches(n)' <=> Reaches(n)
    BY <2>1 DEF Owed, Durable, KindAt, Tail0, Reaches
  <2>4. DeviceSound'
    BY <1>typ, <2>1, <2>3 DEF DeviceSound, Reaches
  <2> QED
    BY <1>typ, <2>1, <2>2, <2>4, ConnectionKept DEF StreamRest
<1> QED
  BY <1>1, <1>2, <1>3, <1>4, <1>5, <1>6, <1>7, <1>8, <1>9, <1>10, <1>11, <1>12, <1>13, <1>14,
     <1>15 DEF Next

\* At first nothing is owed, on its way or emitted.
LEMMA InitSound == Init => StreamInv
<1> SUFFICES ASSUME Init PROVE StreamInv
  OBVIOUS
<1>1. TransportInv
  BY TransportInitInv
<1>2. /\ rows = << >> /\ Tail0 = 0 /\ Owed = {}
      /\ last = [i \in Instances |-> 0] /\ since = [i \in Instances |-> 0]
      /\ batch = [i \in Instances |-> {}] /\ emitted = [i \in Instances |-> {}]
  BY DEF Init, TransportInit, Tail0, Owed
<1>3. LogInOrder /\ \A i \in Instances : EmittedInOrder(i)
  BY <1>2 DEF LogInOrder, EmittedInOrder
<1>4. TypeOK
  <2>1. << >> \in Seq(1..0) /\ << >> \in Seq(Message) /\ Len(<< >>) = 0 /\ QueueLimit \in Nat
    BY StreamAssumption
  <2>2. /\ at = Nobody /\ phase = "none" /\ sent = 0 /\ pending = {} /\ after = 0 /\ page = << >>
        /\ baseline = 0 /\ net = << >> /\ cursor = NoCursor /\ queue = << >>
        /\ deferred = NoCursor /\ ready = "no" /\ listening = {} /\ heard = {}
        /\ origin = 0 /\ opened = 0
    BY DEF Init
  <2>3. TransportTypeOK
    BY <1>1 DEF TransportInv
  <2>4. /\ << >> \in Seq(1..Tail0) /\ 0 \in 0..Tail0 /\ 0 \in Nat
        /\ Len(queue) <= QueueLimit
    BY <1>2, <2>1, <2>2
  <2> QED
    BY <2>1, <2>2, <2>3, <2>4 DEF TypeOK, Phases
<1>5. Wire(net, sent)
  BY <1>2, WireEmpty DEF Init
<1>6. ConnectionSound
  BY <1>5 DEF Init, ConnectionSound
<1>7. DeviceSound
  BY DEF Init, DeviceSound
<1> QED
  BY <1>1, <1>3, <1>4, <1>6, <1>7 DEF StreamInv

\* The invariant is inductive.
LEMMA StreamKept == StreamInv /\ [Next]_vars => StreamInv'
<1> SUFFICES ASSUME StreamInv, [Next]_vars PROVE StreamInv'
  OBVIOUS
<1>1. TransportStep
  BY StreamStep
<1>2. TransportInv'
  BY <1>1, TransportKept DEF StreamInv
<1>3. LogInOrder' /\ \A i \in Instances : EmittedInOrder(i)'
  BY <1>1, LogKept DEF StreamInv
<1>4. StreamRest'
  BY <1>2, RestKept DEF TransportInv
<1> QED
  BY <1>2, <1>3, <1>4 DEF StreamInv, StreamRest

\* Log, connection and device stay in order together.
LEMMA StreamInvariant == Spec => []StreamInv
<1>1. Init => StreamInv
  BY InitSound
<1>2. StreamInv /\ [Next]_vars => StreamInv'
  BY StreamKept
<1> QED
  BY <1>1, <1>2, PTL DEF Spec

\* TypeOK: every variable keeps its type; the device's checkpoint, its queue and what it has
\* heard stay within the log, and its queue within its limit.
THEOREM TypeCorrect == Spec => []TypeOK
<1>1. StreamInv => TypeOK
  BY DEF StreamInv
<1> QED
  BY <1>1, StreamInvariant, PTL

\* ReadyMeansCaughtUp: a stream that the server's eventCursor made ready has delivered every
\* durable event that was committed when its connection was opened.
THEOREM ReadyIsCaughtUp == Spec => []ReadyMeansCaughtUp
<1>1. StreamInv => ReadyMeansCaughtUp
  <2> SUFFICES ASSUME StreamInv, ready = "handshake", NEW s \in 1..opened, origin < s, Durable(s)
               PROVE  s \in heard
    BY DEF ReadyMeansCaughtUp
  <2>1. /\ TypeOK /\ Tail0 \in Nat /\ cursor # NoCursor /\ Reaches(cursor)
        /\ \A t \in Owed : t > cursor
    BY Typed DEF StreamInv, DeviceSound
  <2>2. s \in 1..Tail0 /\ cursor \in Nat /\ origin \in Nat /\ opened \in Nat
    BY <2>1 DEF TypeOK
  <2>3. s <= cursor
    BY <2>1, <2>2 DEF Reaches
  <2>4. ~(s > cursor)
    BY <2>2, <2>3
  <2>5. s \notin Owed
    BY <2>1, <2>4
  <2> QED
    BY <2>2, <2>5 DEF Owed
<1> QED
  BY <1>1, StreamInvariant, PTL

\* A step that leaves the log, the checkpoint and what was heard alone is a stutter.
LEMMA PromiseStutters ==
  ASSUME UNCHANGED <<rows, cursor, heard, origin>>
  PROVE  UNCHANGED Promise!vars
BY DEF Promise!vars

\* A row is an event of the promise's log.
LEMMA PromiseAppends ==
  ASSUME rows \in Seq(Row), NEW row \in Row, NewRow(row), UNCHANGED <<cursor, heard, origin>>
  PROVE  Promise!AppendEvent(row.event)
<1> DEFINE log == [s \in 1..Len(rows) |-> rows[s].event]
<1>1. /\ Len(rows) \in Nat /\ Len(rows') = Len(rows) + 1 /\ rows'[Len(rows) + 1] = row
      /\ \A s \in 1..Len(rows) : rows'[s] = rows[s]
      /\ \A s \in 1..(Len(rows) + 1) : s \in 1..Len(rows) \/ s = Len(rows) + 1
  BY RowsGrow
<1>2. [s \in 1..Len(rows') |-> rows'[s].event]
        = [s \in 1..(Len(rows) + 1) |-> IF s = Len(rows) + 1 THEN row.event ELSE log[s]]
  <2>1. \A s \in 1..(Len(rows) + 1) :
          rows'[s].event = IF s = Len(rows) + 1 THEN row.event ELSE log[s]
    BY <1>1
  <2> QED
    BY <1>1, <2>1
<1> QED
  BY <1>1, <1>2 DEF Promise!AppendEvent

\* Every step is one of the promise, or a stutter.
LEMMA PromiseStep == StreamInv /\ StreamInv' /\ [Next]_vars => [Promise!Next]_(Promise!vars)
<1> SUFFICES ASSUME StreamInv, StreamInv', [Next]_vars PROVE Promise!Next \/ UNCHANGED Promise!vars
  OBVIOUS
<1>typ. TransportTypeOK'
  BY Typed DEF StreamInv, TransportInv
<1>1. CASE PublishStep /\ Unconnected
  <2>1. UNCHANGED <<cursor, heard, origin>> /\ (rows' = rows \/ \E row \in Row : NewRow(row))
    BY <1>1, Published DEF StreamInv, Unconnected, deviceVars
  <2>2. ASSUME NEW row \in Row, NewRow(row) PROVE Promise!Next
    <3>1. Promise!AppendEvent(row.event) /\ row.event \in Events
      BY <2>1, <2>2, Typed, PromiseAppends DEF Row
    <3> QED
      BY <3>1 DEF Promise!Next
  <2> QED
    BY <2>1, <2>2, PromiseStutters
<1>2. ASSUME NEW i \in Instances, Connect(i) PROVE Promise!Next \/ UNCHANGED Promise!vars
  <2>1. UNCHANGED <<rows, cursor, heard>>
        /\ ((cursor = NoCursor /\ origin' = Tail0) \/ UNCHANGED origin)
    BY <1>2 DEF Connect, transportVars, deviceVars
  <2>2. ASSUME cursor = NoCursor, origin' = Tail0 PROVE Promise!Next
    BY <2>1, <2>2 DEF Promise!Next, Promise!Connect, Tail0
  <2> QED
    BY <2>1, <2>2, PromiseStutters
<1>3. ASSUME NEW bad, ReceiveEvent(bad) PROVE Promise!Next \/ UNCHANGED Promise!vars
  <2>1. UNCHANGED <<rows, origin>>
    BY <1>3 DEF ReceiveEvent, publishVars
  <2> QED
    BY <1>typ, <1>3, <2>1, EventReceived, PromiseStutters DEF Promise!Next
<1>4. CASE ReceiveCursor
  BY <1>typ, <1>4, CursorReceived DEF Promise!Next
<1>5. ASSUME NEW kind \in DurableKinds, Listen(kind) PROVE Promise!Next
  BY <1>typ, <1>5, Listened DEF Promise!Next
<1>6. ASSUME NEW i \in Instances,
             \/ (Poll(i) \/ Overlap(i) \/ Query(i)) /\ Unconnected
             \/ FanOut(i) \/ FailPoll(i) \/ RestartInstance(i)
      PROVE  UNCHANGED Promise!vars
  <2>1. UNCHANGED <<rows, cursor, heard, origin>>
    BY <1>6 DEF Poll, Tick, Overlap, Query, FanOut, Emit, FailPoll, PollFails, RestartInstance,
                Restart, Unconnected, publishVars, deviceVars
  <2> QED
    BY <2>1, PromiseStutters
<1>7. CASE \/ ReplayQuery \/ ReplaySend \/ BaselineRead \/ BaselineSet
           \/ LegacyReady \/ Drop \/ Relaunch \/ UNCHANGED vars
  <2>1. UNCHANGED <<rows, cursor, heard, origin>>
    BY <1>7 DEF ReplayQuery, ReplaySend, BaselineRead, BaselineSet, LegacyReady, Drop, Relaunch,
                vars, transportVars, publishVars, deviceVars
  <2> QED
    BY <2>1, PromiseStutters
<1> QED
  BY <1>1, <1>2, <1>3, <1>4, <1>5, <1>6, <1>7 DEF Next

\* KeepsPromise: the pipeline implements DurableDelivery.  Whatever is dropped, restarted or
\* failed, a device that has a checkpoint moves it past a durable event only once a consumer
\* has observed the event, and events are observed in the order of the log.
THEOREM StreamKeepsPromise == Spec => KeepsPromise
<1>1. Init => Promise!Init
  <2> SUFFICES ASSUME Init PROVE Promise!Init
    OBVIOUS
  <2>1. rows = << >> /\ Len(rows) = 0 /\ origin = 0 /\ cursor = NoCursor /\ heard = {}
    BY DEF Init, TransportInit
  <2> QED
    BY <2>1 DEF Promise!Init
<1>2. StreamInv /\ StreamInv' /\ [Next]_vars => [Promise!Next]_(Promise!vars)
  BY PromiseStep
<1> QED
  BY <1>1, <1>2, StreamInvariant, PTL DEF Spec, KeepsPromise, Promise!Spec

\* NothingSkipped of DurableDelivery: up to its checkpoint a device has heard every event of
\* the log that is ever replayed, however often it was dropped and came back
\* (DurableEventCursor, EventsGateway.replay).
THEOREM StreamSkipsNothing == Spec => []Promise!NothingSkipped
<1>1. StreamInv => Promise!NothingSkipped
  <2> SUFFICES ASSUME StreamInv, cursor # NoCursor PROVE Promise!CoveredTo(cursor, origin, heard)
    BY DEF Promise!NothingSkipped
  <2>1. rows \in Seq(Row) /\ cursor \in 0..Tail0 /\ Tail0 \in Nat
    BY Typed DEF TypeOK
  <2>2. \A s \in Owed : s > cursor
    BY DEF StreamInv, DeviceSound
  <2>3. \A s \in 1..cursor : origin < s /\ Durable(s) => s \in heard
    BY <2>1, <2>2 DEF Owed
  <2> QED
    BY <2>1, <2>3, CoveredIs
<1> QED
  BY <1>1, StreamInvariant, PTL
=============================================================================
