------------------------ MODULE PushDelivery_proofs ------------------------
(***************************************************************************)
(* Proofs about PushDelivery, for any users, tokens, alerts, instances and *)
(* bounds.                                                                 *)
(***************************************************************************)
EXTENDS PushDelivery, FiniteSetTheorems, SequenceTheorems, TLAPS

-----------------------------------------------------------------------------
(* Typing.                                                                 *)

\* A delivery is an alert's to a token.
LEMMA DeliveryParts ==
  /\ \A d \in Deliveries : /\ d[1] \in Alerts /\ TokenOf(d) \in Tokens
                           /\ UserFor(d) \in Users /\ d = <<d[1], TokenOf(d)>>
  /\ \A a \in Alerts, t \in Tokens :
       /\ <<a, t>> \in Deliveries
       /\ TokenOf(<<a, t>>) = t /\ UserFor(<<a, t>>) = UserOf[a]
  /\ Nobody \notin Deliveries
BY PushAssumption DEF Deliveries, TokenOf, UserFor

\* Changing a row, or a worker, field by field keeps it typed.
LEMMA RowFields ==
  \A r \in Row :
    /\ r.status \in Status /\ r.attempts \in Nat
    /\ [r EXCEPT !.holder = Nobody] \in Row
    /\ [r EXCEPT !.due = TRUE] \in Row /\ [r EXCEPT !.lapsed = TRUE] \in Row
    /\ [r EXCEPT !.status = "dead", !.holder = Nobody, !.lapsed = FALSE] \in Row
    /\ \A s \in Status : [status |-> s, attempts |-> r.attempts, due |-> FALSE,
                          holder |-> Nobody, lapsed |-> FALSE] \in Row
BY DEF Row, Status

\* A worker that has a delivery goes through its phases typed.
LEMMA DrainFields ==
  /\ Idle \in Drain
  /\ \A d \in Drain :
       d.pc # "idle" =>
         /\ d.row \in Deliveries /\ d.attempts \in Nat
         /\ [d EXCEPT !.pc = "claimed"] \in Drain /\ [d EXCEPT !.pc = "sending"] \in Drain
         /\ [d EXCEPT !.pc = "orphan"] \in Drain
         /\ \A answer \in Answers : [d EXCEPT !.pc = "answered", !.answer = answer] \in Drain
BY DEF Drain, Idle, Pcs

\* Tokens are finite, so what a user keeps can be counted.
LEMMA Counted ==
  ASSUME NEW S \in SUBSET Tokens
  PROVE  /\ IsFiniteSet(S) /\ Cardinality(S) \in Nat
         /\ \A R \in SUBSET S : Cardinality(R) <= Cardinality(S)
         /\ \A t \in Tokens : Cardinality(S \cup {t}) <= Cardinality(S) + 1
<1>1. IsFiniteSet(Tokens)
  BY PushAssumption
<1>2. IsFiniteSet(S) /\ Cardinality(S) \in Nat
  BY <1>1, FS_Subset, FS_CardinalityType
<1>3. \A R \in SUBSET S : Cardinality(R) <= Cardinality(S)
  BY <1>2, FS_Subset
<1>4. ASSUME NEW t \in Tokens PROVE Cardinality(S \cup {t}) <= Cardinality(S) + 1
  <2>1. t \in S => S \cup {t} = S
    OBVIOUS
  <2>2. Cardinality(S \cup {t}) = IF t \in S THEN Cardinality(S) ELSE Cardinality(S) + 1
    BY <1>2, <2>1, FS_AddElement
  <2> QED
    BY <1>2, <2>2
<1> QED
  BY <1>2, <1>3, <1>4

\* A new row is not in the outbox yet.
LEMMA OutboxGrows ==
  ASSUME NEW d \in Deliveries, outbox \in Seq(Deliveries), IsInjective(outbox),
         \A n \in 1..Len(outbox) : outbox[n] # d
  PROVE  /\ Append(outbox, d) \in Seq(Deliveries) /\ IsInjective(Append(outbox, d))
         /\ \A n \in 1..Len(Append(outbox, d)) :
              \/ Append(outbox, d)[n] = d
              \/ n \in 1..Len(outbox) /\ Append(outbox, d)[n] = outbox[n]
<1> DEFINE longer == Append(outbox, d)
<1>1. longer \in Seq(Deliveries) /\ DOMAIN longer = 1..Len(longer)
  BY AppendProperties
<1>2. \A n \in 1..Len(longer) : \/ n = Len(outbox) + 1 /\ longer[n] = d
                                \/ n \in 1..Len(outbox) /\ longer[n] = outbox[n]
  BY AppendProperties
<1>3. DOMAIN outbox = 1..Len(outbox)
  OBVIOUS
<1> HIDE DEF longer
<1>4. IsInjective(longer)
  BY <1>1, <1>2, <1>3 DEF IsInjective
<1> QED
  BY <1>1, <1>2, <1>4 DEF longer

\* The first state is typed.
LEMMA InitType == Init => TypeOK
<1> SUFFICES ASSUME Init PROVE TypeOK
  OBVIOUS
<1>1. NoRow \in Row /\ Idle \in Drain
  BY DrainFields DEF NoRow, Row, Status
<1>2. outbox \in Seq(Deliveries) /\ IsInjective(outbox)
  BY DEF Init, IsInjective
<1> QED
  BY <1>1, <1>2, PushAssumption DEF Init, TypeOK, DevicesOf

\* Giving rows up keeps them typed.
LEMMA BuriedTyped ==
  ASSUME row \in [Deliveries -> Row], NEW r, Buried(r)
  PROVE  row' \in [Deliveries -> Row]
BY RowFields DEF Buried

\* A move that leaves nobody above the limit.
LEMMA MoveTyped ==
  ASSUME TypeOK, NEW owner2 \in [Tokens -> Users \cup {Nobody}],
         \A u \in Users : Cardinality({t \in Tokens : owner2[t] = u}) <= MaxDevices,
         NEW r, Buried(r), Move(owner2),
         UNCHANGED <<lock, outbox, listed, enqueue, worker, accepted, excused, faults>>
  PROVE  TypeOK'
<1>1. row' \in [Deliveries -> Row]
  BY BuriedTyped DEF TypeOK
<1>2. strayed' \subseteq Deliveries /\ moved' \subseteq Deliveries
  BY DEF Move, Strays, TypeOK
<1>3. moves' \in 0..MaxMoves
  BY PushAssumption DEF Move, TypeOK
<1> QED
  BY <1>1, <1>2, <1>3 DEF TypeOK, Move, DevicesOf

\* The variables stay typed; the two parts that are more than typing rest on
\* the invariant: a row is written once, and nobody has too many devices.
LEMMA TypeStep == PushInv /\ [Next]_vars => TypeOK'
<1> SUFFICES ASSUME PushInv, [Next]_vars PROVE TypeOK'
  OBVIOUS
<1>type. TypeOK
  BY DEF PushInv
<1>fun. /\ owner \in [Tokens -> Users \cup {Nobody}]
        /\ lock \in [Tokens -> Instances \cup Alerts \cup {Nobody}]
        /\ row \in [Deliveries -> Row] /\ outbox \in Seq(Deliveries) /\ IsInjective(outbox)
        /\ listed \in [Alerts -> SUBSET Tokens]
        /\ enqueue \in [Alerts -> {"new", "listed", "done"}]
        /\ worker \in [Instances -> Drain]
        /\ accepted \in [Deliveries -> Nat] /\ excused \in [Deliveries -> Nat]
        /\ strayed \subseteq Deliveries /\ moved \subseteq Deliveries
        /\ moves \in 0..MaxMoves /\ faults \in 0..MaxFaults
        /\ \A u \in Users : Cardinality(DevicesOf(u)) <= MaxDevices
  BY <1>type DEF TypeOK
<1>faults. ASSUME UNCHANGED faults \/ Fault PROVE faults' \in 0..MaxFaults
  BY <1>faults, <1>fun, PushAssumption DEF Fault
<1>devices. UNCHANGED owner => \A u \in Users : DevicesOf(u)' = DevicesOf(u)
  BY DEF DevicesOf
<1>1. ASSUME NEW u \in Users, NEW t \in Tokens, NEW overflow \in SUBSET Tokens,
             Register(u, t, overflow)
      PROVE  TypeOK'
  <2> DEFINE owner2 == [x \in Tokens |-> IF x = t THEN u
                                         ELSE IF x \in overflow THEN Nobody ELSE owner[x]]
             others == {x \in Tokens \ {t} : owner[x] = u}
  <2>1. /\ overflow \subseteq others /\ Cardinality(others \ overflow) <= MaxDevices - 1
        /\ Buried(Superseded(u, t) \cup Removed(u, overflow)) /\ Move(owner2)
        /\ UNCHANGED <<lock, outbox, listed, enqueue, worker, accepted, excused, faults>>
    BY <1>1 DEF Register, OthersKept
  <2>2. owner2 \in [Tokens -> Users \cup {Nobody}]
    BY <1>fun
  <2>3. ASSUME NEW v \in Users
        PROVE  Cardinality({x \in Tokens : owner2[x] = v}) <= MaxDevices
    <3>1. CASE v = u
      <4>1. {x \in Tokens : owner2[x] = v} = (others \ overflow) \cup {t}
        BY <3>1, PushAssumption
      <4>2. Cardinality(others \ overflow) \in Nat
        BY Counted
      <4>3. Cardinality((others \ overflow) \cup {t}) <= Cardinality(others \ overflow) + 1
        BY Counted
      <4>4. Cardinality((others \ overflow) \cup {t}) \in Nat
        BY Counted
      <4>5. Cardinality(others \ overflow) <= MaxDevices - 1
        BY <2>1
      <4> HIDE DEF others
      <4>6. Cardinality((others \ overflow) \cup {t}) <= MaxDevices
        BY <4>2, <4>3, <4>4, <4>5, PushAssumption
      <4> QED
        BY <4>1, <4>6
    <3>2. CASE v # u
      <4>1. {x \in Tokens : owner2[x] = v} \subseteq DevicesOf(v)
        BY <3>2, PushAssumption DEF DevicesOf
      <4>2. /\ Cardinality({x \in Tokens : owner2[x] = v}) <= Cardinality(DevicesOf(v))
            /\ Cardinality({x \in Tokens : owner2[x] = v}) \in Nat
            /\ Cardinality(DevicesOf(v)) \in Nat
        BY <4>1, Counted DEF DevicesOf
      <4> QED
        BY <4>2, <1>fun, PushAssumption
    <3> QED
      BY <3>1, <3>2
  <2> QED
    BY <1>type, <2>1, <2>2, <2>3, MoveTyped
\* Whoever loses a token does not gain another.
<1>2. ASSUME NEW t \in Tokens, NEW owner2, owner2 = [owner EXCEPT ![t] = Nobody]
      PROVE  /\ owner2 \in [Tokens -> Users \cup {Nobody}]
             /\ \A u \in Users : Cardinality({x \in Tokens : owner2[x] = u}) <= MaxDevices
  <2>1. ASSUME NEW u \in Users
        PROVE  Cardinality({x \in Tokens : owner2[x] = u}) <= MaxDevices
    <3>1. {x \in Tokens : owner2[x] = u} \subseteq DevicesOf(u)
      BY <1>2, <1>fun, PushAssumption DEF DevicesOf
    <3>2. /\ Cardinality({x \in Tokens : owner2[x] = u}) <= Cardinality(DevicesOf(u))
          /\ Cardinality({x \in Tokens : owner2[x] = u}) \in Nat
          /\ Cardinality(DevicesOf(u)) \in Nat
      BY <3>1, Counted DEF DevicesOf
    <3> QED
      BY <3>2, <1>fun, PushAssumption
  <2> QED
    BY <1>2, <1>fun, <2>1
<1>3. ASSUME NEW t \in Tokens, Unregister(t) PROVE TypeOK'
  <2> DEFINE owner2 == [owner EXCEPT ![t] = Nobody]
  <2>1. /\ Buried({d \in Deliveries : TokenOf(d) = t}) /\ Move(owner2)
        /\ UNCHANGED <<lock, outbox, listed, enqueue, worker, accepted, excused, faults>>
    BY <1>3 DEF Unregister
  <2>2. /\ owner2 \in [Tokens -> Users \cup {Nobody}]
        /\ \A u \in Users : Cardinality({x \in Tokens : owner2[x] = u}) <= MaxDevices
    BY <1>2
  <2> QED
    BY <1>type, <2>1, <2>2, MoveTyped
<1>4. ASSUME NEW a \in Alerts, List(a) \/ Enqueue(a) \/ Again(a) PROVE TypeOK'
  <2>1. /\ listed' \in [Alerts -> SUBSET Tokens]
        /\ enqueue' \in [Alerts -> {"new", "listed", "done"}]
        /\ lock' \in [Tokens -> Instances \cup Alerts \cup {Nobody}]
    BY <1>4, <1>fun DEF List, Enqueue, Again, DevicesOf
  <2>2. /\ UNCHANGED <<registry, row, outbox, worker, accepted, excused>>
        /\ UNCHANGED faults \/ Fault
    BY <1>4 DEF List, Enqueue, Again
  <2> QED
    BY <1>fun, <1>faults, <1>devices, <2>1, <2>2 DEF TypeOK, registry
<1>5. ASSUME NEW a \in Alerts, NEW t \in Tokens, CheckDevice(a, t) PROVE TypeOK'
  <2>1. /\ listed' \in [Alerts -> SUBSET Tokens]
        /\ lock' \in [Tokens -> Instances \cup Alerts \cup {Nobody}]
    BY <1>5, <1>fun DEF CheckDevice
  <2>2. UNCHANGED <<registry, row, outbox, enqueue, worker, accepted, excused, faults>>
    BY <1>5 DEF CheckDevice
  <2> QED
    BY <1>fun, <1>devices, <2>1, <2>2 DEF TypeOK, registry
<1>6. ASSUME NEW a \in Alerts, NEW t \in Tokens, Insert(a, t) PROVE TypeOK'
  <2> DEFINE d == <<a, t>>
  <2>1. d \in Deliveries /\ ~Enqueued(d)
    BY <1>6, DeliveryParts DEF Insert, PushInv, Reserved
  <2>2. outbox' \in Seq(Deliveries) /\ IsInjective(outbox')
    <3>1. \A n \in 1..Len(outbox) : outbox[n] # d
      BY <2>1 DEF PushInv
    <3>2. outbox' = Append(outbox, d)
      BY <1>6 DEF Insert
    <3> QED
      BY <2>1, <3>1, <3>2, <1>fun, OutboxGrows
  <2>3. row' \in [Deliveries -> Row]
    <3>1. [NoRow EXCEPT !.status = "pending", !.due = TRUE] \in Row
      BY DEF NoRow, Row, Status
    <3>2. row' = [row EXCEPT ![d] = [NoRow EXCEPT !.status = "pending", !.due = TRUE]]
      BY <1>6 DEF Insert
    <3> QED
      BY <3>1, <3>2, <1>fun
  <2>4. /\ lock' \in [Tokens -> Instances \cup Alerts \cup {Nobody}]
        /\ listed' \in [Alerts -> SUBSET Tokens] /\ strayed' \subseteq Deliveries
    BY <1>6, <2>1, <1>fun DEF Insert, Freed
  <2>5. UNCHANGED <<owner, moved, moves, enqueue, worker, accepted, excused, faults>>
    BY <1>6 DEF Insert
  <2> QED
    BY <1>fun, <1>devices, <2>2, <2>3, <2>4, <2>5 DEF TypeOK
<1>7. ASSUME NEW i \in Instances, Find(i) PROVE TypeOK'
  <2>1. PICK n \in 1..Len(outbox) :
          worker' = [worker EXCEPT ![i] = [pc |-> "found", row |-> outbox[n], answer |-> "none",
                                           attempts |-> row[outbox[n]].attempts + 1]]
    BY <1>7 DEF Find
  <2>2. outbox[n] \in Deliveries
    BY <1>fun
  <2>3. row[outbox[n]].attempts + 1 \in Nat
    <3>1. row[outbox[n]] \in Row
      BY <2>2, <1>fun
    <3>2. row[outbox[n]].attempts \in Nat
      BY <3>1, RowFields
    <3> QED
      BY <3>2
  <2>4. worker' \in [Instances -> Drain]
    BY <2>1, <2>2, <2>3, <1>fun, DeliveryParts DEF Drain, Pcs
  <2>5. UNCHANGED <<registry, lock, row, outbox, listed, enqueue, accepted, excused, faults>>
    BY <1>7 DEF Find
  <2> QED
    BY <1>fun, <1>devices, <2>4, <2>5 DEF TypeOK, registry
\* What a worker at work may do to the rows and to itself.
<1>8. ASSUME NEW i \in Instances, worker[i].pc # "idle",
             row' \in [Deliveries -> Row], UNCHANGED <<registry, outbox, listed, enqueue>>,
             lock' \in [Tokens -> Instances \cup Alerts \cup {Nobody}],
             accepted' \in [Deliveries -> Nat], excused' \in [Deliveries -> Nat],
             UNCHANGED faults \/ Fault,
             \/ Rest(i)
             \/ \E p \in {"claimed", "sending", "orphan"} : worker' = [worker EXCEPT ![i].pc = p]
             \/ \E answer \in Answers :
                  worker' = [worker EXCEPT ![i] = [@ EXCEPT !.pc = "answered", !.answer = answer]]
      PROVE  TypeOK'
  <2>1. worker' \in [Instances -> Drain]
    <3>1. worker[i] \in Drain
      BY <1>fun
    <3>2. \/ worker' = [worker EXCEPT ![i] = Idle]
          \/ worker' = [worker EXCEPT ![i] = [worker[i] EXCEPT !.pc = "claimed"]]
          \/ worker' = [worker EXCEPT ![i] = [worker[i] EXCEPT !.pc = "sending"]]
          \/ worker' = [worker EXCEPT ![i] = [worker[i] EXCEPT !.pc = "orphan"]]
          \/ \E answer \in Answers :
               worker' = [worker EXCEPT ![i] = [worker[i] EXCEPT !.pc = "answered",
                                                                 !.answer = answer]]
      BY <1>8 DEF Rest
    <3>3. \E d \in Drain : worker' = [worker EXCEPT ![i] = d]
      BY <1>8, <3>1, <3>2, DrainFields
    <3> QED
      BY <3>3, <1>fun
  <2> QED
    BY <1>8, <1>fun, <1>faults, <1>devices, <2>1 DEF TypeOK, registry
<1>held. \A i \in Instances : worker[i].pc # "idle" =>
           worker[i].row \in Deliveries /\ worker[i].attempts \in Nat
  BY <1>fun, DrainFields
<1>written. ASSUME NEW d \in Deliveries, NEW s \in Status, Outcome(d, s)
            PROVE  row' \in [Deliveries -> Row]
  BY <1>written, <1>fun, RowFields DEF Outcome
<1>9. ASSUME NEW i \in Instances, Claim(i) PROVE TypeOK'
  <2>1. row' \in [Deliveries -> Row]
    <3>1. [status |-> "leased", attempts |-> worker[i].attempts, due |-> FALSE,
           holder |-> i, lapsed |-> FALSE] \in Row
      BY <1>9, <1>held DEF Claim, Row, Status
    <3> QED
      BY <1>9, <3>1, <1>fun DEF Claim
  <2> QED
    BY <1>8, <1>9, <1>fun, <2>1 DEF Claim
<1>10. ASSUME NEW i \in Instances, Authorize(i) PROVE TypeOK'
  <2>1. row' \in [Deliveries -> Row]
    <3>1. UNCHANGED row \/ Outcome(worker[i].row, "dead")
      BY <1>10 DEF Authorize
    <3> QED
      BY <1>10, <3>1, <1>fun, <1>held, <1>written DEF Authorize, Status
  <2>2. lock' \in [Tokens -> Instances \cup Alerts \cup {Nobody}]
    BY <1>10, <1>fun DEF Authorize
  <2> QED
    BY <1>8, <1>10, <1>fun, <2>1, <2>2 DEF Authorize
<1>11. ASSUME NEW i \in Instances, NEW answer \in Answers, Send(i, answer) PROVE TypeOK'
  <2>1. worker[i].row \in Deliveries
    BY <1>11, <1>held DEF Send
  <2>2. accepted' \in [Deliveries -> Nat] /\ excused' \in [Deliveries -> Nat]
    BY <1>11, <2>1, <1>fun DEF Send
  <2> QED
    BY <1>8, <1>11, <1>fun, <2>2 DEF Send
<1>12. ASSUME NEW i \in Instances, Commit(i) PROVE TypeOK'
  <2> DEFINE d == worker[i].row
             owner2 == [owner EXCEPT ![TokenOf(d)] = Nobody]
  <2>1. d \in Deliveries /\ TokenOf(d) \in Tokens
    BY <1>12, <1>held, DeliveryParts DEF Commit
  <2>2. row' \in [Deliveries -> Row]
    BY <1>12, <2>1, <1>written DEF Commit, Status
  <2>3. /\ owner' \in [Tokens -> Users \cup {Nobody}] /\ strayed' \subseteq Deliveries
        /\ \A u \in Users : Cardinality(DevicesOf(u)') <= MaxDevices
    <3>1. CASE worker[i].answer = "gone"
      <4>1. owner' = owner2 /\ strayed' = strayed \cup Strays(owner2)
        BY <1>12, <3>1 DEF Commit
      <4>2. /\ owner2 \in [Tokens -> Users \cup {Nobody}]
            /\ \A u \in Users : Cardinality({x \in Tokens : owner2[x] = u}) <= MaxDevices
        BY <2>1, <1>2
      <4> QED
        BY <4>1, <4>2, <1>fun DEF DevicesOf, Strays
    <3>2. CASE worker[i].answer # "gone"
      BY <1>12, <3>2, <1>fun, <1>devices DEF Commit
    <3> QED
      BY <3>1, <3>2
  <2>4. /\ worker' \in [Instances -> Drain]
        /\ lock' \in [Tokens -> Instances \cup Alerts \cup {Nobody}]
    BY <1>12, <1>fun, DrainFields DEF Commit, Rest, Freed
  <2>5. UNCHANGED <<outbox, listed, enqueue, accepted, excused, moved, moves, faults>>
    BY <1>12 DEF Commit
  <2> QED
    BY <1>fun, <2>2, <2>3, <2>4, <2>5 DEF TypeOK
<1>13. ASSUME NEW i \in Instances, NEW crash \in BOOLEAN, Lose(i, crash) PROVE TypeOK'
  <2>1. row' \in [Deliveries -> Row]
    BY <1>13, <1>fun, RowFields DEF Lose
  <2>2. lock' \in [Tokens -> Instances \cup Alerts \cup {Nobody}]
    BY <1>13, <1>fun DEF Lose
  <2>3. excused' \in [Deliveries -> Nat]
    <3>1. PICK d \in Deliveries : d = worker[i].row
      BY <1>13, <1>held DEF Lose
    <3>2. excused' = excused \/ excused' = [excused EXCEPT ![d] = excused[d] + 1]
      BY <1>13, <3>1 DEF Lose
    <3>3. excused[d] + 1 \in Nat
      BY <1>fun
    <3> QED
      BY <3>2, <3>3, <1>fun
  <2> QED
    BY <1>8, <1>13, <1>fun, <2>1, <2>2, <2>3 DEF Lose
<1>14. ASSUME NEW d \in Deliveries, BackoffOver(d) \/ Lapse(d) PROVE TypeOK'
  <2>1. row' \in [Deliveries -> Row]
    <3>1. /\ [row[d] EXCEPT !.due = TRUE] \in Row /\ [row[d] EXCEPT !.lapsed = TRUE] \in Row
      BY <1>fun, RowFields
    <3> QED
      BY <1>14, <3>1, <1>fun DEF BackoffOver, Lapse
  <2>2. /\ UNCHANGED <<registry, lock, outbox, listed, enqueue, worker, accepted, excused>>
        /\ UNCHANGED faults \/ Fault
    BY <1>14 DEF BackoffOver, Lapse
  <2> QED
    BY <1>fun, <1>faults, <1>devices, <2>1, <2>2 DEF TypeOK, registry
<1>15. CASE UNCHANGED vars
  BY <1>15, <1>fun, <1>devices DEF vars, TypeOK
<1> QED
  BY <1>1, <1>3, <1>4, <1>5, <1>6, <1>7, <1>9, <1>10, <1>11, <1>12, <1>13, <1>14, <1>15 DEF Next

-----------------------------------------------------------------------------
(* The inductive invariant.                                                *)

\* No rows, no moves, nobody at work.
LEMMA InitInv == Init => PushInv
<1> SUFFICES ASSUME Init PROVE PushInv
  OBVIOUS
<1>1. TypeOK
  BY InitType
<1>2. \A i \in Instances : worker[i].pc = "idle"
  BY DEF Init, Idle
<1>3. \A d \in Deliveries : row[d].status = "none" /\ accepted[d] = 0 /\ excused[d] = 0
  BY DEF Init, NoRow
<1>4. \A t \in Tokens : lock[t] = Nobody
  BY DEF Init
<1>5. \A i \in Instances : Authorized(i) /\ AttemptsAgree(i) /\ OrphansAreLong(i)
  BY <1>2 DEF Authorized, AttemptsAgree, OrphansAreLong
<1>6. \A a \in Alerts, t \in Tokens : Reserved(a, t)
  BY <1>4, PushAssumption DEF Reserved
<1>7. \A d \in Deliveries : Accounted(d) /\ Departed(d)
  BY <1>3 DEF Accounted, Departed, Enqueued, Init
<1>8. \A n \in 1..Len(outbox) : Enqueued(outbox[n])
  BY DEF Init
<1>9. DeadIsDeserved
  BY <1>3 DEF DeadIsDeserved
<1> QED
  BY <1>1, <1>5, <1>6, <1>7, <1>8, <1>9 DEF PushInv

\* Every step keeps the invariant: registrations and cleanups first, then the
\* enqueue, then the workers.
LEMMA InvStep == PushInv /\ [Next]_vars => PushInv'
<1> SUFFICES ASSUME PushInv, [Next]_vars PROVE PushInv'
  OBVIOUS
<1>type. TypeOK /\ TypeOK'
  BY TypeStep DEF PushInv
<1>fun. /\ owner \in [Tokens -> Users \cup {Nobody}]
        /\ lock \in [Tokens -> Instances \cup Alerts \cup {Nobody}]
        /\ row \in [Deliveries -> Row] /\ outbox \in Seq(Deliveries)
        /\ worker \in [Instances -> Drain]
        /\ accepted \in [Deliveries -> Nat] /\ excused \in [Deliveries -> Nat]
  BY <1>type DEF TypeOK
<1>held. \A i \in Instances : worker[i].pc # "idle" => worker[i].row \in Deliveries
  BY <1>fun, DrainFields
<1>i. \A i \in Instances : Authorized(i) /\ AttemptsAgree(i) /\ OrphansAreLong(i)
  BY DEF PushInv
<1>l. \A a \in Alerts, t \in Tokens : Reserved(a, t)
  BY DEF PushInv
<1>d. \A d \in Deliveries : Accounted(d) /\ Departed(d)
  BY DEF PushInv
<1>x. \A d \in Deliveries :
        row[d].status = "dead" => d \in strayed \/ row[d].attempts >= MaxAttempts
  BY DEF PushInv, DeadIsDeserved
<1>o. \A n \in 1..Len(outbox) : outbox[n] \in Deliveries /\ Enqueued(outbox[n])
  BY <1>fun DEF PushInv
\* A row under delivery is its one worker's, and so is its token.
<1>one. ASSUME NEW i \in Instances, worker[i].pc \in {"sending", "answered"}
        PROVE  LET d == worker[i].row IN
               /\ d \in Deliveries /\ Holds(i, d) /\ lock[TokenOf(d)] = i
               /\ owner[TokenOf(d)] = UserFor(d)
  BY <1>one, <1>held, <1>i DEF Authorized
<1>locked. ASSUME NEW d \in Deliveries, RowLocked(d)
           PROVE  /\ lock[TokenOf(d)] \in Instances /\ owner[TokenOf(d)] = UserFor(d)
                  /\ lock[TokenOf(d)] # Nobody
  BY <1>locked, <1>one, PushAssumption DEF RowLocked
<1>1. ASSUME NEW r \in SUBSET Deliveries, NEW owner2, Buried(r), Move(owner2),
             UNCHANGED <<lock, outbox, worker, accepted, excused>>,
             \A d \in r : ~RowLocked(d) /\ owner2[TokenOf(d)] # UserFor(d),
             \A d \in Deliveries : RowLocked(d) => owner2[TokenOf(d)] = owner[TokenOf(d)],
             \A d \in Deliveries :
                d \in r \/ owner2[TokenOf(d)] \in {owner[TokenOf(d)], UserFor(d), Nobody},
             \A a \in Alerts, t \in Tokens : lock[t] = a => owner2[t] \in {owner[t], Nobody}
      PROVE  PushInv'
  <2>1. ASSUME NEW d \in Deliveries
        PROVE  \/ row'[d] = row[d] /\ (d \in r => row[d].status \notin Live)
               \/ d \in r /\ row[d].status \in Live /\ row'[d].status = "dead"
    <3>1. CASE d \in r /\ row[d].status \in Live
      <4>1. row'[d] = [row[d] EXCEPT !.status = "dead", !.holder = Nobody, !.lapsed = FALSE]
        BY <1>1, <3>1 DEF Buried
      <4>2. row[d] \in Row
        BY <1>fun
      <4> QED
        BY <3>1, <4>1, <4>2 DEF Row
    <3>2. CASE ~(d \in r /\ row[d].status \in Live)
      BY <1>1, <3>2 DEF Buried
    <3> QED
      BY <3>1, <3>2
  <2>2. ASSUME NEW d \in Deliveries PROVE Enqueued(d)' <=> Enqueued(d)
    BY <2>1 DEF Enqueued, Live
  <2>3. /\ owner' = owner2 /\ strayed' = strayed \cup Strays(owner2)
        /\ moved' = moved \cup {d \in Deliveries :
                       Enqueued(d) /\ owner2[TokenOf(d)] \notin {UserFor(d), Nobody}}
    BY <1>1 DEF Move
  <2>4. ASSUME NEW i \in Instances
        PROVE  Authorized(i)' /\ AttemptsAgree(i)' /\ OrphansAreLong(i)'
    <3>1. Authorized(i)'
      <4> SUFFICES ASSUME worker[i].pc \in {"sending", "answered"},
                          NEW d \in Deliveries, d = worker[i].row
                   PROVE  Holds(i, d)' /\ lock[TokenOf(d)] = i /\ owner2[TokenOf(d)] = UserFor(d)
        BY <1>1, <1>held, <2>3 DEF Authorized, Holds
      <4>1. Holds(i, d) /\ lock[TokenOf(d)] = i /\ owner[TokenOf(d)] = UserFor(d)
        BY <1>one
      <4>2. RowLocked(d)
        BY <4>1 DEF RowLocked
      <4>3. row'[d] = row[d] /\ owner2[TokenOf(d)] = owner[TokenOf(d)]
        BY <1>1, <2>1, <4>2
      <4> QED
        BY <4>1, <4>3 DEF Holds
    <3>2. AttemptsAgree(i)'
      <4> SUFFICES ASSUME worker[i].pc \in {"claimed", "sending", "answered"},
                          NEW d \in Deliveries, d = worker[i].row, Holds(i, d)'
                   PROVE  row'[d].attempts = worker[i].attempts
        BY <1>1, <1>held DEF AttemptsAgree, Holds
      <4>1. row'[d] = row[d]
        BY <2>1 DEF Holds
      <4> QED
        BY <4>1, <1>i DEF AttemptsAgree, Holds
    <3>3. OrphansAreLong(i)'
      BY <1>1, <1>i DEF OrphansAreLong
    <3> QED
      BY <3>1, <3>2, <3>3
  <2>5. ASSUME NEW a \in Alerts, NEW t \in Tokens PROVE Reserved(a, t)'
    <3>1. <<a, t>> \in Deliveries
      BY DeliveryParts
    <3> QED
      BY <1>1, <2>2, <2>3, <3>1, <1>l DEF Reserved
  <2>6. ASSUME NEW d \in Deliveries PROVE Accounted(d)' /\ Departed(d)'
    <3>1. Accounted(d)'
      <4>1. row[d].status = "delivered" <=> row'[d].status = "delivered"
        BY <2>1 DEF Live
      <4>2. \A i \in Instances : AnsweredOk(i, d)' <=> AnsweredOk(i, d)
        BY <1>1 DEF AnsweredOk
      <4>3. accepted' = accepted /\ excused' = excused
        BY <1>1
      <4> QED
        BY <4>1, <4>2, <4>3, <1>d DEF Accounted
    <3>2. d \in moved' \/ (Enqueued(d) /\ owner2[TokenOf(d)] # UserFor(d)) => d \in strayed'
      BY <2>3, <1>d DEF Departed, Strays
    <3>3. d \in moved' \/ (Enqueued(d) /\ owner2[TokenOf(d)] \notin {UserFor(d), Nobody}) =>
            row'[d].status \in {"delivered", "dead"}
      <4>1. CASE d \in moved
        BY <2>1, <4>1, <1>d DEF Departed, Live
      <4>2. CASE Enqueued(d) /\ owner2[TokenOf(d)] \notin {UserFor(d), Nobody}
        <5>1. CASE d \in r
          <6>1. row[d].status \in Status
            BY <1>fun, RowFields
          <6> QED
            BY <2>1, <4>2, <5>1, <6>1 DEF Enqueued, Status, Live
        <5>2. CASE d \notin r
          <6>1. owner2[TokenOf(d)] = owner[TokenOf(d)]
            BY <1>1, <4>2, <5>2
          <6> QED
            BY <2>1, <4>2, <5>2, <6>1, <1>d DEF Departed
        <5> QED
          BY <5>1, <5>2
      <4> QED
        BY <2>3, <4>1, <4>2
    <3> QED
      BY <2>2, <2>3, <3>1, <3>2, <3>3 DEF Departed
  <2>7. DeadIsDeserved'
    <3> SUFFICES ASSUME NEW d \in Deliveries, row'[d].status = "dead"
                 PROVE  d \in strayed' \/ row'[d].attempts >= MaxAttempts
      BY DEF DeadIsDeserved
    <3>1. CASE row'[d] = row[d]
      BY <2>3, <3>1, <1>x
    <3>2. CASE d \in r /\ row[d].status \in Live
      <4>1. Enqueued(d) /\ owner2[TokenOf(d)] # UserFor(d)
        BY <1>1, <3>2 DEF Enqueued, Live
      <4> QED
        BY <2>3, <4>1, <1>d DEF Departed, Strays
    <3> QED
      BY <2>1, <3>1, <3>2
  <2>8. \A n \in 1..Len(outbox') : Enqueued(outbox[n])'
    BY <1>1, <1>o, <2>2
  <2> QED
    BY <1>1, <1>type, <2>4, <2>5, <2>6, <2>7, <2>8 DEF PushInv
<1>2. ASSUME NEW u \in Users, NEW t \in Tokens, NEW overflow \in SUBSET Tokens,
             Register(u, t, overflow)
      PROVE  PushInv'
  <2> DEFINE r == Superseded(u, t) \cup Removed(u, overflow)
             owner2 == [x \in Tokens |-> IF x = t THEN u
                                         ELSE IF x \in overflow THEN Nobody ELSE owner[x]]
  <2>1. /\ lock[t] = Nobody /\ \A x \in overflow : x # t /\ owner[x] = u
        /\ \A d \in Removed(u, overflow) : ~RowLocked(d)
        /\ Buried(r) /\ Move(owner2) /\ UNCHANGED <<lock, outbox, worker, accepted, excused>>
    BY <1>2 DEF Register, Unlocked
  <2>2. r \in SUBSET Deliveries
    BY DEF Superseded, Removed
  <2>3. ASSUME NEW d \in r PROVE ~RowLocked(d) /\ owner2[TokenOf(d)] # UserFor(d)
    BY <2>1, <2>2, <2>3, <1>locked, DeliveryParts, PushAssumption DEF Superseded, Removed
  <2>4. ASSUME NEW d \in Deliveries, RowLocked(d) PROVE owner2[TokenOf(d)] = owner[TokenOf(d)]
    <3>1. TokenOf(d) # t /\ TokenOf(d) \in Tokens
      BY <2>1, <2>4, <1>locked, DeliveryParts
    <3>2. TokenOf(d) \notin overflow
      BY <2>1, <2>4, <1>locked DEF Removed
    <3> QED
      BY <3>1, <3>2
  <2>5. ASSUME NEW d \in Deliveries
        PROVE  d \in r \/ owner2[TokenOf(d)] \in {owner[TokenOf(d)], UserFor(d), Nobody}
    BY DeliveryParts DEF Superseded
  <2>6. ASSUME NEW a \in Alerts, NEW x \in Tokens, lock[x] = a
        PROVE  owner2[x] \in {owner[x], Nobody}
    BY <2>1, <2>6, PushAssumption
  <2> HIDE DEF r, owner2
  <2> QED
    BY <1>1, <2>1, <2>2, <2>3, <2>4, <2>5, <2>6
<1>3. ASSUME NEW t \in Tokens, Unregister(t) PROVE PushInv'
  <2> DEFINE r == {d \in Deliveries : TokenOf(d) = t}
             owner2 == [owner EXCEPT ![t] = Nobody]
  <2>1. /\ lock[t] = Nobody /\ Buried(r) /\ Move(owner2)
        /\ UNCHANGED <<lock, outbox, worker, accepted, excused>>
    BY <1>3 DEF Unregister, Unlocked
  <2>2. ASSUME NEW d \in r PROVE ~RowLocked(d) /\ owner2[TokenOf(d)] # UserFor(d)
    BY <2>1, <2>2, <1>fun, <1>locked, DeliveryParts, PushAssumption
  <2>3. ASSUME NEW d \in Deliveries, RowLocked(d) PROVE owner2[TokenOf(d)] = owner[TokenOf(d)]
    BY <2>1, <2>3, <1>fun, <1>locked, DeliveryParts
  <2>4. ASSUME NEW d \in Deliveries
        PROVE  d \in r \/ owner2[TokenOf(d)] \in {owner[TokenOf(d)], UserFor(d), Nobody}
    BY <1>fun, DeliveryParts
  <2>5. ASSUME NEW a \in Alerts, NEW x \in Tokens, lock[x] = a
        PROVE  owner2[x] \in {owner[x], Nobody}
    BY <1>fun
  <2> HIDE DEF owner2
  <2> QED
    BY <1>1, <2>1, <2>2, <2>3, <2>4, <2>5
\* While no status and no owner changes, workers and locks are what is left to check.
<1>4. ASSUME UNCHANGED <<registry, outbox>>,
             \A d \in Deliveries : /\ row'[d].status = row[d].status
                                   /\ row'[d].attempts = row[d].attempts
      PROVE  /\ \A n \in 1..Len(outbox') : Enqueued(outbox[n])'
             /\ \A d \in Deliveries : Departed(d)'
             /\ DeadIsDeserved'
  <2>1. /\ owner' = owner /\ strayed' = strayed /\ moved' = moved /\ outbox' = outbox
        /\ \A d \in Deliveries : Enqueued(d)' <=> Enqueued(d)
    BY <1>4 DEF Enqueued, registry
  <2> QED
    BY <1>4, <2>1, <1>o, <1>d, <1>x DEF Departed, DeadIsDeserved
<1>5. ASSUME UNCHANGED <<worker, accepted, excused>>,
             \A d \in Deliveries : row'[d].status = "delivered" <=> row[d].status = "delivered"
      PROVE  \A d \in Deliveries : Accounted(d)'
  BY <1>5, <1>d DEF Accounted, AnsweredOk
<1>6. ASSUME NEW a \in Alerts,
             List(a) \/ Enqueue(a) \/ Again(a) \/ \E t \in Tokens : CheckDevice(a, t)
      PROVE  PushInv'
  <2>1. UNCHANGED <<registry, row, outbox, worker, accepted, excused>>
    BY <1>6 DEF List, Enqueue, Again, CheckDevice
  <2>2. ASSUME NEW t \in Tokens
        PROVE  \/ lock'[t] = lock[t]
               \/ lock[t] = a /\ lock'[t] = Nobody
               \/ /\ lock[t] = Nobody /\ lock'[t] = a
                  /\ owner[t] = UserOf[a] /\ ~Enqueued(<<a, t>>)
    BY <1>6, <1>fun DEF List, Enqueue, Again, CheckDevice, Unlocked
  <2>3. ASSUME NEW i \in Instances
        PROVE  Authorized(i)' /\ AttemptsAgree(i)' /\ OrphansAreLong(i)'
    <3>1. Authorized(i)'
      <4> SUFFICES ASSUME worker[i].pc \in {"sending", "answered"}
                   PROVE  LET d == worker[i].row IN
                          Holds(i, d) /\ lock'[TokenOf(d)] = i /\ owner[TokenOf(d)] = UserFor(d)
        BY <2>1 DEF Authorized, Holds, registry
      <4>1. PICK d \in Deliveries : /\ d = worker[i].row /\ Holds(i, d) /\ lock[TokenOf(d)] = i
                                    /\ owner[TokenOf(d)] = UserFor(d)
        BY <1>one
      <4>2. lock'[TokenOf(d)] = i
        <5>1. PICK t \in Tokens : t = TokenOf(d)
          BY DeliveryParts
        <5>2. lock[t] \notin {a, Nobody}
          BY <4>1, <5>1, PushAssumption
        <5> QED
          BY <2>2, <4>1, <5>1, <5>2
      <4> QED
        BY <4>1, <4>2
    <3> QED
      BY <2>1, <3>1, <1>i DEF AttemptsAgree, OrphansAreLong, Holds
  <2>4. ASSUME NEW b \in Alerts, NEW t \in Tokens PROVE Reserved(b, t)'
    BY <2>1, <2>2, <1>l, PushAssumption DEF Reserved, Enqueued, registry
  <2> QED
    BY <1>4, <1>5, <1>type, <2>1, <2>3, <2>4 DEF PushInv
<1>7. ASSUME NEW a \in Alerts, NEW t \in Tokens, Insert(a, t) PROVE PushInv'
  <2> DEFINE new == <<a, t>>
  <2>1. /\ lock[t] = a /\ lock' = [lock EXCEPT ![t] = Nobody]
        /\ outbox' = Append(outbox, new)
        /\ strayed' = IF owner[t] # UserOf[a] THEN strayed \cup {new} ELSE strayed
        /\ UNCHANGED <<owner, moved, worker, accepted, excused>>
    BY <1>7 DEF Insert, Freed
  <2>2. /\ new \in Deliveries /\ ~Enqueued(new) /\ TokenOf(new) = t /\ UserFor(new) = UserOf[a]
        /\ owner[t] \in {UserOf[a], Nobody}
    BY <2>1, <1>l, DeliveryParts DEF Reserved
  <2>3. /\ row'[new].status = "pending"
        /\ \A d \in Deliveries : d # new => row'[d] = row[d]
    BY <1>7, <2>2, <1>fun DEF Insert, NoRow
  <2>4. ASSUME NEW i \in Instances
        PROVE  Authorized(i)' /\ AttemptsAgree(i)' /\ OrphansAreLong(i)'
    <3>1. Authorized(i)'
      <4> SUFFICES ASSUME worker[i].pc \in {"sending", "answered"},
                          NEW d \in Deliveries, d = worker[i].row
                   PROVE  Holds(i, d)' /\ lock'[TokenOf(d)] = i /\ owner[TokenOf(d)] = UserFor(d)
        BY <1>held, <2>1 DEF Authorized, Holds
      <4>1. Holds(i, d) /\ lock[TokenOf(d)] = i /\ owner[TokenOf(d)] = UserFor(d)
        BY <1>one
      <4>2. d # new /\ TokenOf(d) # t
        BY <2>1, <2>2, <4>1, PushAssumption DEF Holds, Enqueued
      <4> QED
        BY <2>1, <2>3, <4>1, <4>2, <1>fun, DeliveryParts DEF Holds
    <3>2. AttemptsAgree(i)'
      <4> SUFFICES ASSUME worker[i].pc \in {"claimed", "sending", "answered"},
                          NEW d \in Deliveries, d = worker[i].row, Holds(i, d)'
                   PROVE  row'[d].attempts = worker[i].attempts
        BY <2>1, <1>held DEF AttemptsAgree, Holds
      <4>1. row'[d] = row[d]
        BY <2>3 DEF Holds
      <4> QED
        BY <4>1, <1>i DEF AttemptsAgree, Holds
    <3> QED
      BY <2>1, <3>1, <3>2, <1>i DEF OrphansAreLong
  <2>5. ASSUME NEW b \in Alerts, NEW x \in Tokens PROVE Reserved(b, x)'
    <3>1. CASE x = t
      BY <2>1, <3>1, <1>fun, PushAssumption DEF Reserved
    <3>2. CASE x # t
      <4>1. <<b, x>> \in Deliveries /\ <<b, x>> # new /\ lock'[x] = lock[x]
        BY <2>1, <3>2, <1>fun, DeliveryParts
      <4>2. row'[<<b, x>>] = row[<<b, x>>] /\ owner'[x] = owner[x]
        BY <2>1, <2>3, <4>1
      <4> QED
        BY <4>1, <4>2, <1>l DEF Reserved, Enqueued
    <3> QED
      BY <3>1, <3>2
  <2>6. \A d \in Deliveries : Accounted(d)'
    BY <1>5, <2>1, <2>2, <2>3 DEF Enqueued
  <2>7. ASSUME NEW d \in Deliveries PROVE Departed(d)'
    <3>1. CASE d = new
      <4>1. d \notin moved
        BY <2>2, <3>1, <1>d DEF Departed, Enqueued
      <4> QED
        BY <2>1, <2>2, <3>1, <4>1 DEF Departed
    <3>2. CASE d # new
      BY <2>1, <2>3, <3>2, <1>d DEF Departed, Enqueued
    <3> QED
      BY <3>1, <3>2
  <2>8. DeadIsDeserved'
    BY <2>1, <2>3, <1>x DEF DeadIsDeserved
  <2>9. \A n \in 1..Len(outbox') : Enqueued(outbox[n])'
    <3>1. \A d \in Deliveries : Enqueued(d) \/ d = new => row'[d].status # "none"
      BY <2>3 DEF Enqueued
    <3>2. \A n \in 1..Len(outbox) : outbox[n] # new
      BY <2>2, <1>o
    <3>3. \A n \in 1..Len(outbox') :
            \/ outbox'[n] = new
            \/ n \in 1..Len(outbox) /\ outbox'[n] = outbox[n]
      BY <2>1, <2>2, <3>2, <1>type, OutboxGrows DEF TypeOK
    <3>4. ASSUME NEW n \in 1..Len(outbox') PROVE row'[outbox'[n]].status # "none"
      BY <3>1, <3>3, <2>2, <1>o
    <3> QED
      BY <3>4 DEF Enqueued
  <2> QED
    BY <1>type, <2>4, <2>5, <2>6, <2>7, <2>8, <2>9 DEF PushInv
\* What the other workers owe when one worker moves on.
<1>8. ASSUME NEW i \in Instances, \A j \in Instances : j # i => worker'[j] = worker[j],
             NEW j \in Instances, j # i,
             \A t \in Tokens : lock[t] = j => lock'[t] = j /\ owner'[t] = owner[t],
             \A d \in Deliveries :
                \/ row'[d] = row[d]
                \/ row'[d].status = row[d].status /\ row'[d].attempts = row[d].attempts
                     /\ row[d].holder = i /\ row'[d].holder # j
                \/ ~RowLocked(d) /\ row'[d].holder # j
                \/ Holds(i, d) /\ row'[d].holder # j
      PROVE  Authorized(j)' /\ AttemptsAgree(j)' /\ OrphansAreLong(j)'
  <2>1. worker'[j] = worker[j]
    BY <1>8
  <2>2. Authorized(j)'
    <3> SUFFICES ASSUME worker[j].pc \in {"sending", "answered"},
                        NEW d \in Deliveries, d = worker[j].row
                 PROVE  Holds(j, d)' /\ lock'[TokenOf(d)] = j /\ owner'[TokenOf(d)] = UserFor(d)
      BY <1>8, <1>held, <2>1 DEF Authorized, Holds
    <3>1. Holds(j, d) /\ lock[TokenOf(d)] = j /\ owner[TokenOf(d)] = UserFor(d)
      BY <1>one
    <3>2. RowLocked(d) /\ ~Holds(i, d) /\ row[d].holder # i
      BY <1>8, <3>1 DEF RowLocked, Holds
    <3>3. row'[d] = row[d] /\ lock'[TokenOf(d)] = j /\ owner'[TokenOf(d)] = owner[TokenOf(d)]
      BY <1>8, <3>1, <3>2, DeliveryParts
    <3> QED
      BY <3>1, <3>3 DEF Holds
  <2>3. AttemptsAgree(j)'
    <3> SUFFICES ASSUME worker[j].pc \in {"claimed", "sending", "answered"},
                        NEW d \in Deliveries, d = worker[j].row, Holds(j, d)'
                 PROVE  row'[d].attempts = worker[j].attempts
      BY <2>1, <1>held DEF AttemptsAgree, Holds
    <3>1. row'[d] = row[d]
      BY <1>8 DEF Holds
    <3> QED
      BY <3>1, <1>i DEF AttemptsAgree, Holds
  <2> QED
    BY <2>1, <2>2, <2>3, <1>i DEF OrphansAreLong
\* A worker that has no row, or is yet to claim it, owes nothing.
<1>9. ASSUME NEW i \in Instances, worker'[i].pc \in {"idle", "found"}
      PROVE  Authorized(i)' /\ AttemptsAgree(i)' /\ OrphansAreLong(i)'
  BY <1>9 DEF Authorized, AttemptsAgree, OrphansAreLong
\* What is accounted for when a worker that has no good answer moves on.
<1>10. ASSUME NEW i \in Instances, \A j \in Instances : j # i => worker'[j] = worker[j],
              NEW d \in Deliveries, ~AnsweredOk(i, d),
              \/ accepted'[d] = accepted[d] /\ excused'[d] = excused[d]
              \/ accepted'[d] = accepted[d] + 1 /\ excused'[d] = excused[d] + 1,
              row[d].status = "delivered" => row'[d].status = "delivered"
       PROVE  Accounted(d)'
  <2>1. ASSUME NEW j \in Instances, AnsweredOk(j, d) PROVE AnsweredOk(j, d)'
    BY <1>10, <2>1 DEF AnsweredOk
  <2>2. accepted[d] \in Nat /\ excused[d] \in Nat
    BY <1>fun
  <2> DEFINE noticed == row[d].status = "delivered" \/ \E j \in Instances : AnsweredOk(j, d)
  <2>3. noticed => noticed'
    BY <1>10, <2>1
  <2>4. accepted[d] <= excused[d] + (IF noticed THEN 1 ELSE 0)
    BY <1>d DEF Accounted
  <2> HIDE DEF noticed
  <2>5. accepted'[d] <= excused'[d] + (IF noticed' THEN 1 ELSE 0)
    BY <1>10, <2>2, <2>3, <2>4
  <2> QED
    BY <2>5 DEF Accounted, noticed
\* A worker that turns away, or has only found a row, leaves everything in order.
<1>11. ASSUME NEW i \in Instances, \A j \in Instances : j # i => worker'[j] = worker[j],
              worker[i].pc # "answered", worker'[i].pc \in {"idle", "found"},
              UNCHANGED <<registry, lock, row, outbox>>,
              \A d \in Deliveries :
                 \/ accepted'[d] = accepted[d] /\ excused'[d] = excused[d]
                 \/ accepted'[d] = accepted[d] + 1 /\ excused'[d] = excused[d] + 1
       PROVE  PushInv'
  <2>1. ASSUME NEW j \in Instances
        PROVE  Authorized(j)' /\ AttemptsAgree(j)' /\ OrphansAreLong(j)'
    BY <1>8, <1>9, <1>11 DEF registry
  <2>2. \A a \in Alerts, t \in Tokens : Reserved(a, t)'
    BY <1>11, <1>l DEF Reserved, Enqueued, registry
  <2>3. ASSUME NEW d \in Deliveries PROVE Accounted(d)'
    BY <1>10, <1>11 DEF AnsweredOk
  <2> QED
    BY <1>4, <1>11, <1>type, <2>1, <2>2, <2>3 DEF PushInv
<1>12. ASSUME NEW i \in Instances, Claim(i) PROVE PushInv'
  <2>1. PICK d \in Deliveries : d = worker[i].row
    BY <1>12, <1>held DEF Claim
  <2>2. /\ worker[i].pc = "found" /\ ~RowLocked(d)
        /\ UNCHANGED <<registry, lock, outbox, accepted, excused>>
    BY <1>12, <2>1 DEF Claim
  <2>3. CASE Due(d)
    <3>1. /\ row'[d] = [status |-> "leased", attempts |-> worker[i].attempts, due |-> FALSE,
                        holder |-> i, lapsed |-> FALSE]
          /\ \A e \in Deliveries : e # d => row'[e] = row[e]
          /\ worker' = [worker EXCEPT ![i].pc = "claimed"]
      BY <1>12, <2>1, <2>3, <1>fun DEF Claim
    <3>2. /\ worker'[i].pc = "claimed" /\ worker'[i].row = d
          /\ worker'[i].attempts = worker[i].attempts
          /\ \A j \in Instances : j # i => worker'[j] = worker[j]
      BY <2>1, <3>1, <1>fun DEF Drain
    <3>3. ASSUME NEW j \in Instances
          PROVE  Authorized(j)' /\ AttemptsAgree(j)' /\ OrphansAreLong(j)'
      <4>1. CASE j = i
        BY <3>1, <3>2, <4>1 DEF Authorized, AttemptsAgree, OrphansAreLong
      <4>2. CASE j # i
        <5>1. row'[d].holder # j
          BY <3>1, <4>2
        <5>2. owner' = owner /\ \A t \in Tokens : lock[t] = j => lock'[t] = j
          BY <2>2 DEF registry
        <5>3. \A e \in Deliveries : row'[e] = row[e] \/ (~RowLocked(e) /\ row'[e].holder # j)
          BY <2>2, <3>1, <5>1
        <5> QED
          BY <1>8, <3>2, <4>2, <5>2, <5>3
      <4> QED
        BY <4>1, <4>2
    <3>4. row[d].status \in Live
      BY <2>3 DEF Due, Live
    <3>5. \A e \in Deliveries : Enqueued(e)' <=> Enqueued(e)
      BY <3>1, <3>4 DEF Enqueued, Live
    <3>6. \A a \in Alerts, t \in Tokens : Reserved(a, t)'
      BY <2>2, <3>5, <1>l, DeliveryParts DEF Reserved, registry
    <3>7. ASSUME NEW e \in Deliveries PROVE Accounted(e)'
      BY <1>10, <2>2, <3>1, <3>2, <3>4 DEF Live, AnsweredOk
    <3>8. \A e \in Deliveries : Departed(e)'
      BY <2>2, <3>1, <3>4, <3>5, <1>d DEF Departed, Live, registry
    <3>9. DeadIsDeserved'
      BY <2>2, <3>1, <1>x DEF DeadIsDeserved, registry
    <3>10. \A n \in 1..Len(outbox') : Enqueued(outbox[n])'
      BY <2>2, <3>5, <1>o
    <3> QED
      BY <1>type, <3>3, <3>6, <3>7, <3>8, <3>9, <3>10 DEF PushInv
  <2>4. CASE ~Due(d)
    <3>1. /\ row' = row /\ worker'[i].pc = "idle"
          /\ \A j \in Instances : j # i => worker'[j] = worker[j]
      BY <1>12, <2>1, <2>4, <1>fun DEF Claim, Rest, Idle
    <3> QED
      BY <1>11, <2>2, <3>1
  <2> QED
    BY <2>3, <2>4
\* A worker settles its row, and may take the token from its user with it.
<1>13. ASSUME NEW i \in Instances, \A j \in Instances : j # i => worker'[j] = worker[j],
              worker'[i].pc = "idle", UNCHANGED <<outbox, accepted, excused, moved>>,
              NEW d \in Deliveries, Holds(i, d),
              row'[d].status \in {"delivered", "dead", "retry"}, row'[d].holder = Nobody,
              row'[d].attempts = row[d].attempts,
              \A e \in Deliveries : e # d => row'[e] = row[e] /\ ~AnsweredOk(i, e),
              AnsweredOk(i, d) => row'[d].status = "delivered",
              \A t \in Tokens : \/ lock'[t] = lock[t] /\ owner'[t] = owner[t]
                                \/ lock[t] = i /\ lock'[t] = Nobody
                                     /\ owner'[t] \in {owner[t], Nobody},
              strayed' = strayed \cup Strays(owner'),
              row'[d].status = "dead" => d \in strayed' \/ row[d].attempts >= MaxAttempts
       PROVE  PushInv'
  <2>1. row[d].status = "leased" /\ row[d].holder = i
    BY <1>13 DEF Holds
  <2>2. ASSUME NEW j \in Instances
        PROVE  Authorized(j)' /\ AttemptsAgree(j)' /\ OrphansAreLong(j)'
    <3>1. CASE j = i
      BY <1>9, <1>13, <3>1
    <3>2. CASE j # i
      <4>1. ASSUME NEW e \in Deliveries
            PROVE  row'[e] = row[e] \/ (Holds(i, e) /\ row'[e].holder # j)
        BY <1>13, PushAssumption
      <4>2. \A t \in Tokens : lock[t] = j => lock'[t] = j /\ owner'[t] = owner[t]
        BY <1>13, <3>2
      <4> QED
        BY <1>8, <1>13, <3>2, <4>1, <4>2
    <3> QED
      BY <3>1, <3>2
  <2>3. ASSUME NEW e \in Deliveries PROVE Enqueued(e)' <=> Enqueued(e)
    BY <1>13, <2>1 DEF Enqueued
  <2>4. ASSUME NEW a \in Alerts, NEW t \in Tokens PROVE Reserved(a, t)'
    <3>1. <<a, t>> \in Deliveries /\ a # Nobody
      BY DeliveryParts, PushAssumption
    <3>2. Reserved(a, t)
      BY <1>l
    <3>3. lock'[t] = a => lock[t] = a /\ owner'[t] = owner[t]
      BY <1>13, <3>1
    <3> QED
      BY <2>3, <3>1, <3>2, <3>3 DEF Reserved
  <2>5. ASSUME NEW e \in Deliveries PROVE Accounted(e)'
    <3>1. CASE AnsweredOk(i, e)
      <4>1. e = d /\ row'[e].status = "delivered"
        BY <1>13, <3>1
      <4>2. accepted[e] <= excused[e] + 1
        BY <3>1, <1>d, <2>1, <4>1 DEF Accounted
      <4> QED
        BY <1>13, <4>1, <4>2 DEF Accounted
    <3>2. CASE ~AnsweredOk(i, e)
      BY <1>10, <1>13, <2>1, <3>2
    <3> QED
      BY <3>1, <3>2
  <2>6. ASSUME NEW e \in Deliveries PROVE Departed(e)'
    <3>1. TokenOf(e) \in Tokens /\ owner'[TokenOf(e)] \in {owner[TokenOf(e)], Nobody}
      BY <1>13, DeliveryParts
    <3>2. e \in moved' \/ (Enqueued(e) /\ owner'[TokenOf(e)] # UserFor(e)) => e \in strayed'
      BY <1>13, <1>d DEF Departed, Strays
    <3>3. e \in moved' \/ (Enqueued(e) /\ owner'[TokenOf(e)] \notin {UserFor(e), Nobody}) =>
            row'[e].status \in {"delivered", "dead"}
      BY <1>13, <2>1, <3>1, <1>d DEF Departed
    <3> QED
      BY <2>3, <3>2, <3>3 DEF Departed
  <2>7. DeadIsDeserved'
    BY <1>13, <1>x DEF DeadIsDeserved
  <2>8. \A n \in 1..Len(outbox') : Enqueued(outbox[n])'
    BY <1>13, <2>3, <1>o
  <2> QED
    BY <1>type, <2>2, <2>4, <2>5, <2>6, <2>7, <2>8 DEF PushInv
<1>find. ASSUME NEW i \in Instances, Find(i) PROVE PushInv'
  BY <1>11, <1>find, <1>fun DEF Find
<1>14. ASSUME NEW i \in Instances, Authorize(i) PROVE PushInv'
  <2>1. PICK d \in Deliveries : d = worker[i].row
    BY <1>14, <1>held DEF Authorize
  <2>2. /\ worker[i].pc = "claimed" /\ lock[TokenOf(d)] = Nobody
        /\ UNCHANGED <<registry, outbox, accepted, excused>>
    BY <1>14, <2>1 DEF Authorize, Unlocked
  <2>3. CASE ~Holds(i, d)
    <3>1. /\ row' = row /\ lock' = lock /\ worker'[i].pc = "idle"
          /\ \A j \in Instances : j # i => worker'[j] = worker[j]
      BY <1>14, <2>1, <2>3, <1>fun DEF Authorize, Rest, Idle
    <3> QED
      BY <1>11, <2>2, <3>1
  <2>4. CASE Holds(i, d) /\ owner[TokenOf(d)] # UserFor(d)
    <3>1. Outcome(d, "dead") /\ Rest(i) /\ UNCHANGED lock
      BY <1>14, <2>1, <2>4 DEF Authorize
    <3>2. /\ worker'[i].pc = "idle"
          /\ \A j \in Instances : j # i => worker'[j] = worker[j]
          /\ row'[d].status = "dead" /\ row'[d].holder = Nobody
          /\ row'[d].attempts = row[d].attempts
          /\ \A e \in Deliveries : e # d => row'[e] = row[e]
      BY <3>1, <1>fun DEF Rest, Idle, Outcome
    <3>3. d \in strayed
      BY <2>4, <1>d DEF Departed, Enqueued, Holds
    <3>4. strayed' = strayed \cup Strays(owner')
      BY <2>2 DEF Strays, registry
    <3> QED
      BY <1>13, <2>2, <2>4, <3>1, <3>2, <3>3, <3>4 DEF AnsweredOk, registry
  <2>5. CASE Holds(i, d) /\ owner[TokenOf(d)] = UserFor(d)
    <3>1. /\ lock' = [lock EXCEPT ![TokenOf(d)] = i]
          /\ worker' = [worker EXCEPT ![i].pc = "sending"] /\ row' = row
      BY <1>14, <2>1, <2>5 DEF Authorize
    <3>2. /\ worker'[i].pc = "sending" /\ worker'[i].row = d
          /\ worker'[i].attempts = worker[i].attempts
          /\ \A j \in Instances : j # i => worker'[j] = worker[j]
      BY <2>1, <3>1, <1>fun DEF Drain
    <3>3. lock'[TokenOf(d)] = i /\ \A t \in Tokens : t # TokenOf(d) => lock'[t] = lock[t]
      BY <3>1, <1>fun, DeliveryParts
    <3>4. ASSUME NEW j \in Instances
          PROVE  Authorized(j)' /\ AttemptsAgree(j)' /\ OrphansAreLong(j)'
      <4>1. CASE j = i
        <5>1. row[d].attempts = worker[i].attempts
          BY <2>1, <2>2, <2>5, <1>i DEF AttemptsAgree
        <5> QED
          BY <2>2, <2>5, <3>1, <3>2, <3>3, <4>1, <5>1
             DEF Authorized, AttemptsAgree, OrphansAreLong, Holds, registry
      <4>2. CASE j # i
        <5>1. \A t \in Tokens : lock[t] = j => lock'[t] = j /\ owner'[t] = owner[t]
          BY <2>2, <3>3, PushAssumption DEF registry
        <5> QED
          BY <1>8, <3>1, <3>2, <4>2, <5>1
      <4> QED
        BY <4>1, <4>2
    <3>5. ASSUME NEW a \in Alerts, NEW t \in Tokens PROVE Reserved(a, t)'
      <4>1. lock'[t] = a => lock[t] = a
        BY <3>3, PushAssumption
      <4> QED
        BY <2>2, <3>1, <4>1, <1>l DEF Reserved, Enqueued, registry
    <3>6. ASSUME NEW e \in Deliveries PROVE Accounted(e)'
      BY <1>10, <2>2, <3>1, <3>2 DEF AnsweredOk
    <3> QED
      BY <1>4, <1>type, <2>2, <3>1, <3>4, <3>5, <3>6 DEF PushInv
  <2> QED
    BY <2>3, <2>4, <2>5
<1>15. ASSUME NEW i \in Instances, NEW answer \in Answers, Send(i, answer) PROVE PushInv'
  <2>1. PICK d \in Deliveries : d = worker[i].row
    BY <1>15, <1>held DEF Send
  <2>2. /\ worker[i].pc \in {"sending", "orphan"} /\ UNCHANGED <<registry, lock, row, outbox>>
        /\ \A e \in Deliveries : e # d => accepted'[e] = accepted[e] /\ excused'[e] = excused[e]
        /\ accepted'[d] = IF answer \in {"ok", "unanswered"} THEN accepted[d] + 1
                                                             ELSE accepted[d]
        /\ excused'[d] = IF /\ answer \in {"ok", "unanswered"}
                            /\ ~(answer = "ok" /\ worker[i].pc = "sending")
                         THEN excused[d] + 1 ELSE excused[d]
    BY <1>15, <2>1, <1>fun DEF Send
  <2>3. CASE worker[i].pc = "sending"
    <3>1. worker' = [worker EXCEPT ![i] = [@ EXCEPT !.pc = "answered", !.answer = answer]]
      BY <1>15, <2>3 DEF Send
    <3>2. /\ worker'[i].pc = "answered" /\ worker'[i].row = d /\ worker'[i].answer = answer
          /\ worker'[i].attempts = worker[i].attempts
          /\ \A j \in Instances : j # i => worker'[j] = worker[j]
      BY <2>1, <3>1, <1>fun DEF Drain
    <3>3. Holds(i, d) /\ lock[TokenOf(d)] = i /\ owner[TokenOf(d)] = UserFor(d)
      BY <2>1, <2>3, <1>one
    <3>4. ASSUME NEW j \in Instances
          PROVE  Authorized(j)' /\ AttemptsAgree(j)' /\ OrphansAreLong(j)'
      <4>1. CASE j = i
        <5>1. row[d].attempts = worker[i].attempts
          BY <2>1, <2>3, <3>3, <1>i DEF AttemptsAgree
        <5> QED
          BY <2>2, <3>2, <3>3, <4>1, <5>1
             DEF Authorized, AttemptsAgree, OrphansAreLong, Holds, registry
      <4>2. CASE j # i
        BY <1>8, <2>2, <3>2, <4>2 DEF registry
      <4> QED
        BY <4>1, <4>2
    <3>5. Accounted(d)'
      <4>1. \A j \in Instances : ~AnsweredOk(j, d)
        BY <2>1, <2>3, <3>3, <1>one DEF AnsweredOk, Holds
      <4>2. accepted[d] <= excused[d] /\ accepted[d] \in Nat /\ excused[d] \in Nat
        <5>1. row[d].status # "delivered"
          BY <3>3 DEF Holds
        <5>2. accepted[d] <= excused[d] + 0
          BY <4>1, <5>1, <1>d DEF Accounted
        <5> QED
          BY <5>2, <1>fun
      <4>3. answer = "ok" => AnsweredOk(i, d)'
        BY <3>2 DEF AnsweredOk
      <4>4. CASE answer = "ok"
        <5>1. accepted'[d] <= excused'[d] + 1
          BY <2>2, <2>3, <4>2, <4>4
        <5> QED
          BY <4>3, <4>4, <5>1 DEF Accounted
      <4>5. CASE answer # "ok"
        <5>1. accepted'[d] <= excused'[d] /\ excused'[d] \in Nat /\ accepted'[d] \in Nat
          BY <2>2, <2>3, <4>2, <4>5
        <5> QED
          BY <5>1 DEF Accounted
      <4> QED
        BY <4>4, <4>5
    <3>6. ASSUME NEW e \in Deliveries, e # d PROVE Accounted(e)'
      BY <1>10, <2>2, <2>3, <3>2, <3>6 DEF AnsweredOk
    <3>7. \A a \in Alerts, t \in Tokens : Reserved(a, t)'
      BY <2>2, <1>l DEF Reserved, Enqueued, registry
    <3> QED
      BY <1>4, <1>type, <2>2, <3>4, <3>5, <3>6, <3>7 DEF PushInv
  <2>4. CASE worker[i].pc = "orphan"
    <3>1. worker'[i].pc = "idle" /\ \A j \in Instances : j # i => worker'[j] = worker[j]
      BY <1>15, <2>4, <1>fun DEF Send, Rest, Idle
    <3> QED
      BY <1>11, <2>2, <2>4, <3>1
  <2> QED
    BY <2>2, <2>3, <2>4
<1>16. ASSUME NEW i \in Instances, Commit(i) PROVE PushInv'
  <2>1. PICK d \in Deliveries : d = worker[i].row
    BY <1>16, <1>held DEF Commit
  <2>2. PICK s \in Status :
          /\ s = CASE worker[i].answer = "ok" -> "delivered"
                   [] worker[i].answer = "gone" -> "dead"
                   [] OTHER -> IF worker[i].attempts >= MaxAttempts THEN "dead" ELSE "retry"
          /\ Outcome(d, s)
    BY <1>16, <2>1 DEF Commit, Status
  <2>3. /\ worker[i].pc = "answered" /\ UNCHANGED <<outbox, accepted, excused, moved>>
        /\ lock' = [lock EXCEPT ![TokenOf(d)] = Nobody] /\ Rest(i)
        /\ strayed' = strayed \cup Strays(owner')
        /\ IF worker[i].answer = "gone" THEN owner' = [owner EXCEPT ![TokenOf(d)] = Nobody]
                                        ELSE owner' = owner
    <3>1. owner' = owner => Strays(owner') = {}
      BY DEF Strays
    <3> QED
      BY <1>16, <2>1, <3>1 DEF Commit, Freed
  <2>4. /\ worker'[i].pc = "idle" /\ \A j \in Instances : j # i => worker'[j] = worker[j]
        /\ row'[d].status = s /\ row'[d].holder = Nobody
        /\ row'[d].attempts = row[d].attempts
        /\ \A e \in Deliveries : e # d => row'[e] = row[e]
    BY <2>2, <2>3, <1>fun DEF Rest, Idle, Outcome
  <2>5. /\ Holds(i, d) /\ lock[TokenOf(d)] = i /\ owner[TokenOf(d)] = UserFor(d)
        /\ row[d].attempts = worker[i].attempts
    BY <2>1, <2>3, <1>one, <1>i DEF AttemptsAgree
  <2>6. ASSUME NEW t \in Tokens
        PROVE  \/ lock'[t] = lock[t] /\ owner'[t] = owner[t]
               \/ lock[t] = i /\ lock'[t] = Nobody /\ owner'[t] \in {owner[t], Nobody}
    BY <2>3, <2>5, <1>fun
  <2>7. s = "dead" => d \in strayed' \/ row[d].attempts >= MaxAttempts
    <3>1. worker[i].answer = "gone" => d \in Strays(owner')
      <4>1. UserFor(d) # Nobody /\ TokenOf(d) \in Tokens
        BY DeliveryParts, PushAssumption
      <4> QED
        BY <2>3, <2>5, <4>1, <1>fun DEF Strays, Enqueued, Holds
    <3> QED
      BY <2>2, <2>3, <2>5, <3>1
  <2>8. /\ s \in {"delivered", "dead", "retry"}
        /\ AnsweredOk(i, d) => s = "delivered"
        /\ \A e \in Deliveries : e # d => ~AnsweredOk(i, e)
    BY <2>1, <2>2 DEF AnsweredOk
  <2> QED
    BY <1>13, <2>3, <2>4, <2>5, <2>6, <2>7, <2>8
<1>17. ASSUME NEW i \in Instances, NEW crash \in BOOLEAN, Lose(i, crash) PROVE PushInv'
  <2>1. PICK d \in Deliveries : d = worker[i].row
    BY <1>17, <1>held DEF Lose
  <2>2. /\ UNCHANGED <<registry, outbox, accepted>>
        /\ lock' = [t \in Tokens |-> IF lock[t] = i THEN Nobody ELSE lock[t]]
        /\ \/ Rest(i)
           \/ LongSends /\ worker' = [worker EXCEPT ![i].pc = "orphan"]
    BY <1>17 DEF Lose
  <2>3. /\ worker'[i].pc \in {"idle", "orphan"}
        /\ worker'[i].pc = "orphan" => LongSends
        /\ \A j \in Instances : j # i => worker'[j] = worker[j]
    BY <2>2, <1>fun DEF Rest, Idle, Drain
  <2>4. ASSUME NEW e \in Deliveries
        PROVE  /\ row'[e].status = row[e].status /\ row'[e].attempts = row[e].attempts
               /\ row'[e] = row[e] \/ (row[e].holder = i /\ row'[e].holder = Nobody)
    <3>1. row[e] \in Row
      BY <1>fun
    <3>2. row'[e] = row[e] \/ (row[e].holder = i /\ row'[e] = [row[e] EXCEPT !.holder = Nobody])
      BY <1>17 DEF Lose
    <3> QED
      BY <3>1, <3>2 DEF Row
  <2>5. ASSUME NEW j \in Instances
        PROVE  Authorized(j)' /\ AttemptsAgree(j)' /\ OrphansAreLong(j)'
    <3>1. CASE j = i
      BY <2>3, <3>1 DEF Authorized, AttemptsAgree, OrphansAreLong
    <3>2. CASE j # i
      <4>1. \A t \in Tokens : lock[t] = j => lock'[t] = j /\ owner'[t] = owner[t]
        BY <2>2, <3>2 DEF registry
      <4>2. \A e \in Deliveries : row'[e].holder = Nobody => row'[e].holder # j
        BY PushAssumption
      <4> QED
        BY <1>8, <2>3, <2>4, <3>2, <4>1, <4>2
    <3> QED
      BY <3>1, <3>2
  <2>6. ASSUME NEW a \in Alerts, NEW t \in Tokens PROVE Reserved(a, t)'
    <3>1. <<a, t>> \in Deliveries /\ a # Nobody
      BY DeliveryParts, PushAssumption
    <3>2. lock'[t] = a => lock[t] = a
      BY <2>2, <3>1
    <3> QED
      BY <2>2, <2>4, <3>1, <3>2, <1>l DEF Reserved, Enqueued, registry
  <2>7. ASSUME NEW e \in Deliveries PROVE Accounted(e)'
    <3>1. CASE AnsweredOk(i, e)
      <4>1. excused'[e] = excused[e] + 1
        BY <1>17, <2>1, <3>1, <1>fun DEF Lose, AnsweredOk
      <4>2. row[e].status # "delivered" /\ accepted[e] <= excused[e] + 1
        BY <3>1, <1>d, <1>one DEF Accounted, AnsweredOk, Holds
      <4>3. accepted'[e] <= excused'[e] /\ accepted'[e] \in Nat /\ excused'[e] \in Nat
        BY <2>2, <4>1, <4>2, <1>fun
      <4> QED
        BY <4>3 DEF Accounted
    <3>2. CASE ~AnsweredOk(i, e)
      <4>1. excused'[e] = excused[e]
        BY <1>17, <2>1, <3>2, <1>fun DEF Lose, AnsweredOk
      <4> QED
        BY <1>10, <2>2, <2>3, <2>4, <3>2, <4>1
    <3> QED
      BY <3>1, <3>2
  <2> QED
    BY <1>4, <1>type, <2>2, <2>4, <2>5, <2>6, <2>7 DEF PushInv
\* Time passes over a row: its claim stays, only when it is due changes.
<1>18. ASSUME NEW d \in Deliveries, BackoffOver(d) \/ Lapse(d) PROVE PushInv'
  <2>1. UNCHANGED <<registry, lock, outbox, worker, accepted, excused>>
    BY <1>18 DEF BackoffOver, Lapse
  <2>2. ASSUME NEW e \in Deliveries
        PROVE  /\ row'[e].status = row[e].status /\ row'[e].attempts = row[e].attempts
               /\ row'[e].holder = row[e].holder
    <3>1. row[d] \in Row /\ row[e] \in Row
      BY <1>fun
    <3>2. \/ row' = [row EXCEPT ![d] = [row[d] EXCEPT !.due = TRUE]]
          \/ row' = [row EXCEPT ![d] = [row[d] EXCEPT !.lapsed = TRUE]]
      BY <1>18 DEF BackoffOver, Lapse
    <3>3. \/ row'[e] = row[e]
          \/ row'[e] = [row[e] EXCEPT !.due = TRUE] \/ row'[e] = [row[e] EXCEPT !.lapsed = TRUE]
      BY <3>2, <1>fun
    <3> QED
      BY <3>1, <3>3 DEF Row
  <2>3. ASSUME NEW i \in Instances
        PROVE  Authorized(i)' /\ AttemptsAgree(i)' /\ OrphansAreLong(i)'
    <3>1. CASE worker[i].pc = "idle"
      BY <1>9, <2>1, <3>1
    <3>2. CASE worker[i].pc # "idle"
      <4>1. PICK e \in Deliveries : e = worker[i].row
        BY <3>2, <1>held
      <4> QED
        BY <2>1, <2>2, <4>1, <1>i
           DEF Authorized, AttemptsAgree, OrphansAreLong, Holds, registry
    <3> QED
      BY <3>1, <3>2
  <2>4. ASSUME NEW a \in Alerts, NEW t \in Tokens PROVE Reserved(a, t)'
    <3>1. <<a, t>> \in Deliveries
      BY DeliveryParts
    <3> QED
      BY <2>1, <2>2, <3>1, <1>l DEF Reserved, Enqueued, registry
  <2> QED
    BY <1>4, <1>5, <1>type, <2>1, <2>2, <2>3, <2>4 DEF PushInv
<1>19. CASE UNCHANGED vars
  BY <1>19, <1>type
     DEF vars, PushInv, Authorized, AttemptsAgree, OrphansAreLong, Reserved, Accounted,
         AnsweredOk, Departed, DeadIsDeserved, Enqueued, Holds
<1> QED
  BY <1>2, <1>3, <1>6, <1>7, <1>11, <1>12, <1>14, <1>15, <1>16, <1>17, <1>18, <1>19, <1>find
     DEF Next

\* What Authorized, Accounted, Departed and the others state holds in every state.
LEMMA Invariant == Spec => []PushInv
BY InitInv, InvStep, PTL DEF Spec

-----------------------------------------------------------------------------
(* The results.                                                            *)

\* The outbox has one row for an alert and a device, every variable keeps its
\* type, and no user has more than MAX_DEVICES_PER_USER devices, whatever
\* registrations, removals and cleanups interleave with the deliveries.
THEOREM TypeCorrect == Spec => []TypeOK
<1>1. PushInv => TypeOK
  BY DEF PushInv
<1> QED
  BY <1>1, Invariant, PTL

\* APNs takes a delivery once, and once more for each acceptance whose answer or
\* transaction was lost: neither racing workers, nor lapsed leases, nor requests
\* that outlast their transactions, nor outcomes observed again repeat an alert.
THEOREM RepeatsExcused == Spec => []RepeatsAreExcused
<1>1. PushInv => RepeatsAreExcused
  <2> SUFFICES ASSUME PushInv, NEW d \in Deliveries PROVE accepted[d] <= 1 + excused[d]
    BY DEF RepeatsAreExcused
  <2>1. accepted[d] \in Nat /\ excused[d] \in Nat
    BY DEF PushInv, TypeOK
  <2>2. \/ accepted[d] <= excused[d] + 0
        \/ accepted[d] <= excused[d] + 1
    BY DEF PushInv, Accounted
  <2> QED
    BY <2>1, <2>2
<1> QED
  BY <1>1, Invariant, PTL

\* A delivery is given up only when its token has left the user, or with
\* MAX_ATTEMPTS tries behind it.
THEOREM DeadDeserved == Spec => []DeadIsDeserved
<1>1. PushInv => DeadIsDeserved
  BY DEF PushInv
<1> QED
  BY <1>1, Invariant, PTL

\* When no send outlasts its transaction, an alert reaches a device only while
\* the device is its user's, and has been nobody else's since the row was written.
THEOREM OwnersOnly ==
  ASSUME LongSends = FALSE
  PROVE  Spec => OnlyToItsOwner
<1>1. ASSUME PushInv, PushInv', [Next]_vars, NEW d \in Deliveries, accepted'[d] > accepted[d]
      PROVE  owner[TokenOf(d)] = UserFor(d) /\ d \notin moved
  <2>1. accepted \in [Deliveries -> Nat]
    BY <1>1 DEF PushInv, TypeOK
  <2>2. accepted' # accepted
    BY <1>1, <2>1
  <2>3. PICK i \in Instances, answer \in Answers : Send(i, answer)
    BY <1>1, <2>2
       DEF Next, vars, registry, Register, Unregister, List, CheckDevice, Insert, Enqueue,
           Again, Find, Claim, Authorize, Commit, Lose, BackoffOver, Lapse
  <2>4. worker[i].row = d
    BY <1>1, <2>1, <2>3 DEF Send
  <2>5. worker[i].pc = "sending"
    BY <1>1, <2>3 DEF Send, PushInv, OrphansAreLong
  <2>6. Holds(i, d) /\ owner[TokenOf(d)] = UserFor(d)
    BY <1>1, <2>4, <2>5 DEF PushInv, Authorized
  <2> QED
    BY <1>1, <2>6 DEF PushInv, Departed, Holds
<1>2. PushInv /\ PushInv' /\ [Next]_vars =>
        [\A d \in Deliveries :
           accepted'[d] > accepted[d] => owner[TokenOf(d)] = UserFor(d) /\ d \notin moved]_vars
  BY <1>1
<1> QED
  BY <1>2, Invariant, PTL DEF Spec, OnlyToItsOwner

=============================================================================
