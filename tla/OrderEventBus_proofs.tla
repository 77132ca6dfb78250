------------------------ MODULE OrderEventBus_proofs ------------------------
(***************************************************************************)
(* Proofs about OrderEventBus, for any webhooks, emissions, instances and  *)
(* bounds.                                                                 *)
(***************************************************************************)
EXTENDS OrderEventBus, SequenceTheorems, TLAPS

-----------------------------------------------------------------------------
(* Typing.                                                                 *)

\* Changing fields of one row, or of one worker, keeps them typed.
LEMMA RowFields ==
  ASSUME NEW rows \in [Webhooks -> Row], NEW w, NEW s \in RowStatus, NEW b \in BOOLEAN
  PROVE  /\ [rows EXCEPT ![w].status = s] \in [Webhooks -> Row]
         /\ [rows EXCEPT ![w].due = b] \in [Webhooks -> Row]
         /\ [rows EXCEPT ![w].lapsed = b] \in [Webhooks -> Row]
         /\ [rows EXCEPT ![w].owner = Nobody] \in [Webhooks -> Row]
<1>1. \A r \in Row : /\ [r EXCEPT !.status = s] \in Row /\ [r EXCEPT !.due = b] \in Row
                     /\ [r EXCEPT !.lapsed = b] \in Row /\ [r EXCEPT !.owner = Nobody] \in Row
  BY DEF Row
<1> QED
  BY <1>1

\* A worker that has a row goes through its phases typed.
LEMMA DrainFields ==
  ASSUME NEW ds \in [Instances -> Drain], NEW i \in Instances, ds[i].row # Nobody,
         NEW p \in {"idle", "found", "dispatching", "done", "failed"}
  PROVE  [ds EXCEPT ![i].pc = p] \in [Instances -> Drain]
<1>1. [ds[i] EXCEPT !.pc = p] \in Drain
  BY DEF Drain
<1> QED
  BY <1>1

\* What an outcome's write and a heartbeat change.
LEMMA SettledRow ==
  ASSUME inbox \in [Webhooks -> Row], NEW i \in Instances, NEW w \in Webhooks,
         NEW s \in RowStatus, Settled(i, w, s)
  PROVE  /\ \A v \in Webhooks : inbox'[v].attempts = inbox[v].attempts
         /\ \A v \in Webhooks : \/ inbox'[v].status = inbox[v].status
                                \/ v = w /\ inbox'[v].status = s
<1>1. CASE inbox' = inbox
  BY <1>1
<1>2. CASE inbox' = [inbox EXCEPT ![w].status = s, ![w].owner = Nobody, ![w].lapsed = FALSE]
  <2> DEFINE one == [inbox EXCEPT ![w].status = s]
             two == [one EXCEPT ![w].owner = Nobody]
             three == [two EXCEPT ![w].lapsed = FALSE]
  <2>1. one \in [Webhooks -> Row]
    BY RowFields, TRUE \in BOOLEAN
  <2>2. \A v \in Webhooks : /\ one[v].status = IF v = w THEN s ELSE inbox[v].status
                            /\ one[v].attempts = inbox[v].attempts
    BY DEF Row
  <2> HIDE DEF one
  <2>3. two \in [Webhooks -> Row]
    BY <2>1, RowFields, TRUE \in BOOLEAN
  <2>4. \A v \in Webhooks : two[v].status = one[v].status /\ two[v].attempts = one[v].attempts
    BY <2>1 DEF Row
  <2> HIDE DEF two
  <2>5. \A v \in Webhooks : three[v].status = two[v].status /\ three[v].attempts = two[v].attempts
    BY <2>3 DEF Row
  <2>6. inbox' = three
    BY <1>2 DEF one, two
  <2> HIDE DEF three
  <2> QED
    BY <2>2, <2>4, <2>5, <2>6
<1> QED
  BY <1>1, <1>2 DEF Settled

\* A lease that lapses, or is renewed, touches neither attempts nor status.
LEMMA LapsedRow ==
  ASSUME inbox \in [Webhooks -> Row], NEW w, NEW b \in BOOLEAN, NEW v \in Webhooks,
         inbox' = [inbox EXCEPT ![w].lapsed = b]
  PROVE  inbox'[v].attempts = inbox[v].attempts /\ inbox'[v].status = inbox[v].status
<1>1. CASE v = w
  <2>1. inbox'[v] = [inbox[v] EXCEPT !.lapsed = b]
    BY <1>1
  <2> QED
    BY <2>1 DEF Row
<1>2. CASE v # w
  BY <1>2
<1> QED
  BY <1>1, <1>2

\* Appending to a queue keeps its head and all that is in it.
LEMMA AppendKeeps ==
  ASSUME NEW q \in Seq(Events), NEW e \in Events
  PROVE  /\ Append(q, e) # << >> /\ Len(Append(q, e)) = Len(q) + 1
         /\ q # << >> => Head(Append(q, e)) = Head(q)
         /\ \A n \in 1..Len(q) : Append(q, e)[n] = q[n]
         /\ Append(q, e)[Len(q) + 1] = e
BY AppendProperties, HeadTailAppend

\* The bus starts typed.
LEMMA InitType == Init => TypeOK
BY BusAssumption
   DEF Init, TypeOK, Row, Drain, Turn, Idle, Fresh, RowStatus,
       Statuses, Contains, IsInjective, Events

\* Appending what the log does not hold keeps its entries distinct.
LEMMA LogGrows ==
  ASSUME NEW s \in Statuses, log \in Seq(Statuses), IsInjective(log), ~Contains(log, s)
  PROVE  Append(log, s) \in Seq(Statuses) /\ IsInjective(Append(log, s))
BY DEF Contains, IsInjective

\* Every action keeps the types.
LEMMA TypeStep == TypeOK /\ [Next]_vars => TypeOK'
<1> SUFFICES ASSUME TypeOK, [Next]_vars PROVE TypeOK'
  OBVIOUS
<1>fun. /\ inbox \in [Webhooks -> Row] /\ claims \in [Webhooks -> Nat]
        /\ worker \in [Instances -> Drain] /\ queue \in [Instances -> Seq(Events)]
        /\ ingest \in [Instances -> Turn]
        /\ Idle \in Drain /\ Fresh \in Turn /\ Webhooks \subseteq Events
  BY BusAssumption DEF TypeOK, Drain, Turn, Idle, Fresh, Events
<1>held. \A i \in Instances : worker[i].pc # "idle" => worker[i].row \in Webhooks
  BY <1>fun DEF Drain
<1> USE BusAssumption, <1>fun DEF TypeOK
<1>1. ASSUME NEW w \in Webhooks, NEW stored \in BOOLEAN, NEW told \in BOOLEAN,
             Receive(w, stored, told)
      PROVE  TypeOK'
  <2>1. inbox' \in [Webhooks -> Row]
    <3>1. inbox' = inbox \/ inbox' = [inbox EXCEPT ![w].status = "pending"]
      BY <1>1 DEF Receive
    <3>2. [inbox EXCEPT ![w].status = "pending"] \in [Webhooks -> Row]
      BY RowFields DEF RowStatus
    <3> QED
      BY <3>1, <3>2
  <2>2. received' \in Seq(Webhooks)
    <3>1. received' = received \/ received' = Append(received, w)
      BY <1>1 DEF Receive
    <3>2. Append(received, w) \in Seq(Webhooks)
      OBVIOUS
    <3> QED
      BY <3>1, <3>2
  <2>3. answered' \subseteq Webhooks /\ faults' \in 0..MaxFaults
    <3>1. CASE stored /\ told
      BY <1>1, <3>1 DEF Receive
    <3>2. CASE ~(stored /\ told)
      BY <1>1, <3>2 DEF Receive, Fault
    <3> QED
      BY <3>1, <3>2
  <2> QED
    BY <1>1, <2>1, <2>2, <2>3 DEF Receive, busVars
<1>2. ASSUME NEW w \in Webhooks, BackoffOver(w) \/ Lapse(w) PROVE TypeOK'
  <2>1. inbox' \in [Webhooks -> Row]
    <3>1. \/ inbox' = [inbox EXCEPT ![w].due = TRUE]
          \/ inbox' = [inbox EXCEPT ![w].lapsed = TRUE]
      BY <1>2 DEF BackoffOver, Lapse
    <3>2. /\ [inbox EXCEPT ![w].due = TRUE] \in [Webhooks -> Row]
          /\ [inbox EXCEPT ![w].lapsed = TRUE] \in [Webhooks -> Row]
      BY RowFields DEF RowStatus
    <3> QED
      BY <3>1, <3>2
  <2>2. faults' \in 0..MaxFaults
    BY <1>2 DEF BackoffOver, Lapse, Fault
  <2> QED
    BY <1>2, <2>1, <2>2 DEF BackoffOver, Lapse, busVars
<1>3. ASSUME NEW i \in Instances, Find(i) PROVE TypeOK'
  <2>1. PICK n \in 1..Len(received) :
          worker' = [worker EXCEPT ![i] =
                       [pc |-> "found", row |-> received[n],
                        attempts |-> inbox[received[n]].attempts + 1]]
    BY <1>3 DEF Find
  <2>2. received[n] \in Webhooks
    OBVIOUS
  <2>3. inbox[received[n]].attempts + 1 \in Nat
    BY <2>2 DEF Row
  <2>4. worker' \in [Instances -> Drain]
    BY <2>1, <2>2, <2>3 DEF Drain
  <2> QED
    BY <1>3, <2>4 DEF Find, inboxVars, busVars
<1>4. ASSUME NEW i \in Instances, Claim(i) PROVE TypeOK'
  <2> DEFINE w == worker[i].row
  <2>1. CASE Due(w) /\ w \in Webhooks
    <3>1. /\ inbox' = [inbox EXCEPT ![w] =
                 [status |-> "leased", attempts |-> worker[i].attempts, due |-> FALSE,
                  owner |-> i, lapsed |-> FALSE]]
          /\ claims' = [claims EXCEPT ![w] = @ + 1]
          /\ worker' = [worker EXCEPT ![i].pc = "dispatching"]
          /\ queue' = [queue EXCEPT ![i] = Append(@, w)]
      BY <1>4, <2>1 DEF Claim
    <3>2. inbox' \in [Webhooks -> Row]
      BY <3>1 DEF Row, RowStatus, Drain
    <3>3. claims' \in [Webhooks -> Nat]
      BY <2>1, <3>1
    <3>4. worker' \in [Instances -> Drain]
      BY <2>1, <3>1, DrainFields DEF Events
    <3>5. queue' \in [Instances -> Seq(Events)]
      BY <2>1, <3>1
    <3> QED
      BY <1>4, <3>2, <3>3, <3>4, <3>5 DEF Claim
  <2>2. CASE ~Due(w)
    <3>1. /\ worker' = [worker EXCEPT ![i] = Idle]
          /\ UNCHANGED <<inbox, claims, queue>>
      BY <1>4, <2>2 DEF Claim
    <3>2. worker' \in [Instances -> Drain]
      BY <3>1
    <3> QED
      BY <1>4, <3>1, <3>2 DEF Claim
  <2>3. w \in Webhooks
    BY <1>4, <1>held DEF Claim
  <2> QED
    BY <2>1, <2>2, <2>3
<1>5. ASSUME NEW i \in Instances,
             Complete(i) \/ CompleteFails(i) \/ GiveUpOrRetry(i) \/ OutcomeLost(i) \/ Renew(i)
      PROVE  TypeOK'
  <2> DEFINE w == worker[i].row
  <2>1. inbox' \in [Webhooks -> Row]
    <3>1. \/ inbox' = inbox \/ inbox' = [inbox EXCEPT ![w].lapsed = FALSE]
          \/ \E s \in {"processed", "dead", "retry"} :
               inbox' = [inbox EXCEPT ![w].status = s, ![w].owner = Nobody, ![w].lapsed = FALSE]
      BY <1>5 DEF Complete, CompleteFails, GiveUpOrRetry, OutcomeLost, Renew, Settled, inboxVars
    <3>2. [inbox EXCEPT ![w].lapsed = FALSE] \in [Webhooks -> Row]
      BY RowFields DEF RowStatus
    <3>3. ASSUME NEW s \in {"processed", "dead", "retry"},
                 inbox' = [inbox EXCEPT ![w].status = s, ![w].owner = Nobody,
                                        ![w].lapsed = FALSE]
          PROVE  inbox' \in [Webhooks -> Row]
      <4> DEFINE one == [inbox EXCEPT ![w].status = s]
                 two == [one EXCEPT ![w].owner = Nobody]
      <4>1. one \in [Webhooks -> Row]
        BY RowFields DEF RowStatus
      <4> HIDE DEF one
      <4>2. two \in [Webhooks -> Row]
        BY <4>1, RowFields DEF RowStatus
      <4> HIDE DEF two
      <4>3. [two EXCEPT ![w].lapsed = FALSE] \in [Webhooks -> Row]
        BY <4>2, RowFields DEF RowStatus
      <4> QED
        BY <3>3, <4>3 DEF one, two
    <3> QED
      BY <3>1, <3>2, <3>3
  <2>2. worker' \in [Instances -> Drain]
    <3>1. \/ worker' = worker \/ worker' = [worker EXCEPT ![i] = Idle]
          \/ /\ worker[i].pc # "idle"
             /\ worker' = [worker EXCEPT ![i].pc = "failed"]
      BY <1>5 DEF Complete, CompleteFails, GiveUpOrRetry, OutcomeLost, Renew
    <3>2. CASE /\ worker[i].pc # "idle"
               /\ worker' = [worker EXCEPT ![i].pc = "failed"]
      <4>1. worker[i].row # Nobody
        BY <1>held, <3>2 DEF Events
      <4> QED
        BY <3>2, <4>1, DrainFields
    <3> QED
      BY <3>1, <3>2
  <2>3. faults' \in 0..MaxFaults /\ UNCHANGED <<answered, received, claims, busVars>>
    BY <1>5 DEF Complete, CompleteFails, GiveUpOrRetry, OutcomeLost, Renew, Fault,
       inboxVars
  <2> QED
    BY <2>1, <2>2, <2>3 DEF busVars
<1>6. ASSUME NEW i \in Instances, NEW e \in Emissions, Emit(i, e) PROVE TypeOK'
  <2>1. queue' \in [Instances -> Seq(Events)]
    BY <1>6 DEF Emit, Events
  <2> QED
    BY <1>6, <2>1 DEF Emit, inboxVars
<1>7. ASSUME NEW i \in Instances, NEW outcome \in {"done", "failed"}, queue[i] # << >>,
             Resolve(i, outcome)
      PROVE  /\ queue' \in [Instances -> Seq(Events)]
             /\ ingest' \in [Instances -> Turn] /\ worker' \in [Instances -> Drain]
  <2>1. \/ worker' = worker
        \/ worker[i].row # Nobody /\ worker' = [worker EXCEPT ![i].pc = outcome]
    BY <1>7 DEF Resolve
  <2>2. worker' \in [Instances -> Drain]
    <3>1. CASE worker[i].row # Nobody /\ worker' = [worker EXCEPT ![i].pc = outcome]
      <4>1. outcome \in {"idle", "found", "dispatching", "done", "failed"}
        OBVIOUS
      <4> QED
        BY <3>1, <4>1, DrainFields
    <3> QED
      BY <2>1, <3>1
  <2>3. queue' \in [Instances -> Seq(Events)] /\ ingest' \in [Instances -> Turn]
    BY <1>7 DEF Resolve
  <2> QED
    BY <2>2, <2>3
<1>8. ASSUME NEW i \in Instances, Ingest(i) PROVE TypeOK'
  <2> DEFINE e == Head(queue[i])
             s == StatusOf[e]
  <2>1. queue[i] # << >> /\ e \in Events /\ s \in Statuses
    BY <1>8 DEF Ingest, Statuses
  <2>2. recorded' \subseteq Statuses /\ pushed' \subseteq Statuses \cap Terminal
    BY <1>8, <2>1 DEF Ingest
  <2>3. log' \in Seq(Statuses) /\ IsInjective(log')
    <3>1. log' = log \/ (~Contains(log, s) /\ log' = Append(log, s))
      BY <1>8 DEF Ingest, Logged
    <3> QED
      <4>1. log \in Seq(Statuses) /\ IsInjective(log)
        OBVIOUS
      <4>2. CASE ~Contains(log, s) /\ log' = Append(log, s)
        BY <2>1, <4>1, <4>2, LogGrows
      <4> QED
        BY <3>1, <4>1, <4>2
  <2>4. CASE ingest[i].step = LastStep
    <3>1. Resolve(i, "done") /\ fanned' = fanned \cup {e}
      BY <1>8, <2>4 DEF Ingest
    <3>2. /\ queue' \in [Instances -> Seq(Events)]
          /\ ingest' \in [Instances -> Turn] /\ worker' \in [Instances -> Drain]
      BY <1>7, <2>1, <3>1
    <3> QED
      BY <1>8, <2>1, <2>2, <2>3, <3>1, <3>2 DEF Ingest, inboxVars
  <2>5. CASE ingest[i].step # LastStep
    <3>1. ingest' = [ingest EXCEPT ![i].step = @ + 1] /\ UNCHANGED <<fanned, queue, worker>>
      BY <1>8, <2>5 DEF Ingest
    <3>2. LastStep = 3
      BY DEF LastStep, Ingestors
    <3>3. ingest' \in [Instances -> Turn]
      <4>1. [ingest[i] EXCEPT !.step = @ + 1] \in Turn
        <5>1. ingest[i] \in Turn /\ ingest[i].step < 3
          BY <2>5, <3>2 DEF Turn
        <5>2. ingest[i].step + 1 \in 1..3
          BY <5>1 DEF Turn
        <5> QED
          BY <5>1, <5>2 DEF Turn
      <4> QED
        BY <3>1, <4>1
    <3> QED
      BY <1>8, <2>2, <2>3, <3>1, <3>3 DEF Ingest, inboxVars
  <2> QED
    BY <2>4, <2>5
<1>9. ASSUME NEW i \in Instances, IngestFails(i) PROVE TypeOK'
  <2>1. faults' \in 0..MaxFaults
    BY <1>9 DEF IngestFails, Fault
  <2>2. CASE ingest[i].attempt < IngestAttempts
    <3>1. /\ ingest' = [ingest EXCEPT ![i] = [attempt |-> ingest[i].attempt + 1, step |-> 1]]
          /\ UNCHANGED <<queue, worker>>
      BY <1>9, <2>2 DEF IngestFails
    <3>2. ingest' \in [Instances -> Turn]
      BY <2>2, <3>1 DEF Turn
    <3> QED
      BY <1>9, <2>1, <3>1, <3>2 DEF IngestFails, inboxVars
  <2>3. CASE ~(ingest[i].attempt < IngestAttempts)
    <3>1. Resolve(i, "failed") /\ queue[i] # << >>
      BY <1>9, <2>3 DEF IngestFails, Exhausted
    <3> QED
      BY <1>7, <1>9, <2>1, <3>1 DEF IngestFails, inboxVars
  <2> QED
    BY <2>2, <2>3
<1>10. ASSUME NEW i \in Instances, Crash(i) PROVE TypeOK'
  <2>1. inbox' \in [Webhooks -> Row]
    <3>1. \A r \in Row : [r EXCEPT !.owner = Nobody] \in Row
      BY DEF Row
    <3> QED
      BY <1>10, <3>1 DEF Crash
  <2>2. /\ queue' \in [Instances -> Seq(Events)]
        /\ ingest' \in [Instances -> Turn] /\ worker' \in [Instances -> Drain]
    BY <1>10 DEF Crash
  <2> QED
    BY <1>10, <2>1, <2>2 DEF Crash, Fault
<1>11. CASE UNCHANGED vars
  BY <1>11 DEF vars, inboxVars, busVars
<1> QED
  BY <1>1, <1>2, <1>3, <1>4, <1>5, <1>6, <1>8, <1>9, <1>10, <1>11 DEF Next

-----------------------------------------------------------------------------
(* What is written stays written.                                          *)

\* What the ingestors have persisted stays persisted.
LEMMA PersistedGrows ==
  ASSUME TypeOK, NEW s, recorded \subseteq recorded', pushed \subseteq pushed',
         log' = log \/ \E t \in Statuses : log' = Append(log, t), Persisted(s)
  PROVE  Persisted(s)'
<1>1. s \in recorded' /\ (s \in Terminal => s \in pushed')
  BY DEF Persisted
<1>2. Contains(log', s)
  <2>1. CASE log' = log
    BY <2>1 DEF Persisted
  <2>2. ASSUME NEW t \in Statuses, log' = Append(log, t) PROVE Contains(log', s)
    <3>1. PICK n \in 1..Len(log) : log[n] = s
      BY DEF Persisted, Contains
    <3>2. n \in 1..Len(log') /\ log'[n] = s
      BY <2>2, <3>1 DEF TypeOK
    <3> QED
      BY <3>2 DEF Contains
  <2> QED
    BY <2>1, <2>2
<1> QED
  BY <1>1, <1>2 DEF Persisted

-----------------------------------------------------------------------------
(* The inductive invariant.                                                *)

\* An event that joins a queue is not ingested before its head.
LEMMA HeadKept ==
  ASSUME ingest \in [Instances -> Turn], NEW j \in Instances, HeadPersisted(j),
         queue[j] # << >> => queue'[j] # << >> /\ Head(queue'[j]) = Head(queue[j]),
         ingest'[j] = ingest[j], UNCHANGED <<recorded, pushed>>
  PROVE  HeadPersisted(j)'
<1>1. ingest[j].step \in 1..3
  BY DEF Turn
<1>2. CASE queue[j] = << >>
  <2>1. ingest[j].step = 1
    BY <1>1, <1>2 DEF HeadPersisted
  <2> QED
    BY <2>1 DEF HeadPersisted
<1>3. CASE queue[j] # << >>
  BY <1>3 DEF HeadPersisted
<1> QED
  BY <1>2, <1>3

\* Nothing is leased, queued or dispatched at the start.
LEMMA InitInv == Init => BusInv
BY InitType, BusAssumption
   DEF Init, BusInv, HeadPersisted, OneDispatched, AttemptsCounted, DonePersisted,
       ProcessedIsPersisted, DeadIsSpent, Idle, Fresh

\* The inductive step, one action at a time.
LEMMA InvStep == BusInv /\ [Next]_vars => BusInv'
<1> SUFFICES ASSUME BusInv, [Next]_vars PROVE BusInv'
  OBVIOUS
<1>type. TypeOK /\ TypeOK'
  BY TypeStep DEF BusInv
<1>fun. /\ inbox \in [Webhooks -> Row] /\ claims \in [Webhooks -> Nat]
        /\ worker \in [Instances -> Drain] /\ queue \in [Instances -> Seq(Events)]
        /\ ingest \in [Instances -> Turn] /\ Webhooks \subseteq Events
        /\ received \in Seq(Webhooks)
        /\ inbox' \in [Webhooks -> Row] /\ claims' \in [Webhooks -> Nat]
  BY <1>type DEF TypeOK, Events
<1>i. \A j \in Instances :
        HeadPersisted(j) /\ OneDispatched(j) /\ AttemptsCounted(j) /\ DonePersisted(j)
  BY DEF BusInv
<1>w. \A v \in Webhooks : /\ inbox[v].attempts <= claims[v]
                          /\ inbox[v].status = "processed" => Persisted(StatusOf[v])
                          /\ inbox[v].status = "dead" => claims[v] >= MaxAttempts
  BY DEF BusInv, ProcessedIsPersisted, DeadIsSpent
<1>f. \A e \in fanned : Persisted(StatusOf[e])
  BY DEF BusInv, ProcessedIsPersisted
<1> USE <1>fun, BusAssumption
<1>1. ASSUME UNCHANGED <<claims, busVars, worker>>,
             \A v \in Webhooks :
               /\ inbox'[v].attempts = inbox[v].attempts
               /\ inbox'[v].status \in {"processed", "dead"} =>
                    inbox[v].status = inbox'[v].status
      PROVE  BusInv'
  <2>1. \A s : Persisted(s)' <=> Persisted(s)
    BY <1>1 DEF Persisted, busVars
  <2>2. \A j \in Instances : /\ HeadPersisted(j)' /\ OneDispatched(j)'
                             /\ AttemptsCounted(j)' /\ DonePersisted(j)'
    BY <1>1, <1>i, <2>1
       DEF HeadPersisted, OneDispatched, AttemptsCounted, DonePersisted, busVars
  <2>3. ProcessedIsPersisted' /\ DeadIsSpent'
    BY <1>1, <1>w, <1>f, <2>1 DEF ProcessedIsPersisted, DeadIsSpent, busVars
  <2>4. \A v \in Webhooks : inbox'[v].attempts <= claims'[v]
    BY <1>1, <1>w DEF Row
  <2> QED
    BY <1>type, <2>2, <2>3, <2>4 DEF BusInv
<1>2. ASSUME NEW w \in Webhooks, NEW stored \in BOOLEAN, NEW told \in BOOLEAN,
             Receive(w, stored, told)
      PROVE  BusInv'
  <2>1. UNCHANGED <<claims, busVars, worker>>
    BY <1>2 DEF Receive
  <2>2. \/ inbox' = inbox
        \/ inbox[w].status = "none" /\ inbox' = [inbox EXCEPT ![w].status = "pending"]
    BY <1>2 DEF Receive
  <2> QED
    BY <1>1, <2>1, <2>2 DEF Row
<1>3. ASSUME NEW w \in Webhooks, BackoffOver(w) \/ Lapse(w) PROVE BusInv'
  <2>1. UNCHANGED <<claims, busVars, worker>>
    BY <1>3 DEF BackoffOver, Lapse
  <2>2. \/ inbox' = [inbox EXCEPT ![w].due = TRUE]
        \/ inbox' = [inbox EXCEPT ![w].lapsed = TRUE]
    BY <1>3 DEF BackoffOver, Lapse
  <2>3. CASE inbox' = [inbox EXCEPT ![w].due = TRUE]
    BY <1>1, <2>1, <2>3 DEF Row
  <2>4. CASE inbox' = [inbox EXCEPT ![w].lapsed = TRUE]
    <3>1. \A v \in Webhooks : /\ inbox'[v].attempts = inbox[v].attempts
                              /\ inbox'[v].status = inbox[v].status
      BY <2>4, LapsedRow, TRUE \in BOOLEAN
    <3> QED
      BY <1>1, <2>1, <3>1
  <2> QED
    BY <2>2, <2>3, <2>4
<1>4. ASSUME NEW i \in Instances, Renew(i) PROVE BusInv'
  <2>1. UNCHANGED <<claims, busVars, worker>>
    BY <1>4 DEF Renew
  <2>2. inbox' = [inbox EXCEPT ![worker[i].row].lapsed = FALSE]
    BY <1>4 DEF Renew
  <2>3. \A v \in Webhooks : /\ inbox'[v].attempts = inbox[v].attempts
                            /\ inbox'[v].status = inbox[v].status
    BY <2>2, LapsedRow, FALSE \in BOOLEAN
  <2> QED
    BY <1>1, <2>1, <2>3
<1>5. ASSUME NEW i \in Instances, Find(i) PROVE BusInv'
  <2>1. PICK n \in 1..Len(received) :
          worker' = [worker EXCEPT ![i] =
                       [pc |-> "found", row |-> received[n],
                        attempts |-> inbox[received[n]].attempts + 1]]
    BY <1>5 DEF Find
  <2>2. received[n] \in Webhooks /\ worker[i].pc = "idle" /\ UNCHANGED <<inboxVars, busVars>>
    BY <1>5 DEF Find
  <2>3. \A s : Persisted(s)' <=> Persisted(s)
    BY <2>2 DEF Persisted, busVars
  <2>4. ASSUME NEW j \in Instances
        PROVE  HeadPersisted(j)' /\ OneDispatched(j)' /\ AttemptsCounted(j)' /\ DonePersisted(j)'
    BY <2>1, <2>2, <2>3, <1>i, <1>w
       DEF HeadPersisted, OneDispatched, AttemptsCounted, DonePersisted, inboxVars, busVars, Row
  <2>5. ProcessedIsPersisted' /\ DeadIsSpent'
    BY <2>2, <2>3, <1>w, <1>f DEF ProcessedIsPersisted, DeadIsSpent, inboxVars, busVars
  <2>6. \A v \in Webhooks : inbox'[v].attempts <= claims'[v]
    BY <2>2, <1>w DEF inboxVars
  <2> QED
    BY <1>type, <2>4, <2>5, <2>6 DEF BusInv
<1>6. ASSUME NEW i \in Instances, Claim(i), Due(worker[i].row) PROVE BusInv'
  <2> DEFINE w == worker[i].row
  <2>1. /\ worker[i].pc = "found" /\ w \in Webhooks
        /\ worker[i].attempts <= claims[w] + 1
    BY <1>6, <1>i DEF Claim, AttemptsCounted, Drain
  <2>2. /\ inbox' = [inbox EXCEPT ![w] =
               [status |-> "leased", attempts |-> worker[i].attempts, due |-> FALSE,
                owner |-> i, lapsed |-> FALSE]]
        /\ claims' = [claims EXCEPT ![w] = @ + 1]
        /\ worker' = [worker EXCEPT ![i].pc = "dispatching"]
        /\ queue' = [queue EXCEPT ![i] = Append(@, w)]
        /\ UNCHANGED <<ingest, recorded, pushed, log, fanned>>
    BY <1>6 DEF Claim
  <2>3. \A s : Persisted(s)' <=> Persisted(s)
    BY <2>2 DEF Persisted
  <2>4. ASSUME NEW j \in Instances PROVE HeadPersisted(j)'
    <3>1. queue[j] # << >> => queue'[j] # << >> /\ Head(queue'[j]) = Head(queue[j])
      BY <2>1, <2>2, AppendKeeps
    <3>2. ingest'[j] = ingest[j] /\ UNCHANGED <<recorded, pushed>> /\ HeadPersisted(j)
      BY <2>2, <1>i
    <3> QED
      BY <3>1, <3>2, HeadKept
  <2>5. ASSUME NEW j \in Instances PROVE OneDispatched(j)'
    <3>1. CASE j # i
      BY <2>2, <3>1, <1>i DEF OneDispatched
    <3>2. CASE j = i
      <4>1. \A m \in 1..Len(queue[i]) : queue[i][m] \notin Webhooks
        BY <2>1, <1>i DEF OneDispatched
      <4>2. /\ Len(queue'[i]) = Len(queue[i]) + 1
            /\ queue'[i][Len(queue[i]) + 1] = w
            /\ \A m \in 1..Len(queue[i]) : queue'[i][m] = queue[i][m]
        BY <2>1, <2>2, AppendKeeps
      <4>3. worker'[i].pc = "dispatching" /\ worker'[i].row = w
        BY <2>2 DEF Drain
      <4>4. ASSUME NEW m \in 1..Len(queue'[i]), queue'[i][m] \in Webhooks
            PROVE  m = Len(queue[i]) + 1
        <5>1. m \notin 1..Len(queue[i])
          BY <4>1, <4>2, <4>4
        <5>2. Len(queue[i]) \in Nat
          OBVIOUS
        <5> QED
          BY <4>2, <5>1, <5>2
      <4> QED
        BY <3>2, <4>2, <4>3, <4>4 DEF OneDispatched
    <3> QED
      BY <3>1, <3>2
  <2>6. ASSUME NEW j \in Instances PROVE AttemptsCounted(j)' /\ DonePersisted(j)'
    BY <2>1, <2>2, <2>3, <1>i DEF AttemptsCounted, DonePersisted, Drain
  <2>7. ProcessedIsPersisted' /\ DeadIsSpent'
    BY <2>1, <2>2, <2>3, <1>w, <1>f DEF ProcessedIsPersisted, DeadIsSpent
  <2>8. \A v \in Webhooks : inbox'[v].attempts <= claims'[v]
    BY <2>1, <2>2, <1>w
  <2> QED
    BY <1>type, <2>4, <2>5, <2>6, <2>7, <2>8 DEF BusInv
<1>7. ASSUME NEW i \in Instances,
             \/ Claim(i) /\ ~Due(worker[i].row)
             \/ OutcomeLost(i) \/ CompleteFails(i) \/ Complete(i) \/ GiveUpOrRetry(i)
      PROVE  BusInv'
  <2> DEFINE w == worker[i].row
  <2>1. /\ worker[i].pc \in {"found", "done", "failed"}
        /\ \/ worker' = [worker EXCEPT ![i] = Idle]
           \/ /\ worker[i].pc = "done"
              /\ worker' = [worker EXCEPT ![i].pc = "failed"]
        /\ UNCHANGED <<claims, busVars>>
    BY <1>7 DEF Claim, OutcomeLost, CompleteFails, Complete, GiveUpOrRetry, inboxVars, busVars
  <2>2. w \in Webhooks
    BY <2>1 DEF Drain
  <2>3. \/ inbox' = inbox
        \/ \E s \in RowStatus :
             /\ Settled(i, w, s)
             /\ s = "processed" => worker[i].pc = "done"
             /\ s = "dead" => worker[i].pc = "failed" /\ Spent(worker[i].attempts)
    BY <1>7 DEF Claim, OutcomeLost, CompleteFails, Complete, GiveUpOrRetry, inboxVars, RowStatus
  <2>4. \A s : Persisted(s)' <=> Persisted(s)
    BY <2>1 DEF Persisted, busVars
  <2>5. ASSUME NEW j \in Instances
        PROVE  HeadPersisted(j)' /\ OneDispatched(j)' /\ AttemptsCounted(j)' /\ DonePersisted(j)'
    <3>1. HeadPersisted(j)'
      BY <2>1, <1>i DEF HeadPersisted, busVars
    <3>2. OneDispatched(j)'
      BY <2>1, <1>i DEF OneDispatched, busVars
    <3>3. \/ worker'[j] = worker[j] \/ worker'[j].pc = "idle"
          \/ /\ worker[j].pc = "done" /\ worker'[j].pc = "failed"
             /\ worker'[j].row = worker[j].row /\ worker'[j].attempts = worker[j].attempts
      BY <2>1 DEF Drain, Idle
    <3>4. AttemptsCounted(j)'
      BY <2>1, <3>3, <1>i DEF AttemptsCounted
    <3>5. DonePersisted(j)'
      BY <2>4, <3>3, <1>i DEF DonePersisted
    <3> QED
      BY <3>1, <3>2, <3>4, <3>5
  <2>6. \A v \in Webhooks : inbox'[v].attempts = inbox[v].attempts
    <3>1. CASE inbox' = inbox
      BY <3>1
    <3>2. ASSUME NEW s \in RowStatus, Settled(i, w, s)
          PROVE  \A v \in Webhooks : inbox'[v].attempts = inbox[v].attempts
      BY <2>2, <3>2, SettledRow
    <3> QED
      BY <2>3, <3>1, <3>2
  <2>7. ASSUME NEW v \in Webhooks
        PROVE  /\ inbox'[v].status = "processed" => Persisted(StatusOf[v])
               /\ inbox'[v].status = "dead" => claims[v] >= MaxAttempts
    <3>1. CASE inbox'[v].status = inbox[v].status
      BY <3>1, <1>w
    <3>2. CASE inbox'[v].status # inbox[v].status
      <4>1. /\ v = w
            /\ inbox'[v].status = "processed" => worker[i].pc = "done"
            /\ inbox'[v].status = "dead" => worker[i].pc = "failed" /\ Spent(worker[i].attempts)
        <5>1. PICK s \in RowStatus :
                /\ Settled(i, w, s)
                /\ s = "processed" => worker[i].pc = "done"
                /\ s = "dead" => worker[i].pc = "failed" /\ Spent(worker[i].attempts)
          BY <2>3, <3>2
        <5>2. v = w /\ inbox'[v].status = s
          BY <3>2, <2>2, <5>1, SettledRow
        <5> QED
          BY <3>2, <5>1, <5>2
      <4>2. worker[i].attempts \in Nat /\ claims[w] \in Nat
        BY <2>2 DEF Drain
      <4>3. worker[i].pc = "failed" => worker[i].attempts <= claims[w]
        <5>1. AttemptsCounted(i)
          BY <1>i
        <5> QED
          BY <4>2, <5>1 DEF AttemptsCounted
      <4>4. Spent(worker[i].attempts) /\ worker[i].attempts <= claims[w] =>
              claims[w] >= MaxAttempts
        BY <4>2 DEF Spent
      <4> QED
        BY <4>1, <4>3, <4>4, <1>i DEF DonePersisted
    <3> QED
      BY <3>1, <3>2
  <2>8. ProcessedIsPersisted' /\ DeadIsSpent'
    BY <2>1, <2>4, <2>7, <1>f DEF ProcessedIsPersisted, DeadIsSpent, busVars
  <2>9. \A v \in Webhooks : inbox'[v].attempts <= claims'[v]
    BY <2>1, <2>6, <1>w
  <2> QED
    BY <1>type, <2>5, <2>8, <2>9 DEF BusInv
<1>8. ASSUME NEW i \in Instances, NEW e \in Emissions, Emit(i, e) PROVE BusInv'
  <2>1. /\ queue' = [queue EXCEPT ![i] = Append(@, e)] /\ e \in Events /\ e \notin Webhooks
        /\ UNCHANGED <<inboxVars, worker, ingest, recorded, pushed, log, fanned>>
    BY <1>8 DEF Emit, Events
  <2>2. \A s : Persisted(s)' <=> Persisted(s)
    BY <2>1 DEF Persisted
  <2>3. ASSUME NEW j \in Instances PROVE HeadPersisted(j)'
    <3>1. queue[j] # << >> => queue'[j] # << >> /\ Head(queue'[j]) = Head(queue[j])
      BY <2>1, AppendKeeps
    <3>2. ingest'[j] = ingest[j] /\ UNCHANGED <<recorded, pushed>> /\ HeadPersisted(j)
      BY <2>1, <1>i
    <3> QED
      BY <3>1, <3>2, HeadKept
  <2>4. ASSUME NEW j \in Instances PROVE OneDispatched(j)'
    <3>1. CASE j # i
      BY <2>1, <3>1, <1>i DEF OneDispatched
    <3>2. CASE j = i
      <4>1. /\ Len(queue'[i]) = Len(queue[i]) + 1
            /\ queue'[i][Len(queue[i]) + 1] = e
            /\ \A m \in 1..Len(queue[i]) : queue'[i][m] = queue[i][m]
        BY <2>1, AppendKeeps
      <4> QED
        BY <2>1, <3>2, <4>1, <1>i DEF OneDispatched
    <3> QED
      BY <3>1, <3>2
  <2>5. ASSUME NEW j \in Instances PROVE AttemptsCounted(j)' /\ DonePersisted(j)'
    BY <2>1, <2>2, <1>i DEF AttemptsCounted, DonePersisted, inboxVars
  <2>6. ProcessedIsPersisted' /\ DeadIsSpent'
    BY <2>1, <2>2, <1>w, <1>f DEF ProcessedIsPersisted, DeadIsSpent, inboxVars
  <2>7. \A v \in Webhooks : inbox'[v].attempts <= claims'[v]
    BY <2>1, <1>w DEF inboxVars
  <2> QED
    BY <1>type, <2>3, <2>4, <2>5, <2>6, <2>7 DEF BusInv
\* What the workers and queues owe after the head has left its queue.
<1>9. ASSUME NEW i \in Instances, NEW outcome \in {"done", "failed"}, queue[i] # << >>,
             Resolve(i, outcome), UNCHANGED claims,
             \A s : Persisted(s) => Persisted(s)',
             \A s : s \in recorded => s \in recorded', \A s : s \in pushed => s \in pushed',
             NEW t, t = StatusOf[Head(queue[i])], outcome = "done" => Persisted(t)',
             NEW j \in Instances
      PROVE  HeadPersisted(j)' /\ OneDispatched(j)' /\ AttemptsCounted(j)' /\ DonePersisted(j)'
  <2> DEFINE e == Head(queue[i])
  <2>1. /\ queue' = [queue EXCEPT ![i] = Tail(@)] /\ ingest' = [ingest EXCEPT ![i] = Fresh]
        /\ worker' = IF e = worker[i].row THEN [worker EXCEPT ![i].pc = outcome] ELSE worker
    BY <1>9 DEF Resolve
  <2>2. e = queue[i][1] /\ e \in Events /\ 1 \in 1..Len(queue[i])
    BY <1>9
  <2>3. ASSUME e = worker[i].row
        PROVE  /\ e \in Webhooks /\ worker[i].pc = "dispatching"
               /\ \A n \in 1..Len(queue[i]) : queue[i][n] = e => n = 1
    BY <2>2, <2>3, <1>i DEF OneDispatched, Drain
  <2>4. HeadPersisted(j)'
    BY <1>9, <2>1, <1>i DEF HeadPersisted, Fresh
  <2>5. OneDispatched(j)'
    <3>1. CASE j # i
      BY <2>1, <3>1, <1>i DEF OneDispatched
    <3>2. CASE j = i
      <4>1. /\ Len(queue'[i]) = Len(queue[i]) - 1
            /\ \A m \in 1..Len(queue'[i]) :
                 m + 1 \in 1..Len(queue[i]) /\ queue'[i][m] = queue[i][m + 1]
        BY <1>9, <2>1
      <4>2. ASSUME NEW m \in 1..Len(queue'[i]), queue'[i][m] \in Webhooks
            PROVE  /\ worker'[i].pc = "dispatching" /\ worker'[i].row = queue'[i][m]
                   /\ \A n \in 1..Len(queue'[i]) : queue'[i][n] = queue'[i][m] => n = m
        <5>1. /\ worker[i].pc = "dispatching" /\ worker[i].row = queue[i][m + 1]
              /\ \A n \in 1..Len(queue[i]) : queue[i][n] = queue[i][m + 1] => n = m + 1
          BY <4>1, <4>2, <1>i DEF OneDispatched
        <5>2. e # worker[i].row
          BY <2>2, <5>1
        <5> QED
          BY <2>1, <4>1, <5>1, <5>2
      <4> QED
        BY <3>2, <4>2 DEF OneDispatched
    <3> QED
      BY <3>1, <3>2
  <2>6. AttemptsCounted(j)'
    BY <1>9, <2>1, <2>3, <1>i DEF AttemptsCounted, Drain
  <2>7. DonePersisted(j)'
    <3>1. CASE j = i /\ e = worker[i].row
      <4>1. worker'[j].pc = outcome /\ worker'[j].row = e
        BY <2>1, <3>1 DEF Drain
      <4> QED
        BY <1>9, <4>1 DEF DonePersisted
    <3>2. CASE ~(j = i /\ e = worker[i].row)
      <4>1. worker'[j] = worker[j]
        BY <2>1, <3>2
      <4> QED
        BY <1>9, <4>1, <1>i DEF DonePersisted
    <3> QED
      BY <3>1, <3>2
  <2> QED
    BY <2>4, <2>5, <2>6, <2>7
<1>10. ASSUME NEW i \in Instances, Ingest(i) PROVE BusInv'
  <2> DEFINE e == Head(queue[i])
             step == ingest[i].step
  <2>s. PICK s \in Statuses : s = StatusOf[e]
    BY <1>10 DEF Ingest, Statuses
  <2>1. /\ queue[i] # << >> /\ e \in Events
        /\ recorded' = IF step = 1 THEN recorded \cup {s} ELSE recorded
        /\ pushed' = IF step = 2 /\ s \in Terminal THEN pushed \cup {s} ELSE pushed
        /\ log' = IF step = 3 /\ ~Contains(log, s) THEN Append(log, s) ELSE log
        /\ step \in 1..3 /\ LastStep = 3
        /\ UNCHANGED inboxVars
    BY <1>10, <2>s DEF Ingest, Ingestors, LastStep, Logged, Turn
  <2>2. /\ recorded \subseteq recorded' /\ pushed \subseteq pushed'
        /\ log' = log \/ \E t \in Statuses : log' = Append(log, t)
    BY <2>1
  <2>3. \A t : Persisted(t) => Persisted(t)'
    BY <2>2, <1>type, PersistedGrows
  <2>4. CASE step = 3
    <3>1. Resolve(i, "done") /\ fanned' = fanned \cup {e}
      BY <1>10, <2>1, <2>4 DEF Ingest
    <3>2. Persisted(s)'
      <4>1. s \in recorded /\ (s \in Terminal => s \in pushed)
        BY <2>s, <2>1, <2>4, <1>i DEF HeadPersisted
      <4>2. Contains(log, s)'
        <5>1. CASE Contains(log, s)
          BY <2>1, <5>1
        <5>2. CASE ~Contains(log, s)
          <6>1. log' = Append(log, s) /\ log \in Seq(Statuses)
            BY <2>1, <2>4, <5>2, <1>type DEF TypeOK
          <6>2. Len(log) + 1 \in 1..Len(log') /\ log'[Len(log) + 1] = s
            BY <2>s, <6>1
          <6> QED
            BY <6>2 DEF Contains
        <5> QED
          BY <5>1, <5>2
      <4> QED
        BY <2>2, <4>1, <4>2 DEF Persisted
    <3>3. ASSUME NEW j \in Instances
          PROVE  HeadPersisted(j)' /\ OneDispatched(j)' /\ AttemptsCounted(j)' /\ DonePersisted(j)'
      BY <1>9, <2>s, <2>1, <2>2, <2>3, <3>1, <3>2 DEF inboxVars
    <3>4. ProcessedIsPersisted' /\ DeadIsSpent'
      BY <2>s, <2>1, <2>3, <3>1, <3>2, <1>w, <1>f DEF ProcessedIsPersisted, DeadIsSpent, inboxVars
    <3>5. \A v \in Webhooks : inbox'[v].attempts <= claims'[v]
      BY <2>1, <1>w DEF inboxVars
    <3> QED
      BY <1>type, <3>3, <3>4, <3>5 DEF BusInv
  <2>5. CASE step # 3
    <3>1. ingest' = [ingest EXCEPT ![i].step = @ + 1] /\ UNCHANGED <<fanned, queue, worker>>
      BY <1>10, <2>1, <2>5 DEF Ingest
    <3>2. ASSUME NEW j \in Instances PROVE HeadPersisted(j)'
      <4>1. CASE j # i
        BY <2>2, <3>1, <4>1, <1>i DEF HeadPersisted
      <4>2. CASE j = i
        <5>1. /\ queue'[j] = queue[i] /\ ingest'[j].step = step + 1
              /\ ingest'[j].step > 2 => step = 2
          BY <2>1, <2>5, <3>1, <4>2 DEF Turn
        <5>2. s \in recorded' /\ (step = 2 /\ s \in Terminal => s \in pushed')
          BY <2>s, <2>1, <2>2, <2>5, <1>i DEF HeadPersisted
        <5> QED
          BY <2>s, <2>1, <5>1, <5>2 DEF HeadPersisted
      <4> QED
        BY <4>1, <4>2
    <3>3. ASSUME NEW j \in Instances
          PROVE  OneDispatched(j)' /\ AttemptsCounted(j)' /\ DonePersisted(j)'
      BY <2>1, <2>3, <3>1, <1>i DEF OneDispatched, AttemptsCounted, DonePersisted, inboxVars
    <3>4. ProcessedIsPersisted' /\ DeadIsSpent'
      BY <2>1, <2>3, <3>1, <1>w, <1>f DEF ProcessedIsPersisted, DeadIsSpent, inboxVars
    <3>5. \A v \in Webhooks : inbox'[v].attempts <= claims'[v]
      BY <2>1, <1>w DEF inboxVars
    <3> QED
      BY <1>type, <3>2, <3>3, <3>4, <3>5 DEF BusInv
  <2> QED
    BY <2>4, <2>5
<1>11. ASSUME NEW i \in Instances, IngestFails(i) PROVE BusInv'
  <2>1. queue[i] # << >> /\ UNCHANGED <<inboxVars, recorded, pushed, log, fanned>>
    BY <1>11 DEF IngestFails
  <2>2. \A t : Persisted(t)' <=> Persisted(t)
    BY <2>1 DEF Persisted
  <2>3. ASSUME NEW j \in Instances
        PROVE  HeadPersisted(j)' /\ OneDispatched(j)' /\ AttemptsCounted(j)' /\ DonePersisted(j)'
    <3>1. CASE ingest[i].attempt < IngestAttempts
      <4>1. /\ ingest' = [ingest EXCEPT ![i] = [attempt |-> @.attempt + 1, step |-> 1]]
            /\ UNCHANGED <<queue, worker>>
        BY <1>11, <3>1 DEF IngestFails
      <4> QED
        BY <2>1, <2>2, <4>1, <1>i
           DEF HeadPersisted, OneDispatched, AttemptsCounted, DonePersisted, inboxVars
    <3>2. CASE ~(ingest[i].attempt < IngestAttempts)
      <4>1. Resolve(i, "failed")
        BY <1>11, <3>2 DEF IngestFails, Exhausted
      <4> QED
        BY <1>9, <2>1, <2>2, <4>1 DEF inboxVars
    <3> QED
      BY <3>1, <3>2
  <2>4. ProcessedIsPersisted' /\ DeadIsSpent'
    BY <2>1, <2>2, <1>w, <1>f DEF ProcessedIsPersisted, DeadIsSpent, inboxVars
  <2>5. \A v \in Webhooks : inbox'[v].attempts <= claims'[v]
    BY <2>1, <1>w DEF inboxVars
  <2> QED
    BY <1>type, <2>3, <2>4, <2>5 DEF BusInv
<1>12. ASSUME NEW i \in Instances, Crash(i) PROVE BusInv'
  <2>1. /\ worker' = [worker EXCEPT ![i] = Idle] /\ queue' = [queue EXCEPT ![i] = << >>]
        /\ ingest' = [ingest EXCEPT ![i] = Fresh]
        /\ UNCHANGED <<claims, recorded, pushed, log, fanned>>
    BY <1>12 DEF Crash
  <2>2. \A v \in Webhooks : /\ inbox'[v].status = inbox[v].status
                            /\ inbox'[v].attempts = inbox[v].attempts
    BY <1>12 DEF Crash, Row
  <2>3. \A t : Persisted(t)' <=> Persisted(t)
    BY <2>1 DEF Persisted
  <2>4. ASSUME NEW j \in Instances
        PROVE  HeadPersisted(j)' /\ OneDispatched(j)' /\ AttemptsCounted(j)' /\ DonePersisted(j)'
    BY <2>1, <2>3, <1>i
       DEF HeadPersisted, OneDispatched, AttemptsCounted, DonePersisted, Idle, Fresh
  <2>5. ProcessedIsPersisted' /\ DeadIsSpent'
    BY <2>1, <2>2, <2>3, <1>w, <1>f DEF ProcessedIsPersisted, DeadIsSpent
  <2>6. \A v \in Webhooks : inbox'[v].attempts <= claims'[v]
    BY <2>1, <2>2, <1>w
  <2> QED
    BY <1>type, <2>4, <2>5, <2>6 DEF BusInv
<1>13. CASE UNCHANGED vars
  BY <1>1, <1>13 DEF vars, inboxVars
<1> QED
  BY <1>2, <1>3, <1>4, <1>5, <1>6, <1>7, <1>8, <1>10, <1>11, <1>12, <1>13 DEF Next

-----------------------------------------------------------------------------
(* Of every behaviour.                                                     *)

\* The invariant holds in every reachable state.
LEMMA Invariant == Spec => []BusInv
BY InitInv, InvStep, PTL DEF Spec

\* The variables stay typed: a drain that is at work has a row, the event log
\* never holds an observation twice.
THEOREM TypeCorrect == Spec => []TypeOK
<1>1. BusInv => TypeOK
  BY DEF BusInv
<1> QED
  BY <1>1, Invariant, PTL

\* A webhook marked processed, and an event fanned out, has been written by
\* each ingestor, with any number of instances, failures, crashes and stalls.
THEOREM ProcessedWasPersisted == Spec => []ProcessedIsPersisted
<1>1. BusInv => ProcessedIsPersisted
  BY DEF BusInv
<1> QED
  BY <1>1, Invariant, PTL

\* A webhook is dead only once it was claimed MaxAttempts times.
THEOREM DeadWasSpent == Spec => []DeadIsSpent
<1>1. BusInv => DeadIsSpent
  BY DEF BusInv
<1> QED
  BY <1>1, Invariant, PTL

\* Only the holder of a leased row writes its outcome; a claim takes no
\* finished row.
LEMMA FinishedStep ==
  ASSUME TypeOK, [Next]_vars, NEW w \in Webhooks, inbox[w].status \in {"processed", "dead"}
  PROVE  inbox'[w].status = inbox[w].status
<1>1. inbox \in [Webhooks -> Row] /\ received \in Seq(Webhooks)
  BY DEF TypeOK
<1>2. CASE inbox' = inbox
  BY <1>2
<1>3. ASSUME NEW v \in Webhooks, NEW stored \in BOOLEAN, NEW told \in BOOLEAN,
             Receive(v, stored, told)
      PROVE  inbox'[w].status = inbox[w].status
  BY <1>1, <1>3 DEF Receive
<1>4. ASSUME NEW v \in Webhooks, BackoffOver(v) PROVE inbox'[w].status = inbox[w].status
  BY <1>1, <1>4 DEF BackoffOver
<1>5. ASSUME NEW v, inbox' = [inbox EXCEPT ![v].lapsed = TRUE]
             \/ inbox' = [inbox EXCEPT ![v].lapsed = FALSE]
      PROVE  inbox'[w].status = inbox[w].status
  BY <1>1, <1>5, LapsedRow, TRUE \in BOOLEAN, FALSE \in BOOLEAN
<1>6. ASSUME NEW i \in Instances, Claim(i), inbox' # inbox
      PROVE  inbox'[w].status = inbox[w].status
  <2>1. /\ Due(worker[i].row)
        /\ inbox' = [inbox EXCEPT ![worker[i].row] =
               [status |-> "leased", attempts |-> worker[i].attempts, due |-> FALSE,
                owner |-> i, lapsed |-> FALSE]]
    BY <1>6 DEF Claim
  <2>2. worker[i].row # w
    BY <2>1 DEF Due
  <2> QED
    BY <1>1, <2>1, <2>2
<1>7. ASSUME NEW i, NEW v, NEW s, Settled(i, v, s), inbox' # inbox
      PROVE  inbox'[w].status = inbox[w].status
  <2>1. /\ inbox[v].status = "leased"
        /\ inbox' = [inbox EXCEPT ![v].status = s, ![v].owner = Nobody, ![v].lapsed = FALSE]
    BY <1>7 DEF Settled, Holds
  <2>2. v # w
    BY <2>1
  <2> QED
    BY <1>1, <2>1, <2>2
<1>8. ASSUME NEW i \in Instances, Crash(i) PROVE inbox'[w].status = inbox[w].status
  BY <1>1, <1>8 DEF Crash, Row
<1>9. \/ inbox' = inbox
      \/ \E v \in Webhooks, stored, told \in BOOLEAN : Receive(v, stored, told)
      \/ \E v \in Webhooks : BackoffOver(v)
      \/ \E v : \/ inbox' = [inbox EXCEPT ![v].lapsed = TRUE]
                \/ inbox' = [inbox EXCEPT ![v].lapsed = FALSE]
      \/ \E i \in Instances : Claim(i) \/ Crash(i)
      \/ \E i, v, s : Settled(i, v, s)
  BY DEF Next, vars, inboxVars, Lapse, Find, Complete, CompleteFails, GiveUpOrRetry,
         OutcomeLost, Renew, Emit, Ingest, IngestFails
<1> QED
  BY <1>2, <1>3, <1>4, <1>5, <1>6, <1>7, <1>8, <1>9

\* A finished webhook stays finished, whatever a worker that lost it does.
THEOREM FinishedStaysFinal == Spec => FinishedIsFinal
<1>1. TypeOK /\ [Next]_vars =>
        [\A w \in Webhooks :
           inbox[w].status \in {"processed", "dead"} =>
             inbox'[w].status = inbox[w].status]_vars
  BY FinishedStep
<1> QED
  BY <1>1, TypeCorrect, PTL DEF Spec, FinishedIsFinal

=============================================================================
