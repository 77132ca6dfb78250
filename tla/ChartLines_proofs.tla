------------------------- MODULE ChartLines_proofs -------------------------
(***************************************************************************)
(* Proofs about ChartLines, for any lines, prices, instances and bounds.   *)
(***************************************************************************)
EXTENDS ChartLines, TLAPS

-----------------------------------------------------------------------------
(* Typing, part by part.                                                   *)

\* What TypeOK says of one actor's job, and of one line's row.
JobTyped(x, j) ==
    /\ j \in Job
    /\ j.at = Nobody => j.pc \in {"idle", "started"} \/ (x # Client /\ j.pc = "read")
    /\ j.pc = "moving" => j.at.arm # j.at.trigger
RowTyped(r) ==
    /\ r \in Row
    /\ r.arm # r.trigger
    /\ r.aged => r.status = "pending_fire"

JobsTyped == job \in [Actors -> Job] /\ \A x \in Actors : JobTyped(x, job[x])
RowsTyped == line \in [Ids -> Row] /\ \A l \in Ids : RowTyped(line[l])
PlacesTyped ==
    /\ knows \in [Ids -> SUBSET Actors]
    /\ audit \in [Ids -> {"none", "pending", "placed"}]
    /\ bought \subseteq Ids /\ unclear \subseteq Ids
MarksTyped == marked \subseteq Ids /\ slips \subseteq SlipKinds
WatchTyped ==
    /\ lease \in [holder : Instances \cup {Nobody}, lapsed : BOOLEAN]
    /\ obs \in [Instances -> Prices \cup {NoPrice}]
    /\ newer \in [Instances -> SUBSET Ids] /\ touched \in [Instances -> SUBSET Ids]
RestTyped ==
    /\ price \in Prices /\ home \in BOOLEAN /\ moves \in 0..MaxMoves /\ faults \in 0..MaxFaults

\* TypeOK is these parts.
LEMMA Parts ==
  TypeOK <=> JobsTyped /\ RowsTyped /\ PlacesTyped /\ MarksTyped /\ WatchTyped /\ RestTyped
BY DEF TypeOK, JobsTyped, RowsTyped, PlacesTyped, MarksTyped, WatchTyped, RestTyped, JobTyped,
       RowTyped

\* An actor that is at a line knows which.
LEMMA AtLine ==
  ASSUME TypeOK, NEW x \in Actors, job[x].pc \notin {"idle", "started"},
         x = Client \/ job[x].pc # "read"
  PROVE  job[x].at \in Sight /\ Current(x) \in Ids
<1>1. job[x] \in Job /\ job[x].at # Nobody
  BY DEF TypeOK
<1>2. job[x].at \in Sight
  BY <1>1 DEF Job
<1> QED
  BY <1>2 DEF Sight, Current

\* One actor's job changes.
LEMMA OneJob ==
  ASSUME TypeOK, NEW x \in Actors, NEW j, JobTyped(x, j), job' = [job EXCEPT ![x] = j]
  PROVE  JobsTyped'
<1>1. job \in [Actors -> Job] /\ \A y \in Actors : JobTyped(y, job[y])
  BY Parts DEF JobsTyped
<1>2. j \in Job
  BY DEF JobTyped
<1> QED
  BY <1>1, <1>2 DEF JobsTyped

\* An actor goes on with its line, or rests.
LEMMA DoTyped ==
  ASSUME TypeOK, NEW x \in Actors, NEW p \in Pcs \ {"moving"}, Do(x, p),
         p \in {"idle", "started"} \/ job[x].at # Nobody
  PROVE  JobsTyped'
<1> DEFINE j == [job[x] EXCEPT !.pc = p]
<1>1. job[x] \in Job /\ job' = [job EXCEPT ![x] = j]
  BY DEF TypeOK, Do
<1>2. j \in Job /\ j.at = job[x].at /\ j.pc = p
  BY <1>1 DEF Job
<1>3. JobTyped(x, j)
  BY <1>2 DEF JobTyped
<1> QED
  BY <1>1, <1>3, OneJob

\* An actor at rest is at no line.
LEMMA RestTypedJob ==
  ASSUME TypeOK, NEW x \in Actors, Rest(x)
  PROVE  JobsTyped'
<1>1. JobTyped(x, Idle)
  BY DEF JobTyped, Idle, Job, Pcs
<1> QED
  BY <1>1, OneJob DEF Rest

\* The next line to fire is one of those that are due.
LEMMA FireNextTyped ==
  ASSUME TypeOK, NEW x \in Actors, NEW due \in SUBSET Sight, FireNext(x, due)
  PROVE  JobsTyped'
<1>1. CASE Rest(x)
  BY <1>1, RestTypedJob
<1>2. ASSUME NEW s \in due,
             job' = [job EXCEPT ![x] = [pc |-> "firing", at |-> s, todo |-> due \ {s},
                                        outcome |-> "none"]]
      PROVE  JobsTyped'
  <2>1. JobTyped(x, [pc |-> "firing", at |-> s, todo |-> due \ {s}, outcome |-> "none"])
    BY NobodyAssumption DEF JobTyped, Job, Pcs
  <2> QED
    BY <1>2, <2>1, OneJob
<1> QED
  BY <1>1, <1>2 DEF FireNext

\* The rest of a check is still a check.
LEMMA NextLineTyped ==
  ASSUME TypeOK, NEW x \in Actors, NextLine(x)
  PROVE  JobsTyped'
<1>1. job[x].todo \in SUBSET Sight
  BY DEF TypeOK, Job
<1> QED
  BY <1>1, FireNextTyped DEF NextLine

\* A reading of a line.
LEMMA SnapshotTyped ==
  ASSUME TypeOK
  PROVE  /\ \A l \in Ids, from \in Prices \cup {NoPrice} : Snapshot(l, from) \in Sight
         /\ \A i \in Instances, l \in Ids : Reference(i, l) \in Prices \cup {NoPrice}
         /\ \A l \in Ids : line[l].arm \in Prices /\ line[l].trigger \in Prices
BY DEF TypeOK, Row, Snapshot, Sight, Reference

\* One line's row changes.
LEMMA OneRow ==
  ASSUME TypeOK, NEW l \in Ids, NEW r, RowTyped(r), line' = [line EXCEPT ![l] = r]
  PROVE  RowsTyped'
<1>1. line \in [Ids -> Row] /\ \A k \in Ids : RowTyped(line[k])
  BY Parts DEF RowsTyped
<1>2. r \in Row
  BY DEF RowTyped
<1> QED
  BY <1>1, <1>2 DEF RowsTyped

\* The actions, one by one.
LEMMA Steps ==
  ASSUME [Next]_vars
  PROVE  \/ \E i \in Instances :
               \/ Tick(i) \/ Read(i) \/ Quote(i)
               \/ \E stale \in BOOLEAN : NoQuote(i, stale)
               \/ RecoverFind(i) \/ RecoverClaim(i) \/ RecoverWrite(i)
         \/ \E x \in Actors :
               \/ \E scoped \in BOOLEAN : Claim(x, scoped)
               \/ Gate(x)
               \/ \E outcome \in Outcomes : Place(x, outcome)
               \/ Write(x) \/ Abort(x) \/ Crash(x)
         \/ \E l \in Ids : Age(l) \/ Trigger(l) \/ (\E trigger \in Prices : Drag(l, trigger))
                           \/ Resize(l) \/ Cancel(l)
         \/ TriggerQuote \/ Move \/ SwitchMode
         \/ \E p \in Prices : MovePrice(p)
         \/ Lapse
         \/ UNCHANGED vars
BY DEF Next, Fire

\* What actors are doing stays typed.
LEMMA JobsStep == ASSUME TypeOK, [Next]_vars PROVE JobsTyped'
<1>a. /\ \A i \in Instances : i \in Actors /\ i # Client
      /\ Client \in Actors
  BY LinesAssumption DEF Actors
<1>u. ASSUME UNCHANGED job PROVE JobsTyped'
  BY <1>u, Parts DEF JobsTyped
<1>1. ASSUME NEW i \in Instances, Tick(i) PROVE JobsTyped'
  BY <1>1, <1>a, DoTyped DEF Tick, Pcs
<1>2. ASSUME NEW i \in Instances, Read(i) PROVE JobsTyped'
  <2> DEFINE armed == {l \in Ids : line[l].status = "working" /\ home}
             j == [pc |-> "read", at |-> Nobody, outcome |-> "none",
                   todo |-> {Snapshot(l, Reference(i, l)) : l \in armed}]
  <2>1. Rest(i) \/ job' = [job EXCEPT ![i] = j]
    BY <1>2 DEF Read
  <2>2. j.todo \in SUBSET Sight
    BY SnapshotTyped
  <2>3. j \in Job
    BY <2>2 DEF Job, Pcs
  <2>4. JobTyped(i, j)
    BY <2>3, <1>a DEF JobTyped
  <2> QED
    BY <2>1, <2>4, <1>a, OneJob, RestTypedJob
<1>3. ASSUME NEW i \in Instances, Quote(i) PROVE JobsTyped'
  <2>1. {s \in job[i].todo : Crossed(s, price)} \in SUBSET Sight
    BY <1>a DEF TypeOK, Job
  <2> QED
    BY <1>3, <1>a, <2>1, FireNextTyped DEF Quote
<1>4. ASSUME NEW i \in Instances, NEW stale \in BOOLEAN, NoQuote(i, stale) PROVE JobsTyped'
  BY <1>4, <1>a, RestTypedJob DEF NoQuote
<1>5. ASSUME NEW i \in Instances, RecoverFind(i) PROVE JobsTyped'
  <2>1. PICK l \in Ids : job' = [job EXCEPT ![i] = [pc |-> "found", at |-> Snapshot(l, NoPrice),
                                                     todo |-> {}, outcome |-> "none"]]
    BY <1>5 DEF RecoverFind
  <2>2. Snapshot(l, NoPrice) \in Sight
    BY SnapshotTyped
  <2>3. JobTyped(i, [pc |-> "found", at |-> Snapshot(l, NoPrice), todo |-> {}, outcome |-> "none"])
    BY <2>2, NobodyAssumption DEF JobTyped, Job, Pcs
  <2> QED
    BY <2>1, <2>3, <1>a, OneJob
<1>6. ASSUME NEW i \in Instances, RecoverClaim(i) PROVE JobsTyped'
  <2>1. job[i].at # Nobody
    BY <1>6, <1>a, AtLine, NobodyAssumption DEF RecoverClaim
  <2>2. Do(i, "replaying") \/ Rest(i)
    BY <1>6 DEF RecoverClaim
  <2> QED
    BY <2>1, <2>2, <1>a, DoTyped, RestTypedJob DEF Pcs
<1>7. ASSUME NEW i \in Instances, RecoverWrite(i) PROVE JobsTyped'
  BY <1>7, <1>a, RestTypedJob DEF RecoverWrite
<1>8. ASSUME NEW x \in Actors, NEW scoped \in BOOLEAN, Claim(x, scoped) PROVE JobsTyped'
  <2>1. job[x].at # Nobody
    BY <1>8, AtLine, NobodyAssumption DEF Claim
  <2>2. Do(x, "gate") \/ NextLine(x)
    BY <1>8 DEF Claim
  <2> QED
    BY <2>1, <2>2, DoTyped, NextLineTyped DEF Pcs
<1>9. ASSUME NEW x \in Actors, Gate(x) PROVE JobsTyped'
  <2>1. job[x].at # Nobody
    BY <1>9, AtLine, NobodyAssumption DEF Gate
  <2>2. Do(x, "placing") \/ NextLine(x)
    BY <1>9 DEF Gate
  <2> QED
    BY <2>1, <2>2, DoTyped, NextLineTyped DEF Pcs
<1>10. ASSUME NEW x \in Actors, NEW outcome \in Outcomes, Place(x, outcome) PROVE JobsTyped'
  <2> DEFINE p == IF job[x].pc = "placing" THEN "write" ELSE "replayed"
             j == [job[x] EXCEPT !.outcome = outcome, !.pc = p]
  <2>1. job[x].at # Nobody /\ job[x] \in Job /\ job \in [Actors -> Job]
    BY <1>10, AtLine, NobodyAssumption DEF Place, TypeOK
  <2>2. j \in Job /\ j.at = job[x].at /\ j.pc = p
    BY <2>1 DEF Job, Pcs
  <2>3. JobTyped(x, j)
    BY <2>1, <2>2 DEF JobTyped
  <2>4. job' = [job EXCEPT ![x].outcome = outcome,
                           ![x].pc = IF @ = "placing" THEN "write" ELSE "replayed"]
    BY <1>10 DEF Place
  <2>5. job' = [job EXCEPT ![x] = j]
    BY <2>1, <2>4 DEF Job
  <2> QED
    BY <2>3, <2>5, OneJob
<1>11. ASSUME NEW x \in Actors, Write(x) PROVE JobsTyped'
  BY <1>11, NextLineTyped DEF Write
<1>12. ASSUME NEW x \in Actors, Abort(x) \/ Crash(x) PROVE JobsTyped'
  BY <1>12, RestTypedJob DEF Abort, Crash, Rest
<1>13. ASSUME NEW l \in Ids, Trigger(l) PROVE JobsTyped'
  <2> DEFINE j == [pc |-> "read", at |-> Snapshot(l, line[l].arm), todo |-> {},
                   outcome |-> "none"]
  <2>1. Snapshot(l, line[l].arm) \in Sight
    BY SnapshotTyped
  <2>2. JobTyped(Client, j)
    BY <2>1, NobodyAssumption DEF JobTyped, Job, Pcs
  <2> QED
    BY <1>13, <1>a, <2>2, OneJob DEF Trigger
<1>14. ASSUME NEW l \in Ids, NEW trigger \in Prices, Drag(l, trigger) PROVE JobsTyped'
  <2> DEFINE s == [id |-> l, trigger |-> trigger, arm |-> Arm(trigger), from |-> NoPrice]
             j == [pc |-> "moving", todo |-> {}, outcome |-> "none", at |-> s]
  <2>1. s \in Sight /\ s.arm # s.trigger
    BY <1>14 DEF Drag, Arm, Sight, TypeOK
  <2>2. JobTyped(Client, j)
    BY <2>1, NobodyAssumption DEF JobTyped, Job, Pcs
  <2> QED
    BY <1>14, <1>a, <2>2, OneJob DEF Drag
<1>15. CASE TriggerQuote
  <2>1. job[Client].at # Nobody
    BY <1>15, <1>a, AtLine, NobodyAssumption DEF TriggerQuote
  <2> QED
    BY <1>15, <1>a, <2>1, DoTyped, RestTypedJob DEF TriggerQuote, Pcs
<1>16. CASE Move
  BY <1>16, <1>a, RestTypedJob DEF Move
<1>17. ASSUME NEW l \in Ids, Age(l) \/ Resize(l) \/ Cancel(l) PROVE JobsTyped'
  BY <1>17, <1>u DEF Age, Resize, Cancel
<1>18. ASSUME NEW p \in Prices, SwitchMode \/ MovePrice(p) \/ Lapse \/ UNCHANGED vars
       PROVE  JobsTyped'
  BY <1>18, <1>u DEF SwitchMode, MovePrice, Lapse, vars
<1>19. Opening \in Prices
  BY LinesAssumption
<1> QED
  BY <1>1, <1>2, <1>3, <1>4, <1>5, <1>6, <1>7, <1>8, <1>9, <1>10, <1>11, <1>12, <1>13, <1>14,
     <1>15, <1>16, <1>17, <1>18, <1>19, Steps

\* So do the lines: what is written of one is a row of its kind.
LEMMA RowsStep == ASSUME TypeOK, [Next]_vars PROVE RowsTyped'
<1>a. /\ \A i \in Instances : i \in Actors /\ i # Client
      /\ Client \in Actors
  BY LinesAssumption DEF Actors
<1>u. ASSUME UNCHANGED line PROVE RowsTyped'
  BY <1>u, Parts DEF RowsTyped
<1>row. \A l \in Ids : RowTyped(line[l])
  BY Parts DEF RowsTyped
\* The writes of a fire and of its recovery: the status, and whether the claim is old.
<1>0. ASSUME NEW l \in Ids, NEW st \in Statuses, NEW old \in BOOLEAN, old => st = "pending_fire",
             line' = [line EXCEPT ![l] = [line[l] EXCEPT !.status = st, !.aged = old]]
      PROVE  RowsTyped'
  <2> DEFINE r == [line[l] EXCEPT !.status = st, !.aged = old]
  <2>1. RowTyped(r)
    BY <1>0, <1>row DEF RowTyped, Row
  <2> QED
    BY <1>0, <2>1, OneRow
<1>p. line \in [Ids -> Row] /\ (\A l \in Ids : line[l] \in Row /\ line[l].aged \in BOOLEAN
                                              /\ line[l].status \in Statuses)
  BY DEF TypeOK, Row
<1>s. "working" \in Statuses /\ "pending_fire" \in Statuses /\ "triggered" \in Statuses
      /\ "failed" \in Statuses /\ "cancelled" \in Statuses
  BY DEF Statuses
<1>1. ASSUME NEW x \in Actors, NEW scoped \in BOOLEAN, Claim(x, scoped) PROVE RowsTyped'
  <2> DEFINE l == Current(x)
  <2>1. l \in Ids
    BY <1>1, AtLine DEF Claim
  <2>2. CASE line' = [line EXCEPT ![l].status = "pending_fire"]
    <3>1. line' = [line EXCEPT ![l] = [line[l] EXCEPT !.status = "pending_fire", !.aged = line[l].aged]]
      BY <2>1, <2>2, <1>p DEF Row
    <3> QED
      BY <2>1, <3>1, <1>0, <1>p, <1>s
  <2> QED
    BY <1>1, <1>u, <2>2 DEF Claim
<1>2. ASSUME NEW x \in Actors, Gate(x) PROVE RowsTyped'
  <2> DEFINE l == Current(x)
  <2>1. l \in Ids
    BY <1>2, AtLine DEF Gate
  <2>2. CASE line' = [line EXCEPT ![l].status = "working", ![l].aged = FALSE]
    <3>1. line' = [line EXCEPT ![l] = [line[l] EXCEPT !.status = "working", !.aged = FALSE]]
      BY <2>1, <2>2, <1>p DEF Row
    <3> QED
      BY <2>1, <3>1, <1>0, <1>p, <1>s
  <2> QED
    BY <1>2, <1>u, <2>2 DEF Gate
<1>3. ASSUME NEW x \in Actors, Write(x) PROVE RowsTyped'
  <2> DEFINE l == Current(x)
  <2>1. l \in Ids
    BY <1>3, AtLine DEF Write
  <2>2. ASSUME NEW st \in {"triggered", "failed"},
               line' = [line EXCEPT ![l].status = st, ![l].aged = FALSE]
        PROVE  RowsTyped'
    <3>1. line' = [line EXCEPT ![l] = [line[l] EXCEPT !.status = st, !.aged = FALSE]]
      BY <2>1, <2>2, <1>p DEF Row
    <3> QED
      BY <2>1, <3>1, <1>0, <1>p, <1>s
  <2>3. \/ line' = [line EXCEPT ![l].status = "triggered", ![l].aged = FALSE]
        \/ line' = [line EXCEPT ![l].status = "failed", ![l].aged = FALSE]
        \/ line' = line
    BY <1>3 DEF Write, Settle
  <2> QED
    BY <1>u, <2>2, <2>3
<1>4. ASSUME NEW l \in Ids, Age(l) PROVE RowsTyped'
  <2>1. line' = [line EXCEPT ![l] = [line[l] EXCEPT !.status = "pending_fire", !.aged = TRUE]]
    BY <1>4, <1>p DEF Age, Row
  <2> QED
    BY <2>1, <1>0, <1>s
<1>5. ASSUME NEW i \in Instances, RecoverClaim(i) PROVE RowsTyped'
  <2> DEFINE l == Current(i)
  <2>1. l \in Ids
    BY <1>5, <1>a, AtLine DEF RecoverClaim
  <2>2. CASE line' = [line EXCEPT ![l].aged = FALSE]
    <3>1. line' = [line EXCEPT ![l] = [line[l] EXCEPT !.status = line[l].status, !.aged = FALSE]]
      BY <2>1, <2>2, <1>p DEF Row
    <3> QED
      BY <2>1, <3>1, <1>0, <1>p
  <2> QED
    BY <1>5, <1>u, <2>2 DEF RecoverClaim
<1>6. ASSUME NEW i \in Instances, RecoverWrite(i) PROVE RowsTyped'
  <2> DEFINE l == Current(i)
  <2>1. l \in Ids
    BY <1>6, <1>a, AtLine DEF RecoverWrite
  <2> DEFINE verdict == Verdict(i, l)
             old == line[l].aged /\ verdict = "pending_fire"
  <2>2. CASE line' = [line EXCEPT ![l].status = verdict,
                                  ![l].aged = @ /\ verdict = "pending_fire"]
    <3>1. verdict \in Statuses
      BY <1>s DEF Verdict
    <3>2. old \in BOOLEAN /\ (old => verdict = "pending_fire")
      BY <1>p, <2>1
    <3> HIDE DEF verdict
    <3>3. line' = [line EXCEPT ![l] = [line[l] EXCEPT !.status = verdict, !.aged = old]]
      BY <2>1, <2>2, <1>p DEF Row
    <3> QED
      BY <2>1, <3>1, <3>2, <3>3, <1>0
  <2> QED
    BY <1>6, <1>u, <2>2 DEF RecoverWrite
<1>7. CASE Move
  <2> DEFINE s == job[Client].at
             r == [line[s.id] EXCEPT !.trigger = s.trigger, !.arm = s.arm]
  <2>1. s \in Sight /\ s.arm # s.trigger
    BY <1>7, <1>a, AtLine DEF Move, TypeOK
  <2>2. CASE line' = [line EXCEPT ![s.id].trigger = s.trigger, ![s.id].arm = s.arm]
    <3>1. s.id \in Ids /\ RowTyped(line[s.id]) /\ line \in [Ids -> Row]
      BY <2>1, <1>row, <1>p DEF Sight
    <3>2. RowTyped(r) /\ line' = [line EXCEPT ![s.id] = r]
      BY <2>1, <2>2, <3>1 DEF RowTyped, Row, Sight
    <3> QED
      BY <3>1, <3>2, OneRow
  <2> QED
    BY <1>7, <1>u, <2>2 DEF Move
<1>8. ASSUME NEW l \in Ids, Cancel(l) PROVE RowsTyped'
  <2>1. line[l].aged = FALSE
    BY <1>8, <1>row, <1>p DEF Cancel, RowTyped
  <2>2. line' = [line EXCEPT ![l] = [line[l] EXCEPT !.status = "cancelled", !.aged = FALSE]]
    BY <1>8, <2>1, <1>p DEF Cancel, Row
  <2> QED
    BY <2>2, <1>0, <1>s
<1>9. ASSUME NEW i \in Instances, NEW stale \in BOOLEAN,
             Tick(i) \/ Read(i) \/ Quote(i) \/ NoQuote(i, stale) \/ RecoverFind(i)
      PROVE  RowsTyped'
  BY <1>9, <1>u DEF Tick, Read, Quote, NoQuote, RecoverFind
<1>10. ASSUME NEW x \in Actors, NEW outcome \in Outcomes,
              Place(x, outcome) \/ Abort(x) \/ Crash(x)
       PROVE  RowsTyped'
  BY <1>10, <1>u DEF Place, Abort, Crash
<1>11. ASSUME NEW l \in Ids, NEW trigger \in Prices, Trigger(l) \/ Drag(l, trigger) \/ Resize(l)
       PROVE  RowsTyped'
  BY <1>11, <1>u DEF Trigger, Drag, Resize
<1>12. ASSUME NEW p \in Prices,
              TriggerQuote \/ SwitchMode \/ MovePrice(p) \/ Lapse \/ UNCHANGED vars
       PROVE  RowsTyped'
  BY <1>12, <1>u DEF TriggerQuote, SwitchMode, MovePrice, Lapse, vars
<1>13. Opening \in Prices /\ "placed" \in Outcomes
  BY LinesAssumption DEF Outcomes
<1> QED
  BY <1>1, <1>2, <1>3, <1>4, <1>5, <1>6, <1>7, <1>8, <1>9, <1>10, <1>11, <1>12, <1>13, Steps

\* So do who knows of a claim, the audit rows and the orders.
LEMMA PlacesStep == ASSUME TypeOK, [Next]_vars PROVE PlacesTyped'
<1>t. PlacesTyped
  BY Parts
<1>a. \A i \in Instances : i \in Actors
  BY DEF Actors
<1>u. ASSUME UNCHANGED placeVars, UNCHANGED knows PROVE PlacesTyped'
  BY <1>t, <1>u DEF PlacesTyped, placeVars
\* Somebody comes to know a claim, or forgets it.
<1>k. ASSUME NEW l \in Ids, NEW who \in SUBSET Actors, UNCHANGED placeVars,
             knows' = [knows EXCEPT ![l] = who]
      PROVE  PlacesTyped'
  BY <1>t, <1>k DEF PlacesTyped, placeVars
<1>1. ASSUME NEW i \in Instances, RecoverFind(i) PROVE PlacesTyped'
  <2>1. PICK l \in Ids : knows' = [knows EXCEPT ![l] = @ \cup {i}] /\ UNCHANGED placeVars
    BY <1>1 DEF RecoverFind
  <2>2. knows[l] \cup {i} \in SUBSET Actors
    BY <1>a, <1>t DEF PlacesTyped
  <2> QED
    BY <2>1, <2>2, <1>k
<1>2. ASSUME NEW i \in Instances, RecoverClaim(i) PROVE PlacesTyped'
  <2>1. Current(i) \in Ids
    BY <1>2, <1>a, AtLine DEF RecoverClaim
  <2> QED
    BY <1>2, <2>1, <1>a, <1>k, <1>u DEF RecoverClaim
<1>3. ASSUME NEW x \in Actors, NEW scoped \in BOOLEAN, Claim(x, scoped) PROVE PlacesTyped'
  <2>1. Current(x) \in Ids
    BY <1>3, AtLine DEF Claim
  <2> QED
    BY <1>3, <2>1, <1>k, <1>u DEF Claim
<1>4. ASSUME NEW x \in Actors, NEW outcome \in Outcomes, Place(x, outcome) PROVE PlacesTyped'
  <2> DEFINE l == Current(x)
  <2>1. l \in Ids /\ UNCHANGED knows
    BY <1>4, AtLine DEF Place
  <2>2. /\ audit' \in {audit} \cup {[audit EXCEPT ![l] = a] : a \in {"none", "pending", "placed"}}
        /\ bought' \in {bought, bought \cup {l}}
        /\ unclear' \in {unclear, unclear \cup {l}}
    BY <1>4 DEF Place, Placed, placeVars
  <2> QED
    BY <2>1, <2>2, <1>t DEF PlacesTyped
<1>5. ASSUME NEW x \in Actors, Crash(x) PROVE PlacesTyped'
  BY <1>5, <1>t DEF Crash, PlacesTyped, placeVars
<1>6. ASSUME NEW i \in Instances, NEW stale \in BOOLEAN,
             Tick(i) \/ Read(i) \/ Quote(i) \/ NoQuote(i, stale) \/ RecoverWrite(i)
      PROVE  PlacesTyped'
  BY <1>6, <1>u DEF Tick, Read, Quote, NoQuote, RecoverWrite
<1>7. ASSUME NEW x \in Actors, Gate(x) \/ Write(x) \/ Abort(x) PROVE PlacesTyped'
  BY <1>7, <1>u DEF Gate, Write, Abort
<1>8. ASSUME NEW l \in Ids, NEW trigger \in Prices,
             Age(l) \/ Trigger(l) \/ Drag(l, trigger) \/ Resize(l) \/ Cancel(l)
      PROVE  PlacesTyped'
  BY <1>8, <1>u DEF Age, Trigger, Drag, Resize, Cancel
<1>9. ASSUME NEW p \in Prices,
             TriggerQuote \/ Move \/ SwitchMode \/ MovePrice(p) \/ Lapse \/ UNCHANGED vars
      PROVE  PlacesTyped'
  BY <1>9, <1>u DEF TriggerQuote, Move, SwitchMode, MovePrice, Lapse, vars
<1>10. Opening \in Prices /\ FALSE \in BOOLEAN
  BY LinesAssumption
<1> QED
  BY <1>1, <1>2, <1>3, <1>4, <1>5, <1>6, <1>7, <1>8, <1>9, <1>10, Steps

\* So do the markers, and the record of what went wrong.
LEMMA MarksStep == ASSUME TypeOK, [Next]_vars PROVE MarksTyped'
<1>t. MarksTyped
  BY Parts
<1>a. \A i \in Instances : i \in Actors
  BY DEF Actors
<1>k. \A kind \in SlipKinds : \A unsound \in BOOLEAN :
         SlipIf(kind, unsound) => slips' \subseteq SlipKinds
  BY <1>t DEF MarksTyped, SlipIf
<1>0. "mistyped" \in SlipKinds /\ "outlived" \in SlipKinds
  BY DEF SlipKinds
<1>u. ASSUME UNCHANGED <<marked, slips>> PROVE MarksTyped'
  BY <1>t, <1>u DEF MarksTyped
<1>1. ASSUME NEW i \in Instances, RecoverWrite(i) PROVE MarksTyped'
  BY <1>1, <1>t DEF RecoverWrite, MarksTyped
<1>2. ASSUME NEW x \in Actors, NEW scoped \in BOOLEAN, Claim(x, scoped) PROVE MarksTyped'
  <2>1. Current(x) \in Ids
    BY <1>2, AtLine DEF Claim
  <2> QED
    BY <1>2, <2>1, <1>t DEF Claim, MarksTyped
<1>3. ASSUME NEW x \in Actors, Gate(x) PROVE MarksTyped'
  BY <1>3, <1>t DEF Gate, MarksTyped
<1>4. ASSUME NEW x \in Actors, Write(x) PROVE MarksTyped'
  BY <1>4, <1>t DEF Write, Settle, MarksTyped
<1>5. ASSUME NEW x \in Actors, NEW outcome \in Outcomes, Place(x, outcome) PROVE MarksTyped'
  <2>1. slips' \subseteq SlipKinds
    BY <1>5, <1>t, <1>0 DEF Place, Placed, SlipIf, MarksTyped
  <2> QED
    BY <1>5, <2>1, <1>t DEF Place, MarksTyped
<1>6. ASSUME NEW l \in Ids, Age(l) PROVE MarksTyped'
  BY <1>6, <1>t, <1>0 DEF Age, SlipIf, MarksTyped
<1>7. ASSUME NEW i \in Instances, NEW stale \in BOOLEAN,
             \/ Tick(i) \/ Read(i) \/ Quote(i) \/ NoQuote(i, stale)
             \/ RecoverFind(i) \/ RecoverClaim(i)
      PROVE  MarksTyped'
  BY <1>7, <1>u DEF Tick, Read, Quote, NoQuote, RecoverFind, RecoverClaim
<1>8. ASSUME NEW x \in Actors, Abort(x) \/ Crash(x) PROVE MarksTyped'
  BY <1>8, <1>u DEF Abort, Crash
<1>9. ASSUME NEW l \in Ids, NEW trigger \in Prices,
             Trigger(l) \/ Drag(l, trigger) \/ Resize(l) \/ Cancel(l)
      PROVE  MarksTyped'
  BY <1>9, <1>u DEF Trigger, Drag, Resize, Cancel
<1>10. ASSUME NEW p \in Prices,
              TriggerQuote \/ Move \/ SwitchMode \/ MovePrice(p) \/ Lapse \/ UNCHANGED vars
       PROVE  MarksTyped'
  BY <1>10, <1>u DEF TriggerQuote, Move, SwitchMode, MovePrice, Lapse, vars
<1>11. Opening \in Prices /\ FALSE \in BOOLEAN
  BY LinesAssumption
<1> QED
  BY <1>1, <1>2, <1>3, <1>4, <1>5, <1>6, <1>7, <1>8, <1>9, <1>10, <1>11, Steps

\* So do the lease and what the watchers remember.
LEMMA WatchStep == ASSUME TypeOK, [Next]_vars PROVE WatchTyped'
<1>t. WatchTyped /\ price \in Prices
  BY Parts DEF RestTyped
<1>a. \A i \in Instances : i \in Actors
  BY DEF Actors
<1>u. ASSUME Untouched, UNCHANGED watchVars PROVE WatchTyped'
  BY <1>t, <1>u DEF WatchTyped, Untouched, watchVars
<1>0. ASSUME NEW l \in Ids, Touch(l) \/ Untouched, UNCHANGED watchVars PROVE WatchTyped'
  <2>1. CASE Touch(l)
    BY <1>0, <1>t, <2>1 DEF WatchTyped, Touch, watchVars
  <2> QED
    BY <1>0, <2>1, <1>u
<1>1. ASSUME NEW i \in Instances, Tick(i) PROVE WatchTyped'
  BY <1>1, <1>t DEF Tick, WatchTyped
<1>2. ASSUME NEW i \in Instances, Read(i) PROVE WatchTyped'
  BY <1>2, <1>t DEF Read, WatchTyped, watchVars
<1>3. ASSUME NEW i \in Instances, Quote(i) PROVE WatchTyped'
  BY <1>3, <1>t DEF Quote, WatchTyped
<1>4. ASSUME NEW i \in Instances, NEW stale \in BOOLEAN, NoQuote(i, stale) PROVE WatchTyped'
  BY <1>4, <1>t DEF NoQuote, WatchTyped
<1>5. ASSUME NEW i \in Instances, RecoverFind(i) PROVE WatchTyped'
  BY <1>5, <1>t DEF RecoverFind, WatchTyped, watchVars
<1>6. ASSUME NEW i \in Instances, RecoverClaim(i) \/ RecoverWrite(i) PROVE WatchTyped'
  <2>1. Current(i) \in Ids
    BY <1>6, <1>a, AtLine DEF RecoverClaim, RecoverWrite
  <2> QED
    BY <1>6, <2>1, <1>0 DEF RecoverClaim, RecoverWrite
<1>7. ASSUME NEW x \in Actors, NEW scoped \in BOOLEAN, Claim(x, scoped) \/ Gate(x) \/ Write(x)
      PROVE  WatchTyped'
  <2>1. Current(x) \in Ids
    BY <1>7, AtLine DEF Claim, Gate, Write
  <2> QED
    BY <1>7, <2>1, <1>0 DEF Claim, Gate, Write, Settle
<1>8. ASSUME NEW x \in Actors, NEW outcome \in Outcomes, Place(x, outcome) \/ Abort(x)
      PROVE  WatchTyped'
  BY <1>8, <1>u DEF Place, Abort, Untouched
<1>9. ASSUME NEW x \in Actors, Crash(x) PROVE WatchTyped'
  BY <1>9, <1>t DEF Crash, WatchTyped
<1>10. ASSUME NEW l \in Ids, NEW trigger \in Prices,
              Age(l) \/ Trigger(l) \/ Drag(l, trigger) \/ Resize(l) \/ Cancel(l)
       PROVE  WatchTyped'
  BY <1>10, <1>0 DEF Age, Trigger, Drag, Resize, Cancel, Untouched
<1>11. CASE Move
  <2>1. job[Client].at.id \in Ids
    BY <1>11, AtLine DEF Move, Actors, Current
  <2> QED
    BY <1>11, <2>1, <1>0 DEF Move
<1>12. ASSUME NEW p \in Prices,
              TriggerQuote \/ SwitchMode \/ MovePrice(p) \/ UNCHANGED vars
       PROVE  WatchTyped'
  BY <1>12, <1>u DEF TriggerQuote, SwitchMode, MovePrice, vars, Untouched, watchVars
<1>13. CASE Lapse
  BY <1>13, <1>t DEF Lapse, WatchTyped
<1>14. Opening \in Prices /\ FALSE \in BOOLEAN /\ "placed" \in Outcomes
  BY LinesAssumption DEF Outcomes
<1> QED
  BY <1>1, <1>2, <1>3, <1>4, <1>5, <1>6, <1>7, <1>8, <1>9, <1>10, <1>11, <1>12, <1>13, <1>14,
     Steps

\* So do the price, the mode and the bounds' counters.
LEMMA RestStep == ASSUME TypeOK, [Next]_vars PROVE RestTyped'
<1>t. RestTyped /\ MaxMoves \in Nat /\ MaxFaults \in Nat
  BY Parts, LinesAssumption
<1>f. ASSUME UNCHANGED faults \/ Fault, UNCHANGED <<price, home>>,
             UNCHANGED moves \/ (moves < MaxMoves /\ moves' = moves + 1)
      PROVE  RestTyped'
  BY <1>t, <1>f DEF RestTyped, Fault
<1>1. ASSUME NEW i \in Instances, NEW stale \in BOOLEAN,
             \/ Tick(i) \/ Read(i) \/ Quote(i) \/ NoQuote(i, stale)
             \/ RecoverFind(i) \/ RecoverClaim(i) \/ RecoverWrite(i)
      PROVE  RestTyped'
  BY <1>1, <1>f DEF Tick, Read, Quote, NoQuote, RecoverFind, RecoverClaim, RecoverWrite
<1>2. ASSUME NEW x \in Actors, NEW scoped \in BOOLEAN, NEW outcome \in Outcomes,
             \/ Claim(x, scoped) \/ Gate(x) \/ Place(x, outcome) \/ Write(x)
             \/ Abort(x) \/ Crash(x)
      PROVE  RestTyped'
  BY <1>2, <1>f DEF Claim, Gate, Place, Write, Abort, Crash
<1>3. ASSUME NEW l \in Ids, NEW trigger \in Prices,
             Age(l) \/ Trigger(l) \/ Drag(l, trigger) \/ Resize(l) \/ Cancel(l)
      PROVE  RestTyped'
  BY <1>3, <1>f DEF Age, Trigger, Drag, Resize, Cancel
<1>4. CASE TriggerQuote \/ Move \/ Lapse \/ UNCHANGED vars
  BY <1>4, <1>f DEF TriggerQuote, Move, Lapse, vars
<1>5. ASSUME NEW p \in Prices, MovePrice(p) PROVE RestTyped'
  BY <1>5, <1>t DEF MovePrice, RestTyped
<1>6. CASE SwitchMode
  BY <1>6, <1>t DEF SwitchMode, RestTyped
<1>7. Opening \in Prices /\ FALSE \in BOOLEAN /\ "placed" \in Outcomes
  BY LinesAssumption DEF Outcomes
<1> QED
  BY <1>1, <1>2, <1>3, <1>4, <1>5, <1>6, <1>7, Steps

\* Every step keeps the types.
LEMMA TypeStep == ASSUME TypeOK, [Next]_vars PROVE TypeOK'
<1>1. JobsTyped' /\ RowsTyped' /\ PlacesTyped' /\ MarksTyped' /\ WatchTyped' /\ RestTyped'
  BY JobsStep, RowsStep, PlacesStep, MarksStep, WatchStep, RestStep
<1> QED
  BY <1>1 DEF TypeOK, JobsTyped, RowsTyped, PlacesTyped, MarksTyped, WatchTyped, RestTyped,
              JobTyped, RowTyped

\* No step takes back a slip, so that before the first one there was none.
LEMMA SlipsStay == ASSUME TypeOK, [Next]_vars, slips' = {} PROVE slips = {}
<1> SUFFICES ASSUME slips # {} PROVE FALSE
  OBVIOUS
<1>1. slips' # slips
  OBVIOUS
<1>2. ASSUME NEW x \in Actors, NEW outcome \in Outcomes, Place(x, outcome) PROVE FALSE
  BY <1>1, <1>2 DEF Place, Placed, SlipIf
<1>3. ASSUME NEW l \in Ids, Age(l) PROVE FALSE
  BY <1>1, <1>3 DEF Age, SlipIf
<1>4. ASSUME NEW i \in Instances, NEW stale \in BOOLEAN,
             \/ Tick(i) \/ Read(i) \/ Quote(i) \/ NoQuote(i, stale)
             \/ RecoverFind(i) \/ RecoverClaim(i) \/ RecoverWrite(i)
      PROVE  FALSE
  BY <1>1, <1>4 DEF Tick, Read, Quote, NoQuote, RecoverFind, RecoverClaim, RecoverWrite
<1>5. ASSUME NEW x \in Actors, NEW scoped \in BOOLEAN,
             Claim(x, scoped) \/ Gate(x) \/ Write(x) \/ Abort(x) \/ Crash(x)
      PROVE  FALSE
  BY <1>1, <1>5 DEF Claim, Gate, Write, Abort, Crash
<1>6. ASSUME NEW l \in Ids, NEW trigger \in Prices,
             Trigger(l) \/ Drag(l, trigger) \/ Resize(l) \/ Cancel(l)
      PROVE  FALSE
  BY <1>1, <1>6 DEF Trigger, Drag, Resize, Cancel
<1>7. ASSUME NEW p \in Prices,
             TriggerQuote \/ Move \/ SwitchMode \/ MovePrice(p) \/ Lapse \/ UNCHANGED vars
      PROVE  FALSE
  BY <1>1, <1>7 DEF TriggerQuote, Move, SwitchMode, MovePrice, Lapse, vars
<1>8. Opening \in Prices /\ FALSE \in BOOLEAN
  BY LinesAssumption
<1> QED
  BY <1>2, <1>3, <1>4, <1>5, <1>6, <1>7, <1>8, Steps

-----------------------------------------------------------------------------
(* The invariant: what holds until the first slip.                         *)

\* Only an actor's own place changes, and it is not at work on a line then.
LEMMA Elsewhere ==
  ASSUME TypeOK, Sound, NEW x \in Actors, UNCHANGED <<line, knows, audit, bought>>,
         \A y \in Actors \ {x} : job'[y] = job[y],
         job'[x] = job[x] \/ job'[x].pc \notin Working \cup {"found"}
  PROVE  Sound'
<1>1. ASSUME NEW y \in Actors, job'[y] = job[y] PROVE ClaimHeld(y)' /\ OutcomeTrue(y)'
  <2>1. ClaimHeld(y) /\ OutcomeTrue(y)
    BY DEF Sound
  <2> QED
    BY <1>1, <2>1 DEF ClaimHeld, OutcomeTrue, Current
<1>2. ASSUME job'[x].pc \notin Working \cup {"found"} PROVE ClaimHeld(x)' /\ OutcomeTrue(x)'
  BY <1>2 DEF ClaimHeld, OutcomeTrue, Working
<1>3. \A l \in Ids : AuditTrue(l)'
  BY DEF Sound, AuditTrue
<1>4. \A l \in Ids : Truthful(l)'
  BY DEF Sound, Truthful
<1> QED
  BY <1>1, <1>2, <1>3, <1>4 DEF Sound

\* One line changes, nobody else being at work on it, and nobody else being left to
\* think it stale who should not.
LEMMA OneLine ==
  ASSUME TypeOK, Sound, NEW S \in SUBSET Actors, NEW l \in Ids,
         \A y \in Actors \ S : job'[y] = job[y],
         \A k \in Ids \ {l} : /\ line'[k] = line[k] /\ knows'[k] = knows[k]
                              /\ audit'[k] = audit[k] /\ (k \in bought' <=> k \in bought),
         \A y \in Actors \ S : job[y].pc \in Working => Current(y) # l,
         \A y \in Actors \ S :
            job[y].pc = "found" /\ Current(y) = l /\ y \in knows'[l] => line'[l].aged,
         \A x \in S : ClaimHeld(x)' /\ OutcomeTrue(x)', AuditTrue(l)',
         line'[l].status = "triggered" => l \in bought',
         line'[l].status \in {"working", "cancelled", "failed"} => l \notin bought'
  PROVE  Sound'
<1>t. TypeOK
  OBVIOUS
<1>1. ASSUME NEW y \in Actors \ S PROVE ClaimHeld(y)' /\ OutcomeTrue(y)'
  <2>1. ClaimHeld(y) /\ OutcomeTrue(y)
    BY DEF Sound
  <2>2. job'[y] = job[y] /\ Current(y)' = Current(y)
    BY DEF Current
  <2>3. CASE job[y].pc \in Working \cup {"found"}
    <3>1. Current(y) \in Ids
      BY <1>t, <2>3, AtLine DEF Working
    <3>2. CASE Current(y) = l
      BY <2>1, <2>2, <2>3, <3>2 DEF ClaimHeld, OutcomeTrue, Working
    <3>3. CASE Current(y) # l
      BY <2>1, <2>2, <2>3, <3>1, <3>3 DEF ClaimHeld, OutcomeTrue, Working
    <3> QED
      BY <3>2, <3>3
  <2>4. CASE job[y].pc \notin Working \cup {"found"}
    BY <2>2, <2>4 DEF ClaimHeld, OutcomeTrue, Working
  <2> QED
    BY <2>3, <2>4
<1>2. \A k \in Ids : AuditTrue(k)'
  BY DEF Sound, AuditTrue
<1>3. \A k \in Ids : Truthful(k)'
  BY DEF Sound, Truthful
<1> QED
  BY <1>1, <1>2, <1>3 DEF Sound

\* OneLine where the change is one actor's.
LEMMA OwnLine ==
  ASSUME TypeOK, Sound, NEW x \in Actors, NEW l \in Ids,
         \A y \in Actors \ {x} : job'[y] = job[y],
         \A k \in Ids \ {l} : /\ line'[k] = line[k] /\ knows'[k] = knows[k]
                              /\ audit'[k] = audit[k] /\ (k \in bought' <=> k \in bought),
         \A y \in Actors \ {x} : job[y].pc \in Working => Current(y) # l,
         \A y \in Actors \ {x} :
            job[y].pc = "found" /\ Current(y) = l /\ y \in knows'[l] => line'[l].aged,
         ClaimHeld(x)', OutcomeTrue(x)', AuditTrue(l)',
         line'[l].status = "triggered" => l \in bought',
         line'[l].status \in {"working", "cancelled", "failed"} => l \notin bought'
  PROVE  Sound'
<1> DEFINE S == {x}
<1>1. /\ S \in SUBSET Actors
      /\ \A y \in Actors \ S : /\ job'[y] = job[y]
                               /\ job[y].pc \in Working => Current(y) # l
                               /\ (job[y].pc = "found" /\ Current(y) = l /\ y \in knows'[l])
                                    => line'[l].aged
      /\ \A y \in S : ClaimHeld(y)' /\ OutcomeTrue(y)'
  OBVIOUS
<1> HIDE DEF S
<1> QED
  BY <1>1, OneLine

\* Where an actor is after its job's step; the others are where they were.
LEMMA JobMoves ==
  ASSUME TypeOK, NEW x \in Actors
  PROVE  /\ \A p : Do(x, p) => /\ \A y \in Actors \ {x} : job'[y] = job[y]
                               /\ job'[x].pc = p /\ job'[x].at = job[x].at
                               /\ job'[x].outcome = job[x].outcome
         /\ Rest(x) => /\ \A y \in Actors \ {x} : job'[y] = job[y]
                       /\ job'[x].pc = "idle"
         /\ \A due : FireNext(x, due) => /\ \A y \in Actors \ {x} : job'[y] = job[y]
                                         /\ job'[x].pc \in {"idle", "firing"}
         /\ NextLine(x) => /\ \A y \in Actors \ {x} : job'[y] = job[y]
                           /\ job'[x].pc \in {"idle", "firing"}
<1>0. job \in [Actors -> Job] /\ job[x] \in Job
  BY DEF TypeOK
<1>1. ASSUME NEW p, Do(x, p)
      PROVE  /\ \A y \in Actors \ {x} : job'[y] = job[y]
             /\ job'[x].pc = p /\ job'[x].at = job[x].at
             /\ job'[x].outcome = job[x].outcome
  BY <1>0, <1>1 DEF Do, Job
<1>2. ASSUME Rest(x)
      PROVE  (\A y \in Actors \ {x} : job'[y] = job[y]) /\ job'[x].pc = "idle"
  BY <1>0, <1>2 DEF Rest, Idle
<1>3. ASSUME NEW due, FireNext(x, due)
      PROVE  (\A y \in Actors \ {x} : job'[y] = job[y]) /\ job'[x].pc \in {"idle", "firing"}
  BY <1>0, <1>2, <1>3 DEF FireNext
<1> QED
  BY <1>1, <1>2, <1>3 DEF NextLine

\* All lines start working, without an order or a claim.
LEMMA InitInv == Init => LinesInv
<1> SUFFICES ASSUME Init PROVE LinesInv
  OBVIOUS
<1>a. /\ Opening \in Prices /\ Levels \subseteq Prices \ {Opening}
      /\ MaxMoves \in Nat /\ MaxFaults \in Nat
  BY LinesAssumption
<1>1. JobsTyped
  <2>1. \A x \in Actors : JobTyped(x, Idle)
    BY DEF JobTyped, Idle, Job, Pcs
  <2> QED
    BY <2>1 DEF Init, JobsTyped, JobTyped
<1>2. RowsTyped
  <2>1. PICK at \in [Ids -> Levels], left \in SUBSET Ids :
          line = [l \in Ids |->
                    [status |-> IF l \in left THEN "pending_fire" ELSE "working",
                     trigger |-> at[l], arm |-> price, aged |-> l \in left]]
    BY DEF Init
  <2>2. \A l \in Ids : RowTyped(line[l])
    <3> TAKE l \in Ids
    <3>1. /\ line[l].status = IF l \in left THEN "pending_fire" ELSE "working"
          /\ line[l].trigger = at[l] /\ line[l].arm = price /\ line[l].aged = (l \in left)
          /\ line[l] = [status |-> IF l \in left THEN "pending_fire" ELSE "working",
                        trigger |-> at[l], arm |-> price, aged |-> l \in left]
      BY <2>1
    <3>2. at[l] \in Prices /\ at[l] # Opening /\ price = Opening /\ Opening \in Prices
      BY <1>a, <2>1 DEF Init
    <3>3. line[l] \in Row
      BY <3>1, <3>2 DEF Row, Statuses
    <3>4. line[l].aged => line[l].status = "pending_fire"
      BY <3>1
    <3>5. line[l].arm # line[l].trigger
      BY <3>1, <3>2
    <3> QED
      BY <3>3, <3>4, <3>5 DEF RowTyped
  <2> QED
    BY <2>1, <2>2 DEF RowsTyped, RowTyped
<1>3. PlacesTyped
  BY DEF Init, PlacesTyped
<1>4. WatchTyped
  BY DEF Init, WatchTyped
<1>5. RestTyped
  BY <1>a DEF Init, RestTyped
<1>6. TypeOK
  <2>1. MarksTyped
    BY DEF Init, MarksTyped
  <2> QED
    BY <1>1, <1>2, <1>3, <1>4, <1>5, <2>1, Parts
<1>7. \A x \in Actors : job[x].pc = "idle"
  BY DEF Init, Idle
<1>8. \A l \in Ids : line[l].status # "triggered" /\ audit[l] = "none" /\ l \notin bought
  BY DEF Init
<1> QED
  BY <1>6, <1>7, <1>8
     DEF LinesInv, Sound, ClaimHeld, OutcomeTrue, AuditTrue, Truthful, Working

\* Steps that write no line and end at no line.
LEMMA QuietStep ==
  ASSUME TypeOK, Sound, NEW x \in Actors, UNCHANGED <<line, knows, audit, bought>>,
         \/ Do(x, "started") \/ Do(x, "firing") \/ Rest(x) \/ NextLine(x)
         \/ \E due : FireNext(x, due)
         \/ \E j \in Job : j.pc \in {"read", "moving"} /\ job' = [job EXCEPT ![x] = j]
         \/ UNCHANGED job
  PROVE  Sound'
<1>t. TypeOK /\ job \in [Actors -> Job]
  BY DEF TypeOK
<1>1. CASE UNCHANGED job
  BY <1>1, Elsewhere
<1>2. CASE ~UNCHANGED job
  <2>1. /\ \A y \in Actors \ {x} : job'[y] = job[y]
        /\ job'[x].pc \in {"started", "firing", "idle", "read", "moving"}
    <3>1. CASE \E j \in Job : j.pc \in {"read", "moving"} /\ job' = [job EXCEPT ![x] = j]
      BY <1>t, <3>1
    <3>2. CASE ~\E j \in Job : j.pc \in {"read", "moving"} /\ job' = [job EXCEPT ![x] = j]
      BY <1>t, <1>2, <3>2, JobMoves
    <3> QED
      BY <3>1, <3>2
  <2> QED
    BY <2>1, Elsewhere DEF Working
<1> QED
  BY <1>1, <1>2

\* Who works on a line works alone, and nobody else knows its claim.
LEMMA Alone ==
  ASSUME TypeOK, Sound, NEW x \in Actors, job[x].pc \in Working
  PROVE  /\ Current(x) \in Ids /\ line[Current(x)] \in Row
         /\ line[Current(x)].status = "pending_fire" /\ ~line[Current(x)].aged
         /\ knows[Current(x)] = {x}
         /\ \A y \in Actors \ {x} : job[y].pc \in Working => Current(y) # Current(x)
<1>1. TypeOK /\ ClaimHeld(x)
  BY DEF Sound
<1>2. Current(x) \in Ids
  BY <1>1, AtLine DEF Working
<1>3. line[Current(x)].status = "pending_fire" /\ ~line[Current(x)].aged /\ knows[Current(x)] = {x}
  BY <1>1 DEF ClaimHeld
<1>4. ASSUME NEW y \in Actors \ {x}, job[y].pc \in Working PROVE Current(y) # Current(x)
  <2>1. ClaimHeld(y)
    BY DEF Sound
  <2> QED
    BY <1>3, <1>4, <2>1 DEF ClaimHeld
<1> QED
  BY <1>1, <1>2, <1>3, <1>4 DEF TypeOK

\* Nobody works on a line that is not pending, or whose claim is old; and nobody
\* thinks one stale that is not pending.
LEMMA Unattended ==
  ASSUME TypeOK, Sound, NEW l \in Ids, line[l].status # "pending_fire" \/ line[l].aged
  PROVE  /\ \A y \in Actors : job[y].pc \in Working => Current(y) # l
         /\ line[l].status # "pending_fire" =>
              /\ line[l].aged = FALSE
              /\ \A y \in Actors : job[y].pc = "found" /\ Current(y) = l => y \notin knows[l]
<1>1. \A y \in Actors : ClaimHeld(y)
  BY DEF Sound
<1>2. line[l].aged \in BOOLEAN /\ (line[l].aged => line[l].status = "pending_fire")
  BY DEF Sound, TypeOK, Row
<1> QED
  BY <1>1, <1>2 DEF ClaimHeld

\* Every step of a fire, a recovery or the client keeps what has to be held.
LEMMA SoundStep == ASSUME TypeOK, Sound, [Next]_vars, slips' = {} PROVE Sound'
<1>none. slips = {}
  BY SlipsStay
<1>t. /\ TypeOK /\ (\A x \in Actors : ClaimHeld(x) /\ OutcomeTrue(x))
      /\ \A l \in Ids : AuditTrue(l)
  BY DEF Sound
<1>truth. \A l \in Ids : /\ line[l].status = "triggered" => l \in bought
                         /\ line[l].status \in {"working", "cancelled", "failed"} => l \notin bought
  BY DEF Sound, Truthful
<1>a. (\A i \in Instances : i \in Actors) /\ Client \in Actors
  BY DEF Actors
<1>fun. /\ line \in [Ids -> Row] /\ knows \in [Ids -> SUBSET Actors]
        /\ audit \in [Ids -> {"none", "pending", "placed"}] /\ bought \subseteq Ids
        /\ job \in [Actors -> Job]
  BY <1>t DEF TypeOK
<1>1. ASSUME NEW i \in Instances, NEW stale \in BOOLEAN,
             Tick(i) \/ Quote(i) \/ NoQuote(i, stale)
      PROVE  Sound'
  <2>1. UNCHANGED <<line, knows, audit, bought>>
    BY <1>1 DEF Tick, Quote, NoQuote, placeVars
  <2>2. Do(i, "started") \/ (\E due : FireNext(i, due)) \/ Rest(i)
    BY <1>1 DEF Tick, Quote, NoQuote
  <2> QED
    BY <2>1, <2>2, <1>a, QuietStep
<1>2. ASSUME NEW i \in Instances, Read(i) PROVE Sound'
  <2>1. UNCHANGED <<line, knows, audit, bought>> /\ \A y \in Actors \ {i} : job'[y] = job[y]
    BY <1>2, <1>fun DEF Read, Rest, placeVars
  <2>2. job'[i].pc \in {"idle", "read"}
    BY <1>2, <1>a, <1>fun DEF Read, Rest, Idle
  <2> QED
    BY <2>1, <2>2, <1>a, Elsewhere DEF Working
<1>3. ASSUME NEW i \in Instances, RecoverFind(i) PROVE Sound'
  <2>1. PICK l \in Ids :
          /\ Recoverable(l) /\ knows' = [knows EXCEPT ![l] = @ \cup {i}]
          /\ job' = [job EXCEPT ![i] = [pc |-> "found", at |-> Snapshot(l, NoPrice),
                                        todo |-> {}, outcome |-> "none"]]
          /\ UNCHANGED <<line, audit, bought>>
    BY <1>3 DEF RecoverFind, placeVars
  <2>2. line[l].status = "pending_fire" /\ line[l].aged
    BY <2>1 DEF Recoverable
  <2>3. \A y \in Actors : job[y].pc \in Working => Current(y) # l
    BY <2>2, Unattended
  <2>4. job'[i].pc = "found" /\ Current(i)' = l /\ \A y \in Actors \ {i} : job'[y] = job[y]
    BY <2>1, <1>a, <1>fun DEF Current, Snapshot
  <2>5. ClaimHeld(i)' /\ OutcomeTrue(i)'
    BY <2>1, <2>2, <2>4 DEF ClaimHeld, OutcomeTrue, Working
  <2>6. AuditTrue(l)'
    BY <2>1, <1>t DEF AuditTrue
  <2>7. \A k \in Ids \ {l} : /\ line'[k] = line[k] /\ knows'[k] = knows[k]
                             /\ audit'[k] = audit[k] /\ (k \in bought' <=> k \in bought)
    BY <2>1, <1>fun
  <2>8. /\ line'[l].aged
        /\ line'[l].status = "triggered" => l \in bought'
        /\ line'[l].status \in {"working", "cancelled", "failed"} => l \notin bought'
    BY <2>1, <2>2
  <2> QED
    BY <1>a, <2>3, <2>4, <2>5, <2>6, <2>7, <2>8, OwnLine
<1>4. ASSUME NEW i \in Instances, RecoverClaim(i) PROVE Sound'
  <2>l. PICK l : l = Current(i)
    OBVIOUS
  <2>1. l \in Ids /\ job[i].pc = "found" /\ UNCHANGED <<audit, bought>>
    BY <2>l, <1>4, <1>a, <1>t, AtLine DEF RecoverClaim, placeVars
  <2>2. CASE Knows(i, l)
    <3>1. /\ line' = [line EXCEPT ![l].aged = FALSE] /\ knows' = [knows EXCEPT ![l] = {i}]
          /\ Do(i, "replaying") \/ Rest(i)
      BY <2>l, <1>4, <2>2 DEF RecoverClaim
    <3>2. line[l].aged /\ line[l].status = "pending_fire"
      BY <2>l, <2>1, <2>2, <1>a, <1>t DEF ClaimHeld, Knows
    <3>3. \A y \in Actors : job[y].pc \in Working => Current(y) # l
      BY <2>l, <2>1, <3>2, Unattended
    <3>4. /\ \A y \in Actors \ {i} : job'[y] = job[y]
          /\ \/ job'[i].pc = "replaying" /\ Current(i)' = l
             \/ job'[i].pc = "idle"
      BY <2>l, <3>1, <1>a, <1>t, JobMoves DEF Current
    <3>5. /\ line'[l].status = "pending_fire" /\ line'[l].aged = FALSE /\ knows'[l] = {i}
          /\ \A k \in Ids \ {l} : /\ line'[k] = line[k] /\ knows'[k] = knows[k]
                                  /\ audit'[k] = audit[k] /\ (k \in bought' <=> k \in bought)
      BY <2>l, <2>1, <3>1, <3>2, <1>fun DEF Row
    <3>6. ClaimHeld(i)' /\ OutcomeTrue(i)'
      BY <2>l, <3>4, <3>5 DEF ClaimHeld, OutcomeTrue, Working
    <3>7. AuditTrue(l)'
      BY <2>l, <2>1, <1>t DEF AuditTrue
    <3> QED
      BY <2>l, <1>a, <2>1, <3>3, <3>4, <3>5, <3>6, <3>7, OwnLine
  <2>3. CASE ~Knows(i, l)
    <3>1. Rest(i) /\ UNCHANGED <<line, knows>>
      BY <2>l, <1>4, <2>3 DEF RecoverClaim
    <3> QED
      BY <2>l, <2>1, <3>1, <1>a, QuietStep
  <2> QED
    BY <2>l, <2>2, <2>3
<1>5. ASSUME NEW i \in Instances, RecoverWrite(i) PROVE Sound'
  <2>l. PICK l : l = Current(i)
    OBVIOUS
  <2>1. job[i].pc = "replayed" /\ Rest(i) /\ UNCHANGED <<knows, audit, bought>>
    BY <2>l, <1>5 DEF RecoverWrite, placeVars
  <2>2. /\ l \in Ids /\ line[l] \in Row
        /\ line[l].status = "pending_fire" /\ ~line[l].aged /\ knows[l] = {i}
        /\ \A y \in Actors \ {i} : job[y].pc \in Working => Current(y) # l
    BY <2>l, <2>1, <1>a, Alone DEF Working
  <2>3. line' = [line EXCEPT ![l].status = Verdict(i, l),
                            ![l].aged = @ /\ Verdict(i, l) = "pending_fire"]
    BY <2>l, <1>5, <2>2 DEF RecoverWrite, Knows
  <2>4. /\ line'[l].status = Verdict(i, l) /\ ~line'[l].aged
        /\ \A k \in Ids \ {l} : line'[k] = line[k]
    BY <2>l, <2>2, <2>3, <1>fun DEF Row
  <2>5. (\A y \in Actors \ {i} : job'[y] = job[y]) /\ job'[i].pc = "idle"
    BY <2>l, <2>1, <1>a, <1>t, JobMoves
  <2>6. ClaimHeld(i)' /\ OutcomeTrue(i)'
    BY <2>l, <2>5 DEF ClaimHeld, OutcomeTrue, Working
  <2>7. AuditTrue(l) /\ OutcomeTrue(i)
    BY <2>l, <2>2, <1>a, <1>t
  <2>8. AuditTrue(l)'
    BY <2>l, <2>1, <2>7 DEF AuditTrue
  <2>9. /\ Verdict(i, l) = "triggered" => l \in bought
        /\ Verdict(i, l) \in {"working", "cancelled", "failed"} => l \notin bought
    BY <2>l, <2>1, <2>7 DEF Verdict, AuditTrue, OutcomeTrue
  <2> QED
    BY <2>l, <1>a, <2>1, <2>2, <2>4, <2>5, <2>6, <2>8, <2>9, OwnLine
<1>6. ASSUME NEW x \in Actors, NEW scoped \in BOOLEAN, Claim(x, scoped) PROVE Sound'
  <2>l. PICK l : l = Current(x)
    OBVIOUS
  <2>1. l \in Ids /\ UNCHANGED <<audit, bought>>
    BY <2>l, <1>6, <1>t, AtLine DEF Claim, placeVars
  <2>2. CASE scoped /\ line[l].status = "working"
    <3>1. /\ line' = [line EXCEPT ![l].status = "pending_fire"]
          /\ knows' = [knows EXCEPT ![l] = {x}] /\ Do(x, "gate")
      BY <2>l, <1>6, <2>2 DEF Claim
    <3>2. /\ line[l].aged = FALSE
          /\ \A y \in Actors : job[y].pc \in Working => Current(y) # l
      BY <2>l, <2>1, <2>2, Unattended
    <3>3. /\ \A y \in Actors \ {x} : job'[y] = job[y]
          /\ job'[x].pc = "gate" /\ Current(x)' = l
      BY <2>l, <3>1, <1>t, JobMoves DEF Current
    <3>4. /\ line'[l].status = "pending_fire" /\ line'[l].aged = FALSE /\ knows'[l] = {x}
          /\ \A k \in Ids \ {l} : /\ line'[k] = line[k] /\ knows'[k] = knows[k]
                                  /\ audit'[k] = audit[k] /\ (k \in bought' <=> k \in bought)
      BY <2>l, <2>1, <3>1, <3>2, <1>fun DEF Row
    <3>5. l \notin bought /\ bought' = bought
      BY <2>l, <2>1, <2>2, <1>truth
    <3>6. ClaimHeld(x)' /\ OutcomeTrue(x)'
      BY <2>l, <3>3, <3>4, <3>5 DEF ClaimHeld, OutcomeTrue, Working
    <3>7. AuditTrue(l)'
      BY <2>l, <2>1, <1>t DEF AuditTrue
    <3> QED
      BY <2>l, <2>1, <3>2, <3>3, <3>4, <3>6, <3>7, OwnLine
  <2>3. CASE ~(scoped /\ line[l].status = "working")
    <3>1. NextLine(x) /\ UNCHANGED <<line, knows>>
      BY <2>l, <1>6, <2>3 DEF Claim
    <3> QED
      BY <2>l, <2>1, <3>1, QuietStep
  <2> QED
    BY <2>l, <2>2, <2>3
<1>7. ASSUME NEW x \in Actors, Gate(x) PROVE Sound'
  <2>l. PICK l : l = Current(x)
    OBVIOUS
  <2>1. job[x].pc = "gate" /\ UNCHANGED <<knows, audit, bought>>
    BY <2>l, <1>7 DEF Gate, placeVars
  <2>2. /\ l \in Ids /\ line[l] \in Row
        /\ line[l].status = "pending_fire" /\ ~line[l].aged /\ knows[l] = {x}
        /\ \A y \in Actors \ {x} : job[y].pc \in Working => Current(y) # l
    BY <2>l, <2>1, Alone DEF Working
  <2>3. l \notin bought
    BY <2>l, <2>1, <1>t DEF OutcomeTrue
  <2>4. AuditTrue(l)'
    BY <2>l, <2>1, <2>2, <1>t DEF AuditTrue
  <2>5. CASE Do(x, "placing") /\ UNCHANGED line
    <3>1. /\ \A y \in Actors \ {x} : job'[y] = job[y]
          /\ job'[x].pc = "placing" /\ Current(x)' = l
      BY <2>l, <2>5, <1>t, JobMoves DEF Current
    <3>2. ClaimHeld(x)' /\ OutcomeTrue(x)'
      BY <2>l, <2>1, <2>2, <2>3, <2>5, <3>1 DEF ClaimHeld, OutcomeTrue, Working
    <3> QED
      BY <2>l, <2>1, <2>2, <2>4, <2>5, <3>1, <3>2, OwnLine
  <2>6. CASE line' = [line EXCEPT ![l].status = "working", ![l].aged = FALSE] /\ NextLine(x)
    <3>1. line'[l].status = "working" /\ \A k \in Ids \ {l} : line'[k] = line[k]
      BY <2>l, <2>2, <2>6, <1>fun DEF Row
    <3>2. /\ \A y \in Actors \ {x} : job'[y] = job[y]
          /\ job'[x].pc \in {"idle", "firing"}
      BY <2>l, <2>6, <1>t, JobMoves
    <3>3. ClaimHeld(x)' /\ OutcomeTrue(x)'
      BY <2>l, <3>2 DEF ClaimHeld, OutcomeTrue, Working
    <3> QED
      BY <2>l, <2>1, <2>2, <2>3, <2>4, <3>1, <3>2, <3>3, OwnLine
  <2> QED
    BY <2>l, <1>7, <2>5, <2>6 DEF Gate
<1>8. ASSUME NEW x \in Actors, NEW outcome \in Outcomes, Place(x, outcome) PROVE Sound'
  <2>l. PICK l : l = Current(x)
    OBVIOUS
  <2>1. /\ job[x].pc \in {"placing", "replaying"} /\ UNCHANGED <<line, knows>>
        /\ Placed(l, outcome)
        /\ job' = [job EXCEPT ![x].outcome = outcome,
                              ![x].pc = IF @ = "placing" THEN "write" ELSE "replayed"]
    BY <2>l, <1>8 DEF Place
  <2>2. /\ l \in Ids /\ line[l] \in Row
        /\ line[l].status = "pending_fire" /\ ~line[l].aged /\ knows[l] = {x}
        /\ \A y \in Actors \ {x} : job[y].pc \in Working => Current(y) # l
    BY <2>l, <2>1, Alone DEF Working
  <2>3. /\ job'[x].pc = IF job[x].pc = "placing" THEN "write" ELSE "replayed"
        /\ job'[x].outcome = outcome /\ Current(x)' = l
        /\ \A y \in Actors \ {x} : job'[y] = job[y]
    BY <2>l, <2>1, <1>fun DEF Job, Current
  <2>p. /\ \/ audit' = [audit EXCEPT ![l] = "placed"] /\ bought' = bought \cup {l}
           \/ audit' = audit /\ bought' = bought
           \/ /\ audit' = [audit EXCEPT ![l] = "none"] /\ l \notin bought'
              /\ bought' = bought
           \/ /\ audit' = [audit EXCEPT ![l] = "pending"] /\ outcome = "uncertain"
              /\ bought' = bought \/ bought' = bought \cup {l}
        /\ outcome = "placed" => l \in bought'
        /\ outcome = "refused" => bought' = bought
    <3>1. CASE outcome = "placed"
      BY <2>1, <3>1 DEF Placed
    <3>2. CASE outcome = "refused"
      <4>1. \/ UNCHANGED placeVars
            \/ /\ audit' = [audit EXCEPT ![l] = "none"]
               /\ bought' \in {bought, bought \cup {l}}
               /\ SlipIf("mistyped", l \in bought')
        BY <2>1, <3>2 DEF Placed
      <4>2. SlipIf("mistyped", l \in bought') => l \notin bought'
        BY DEF SlipIf
      <4> QED
        BY <3>2, <4>1, <4>2 DEF placeVars
    <3>3. CASE outcome \notin {"placed", "refused"}
      BY <2>1, <3>3 DEF Placed
    <3> QED
      BY <3>1, <3>2, <3>3
  <2>4. \A k \in Ids \ {l} : audit'[k] = audit[k] /\ (k \in bought' <=> k \in bought)
    BY <2>2, <2>p, <1>fun
  <2>5. AuditTrue(l)'
    <3>1. l \in bought => audit[l] # "none"
      BY <2>2, <1>t DEF AuditTrue
    <3>2. audit[l] = "placed" => l \in bought
      BY <2>2, <1>t DEF AuditTrue
    <3> QED
      BY <2>2, <2>p, <3>1, <3>2, <1>fun DEF AuditTrue
  <2>6. ClaimHeld(x)'
    BY <2>l, <2>1, <2>2, <2>3 DEF ClaimHeld, Working
  <2>7. OutcomeTrue(x)'
    <3>1. outcome = "placed" => l \in bought'
      BY <2>p
    <3>2. outcome = "refused" => bought' = bought
      BY <2>p
    <3>3. job[x].pc = "placing" => l \notin bought
      BY <2>l, <1>t DEF OutcomeTrue
    <3> QED
      BY <2>l, <2>1, <2>3, <3>1, <3>2, <3>3 DEF OutcomeTrue
  <2>8. line'[l] = line[l] /\ knows'[l] = knows[l]
    BY <2>l, <2>1
  <2>9. \A k \in Ids \ {l} : line'[k] = line[k] /\ knows'[k] = knows[k]
    BY <2>l, <2>1
  <2> QED
    BY <2>l, <2>2, <2>3, <2>4, <2>5, <2>6, <2>7, <2>8, <2>9, OwnLine
<1>9. ASSUME NEW x \in Actors, Write(x) PROVE Sound'
  <2>l. PICK l : l = Current(x)
    OBVIOUS
  <2>1. job[x].pc = "write" /\ NextLine(x) /\ UNCHANGED <<knows, audit, bought>>
    BY <2>l, <1>9 DEF Write, placeVars
  <2>2. /\ l \in Ids /\ line[l] \in Row
        /\ line[l].status = "pending_fire" /\ ~line[l].aged /\ knows[l] = {x}
        /\ \A y \in Actors \ {x} : job[y].pc \in Working => Current(y) # l
    BY <2>l, <2>1, Alone DEF Working
  <2>3. /\ \/ job[x].outcome = "placed" /\ line'[l].status = "triggered"
           \/ job[x].outcome = "refused" /\ line'[l].status = "failed"
           \/ line'[l] = line[l]
        /\ \A k \in Ids \ {l} : line'[k] = line[k]
    <3>0. \A status : Settle(x, status) =>
            line' = [line EXCEPT ![l].status = status, ![l].aged = FALSE]
      BY <2>l DEF Settle
    <3>1. CASE job[x].outcome = "placed"
      <4>1. line' = [line EXCEPT ![l].status = "triggered", ![l].aged = FALSE]
        BY <1>9, <3>0, <3>1 DEF Write
      <4> QED
        BY <4>1, <2>2, <3>1, <1>fun DEF Row
    <3>2. CASE job[x].outcome = "refused"
      <4>1. line' = [line EXCEPT ![l].status = "failed", ![l].aged = FALSE]
        BY <1>9, <3>0, <3>2 DEF Write
      <4> QED
        BY <4>1, <2>2, <3>2, <1>fun DEF Row
    <3>3. CASE job[x].outcome \notin {"placed", "refused"}
      BY <1>9, <3>3 DEF Write
    <3> QED
      BY <2>l, <3>1, <3>2, <3>3
  <2>4. /\ \A y \in Actors \ {x} : job'[y] = job[y]
        /\ job'[x].pc \in {"idle", "firing"}
    BY <2>l, <2>1, <1>t, JobMoves
  <2>5. ClaimHeld(x)' /\ OutcomeTrue(x)'
    BY <2>l, <2>4 DEF ClaimHeld, OutcomeTrue, Working
  <2>6. AuditTrue(l)'
    BY <2>l, <2>1, <2>2, <1>t DEF AuditTrue
  <2>7. /\ line'[l].status = "triggered" => l \in bought'
        /\ line'[l].status \in {"working", "cancelled", "failed"} => l \notin bought'
    BY <2>l, <2>1, <2>2, <2>3, <1>t DEF OutcomeTrue
  <2> QED
    BY <2>l, <2>1, <2>2, <2>3, <2>4, <2>5, <2>6, <2>7, OwnLine
<1>10. ASSUME NEW x \in Actors, Abort(x) PROVE Sound'
  BY <1>10, QuietStep DEF Abort, placeVars
<1>11. ASSUME NEW x \in Actors, Crash(x) PROVE Sound'
  <2>1. /\ job' = [job EXCEPT ![x] = Idle] /\ knows' = [l \in Ids |-> knows[l] \ {x}]
        /\ UNCHANGED <<line, audit, bought>>
    BY <1>11 DEF Crash, placeVars
  <2>2. ClaimHeld(x)' /\ OutcomeTrue(x)'
    BY <2>1, <1>fun DEF ClaimHeld, OutcomeTrue, Working, Idle
  <2>3. ASSUME NEW y \in Actors \ {x} PROVE ClaimHeld(y)' /\ OutcomeTrue(y)'
    <3>1. ClaimHeld(y) /\ OutcomeTrue(y) /\ job'[y] = job[y] /\ Current(y)' = Current(y)
      BY <2>1, <1>t, <1>fun DEF Current
    <3>2. CASE job[y].pc \in Working \cup {"found"}
      <4>1. Current(y) \in Ids
        BY <1>t, <3>2, AtLine DEF Working
      <4>2. knows'[Current(y)] = knows[Current(y)] \ {x}
        BY <2>1, <4>1
      <4> QED
        BY <2>1, <3>1, <4>2 DEF ClaimHeld, OutcomeTrue
    <3>3. CASE job[y].pc \notin Working \cup {"found"}
      BY <3>1, <3>3 DEF ClaimHeld, OutcomeTrue, Working
    <3> QED
      BY <3>2, <3>3
  <2>4. \A l \in Ids : AuditTrue(l)' /\ Truthful(l)'
    BY <2>1 DEF Sound, AuditTrue, Truthful
  <2> QED
    BY <2>2, <2>3, <2>4 DEF Sound
<1>12. ASSUME NEW l \in Ids, Age(l) PROVE Sound'
  <2>1. /\ line[l].status = "pending_fire" /\ line' = [line EXCEPT ![l].aged = TRUE]
        /\ UNCHANGED <<knows, audit, bought, job>>
        /\ \A y \in Actors : job[y].pc \in Working => Current(y) # l
    <3>1. ~AtWork(l)
      BY <1>12 DEF Age, SlipIf
    <3> QED
      BY <1>12, <3>1 DEF Age, AtWork, placeVars
  <2>2. /\ line'[l].status = "pending_fire" /\ line'[l].aged
        /\ \A k \in Ids \ {l} : line'[k] = line[k]
    BY <2>1, <1>fun DEF Row
  <2>3. AuditTrue(l)'
    BY <2>1, <1>t DEF AuditTrue
  <2> DEFINE S == {}
  <2>4. S \in SUBSET Actors /\ \A x \in S : ClaimHeld(x)' /\ OutcomeTrue(x)'
    OBVIOUS
  <2> HIDE DEF S
  <2> QED
    BY <2>1, <2>2, <2>3, <2>4, OneLine
<1>13. ASSUME NEW l \in Ids, Trigger(l) PROVE Sound'
  <2>1. Snapshot(l, line[l].arm) \in Sight
    BY <1>t, SnapshotTyped
  <2>2. [pc |-> "read", at |-> Snapshot(l, line[l].arm), todo |-> {}, outcome |-> "none"] \in Job
    BY <2>1 DEF Job, Pcs
  <2>3. UNCHANGED <<line, knows, audit, bought>>
    BY <1>13 DEF Trigger, placeVars
  <2>4. \E j \in Job : j.pc \in {"read", "moving"} /\ job' = [job EXCEPT ![Client] = j]
    BY <1>13, <2>2 DEF Trigger
  <2> QED
    BY <1>a, <2>3, <2>4, QuietStep
<1>14. ASSUME NEW l \in Ids, NEW trigger \in Prices, Drag(l, trigger) PROVE Sound'
  <2> DEFINE s == [id |-> l, trigger |-> trigger, arm |-> Arm(trigger), from |-> NoPrice]
             j == [pc |-> "moving", todo |-> {}, outcome |-> "none", at |-> s]
  <2>1. s \in Sight
    BY <1>t DEF Arm, Sight, TypeOK
  <2>2. j \in Job
    BY <2>1 DEF Job, Pcs
  <2>3. UNCHANGED <<line, knows, audit, bought>>
    BY <1>14 DEF Drag, placeVars
  <2>4. \E k \in Job : k.pc \in {"read", "moving"} /\ job' = [job EXCEPT ![Client] = k]
    BY <1>14, <2>2 DEF Drag
  <2> QED
    BY <1>a, <2>3, <2>4, QuietStep
<1>15. CASE TriggerQuote
  BY <1>15, <1>a, QuietStep DEF TriggerQuote, placeVars
<1>16. CASE Move
  <2>l. PICK l : l = Current(Client)
    OBVIOUS
  <2>1. l \in Ids /\ Rest(Client) /\ UNCHANGED <<knows, audit, bought>>
    BY <2>l, <1>16, <1>a, <1>t, AtLine DEF Move, placeVars
  <2>2. CASE line[l].status = "working"
    <3>1. line' = [line EXCEPT ![l].trigger = job[Client].at.trigger, ![l].arm = job[Client].at.arm]
      BY <2>l, <1>16, <2>2 DEF Move, Current
    <3>2. line'[l].status = "working" /\ \A k \in Ids \ {l} : line'[k] = line[k]
      BY <2>l, <2>1, <2>2, <3>1, <1>fun DEF Row
    <3>3. /\ \A y \in Actors : job[y].pc \in Working => Current(y) # l
          /\ \A y \in Actors : job[y].pc = "found" /\ Current(y) = l => y \notin knows[l]
      BY <2>l, <2>1, <2>2, Unattended
    <3>4. (\A y \in Actors \ {Client} : job'[y] = job[y]) /\ job'[Client].pc = "idle"
      BY <2>l, <2>1, <1>a, <1>t, JobMoves
    <3>5. ClaimHeld(Client)' /\ OutcomeTrue(Client)'
      BY <2>l, <3>4 DEF ClaimHeld, OutcomeTrue, Working
    <3>6. AuditTrue(l)'
      BY <2>l, <2>1, <1>t DEF AuditTrue
    <3>7. l \notin bought
      BY <2>l, <2>1, <2>2, <1>truth
    <3>8. \A y \in Actors : job[y].pc = "found" /\ Current(y) = l => y \notin knows'[l]
      BY <2>1, <3>3
    <3> QED
      BY <2>l, <1>a, <2>1, <3>2, <3>3, <3>4, <3>5, <3>6, <3>7, <3>8, OwnLine
  <2>3. CASE line[l].status # "working"
    <3>1. UNCHANGED line
      BY <2>l, <1>16, <2>3 DEF Move, Current
    <3> QED
      BY <2>l, <1>a, <2>1, <3>1, QuietStep
  <2> QED
    BY <2>l, <2>2, <2>3
<1>17. ASSUME NEW l \in Ids, Cancel(l) PROVE Sound'
  <2>1. /\ line[l].status = "working" /\ line' = [line EXCEPT ![l].status = "cancelled"]
        /\ UNCHANGED <<knows, audit, bought, job>>
    BY <1>17 DEF Cancel, placeVars
  <2>2. line'[l].status = "cancelled" /\ \A k \in Ids \ {l} : line'[k] = line[k]
    BY <2>1, <1>fun DEF Row
  <2>3. /\ \A y \in Actors : job[y].pc \in Working => Current(y) # l
        /\ \A y \in Actors : job[y].pc = "found" /\ Current(y) = l => y \notin knows[l]
    BY <2>1, Unattended
  <2>4. AuditTrue(l)' /\ l \notin bought
    BY <2>1, <1>t, <1>truth DEF AuditTrue
  <2> DEFINE S == {}
  <2>5. S \in SUBSET Actors /\ \A x \in S : ClaimHeld(x)' /\ OutcomeTrue(x)'
    OBVIOUS
  <2> HIDE DEF S
  <2> QED
    BY <2>1, <2>2, <2>3, <2>4, <2>5, OneLine
<1>18. ASSUME NEW p \in Prices,
              (\E l \in Ids : Resize(l)) \/ SwitchMode \/ MovePrice(p) \/ Lapse \/ UNCHANGED vars
       PROVE  Sound'
  <2>1. UNCHANGED <<line, knows, audit, bought, job>>
    BY <1>18 DEF Resize, SwitchMode, MovePrice, Lapse, vars, placeVars
  <2> QED
    BY <1>a, <2>1, QuietStep
<1>19. Opening \in Prices /\ FALSE \in BOOLEAN
  BY LinesAssumption
<1> QED
  BY <1>1, <1>2, <1>3, <1>4, <1>5, <1>6, <1>7, <1>8, <1>9, <1>10, <1>11, <1>12, <1>13, <1>14,
     <1>15, <1>16, <1>17, <1>18, <1>19, Steps

\* The invariant of any lines, instances, faults and moves.
LEMMA Invariant == Spec => []LinesInv
<1>1. Init => LinesInv
  BY InitInv
<1>2. LinesInv /\ [Next]_vars => LinesInv'
  <2> SUFFICES ASSUME LinesInv, [Next]_vars PROVE LinesInv'
    OBVIOUS
  <2>1. TypeOK /\ (slips = {} => Sound)
    BY DEF LinesInv
  <2>2. TypeOK'
    BY <2>1, TypeStep
  <2>3. ASSUME slips' = {} PROVE Sound'
    <3>1. slips = {}
      BY <2>1, <2>3, SlipsStay
    <3> QED
      BY <2>1, <2>3, <3>1, SoundStep
  <2> QED
    BY <2>2, <2>3 DEF LinesInv
<1> QED
  BY <1>1, <1>2, PTL DEF Spec

-----------------------------------------------------------------------------
\* Type correctness, with the bounds and the kinds of slips.
THEOREM TypeCorrect == Spec => []TypeOK
<1>1. LinesInv => TypeOK
  BY DEF LinesInv
<1> QED
  BY <1>1, Invariant, PTL

\* fire, recoverPendingUngrouped, triggerNow, update and cancel, interleaved in any
\* way on any instances: until an order is refused that is live, or a worker
\* outlives its claim, what a line says of its order is so.
THEOREM LinesAreTruthful == Spec => []LineTellsTheTruth
<1>1. LinesInv => LineTellsTheTruth
  BY DEF LinesInv, LineTellsTheTruth, Sound
<1> QED
  BY <1>1, Invariant, PTL

=============================================================================
