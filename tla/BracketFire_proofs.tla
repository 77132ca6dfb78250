------------------------ MODULE BracketFire_proofs ------------------------
(***************************************************************************)
(* Proofs about BracketFire, for any brackets, legs, workers and instances. *)
(***************************************************************************)
EXTENDS BracketFire, FiniteSetTheorems, TLAPS

-----------------------------------------------------------------------------
(* Typing.                                                                 *)

GroupRow == [status : GroupStatus, fireLeg : Legs \cup {Nobody},
             owner : Instances \cup {Nobody}, expired : BOOLEAN]
LegRow == [status : LegStatus, marker : Legs \cup {Nobody}]
JobRow == [leg : Legs \cup {Nobody}, owner : Instances \cup {Nobody},
           retired : SUBSET Legs, recovering : BOOLEAN, keyed : BOOLEAN]

\* The rows that group statements write, and a job that is over, are typed.
LEMMA RowsTyped ==
  /\ \A s \in GroupStatus : FreeGroup(s) \in GroupRow
  /\ \A l \in Legs \cup {Nobody} : [FreeGroup("fired") EXCEPT !.fireLeg = l] \in GroupRow
  /\ \A l \in Legs, i \in Instances :
       [status |-> "pending_fire", fireLeg |-> l, owner |-> i, expired |-> FALSE] \in GroupRow
  /\ IdleJob \in JobRow
  /\ \A l \in Legs \cup {Nobody}, i \in Instances, R \in SUBSET Legs, b \in BOOLEAN :
       Job(l, i, R, b) \in JobRow
BY DEF FreeGroup, GroupRow, GroupStatus, IdleJob, Job, JobRow

\* A statement on a set of legs writes typed rows.
LEMMA SetLegsTyped ==
  ASSUME TypeOK, NEW ls, NEW s \in LegStatus, NEW m \in Legs \cup {Nobody}
  PROVE  SetLegs(ls, s, m) \in [Legs -> LegRow]
BY DEF SetLegs, TypeOK, LegRow

\* Closing a group that has no leg left keeps its row typed.
LEMMA ClosedIfEmptyTyped ==
  ASSUME NEW g, NEW row \in GroupRow, NEW legs
  PROVE  ClosedIfEmpty(g, row, legs) \in GroupRow
BY RowsTyped DEF ClosedIfEmpty, GroupStatus

\* Changing one field of one row keeps the rows typed.
LEMMA FieldsTyped ==
  ASSUME NEW rows \in [Groups -> GroupRow], NEW g,
         NEW jobs \in [Workers -> JobRow], NEW w, NEW R \in SUBSET Legs
  PROVE  /\ [rows EXCEPT ![g].expired = FALSE] \in [Groups -> GroupRow]
         /\ [rows EXCEPT ![g].status = "failed"] \in [Groups -> GroupRow]
         /\ [jobs EXCEPT ![w].retired = R] \in [Workers -> JobRow]
         /\ [jobs EXCEPT ![w].keyed = TRUE] \in [Workers -> JobRow]
         /\ [jobs EXCEPT ![w].keyed = FALSE] \in [Workers -> JobRow]
<1>1. \A r \in GroupRow : /\ [r EXCEPT !.expired = FALSE] \in GroupRow
                          /\ [r EXCEPT !.status = "failed"] \in GroupRow
  BY DEF GroupRow, GroupStatus
<1>2. [rows EXCEPT ![g].expired = FALSE] \in [Groups -> GroupRow]
  BY <1>1
<1>3. [rows EXCEPT ![g].status = "failed"] \in [Groups -> GroupRow]
  BY <1>1
<1>4. [jobs EXCEPT ![w].retired = R] \in [Workers -> JobRow]
  BY DEF JobRow
<1>5. /\ [jobs EXCEPT ![w].keyed = TRUE] \in [Workers -> JobRow]
      /\ [jobs EXCEPT ![w].keyed = FALSE] \in [Workers -> JobRow]
  BY DEF JobRow
<1> QED
  BY <1>2, <1>3, <1>4, <1>5

\* Brackets start typed.
LEMMA InitType == Init => TypeOK
BY RowsTyped, BracketAssumption
   DEF Init, TypeOK, GroupRow, JobRow, LegStatus, GroupStatus, Phases

\* Slips are recorded and stay so.
LEMMA SlipsGrow == [Next]_vars => slips \subseteq slips' /\ slips' \subseteq slips \cup SlipKinds
<1> SUFFICES ASSUME [Next]_vars
             PROVE  slips' = slips \/ \E kind \in SlipKinds : slips' = slips \cup {kind}
  OBVIOUS
<1> USE DEF SlipIf, SlipKinds
<1>1. ASSUME NEW w \in Workers, NEW s, SettleNoSend(w, s)
      PROVE  slips' = slips \/ \E kind \in SlipKinds : slips' = slips \cup {kind}
  BY <1>1 DEF SettleNoSend
<1>2. ASSUME NEW w \in Workers, Fire(w) \/ Recover(w)
      PROVE  slips' = slips \/ \E kind \in SlipKinds : slips' = slips \cup {kind}
  BY <1>1, <1>2 DEF Fire, Claim, GateMismatch, GateExpired, PassGate, Recover, TakeLease,
                    Prepare, ReadAudit
<1>3. ASSUME NEW w \in Workers, Place(w)
      PROVE  slips' = slips \/ \E kind \in SlipKinds : slips' = slips \cup {kind}
  BY <1>3 DEF Place, TradingDisabled, ClaimKeyFails, ClaimKey, Replay, CannotTell,
              RefuseUnsent, Send, Accepted, Refused, Unconfirmed
<1>4. ASSUME NEW w \in Workers, Settle(w) \/ Crash(w)
      PROVE  slips' = slips \/ \E kind \in SlipKinds : slips' = slips \cup {kind}
  BY <1>1, <1>4 DEF Settle, Finish, FinishFails, Keep, Unwind, Crash
<1>5. ASSUME NEW l \in Legs, \/ Arm(l) \/ Cancel(l) \/ CancelOrphanedBrackets(l)
                             \/ ExpireSettled(l) \/ BrokerStep(l) \/ AgeAudit(l)
      PROVE  slips' = slips \/ \E kind \in SlipKinds : slips' = slips \cup {kind}
  BY <1>5 DEF Arm, Cancel, CancelOrphanedBrackets, ExpireSettled, Retire, BrokerStep, AgeAudit
<1> QED
  BY <1>2, <1>3, <1>4, <1>5 DEF Next, vars, ExpireLease, SetKillSwitch

\* Every action keeps the types.
LEMMA TypeStep == TypeOK /\ [Next]_vars => TypeOK'
<1> SUFFICES ASSUME TypeOK, [Next]_vars PROVE TypeOK'
  OBVIOUS
<1>rows. /\ group \in [Groups -> GroupRow] /\ leg \in [Legs -> LegRow]
         /\ TypeOK' <=> /\ (group \in [Groups -> GroupRow])'
                        /\ (leg \in [Legs -> LegRow])'
                        /\ (audit \in [Legs -> {"none", "fresh", "stale", "placed"}])'
                        /\ (order \in [Legs -> {"none", "inflight", "live", "filled", "dead"}])'
                        /\ enabled' \in BOOLEAN
                        /\ (pc \in [Workers -> Phases])'
                        /\ (job \in [Workers -> JobRow])'
  BY SlipsGrow DEF TypeOK, GroupRow, LegRow, JobRow
<1>job. job \in [Workers -> JobRow]
  BY DEF TypeOK, JobRow
<1> USE BracketAssumption DEF Goto, Rest
<1>1. ASSUME NEW l \in Legs, NEW s \in {"cancelled", "expired"}, Retire(l, s) PROVE TypeOK'
  <2>1. SetLegs({l}, s, Nobody) \in [Legs -> LegRow]
    BY SetLegsTyped DEF LegStatus
  <2>2. group[GroupOf[l]] \in GroupRow
    BY <1>rows
  <2> QED
    BY <1>1, <1>rows, <1>job, <2>1, <2>2, ClosedIfEmptyTyped DEF Retire, TypeOK
<1>2. ASSUME NEW l \in Legs, Arm(l) PROVE TypeOK'
  <2>1. SetLegs({l}, "working", Nobody) \in [Legs -> LegRow]
    BY SetLegsTyped DEF LegStatus
  <2>2. FreeGroup("working") \in GroupRow
    BY RowsTyped DEF GroupStatus
  <2> QED
    <3>1. group' = group \/ group' = [group EXCEPT ![GroupOf[l]] = FreeGroup("working")]
      BY <1>2 DEF Arm
    <3>2. group' \in [Groups -> GroupRow]
      BY <1>rows, <2>2, <3>1
    <3> QED
      BY <1>2, <1>rows, <1>job, <2>1, <3>2 DEF Arm, TypeOK
<1>3. ASSUME NEW w \in Workers, NEW l \in Legs, NEW i \in Instances, Claim(w, l, i)
      PROVE  TypeOK'
  <2>1. SetLegs(Armed(l), "cancelled", l) \in [Legs -> LegRow]
    BY SetLegsTyped DEF LegStatus
  <2>2. [status |-> "pending_fire", marker |-> Nobody] \in LegRow
    BY DEF LegRow, LegStatus
  <2>3. leg' \in [Legs -> LegRow]
    BY <1>3, <2>1, <2>2 DEF Claim
  <2>4. group' \in [Groups -> GroupRow]
    BY <1>3, <1>rows, RowsTyped DEF Claim
  <2>5. Armed(l) \in SUBSET Legs
    BY DEF Armed, Siblings, LegsOf
  <2>6. pc' \in [Workers -> Phases] /\ job' \in [Workers -> JobRow]
    BY <1>3, <1>job, <2>5, RowsTyped DEF Claim, TypeOK, Phases
  <2> QED
    BY <1>3, <1>rows, <2>3, <2>4, <2>6 DEF Claim, TypeOK
<1>4. ASSUME NEW w \in Workers, NEW s \in {"working", "expired", "failed"},
             SettleNoSend(w, s)
      PROVE  TypeOK'
  <2> DEFINE l == job[w].leg
             legs == [SetLegs(job[w].retired, "working", Nobody) EXCEPT
                        ![l] = [status |-> s, marker |-> Nobody]]
  <2>1. SetLegs(job[w].retired, "working", Nobody) \in [Legs -> LegRow]
    BY SetLegsTyped DEF LegStatus
  <2>2. [status |-> s, marker |-> Nobody] \in LegRow
    BY DEF LegRow, LegStatus
  <2>3. legs \in [Legs -> LegRow]
    BY <2>1, <2>2
  <2>4. ClosedIfEmpty(GroupOf[l], FreeGroup("working"), legs) \in GroupRow
    BY RowsTyped, ClosedIfEmptyTyped DEF GroupStatus
  <2>5. leg' \in [Legs -> LegRow] /\ group' \in [Groups -> GroupRow]
    BY <1>4, <1>rows, <2>3, <2>4 DEF SettleNoSend
  <2> QED
    BY <1>4, <1>rows, <1>job, <2>5, RowsTyped DEF SettleNoSend, TypeOK, Phases
<1>5. ASSUME NEW w \in Workers, NEW g \in Groups, NEW i \in Instances, TakeLease(w, g, i)
      PROVE  TypeOK'
  <2>1. group' \in [Groups -> GroupRow]
    BY <1>5, <1>rows DEF TakeLease, GroupRow
  <2>2. group[g].fireLeg \in Legs \cup {Nobody}
    BY <1>rows DEF GroupRow
  <2>3. job' \in [Workers -> JobRow]
    BY <1>5, <1>job, <2>2, RowsTyped DEF TakeLease
  <2> QED
    BY <1>5, <1>rows, <2>1, <2>3 DEF TakeLease, TypeOK, Phases
<1>6. ASSUME NEW w \in Workers, Prepare(w) PROVE TypeOK'
  <2> DEFINE l == job[w].leg
             live == Armed(l)
             mine == {s \in Siblings(l) : leg[s] = [status |-> "cancelled", marker |-> l]}
  <2>1. l \in Legs \cup {Nobody}
    BY DEF TypeOK
  <2>2. SetLegs(live, "cancelled", l) \in [Legs -> LegRow]
    BY <2>1, SetLegsTyped DEF LegStatus
  <2>3. leg' \in [Legs -> LegRow]
    <3>1. CASE leg[l].status \in {"working", "pending_fire", "triggered"}
      <4> DEFINE S == SetLegs(live, "cancelled", l)
      <4>1. leg' = [S EXCEPT ![l].status = IF @ = "working" THEN "pending_fire" ELSE @]
        BY <1>6, <3>1 DEF Prepare
      <4>2. S \in [Legs -> LegRow]
        BY <2>2
      <4>3. \A r \in LegRow :
              [r EXCEPT !.status = IF @ = "working" THEN "pending_fire" ELSE @] \in LegRow
        BY DEF LegRow, LegStatus
      <4> HIDE DEF S
      <4> QED
        BY <4>1, <4>2, <4>3
    <3>2. CASE leg[l].status \notin {"working", "pending_fire", "triggered"}
      BY <1>6, <1>rows, <3>2 DEF Prepare
    <3> QED
      BY <3>1, <3>2
  <2>4. group' \in [Groups -> GroupRow]
    <3>1. CASE leg[l].status \in {"working", "pending_fire", "triggered"}
      BY <1>6, <1>rows, <3>1 DEF Prepare
    <3>2. CASE leg[l].status \notin {"working", "pending_fire", "triggered"}
      <4>1. \/ group' = group
            \/ group' = [group EXCEPT ![GroupOf[l]].status = "failed"]
        BY <1>6, <3>2 DEF Prepare
      <4>2. [group EXCEPT ![GroupOf[l]].status = "failed"] \in [Groups -> GroupRow]
        BY <1>rows, FieldsTyped, <1>job DEF TypeOK, JobRow
      <4> QED
        BY <1>rows, <4>1, <4>2
    <3> QED
      BY <3>1, <3>2
  <2>5. live \cup mine \in SUBSET Legs
    BY DEF Armed, Siblings, LegsOf
  <2>6. pc' \in [Workers -> Phases] /\ job' \in [Workers -> JobRow]
    <3>1. CASE leg[l].status \in {"working", "pending_fire", "triggered"}
      <4>1. /\ pc' = [pc EXCEPT ![w] = "audit"]
            /\ job' = [job EXCEPT ![w].retired = live \cup mine]
        BY <1>6, <3>1 DEF Prepare
      <4> QED
        BY <1>job, <2>5, <4>1, FieldsTyped, <1>rows DEF TypeOK, Phases
    <3>2. CASE leg[l].status \notin {"working", "pending_fire", "triggered"}
      <4>1. pc' = [pc EXCEPT ![w] = "idle"] /\ job' = [job EXCEPT ![w] = IdleJob]
        BY <1>6, <3>2 DEF Prepare
      <4> QED
        BY <4>1, <1>job, RowsTyped DEF TypeOK, Phases
    <3> QED
      BY <3>1, <3>2
  <2> QED
    BY <1>6, <1>rows, <2>3, <2>4, <2>6 DEF Prepare, TypeOK
<1>7. ASSUME NEW w \in Workers, PassGate(w) \/ ReadAudit(w) \/ Place(w) PROVE TypeOK'
  <2>1. pc' \in [Workers -> Phases]
    BY <1>7
       DEF TypeOK, Phases, PassGate, ReadAudit, Place, TradingDisabled, ClaimKeyFails,
           DeleteKey, ClaimKey,
       Replay, CannotTell, RefuseUnsent, Send, Accepted, Refused, Unconfirmed
  <2>2. job' \in [Workers -> JobRow]
    <3>1. \/ job' = job
          \/ job' = [job EXCEPT ![w] = IdleJob]
          \/ job' = [job EXCEPT ![w].keyed = TRUE]
          \/ job' = [job EXCEPT ![w].keyed = FALSE]
      BY <1>7 DEF PassGate, ReadAudit, Place, TradingDisabled, ClaimKeyFails, DeleteKey,
         ClaimKey, Replay, CannotTell, RefuseUnsent, Send, Accepted, Refused, Unconfirmed
    <3>2. /\ [job EXCEPT ![w].keyed = TRUE] \in [Workers -> JobRow]
          /\ [job EXCEPT ![w].keyed = FALSE] \in [Workers -> JobRow]
      BY <1>job DEF JobRow
    <3> QED
      BY <3>1, <3>2, <1>job, RowsTyped
  <2>3. audit' \in [Legs -> {"none", "fresh", "stale", "placed"}]
    <3>1. \/ audit' = audit
          \/ audit' = [audit EXCEPT ![job[w].leg] = "fresh"]
          \/ audit' = [audit EXCEPT ![job[w].leg] = "none"]
          \/ audit' = [audit EXCEPT ![job[w].leg] = "placed"]
      BY <1>7 DEF PassGate, ReadAudit, Place, TradingDisabled, ClaimKeyFails, DeleteKey,
         ClaimKey, Replay, CannotTell, RefuseUnsent, Send, Accepted, Refused, Unconfirmed
    <3> QED
      BY <3>1 DEF TypeOK
  <2>4. order' \in [Legs -> {"none", "inflight", "live", "filled", "dead"}]
    BY <1>7 DEF TypeOK, PassGate, ReadAudit, Place, TradingDisabled, ClaimKeyFails, DeleteKey,
       ClaimKey, Replay, CannotTell, RefuseUnsent, Send, Accepted, Refused, Unconfirmed
  <2>5. UNCHANGED <<group, leg, enabled>>
    BY <1>7
       DEF PassGate, ReadAudit, Place, TradingDisabled, ClaimKeyFails, DeleteKey, ClaimKey,
           Replay,
       CannotTell, RefuseUnsent, Send, Accepted, Refused, Unconfirmed
  <2> QED
    BY <2>1, <2>2, <2>3, <2>4, <2>5, <1>rows DEF TypeOK
<1>8. ASSUME NEW w \in Workers, Finish(w) PROVE TypeOK'
  <2> DEFINE l == job[w].leg
             gone == {s \in Siblings(l) : \/ leg[s].status = "working"
                                          \/ leg[s] = [status |-> "cancelled", marker |-> l]}
  <2>1. SetLegs(gone, "cancelled", Nobody) \in [Legs -> LegRow]
    BY SetLegsTyped DEF LegStatus
  <2>2. leg' \in [Legs -> LegRow]
    <3> DEFINE S == SetLegs(gone, "cancelled", Nobody)
    <3>1. leg' = [S EXCEPT ![l].status = "triggered"]
      BY <1>8 DEF Finish
    <3>2. S \in [Legs -> LegRow]
      BY <2>1
    <3> HIDE DEF S
    <3> QED
      BY <3>1, <3>2 DEF LegRow, LegStatus
  <2>3. l \in Legs \cup {Nobody}
    BY DEF TypeOK
  <2>4. group' \in [Groups -> GroupRow]
    BY <1>8, <1>rows, <2>3, RowsTyped DEF Finish
  <2> QED
    BY <1>8, <1>rows, <1>job, <2>2, <2>4, RowsTyped DEF Finish, TypeOK, Phases
<1>9. ASSUME NEW w \in Workers, FinishFails(w) \/ Keep(w) \/ Crash(w) PROVE TypeOK'
  <2>1. \/ group' = group
        \/ group' = [group EXCEPT ![GroupOf[job[w].leg]].expired = FALSE]
    BY <1>9 DEF FinishFails, Keep, Crash
  <2>2. group' \in [Groups -> GroupRow]
    <3>1. [group EXCEPT ![GroupOf[job[w].leg]].expired = FALSE] \in [Groups -> GroupRow]
      BY <1>rows, FieldsTyped, <1>job DEF TypeOK, JobRow
    <3> QED
      BY <1>rows, <2>1, <3>1
  <2>3. pc' = [pc EXCEPT ![w] = "idle"] /\ job' = [job EXCEPT ![w] = IdleJob]
    BY <1>9 DEF FinishFails, Keep, Crash
  <2>4. UNCHANGED <<leg, audit, order, enabled>>
    BY <1>9 DEF FinishFails, Keep, Crash
  <2> QED
    BY <1>rows, <1>job, <2>2, <2>3, <2>4, RowsTyped DEF TypeOK, Phases
<1>10. ASSUME NEW l \in Legs, BrokerStep(l) \/ AgeAudit(l) PROVE TypeOK'
  <2>1. CASE BrokerStep(l)
    BY <1>rows, <1>job, <2>1 DEF BrokerStep, TypeOK
  <2>2. CASE AgeAudit(l)
    BY <1>rows, <1>job, <2>2 DEF AgeAudit, TypeOK
  <2> QED
    BY <1>10, <2>1, <2>2
<1>11. ASSUME NEW g \in Groups, ExpireLease(g) PROVE TypeOK'
  <2>1. group' \in [Groups -> GroupRow]
    BY <1>11, <1>rows DEF ExpireLease, GroupRow
  <2> QED
    BY <1>11, <1>rows, <1>job, <2>1 DEF ExpireLease, TypeOK
<1>12. ASSUME NEW on \in BOOLEAN, SetKillSwitch(on) PROVE TypeOK'
  BY <1>12 DEF SetKillSwitch, TypeOK
<1>13. CASE UNCHANGED vars
  BY <1>13 DEF vars, TypeOK
<1> QED
  BY <1>1, <1>2, <1>3, <1>4, <1>5, <1>6, <1>7, <1>8, <1>9, <1>10, <1>11, <1>12, <1>13
     DEF Next, Fire, Recover, Settle, GateMismatch, GateExpired, Unwind, Cancel,
         CancelOrphanedBrackets, ExpireSettled

-----------------------------------------------------------------------------
(* The inductive invariant.                                                *)

\* Nothing is claimed, audited or bought at the start.
LEMMA InitInv == Init => BracketInv
BY InitType, BracketAssumption
   DEF Init, BracketInv, Sound, FreeGroup, IdleJob, Job, JobSound, KeyHeld, AuditCovers, LegAgrees,
       GroupAgrees, OneSender, OneOpenClaim, OneActive, Sends, Open, Active, Exposed, Bought

\* The inductive step, one action at a time: a step that breaks a part is a slip.
LEMMA InvStep == BracketInv /\ [Next]_vars => BracketInv'
<1> SUFFICES ASSUME BracketInv, [Next]_vars, slips' = {} PROVE Sound'
  BY TypeStep DEF BracketInv
<1>slip. slips = {} /\ Sound
  BY SlipsGrow DEF BracketInv
<1>type. TypeOK /\ TypeOK'
  BY TypeStep DEF BracketInv
<1>fun. /\ GroupOf \in [Legs -> Groups] /\ Nobody \notin Legs
        /\ group \in [Groups -> GroupRow] /\ leg \in [Legs -> LegRow]
        /\ audit \in [Legs -> {"none", "fresh", "stale", "placed"}]
        /\ order \in [Legs -> {"none", "inflight", "live", "filled", "dead"}]
        /\ pc \in [Workers -> Phases] /\ job \in [Workers -> JobRow]
  BY <1>type, BracketAssumption DEF TypeOK, GroupRow, LegRow, JobRow
<1>w. \A v \in Workers : JobSound(v) /\ KeyHeld(v)
  BY <1>slip DEF Sound
<1>l. \A x \in Legs : AuditCovers(x) /\ LegAgrees(x)
  BY <1>slip DEF Sound
<1>g. \A h \in Groups : GroupAgrees(h)
  BY <1>slip DEF Sound
<1>o. OneSender /\ OneOpenClaim /\ OneActive
  BY <1>slip DEF Sound
<1> USE <1>fun DEF Goto
<1>1. ASSUME NEW l \in Legs, Arm(l) PROVE Sound'
  <2>1. /\ group[GroupOf[l]].status \notin {"pending_fire", "fired"}
        /\ group'[GroupOf[l]].status = "working"
        /\ \A h \in Groups \ {GroupOf[l]} : group'[h] = group[h]
    BY <1>1 DEF Arm, FreeGroup
  <2>2. /\ leg'[l].status = "working"
        /\ \A x \in Legs \ {l} : leg'[x] = leg[x]
        /\ leg[l].status \notin {"pending_fire", "triggered"}
    BY <1>1 DEF Arm, SetLegs
  <2>3. UNCHANGED <<audit, order, enabled, pc, job>>
    BY <1>1 DEF Arm
  <2>w. ASSUME NEW v \in Workers PROVE JobSound(v)' /\ KeyHeld(v)'
    BY <2>1, <2>3, <1>w DEF JobSound, KeyHeld, HoldsClaim, Reserved, Sends, Bought
  <2>l. ASSUME NEW x \in Legs PROVE AuditCovers(x)' /\ LegAgrees(x)'
    BY <2>1, <2>2, <2>3, <1>l DEF AuditCovers, LegAgrees, Reserved, Bought
  <2>g. ASSUME NEW h \in Groups PROVE GroupAgrees(h)'
    BY <2>1, <2>2, <2>3, <1>g DEF GroupAgrees, Siblings, LegsOf, Bought
  <2>o. OneSender' /\ OneOpenClaim' /\ OneActive'
    BY <2>1, <2>3, <1>o DEF OneSender, OneOpenClaim, OneActive, Sends, Open, Active, Exposed
  <2> QED
    BY <2>w, <2>l, <2>g, <2>o DEF Sound
<1>2. ASSUME NEW l \in Legs, NEW s \in {"cancelled", "expired"}, Retire(l, s) PROVE Sound'
  <2>1. \A h \in Groups :
         \/ group'[h] = group[h]
         \/ group[h].status = "working" /\ group'[h].status = "closed"
    BY <1>2 DEF Retire, ClosedIfEmpty, FreeGroup
  <2>2. /\ leg[l].status = "working" /\ leg'[l].status = s
        /\ \A x \in Legs \ {l} : leg'[x] = leg[x]
    BY <1>2 DEF Retire, SetLegs
  <2>3. UNCHANGED <<audit, order, enabled, pc, job>>
    BY <1>2 DEF Retire
  <2>w. ASSUME NEW v \in Workers PROVE JobSound(v)' /\ KeyHeld(v)'
    BY <2>1, <2>3, <1>w DEF JobSound, KeyHeld, HoldsClaim, Reserved, Sends, Bought
  <2>l. ASSUME NEW x \in Legs PROVE AuditCovers(x)' /\ LegAgrees(x)'
    BY <2>1, <2>2, <2>3, <1>l DEF AuditCovers, LegAgrees, Reserved, Bought
  <2>g. ASSUME NEW h \in Groups PROVE GroupAgrees(h)'
    BY <2>1, <2>2, <2>3, <1>g DEF GroupAgrees, Siblings, LegsOf, Bought
  <2>o. OneSender' /\ OneOpenClaim' /\ OneActive'
    BY <2>1, <2>3, <1>o DEF OneSender, OneOpenClaim, OneActive, Sends, Open, Active, Exposed
  <2> QED
    BY <2>w, <2>l, <2>g, <2>o DEF Sound
<1>3. ASSUME NEW on \in BOOLEAN, SetKillSwitch(on) PROVE Sound'
  <2>w. ASSUME NEW v \in Workers PROVE JobSound(v)' /\ KeyHeld(v)'
    BY <1>3, <1>w
       DEF SetKillSwitch, JobSound, KeyHeld, HoldsClaim, Reserved, Sends, Bought
  <2>l. ASSUME NEW x \in Legs PROVE AuditCovers(x)' /\ LegAgrees(x)'
    BY <1>3, <1>l DEF SetKillSwitch, AuditCovers, LegAgrees, Reserved, Bought
  <2>g. ASSUME NEW h \in Groups PROVE GroupAgrees(h)'
    BY <1>3, <1>g DEF SetKillSwitch, GroupAgrees, Bought
  <2>o. OneSender' /\ OneOpenClaim' /\ OneActive'
    BY <1>3, <1>o
       DEF SetKillSwitch, OneSender, OneOpenClaim, OneActive, Sends, Open, Active, Exposed
  <2> QED
    BY <2>w, <2>l, <2>g, <2>o DEF Sound
<1>4. ASSUME NEW w \in Workers, NEW l \in Legs, NEW i \in Instances, Claim(w, l, i)
      PROVE  Sound'
  <2>w. ASSUME NEW v \in Workers PROVE JobSound(v)' /\ KeyHeld(v)'
    BY <1>4, <1>w, <1>l
       DEF Claim, Job, Armed, SetLegs, JobSound, KeyHeld, HoldsClaim, Reserved, Sends, Bought,
           LegAgrees
  <2>l. ASSUME NEW x \in Legs PROVE AuditCovers(x)' /\ LegAgrees(x)'
    BY <1>4, <1>l DEF Claim, Job, Armed, SetLegs, AuditCovers, LegAgrees, Reserved, Bought
  <2>g. ASSUME NEW h \in Groups PROVE GroupAgrees(h)'
    BY <1>4, <1>l, <1>g
       DEF Claim, Job, Armed, SetLegs, LegAgrees, GroupAgrees, Siblings, LegsOf, Bought
  <2>o. OneSender' /\ OneOpenClaim' /\ OneActive'
    BY <1>4, <1>o
       DEF Claim, Job, Armed, SetLegs, Unresolved, OneSender, OneOpenClaim, OneActive, Sends, Open,
           Active, Exposed
  <2> QED
    BY <2>w, <2>l, <2>g, <2>o DEF Sound
<1>5. ASSUME NEW w \in Workers, NEW s \in {"working", "expired", "failed"},
             pc[w] \in {"gate", "unwind"}, SettleNoSend(w, s)
      PROVE  Sound'
  <2> DEFINE l == job[w].leg
             R == job[w].retired
  <2>1. l \in Legs /\ R \subseteq Siblings(l)
    BY <1>5, <1>w DEF JobSound
  <2>2. pc' = [pc EXCEPT ![w] = "idle"] /\ job' = [job EXCEPT ![w] = IdleJob]
    BY <1>5 DEF SettleNoSend, Rest
  <2>3. UNCHANGED <<audit, order, enabled>>
    BY <1>5 DEF SettleNoSend
  <2>4. CASE UNCHANGED <<group, leg>>
    <3>1. ASSUME NEW v \in Workers PROVE JobSound(v)' /\ KeyHeld(v)'
      BY <2>2, <2>3, <2>4, <1>w
         DEF JobSound, KeyHeld, HoldsClaim, Reserved, Sends, Bought
    <3>2. ASSUME NEW x \in Legs PROVE AuditCovers(x)' /\ LegAgrees(x)'
      BY <2>3, <2>4, <1>l DEF AuditCovers, LegAgrees, Reserved, Bought
    <3>3. ASSUME NEW h \in Groups PROVE GroupAgrees(h)'
      BY <2>3, <2>4, <1>g DEF GroupAgrees, Bought
    <3>4. OneSender' /\ OneOpenClaim' /\ OneActive'
      BY <2>2, <2>3, <2>4, <1>o
         DEF OneSender, OneOpenClaim, OneActive, Sends, Open, Active, Exposed
    <3> QED
      BY <3>1, <3>2, <3>3, <3>4 DEF Sound
  <2>5. CASE ~ UNCHANGED <<group, leg>>
    <3> DEFINE legs == [SetLegs(R, "working", Nobody) EXCEPT
                          ![l] = [status |-> s, marker |-> Nobody]]
    <3>1. /\ HoldsClaim(w)
          /\ \A r \in R : leg[r] = [status |-> "cancelled", marker |-> l]
          /\ leg' = legs
          /\ group' = [group EXCEPT ![GroupOf[l]] =
                         ClosedIfEmpty(GroupOf[l], FreeGroup("working"), legs)]
      BY <1>5, <2>5 DEF SettleNoSend
    <3>2. audit[l] = "none"
      <4>1. ~job[w].keyed
        BY <1>5, <1>w DEF JobSound
      <4>2. slips' = IF audit[l] # "none" /\ ~job[w].keyed THEN slips \cup {"unproven"} ELSE slips
        BY <1>5, <2>5 DEF SettleNoSend, SlipIf
      <4> QED
        BY <4>1, <4>2
    <3>3. /\ group'[GroupOf[l]].status \in {"working", "closed"}
          /\ \A h \in Groups \ {GroupOf[l]} : group'[h] = group[h]
      BY <2>1, <3>1 DEF ClosedIfEmpty, FreeGroup
    <3>4. /\ leg'[l].status = s
          /\ \A x \in Legs \ {l} : \/ leg'[x] = leg[x]
                                   \/ /\ x \in R /\ leg'[x].status = "working"
                                      /\ leg[x].status = "cancelled"
      BY <2>1, <3>1 DEF SetLegs
    <3>5. ASSUME NEW v \in Workers PROVE JobSound(v)' /\ KeyHeld(v)'
      <4>1. CASE v = w
        BY <2>2, <4>1 DEF JobSound, KeyHeld, Sends, IdleJob, Job
      <4>2. CASE v # w
        <5>1. pc'[v] = pc[v] /\ job'[v] = job[v]
          BY <2>2, <4>2
        <5>2. JobSound(v)'
          BY <5>1, <1>w DEF JobSound, Siblings, LegsOf
        <5>3. Sends(v) => job[v].leg # l /\ GroupOf[job[v].leg] # GroupOf[l]
          BY <3>1, <3>2, <1>w DEF KeyHeld, HoldsClaim, Reserved
        <5>4. Sends(v) => Reserved(job[v].leg)'
          <6>1. Sends(v) => job[v].leg \in Legs /\ Reserved(job[v].leg)
            BY <1>w DEF JobSound, KeyHeld, Sends
          <6> QED
            BY <3>3, <5>1, <5>3, <6>1 DEF Reserved
        <5>5. KeyHeld(v)'
          BY <2>3, <5>1, <5>4, <1>w DEF KeyHeld, Sends, Bought
        <5> QED
          BY <5>2, <5>5
      <4> QED
        BY <4>1, <4>2
    <3>6. ASSUME NEW x \in Legs PROVE AuditCovers(x)' /\ LegAgrees(x)'
      BY <2>3, <3>1, <3>2, <3>4, <1>l DEF AuditCovers, LegAgrees, HoldsClaim, Reserved, Bought
    <3>7. ASSUME NEW h \in Groups PROVE GroupAgrees(h)'
      <4>1. CASE h = GroupOf[l]
        BY <3>3, <4>1 DEF GroupAgrees
      <4>2. CASE h # GroupOf[l]
        <5>1. group'[h] = group[h]
          BY <3>3, <4>2
        <5>2. \A x \in LegsOf(h) : leg'[x] = leg[x]
          BY <2>1, <3>4, <4>2 DEF Siblings, LegsOf
        <5> QED
          BY <2>3, <5>1, <5>2, <1>g DEF GroupAgrees, Siblings, LegsOf, Bought
      <4> QED
        BY <4>1, <4>2
    <3>8. OneSender' /\ OneOpenClaim' /\ OneActive'
      BY <2>2, <2>3, <3>3, <1>o
         DEF OneSender, OneOpenClaim, OneActive, Sends, Open, Active, Exposed
    <3> QED
      BY <3>5, <3>6, <3>7, <3>8 DEF Sound
  <2> QED
    BY <2>4, <2>5
<1>6. ASSUME NEW w \in Workers, PassGate(w) PROVE Sound'
  <2>w. ASSUME NEW v \in Workers PROVE JobSound(v)' /\ KeyHeld(v)'
    BY <1>6, <1>w DEF PassGate, JobSound, KeyHeld, HoldsClaim, Reserved, Sends, Bought
  <2>l. ASSUME NEW x \in Legs PROVE AuditCovers(x)' /\ LegAgrees(x)'
    BY <1>6, <1>l DEF PassGate, AuditCovers, LegAgrees, Reserved, Bought
  <2>g. ASSUME NEW h \in Groups PROVE GroupAgrees(h)'
    BY <1>6, <1>g DEF PassGate, GroupAgrees, Bought
  <2>o. OneSender' /\ OneOpenClaim' /\ OneActive'
    BY <1>6, <1>o
       DEF PassGate, OneSender, OneOpenClaim, OneActive, Sends, Open, Active, Exposed
  <2> QED
    BY <2>w, <2>l, <2>g, <2>o DEF Sound
<1>7. ASSUME NEW w \in Workers, NEW g \in Groups, NEW i \in Instances, TakeLease(w, g, i)
      PROVE  Sound'
  <2>w. ASSUME NEW v \in Workers PROVE JobSound(v)' /\ KeyHeld(v)'
    BY <1>7, <1>w, <1>l, <1>g, <1>o
       DEF TakeLease, Job, JobSound, KeyHeld, HoldsClaim, Reserved, Sends, Bought,
           AuditCovers, LegAgrees, GroupAgrees, Siblings, LegsOf
  <2>l. ASSUME NEW x \in Legs PROVE AuditCovers(x)' /\ LegAgrees(x)'
    BY <1>7, <1>l DEF TakeLease, AuditCovers, LegAgrees, Reserved, Bought
  <2>g. ASSUME NEW h \in Groups PROVE GroupAgrees(h)'
    BY <1>7, <1>g DEF TakeLease, GroupAgrees, Bought
  <2>o. OneSender' /\ OneOpenClaim' /\ OneActive'
    BY <1>7, <1>o
       DEF TakeLease, Job, OneSender, OneOpenClaim, OneActive, Sends, Open, Active, Exposed
  <2> QED
    BY <2>w, <2>l, <2>g, <2>o DEF Sound
<1>8. ASSUME NEW w \in Workers, Prepare(w) PROVE Sound'
  <2> DEFINE l == job[w].leg
             live == Armed(l)
             mine == {s \in Siblings(l) : leg[s] = [status |-> "cancelled", marker |-> l]}
  <2>1. pc[w] = "prepare" /\ l \in Legs /\ Reserved(l)
    BY <1>8, <1>w DEF Prepare, JobSound, SlipIf
  <2>2. leg[l].status = "pending_fire" /\ live = {}
    BY <2>1, <1>g DEF Armed, Reserved, GroupAgrees
  <2>3. /\ leg' = [SetLegs(live, "cancelled", l) EXCEPT
                     ![l].status = IF @ = "working" THEN "pending_fire" ELSE @]
        /\ pc' = [pc EXCEPT ![w] = "audit"]
        /\ job' = [job EXCEPT ![w].retired = live \cup mine]
    BY <1>8, <2>2 DEF Prepare
  <2>4. UNCHANGED <<group, audit, order, enabled>>
    BY <1>8, <2>2 DEF Prepare
  <2>5. SetLegs(live, "cancelled", l) = leg
    BY <2>2 DEF SetLegs
  <2>6. \A x \in Legs : leg'[x].status = leg[x].status
    BY <2>2, <2>3, <2>5 DEF LegRow
  <2>7. /\ \A v \in Workers \ {w} : job'[v] = job[v] /\ pc'[v] = pc[v]
        /\ job'[w].leg = l /\ job'[w].retired = live \cup mine /\ pc'[w] = "audit"
    BY <2>3
  <2>8. ASSUME NEW v \in Workers PROVE JobSound(v)' /\ KeyHeld(v)'
    <3>1. live \cup mine \subseteq Siblings(l)
      BY DEF Armed
    <3>2. ~job[w].keyed /\ job'[w].keyed = job[w].keyed
      BY <2>1, <2>3, <1>w DEF JobSound, JobRow
    <3> HIDE DEF live, mine
    <3> QED
      BY <2>1, <2>4, <2>7, <3>1, <3>2, <1>w
         DEF JobSound, KeyHeld, HoldsClaim, Reserved, Sends, Bought, Siblings, LegsOf
  <2>9. ASSUME NEW x \in Legs PROVE AuditCovers(x)' /\ LegAgrees(x)'
    BY <2>4, <2>6, <1>l DEF AuditCovers, LegAgrees, Reserved, Bought
  <2>10. ASSUME NEW h \in Groups PROVE GroupAgrees(h)'
    BY <2>4, <2>6, <1>g DEF GroupAgrees, Siblings, LegsOf, Bought
  <2>11. OneSender' /\ OneOpenClaim' /\ OneActive'
    BY <2>4, <2>7, <1>o DEF OneSender, OneOpenClaim, OneActive, Sends, Open, Active, Exposed
  <2> QED
    BY <2>8, <2>9, <2>10, <2>11 DEF Sound
<1>9. ASSUME NEW w \in Workers, ReadAudit(w) PROVE Sound'
  <2>w. ASSUME NEW v \in Workers PROVE JobSound(v)' /\ KeyHeld(v)'
    BY <1>9, <1>w, <1>l
       DEF ReadAudit, Rest, IdleJob, Job, JobSound, KeyHeld, HoldsClaim, Reserved, Sends, Bought,
           AuditCovers
  <2>l. ASSUME NEW x \in Legs PROVE AuditCovers(x)' /\ LegAgrees(x)'
    BY <1>9, <1>l DEF ReadAudit, AuditCovers, LegAgrees, Reserved, Bought
  <2>g. ASSUME NEW h \in Groups PROVE GroupAgrees(h)'
    BY <1>9, <1>g DEF ReadAudit, GroupAgrees, Bought
  <2>o. OneSender' /\ OneOpenClaim' /\ OneActive'
    <3>1. /\ UNCHANGED <<group, leg, audit, order, enabled>>
          /\ \A v \in Workers \ {w} : pc'[v] = pc[v] /\ job'[v] = job[v]
          /\ pc'[w] \notin {"sending", "awaiting"}
          /\ pc'[w] = "finish" => job'[w] = job[w] /\ audit[job[w].leg] = "placed"
      BY <1>9 DEF ReadAudit, Rest
    <3>2. OneSender'
      BY <3>1, <1>o, <1>w DEF OneSender, Sends, KeyHeld
    <3> QED
      BY <3>1, <3>2, <1>o DEF OneOpenClaim, OneActive, Open, Active, Exposed
  <2> QED
    BY <2>w, <2>l, <2>g, <2>o DEF Sound
<1>10. ASSUME NEW w \in Workers, TradingDisabled(w) \/ ClaimKeyFails(w) PROVE Sound'
  <2>w. ASSUME NEW v \in Workers PROVE JobSound(v)' /\ KeyHeld(v)'
    BY <1>10, <1>w
       DEF TradingDisabled, ClaimKeyFails, JobSound, KeyHeld, HoldsClaim, Reserved, Sends, Bought
  <2>l. ASSUME NEW x \in Legs PROVE AuditCovers(x)' /\ LegAgrees(x)'
    BY <1>10, <1>l DEF TradingDisabled, ClaimKeyFails, AuditCovers, LegAgrees, Reserved, Bought
  <2>g. ASSUME NEW h \in Groups PROVE GroupAgrees(h)'
    BY <1>10, <1>g DEF TradingDisabled, ClaimKeyFails, GroupAgrees, Bought
  <2>o. OneSender' /\ OneOpenClaim' /\ OneActive'
    BY <1>10, <1>o
       DEF TradingDisabled, ClaimKeyFails, OneSender, OneOpenClaim, OneActive, Sends, Open, Active, Exposed
  <2> QED
    BY <2>w, <2>l, <2>g, <2>o DEF Sound
<1>11. ASSUME NEW w \in Workers, ClaimKey(w) PROVE Sound'
  <2> DEFINE l == job[w].leg
  <2>1. /\ l \in Legs /\ pc[w] = "place" /\ Reserved(l)
        /\ audit[l] = "none" \/ (audit[l] = "stale" /\ order[l] = "none")
    BY <1>11, <1>w DEF ClaimKey, SlipIf, JobSound
  <2>2. /\ audit' = [audit EXCEPT ![l] = "fresh"]
        /\ pc' = [pc EXCEPT ![w] = "sending"] /\ job' = [job EXCEPT ![w].keyed = TRUE]
        /\ UNCHANGED <<group, leg, order, enabled>>
    BY <1>11 DEF ClaimKey
  <2>3. order[l] = "none" /\ leg[l].status = "pending_fire"
    BY <2>1, <1>l, <1>g DEF AuditCovers, Reserved, GroupAgrees
  <2>4. /\ job'[w].leg = l /\ job'[w].retired = job[w].retired
        /\ \A v \in Workers \ {w} : job'[v] = job[v] /\ pc'[v] = pc[v]
        /\ pc'[w] = "sending"
    BY <2>2
  <2>5. \A v \in Workers \ {w} : Sends(v) \/ pc[v] = "finish" => job[v].leg # l
    BY <2>1, <2>3, <1>w DEF KeyHeld, Bought
  <2>w. ASSUME NEW v \in Workers PROVE JobSound(v)' /\ KeyHeld(v)'
    <3>1. CASE v = w
      BY <2>1, <2>2, <2>3, <2>4, <3>1, <1>w
         DEF JobSound, KeyHeld, Reserved, Sends, Siblings, LegsOf
    <3>2. CASE v # w
      <4>1. JobSound(v)'
        BY <2>4, <3>2, <1>w DEF JobSound, Siblings, LegsOf
      <4>2. Sends(v) \/ pc[v] = "finish" => audit'[job[v].leg] = audit[job[v].leg]
        BY <2>2, <2>5, <3>2
      <4>3. KeyHeld(v)'
        BY <2>2, <2>4, <3>2, <4>2, <1>w DEF KeyHeld, Sends, Reserved, Bought
      <4> QED
        BY <4>1, <4>3
    <3> QED
      BY <3>1, <3>2
  <2>l. ASSUME NEW x \in Legs PROVE AuditCovers(x)' /\ LegAgrees(x)'
    BY <2>1, <2>2, <2>3, <1>l DEF AuditCovers, LegAgrees, Reserved, Bought
  <2>g. ASSUME NEW h \in Groups PROVE GroupAgrees(h)'
    BY <2>2, <1>g DEF GroupAgrees, Bought
  <2>o. OneSender' /\ OneOpenClaim' /\ OneActive'
    <3>1. OneSender'
      BY <2>4, <2>5, <1>o DEF OneSender, Sends
    <3> QED
      BY <2>2, <3>1, <1>o DEF OneOpenClaim, OneActive, Open, Active, Exposed
  <2> QED
    BY <2>w, <2>l, <2>g, <2>o DEF Sound
<1>12. ASSUME NEW w \in Workers, Replay(w) PROVE Sound'
  <2>w. ASSUME NEW v \in Workers PROVE JobSound(v)' /\ KeyHeld(v)'
    BY <1>12, <1>w, <1>l
       DEF Replay, JobSound, KeyHeld, HoldsClaim, Reserved, Sends, Bought, AuditCovers
  <2>l. ASSUME NEW x \in Legs PROVE AuditCovers(x)' /\ LegAgrees(x)'
    BY <1>12, <1>l DEF Replay, AuditCovers, LegAgrees, Reserved, Bought
  <2>g. ASSUME NEW h \in Groups PROVE GroupAgrees(h)'
    BY <1>12, <1>g DEF Replay, GroupAgrees, Bought
  <2>o. OneSender' /\ OneOpenClaim' /\ OneActive'
    BY <1>12, <1>o, <1>w
       DEF Replay, OneSender, OneOpenClaim, OneActive, Sends, KeyHeld, Open, Active, Exposed
  <2> QED
    BY <2>w, <2>l, <2>g, <2>o DEF Sound
<1>13. ASSUME NEW w \in Workers, CannotTell(w) PROVE Sound'
  <2>w. ASSUME NEW v \in Workers PROVE JobSound(v)' /\ KeyHeld(v)'
    BY <1>13, <1>w
       DEF CannotTell, JobSound, KeyHeld, HoldsClaim, Reserved, Sends, Bought
  <2>l. ASSUME NEW x \in Legs PROVE AuditCovers(x)' /\ LegAgrees(x)'
    BY <1>13, <1>l DEF CannotTell, AuditCovers, LegAgrees, Reserved, Bought
  <2>g. ASSUME NEW h \in Groups PROVE GroupAgrees(h)'
    BY <1>13, <1>g DEF CannotTell, GroupAgrees, Bought
  <2>o. OneSender' /\ OneOpenClaim' /\ OneActive'
    BY <1>13, <1>o
       DEF CannotTell, OneSender, OneOpenClaim, OneActive, Sends, Open, Active, Exposed
  <2> QED
    BY <2>w, <2>l, <2>g, <2>o DEF Sound
<1>14. ASSUME NEW w \in Workers, RefuseUnsent(w) PROVE Sound'
  <2>w. ASSUME NEW v \in Workers PROVE JobSound(v)' /\ KeyHeld(v)'
    BY <1>14, <1>w, <1>o
       DEF RefuseUnsent, DeleteKey, SlipIf, JobSound, KeyHeld, HoldsClaim, Reserved, Sends, Bought,
           OneSender
  <2>l. ASSUME NEW x \in Legs PROVE AuditCovers(x)' /\ LegAgrees(x)'
    BY <1>14, <1>w, <1>l
       DEF RefuseUnsent, DeleteKey, SlipIf, AuditCovers, LegAgrees, Reserved, Bought,
           KeyHeld
  <2>g. ASSUME NEW h \in Groups PROVE GroupAgrees(h)'
    BY <1>14, <1>g DEF RefuseUnsent, DeleteKey, GroupAgrees, Bought
  <2>o. OneSender' /\ OneOpenClaim' /\ OneActive'
    BY <1>14, <1>o
       DEF RefuseUnsent, DeleteKey, OneSender, OneOpenClaim, OneActive, Sends, Open, Active, Exposed
  <2> QED
    BY <2>w, <2>l, <2>g, <2>o DEF Sound
<1>15. ASSUME NEW w \in Workers, Send(w) PROVE Sound'
  <2>w. ASSUME NEW v \in Workers PROVE JobSound(v)' /\ KeyHeld(v)'
    BY <1>15, <1>w, <1>o
       DEF Send, JobSound, KeyHeld, HoldsClaim, Reserved, Sends, Bought, OneSender
  <2>l. ASSUME NEW x \in Legs PROVE AuditCovers(x)' /\ LegAgrees(x)'
    BY <1>15, <1>w, <1>l DEF Send, AuditCovers, LegAgrees, Reserved, Bought, KeyHeld, Sends
  <2>g. ASSUME NEW h \in Groups PROVE GroupAgrees(h)'
    BY <1>15, <1>w, <1>g DEF Send, GroupAgrees, Bought, KeyHeld
  <2>o. OneSender' /\ OneOpenClaim' /\ OneActive'
    <3> DEFINE l == job[w].leg
    <3>1. /\ l \in Legs /\ audit[l] = "fresh" /\ order[l] = "none"
          /\ pc' = [pc EXCEPT ![w] = "awaiting"] /\ job' = job /\ group' = group
          /\ order' = [order EXCEPT ![l] = "inflight"]
          /\ \A x \in Legs : order[x] # "filled"
      BY <1>15, <1>w DEF Send, JobSound, KeyHeld, Sends, Held
    <3>2. OneSender'
      BY <1>15, <1>o DEF Send, OneSender, Sends
    <3>3. \A h \in Groups : Open(h)' <=> Open(h)
      BY <3>1 DEF Open
    <3>4. OneOpenClaim'
      BY <3>3, <1>o DEF OneOpenClaim
    <3>5. Open(GroupOf[l]) /\ group[GroupOf[l]].fireLeg = l
      BY <3>1, <1>l DEF LegAgrees, Reserved, Open
    <3>6. ASSUME NEW m \in Legs, Active(m) PROVE m = l
      <4>1. audit[m] # "none" /\ order[m] \in {"inflight", "live"}
        BY <3>1, <3>6, <1>l DEF AuditCovers, Active, Exposed
      <4>2. Open(GroupOf[m]) /\ group[GroupOf[m]].fireLeg = m
        BY <4>1, <1>l DEF LegAgrees, Reserved, Open
      <4> QED
        BY <3>1, <3>5, <4>2, <1>o DEF OneOpenClaim
    <3>7. OneActive'
      BY <3>1, <3>6 DEF OneActive, Active, Exposed
    <3> QED
      BY <3>2, <3>4, <3>7
  <2> QED
    BY <2>w, <2>l, <2>g, <2>o DEF Sound
<1>16. ASSUME NEW w \in Workers, Accepted(w) PROVE Sound'
  <2>w. ASSUME NEW v \in Workers PROVE JobSound(v)' /\ KeyHeld(v)'
    BY <1>16, <1>w, <1>o
       DEF Accepted, JobSound, KeyHeld, HoldsClaim, Reserved, Sends, Bought, OneSender
  <2>l. ASSUME NEW x \in Legs PROVE AuditCovers(x)' /\ LegAgrees(x)'
    BY <1>16, <1>l DEF Accepted, AuditCovers, LegAgrees, Reserved, Bought
  <2>g. ASSUME NEW h \in Groups PROVE GroupAgrees(h)'
    BY <1>16, <1>l, <1>g DEF Accepted, AuditCovers, GroupAgrees, LegsOf, Bought
  <2>o. OneSender' /\ OneOpenClaim' /\ OneActive'
    BY <1>16, <1>o
       DEF Accepted, OneSender, OneOpenClaim, OneActive, Sends, Open, Active, Exposed
  <2> QED
    BY <2>w, <2>l, <2>g, <2>o DEF Sound
<1>17. ASSUME NEW w \in Workers, Refused(w) PROVE Sound'
  <2>w. ASSUME NEW v \in Workers PROVE JobSound(v)' /\ KeyHeld(v)'
    BY <1>17, <1>w, <1>o
       DEF Refused, DeleteKey, SlipIf, JobSound, KeyHeld, HoldsClaim, Reserved, Sends, Bought, OneSender
  <2>l. ASSUME NEW x \in Legs PROVE AuditCovers(x)' /\ LegAgrees(x)'
    <3>1. /\ order[job[w].leg] = "none" /\ UNCHANGED <<group, leg, order, enabled>>
          /\ audit' = [audit EXCEPT ![job[w].leg] = "none"]
      BY <1>17 DEF Refused, DeleteKey, SlipIf
    <3> QED
      BY <3>1, <1>l DEF AuditCovers, LegAgrees, Reserved, Bought
  <2>g. ASSUME NEW h \in Groups PROVE GroupAgrees(h)'
    BY <1>17, <1>g DEF Refused, DeleteKey, GroupAgrees, Bought
  <2>o. OneSender' /\ OneOpenClaim' /\ OneActive'
    BY <1>17, <1>o
       DEF Refused, DeleteKey, OneSender, OneOpenClaim, OneActive, Sends, Open, Active, Exposed
  <2> QED
    BY <2>w, <2>l, <2>g, <2>o DEF Sound
<1>18. ASSUME NEW w \in Workers, Unconfirmed(w) PROVE Sound'
  <2>w. ASSUME NEW v \in Workers PROVE JobSound(v)' /\ KeyHeld(v)'
    BY <1>18, <1>w
       DEF Unconfirmed, JobSound, KeyHeld, HoldsClaim, Reserved, Sends, Bought
  <2>l. ASSUME NEW x \in Legs PROVE AuditCovers(x)' /\ LegAgrees(x)'
    BY <1>18, <1>l DEF Unconfirmed, AuditCovers, LegAgrees, Reserved, Bought
  <2>g. ASSUME NEW h \in Groups PROVE GroupAgrees(h)'
    BY <1>18, <1>g DEF Unconfirmed, GroupAgrees, Bought
  <2>o. OneSender' /\ OneOpenClaim' /\ OneActive'
    BY <1>18, <1>o
       DEF Unconfirmed, OneSender, OneOpenClaim, OneActive, Sends, Open, Active, Exposed
  <2> QED
    BY <2>w, <2>l, <2>g, <2>o DEF Sound
<1>19. ASSUME NEW w \in Workers, Finish(w) PROVE Sound'
  <2> DEFINE l == job[w].leg
             gone == {s \in Siblings(l) : \/ leg[s].status = "working"
                                          \/ leg[s] = [status |-> "cancelled", marker |-> l]}
  <2>1. pc[w] = "finish" /\ l \in Legs /\ HoldsClaim(w) /\ Bought(l)
    BY <1>19, <1>w DEF Finish, JobSound, KeyHeld
  <2>2. group' = [group EXCEPT ![GroupOf[l]] = [FreeGroup("fired") EXCEPT !.fireLeg = l]]
    BY <1>19 DEF Finish
  <2>3. /\ group'[GroupOf[l]].status = "fired" /\ group'[GroupOf[l]].fireLeg = l
        /\ \A h \in Groups \ {GroupOf[l]} : group'[h] = group[h]
    BY <2>1, <2>2 DEF FreeGroup
  <2>4. leg' = [SetLegs(gone, "cancelled", Nobody) EXCEPT ![l].status = "triggered"]
    BY <1>19 DEF Finish
  <2>5. \A s \in gone : leg[s].status = "cancelled" /\ s # l
    BY <2>1, <1>g DEF GroupAgrees, HoldsClaim, Reserved
  <2>6. /\ leg'[l].status = "triggered"
        /\ \A x \in Legs \ {l} : leg'[x].status = leg[x].status
    <3> HIDE DEF gone
    <3> QED
      BY <2>1, <2>4, <2>5 DEF SetLegs
  <2>7. /\ pc' = [pc EXCEPT ![w] = "idle"] /\ job' = [job EXCEPT ![w] = IdleJob]
        /\ UNCHANGED <<audit, order, enabled>>
    BY <1>19 DEF Finish, Rest
  <2>8. ASSUME NEW v \in Workers PROVE JobSound(v)' /\ KeyHeld(v)'
    <3>1. CASE v = w
      BY <2>7, <3>1 DEF JobSound, KeyHeld, Sends, IdleJob, Job
    <3>2. CASE v # w
      <4>1. pc'[v] = pc[v] /\ job'[v] = job[v]
        BY <2>7, <3>2
      <4>2. Sends(v) => GroupOf[job[v].leg] # GroupOf[l]
        BY <2>1, <3>2, <1>w, <1>o DEF OneSender, KeyHeld, HoldsClaim, Reserved
      <4>3. Sends(v) => Reserved(job[v].leg) /\ job[v].leg \in Legs
        BY <1>w DEF KeyHeld, JobSound, Sends
      <4>4. Sends(v) => Reserved(job[v].leg)'
        BY <2>3, <4>1, <4>2, <4>3 DEF Reserved
      <4> QED
        BY <2>7, <4>1, <4>4, <1>w DEF JobSound, KeyHeld, Sends, Bought, Siblings, LegsOf
    <3> QED
      BY <3>1, <3>2
  <2>9. ASSUME NEW x \in Legs PROVE AuditCovers(x)' /\ LegAgrees(x)'
    BY <2>1, <2>3, <2>6, <2>7, <1>l DEF AuditCovers, LegAgrees, Reserved, Bought
  <2>10. ASSUME NEW h \in Groups PROVE GroupAgrees(h)'
    BY <2>1, <2>3, <2>6, <2>7, <1>g DEF GroupAgrees, HoldsClaim, Reserved, Siblings, LegsOf, Bought
  <2>11. OneSender' /\ OneOpenClaim' /\ OneActive'
    BY <2>1, <2>3, <2>7, <1>o
       DEF OneSender, OneOpenClaim, OneActive, Sends, Open, Active, Exposed, HoldsClaim, Reserved
  <2> QED
    BY <2>8, <2>9, <2>10, <2>11 DEF Sound
<1>20. ASSUME NEW w \in Workers, FinishFails(w) \/ Keep(w) \/ Crash(w) PROVE Sound'
  <2>1. \/ group' = group
        \/ group' = [group EXCEPT ![GroupOf[job[w].leg]].expired = FALSE]
    BY <1>20 DEF FinishFails, Keep, Crash
  <2>2. \A h \in Groups :
         /\ group'[h].status = group[h].status /\ group'[h].fireLeg = group[h].fireLeg
         /\ group'[h].owner = group[h].owner /\ (group'[h].expired => group[h].expired)
    BY <2>1 DEF GroupRow
  <2>3. pc' = [pc EXCEPT ![w] = "idle"] /\ job' = [job EXCEPT ![w] = IdleJob]
    BY <1>20 DEF FinishFails, Keep, Crash, Rest
  <2>4. UNCHANGED <<leg, audit, order, enabled>>
    BY <1>20 DEF FinishFails, Keep, Crash
  <2>w. ASSUME NEW v \in Workers PROVE JobSound(v)' /\ KeyHeld(v)'
    BY <2>2, <2>3, <2>4, <1>w DEF JobSound, KeyHeld, HoldsClaim, Reserved, Sends, Bought
  <2>l. ASSUME NEW x \in Legs PROVE AuditCovers(x)' /\ LegAgrees(x)'
    BY <2>2, <2>4, <1>l DEF AuditCovers, LegAgrees, Reserved, Bought
  <2>g. ASSUME NEW h \in Groups PROVE GroupAgrees(h)'
    BY <2>2, <2>4, <1>g DEF GroupAgrees, Bought
  <2>o. OneSender' /\ OneOpenClaim' /\ OneActive'
    BY <2>2, <2>3, <2>4, <1>o
       DEF OneSender, OneOpenClaim, OneActive, Sends, Open, Active, Exposed
  <2> QED
    BY <2>w, <2>l, <2>g, <2>o DEF Sound
<1>21. ASSUME NEW l \in Legs, BrokerStep(l) PROVE Sound'
  <2>w. ASSUME NEW v \in Workers PROVE JobSound(v)' /\ KeyHeld(v)'
    BY <1>21, <1>w
       DEF BrokerStep, JobSound, KeyHeld, HoldsClaim, Reserved, Sends, Bought
  <2>l. ASSUME NEW x \in Legs PROVE AuditCovers(x)' /\ LegAgrees(x)'
    BY <1>21, <1>l DEF BrokerStep, AuditCovers, LegAgrees, Reserved, Bought
  <2>g. ASSUME NEW h \in Groups PROVE GroupAgrees(h)'
    BY <1>21, <1>g DEF BrokerStep, GroupAgrees, LegsOf, Bought
  <2>o. OneSender' /\ OneOpenClaim' /\ OneActive'
    BY <1>21, <1>g, <1>o
       DEF BrokerStep, OneSender, OneOpenClaim, OneActive, Sends, Open, Active, Exposed,
           Bought, GroupAgrees, LegsOf
  <2> QED
    BY <2>w, <2>l, <2>g, <2>o DEF Sound
<1>22. ASSUME NEW l \in Legs, AgeAudit(l) PROVE Sound'
  <2>w. ASSUME NEW v \in Workers PROVE JobSound(v)' /\ KeyHeld(v)'
    BY <1>22, <1>w DEF AgeAudit, SlipIf, JobSound, KeyHeld, HoldsClaim, Reserved, Sends, Bought
  <2>l. ASSUME NEW x \in Legs PROVE AuditCovers(x)' /\ LegAgrees(x)'
    <3>1. /\ audit[l] = "fresh" /\ order[l] # "inflight"
          /\ UNCHANGED <<group, leg, order, enabled>>
          /\ audit' = [audit EXCEPT ![l] = "stale"]
      BY <1>22 DEF AgeAudit, SlipIf
    <3> QED
      BY <3>1, <1>l DEF AuditCovers, LegAgrees, Reserved, Bought
  <2>g. ASSUME NEW h \in Groups PROVE GroupAgrees(h)'
    BY <1>22, <1>g DEF AgeAudit, SlipIf, GroupAgrees, Bought
  <2>o. OneSender' /\ OneOpenClaim' /\ OneActive'
    BY <1>22, <1>o
       DEF AgeAudit, SlipIf, OneSender, OneOpenClaim, OneActive, Sends, Open, Active, Exposed
  <2> QED
    BY <2>w, <2>l, <2>g, <2>o DEF Sound
<1>23. ASSUME NEW g \in Groups, ExpireLease(g) PROVE Sound'
  <2>w. ASSUME NEW v \in Workers PROVE JobSound(v)' /\ KeyHeld(v)'
    BY <1>23, <1>w
       DEF ExpireLease, JobSound, KeyHeld, HoldsClaim, Reserved, Sends, Bought
  <2>l. ASSUME NEW x \in Legs PROVE AuditCovers(x)' /\ LegAgrees(x)'
    BY <1>23, <1>l DEF ExpireLease, AuditCovers, LegAgrees, Reserved, Bought
  <2>g. ASSUME NEW h \in Groups PROVE GroupAgrees(h)'
    BY <1>23, <1>g DEF ExpireLease, GroupAgrees, Bought
  <2>o. OneSender' /\ OneOpenClaim' /\ OneActive'
    BY <1>23, <1>o
       DEF ExpireLease, OneSender, OneOpenClaim, OneActive, Sends, Open, Active, Exposed
  <2> QED
    BY <2>w, <2>l, <2>g, <2>o DEF Sound
<1>24. CASE UNCHANGED vars
  <2>1. \A v \in Workers : JobSound(v)' /\ KeyHeld(v)'
    BY <1>24, <1>w DEF vars, JobSound, KeyHeld, HoldsClaim, Reserved, Sends, Bought
  <2>2. /\ \A x \in Legs : AuditCovers(x)' /\ LegAgrees(x)'
        /\ \A h \in Groups : GroupAgrees(h)'
    BY <1>24, <1>l, <1>g DEF vars, AuditCovers, LegAgrees, Reserved, GroupAgrees, Bought
  <2>3. OneSender' /\ OneOpenClaim' /\ OneActive'
    BY <1>24, <1>o
       DEF vars, OneSender, OneOpenClaim, OneActive, Sends, Open, Active, Exposed, Bought
  <2> QED
    BY <2>1, <2>2, <2>3 DEF Sound
<1> QED
  BY <1>1, <1>2, <1>3, <1>4, <1>5, <1>6, <1>7, <1>8, <1>9, <1>10, <1>11, <1>12, <1>13,
     <1>14, <1>15, <1>16, <1>17, <1>18, <1>19, <1>20, <1>21, <1>22, <1>23, <1>24
     DEF Next, Fire, Recover, Place, Settle, GateMismatch, GateExpired, Unwind, Cancel,
         CancelOrphanedBrackets, ExpireSettled

\* The invariant of every behaviour.
LEMMA Invariant == Spec => []BracketInv
BY InitInv, InvStep, PTL DEF Spec

-----------------------------------------------------------------------------
(* What the invariant says of a bracket.                                   *)

\* Every state of the brackets has its variables in the declared ranges.
THEOREM TypeCorrect == Spec => []TypeOK
BY InitType, TypeStep, PTL DEF Spec

\* OneActive says without counting what AtMostOneClose counts.
LEMMA OneActiveIsOneClose == (slips = {} => OneActive) => AtMostOneClose
<1> SUFFICES ASSUME OneActive PROVE Cardinality({l \in Legs : Active(l)}) <= 1
  BY DEF AtMostOneClose
<1> DEFINE S == {l \in Legs : Active(l)}
<1>1. CASE S = {}
  BY <1>1, FS_EmptySet
<1>2. ASSUME NEW l \in S PROVE Cardinality(S) <= 1
  <2>1. S = {l}
    BY DEF OneActive
  <2>2. Cardinality(S) = 1
    BY <2>1, FS_Singleton
  <2> QED
    BY <2>2
<1> QED
  BY <1>1, <1>2

\* A bracket sends at most one order: before the first slip the closing orders at
\* work or filled never number two, for any number of brackets, workers and
\* processes and through any crashes and recoveries (claimForFireWithSiblings).
THEOREM BracketSendsOnce == Spec => []AtMostOneClose
<1>1. BracketInv => AtMostOneClose
  BY OneActiveIsOneClose DEF BracketInv, Sound
<1> QED
  BY <1>1, Invariant, PTL

\* While a leg's order may be working its group is reserved for it and none of its
\* siblings is armed, before the first slip (settleGroupedNoSend).
THEOREM ReservedWhileExposed == Spec => []ReservationHolds
<1>1. BracketInv => ReservationHolds
  <2> SUFFICES ASSUME BracketInv, slips = {}, NEW l \in Legs, Exposed(l)
               PROVE  /\ group[GroupOf[l]].status \in {"pending_fire", "fired"}
                      /\ group[GroupOf[l]].fireLeg = l
                      /\ \A s \in Siblings(l) : leg[s].status # "working"
    BY DEF ReservationHolds
  <2>0. Sound
    BY DEF BracketInv
  <2>1. audit[l] # "none"
    BY <2>0 DEF Sound, AuditCovers, Exposed
  <2>2. /\ group[GroupOf[l]].status \in {"pending_fire", "fired"}
        /\ group[GroupOf[l]].fireLeg = l
    BY <2>0, <2>1 DEF Sound, LegAgrees, Reserved
  <2>3. \A s \in Siblings(l) : leg[s].status # "working"
    BY <2>0, <2>2, BracketAssumption DEF Sound, GroupAgrees
  <2> QED
    BY <2>2, <2>3
<1> QED
  BY <1>1, Invariant, PTL

\* A leg whose order may be working is shown as firing or fired, never as failed,
\* cancelled or armed, before the first slip (fire, after the broker accepted).
THEOREM LegsAreTruthful == Spec => []LegsTellTheTruth
<1>1. BracketInv => LegsTellTheTruth
  BY DEF BracketInv, Sound, LegsTellTheTruth, AuditCovers, LegAgrees, Exposed
<1> QED
  BY <1>1, Invariant, PTL

\* A pending claim's fire leg stays recoverable and no group fails before the first
\* slip, whatever the user and the sweeps do (prepareRecoveredClaim).
THEOREM NoneAbandoned == Spec => []NoBracketAbandoned
<1>1. BracketInv => NoBracketAbandoned
  BY DEF BracketInv, Sound, NoBracketAbandoned, GroupAgrees
<1> QED
  BY <1>1, Invariant, PTL

=============================================================================
