--------------------------- MODULE SchedulerProofs ---------------------------
(***************************************************************************)
(* Theorems about Scheduler for every set of schedules, every horizon,     *)
(* queue size and limit.  The inductive invariant is Custody: each trigger *)
(* that is not at rest in the table is in exactly one place, the loop's    *)
(* hands, the queue or the dispatcher's hands, and its row has not ended.  *)
(***************************************************************************)
EXTENDS Scheduler, TLAPS, SequenceTheorems, FiniteSetTheorems, FunctionTheorems

(* The coroutines are off together, and off means empty-handed.            *)
OffIsEmpty ==
  /\ lpc = "off" <=> dpc = "off"
  /\ lpc = "off" => inflight = {} /\ queue = <<>> /\ tick = NoTick /\ dcur = NoTrigger

(* What the loop holds is nobody else's and still pending.                 *)
LoopHolds ==
  /\ IF lpc \in {"enqueue", "note", "mark", "remark"}
     THEN tick.trig \in Triggers
     ELSE tick.trig = NoTrigger
  /\ lpc \in {"enqueue", "note"} =>
       trig[tick.trig].status = "pending" /\ tick.trig \notin inflight
  /\ \A k \in tick.orphans :
       trig[k].status = "pending" /\ k \notin inflight /\ k # tick.trig
  /\ lpc \notin {"requeue", "remark"} => tick.orphans = {}

(* The dispatcher holds a trigger exactly while it processes one.          *)
Idle == {"off", "idle", "down", "gone"}
DispHolds ==
  /\ dpc \in Idle <=> dcur = NoTrigger
  /\ dpc = "ack" => delivered[dcur] > 0

Custody == TypeOK /\ InflightIsExact /\ OffIsEmpty /\ LoopHolds /\ DispHolds

-----------------------------------------------------------------------------
(* Queue lemmas. *)

SeqSet(q) == {q[i] : i \in 1..Len(q)}
Distinct(q) == \A i, j \in 1..Len(q) : q[i] = q[j] => i = j

(* Enqueuing a trigger that is not queued keeps the queue free of          *)
(* duplicates and adds exactly that trigger.                               *)
LEMMA AppendKeepsDistinct ==
  ASSUME NEW S, NEW q \in Seq(S), NEW t \in S, Distinct(q), t \notin SeqSet(q)
  PROVE  /\ Append(q, t) \in Seq(S)
         /\ Len(Append(q, t)) = Len(q) + 1
         /\ Distinct(Append(q, t))
         /\ SeqSet(Append(q, t)) = SeqSet(q) \cup {t}
<1> DEFINE a == Append(q, t)
<1>1. /\ a \in Seq(S) /\ Len(a) = Len(q) + 1
      /\ \A i \in 1..Len(q) : a[i] = q[i]
      /\ a[Len(q) + 1] = t
  BY AppendProperties
<1>2. Len(q) \in Nat
  BY LenProperties
<1> HIDE DEF a
<1>3. Distinct(a)
  BY <1>1, <1>2 DEF Distinct, SeqSet
<1>4. SeqSet(a) = SeqSet(q) \cup {t}
  <2>1. SeqSet(a) \subseteq SeqSet(q) \cup {t}
    BY <1>1, <1>2 DEF SeqSet
  <2>2. SeqSet(q) \subseteq SeqSet(a)
    BY <1>1, <1>2 DEF SeqSet
  <2>3. t \in SeqSet(a)
    BY <1>1, <1>2 DEF SeqSet
  <2> QED BY <2>1, <2>2, <2>3
<1> QED BY <1>1, <1>3, <1>4 DEF a

(* Dequeuing takes exactly the head out of a queue without duplicates.     *)
LEMMA TailKeepsDistinct ==
  ASSUME NEW S, NEW q \in Seq(S), q # <<>>, Distinct(q)
  PROVE  /\ Head(q) \in S
         /\ Tail(q) \in Seq(S)
         /\ Len(Tail(q)) = Len(q) - 1
         /\ Distinct(Tail(q))
         /\ Head(q) \notin SeqSet(Tail(q))
         /\ SeqSet(q) = SeqSet(Tail(q)) \cup {Head(q)}
<1> DEFINE r == Tail(q)
<1>1. /\ Len(q) \in Nat /\ Len(q) > 0 /\ q[1] \in S /\ Head(q) = q[1]
      /\ r \in Seq(S) /\ Len(r) = Len(q) - 1
      /\ \A i \in 1..Len(r) : r[i] = q[i + 1]
  BY HeadTailProperties, LenProperties, ElementOfSeq, EmptySeq
<1> HIDE DEF r
<1>2. Distinct(r)
  <2> SUFFICES ASSUME NEW i \in 1..Len(r), NEW j \in 1..Len(r), r[i] = r[j]
               PROVE  i = j
    BY DEF Distinct
  <2>1. i + 1 \in 1..Len(q) /\ j + 1 \in 1..Len(q) /\ q[i + 1] = q[j + 1]
    BY <1>1
  <2> QED BY <2>1, <1>1 DEF Distinct
<1>3. Head(q) \notin SeqSet(r)
  <2> SUFFICES ASSUME NEW i \in 1..Len(r), r[i] = q[1]
               PROVE  FALSE
    BY <1>1 DEF SeqSet
  <2>1. i + 1 \in 1..Len(q) /\ 1 \in 1..Len(q) /\ q[i + 1] = q[1]
    BY <1>1
  <2> QED BY <2>1, <1>1 DEF Distinct
<1>4. SeqSet(q) = SeqSet(r) \cup {Head(q)}
  <2>1. ASSUME NEW i \in 1..Len(q)
        PROVE  q[i] \in SeqSet(r) \cup {Head(q)}
    <3>1. CASE i = 1
      BY <3>1, <1>1
    <3>2. CASE i # 1
      <4>1. i - 1 \in 1..Len(r) /\ r[i - 1] = q[i]
        BY <3>2, <1>1
      <4> QED BY <4>1 DEF SeqSet
    <3> QED BY <3>1, <3>2
  <2>2. SeqSet(r) \subseteq SeqSet(q)
    BY <1>1 DEF SeqSet
  <2>3. Head(q) \in SeqSet(q)
    BY <1>1 DEF SeqSet
  <2> QED BY <2>1, <2>2, <2>3 DEF SeqSet
<1> QED BY <1>1, <1>2, <1>3, <1>4 DEF r

-----------------------------------------------------------------------------
(* Rows. *)

(* The updates of the store keep a row a row.                              *)
LEMMA RowUpdates ==
  ASSUME NEW r \in TriggerRow, now \in Minutes
  PROVE  /\ MarkSent(r) \in TriggerRow
         /\ r.status \in Live => MarkSent(r).status \in Live
         /\ \A note \in ErrorNotes : /\ Reverted(r, note) \in TriggerRow
                                     /\ Reverted(r, note).status = "pending"
         /\ Saturated(r) \in TriggerRow /\ Saturated(r).status = r.status
         /\ CleanSlate(r) \in TriggerRow
         /\ \A st \in Terminal : [r EXCEPT !.status = st] \in TriggerRow
<1>0. /\ r.status \in {"absent"} \cup Live \cup Terminal
      /\ r.attempts \in Nat /\ r.note \in ErrorNotes /\ r.sentAt \in Minutes
  BY DEF TriggerRow
<1>1. ASSUME NEW st \in {"absent"} \cup Live \cup Terminal, NEW n \in Nat,
             NEW note \in ErrorNotes, NEW at \in Minutes
      PROVE  [status |-> st, attempts |-> n, note |-> note, sentAt |-> at] \in TriggerRow
  BY DEF TriggerRow
<1>2. r = [status |-> r.status, attempts |-> r.attempts, note |-> r.note, sentAt |-> r.sentAt]
  BY DEF TriggerRow
<1>3. MarkSent(r) \in TriggerRow /\ (r.status \in Live => MarkSent(r).status \in Live)
  <2>1. CASE r.status = "pending"
    <3>1. MarkSent(r) = [status |-> "sent", attempts |-> r.attempts, note |-> r.note, sentAt |-> now]
      BY <2>1, <1>2 DEF MarkSent
    <3> QED BY <3>1, <1>0, <1>1 DEF Live
  <2>2. CASE r.status # "pending"
    BY <2>2 DEF MarkSent
  <2> QED BY <2>1, <2>2
<1>4. ASSUME NEW note \in ErrorNotes
      PROVE  Reverted(r, note) \in TriggerRow /\ Reverted(r, note).status = "pending"
  BY <1>0, <1>1 DEF Reverted, Live
<1>5. Saturated(r) \in TriggerRow /\ Saturated(r).status = r.status
  BY <1>0, <1>2 DEF Saturated, ErrorNotes, TriggerRow
<1>6. CleanSlate(r) \in TriggerRow
  <2>1. CASE r.status = "sent"
    <3>1. CleanSlate(r) =
            [status |-> "pending", attempts |-> r.attempts + 1, note |-> r.note, sentAt |-> r.sentAt]
      BY <2>1, <1>2 DEF CleanSlate
    <3> QED BY <3>1, <1>0, <1>1 DEF Live
  <2>2. CASE r.status # "sent"
    BY <2>2 DEF CleanSlate
  <2> QED BY <2>1, <2>2
<1>7. \A st \in Terminal : [r EXCEPT !.status = st] \in TriggerRow
  BY <1>0, <1>2 DEF TriggerRow
<1> QED BY <1>3, <1>4, <1>5, <1>6, <1>7

(* The LRU stays a sequence of triggers.                                   *)
LEMMA LruTouchType ==
  ASSUME lru \in Seq(Triggers), NEW t \in Triggers
  PROVE  LruTouch(t) \in Seq(Triggers)
<1> DEFINE at == CHOOSE i \in 1..Len(lru) : lru[i] = t
           kept == IF LruHas(t)
                   THEN SubSeq(lru, 1, at - 1) \o SubSeq(lru, at + 1, Len(lru))
                   ELSE lru
           moved == Append(kept, t)
<1>1. kept \in Seq(Triggers)
  <2>1. CASE LruHas(t)
    <3>1. at \in 1..Len(lru) /\ Len(lru) \in Nat
      BY <2>1, LenProperties DEF LruHas
    <3> HIDE DEF at
    <3>2. SubSeq(lru, 1, at - 1) \in Seq(Triggers)
      BY <3>1, SubSeqProperties
    <3>3. SubSeq(lru, at + 1, Len(lru)) \in Seq(Triggers)
      BY <3>1, SubSeqProperties
    <3> QED BY <3>2, <3>3, <2>1, ConcatProperties
  <2>2. CASE ~LruHas(t)
    BY <2>2
  <2> QED BY <2>1, <2>2
<1> HIDE DEF kept
<1>2. moved \in Seq(Triggers) /\ moved # <<>>
  BY <1>1, AppendProperties
<1> HIDE DEF moved
<1>3. Tail(moved) \in Seq(Triggers)
  BY <1>2, HeadTailProperties
<1> QED BY <1>2, <1>3 DEF LruTouch, moved, kept, at

-----------------------------------------------------------------------------
(* The inductive invariant. *)

(* Custody holds at the first start: nothing is known, nothing is held.    *)
LEMMA CustodyInit == Init => Custody
<1> SUFFICES ASSUME Init PROVE Custody
  OBVIOUS
<1>1. TypeOK
  BY SchedulerAssumption, EmptySeq
  DEF Init, TypeOK, Minutes, ScheduleRow, NeverFired, TriggerRow, Terminal, Live,
      ErrorNotes, LoopPcs, DispPcs, Tick, NoTick
<1>2. InflightIsExact
  BY EmptySeq DEF Init, InflightIsExact, Queued
<1>3. OffIsEmpty /\ LoopHolds /\ DispHolds
  BY DEF Init, OffIsEmpty, LoopHolds, DispHolds, NoTick, Idle
<1> QED BY <1>1, <1>2, <1>3 DEF Custody

(* The owner's tools change schedules only.                                *)
LEMMA OwnerKeepsCustody == Custody /\ Owner => Custody'
<1> SUFFICES ASSUME Custody, NEW s \in Schedules,
                    AddSchedule(s) \/ DisableSchedule(s) \/ EnableSchedule(s)
             PROVE  Custody'
  BY DEF Owner
<1>1. /\ UNCHANGED <<now, trig, queue, inflight, delivered, loopVars, dispVars, budgets>>
      /\ \/ sched' = [sched EXCEPT ![s].known = TRUE, ![s].enabled = TRUE]
         \/ sched' = [sched EXCEPT ![s].enabled = FALSE]
         \/ sched' = [sched EXCEPT ![s].enabled = TRUE]
  BY DEF AddSchedule, DisableSchedule, EnableSchedule
<1>2. sched' \in [Schedules -> ScheduleRow]
  <2>1. sched \in [Schedules -> ScheduleRow]
    BY DEF Custody, TypeOK
  <2> QED BY <1>1, <2>1 DEF ScheduleRow
<1>3. TypeOK'
  BY <1>1, <1>2 DEF Custody, TypeOK, loopVars, dispVars, budgets
<1>4. InflightIsExact' /\ OffIsEmpty' /\ LoopHolds' /\ DispHolds'
  BY <1>1 DEF Custody, InflightIsExact, Queued, OffIsEmpty, LoopHolds, DispHolds,
              loopVars, dispVars, budgets
<1> QED BY <1>3, <1>4 DEF Custody

(* An action of the loop that leaves queue, inflight and the rows' being   *)
(* in custody alone only has to show what the loop holds afterwards.       *)
LEMMA LoopKeepsCustody == Custody /\ Loop => Custody'
<1> SUFFICES ASSUME Custody, Loop PROVE Custody'
  OBVIOUS
<1> USE DEF loopVars, dispVars, budgets, db
<1>0. TypeOK /\ InflightIsExact /\ OffIsEmpty /\ LoopHolds /\ DispHolds
  BY DEF Custody
<1>1. /\ tick \in Tick /\ tick.now \in Minutes /\ tick.todo \subseteq Schedules
      /\ tick.trig \in Triggers \cup {NoTrigger} /\ tick.orphans \subseteq Triggers
      /\ now \in Minutes
  BY <1>0 DEF TypeOK, Tick
<1>2. /\ NoTick \in Tick /\ NoTick.orphans = {} /\ NoTick.trig = NoTrigger
      /\ [NoTick EXCEPT !.now = now] \in Tick
      /\ [NoTick EXCEPT !.now = now].orphans = {}
  BY <1>1, SchedulerAssumption DEF NoTick, Tick, Minutes
<1>3. \A k \in Triggers : trig[k] \in TriggerRow
  BY <1>0 DEF TypeOK
<1>4. CASE LoopSweep
  <2>1. ASSUME NEW k \in Triggers
        PROVE  /\ trig'[k] \in TriggerRow
               /\ trig[k].status \in Live => trig'[k].status \in Live
    <3>1. trig'[k] = IF Expired(trig[k]) THEN Reverted(trig[k], "expired") ELSE trig[k]
      BY <1>4 DEF LoopSweep
    <3>2. Reverted(trig[k], "expired") \in TriggerRow
          /\ Reverted(trig[k], "expired").status = "pending"
      BY <1>1, <1>3, RowUpdates DEF ErrorNotes
    <3> QED BY <3>1, <3>2, <1>3 DEF Live
  <2>2. trig' = [k \in Triggers |-> trig'[k]]
    BY <1>4 DEF LoopSweep
  <2>3. TypeOK'
    BY <1>0, <1>2, <1>4, <2>1, <2>2 DEF LoopSweep, TypeOK, LoopPcs
  <2>4. InflightIsExact'
    BY <1>0, <1>4, <2>1 DEF LoopSweep, InflightIsExact, Queued, TypeOK
  <2>5. OffIsEmpty' /\ LoopHolds' /\ DispHolds'
    BY <1>0, <1>2, <1>4 DEF LoopSweep, OffIsEmpty, LoopHolds, DispHolds
  <2> QED BY <2>3, <2>4, <2>5 DEF Custody
<1>5. CASE LoopList
  <2>1. /\ tick' \in Tick /\ tick'.orphans = {} /\ tick'.trig = tick.trig
    BY <1>0, <1>1, <1>5 DEF LoopList, LoopHolds, Tick
  <2>2. TypeOK'
    BY <1>0, <1>5, <2>1 DEF LoopList, TypeOK, LoopPcs
  <2>3. InflightIsExact' /\ OffIsEmpty' /\ LoopHolds' /\ DispHolds'
    BY <1>0, <1>5, <2>1
    DEF LoopList, InflightIsExact, Queued, OffIsEmpty, LoopHolds, DispHolds
  <2> QED BY <2>2, <2>3 DEF Custody
<1>6. CASE LoopScanned
  <2>1. TypeOK'
    BY <1>0, <1>6 DEF LoopScanned, TypeOK, LoopPcs
  <2>2. InflightIsExact' /\ OffIsEmpty' /\ LoopHolds' /\ DispHolds'
    BY <1>0, <1>6
    DEF LoopScanned, InflightIsExact, Queued, OffIsEmpty, LoopHolds, DispHolds
  <2> QED BY <2>1, <2>2 DEF Custody
<1>7. ASSUME NEW s \in Schedules, LoopSkip(s) PROVE Custody'
  <2>1. /\ tick' \in Tick /\ tick'.orphans = tick.orphans /\ tick'.trig = tick.trig
    BY <1>1, <1>7 DEF LoopSkip, Tick
  <2>2. TypeOK'
    BY <1>0, <1>7, <2>1 DEF LoopSkip, TypeOK
  <2>3. InflightIsExact' /\ OffIsEmpty' /\ LoopHolds' /\ DispHolds'
    BY <1>0, <1>7, <2>1
    DEF LoopSkip, InflightIsExact, Queued, OffIsEmpty, LoopHolds, DispHolds
  <2> QED BY <2>2, <2>3 DEF Custody
<1>8. ASSUME NEW s \in Schedules, NEW m \in Minutes, LoopMaterialize(s, m)
      PROVE  Custody'
  <2> DEFINE k == <<s, m>>
  <2>1. k \in Triggers
    BY DEF Triggers
  <2>2. trig[k].status = "absent" /\ k \notin inflight
    BY <1>0, <1>8 DEF LoopMaterialize, InflightIsExact, Live
  <2>3. Fresh \in TriggerRow /\ Fresh.status = "pending"
    BY SchedulerAssumption DEF Fresh, TriggerRow, Live, ErrorNotes, Minutes
  <2>4. /\ trig' \in [Triggers -> TriggerRow] /\ trig'[k] = Fresh
        /\ \A t \in Triggers : t # k => trig'[t] = trig[t]
    BY <1>0, <1>8, <2>1, <2>3 DEF LoopMaterialize, TypeOK
  <2>5. sched' \in [Schedules -> ScheduleRow]
    <3>1. sched \in [Schedules -> ScheduleRow] /\ sched' = [sched EXCEPT ![s].last = m]
      BY <1>0, <1>8 DEF TypeOK, LoopMaterialize
    <3> QED BY <3>1 DEF ScheduleRow
  <2>6. /\ tick' \in Tick /\ tick'.orphans = {} /\ tick'.trig = k
    BY <1>0, <1>1, <1>8, <2>1 DEF LoopMaterialize, LoopHolds, Tick
  <2> HIDE DEF k
  <2>7. TypeOK'
    BY <1>0, <1>8, <2>4, <2>5, <2>6 DEF LoopMaterialize, TypeOK, LoopPcs
  <2>8. InflightIsExact'
    BY <1>0, <1>8, <2>2, <2>4
    DEF LoopMaterialize, InflightIsExact, Queued, TypeOK
  <2>9. OffIsEmpty' /\ LoopHolds' /\ DispHolds'
    BY <1>0, <1>8, <2>1, <2>2, <2>3, <2>4, <2>6
    DEF LoopMaterialize, OffIsEmpty, LoopHolds, DispHolds
  <2> QED BY <2>7, <2>8, <2>9 DEF Custody
<1>9. CASE LoopEnqueue
  <2>1. tick.trig \in Triggers /\ trig[tick.trig].status = "pending"
        /\ tick.trig \notin inflight /\ tick.orphans = {}
    BY <1>0, <1>9 DEF LoopEnqueue, LoopHolds
  <2>2. CASE Len(queue) >= QueueSize
    <3>1. inflight' = inflight /\ queue' = queue /\ lpc' = "note"
      <4>1. Len(queue) \in Nat /\ QueueSize \in Nat
        BY <1>0, SchedulerAssumption, LenProperties DEF TypeOK
      <4>2. ~(Len(queue) < QueueSize)
        BY <2>2, <4>1
      <4>3. inflight \ {tick.trig} = inflight
        BY <2>1
      <4> QED BY <1>9, <4>2, <4>3 DEF LoopEnqueue
    <3>2. TypeOK'
      BY <1>0, <1>9, <3>1 DEF LoopEnqueue, TypeOK, LoopPcs
    <3>3. InflightIsExact' /\ OffIsEmpty' /\ LoopHolds' /\ DispHolds'
      BY <1>0, <1>9, <2>1, <3>1
      DEF LoopEnqueue, InflightIsExact, Queued, OffIsEmpty, LoopHolds, DispHolds
    <3> QED BY <3>2, <3>3 DEF Custody
  <2>3. CASE Len(queue) < QueueSize
    <3>1. /\ queue' = Append(queue, tick.trig)
          /\ inflight' = inflight \cup {tick.trig}
          /\ lpc' = "mark"
      BY <1>0, <1>9, <2>3, SchedulerAssumption DEF LoopEnqueue, TypeOK
    <3>2. Distinct(queue) /\ tick.trig \notin SeqSet(queue) /\ tick.trig # dcur
          /\ queue \in Seq(Triggers) /\ Len(queue) \in Nat
      BY <1>0, <2>1, SchedulerAssumption, LenProperties
      DEF InflightIsExact, Queued, Distinct, SeqSet, TypeOK
    <3>3. /\ queue' \in Seq(Triggers) /\ Len(queue') = Len(queue) + 1
          /\ Distinct(queue') /\ SeqSet(queue') = SeqSet(queue) \cup {tick.trig}
      BY <2>1, <3>1, <3>2, AppendKeepsDistinct
    <3>4. TypeOK'
      BY <1>0, <1>9, <2>1, <2>3, <3>1, <3>2, <3>3, SchedulerAssumption
      DEF LoopEnqueue, TypeOK, LoopPcs
    <3>5. InflightIsExact'
      BY <1>0, <1>9, <2>1, <3>1, <3>2, <3>3
      DEF LoopEnqueue, InflightIsExact, Queued, SeqSet, Distinct, Live
    <3>6. OffIsEmpty' /\ LoopHolds' /\ DispHolds'
      BY <1>0, <1>9, <2>1, <3>1 DEF LoopEnqueue, OffIsEmpty, LoopHolds, DispHolds
    <3> QED BY <3>4, <3>5, <3>6 DEF Custody
  <2> QED BY <2>2, <2>3, <1>0, SchedulerAssumption, LenProperties DEF TypeOK
<1>10. CASE LoopNote
  <2>1. tick.trig \in Triggers /\ tick.orphans = {}
    BY <1>0, <1>10 DEF LoopNote, LoopHolds
  <2>2. /\ trig' \in [Triggers -> TriggerRow]
        /\ \A t \in Triggers : trig'[t].status = trig[t].status
    BY <1>0, <1>1, <1>3, <1>10, <2>1, RowUpdates DEF LoopNote, TypeOK
  <2>3. /\ tick' \in Tick /\ tick'.orphans = {} /\ tick'.trig = NoTrigger
    BY <1>1, <1>10, <2>1 DEF LoopNote, Tick
  <2>4. TypeOK'
    BY <1>0, <1>10, <2>2, <2>3 DEF LoopNote, TypeOK, LoopPcs
  <2>5. InflightIsExact'
    BY <1>0, <1>10, <2>2 DEF LoopNote, InflightIsExact, Queued, TypeOK
  <2>6. OffIsEmpty' /\ LoopHolds' /\ DispHolds'
    BY <1>0, <1>10, <2>3 DEF LoopNote, OffIsEmpty, LoopHolds, DispHolds
  <2> QED BY <2>4, <2>5, <2>6 DEF Custody
<1>11. CASE LoopMarkSent
  <2>1. tick.trig \in Triggers /\ tick.trig \notin tick.orphans
    BY <1>0, <1>11 DEF LoopMarkSent, LoopHolds
  <2>2. /\ trig' \in [Triggers -> TriggerRow]
        /\ \A t \in Triggers : /\ t # tick.trig => trig'[t] = trig[t]
                               /\ trig[t].status \in Live => trig'[t].status \in Live
    BY <1>0, <1>1, <1>3, <1>11, <2>1, RowUpdates DEF LoopMarkSent, TypeOK
  <2>3. /\ tick' \in Tick /\ tick'.orphans = tick.orphans /\ tick'.trig = NoTrigger
    BY <1>1, <1>11, <2>1 DEF LoopMarkSent, Tick
  <2>4. TypeOK'
    BY <1>0, <1>11, <2>2, <2>3 DEF LoopMarkSent, TypeOK, LoopPcs
  <2>5. InflightIsExact'
    BY <1>0, <1>11, <2>2 DEF LoopMarkSent, InflightIsExact, Queued, TypeOK
  <2>6. OffIsEmpty' /\ DispHolds'
    BY <1>0, <1>11 DEF LoopMarkSent, OffIsEmpty, DispHolds
  <2>7. LoopHolds'
    BY <1>0, <1>1, <1>11, <2>1, <2>2, <2>3, SchedulerAssumption DEF LoopMarkSent, LoopHolds
  <2> QED BY <2>4, <2>5, <2>6, <2>7 DEF Custody
<1>12. CASE LoopReclaim
  <2>1. /\ tick' \in Tick /\ tick'.trig = tick.trig /\ lpc' = "requeue"
        /\ \A k \in tick'.orphans : /\ k \in Triggers
                                    /\ trig[k].status = "pending" /\ k \notin inflight
    BY <1>1, <1>12 DEF LoopReclaim, Tick
  <2>2. TypeOK'
    BY <1>0, <1>12, <2>1 DEF LoopReclaim, TypeOK, LoopPcs
  <2>3. InflightIsExact' /\ OffIsEmpty' /\ DispHolds'
    BY <1>0, <1>12 DEF LoopReclaim, InflightIsExact, Queued, OffIsEmpty, DispHolds
  <2>4. LoopHolds'
    BY <1>0, <1>12, <2>1, SchedulerAssumption DEF LoopReclaim, LoopHolds
  <2> QED BY <2>2, <2>3, <2>4 DEF Custody
<1>13. ASSUME NEW k \in Triggers, LoopRequeue(k) PROVE Custody'
  <2>1. k \in tick.orphans /\ trig[k].status = "pending" /\ k \notin inflight /\ k # NoTrigger
    BY <1>0, <1>13, SchedulerAssumption DEF LoopRequeue, LoopHolds
  <2>2. Len(queue) \in Nat /\ QueueSize \in Nat
    BY <1>0, SchedulerAssumption, LenProperties DEF TypeOK
  <2>3. CASE Len(queue) >= QueueSize
    <3>1. /\ inflight' = inflight /\ queue' = queue /\ lpc' = lpc
          /\ tick' \in Tick /\ tick'.trig = tick.trig /\ tick'.orphans = tick.orphans \ {k}
      <4>1. ~(Len(queue) < QueueSize)
        BY <2>2, <2>3
      <4>2. inflight \ {k} = inflight
        BY <2>1
      <4>3. /\ inflight' = inflight /\ queue' = queue /\ lpc' = lpc
            /\ tick' = [tick EXCEPT !.orphans = @ \ {k}]
        BY <1>13, <4>1, <4>2 DEF LoopRequeue
      <4> QED BY <4>3, <1>1 DEF Tick
    <3>2. TypeOK'
      BY <1>0, <1>13, <3>1 DEF LoopRequeue, TypeOK
    <3>3. InflightIsExact' /\ OffIsEmpty' /\ DispHolds'
      BY <1>0, <1>13, <3>1 DEF LoopRequeue, InflightIsExact, Queued, OffIsEmpty, DispHolds
    <3>4. LoopHolds'
      BY <1>0, <1>13, <3>1 DEF LoopRequeue, LoopHolds
    <3> QED BY <3>2, <3>3, <3>4 DEF Custody
  <2>4. CASE Len(queue) < QueueSize
    <3>1. /\ queue' = Append(queue, k) /\ inflight' = inflight \cup {k} /\ lpc' = "remark"
          /\ tick' \in Tick /\ tick'.trig = k /\ tick'.orphans = tick.orphans \ {k}
      <4>1. ~(Len(queue) >= QueueSize)
        BY <2>2, <2>4
      <4>2. /\ queue' = Append(queue, k) /\ inflight' = inflight \cup {k} /\ lpc' = "remark"
            /\ tick' = [tick EXCEPT !.orphans = @ \ {k}, !.trig = k]
        BY <1>13, <4>1 DEF LoopRequeue
      <4> QED BY <4>2, <1>1 DEF Tick
    <3>2. Distinct(queue) /\ k \notin SeqSet(queue) /\ k # dcur /\ queue \in Seq(Triggers)
      BY <1>0, <2>1 DEF InflightIsExact, Queued, Distinct, SeqSet, TypeOK
    <3>3. /\ queue' \in Seq(Triggers) /\ Len(queue') = Len(queue) + 1
          /\ Distinct(queue') /\ SeqSet(queue') = SeqSet(queue) \cup {k}
      BY <3>1, <3>2, AppendKeepsDistinct
    <3>4. TypeOK'
      BY <1>0, <1>13, <2>2, <2>4, <3>1, <3>3 DEF LoopRequeue, TypeOK, LoopPcs
    <3>5. InflightIsExact'
      BY <1>0, <1>13, <2>1, <3>1, <3>2, <3>3
      DEF LoopRequeue, InflightIsExact, Queued, SeqSet, Distinct, Live
    <3>6. OffIsEmpty' /\ DispHolds'
      BY <1>0, <1>13, <3>1 DEF LoopRequeue, OffIsEmpty, DispHolds
    <3>7. LoopHolds'
      BY <1>0, <1>13, <3>1 DEF LoopRequeue, LoopHolds
    <3> QED BY <3>4, <3>5, <3>6, <3>7 DEF Custody
  <2> QED BY <2>2, <2>3, <2>4
<1>14. CASE LoopSleep
  <2>1. TypeOK'
    BY <1>0, <1>2, <1>14 DEF LoopSleep, TypeOK, LoopPcs
  <2>2. InflightIsExact' /\ OffIsEmpty' /\ LoopHolds' /\ DispHolds'
    BY <1>0, <1>2, <1>14
    DEF LoopSleep, InflightIsExact, Queued, OffIsEmpty, LoopHolds, DispHolds
  <2> QED BY <2>1, <2>2 DEF Custody
<1> QED BY <1>4, <1>5, <1>6, <1>7, <1>8, <1>9, <1>10, <1>11, <1>12, <1>13, <1>14 DEF Loop

(* A step that ends the processing of dcur: the row of dcur may become     *)
(* anything, every other row in custody stays, and dcur leaves inflight.   *)
LEMMA ReleaseKeepsCustody ==
  ASSUME Custody, dcur \in Triggers, dpc' \in Idle \ {"off"}, dcur' = NoTrigger,
         inflight' = inflight \ {dcur},
         trig' \in [Triggers -> TriggerRow],
         \A k \in Triggers : k # dcur => trig'[k] = trig[k],
         dcrashes' \in Nat, errors' \in Nat,
         UNCHANGED <<now, sched, queue, delivered, lpc, tick, lru, crashes>>
  PROVE  Custody'
<1>0. TypeOK /\ InflightIsExact /\ OffIsEmpty /\ LoopHolds /\ DispHolds
  BY DEF Custody
<1>1. dcur \in inflight /\ dcur # NoTrigger
  BY <1>0, SchedulerAssumption DEF InflightIsExact
<1>2. TypeOK'
  BY <1>0 DEF TypeOK, Idle, DispPcs
<1>3. InflightIsExact'
  <2>1. NoTrigger \notin Queued
    BY <1>0, SchedulerAssumption DEF TypeOK, Queued
  <2>2. Queued' = Queued
    BY DEF Queued
  <2>3. inflight' = Queued
    BY <1>0, <1>1 DEF InflightIsExact
  <2>4. \A k \in inflight' : trig'[k].status \in Live
    BY <1>0, <1>1 DEF InflightIsExact, TypeOK
  <2> QED BY <1>0, <2>1, <2>2, <2>3, <2>4 DEF InflightIsExact
<1>4. OffIsEmpty' /\ DispHolds'
  BY <1>0, <1>1 DEF OffIsEmpty, DispHolds, Idle
<1>5. LoopHolds'
  <2>1. IF lpc' \in {"enqueue", "note", "mark", "remark"}
        THEN tick'.trig \in Triggers ELSE tick'.trig = NoTrigger
    BY <1>0 DEF LoopHolds
  <2>2. lpc' \in {"enqueue", "note"} =>
          trig'[tick'.trig].status = "pending" /\ tick'.trig \notin inflight'
    BY <1>0, <1>1 DEF LoopHolds
  <2>3. \A k \in tick'.orphans :
          trig'[k].status = "pending" /\ k \notin inflight' /\ k # tick'.trig
    BY <1>0, <1>1 DEF LoopHolds, TypeOK, Tick
  <2>4. lpc' \notin {"requeue", "remark"} => tick'.orphans = {}
    BY <1>0 DEF LoopHolds
  <2> QED BY <2>1, <2>2, <2>3, <2>4 DEF LoopHolds
<1> QED BY <1>2, <1>3, <1>4, <1>5 DEF Custody

(* Ending a trigger with a new row for it.                                 *)
LEMMA FinishKeepsCustody ==
  ASSUME Custody, dpc \notin Idle, NEW r \in TriggerRow, DispFinish(r)
  PROVE  Custody'
<1>1. /\ dcur \in Triggers /\ trig \in [Triggers -> TriggerRow]
      /\ dcrashes \in Nat /\ errors \in Nat
  BY DEF Custody, DispHolds, TypeOK
<1>2. /\ trig' = [trig EXCEPT ![dcur] = r]
      /\ dpc' = "idle" /\ dcur' = NoTrigger /\ inflight' = inflight \ {dcur}
      /\ UNCHANGED <<now, sched, queue, delivered, lpc, tick, lru, crashes, dcrashes, errors>>
  BY DEF DispFinish, Release, loopVars, budgets
<1>3. /\ trig' \in [Triggers -> TriggerRow]
      /\ \A k \in Triggers : k # dcur => trig'[k] = trig[k]
  BY <1>1, <1>2
<1>4. dpc' \in Idle \ {"off"}
  BY <1>2 DEF Idle
<1> QED BY <1>1, <1>2, <1>3, <1>4, ReleaseKeepsCustody

(* A step of the dispatcher takes the head of the queue into its hands,    *)
(* works on it, or lets it go through ReleaseKeepsCustody.                 *)
LEMMA DispatcherKeepsCustody == Custody /\ Dispatcher => Custody'
<1> SUFFICES ASSUME Custody, Dispatcher PROVE Custody'
  OBVIOUS
<1> USE DEF loopVars, dispVars, budgets, db
<1>0. TypeOK /\ InflightIsExact /\ OffIsEmpty /\ LoopHolds /\ DispHolds
  BY DEF Custody
<1>1. dpc \notin Idle => dcur \in Triggers
  BY <1>0 DEF DispHolds, TypeOK
<1>2. /\ now \in Minutes /\ \A k \in Triggers : trig[k] \in TriggerRow
      /\ trig \in [Triggers -> TriggerRow]
  BY <1>0 DEF TypeOK
<1>3. CASE DispGet
  <2>1. /\ queue # <<>> /\ dcur = NoTrigger /\ dpc = "idle"
        /\ dcur' = Head(queue) /\ queue' = Tail(queue) /\ dpc' \in {"drop", "check"}
        /\ lru' = LruTouch(Head(queue))
        /\ UNCHANGED <<now, sched, trig, inflight, delivered, lpc, tick, dcrashes, crashes, errors>>
    BY <1>0, <1>3 DEF DispGet, DispHolds, Idle
  <2>2. /\ queue \in Seq(Triggers) /\ Distinct(queue) /\ lru \in Seq(Triggers)
        /\ Len(queue) \in Nat /\ Len(queue) <= QueueSize /\ inflight = SeqSet(queue)
    BY <1>0, <2>1, LenProperties DEF TypeOK, InflightIsExact, Distinct, Queued, SeqSet
  <2>3. /\ Head(queue) \in Triggers /\ Tail(queue) \in Seq(Triggers)
        /\ Len(Tail(queue)) = Len(queue) - 1 /\ Distinct(Tail(queue))
        /\ Head(queue) \notin SeqSet(Tail(queue))
        /\ SeqSet(queue) = SeqSet(Tail(queue)) \cup {Head(queue)}
    BY <2>1, <2>2, TailKeepsDistinct
  <2>4. LruTouch(Head(queue)) \in Seq(Triggers)
    BY <2>2, <2>3, LruTouchType
  <2>5. Len(queue') <= QueueSize
    BY <2>1, <2>2, <2>3, SchedulerAssumption
  <2>6. TypeOK'
    BY <1>0, <2>1, <2>3, <2>4, <2>5 DEF TypeOK, DispPcs
  <2>7. InflightIsExact'
    <3>1. Queued' = SeqSet(Tail(queue)) /\ dcur' # NoTrigger
      BY <2>1, <2>3, SchedulerAssumption DEF Queued, SeqSet
    <3>2. inflight' = Queued' \cup ({dcur'} \ {NoTrigger})
      BY <2>1, <2>2, <2>3, <3>1
    <3>3. \A i, j \in 1..Len(queue') : queue'[i] = queue'[j] => i = j
      BY <2>1, <2>3 DEF Distinct
    <3>4. \A k \in inflight' : trig'[k].status \in Live
      BY <1>0, <2>1 DEF InflightIsExact
    <3> QED BY <2>1, <2>3, <3>1, <3>2, <3>3, <3>4 DEF InflightIsExact
  <2>8. OffIsEmpty' /\ LoopHolds' /\ DispHolds'
    BY <1>0, <2>1, <2>3, SchedulerAssumption DEF OffIsEmpty, LoopHolds, DispHolds, Idle
  <2> QED BY <2>6, <2>7, <2>8 DEF Custody
<1>4. CASE DispCheck
  <2>1. /\ dpc = "check" /\ dpc' \in {"handle", "drop"}
        /\ UNCHANGED <<now, sched, trig, queue, inflight, lru, lpc, tick, dcur, dcrashes,
                       delivered, crashes, errors>>
    BY <1>4 DEF DispCheck
  <2>2. TypeOK'
    BY <1>0, <2>1 DEF TypeOK, DispPcs
  <2>3. InflightIsExact' /\ OffIsEmpty' /\ LoopHolds' /\ DispHolds'
    BY <1>0, <2>1 DEF InflightIsExact, Queued, OffIsEmpty, LoopHolds, DispHolds, Idle
  <2> QED BY <2>2, <2>3 DEF Custody
<1>5. CASE DispHandle
  <2>1. /\ dpc = "handle" /\ dpc' \in {"send", "revert"}
        /\ UNCHANGED <<now, sched, trig, queue, inflight, lru, lpc, tick, dcur, dcrashes,
                       delivered, crashes, errors>>
    BY <1>5 DEF DispHandle
  <2>2. TypeOK'
    BY <1>0, <2>1 DEF TypeOK, DispPcs
  <2>3. InflightIsExact' /\ OffIsEmpty' /\ LoopHolds' /\ DispHolds'
    BY <1>0, <2>1 DEF InflightIsExact, Queued, OffIsEmpty, LoopHolds, DispHolds, Idle
  <2> QED BY <2>2, <2>3 DEF Custody
<1>6. CASE DispSend
  <2>1. /\ dpc = "send" /\ dpc' \in {"ack", "unsend"}
        /\ UNCHANGED <<now, sched, trig, queue, inflight, lru, lpc, tick, dcur, dcrashes,
                       crashes, errors>>
        /\ \/ delivered' = [delivered EXCEPT ![dcur] = @ + 1]
           \/ dpc' = "unsend" /\ delivered' = delivered
    BY <1>6 DEF DispSend
  <2>2. dcur \in Triggers /\ delivered \in [Triggers -> Nat]
    BY <1>0, <1>1, <2>1 DEF TypeOK, Idle
  <2>3. delivered' \in [Triggers -> Nat] /\ (dpc' = "ack" => delivered'[dcur] > 0)
    BY <2>1, <2>2
  <2>4. TypeOK'
    BY <1>0, <2>1, <2>3 DEF TypeOK, DispPcs
  <2>5. InflightIsExact' /\ OffIsEmpty' /\ LoopHolds' /\ DispHolds'
    BY <1>0, <2>1, <2>3 DEF InflightIsExact, Queued, OffIsEmpty, LoopHolds, DispHolds, Idle
  <2> QED BY <2>4, <2>5 DEF Custody
<1>7. CASE DispAck
  <2>1. dpc \notin Idle /\ DispFinish([trig[dcur] EXCEPT !.status = "acked"])
    BY <1>7 DEF DispAck, Idle
  <2>2. [trig[dcur] EXCEPT !.status = "acked"] \in TriggerRow
    BY <1>1, <1>2, <2>1, RowUpdates DEF Terminal
  <2> QED BY <2>1, <2>2, FinishKeepsCustody
<1>8. CASE DispDrop
  <2>1. dpc \notin Idle /\ DispFinish([trig[dcur] EXCEPT !.status = "dropped"])
    BY <1>8 DEF DispDrop, Idle
  <2>2. [trig[dcur] EXCEPT !.status = "dropped"] \in TriggerRow
    BY <1>1, <1>2, <2>1, RowUpdates DEF Terminal
  <2> QED BY <2>1, <2>2, FinishKeepsCustody
<1>9. CASE DispDead
  <2> DEFINE r == [trig[dcur] EXCEPT !.status = "dead", !.note = "failed"]
  <2>1. dpc \notin Idle /\ DispFinish(r)
    BY <1>9 DEF DispDead, Idle
  <2>2. r \in TriggerRow
    BY <1>1, <1>2, <2>1 DEF TriggerRow, Terminal, ErrorNotes
  <2> HIDE DEF r
  <2> QED BY <2>1, <2>2, FinishKeepsCustody
<1>10. CASE DispUnsend
  <2>1. dpc \notin Idle /\ DispFinish(Reverted(trig[dcur], "failed"))
    BY <1>10 DEF DispUnsend, Idle
  <2>2. Reverted(trig[dcur], "failed") \in TriggerRow
    BY <1>1, <1>2, <2>1, RowUpdates DEF ErrorNotes
  <2> QED BY <2>1, <2>2, FinishKeepsCustody
<1>11. CASE DispRevert
  <2>1. /\ dpc = "revert" /\ dpc \notin Idle /\ dcur \in Triggers
        /\ trig' = [trig EXCEPT ![dcur] = Reverted(trig[dcur], "failed")]
        /\ UNCHANGED <<now, sched, queue, delivered, lpc, tick, lru, dcrashes, crashes, errors>>
    BY <1>1, <1>11 DEF DispRevert, Idle
  <2>2. Reverted(trig[dcur], "failed") \in TriggerRow
        /\ Reverted(trig[dcur], "failed").status = "pending"
    BY <1>2, <2>1, RowUpdates DEF ErrorNotes
  <2>3. CASE dpc' = "dead" /\ UNCHANGED <<inflight, dcur>>
    <3>1. /\ trig' \in [Triggers -> TriggerRow]
          /\ trig'[dcur].status = "pending"
          /\ \A k \in Triggers : k # dcur => trig'[k] = trig[k]
      BY <1>2, <2>1, <2>2
    <3>2. dcur \in inflight
      BY <1>0, <2>1, SchedulerAssumption DEF InflightIsExact
    <3>3. TypeOK'
      BY <1>0, <2>1, <2>3, <3>1 DEF TypeOK, DispPcs
    <3>4. InflightIsExact' /\ OffIsEmpty' /\ DispHolds'
      BY <1>0, <2>1, <2>3, <3>1
      DEF InflightIsExact, Queued, OffIsEmpty, DispHolds, Idle, Live, TypeOK
    <3>5. LoopHolds'
      <4>1. \A k \in Triggers : trig[k].status = "pending" => trig'[k].status = "pending"
        BY <3>1
      <4> QED BY <1>0, <2>1, <2>3, <4>1 DEF LoopHolds, TypeOK, Tick
    <3> QED BY <3>3, <3>4, <3>5 DEF Custody
  <2>4. CASE Release
    <3>1. DispFinish(Reverted(trig[dcur], "failed"))
      BY <2>1, <2>4 DEF DispFinish
    <3> QED BY <2>1, <2>2, <3>1, FinishKeepsCustody
  <2> QED BY <1>11, <2>3, <2>4 DEF DispRevert
<1>12. CASE DispRespawn
  <2>1. /\ dpc = "down" /\ dpc' = "idle"
        /\ UNCHANGED <<now, sched, trig, queue, inflight, lru, lpc, tick, dcur, dcrashes,
                       delivered, crashes, errors>>
    BY <1>12 DEF DispRespawn
  <2>2. TypeOK'
    BY <1>0, <2>1 DEF TypeOK, DispPcs
  <2>3. InflightIsExact' /\ OffIsEmpty' /\ LoopHolds' /\ DispHolds'
    BY <1>0, <2>1 DEF InflightIsExact, Queued, OffIsEmpty, LoopHolds, DispHolds, Idle
  <2> QED BY <2>2, <2>3 DEF Custody
<1> QED BY <1>3, <1>4, <1>5, <1>6, <1>7, <1>8, <1>9, <1>10, <1>11, <1>12 DEF Dispatcher

(* A failing store call drops what its coroutine holds, a crash drops      *)
(* everything, and a boot starts from empty hands.                         *)
LEMMA EnvironmentKeepsCustody == Custody /\ (Fault \/ Boot \/ Clock) => Custody'
<1> SUFFICES ASSUME Custody, Fault \/ Boot \/ Clock PROVE Custody'
  OBVIOUS
<1> USE DEF loopVars, dispVars, budgets, db
<1>0. TypeOK /\ InflightIsExact /\ OffIsEmpty /\ LoopHolds /\ DispHolds
  BY DEF Custody
<1>1. NoTick \in Tick /\ NoTick.orphans = {} /\ NoTick.trig = NoTrigger
  BY SchedulerAssumption DEF NoTick, Tick, Minutes
<1>2. CASE LoopStoreError
  <2>1. TypeOK'
    BY <1>0, <1>1, <1>2 DEF LoopStoreError, TypeOK, LoopPcs
  <2>2. InflightIsExact' /\ OffIsEmpty' /\ LoopHolds' /\ DispHolds'
    BY <1>0, <1>1, <1>2
    DEF LoopStoreError, InflightIsExact, Queued, OffIsEmpty, LoopHolds, DispHolds
  <2> QED BY <2>1, <2>2 DEF Custody
<1>3. CASE DispStoreError
  <2>1. /\ dpc \in {"check", "drop", "revert", "unsend", "dead", "ack"}
        /\ inflight' = inflight \ {dcur} /\ dcur' = NoTrigger
        /\ dpc' \in {"gone", "down"}
        /\ dcrashes' = dcrashes + 1 /\ errors' = errors + 1
        /\ UNCHANGED <<now, sched, trig, queue, delivered, lpc, tick, lru, crashes>>
    BY <1>3 DEF DispStoreError
  <2>2. /\ dcur \in Triggers /\ dcrashes \in Nat /\ errors \in Nat
        /\ trig \in [Triggers -> TriggerRow] /\ dpc' \in Idle \ {"off"}
    BY <1>0, <2>1 DEF TypeOK, DispHolds, Idle
  <2> QED BY <2>1, <2>2, ReleaseKeepsCustody
<1>7. CASE DispCancelled
  <2>1. /\ dpc = "handle" /\ dpc' = "gone"
        /\ inflight' = inflight \ {dcur} /\ dcur' = NoTrigger
        /\ errors' = errors + 1
        /\ UNCHANGED <<now, sched, trig, queue, delivered, lpc, tick, lru, dcrashes, crashes>>
    BY <1>7 DEF DispCancelled
  <2>2. /\ dcur \in Triggers /\ dcrashes' \in Nat /\ errors' \in Nat
        /\ trig' \in [Triggers -> TriggerRow] /\ dpc' \in Idle \ {"off"}
    BY <1>0, <2>1 DEF TypeOK, DispHolds, Idle
  <2> QED BY <2>1, <2>2, ReleaseKeepsCustody
<1>4. CASE Crash
  <2>1. TypeOK'
    BY <1>0, <1>1, <1>4, EmptySeq, SchedulerAssumption DEF Crash, TypeOK, LoopPcs, DispPcs
  <2>2. InflightIsExact' /\ OffIsEmpty' /\ LoopHolds' /\ DispHolds'
    BY <1>0, <1>1, <1>4, EmptySeq
    DEF Crash, InflightIsExact, Queued, OffIsEmpty, LoopHolds, DispHolds, Idle
  <2> QED BY <2>1, <2>2 DEF Custody
<1>5. CASE Boot
  <2>1. /\ lpc = "off" /\ inflight = {} /\ queue = <<>> /\ tick = NoTick /\ dcur = NoTrigger
    BY <1>0, <1>5 DEF Boot, OffIsEmpty
  <2>2. trig' \in [Triggers -> TriggerRow]
    BY <1>0, <1>5, RowUpdates DEF Boot, TypeOK
  <2>3. TypeOK'
    BY <1>0, <1>5, <2>2 DEF Boot, TypeOK, LoopPcs, DispPcs
  <2>4. InflightIsExact' /\ OffIsEmpty' /\ LoopHolds' /\ DispHolds'
    BY <1>0, <1>1, <1>5, <2>1, EmptySeq
    DEF Boot, InflightIsExact, Queued, OffIsEmpty, LoopHolds, DispHolds, Idle
  <2> QED BY <2>3, <2>4 DEF Custody
<1>6. CASE Clock
  <2>1. now' \in Minutes
    BY <1>0, <1>6, SchedulerAssumption DEF Clock, TypeOK, Minutes
  <2>2. TypeOK'
    BY <1>0, <1>6, <2>1 DEF Clock, TypeOK
  <2>3. InflightIsExact' /\ OffIsEmpty' /\ LoopHolds' /\ DispHolds'
    BY <1>0, <1>6 DEF Clock, InflightIsExact, Queued, OffIsEmpty, LoopHolds, DispHolds
  <2> QED BY <2>2, <2>3 DEF Custody
<1> QED BY <1>2, <1>3, <1>4, <1>5, <1>6, <1>7 DEF Fault

(* Custody depends on the variables only.                                  *)
LEMMA CustodyStutter == Custody /\ UNCHANGED vars => Custody'
<1> SUFFICES ASSUME Custody, UNCHANGED vars PROVE Custody'
  OBVIOUS
<1>1. TypeOK'
  BY DEF Custody, vars, TypeOK
<1>2. InflightIsExact' /\ OffIsEmpty' /\ LoopHolds' /\ DispHolds'
  BY DEF Custody, vars, InflightIsExact, Queued, OffIsEmpty, LoopHolds, DispHolds
<1> QED BY <1>1, <1>2 DEF Custody

(* Custody holds in every state the daemon can reach, so no interleaving   *)
(* of the loop, the dispatcher, the owner, faults and restarts gives one   *)
(* trigger two holders.                                                    *)
THEOREM CustodyInvariant == Spec => []Custody
<1>1. Custody /\ [Next]_vars => Custody'
  BY OwnerKeepsCustody, LoopKeepsCustody, DispatcherKeepsCustody,
     EnvironmentKeepsCustody, CustodyStutter DEF Next
<1> QED BY CustodyInit, <1>1, PTL DEF Spec

(* The type invariant of Scheduler, for every value of its constants.      *)
THEOREM TypeCorrect == Spec => []TypeOK
<1>1. Custody => TypeOK
  BY DEF Custody
<1> QED BY CustodyInvariant, <1>1, PTL

(* The inflight set that guards the reclaim sweep is exact, for every      *)
(* value of the constants.                                                 *)
THEOREM InflightExact == Spec => []InflightIsExact
<1>1. Custody => InflightIsExact
  BY DEF Custody
<1> QED BY CustodyInvariant, <1>1, PTL

-----------------------------------------------------------------------------
(* Rows that have ended. *)

(* The one row an action of the loop or of the dispatcher writes is in its *)
(* custody, and the many rows a sweep or a boot writes are sent.           *)
LEMMA TerminalStep ==
  ASSUME Custody, [Next]_vars, NEW k \in Triggers, trig[k].status \in Terminal
  PROVE  trig'[k] = trig[k]
<1> USE DEF loopVars, dispVars, budgets, db
<1>0. /\ trig \in [Triggers -> TriggerRow]
      /\ trig[k].status \notin Live /\ trig[k].status # "absent"
      /\ trig[k].status # "pending" /\ trig[k].status # "sent"
  BY DEF Custody, TypeOK, Terminal, Live
<1>1. k \notin inflight
  BY <1>0 DEF Custody, InflightIsExact
<1>2. dpc \notin Idle => k # dcur
  BY <1>1 DEF Custody, InflightIsExact, DispHolds
<1>3. CASE LoopSweep
  BY <1>0, <1>3 DEF LoopSweep, Expired
<1>4. ASSUME NEW s \in Schedules, NEW m \in Minutes, LoopMaterialize(s, m)
      PROVE  trig'[k] = trig[k]
  BY <1>0, <1>4 DEF LoopMaterialize
<1>5. CASE LoopNote
  BY <1>0, <1>5 DEF LoopNote, Custody, LoopHolds
<1>6. CASE LoopMarkSent
  BY <1>0, <1>6 DEF LoopMarkSent, MarkSent
<1>7. CASE Boot
  BY <1>0, <1>7 DEF Boot, CleanSlate
<1>8. CASE DispAck \/ DispDrop \/ DispDead \/ DispUnsend \/ DispRevert
  BY <1>0, <1>2, <1>8
  DEF DispAck, DispDrop, DispDead, DispUnsend, DispRevert, DispFinish, Idle
<1>9. CASE UNCHANGED trig
  BY <1>9
<1>10. UNCHANGED trig \/ LoopSweep \/ LoopNote \/ LoopMarkSent \/ Boot
       \/ (\E s \in Schedules, m \in Minutes : LoopMaterialize(s, m))
       \/ DispAck \/ DispDrop \/ DispDead \/ DispUnsend \/ DispRevert
  BY DEF Next, vars, Owner, AddSchedule, DisableSchedule, EnableSchedule, Loop, LoopList,
         LoopScanned, LoopSkip, LoopEnqueue, LoopReclaim, LoopRequeue, LoopSleep,
         Dispatcher, DispGet, DispCheck, DispHandle, DispSend, DispRespawn,
         Fault, LoopStoreError, DispStoreError, DispCancelled, Crash, Clock
<1> QED BY <1>3, <1>4, <1>5, <1>6, <1>7, <1>8, <1>9, <1>10

(* No row that has ended is written again, for every value of the          *)
(* constants: the guard of mark_sent and the inflight set suffice.         *)
THEOREM TerminalStaysFinal == Spec => TerminalIsFinal
<1>1. Custody /\ [Next]_vars =>
        [\A k \in Triggers : trig[k].status \in Terminal => trig'[k] = trig[k]]_trig
  BY TerminalStep
<1> QED BY CustodyInvariant, <1>1, PTL DEF Spec, TerminalIsFinal

-----------------------------------------------------------------------------
(* Catching up. *)

(* The minute a tick looks at is never ahead of the clock.                 *)
TickIsPast == tick.now <= now

(* Each tick takes its minute from the clock, which only goes forward.     *)
LEMMA TickStep == TypeOK /\ TickIsPast /\ [Next]_vars => TickIsPast'
<1> SUFFICES ASSUME TypeOK, TickIsPast, [Next]_vars PROVE TickIsPast'
  OBVIOUS
<1> USE DEF loopVars, dispVars, budgets, db
<1>0. /\ tick \in Tick /\ now \in Nat /\ tick.now \in Nat /\ NoTick.now = 0
      /\ tick.now <= now
  BY SchedulerAssumption DEF TypeOK, Tick, Minutes, NoTick, TickIsPast
<1>1. CASE LoopSweep
  <2>1. tick' = [NoTick EXCEPT !.now = now] /\ now' = now
    BY <1>1 DEF LoopSweep
  <2>2. tick'.now = now
    BY <2>1 DEF NoTick
  <2> QED BY <1>0, <2>1, <2>2 DEF TickIsPast
<1>2. CASE tick' = NoTick /\ now' = now
  BY <1>0, <1>2 DEF TickIsPast
<1>3. CASE tick'.now = tick.now /\ now' = now
  BY <1>0, <1>3 DEF TickIsPast
<1>4. CASE Clock
  BY <1>0, <1>4 DEF Clock, TickIsPast
<1>5. ASSUME NEW s \in Schedules, LoopSkip(s) \/ \E m \in Minutes : LoopMaterialize(s, m)
      PROVE  tick'.now = tick.now /\ now' = now
  BY <1>0, <1>5 DEF LoopSkip, LoopMaterialize, Tick
<1>6. ASSUME NEW k \in Triggers, LoopRequeue(k)
      PROVE  tick'.now = tick.now /\ now' = now
  BY <1>0, <1>6 DEF LoopRequeue, Tick
<1>7. ASSUME LoopList \/ LoopNote \/ LoopMarkSent \/ LoopReclaim
      PROVE  tick'.now = tick.now /\ now' = now
  BY <1>0, <1>7 DEF LoopList, LoopNote, LoopMarkSent, LoopReclaim, Tick
<1>8. ASSUME LoopSleep \/ LoopStoreError \/ Crash
      PROVE  tick' = NoTick /\ now' = now
  BY <1>8 DEF LoopSleep, LoopStoreError, Crash
<1>9. ASSUME Owner \/ LoopScanned \/ LoopEnqueue \/ Dispatcher \/ DispStoreError
             \/ DispCancelled \/ Boot \/ UNCHANGED vars
      PROVE  tick'.now = tick.now /\ now' = now
  BY <1>9 DEF Owner, AddSchedule, DisableSchedule, EnableSchedule, LoopScanned, LoopEnqueue,
       Dispatcher, DispGet, DispCheck, DispHandle, DispSend, DispAck, DispDrop, DispDead,
       DispUnsend, DispRevert, DispFinish, DispRespawn, DispStoreError, DispCancelled,
       Boot, vars
<1> QED BY <1>1, <1>2, <1>3, <1>4, <1>5, <1>6, <1>7, <1>8, <1>9 DEF Next, Loop, Fault

(* What a tick passes over was outside its window, and is outside now.     *)
LEMMA SkipStep ==
  ASSUME TypeOK, TickIsPast, [Next]_vars, NEW s \in Schedules,
         sched[s].last # sched'[s].last, sched[s].last # NeverFired,
         NEW m \in Fires[s], sched[s].last < m, m < sched'[s].last
  PROVE  now - m > CatchupWindow
<1> USE DEF loopVars, dispVars, budgets, db
<1>0. /\ sched \in [Schedules -> ScheduleRow] /\ tick.now \in Nat /\ now \in Nat
      /\ m \in Nat /\ CatchupWindow \in Nat /\ tick.now <= now
  BY SchedulerAssumption DEF TypeOK, Tick, Minutes, TickIsPast
<1>1. ASSUME NEW r \in Schedules, NEW n \in Minutes, LoopMaterialize(r, n)
      PROVE  now - m > CatchupWindow
  <2>1. /\ IsDue(r, tick.now, n) /\ sched' = [sched EXCEPT ![r].last = n] /\ n \in Nat
    BY <1>1, SchedulerAssumption DEF LoopMaterialize, Minutes
  <2>2. r = s /\ sched'[s].last = n
    BY <1>0, <2>1 DEF ScheduleRow
  <2>3. n \in DueMinutes(s, tick.now) /\ \A other \in DueMinutes(s, tick.now) : n <= other
    BY <2>1, <2>2 DEF IsDue
  <2>4. n <= tick.now
    BY <2>3 DEF DueMinutes
  <2>5. m \notin DueMinutes(s, tick.now)
    BY <1>0, <2>1, <2>2, <2>3
  <2>6. ~(tick.now - m <= CatchupWindow)
    BY <1>0, <2>1, <2>2, <2>4, <2>5 DEF DueMinutes
  <2> QED BY <1>0, <2>6
<1>2. ASSUME NEW r \in Schedules, AddSchedule(r) \/ DisableSchedule(r) \/ EnableSchedule(r)
      PROVE  sched'[s].last = sched[s].last
  BY <1>0, <1>2 DEF AddSchedule, DisableSchedule, EnableSchedule, ScheduleRow
<1>3. CASE UNCHANGED sched
  BY <1>3
<1>4. UNCHANGED sched \/ (\E r \in Schedules, n \in Minutes : LoopMaterialize(r, n))
      \/ (\E r \in Schedules : AddSchedule(r) \/ DisableSchedule(r) \/ EnableSchedule(r))
  BY DEF Next, vars, Owner, Loop, LoopSweep, LoopList, LoopScanned, LoopSkip, LoopEnqueue,
         LoopNote, LoopMarkSent, LoopReclaim, LoopRequeue, LoopSleep, Dispatcher, DispGet,
         DispCheck, DispHandle, DispSend, DispAck, DispDrop, DispDead, DispUnsend,
         DispRevert, DispFinish, DispRespawn, Fault, LoopStoreError, DispStoreError,
         DispCancelled, Crash, Boot, Clock
<1> QED BY <1>1, <1>2, <1>3, <1>4

(* Catching up passes over no minute of the window, for every set of       *)
(* schedules and every window, whatever stalls and restarts there were.    *)
THEOREM NothingSkipped == Spec => NoMinuteSkipped
<1>1. Init => TickIsPast
  BY DEF Init, TickIsPast, NoTick
<1>2. TypeOK /\ TickIsPast /\ [Next]_vars =>
        [\A s \in Schedules :
           LET old == sched[s].last  new == sched'[s].last IN
           old # new /\ old # NeverFired =>
             \A m \in Fires[s] : old < m /\ m < new => now - m > CatchupWindow]_sched
  BY SkipStep
<1> QED BY TypeCorrect, <1>1, TickStep, <1>2, PTL DEF Spec, NoMinuteSkipped

-----------------------------------------------------------------------------
(* One delivery for each life of the process. *)

(* What is left of a sequence without duplicates when the element at k is  *)
(* cut out.                                                                *)
LEMMA CutIs ==
  ASSUME NEW S, NEW q \in Seq(S), Distinct(q), NEW k \in 1..Len(q)
  PROVE  LET r == SubSeq(q, 1, k - 1) \o SubSeq(q, k + 1, Len(q)) IN
         /\ r \in Seq(S) /\ Distinct(r)
         /\ SeqSet(r) = SeqSet(q) \ {q[k]}
<1> DEFINE a == SubSeq(q, 1, k - 1)
           b == SubSeq(q, k + 1, Len(q))
           r == a \o b
<1>1. Len(q) \in Nat /\ k \in Nat /\ 1 <= k /\ k <= Len(q)
      /\ \A i \in 1..Len(q) : q[i] \in S
  BY LenProperties, ElementOfSeq
<1>2. a \in Seq(S) /\ Len(a) = k - 1 /\ \A i \in 1..(k - 1) : a[i] = q[i]
  <2>1. /\ 1 \in Int /\ k - 1 \in Int /\ \A i \in 1..(k - 1) : q[i] \in S
    BY <1>1
  <2> QED BY <1>1, <2>1, SubSeqProperties
<1>3. /\ b \in Seq(S) /\ Len(b) = Len(q) - k
      /\ \A i \in 1..(Len(q) - k) : b[i] = q[k + i]
  <2>1. k + 1 \in Int /\ Len(q) \in Int /\ \A i \in (k + 1)..Len(q) : q[i] \in S
    BY <1>1
  <2>2. /\ b \in Seq(S) /\ Len(b) = IF k + 1 <= Len(q) THEN Len(q) - (k + 1) + 1 ELSE 0
        /\ \A i \in 1..(Len(q) - (k + 1) + 1) : b[i] = q[(k + 1) + i - 1]
    BY <2>1, SubSeqProperties
  <2> QED BY <1>1, <2>2
<1> HIDE DEF a, b
<1>4. /\ r \in Seq(S) /\ Len(r) = Len(a) + Len(b)
      /\ \A i \in 1..(Len(a) + Len(b)) : r[i] = IF i <= Len(a) THEN a[i] ELSE b[i - Len(a)]
  BY <1>2, <1>3, ConcatProperties
<1> HIDE DEF r
<1>5. Len(r) = Len(q) - 1
  BY <1>1, <1>2, <1>3, <1>4
<1>6. ASSUME NEW i \in 1..(Len(q) - 1)
      PROVE  r[i] = IF i < k THEN q[i] ELSE q[i + 1]
  <2>1. i \in Nat /\ i \in 1..(Len(a) + Len(b))
    BY <1>1, <1>2, <1>3
  <2>2. CASE i < k
    <3>1. i <= Len(a) /\ i \in 1..(k - 1)
      BY <1>1, <1>2, <2>1, <2>2
    <3> QED BY <1>2, <1>4, <2>1, <2>2, <3>1
  <2>3. CASE ~(i < k)
    <3>1. /\ ~(i <= Len(a)) /\ i - Len(a) \in 1..(Len(q) - k)
          /\ k + (i - Len(a)) = i + 1
      BY <1>1, <1>2, <2>1, <2>3
    <3>2. r[i] = b[i - Len(a)] /\ b[i - Len(a)] = q[k + (i - Len(a))]
      BY <1>3, <1>4, <2>1, <3>1
    <3> QED BY <2>3, <3>1, <3>2
  <2> QED BY <2>2, <2>3
<1>7. Distinct(r)
  <2> SUFFICES ASSUME NEW i \in 1..Len(r), NEW j \in 1..Len(r), r[i] = r[j]
               PROVE  i = j
    BY DEF Distinct
  <2> DEFINE x == IF i < k THEN i ELSE i + 1
             y == IF j < k THEN j ELSE j + 1
  <2>1. x \in 1..Len(q) /\ y \in 1..Len(q) /\ q[x] = q[y]
    BY <1>1, <1>5, <1>6
  <2>2. x = y
    BY <2>1 DEF Distinct
  <2> QED BY <1>1, <1>5, <2>2
<1>8. ASSUME NEW i \in 1..Len(r) PROVE r[i] \in SeqSet(q) \ {q[k]}
  <2> DEFINE x == IF i < k THEN i ELSE i + 1
  <2>1. x \in 1..Len(q) /\ x # k /\ r[i] = q[x]
    BY <1>1, <1>5, <1>6
  <2>2. q[x] # q[k]
    BY <2>1 DEF Distinct
  <2> QED BY <2>1, <2>2 DEF SeqSet
<1>9. ASSUME NEW j \in 1..Len(q), j # k PROVE q[j] \in SeqSet(r)
  <2> DEFINE x == IF j < k THEN j ELSE j - 1
  <2>1. x \in 1..Len(r) /\ r[x] = q[j]
    BY <1>1, <1>5, <1>6, <1>9
  <2> QED BY <2>1 DEF SeqSet
<1> QED BY <1>4, <1>7, <1>8, <1>9 DEF r, a, b, SeqSet

LEMMA LruHasIs == \A t : LruHas(t) <=> t \in SeqSet(lru)
  BY DEF LruHas, SeqSet

(* A lookup remembers what it looked up, forgets at most one entry, and    *)
(* none as long as the entries are of a set no larger than the LRU.        *)
LEMMA LruTouchIs ==
  ASSUME lru \in Seq(Triggers), Distinct(lru), NEW t \in Triggers
  PROVE  /\ Distinct(LruTouch(t))
         /\ t \in SeqSet(LruTouch(t))
         /\ SeqSet(LruTouch(t)) \subseteq SeqSet(lru) \cup {t}
         /\ \A S : IsFiniteSet(S) /\ Cardinality(S) <= LruSize
                   /\ SeqSet(lru) \cup {t} \subseteq S
                   => SeqSet(LruTouch(t)) = SeqSet(lru) \cup {t}
<1> DEFINE at == CHOOSE i \in 1..Len(lru) : lru[i] = t
           kept == IF LruHas(t)
                   THEN SubSeq(lru, 1, at - 1) \o SubSeq(lru, at + 1, Len(lru))
                   ELSE lru
           moved == Append(kept, t)
<1>1. kept \in Seq(Triggers) /\ Distinct(kept) /\ SeqSet(kept) = SeqSet(lru) \ {t}
  <2>1. CASE LruHas(t)
    <3>1. at \in 1..Len(lru) /\ lru[at] = t
      BY <2>1 DEF LruHas
    <3> HIDE DEF at
    <3> QED BY <2>1, <3>1, CutIs
  <2>2. CASE ~LruHas(t)
    BY <2>2, LruHasIs
  <2> QED BY <2>1, <2>2
<1> HIDE DEF kept
<1>2. /\ moved \in Seq(Triggers) /\ moved # <<>> /\ Distinct(moved)
      /\ Len(moved) = Len(kept) + 1 /\ moved[Len(moved)] = t
      /\ SeqSet(moved) = SeqSet(lru) \cup {t}
  <2>1. t \notin SeqSet(kept)
    BY <1>1
  <2> QED BY <1>1, <2>1, AppendKeepsDistinct, AppendProperties
<1> HIDE DEF moved
<1>3. LruTouch(t) = IF Len(moved) > LruSize THEN Tail(moved) ELSE moved
  BY DEF LruTouch, moved, kept, at
<1>4. Len(moved) \in Nat /\ Len(moved) > 0 /\ LruSize \in Nat \ {0}
  BY <1>2, SchedulerAssumption, LenProperties, EmptySeq
<1>5. CASE Len(moved) > LruSize
  <2>1. /\ Distinct(Tail(moved)) /\ SeqSet(Tail(moved)) \subseteq SeqSet(moved)
        /\ Tail(moved) \in Seq(Triggers) /\ Len(Tail(moved)) = Len(moved) - 1
    BY <1>2, TailKeepsDistinct
  <2>2. t \in SeqSet(Tail(moved))
    <3>1. \A i \in 1..Len(Tail(moved)) : Tail(moved)[i] = moved[i + 1]
      BY <1>2, HeadTailProperties
    <3>2. Len(moved) - 1 \in 1..Len(Tail(moved)) /\ Tail(moved)[Len(moved) - 1] = t
      BY <1>2, <1>4, <1>5, <2>1, <3>1
    <3> QED BY <3>2 DEF SeqSet
  <2>3. ASSUME NEW S, IsFiniteSet(S), Cardinality(S) <= LruSize,
               SeqSet(lru) \cup {t} \subseteq S
        PROVE  FALSE
    <3>1. moved \in Injection(1..Len(moved), S)
      <4>1. moved \in [1..Len(moved) -> S]
        <5>1. \A i \in 1..Len(moved) : moved[i] \in S
          BY <1>2, <2>3 DEF SeqSet
        <5> QED BY <1>2, <5>1, LenProperties
      <4>2. \A i, j \in 1..Len(moved) : moved[i] = moved[j] => i = j
        BY <1>2 DEF Distinct
      <4> QED BY <4>1, <4>2 DEF Injection, IsInjective
    <3>2. Cardinality(1..Len(moved)) <= Cardinality(S)
      BY <2>3, <3>1, FS_Injection
    <3>3. Cardinality(1..Len(moved)) = Len(moved)
      <4>1. \A n \in Int : Cardinality(1..n) = IF 1 > n THEN 0 ELSE n - 1 + 1
        BY FS_Interval
      <4> QED BY <1>4, <4>1
    <3>4. Cardinality(S) \in Nat
      BY <2>3, FS_CardinalityType
    <3> QED BY <1>4, <1>5, <2>3, <3>2, <3>3, <3>4
  <2> QED BY <1>2, <1>3, <1>5, <2>1, <2>2, <2>3
<1>6. CASE ~(Len(moved) > LruSize)
  BY <1>2, <1>3, <1>6
<1> QED BY <1>5, <1>6

(* What the deliveries of this life have to do with the LRU: a trigger     *)
(* that is not in it, or that is on its way to the owner, has had none.    *)
Remembered ==
  /\ Distinct(lru)
  /\ \A k \in Triggers : /\ delivered[k] <= crashes + 1
                         /\ k \notin SeqSet(lru) => delivered[k] <= crashes
  /\ dpc \in {"check", "handle", "send"} =>
       dcur \in SeqSet(lru) /\ delivered[dcur] <= crashes

(* The LRU forgets a trigger with its process only.                        *)
LruLasts == crashes' = crashes => SeqSet(lru) \subseteq SeqSet(lru')

(* Only a delivery, a lookup and a death of the process touch the LRU or   *)
(* the deliveries, and nothing else starts the way of a trigger.           *)
LEMMA OtherSteps ==
  ASSUME [Next]_vars, ~DispGet, ~DispSend, ~Crash
  PROVE  /\ UNCHANGED <<lru, delivered, crashes>>
         /\ dpc' \in {"check", "handle", "send"} =>
              dpc \in {"check", "handle", "send"} /\ dcur' = dcur
<1> USE DEF loopVars, dispVars, budgets, db
<1>1. CASE Owner \/ Clock \/ UNCHANGED vars
  BY <1>1 DEF Owner, AddSchedule, DisableSchedule, EnableSchedule, Clock, vars
<1>2. CASE Loop \/ LoopStoreError
  BY <1>2 DEF Loop, LoopSweep, LoopList, LoopScanned, LoopSkip, LoopMaterialize,
       LoopEnqueue, LoopNote, LoopMarkSent, LoopReclaim, LoopRequeue, LoopSleep,
       LoopStoreError
<1>3. CASE DispCheck \/ DispHandle
  BY <1>3 DEF DispCheck, DispHandle
<1>4. CASE DispAck \/ DispDrop \/ DispDead \/ DispUnsend \/ DispRevert
  BY <1>4 DEF DispAck, DispDrop, DispDead, DispUnsend, DispRevert, DispFinish, Release
<1>5. CASE DispRespawn \/ DispStoreError \/ DispCancelled \/ Boot
  BY <1>5 DEF DispRespawn, DispStoreError, DispCancelled, Boot
<1> QED BY <1>1, <1>2, <1>3, <1>4, <1>5 DEF Next, Dispatcher, Fault

LEMMA RememberedStep ==
  ASSUME Custody, Remembered, [Next]_vars, LruLasts
  PROVE  Remembered'
<1> USE DEF loopVars, dispVars, budgets, db
<1>0. /\ lru \in Seq(Triggers) /\ queue \in Seq(Triggers) /\ crashes \in Nat
      /\ delivered \in [Triggers -> Nat] /\ dcur \in Triggers \cup {NoTrigger}
  BY DEF Custody, TypeOK
<1>1. CASE DispGet
  <2> DEFINE t == Head(queue)
  <2>1. t \in Triggers
    BY <1>0, <1>1, HeadTailProperties DEF DispGet
  <2>2. /\ dcur' = t /\ lru' = LruTouch(t) /\ UNCHANGED <<delivered, crashes>>
        /\ dpc' = IF LruHas(t) THEN "drop" ELSE "check"
    BY <1>1 DEF DispGet
  <2> HIDE DEF t
  <2>3. /\ Distinct(lru') /\ t \in SeqSet(lru')
    BY <1>0, <2>1, <2>2, LruTouchIs DEF Remembered
  <2>4. SeqSet(lru) \subseteq SeqSet(lru')
    BY <2>2 DEF LruLasts
  <2>5. dpc' = "check" => t \notin SeqSet(lru)
    BY <2>2, LruHasIs
  <2> QED BY <2>1, <2>2, <2>3, <2>4, <2>5 DEF Remembered
<1>2. CASE DispSend
  <2>1. /\ dcur \in Triggers /\ dpc = "send"
    BY <1>0, <1>2 DEF DispSend, Custody, DispHolds, Idle
  <2>2. /\ dpc' \in {"ack", "unsend"} /\ UNCHANGED <<lru, dcur, crashes>>
        /\ delivered' \in {delivered, [delivered EXCEPT ![dcur] = @ + 1]}
    BY <1>2 DEF DispSend
  <2>3. \A k \in Triggers : /\ delivered'[k] \in {delivered[k], delivered[k] + 1}
                            /\ k # dcur => delivered'[k] = delivered[k]
    BY <1>0, <2>1, <2>2
  <2> QED BY <1>0, <2>1, <2>2, <2>3 DEF Remembered
<1>3. CASE Crash
  <2>1. lru' = <<>> /\ crashes' = crashes + 1 /\ delivered' = delivered /\ dpc' = "off"
    BY <1>3 DEF Crash
  <2>2. Distinct(<<>>) /\ SeqSet(<<>>) = {}
    BY EmptySeq DEF Distinct, SeqSet
  <2> QED BY <1>0, <2>1, <2>2 DEF Remembered
<1>4. CASE ~DispGet /\ ~DispSend /\ ~Crash
  BY <1>4, OtherSteps DEF Remembered
<1> QED BY <1>1, <1>2, <1>3, <1>4

(* For every value of the constants, and as long as the LRU forgets        *)
(* nothing while the process lives, the owner gets a trigger at most once  *)
(* in each of its lives: a trigger that comes back to the queue after its  *)
(* delivery, because mark_acked raised, is recognised and dropped.         *)
THEOREM DeliveredOnce == Spec /\ [][LruLasts]_vars => []DeliveredOncePerLife
<1>1. Init => Remembered
  <2>1. Distinct(<<>>) /\ SeqSet(<<>>) = {}
    BY EmptySeq DEF Distinct, SeqSet
  <2> QED BY <2>1 DEF Init, Remembered
<1>2. LruLasts \/ UNCHANGED vars => LruLasts
  BY DEF LruLasts, vars
<1>3. Custody /\ Remembered /\ [Next]_vars /\ [LruLasts]_vars => Remembered'
  BY RememberedStep, <1>2
<1>4. Remembered => DeliveredOncePerLife
  BY DEF Remembered, DeliveredOncePerLife
<1> QED BY CustodyInvariant, <1>1, <1>3, <1>4, PTL DEF Spec

(* The minutes at which a cron expression lets a schedule fire.            *)
Firings == {k \in Triggers : k[2] \in Fires[k[1]]}

(* No row is of another minute, and no other minute is in the LRU.         *)
OnlyFirings ==
  /\ \A k \in Triggers : trig[k].status # "absent" => k \in Firings
  /\ Distinct(lru) /\ SeqSet(lru) \subseteq Firings

LEMMA QueuedFires ==
  ASSUME Custody, OnlyFirings, queue # <<>>
  PROVE  Head(queue) \in Firings
<1>1. queue \in Seq(Triggers) /\ Head(queue) = queue[1] /\ 1 \in 1..Len(queue)
  BY HeadTailProperties, LenProperties, EmptySeq DEF Custody, TypeOK
<1>2. Head(queue) \in Queued /\ Head(queue) \in Triggers
  BY <1>1, ElementOfSeq DEF Queued
<1>3. trig[Head(queue)].status \in Live
  BY <1>2 DEF Custody, InflightIsExact
<1> QED BY <1>2, <1>3 DEF OnlyFirings, Live

LEMMA OnlyFiringsStep ==
  ASSUME Custody, OnlyFirings, [Next]_vars
  PROVE  OnlyFirings'
<1> USE DEF loopVars, dispVars, budgets, db
<1>0. /\ lru \in Seq(Triggers) /\ queue \in Seq(Triggers)
      /\ trig \in [Triggers -> TriggerRow] /\ now \in Minutes
  BY DEF Custody, TypeOK
<1>1. Distinct(lru') /\ SeqSet(lru') \subseteq Firings
  <2>1. CASE DispGet
    <3>1. Head(queue) \in Firings /\ Head(queue) \in Triggers /\ lru' = LruTouch(Head(queue))
      BY <2>1, QueuedFires DEF DispGet, Firings
    <3> QED BY <1>0, <3>1, LruTouchIs DEF OnlyFirings
  <2>2. CASE Crash
    <3>1. Distinct(<<>>) /\ SeqSet(<<>>) = {} /\ lru' = <<>>
      BY <2>2, EmptySeq DEF Crash, Distinct, SeqSet
    <3> QED BY <3>1
  <2>3. CASE DispSend
    BY <2>3 DEF DispSend, OnlyFirings
  <2> QED BY <2>1, <2>2, <2>3, OtherSteps DEF OnlyFirings
<1>2. ASSUME NEW k \in Triggers, trig'[k].status # "absent" PROVE k \in Firings
  <2>1. CASE trig[k].status # "absent"
    BY <2>1 DEF OnlyFirings
  <2>2. ASSUME NEW s \in Schedules, NEW m \in Minutes, LoopMaterialize(s, m),
               trig[k].status = "absent"
        PROVE  k \in Firings
    <3>1. k = <<s, m>>
      BY <1>0, <1>2, <2>2 DEF LoopMaterialize
    <3>2. m \in Fires[s]
      BY <2>2 DEF LoopMaterialize, IsDue, DueMinutes
    <3> QED BY <3>1, <3>2 DEF Firings
  <2>3. ASSUME trig[k].status = "absent",
               LoopSweep \/ LoopNote \/ LoopMarkSent \/ Boot
        PROVE  FALSE
    <3>1. /\ ~Expired(trig[k]) /\ CleanSlate(trig[k]) = trig[k]
          /\ MarkSent(trig[k]) = trig[k] /\ Saturated(trig[k]) = trig[k]
      BY <2>3 DEF Expired, CleanSlate, MarkSent, Saturated, Live
    <3> QED BY <1>0, <1>2, <2>3, <3>1 DEF LoopSweep, LoopNote, LoopMarkSent, Boot
  <2>4. ASSUME trig[k].status = "absent",
               DispAck \/ DispDrop \/ DispDead \/ DispUnsend \/ DispRevert
        PROVE  FALSE
    <3>1. k \notin inflight
      BY <2>4 DEF Custody, InflightIsExact, Live
    <3>2. k # dcur
      BY <2>4, <3>1 DEF Custody, InflightIsExact, DispHolds, Idle,
           DispAck, DispDrop, DispDead, DispUnsend, DispRevert
    <3> QED BY <1>0, <1>2, <2>4, <3>2
            DEF DispAck, DispDrop, DispDead, DispUnsend, DispRevert, DispFinish
  <2>5. CASE UNCHANGED trig
    BY <1>2, <2>5 DEF OnlyFirings
  <2>6. UNCHANGED trig \/ LoopSweep \/ LoopNote \/ LoopMarkSent \/ Boot
         \/ (\E s \in Schedules, m \in Minutes : LoopMaterialize(s, m))
         \/ DispAck \/ DispDrop \/ DispDead \/ DispUnsend \/ DispRevert
    BY DEF Next, vars, Owner, AddSchedule, DisableSchedule, EnableSchedule, Loop, LoopList,
         LoopScanned, LoopSkip, LoopEnqueue, LoopReclaim, LoopRequeue, LoopSleep,
         Dispatcher, DispGet, DispCheck, DispHandle, DispSend, DispRespawn,
         Fault, LoopStoreError, DispStoreError, DispCancelled, Crash, Clock
  <2> QED BY <2>1, <2>2, <2>3, <2>4, <2>5, <2>6
<1> QED BY <1>1, <1>2 DEF OnlyFirings

LEMMA LruLastsStep ==
  ASSUME Custody, OnlyFirings, [Next]_vars, IsFiniteSet(Firings),
         Cardinality(Firings) <= LruSize
  PROVE  LruLasts
<1>1. CASE DispGet
  <2>1. Head(queue) \in Firings /\ Head(queue) \in Triggers /\ lru' = LruTouch(Head(queue))
    BY <1>1, QueuedFires DEF DispGet, Firings
  <2>2. lru \in Seq(Triggers) /\ Distinct(lru) /\ SeqSet(lru) \cup {Head(queue)} \subseteq Firings
    BY <2>1 DEF Custody, TypeOK, OnlyFirings
  <2> QED BY <2>1, <2>2, LruTouchIs DEF LruLasts
<1>2. CASE Crash
  <2>1. crashes' = crashes + 1 /\ crashes \in Nat
    BY <1>2 DEF Crash, Custody, TypeOK
  <2> QED BY <2>1 DEF LruLasts
<1>3. CASE DispSend
  BY <1>3 DEF DispSend, LruLasts, dispVars
<1> QED BY <1>1, <1>2, <1>3, OtherSteps DEF LruLasts

(* With no more firings than the LRU has slots, as in the runs, nothing    *)
(* has to be assumed of the behaviour.                                     *)
THEOREM DeliveredOnceSmall ==
  ASSUME IsFiniteSet(Firings), Cardinality(Firings) <= LruSize
  PROVE  Spec => []DeliveredOncePerLife
<1>1. Init => OnlyFirings
  <2>1. Distinct(<<>>) /\ SeqSet(<<>>) = {}
    BY EmptySeq DEF Distinct, SeqSet
  <2> QED BY <2>1 DEF Init, OnlyFirings
<1>2. Custody /\ OnlyFirings /\ [Next]_vars => LruLasts
  BY LruLastsStep
<1>3. Spec => [][LruLasts]_vars
  BY CustodyInvariant, <1>1, OnlyFiringsStep, <1>2, PTL DEF Spec
<1> QED BY <1>3, DeliveredOnce, PTL

-----------------------------------------------------------------------------
(* The refinement of TriggerLifecycle. *)

StatusOf == [k \in Triggers |-> trig[k].status]

(* A step that writes one row and no delivery is a move of that row.       *)
LEMMA RowMoves ==
  ASSUME trig \in [Triggers -> TriggerRow], NEW k \in Triggers, NEW r \in TriggerRow,
         trig' = [trig EXCEPT ![k] = r]
  PROVE  StatusOf' = [StatusOf EXCEPT ![k] = r.status] /\ StatusOf[k] = trig[k].status
  BY DEF StatusOf

(* Rows that a sweep, a boot or the dispatcher reverts.                    *)
LEMMA RowsRevert ==
  ASSUME NEW ks \in SUBSET Triggers, trig' \in [Triggers -> TriggerRow], UNCHANGED delivered,
         \A k \in ks : trig[k].status \in Live /\ trig'[k].status = "pending",
         \A k \in Triggers \ ks : trig'[k].status = trig[k].status
  PROVE  Lifecycle!Next
<1>1. StatusOf' = [k \in Triggers |-> IF k \in ks THEN "pending" ELSE StatusOf[k]]
  BY DEF StatusOf
<1>2. \A k \in ks : StatusOf[k] \in Live
  BY DEF StatusOf
<1>3. Lifecycle!Revert(ks)
  BY <1>1, <1>2 DEF StatusOf, Lifecycle!Revert, Lifecycle!Live, Live
<1> QED BY <1>3 DEF Lifecycle!Next

LEMMA LifecycleStep ==
  ASSUME Custody, Custody', [Next]_vars
  PROVE  [Lifecycle!Next]_(Lifecycle!vars)
<1> USE DEF loopVars, dispVars, budgets, db
<1>0. /\ trig \in [Triggers -> TriggerRow] /\ trig' \in [Triggers -> TriggerRow]
      /\ delivered \in [Triggers -> Nat] /\ now \in Minutes
  BY DEF Custody, TypeOK
<1>1. ASSUME dpc \notin Idle PROVE dcur \in Triggers /\ trig[dcur].status \in Live
  <2>1. dcur # NoTrigger /\ dcur \in Triggers
    BY <1>1 DEF Custody, TypeOK, DispHolds
  <2> QED BY <2>1 DEF Custody, InflightIsExact
<1>2. CASE LoopSweep
  <2> DEFINE ks == {k \in Triggers : Expired(trig[k])}
  <2>1. /\ \A k \in ks : trig[k].status \in Live /\ trig'[k].status = "pending"
        /\ \A k \in Triggers \ ks : trig'[k].status = trig[k].status
        /\ UNCHANGED delivered
    BY <1>0, <1>2 DEF LoopSweep, Expired, Reverted, Live
  <2>2. ks \in SUBSET Triggers
    OBVIOUS
  <2> HIDE DEF ks
  <2> QED BY <1>0, <2>1, <2>2, RowsRevert
<1>3. CASE Boot
  <2> DEFINE ks == {k \in Triggers : trig[k].status = "sent"}
  <2>1. /\ \A k \in ks : trig[k].status \in Live /\ trig'[k].status = "pending"
        /\ \A k \in Triggers \ ks : trig'[k].status = trig[k].status
        /\ UNCHANGED delivered
    BY <1>0, <1>3 DEF Boot, CleanSlate, Live, TriggerRow
  <2>2. ks \in SUBSET Triggers
    OBVIOUS
  <2> HIDE DEF ks
  <2> QED BY <1>0, <2>1, <2>2, RowsRevert
<1>4. CASE DispUnsend \/ DispRevert
  <2>1. dcur \in Triggers /\ trig[dcur].status \in Live
    BY <1>1, <1>4 DEF DispUnsend, DispRevert, Idle
  <2>2. trig' = [trig EXCEPT ![dcur] = Reverted(trig[dcur], "failed")] /\ UNCHANGED delivered
    BY <1>4 DEF DispUnsend, DispRevert, DispFinish
  <2>3. /\ \A k \in {dcur} : trig[k].status \in Live /\ trig'[k].status = "pending"
        /\ \A k \in Triggers \ {dcur} : trig'[k].status = trig[k].status
    BY <1>0, <2>1, <2>2 DEF Reverted
  <2> DEFINE ks == {dcur}
  <2>4. ks \in SUBSET Triggers
    BY <2>1
  <2>5. /\ \A k \in ks : trig[k].status \in Live /\ trig'[k].status = "pending"
        /\ \A k \in Triggers \ ks : trig'[k].status = trig[k].status
    BY <2>3
  <2> HIDE DEF ks
  <2> QED BY <1>0, <2>2, <2>4, <2>5, RowsRevert
<1>5. ASSUME NEW s \in Schedules, NEW m \in Minutes, LoopMaterialize(s, m)
      PROVE  Lifecycle!Next
  <2> DEFINE k == <<s, m>>
  <2>1. k \in Triggers /\ trig[k].status = "absent" /\ UNCHANGED delivered
        /\ trig' = [trig EXCEPT ![k] = Fresh]
    BY <1>5 DEF LoopMaterialize, Triggers
  <2>2. Lifecycle!Create(k)
    <3>1. Fresh \in TriggerRow /\ Fresh.status = "pending"
      BY SchedulerAssumption DEF Fresh, TriggerRow, Live, ErrorNotes, Minutes
    <3> HIDE DEF k
    <3>2. StatusOf' = [StatusOf EXCEPT ![k] = "pending"] /\ StatusOf[k] = "absent"
      BY <1>0, <2>1, <3>1, RowMoves
    <3> QED BY <2>1, <3>2 DEF StatusOf, Lifecycle!Create, Lifecycle!Move
  <2> HIDE DEF k
  <2> QED BY <2>1, <2>2 DEF Lifecycle!Next
<1>6. CASE LoopNote \/ LoopMarkSent
  <2>0. PICK k \in Triggers : k = tick.trig
    BY <1>6 DEF LoopNote, LoopMarkSent, Custody, LoopHolds
  <2>1. UNCHANGED delivered
        /\ (trig' = [trig EXCEPT ![k] = Saturated(@)] \/ trig' = [trig EXCEPT ![k] = MarkSent(@)])
    BY <1>6, <2>0 DEF LoopNote, LoopMarkSent
  <2>2. CASE trig' = [trig EXCEPT ![k] = MarkSent(@)] /\ trig[k].status = "pending"
    <3>1. Lifecycle!Send(k)
      BY <1>0, <2>1, <2>2 DEF MarkSent, TriggerRow, Lifecycle!Send, Lifecycle!Move
    <3> QED BY <3>1 DEF Lifecycle!Next
  <2>3. CASE trig' = [trig EXCEPT ![k] = Saturated(@)] \/ trig[k].status # "pending"
    <3>1. \A j \in Triggers : trig'[j].status = trig[j].status
      BY <1>0, <2>1, <2>3 DEF MarkSent, Saturated, TriggerRow
    <3> QED BY <2>1, <3>1 DEF Lifecycle!vars
  <2> QED BY <2>1, <2>2, <2>3
<1>7. ASSUME NEW st \in Terminal, NEW r \in TriggerRow, r.status = st, dpc \notin Idle,
             DispFinish(r), st = "acked" => delivered[dcur] > 0
      PROVE  Lifecycle!Next
  <2>0. PICK k \in Triggers : k = dcur
    BY <1>1, <1>7
  <2>1. /\ trig[k].status \in Live /\ UNCHANGED delivered
        /\ trig' = [trig EXCEPT ![k] = r]
    BY <1>1, <1>7, <2>0 DEF DispFinish
  <2>2. Lifecycle!Move(k, Live, st)
    <3>1. StatusOf' = [StatusOf EXCEPT ![k] = st] /\ StatusOf[k] \in Live
      BY <1>0, <1>7, <2>1, RowMoves
    <3> QED BY <2>1, <3>1 DEF StatusOf, Lifecycle!Move
  <2>3. st \in {"acked", "dropped", "dead"}
    BY DEF Terminal
  <2>4. Lifecycle!Live = Live
    BY DEF Lifecycle!Live, Live
  <2>5. Lifecycle!Ack(k) \/ Lifecycle!Drop(k) \/ Lifecycle!Bury(k)
    BY <1>7, <2>0, <2>2, <2>3, <2>4 DEF Lifecycle!Ack, Lifecycle!Drop, Lifecycle!Bury
  <2> QED BY <2>5 DEF Lifecycle!Next
<1>8. CASE DispAck \/ DispDrop \/ DispDead
  <2>1. dpc \notin Idle /\ (dpc = "ack" => delivered[dcur] > 0)
    BY <1>8 DEF DispAck, DispDrop, DispDead, Idle, Custody, DispHolds
  <2>2. dcur \in Triggers /\ trig[dcur] \in TriggerRow
    BY <1>0, <1>1, <2>1
  <2>3. CASE DispAck
    <3>1. [trig[dcur] EXCEPT !.status = "acked"] \in TriggerRow
          /\ [trig[dcur] EXCEPT !.status = "acked"].status = "acked"
      BY <2>2 DEF TriggerRow, Terminal
    <3> QED BY <1>7, <2>1, <2>3, <3>1 DEF DispAck, Terminal
  <2>4. CASE DispDrop
    <3>1. [trig[dcur] EXCEPT !.status = "dropped"] \in TriggerRow
          /\ [trig[dcur] EXCEPT !.status = "dropped"].status = "dropped"
      BY <2>2 DEF TriggerRow, Terminal
    <3> QED BY <1>7, <2>1, <2>4, <3>1 DEF DispDrop, Terminal
  <2>5. CASE DispDead
    <3>1. [trig[dcur] EXCEPT !.status = "dead", !.note = "failed"] \in TriggerRow
          /\ [trig[dcur] EXCEPT !.status = "dead", !.note = "failed"].status = "dead"
      BY <2>2 DEF TriggerRow, Terminal, ErrorNotes
    <3> QED BY <1>7, <2>1, <2>5, <3>1 DEF DispDead, Terminal
  <2> QED BY <1>8, <2>3, <2>4, <2>5
<1>9. CASE DispSend
  <2>1. dcur \in Triggers /\ trig[dcur].status \in Live /\ UNCHANGED trig
        /\ (UNCHANGED delivered \/ delivered' = [delivered EXCEPT ![dcur] = @ + 1])
    BY <1>1, <1>9 DEF DispSend, Idle
  <2>2. CASE UNCHANGED delivered
    BY <2>1, <2>2 DEF Lifecycle!vars
  <2>3. CASE delivered' = [delivered EXCEPT ![dcur] = @ + 1]
    <3>1. Lifecycle!Deliver(dcur)
      BY <2>1, <2>3 DEF Lifecycle!Deliver, Lifecycle!Live, Live
    <3> QED BY <2>1, <3>1 DEF Lifecycle!Next
  <2> QED BY <2>1, <2>2, <2>3
<1>10. CASE UNCHANGED <<trig, delivered>>
  BY <1>10 DEF Lifecycle!vars
<1>11. UNCHANGED <<trig, delivered>> \/ LoopSweep \/ Boot \/ DispUnsend \/ DispRevert
       \/ LoopNote \/ LoopMarkSent \/ DispAck \/ DispDrop \/ DispDead \/ DispSend
       \/ (\E s \in Schedules, m \in Minutes : LoopMaterialize(s, m))
  BY DEF Next, vars, Owner, AddSchedule, DisableSchedule, EnableSchedule, Loop, LoopList,
         LoopScanned, LoopSkip, LoopEnqueue, LoopReclaim, LoopRequeue, LoopSleep,
         Dispatcher, DispGet, DispCheck, DispHandle, DispRespawn,
         Fault, LoopStoreError, DispStoreError, DispCancelled, Crash, Clock
<1> QED BY <1>2, <1>3, <1>4, <1>5, <1>6, <1>8, <1>9, <1>10, <1>11

(* Scheduler implements TriggerLifecycle for every value of the constants: *)
(* loop, dispatcher, sweeps and boots move a row only as its life allows.  *)
THEOREM SchedulerImplementsLifecycle == Spec => LifecycleSpec
<1>1. Init => Lifecycle!Init
  BY DEF Init, Lifecycle!Init
<1>2. Custody /\ Custody' /\ [Next]_vars => [Lifecycle!Next]_(Lifecycle!vars)
  BY LifecycleStep
<1> QED BY CustodyInvariant, <1>1, <1>2, PTL DEF Spec, LifecycleSpec, Lifecycle!Spec
=============================================================================
