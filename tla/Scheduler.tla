----------------------------- MODULE Scheduler -----------------------------
(***************************************************************************)
(* The cron scheduler of the assistant daemon: the sqlite rows behind      *)
(* SchedulerStore, the producer SchedulerLoop (one tick of it is a series  *)
(* of awaits), the bounded asyncio queue, the consumer SchedulerDispatcher *)
(* under its supervisor, the owner's schedule tools, the wall clock, and   *)
(* crashes and restarts of the process.                                    *)
(*                                                                         *)
(* Where a definition of the code is preceded by a variant of itself, the  *)
(* variant is the same code with a plausible bug; no specification uses    *)
(* it, and the properties below must notice it when it takes the place.    *)
(*                                                                         *)
(* An action is the code between two awaits.  A store operation commits    *)
(* before its await returns, so it is one action; the queue, the inflight  *)
(* set and the LRU are ordinary Python objects, changed between awaits.    *)
(* A trigger is named by its UNIQUE(schedule_id, scheduled_for) key.       *)
(*                                                                         *)
(* Time is counted in minutes.  The cron expression of a schedule is the   *)
(* set of UTC minutes it matches; the expressions and the clock changes    *)
(* that make such sets are not modelled here.                              *)
(***************************************************************************)
EXTENDS Integers, Sequences, FiniteSets

CONSTANTS
  Schedules,      \* the ids AUTOINCREMENT will hand out, in that order
  Horizon,        \* bound: the clock stops at this minute
  Fires,          \* the minutes each schedule's cron expression matches
  MaxSchedules,   \* SCHEDULER_MAX_SCHEDULES
  QueueSize,      \* SCHEDULER_DISPATCHER_QUEUE_SIZE
  LruSize,        \* slots of the dispatcher's LRU (256 in the code)
  CatchupWindow,  \* SCHEDULER_CATCHUP_WINDOW_S, in minutes
  SentTimeout,    \* SCHEDULER_SENT_REVERT_TIMEOUT_S, in minutes
  ReclaimAge,     \* SCHEDULER_RECLAIM_OLDER_THAN_S, in minutes
  DeadThreshold,  \* SCHEDULER_DEAD_ATTEMPTS_THRESHOLD
  RespawnLimit,   \* max_respawn_per_hour of the supervisor
  MaxCrashes,     \* bound: crashes or stops of the process
  MaxErrors,      \* bound: store operations that raise, runs a deadline cuts
  NoTrigger       \* no trigger in hand

Minutes == 0..Horizon
Triggers == Schedules \X Minutes

ASSUME SchedulerAssumption ==
  /\ Schedules \subseteq Nat
  /\ Horizon \in Nat
  /\ Fires \in [Schedules -> SUBSET Minutes]
  /\ MaxSchedules \in Nat
  /\ QueueSize \in Nat \ {0}
  /\ LruSize \in Nat \ {0}
  /\ CatchupWindow \in Nat
  /\ SentTimeout \in Nat
  /\ ReclaimAge \in Nat
  /\ DeadThreshold \in Nat
  /\ RespawnLimit \in Nat
  /\ MaxCrashes \in Nat
  /\ MaxErrors \in Nat
  /\ NoTrigger \notin Triggers

VARIABLES
  now,        \* the wall clock
  sched,      \* rows of the table schedules
  trig,       \* rows of the table triggers
  queue,      \* asyncio.Queue shared by the loop and the dispatcher
  inflight,   \* the set the loop and the dispatcher share
  lru,        \* trigger ids the dispatcher has seen, oldest first
  lpc,        \* the await SchedulerLoop stands at
  tick,       \* the loop's locals: now, schedules left, trigger, orphans left
  dpc,        \* the await SchedulerDispatcher stands at
  dcur,       \* the trigger being processed
  dcrashes,   \* crashes the supervisor has counted
  delivered,  \* per trigger, the replies that reached the owner
  crashes,    \* process deaths so far
  errors      \* store operations that raised, and runs that were cut, so far

db == <<sched, trig>>
loopVars == <<lpc, tick>>
dispVars == <<lru, dpc, dcur, dcrashes>>
budgets == <<crashes, errors>>
vars == <<now, sched, trig, queue, inflight, lru, lpc, tick, dpc, dcur,
          dcrashes, delivered, crashes, errors>>

NeverFired == -1

ScheduleRow ==
  [known : BOOLEAN, enabled : BOOLEAN, last : Minutes \cup {NeverFired}]

Terminal == {"acked", "dropped", "dead"}
Live == {"pending", "sent"}
ErrorNotes == {"none", "saturated", "expired", "failed"}
TriggerRow ==
  [status : {"absent"} \cup Live \cup Terminal,
   attempts : Nat, note : ErrorNotes, sentAt : Minutes]

LoopPcs == {"off", "sleep", "list", "scan", "enqueue", "note", "mark",
            "reclaim", "requeue", "remark"}
DispPcs == {"off", "idle", "check", "drop", "handle", "send", "revert",
            "unsend", "dead", "ack", "down", "gone"}

Tick == [now : Minutes, todo : SUBSET Schedules,
         trig : Triggers \cup {NoTrigger}, orphans : SUBSET Triggers]

Enabled(s) == sched[s].known /\ sched[s].enabled
Queued == {queue[i] : i \in 1..Len(queue)}

NoTick == [now |-> 0, todo |-> {}, trig |-> NoTrigger, orphans |-> {}]

Init ==
  /\ now = 0
  /\ sched = [s \in Schedules |->
                [known |-> FALSE, enabled |-> FALSE, last |-> NeverFired]]
  /\ trig = [k \in Triggers |->
               [status |-> "absent", attempts |-> 0, note |-> "none", sentAt |-> 0]]
  /\ queue = <<>>
  /\ inflight = {}
  /\ lru = <<>>
  /\ lpc = "sleep"
  /\ tick = NoTick
  /\ dpc = "idle"
  /\ dcur = NoTrigger
  /\ dcrashes = 0
  /\ delivered = [k \in Triggers |-> 0]
  /\ crashes = 0
  /\ errors = 0

-----------------------------------------------------------------------------
(* Rows of triggers, as the UPDATE statements of the store change them.    *)

Fresh == [status |-> "pending", attempts |-> 0, note |-> "none", sentAt |-> 0]

MarkSent(r) ==
  IF r.status = "pending" THEN [r EXCEPT !.status = "sent", !.sentAt = now] ELSE r

Reverted(r, note) ==
  [status |-> "pending", attempts |-> r.attempts + 1, note |-> note, sentAt |-> r.sentAt]

Expired(r) == r.status = "sent" /\ now - r.sentAt > SentTimeout

Saturated(r) == IF r.status \in Live THEN [r EXCEPT !.note = "saturated"] ELSE r

(* Variant: an LRU that recognises nothing.                                *)
LruForgetful(t) == FALSE

LruHas(t) == \E i \in 1..Len(lru) : lru[i] = t

(* The LRU after t has been looked up: t moves to the young end, and the   *)
(* oldest entry leaves when there are too many.                            *)
LruTouch(t) ==
  LET at == CHOOSE i \in 1..Len(lru) : lru[i] = t
      kept == IF LruHas(t)
              THEN SubSeq(lru, 1, at - 1) \o SubSeq(lru, at + 1, Len(lru))
              ELSE lru
      moved == Append(kept, t)
  IN  IF Len(moved) > LruSize THEN Tail(moved) ELSE moved

(* Variant: the walk of is_due stops one minute too early.                 *)
MinutesBefore(s, n) ==
  {m \in Fires[s] : /\ n - m <= CatchupWindow
                    /\ IF sched[s].last = NeverFired
                       THEN m = n
                       ELSE m > sched[s].last /\ m < n}

(* The minutes is_due looks at: with no previous firing only the current   *)
(* one, otherwise those after it that are inside the catch-up window.      *)
DueMinutes(s, n) ==
  {m \in Fires[s] : /\ m <= n
                    /\ n - m <= CatchupWindow
                    /\ IF sched[s].last = NeverFired
                       THEN m = n
                       ELSE m > sched[s].last}

(* Variant: is_due jumps to the newest minute.                             *)
IsDueLatest(s, n, m) ==
  m \in DueMinutes(s, n) /\ \A other \in DueMinutes(s, n) : m >= other

(* is_due returns the oldest of them.                                      *)
IsDue(s, n, m) ==
  m \in DueMinutes(s, n) /\ \A other \in DueMinutes(s, n) : m <= other

-----------------------------------------------------------------------------
(* The owner's tools: schedule_add, schedule_rm/disable, schedule_enable.  *)

AddSchedule(s) ==
  /\ lpc # "off"
  /\ ~sched[s].known
  /\ \A earlier \in Schedules : earlier < s => sched[earlier].known
  /\ Cardinality({e \in Schedules : Enabled(e)}) < MaxSchedules
  /\ sched' = [sched EXCEPT ![s].known = TRUE, ![s].enabled = TRUE]
  /\ UNCHANGED <<now, trig, queue, inflight, delivered, loopVars, dispVars, budgets>>

DisableSchedule(s) ==
  /\ lpc # "off"
  /\ Enabled(s)
  /\ sched' = [sched EXCEPT ![s].enabled = FALSE]
  /\ UNCHANGED <<now, trig, queue, inflight, delivered, loopVars, dispVars, budgets>>

EnableSchedule(s) ==
  /\ lpc # "off"
  /\ sched[s].known /\ ~sched[s].enabled
  /\ sched' = [sched EXCEPT ![s].enabled = TRUE]
  /\ UNCHANGED <<now, trig, queue, inflight, delivered, loopVars, dispVars, budgets>>

-----------------------------------------------------------------------------
(* SchedulerLoop._tick_once, one action per await.                         *)

LoopSweep ==
  /\ lpc = "sleep"
  /\ trig' = [k \in Triggers |->
                IF Expired(trig[k]) THEN Reverted(trig[k], "expired") ELSE trig[k]]
  /\ tick' = [NoTick EXCEPT !.now = now]
  /\ lpc' = "list"
  /\ UNCHANGED <<now, sched, queue, inflight, delivered, dispVars, budgets>>

LoopList ==
  /\ lpc = "list"
  /\ tick' = [tick EXCEPT !.todo = {s \in Schedules : Enabled(s)}]
  /\ lpc' = "scan"
  /\ UNCHANGED <<now, db, queue, inflight, delivered, dispVars, budgets>>

NextListed(s) == s \in tick.todo /\ \A other \in tick.todo : s <= other

(* A listed schedule with nothing due, or whose minute the UNIQUE          *)
(* constraint refuses.                                                     *)
LoopSkip(s) ==
  /\ lpc = "scan"
  /\ NextListed(s)
  /\ \A m \in Minutes : IsDue(s, tick.now, m) => trig[<<s, m>>].status # "absent"
  /\ tick' = [tick EXCEPT !.todo = @ \ {s}]
  /\ UNCHANGED <<now, db, queue, inflight, lpc, delivered, dispVars, budgets>>

(* try_materialize_trigger: INSERT and last_fire_at in one commit.         *)
LoopMaterialize(s, m) ==
  /\ lpc = "scan"
  /\ NextListed(s)
  /\ IsDue(s, tick.now, m)
  /\ trig[<<s, m>>].status = "absent"
  /\ trig' = [trig EXCEPT ![<<s, m>>] = Fresh]
  /\ sched' = [sched EXCEPT ![s].last = m]
  /\ tick' = [tick EXCEPT !.todo = @ \ {s}, !.trig = <<s, m>>]
  /\ lpc' = "enqueue"
  /\ UNCHANGED <<now, queue, inflight, delivered, dispVars, budgets>>

(* inflight.add, then put_nowait; QueueFull takes the id out again.        *)
LoopEnqueue ==
  /\ lpc = "enqueue"
  /\ \/ /\ Len(queue) < QueueSize
        /\ queue' = Append(queue, tick.trig)
        /\ inflight' = inflight \cup {tick.trig}
        /\ lpc' = "mark"
     \/ /\ Len(queue) >= QueueSize
        /\ inflight' = inflight \ {tick.trig}
        /\ lpc' = "note"
        /\ UNCHANGED queue
  /\ UNCHANGED <<now, db, tick, delivered, dispVars, budgets>>

LoopNote ==
  /\ lpc = "note"
  /\ trig' = [trig EXCEPT ![tick.trig] = Saturated(@)]
  /\ tick' = [tick EXCEPT !.trig = NoTrigger]
  /\ lpc' = "scan"
  /\ UNCHANGED <<now, sched, queue, inflight, delivered, dispVars, budgets>>

(* mark_sent, after a put of the scan or of the reclaim.                   *)
LoopMarkSent ==
  /\ lpc \in {"mark", "remark"}
  /\ trig' = [trig EXCEPT ![tick.trig] = MarkSent(@)]
  /\ tick' = [tick EXCEPT !.trig = NoTrigger]
  /\ lpc' = IF lpc = "mark" THEN "scan" ELSE "requeue"
  /\ UNCHANGED <<now, sched, queue, inflight, delivered, dispVars, budgets>>

LoopScanned ==
  /\ lpc = "scan"
  /\ tick.todo = {}
  /\ lpc' = "reclaim"
  /\ UNCHANGED <<now, db, queue, inflight, tick, delivered, dispVars, budgets>>

(* Variant: the reclaim does not look at inflight.                         *)
ReclaimWithoutInflight ==
  /\ lpc = "reclaim"
  /\ tick' = [tick EXCEPT !.orphans =
                {k \in Triggers : /\ trig[k].status = "pending"
                                  /\ trig[k].note = "saturated"
                                  /\ now - k[2] > ReclaimAge}]
  /\ lpc' = "requeue"
  /\ UNCHANGED <<now, db, queue, inflight, delivered, dispVars, budgets>>

(* Variant: the reclaim selects the wrong status.                          *)
ReclaimOnlySent ==
  /\ lpc = "reclaim"
  /\ tick' = [tick EXCEPT !.orphans =
                {k \in Triggers : /\ trig[k].status = "sent"
                                  /\ trig[k].note = "saturated"
                                  /\ now - k[2] > ReclaimAge
                                  /\ k \notin inflight}]
  /\ lpc' = "requeue"
  /\ UNCHANGED <<now, db, queue, inflight, delivered, dispVars, budgets>>

(* reclaim_pending_not_queued: the SELECT and the filter on inflight.  The *)
(* filter runs as soon as fetchall returns, before any later commit does.  *)
LoopReclaim ==
  /\ lpc = "reclaim"
  /\ tick' = [tick EXCEPT !.orphans =
                {k \in Triggers : /\ trig[k].status = "pending"
                                  /\ trig[k].note = "saturated"
                                  /\ now - k[2] > ReclaimAge
                                  /\ k \notin inflight}]
  /\ lpc' = "requeue"
  /\ UNCHANGED <<now, db, queue, inflight, delivered, dispVars, budgets>>

LoopRequeue(k) ==
  /\ lpc = "requeue"
  /\ k \in tick.orphans
  /\ \/ /\ Len(queue) < QueueSize
        /\ queue' = Append(queue, k)
        /\ inflight' = inflight \cup {k}
        /\ tick' = [tick EXCEPT !.orphans = @ \ {k}, !.trig = k]
        /\ lpc' = "remark"
     \/ /\ Len(queue) >= QueueSize
        /\ inflight' = inflight \ {k}
        /\ tick' = [tick EXCEPT !.orphans = @ \ {k}]
        /\ UNCHANGED <<queue, lpc>>
  /\ UNCHANGED <<now, db, delivered, dispVars, budgets>>

LoopSleep ==
  /\ lpc = "requeue"
  /\ tick.orphans = {}
  /\ tick' = NoTick
  /\ lpc' = "sleep"
  /\ UNCHANGED <<now, db, queue, inflight, delivered, dispVars, budgets>>

(* A store call of the tick raises: run() logs it and sleeps.              *)
LoopStoreError ==
  /\ lpc \in {"list", "scan", "note", "mark", "reclaim", "remark"}
  /\ errors < MaxErrors
  /\ errors' = errors + 1
  /\ tick' = NoTick
  /\ lpc' = "sleep"
  /\ UNCHANGED <<now, db, queue, inflight, delivered, dispVars, crashes>>

-----------------------------------------------------------------------------
(* SchedulerDispatcher.run and _process.                                   *)

(* Queue.get, then _lru_seen.                                              *)
DispGet ==
  /\ dpc = "idle"
  /\ queue # <<>>
  /\ dcur' = Head(queue)
  /\ queue' = Tail(queue)
  /\ dpc' = IF LruHas(Head(queue)) THEN "drop" ELSE "check"
  /\ lru' = LruTouch(Head(queue))
  /\ UNCHANGED <<now, db, inflight, delivered, loopVars, dcrashes, budgets>>

DispCheck ==
  /\ dpc = "check"
  /\ dpc' = IF Enabled(dcur[1]) THEN "handle" ELSE "drop"
  /\ UNCHANGED <<now, db, queue, inflight, delivered, loopVars, lru, dcur, dcrashes, budgets>>

(* handler.handle: a reply, or an exception or no text.                    *)
DispHandle ==
  /\ dpc = "handle"
  /\ dpc' \in {"send", "revert"}
  /\ UNCHANGED <<now, db, queue, inflight, delivered, loopVars, lru, dcur, dcrashes, budgets>>

(* Variant: an error of the send is taken for a delivery.                  *)
SendErrorsIgnored ==
  /\ dpc = "send"
  /\ dpc' = "ack"
  /\ \/ delivered' = [delivered EXCEPT ![dcur] = @ + 1]
     \/ UNCHANGED delivered
  /\ UNCHANGED <<now, db, queue, inflight, loopVars, lru, dcur, dcrashes, budgets>>

(* adapter.send_text: delivered; lost; or delivered and yet reported as    *)
(* an error (a timeout of the answer, or a later chunk that fails).        *)
DispSend ==
  /\ dpc = "send"
  /\ \/ /\ dpc' = "ack"
        /\ delivered' = [delivered EXCEPT ![dcur] = @ + 1]
     \/ /\ dpc' = "unsend"
        /\ UNCHANGED delivered
     \/ /\ dpc' = "unsend"
        /\ delivered' = [delivered EXCEPT ![dcur] = @ + 1]
  /\ UNCHANGED <<now, db, queue, inflight, loopVars, lru, dcur, dcrashes, budgets>>

(* The end of _process: the finally of run() forgets the trigger.          *)
Release ==
  /\ inflight' = inflight \ {dcur}
  /\ dcur' = NoTrigger
  /\ dpc' = "idle"

DispFinish(r) ==
  /\ trig' = [trig EXCEPT ![dcur] = r]
  /\ Release
  /\ UNCHANGED <<now, sched, queue, delivered, loopVars, lru, dcrashes, budgets>>

(* mark_acked, mark_dropped and mark_dead look at no status.               *)
DispAck == dpc = "ack" /\ DispFinish([trig[dcur] EXCEPT !.status = "acked"])

DispDrop == dpc = "drop" /\ DispFinish([trig[dcur] EXCEPT !.status = "dropped"])
DispDead ==
  dpc = "dead" /\ DispFinish([trig[dcur] EXCEPT !.status = "dead", !.note = "failed"])

(* revert_to_pending after a failed send: nothing compares the attempts.   *)
DispUnsend == dpc = "unsend" /\ DispFinish(Reverted(trig[dcur], "failed"))

(* revert_to_pending after a failed or empty handler run.                  *)
DispRevert ==
  /\ dpc = "revert"
  /\ trig' = [trig EXCEPT ![dcur] = Reverted(@, "failed")]
  /\ IF trig[dcur].attempts + 1 >= DeadThreshold
     THEN dpc' = "dead" /\ UNCHANGED <<inflight, dcur>>
     ELSE Release
  /\ UNCHANGED <<now, sched, queue, delivered, loopVars, lru, dcrashes, budgets>>

(* A store call of _process raises: the finally runs, run() dies, and the  *)
(* supervisor counts the crash.                                            *)
DispStoreError ==
  /\ dpc \in {"check", "drop", "revert", "unsend", "dead", "ack"}
  /\ errors < MaxErrors
  /\ errors' = errors + 1
  /\ inflight' = inflight \ {dcur}
  /\ dcur' = NoTrigger
  /\ dcrashes' = dcrashes + 1
  /\ dpc' = IF dcrashes + 1 > RespawnLimit THEN "gone" ELSE "down"
  /\ UNCHANGED <<now, db, queue, delivered, loopVars, lru, crashes>>

(* The deadline of a bridge's stream passes while the handler stores a     *)
(* block or sends a document: asyncio.timeout cancels the task it was      *)
(* entered in, which is run() itself.  The finally runs; the supervisor    *)
(* takes the end of run() for its own cancellation and never respawns it.  *)
DispCancelled ==
  /\ dpc = "handle"
  /\ errors < MaxErrors
  /\ errors' = errors + 1
  /\ inflight' = inflight \ {dcur}
  /\ dcur' = NoTrigger
  /\ dpc' = "gone"
  /\ UNCHANGED <<now, db, queue, delivered, loopVars, lru, dcrashes, crashes>>

DispRespawn ==
  /\ dpc = "down"
  /\ dpc' = "idle"
  /\ UNCHANGED <<now, db, queue, inflight, delivered, loopVars, lru, dcur, dcrashes, budgets>>

-----------------------------------------------------------------------------
(* The process dies, or stops: only the rows stay.  Boot runs              *)
(* clean_slate_sent before the loop and the dispatcher start.              *)

Crash ==
  /\ lpc # "off"
  /\ crashes < MaxCrashes
  /\ crashes' = crashes + 1
  /\ lpc' = "off" /\ dpc' = "off"
  /\ queue' = <<>> /\ inflight' = {} /\ lru' = <<>>
  /\ tick' = NoTick /\ dcur' = NoTrigger /\ dcrashes' = 0
  /\ UNCHANGED <<now, db, delivered, errors>>

CleanSlate(r) ==
  IF r.status = "sent" THEN [r EXCEPT !.status = "pending", !.attempts = @ + 1] ELSE r

Boot ==
  /\ lpc = "off"
  /\ trig' = [k \in Triggers |-> CleanSlate(trig[k])]
  /\ lpc' = "sleep" /\ dpc' = "idle"
  /\ UNCHANGED <<now, sched, queue, inflight, lru, tick, dcur, dcrashes, delivered, budgets>>

Clock ==
  /\ now < Horizon
  /\ now' = now + 1
  /\ UNCHANGED <<db, queue, inflight, delivered, loopVars, dispVars, budgets>>

-----------------------------------------------------------------------------
Owner == \E s \in Schedules : AddSchedule(s) \/ DisableSchedule(s) \/ EnableSchedule(s)

Loop ==
  \/ LoopSweep \/ LoopList \/ LoopScanned
  \/ \E s \in Schedules : LoopSkip(s) \/ \E m \in Minutes : LoopMaterialize(s, m)
  \/ LoopEnqueue \/ LoopNote \/ LoopMarkSent
  \/ LoopReclaim \/ LoopSleep
  \/ \E k \in Triggers : LoopRequeue(k)

Dispatcher ==
  \/ DispGet \/ DispCheck \/ DispHandle \/ DispSend
  \/ DispAck \/ DispDrop \/ DispDead \/ DispUnsend \/ DispRevert
  \/ DispRespawn

Fault == LoopStoreError \/ DispStoreError \/ DispCancelled \/ Crash

Next == Owner \/ Loop \/ Dispatcher \/ Fault \/ Boot \/ Clock

Spec == Init /\ [][Next]_vars

(* Both coroutines run on one event loop, every await in them is bounded   *)
(* by a timeout, and systemd restarts a dead process.  Nothing obliges the *)
(* owner to act or a fault to happen.                                      *)
FairSpec ==
  Spec /\ WF_vars(Loop) /\ WF_vars(Dispatcher) /\ WF_vars(Boot) /\ WF_vars(Clock)

-----------------------------------------------------------------------------
(* Properties.                                                             *)

(* Every variable has its type, and the two coroutines are off together.   *)
TypeOK ==
  /\ now \in Minutes
  /\ sched \in [Schedules -> ScheduleRow]
  /\ trig \in [Triggers -> TriggerRow]
  /\ queue \in Seq(Triggers) /\ Len(queue) <= QueueSize
  /\ inflight \in SUBSET Triggers
  /\ lru \in Seq(Triggers)
  /\ lpc \in LoopPcs
  /\ tick \in Tick
  /\ dpc \in DispPcs
  /\ dcur \in Triggers \cup {NoTrigger}
  /\ dcrashes \in Nat
  /\ delivered \in [Triggers -> Nat]
  /\ crashes \in Nat /\ errors \in Nat

(* The set the loop filters its reclaim with says exactly which triggers   *)
(* are queued or being processed; nothing is queued twice or queued while  *)
(* it is processed, and none of it has already ended.                      *)
InflightIsExact ==
  /\ inflight = Queued \cup ({dcur} \ {NoTrigger})
  /\ \A i, j \in 1..Len(queue) : queue[i] = queue[j] => i = j
  /\ dcur \notin Queued
  /\ \A k \in inflight : trig[k].status \in Live

(* A row that has ended is never written again: neither mark_sent, the     *)
(* sweep, a saturation note, a second processing nor a boot touches it,    *)
(* although four of the updates of the store look at no status.            *)
TerminalIsFinal ==
  [][\A k \in Triggers : trig[k].status \in Terminal => trig'[k] = trig[k]]_trig

(* At least once never becomes more than once without a restart: between   *)
(* two deaths of the process the owner gets at most one reply per trigger. *)
DeliveredOncePerLife == \A k \in Triggers : delivered[k] <= crashes + 1

(* When last_fire_at moves from one minute to a later one, a matching      *)
(* minute in between is passed over only if it has left the catch-up       *)
(* window, whatever disabling, crashing or stalling came in between.       *)
NoMinuteSkipped ==
  [][\A s \in Schedules :
       LET old == sched[s].last  new == sched'[s].last IN
       old # new /\ old # NeverFired =>
         \A m \in Fires[s] : old < m /\ m < new => now - m > CatchupWindow]_sched

(* The reclaim sweep of a later tick picks a saturated row up once the     *)
(* dispatcher has drained, unless the clock stops first.                   *)
SaturatedIsRequeued ==
  \A k \in Triggers :
    trig[k].status = "pending" /\ trig[k].note = "saturated" /\ Horizon - k[2] > ReclaimAge
      ~> k \in inflight \/ trig[k].note # "saturated" \/ trig[k].status \in Terminal

(* A schedule that stays enabled, and has fired before, is left with no    *)
(* matching minute of the catch-up window unmaterialised.                  *)
CatchesUp ==
  \A s \in Schedules :
    <>[](Enabled(s) /\ sched[s].last # NeverFired) =>
      <>[](\A m \in Fires[s] :
             sched[s].last < m /\ m <= now => now - m > CatchupWindow)

(* The promise of TriggerLifecycle.                                        *)
Lifecycle == INSTANCE TriggerLifecycle
               WITH status <- [k \in Triggers |-> trig[k].status]
LifecycleSpec == Lifecycle!Spec

-----------------------------------------------------------------------------
(* What comments of the code say, and the code does not do.                *)

(* dispatcher.py: a run that fails or emits nothing is reverted so that    *)
(* the retry and dead-letter machinery runs.                               *)
FailedRunIsRetried ==
  \A k \in Triggers :
    trig[k].status = "pending" /\ trig[k].note = "failed"
      ~> k \in inflight \/ trig[k].status \in Terminal
=============================================================================
