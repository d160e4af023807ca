------------------------------ MODULE Subagent ------------------------------
(***************************************************************************)
(* The subagent ledger: the rows of subagent_jobs behind SubagentStore,    *)
(* the owner's spawn and cancel tools, the SubagentRequestPicker that      *)
(* dispatches requested rows one at a time through its own bridge, and the *)
(* SubagentStart and SubagentStop hooks the Claude SDK calls from a        *)
(* picker dispatch or from an ordinary turn (a native Task).               *)
(*                                                                         *)
(* An action is the code between two awaits on the store; an operation of  *)
(* SubagentStore holds its lock throughout, so it is one action.  The two  *)
(* hooks of one agent are tasks of their own: nothing makes SubagentStop   *)
(* wait for SubagentStart, and a hook that has begun may outlive the       *)
(* session that called it.                                                 *)
(*                                                                         *)
(* A row is named by its AUTOINCREMENT id.  created_at never runs against  *)
(* the ids, so the oldest row is the one with the least id, and the rows   *)
(* older than orphan_stale_s are the first few.  Variants of definitions,  *)
(* each with a plausible bug, are marked as such and used by nothing.      *)
(***************************************************************************)
EXTENDS Naturals, FiniteSets

CONSTANTS
  Agents,        \* the ids the SDK gives to subagents
  MaxRequests,   \* bound: subagent_spawn stops at this row id
  MaxAttempts,   \* max_attempts of mark_dispatch_failed
  MaxCrashes,    \* bound: deaths of the process
  MaxErrors,     \* bound: store operations that raise
  MaxRepeats,    \* bound: SubagentStart hooks that fire again
  NoAgent        \* sdk_agent_id IS NULL

ASSUME SubagentAssumption ==
  /\ IsFiniteSet(Agents)
  /\ MaxRequests \in Nat
  /\ MaxAttempts \in Nat \ {0}
  /\ MaxCrashes \in Nat
  /\ MaxErrors \in Nat
  /\ MaxRepeats \in Nat
  /\ NoAgent \notin Agents

(* Room for every request and for a row of each agent's own.               *)
JobIds == 1..(MaxRequests + Cardinality(Agents))
NoJob == 0

VARIABLES
  jobs,     \* rows of the table subagent_jobs
  ppc,      \* the await SubagentRequestPicker stands at
  pjob,     \* the job being dispatched
  agents,   \* the subagents and how far their hooks have come
  notes,    \* pending_updates: jobs whose result is on its way to the owner
  told,     \* per job, the messages that reached the owner
  asked,    \* per job, the dispatches the picker has begun
  crashes, errors, repeats

pickerVars == <<ppc, pjob, asked>>
budgets == <<crashes, errors, repeats>>
vars == <<jobs, ppc, pjob, agents, notes, told, asked, crashes, errors, repeats>>

(* completed stands for failed as well: nothing tells the two apart.       *)
Verdicts == {"completed", "stopped"}
Terminal == Verdicts \cup {"interrupted", "error", "dropped"}
Row == [status : {"absent", "requested", "started"} \cup Terminal,
        agent : Agents \cup {NoAgent},
        cancel : BOOLEAN,
        attempts : 0..MaxAttempts]

(* gone: the process the agent ran in has died.                            *)
Agent == [req : JobIds \cup {NoJob},
          live : BOOLEAN,
          start : {"none", "claim", "insert", "done", "gone"},
          stop : {"none", "record", "fetch", "done"},
          verdict : Verdicts]

PickerPcs == {"off", "poll", "ask", "refetch", "fail", "notify", "dead"}

NewRow(st, a) == [status |-> st, agent |-> a, cancel |-> FALSE, attempts |-> 0]
NoRow == NewRow("absent", NoAgent)
Unborn == [req |-> NoJob, live |-> FALSE, start |-> "none", stop |-> "none",
           verdict |-> "completed"]

Up == ppc # "off"
RowsOf(a) == {k \in JobIds : jobs[k].agent = a}
Waiting == {k \in JobIds : jobs[k].status = "requested" /\ jobs[k].agent = NoAgent}

Init ==
  /\ jobs = [k \in JobIds |-> NoRow]
  /\ ppc = "poll" /\ pjob = NoJob
  /\ agents = [a \in Agents |-> Unborn]
  /\ notes = {}
  /\ told = [k \in JobIds |-> 0]
  /\ asked = [k \in JobIds |-> 0]
  /\ crashes = 0 /\ errors = 0 /\ repeats = 0

-----------------------------------------------------------------------------
(* Rows, as the statements of the store change them.                       *)

NextId(k) == jobs[k].status = "absent" /\ \A i \in 1..(k - 1) : jobs[i].status # "absent"

(* Variant: the UPDATE of the claim without status = 'requested'.          *)
ClaimableAnyStatus(r) == r.status # "absent" /\ r.agent = NoAgent

Claimable(r) == r.status = "requested" /\ r.agent = NoAgent

(* Variant: a requested row gets the flag and stays requested.             *)
CancelledByFlagOnly(r) == IF r.status \in Terminal THEN r ELSE [r EXCEPT !.cancel = TRUE]

(* set_cancel_requested: a requested row stops at once, a started row only *)
(* gets the flag, an ended row nothing.                                    *)
Cancelled(r) ==
  IF r.status \in Terminal THEN r
  ELSE [r EXCEPT !.cancel = TRUE,
                 !.status = IF @ = "requested" THEN "stopped" ELSE @]

(* mark_dispatch_failed.                                                   *)
DispatchFailed(r) ==
  IF r.status = "requested"
  THEN [r EXCEPT !.attempts = @ + 1,
                 !.status = IF r.attempts + 1 >= MaxAttempts THEN "error" ELSE @]
  ELSE r

(* record_finished: the row of the agent while it is started, and the      *)
(* branch for a requested row that already carries the agent.              *)
Finished(r, a, verdict) ==
  IF r.agent = a /\ r.status \in {"started", "requested"}
  THEN [r EXCEPT !.status = verdict] ELSE r

(* Variant: the second branch of recover_orphans is missing.               *)
RecoveredExceptStarted(r, stale) ==
  IF r.status = "requested" /\ stale THEN [r EXCEPT !.status = "dropped"] ELSE r

(* The three branches of recover_orphans, in their order.                  *)
Recovered(r, stale) ==
  CASE r.status = "started" /\ r.agent = NoAgent -> [r EXCEPT !.status = "dropped"]
    [] r.status = "started" /\ r.agent # NoAgent -> [r EXCEPT !.status = "interrupted"]
    [] r.status = "requested" /\ stale -> [r EXCEPT !.status = "dropped"]
    [] OTHER -> r

-----------------------------------------------------------------------------
(* The owner's tools subagent_spawn and subagent_cancel.                   *)

Spawn(k) ==
  /\ Up
  /\ k <= MaxRequests
  /\ NextId(k)
  /\ jobs' = [jobs EXCEPT ![k] = NewRow("requested", NoAgent)]
  /\ UNCHANGED <<agents, notes, told, pickerVars, budgets>>

Cancel(k) ==
  /\ Up
  /\ jobs[k].status \in {"requested", "started"}
  /\ ~jobs[k].cancel
  /\ jobs' = [jobs EXCEPT ![k] = Cancelled(@)]
  /\ UNCHANGED <<agents, notes, told, pickerVars, budgets>>

-----------------------------------------------------------------------------
(* SubagentRequestPicker.                                                  *)

(* list_pending_requests, oldest first.  A row whose cancel flag is set is *)
(* skipped: the picker sleeps and lists it again.                          *)
PickerTake(k) ==
  /\ ppc = "poll"
  /\ k \in Waiting /\ \A other \in Waiting : k <= other
  /\ ~jobs[k].cancel
  /\ ppc' = "ask" /\ pjob' = k
  /\ asked' = [asked EXCEPT ![k] = @ + 1]
  /\ UNCHANGED <<jobs, agents, notes, told, budgets>>

(* bridge.ask ends: normally, by any exception, or by its timeout.  No     *)
(* hook begins any more for an agent of this session.                      *)
PickerReturn ==
  /\ ppc = "ask"
  /\ ppc' = "refetch"
  /\ agents' = [a \in Agents |->
                  IF agents[a].req = pjob THEN [agents[a] EXCEPT !.live = FALSE]
                                          ELSE agents[a]]
  /\ UNCHANGED <<jobs, notes, told, pjob, asked, budgets>>

Back == ppc' = "poll" /\ pjob' = NoJob

(* _finalize_dispatch reads the row again: with an error or without, a row *)
(* that is still requested has not been started.                           *)
PickerRefetch ==
  /\ ppc = "refetch"
  /\ IF jobs[pjob].status = "requested"
     THEN ppc' = "fail" /\ UNCHANGED pjob
     ELSE Back
  /\ UNCHANGED <<jobs, agents, notes, told, asked, budgets>>

PickerFail ==
  /\ ppc = "fail"
  /\ jobs' = [jobs EXCEPT ![pjob] = DispatchFailed(@)]
  /\ IF jobs'[pjob].status = "error"
     THEN ppc' = "notify" /\ UNCHANGED pjob
     ELSE Back
  /\ UNCHANGED <<agents, notes, told, asked, budgets>>

(* _notify_terminal_error; a failing send is swallowed.                    *)
PickerNotify ==
  /\ ppc = "notify"
  /\ told' \in {told, [told EXCEPT ![pjob] = @ + 1]}
  /\ Back
  /\ UNCHANGED <<jobs, agents, notes, asked, budgets>>

(* Only the listing is guarded: an exception of the store in               *)
(* _finalize_dispatch ends run(), and nothing restarts the picker.         *)
PickerStoreError ==
  /\ ppc \in {"refetch", "fail"}
  /\ errors < MaxErrors
  /\ errors' = errors + 1
  /\ ppc' = "dead" /\ pjob' = NoJob
  /\ UNCHANGED <<jobs, agents, notes, told, asked, crashes, repeats>>

-----------------------------------------------------------------------------
(* SubagentStart.  CURRENT_REQUEST_ID is set in a session of the picker    *)
(* and not in an ordinary turn.                                            *)

Begin(a, req) ==
  /\ agents[a].start = "none"
  /\ agents' = [agents EXCEPT ![a] =
                  [@ EXCEPT !.req = req, !.live = TRUE,
                            !.start = IF req = NoJob THEN "insert" ELSE "claim"]]
  /\ UNCHANGED <<jobs, notes, told, pickerVars, budgets>>

PickedTask(a) == ppc = "ask" /\ Begin(a, pjob)
NativeTask(a) == Up /\ Begin(a, NoJob)

StartAgain(a) ==
  /\ agents[a].live /\ agents[a].start = "done"
  /\ repeats < MaxRepeats
  /\ repeats' = repeats + 1
  /\ agents' = [agents EXCEPT ![a].start = IF agents[a].req = NoJob THEN "insert" ELSE "claim"]
  /\ UNCHANGED <<jobs, notes, told, pickerVars, crashes, errors>>

StartClaim(a) ==
  /\ agents[a].start = "claim"
  /\ LET k == agents[a].req IN
       IF Claimable(jobs[k])
       THEN /\ jobs' = [jobs EXCEPT ![k] = [@ EXCEPT !.status = "started", !.agent = a]]
            /\ agents' = [agents EXCEPT ![a].start = "done"]
       ELSE /\ agents' = [agents EXCEPT ![a].start = "insert"]
            /\ UNCHANGED jobs
  /\ UNCHANGED <<notes, told, pickerVars, budgets>>

(* Variant: without the partial UNIQUE index on sdk_agent_id.              *)
InsertRepeatedly(a) ==
  /\ agents[a].start = "insert"
  /\ \E k \in JobIds :
       /\ NextId(k)
       /\ jobs' = [jobs EXCEPT ![k] = NewRow("started", a)]
  /\ agents' = [agents EXCEPT ![a].start = "done"]
  /\ UNCHANGED <<notes, told, pickerVars, budgets>>

(* record_started; the UNIQUE index turns a repeated start into a no-op.   *)
StartInsert(a) ==
  /\ agents[a].start = "insert"
  /\ IF RowsOf(a) # {}
     THEN UNCHANGED jobs
     ELSE \E k \in JobIds :
            /\ NextId(k)
            /\ jobs' = [jobs EXCEPT ![k] = NewRow("started", a)]
  /\ agents' = [agents EXCEPT ![a].start = "done"]
  /\ UNCHANGED <<notes, told, pickerVars, budgets>>

-----------------------------------------------------------------------------
(* SubagentStop.                                                           *)

(* The hook is called and reads the cancel flag, which wins over what the  *)
(* SDK says of the run.                                                    *)
StopRead(a) ==
  /\ agents[a].live
  /\ agents[a].start # "none" /\ agents[a].stop = "none"
  /\ agents' = [agents EXCEPT ![a].stop = "record",
       ![a].verdict = IF \E k \in RowsOf(a) : jobs[k].cancel THEN "stopped" ELSE "completed"]
  /\ UNCHANGED <<jobs, notes, told, pickerVars, budgets>>

StopRecord(a) ==
  /\ agents[a].stop = "record"
  /\ jobs' = [k \in JobIds |-> Finished(jobs[k], a, agents[a].verdict)]
  /\ agents' = [agents EXCEPT ![a].stop = "fetch", ![a].verdict = "completed"]
  /\ UNCHANGED <<notes, told, pickerVars, budgets>>

(* get_by_agent_id, and a task for the notification when there is a row.   *)
StopFetch(a) ==
  /\ agents[a].stop = "fetch"
  /\ notes' = notes \cup RowsOf(a)
  /\ agents' = [agents EXCEPT ![a].stop = "done", ![a].live = FALSE]
  /\ UNCHANGED <<jobs, told, pickerVars, budgets>>

Deliver(k) ==
  /\ k \in notes
  /\ notes' = notes \ {k}
  /\ told' \in {told, [told EXCEPT ![k] = @ + 1]}
  /\ UNCHANGED <<jobs, agents, pickerVars, budgets>>

(* A store operation of a hook raises.  record_started and record_finished *)
(* are guarded and the hook goes on; the others end it.                    *)
HookStoreError(a) ==
  /\ errors < MaxErrors
  /\ errors' = errors + 1
  /\ \/ /\ agents[a].start \in {"claim", "insert"}
        /\ agents' = [agents EXCEPT ![a].start = "done"]
     \/ /\ agents[a].stop = "record"
        /\ agents' = [agents EXCEPT ![a].stop = "fetch", ![a].verdict = "completed"]
     \/ /\ \/ agents[a].stop = "fetch"
           \/ agents[a].live /\ agents[a].start # "none" /\ agents[a].stop = "none"
        /\ agents' = [agents EXCEPT ![a].stop = "done", ![a].live = FALSE]
  /\ UNCHANGED <<jobs, notes, told, pickerVars, crashes, repeats>>

(* The turn of a native Task ends without a SubagentStop.                  *)
SessionLost(a) ==
  /\ agents[a].live /\ agents[a].req = NoJob
  /\ agents' = [agents EXCEPT ![a].live = FALSE]
  /\ UNCHANGED <<jobs, notes, told, pickerVars, budgets>>

-----------------------------------------------------------------------------
(* The process dies, or stops: its tasks go, the rows stay.                *)

Gone(r) ==
  IF r.start = "none" THEN r
  ELSE [Unborn EXCEPT !.start = "gone", !.stop = "done"]

Crash ==
  /\ Up
  /\ crashes < MaxCrashes
  /\ crashes' = crashes + 1
  /\ ppc' = "off" /\ pjob' = NoJob
  /\ agents' = [a \in Agents |-> Gone(agents[a])]
  /\ notes' = {}
  /\ UNCHANGED <<jobs, told, asked, errors, repeats>>

(* Daemon.start recovers orphans before it starts the picker; the rows     *)
(* below youngest are older than orphan_stale_s.                           *)
Boot ==
  /\ ppc = "off"
  /\ \E youngest \in JobIds :
       jobs' = [k \in JobIds |-> Recovered(jobs[k], k < youngest)]
  /\ ppc' = "poll"
  /\ UNCHANGED <<pjob, asked, agents, notes, told, budgets>>

-----------------------------------------------------------------------------
Owner == \E k \in JobIds : Spawn(k) \/ Cancel(k)

Picker ==
  \/ \E k \in JobIds : PickerTake(k)
  \/ PickerReturn \/ PickerRefetch \/ PickerFail \/ PickerNotify

Hook(a) == StartClaim(a) \/ StartInsert(a) \/ StopRecord(a) \/ StopFetch(a)

Sdk(a) == PickedTask(a) \/ NativeTask(a) \/ StartAgain(a) \/ StopRead(a) \/ SessionLost(a)

Fault == PickerStoreError \/ Crash \/ \E a \in Agents : HookStoreError(a)

Next ==
  \/ Owner \/ Picker \/ Fault \/ Boot
  \/ \E a \in Agents : Hook(a) \/ Sdk(a)
  \/ \E k \in JobIds : Deliver(k)

Spec == Init /\ [][Next]_vars

(* bridge.ask runs under asyncio.timeout and the awaits of the picker on   *)
(* the store and on Telegram return, so the picker keeps going; systemd    *)
(* restarts a dead process.  Nothing obliges the SDK or the owner.         *)
FairSpec == Spec /\ WF_vars(Picker) /\ WF_vars(Boot)

-----------------------------------------------------------------------------
(* Properties.                                                             *)

(* Every variable has its type.                                            *)
TypeOK ==
  /\ jobs \in [JobIds -> Row]
  /\ ppc \in PickerPcs
  /\ pjob \in JobIds \cup {NoJob}
  /\ agents \in [Agents -> Agent]
  /\ notes \in SUBSET JobIds
  /\ told \in [JobIds -> Nat]
  /\ asked \in [JobIds -> Nat]
  /\ crashes \in Nat /\ errors \in Nat /\ repeats \in Nat

(* sdk_agent_id identifies a row: however claims fail, starts repeat and   *)
(* sessions overlap, no agent has two rows.                                *)
OneRowPerAgent ==
  \A j, k \in JobIds : jobs[j].agent = jobs[k].agent /\ jobs[j].agent # NoAgent => j = k

(* While the daemon is up, a started row belongs to an agent of this life  *)
(* of the process: a boot leaves no ghost that nobody will ever finish.    *)
StartedIsOfThisLife ==
  Up => \A k \in JobIds :
          jobs[k].status = "started" =>
            \E a \in Agents : jobs[k].agent = a /\ agents[a].start # "gone"

(* A dispatch is written off only when no subagent has taken it, although  *)
(* the hook may claim the row after the picker has looked at it.           *)
ErrorNeverStarted == \A k \in JobIds : jobs[k].status = "error" => jobs[k].agent = NoAgent

(* A request costs at most MaxAttempts dispatches and one per crash.       *)
DispatchBudget == \A k \in JobIds : asked[k] <= MaxAttempts + crashes

(* A request does not wait for ever, whatever the model does with its      *)
(* dispatch, unless the picker has died of a store error.                  *)
RequestIsSettled ==
  \A k \in JobIds :
    jobs[k].status = "requested" ~> jobs[k].status # "requested" \/ ppc = "dead"

(* The promise of JobLifecycle.                                            *)
Lifecycle == INSTANCE JobLifecycle
               WITH Jobs <- JobIds, status <- [k \in JobIds |-> jobs[k].status]
LifecycleSpec == Lifecycle!Spec
=============================================================================
