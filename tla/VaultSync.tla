------------------------------ MODULE VaultSync ------------------------------
(***************************************************************************)
(* VaultSyncSubsystem: the hourly loop and the vault_push_now tool, each   *)
(* running the pipeline status, add, diff, commit, push over the vault's   *)
(* git repository; the asyncio lock around the whole pipeline, the flock   *)
(* (vault_lock) shared with the memory tools around all of it but push;    *)
(* the persisted state that drives the owner's notices and the rate limit  *)
(* of the tool; and the cleanup of a stale index.lock at boot.             *)
(*                                                                         *)
(* An action is the code between two awaits, so it is one git command with *)
(* what the pipeline does on its result.  Leaving the asyncio lock and     *)
(* moving the edge machine are one action: nothing is awaited in between.  *)
(* A git command may fail, and when it is killed for its timeout its       *)
(* effect may have landed or not and index.lock may be left behind.        *)
(*                                                                         *)
(* Time is counted in minutes, the unit of the rate limit and of the age   *)
(* at which index.lock is stale.  The loop's interval is left out: a tick  *)
(* may begin whenever the one before has ended.                            *)
(***************************************************************************)
EXTENDS Integers, Sequences

CONSTANTS
  Notes,         \* files of the vault
  Denied,        \* the notes whose name secret_denylist_regex matches
  Tick,          \* the pipeline run of the loop
  Manuals,       \* callers of vault_push_now
  Free,          \* nobody
  Writer,        \* a memory tool in its thread
  MinInterval,   \* manual_tool_min_interval_s
  StaleAge,      \* _STALE_AGE_S
  Milestones,    \* notify_milestone_failures
  MaxClock,      \* bound: minutes
  MaxWrites,     \* bound: notes written or deleted
  MaxFaults,     \* bound: git commands that fail
  MaxFailures,   \* bound: no run begins after so many failures in a row
  MaxCrashes     \* bound: deaths of the process

Runs == {Tick} \cup Manuals

ASSUME VaultAssumption ==
  /\ Denied \subseteq Notes
  /\ Tick \notin Manuals
  /\ {Free, Writer} \cap Runs = {}
  /\ Free # Writer
  /\ MinInterval \in Nat
  /\ StaleAge \in Nat
  /\ {MaxClock, MaxWrites, MaxFaults, MaxFailures, MaxCrashes} \subseteq Nat

VARIABLES
  work, log, pushed,  \* the vault's files, the commits, how many the remote has
  index,              \* the tree in git's index
  lockSince,          \* when the .git/index.lock there is was left, or Never
  vlock,              \* who holds vault_lock
  queue,              \* _lock: its holder, then those waiting for it
  pc,                 \* the await each run stands at
  result,             \* RunResult of each run
  notice,             \* the notice each run is sending
  attended,           \* manual runs whose caller still awaits them
  state,              \* _state, saved to its file with every change
  snapshot,           \* _state_pre_invocation_at
  enabled,            \* "down", or the verdict of startup_check
  clock, writes, faults, crashes,
  since,              \* last vault_push_now accepted that no failed run undid
  torn                \* a run died between its commit and its end

git == <<work, log, pushed, index, lockSince>>
owner == <<state, snapshot, since>>
bounds == <<clock, writes, faults, crashes>>
vars == <<git, vlock, queue, pc, result, notice, attended, owner, enabled,
          bounds, torn>>

Never == -1
Times == 0..MaxClock
Moments == Times \cup {Never}

Git == {"status", "add", "diff", "commit"}        \* holding vault_lock
Inside == Git \cup {"push"}                       \* holding _lock
Results == {"none", "noop", "contended", "failed", "pushed", "raised"}
Notices == {"none", "failure", "milestone", "recovery"}

Tip == log[Len(log)]
Differ(a, b) == (a \ b) \cup (b \ a)

(* git status --porcelain is not empty.                                    *)
Dirty == index # Tip \/ work # index
(* git diff --cached --name-only.                                          *)
Staged == Differ(index, Tip)

Init ==
  /\ work = {} /\ index = {} /\ log = <<{}>> /\ pushed = 1
  /\ lockSince = Never
  /\ vlock = Free
  /\ queue = <<>>
  /\ pc = [r \in Runs |-> "idle"]
  /\ result = [r \in Runs |-> "none"]
  /\ notice = [r \in Runs |-> "none"]
  /\ attended = {}
  /\ state = [last |-> "ok", failures |-> 0, invoked |-> Never]
  /\ snapshot = Never
  /\ enabled \in {"yes", "no"}
  /\ clock = 0 /\ writes = 0 /\ faults = 0 /\ crashes = 0
  /\ since = Never
  /\ torn = FALSE

-----------------------------------------------------------------------------
(* The edge machine, and leaving the pipeline.                             *)

FailureEdge(s) ==
  [last |-> "fail", failures |-> s.failures + 1, invoked |-> s.invoked]
SuccessEdge(s) == [last |-> "ok", failures |-> 0, invoked |-> s.invoked]

FailureNotice(s) ==
  CASE s.last = "ok" -> "failure"
    [] s.last # "ok" /\ s.failures + 1 \in Milestones -> "milestone"
    [] OTHER -> "none"
SuccessNotice(s) == IF s.last = "fail" THEN "recovery" ELSE "none"

(* Variant: an exception leaves _lock held.                                *)
EndsHoldingLock(r, res) ==
  /\ result' = [result EXCEPT ![r] = res]
  /\ pc' = [pc EXCEPT ![r] = "notify"]
  /\ queue' = IF res = "raised" THEN queue ELSE Tail(queue)
  /\ vlock' = IF vlock = r THEN Free ELSE vlock
  /\ state' = CASE res = "failed" -> FailureEdge(state)
                [] res = "pushed" -> SuccessEdge(state)
                [] OTHER -> state
  /\ UNCHANGED <<notice, snapshot, since, attended, enabled>>

(* Run r leaves the pipeline with res.                                     *)
Ends(r, res) ==
  /\ result' = [result EXCEPT ![r] = res]
  /\ pc' = [pc EXCEPT ![r] = "notify"]
  /\ queue' = Tail(queue)
  /\ vlock' = IF vlock = r THEN Free ELSE vlock
  /\ CASE res = "failed" ->
            /\ state' = FailureEdge(state)
            /\ notice' = [notice EXCEPT ![r] = FailureNotice(state)]
       [] res = "pushed" ->
            /\ state' = SuccessEdge(state)
            /\ notice' = [notice EXCEPT ![r] = SuccessNotice(state)]
       [] OTHER -> UNCHANGED <<state, notice>>
  /\ UNCHANGED <<snapshot, since, attended, enabled>>

Goes(r, label) ==
  /\ pc' = [pc EXCEPT ![r] = label]
  /\ UNCHANGED <<vlock, queue, result, notice, attended, owner, enabled>>

Fault ==
  /\ faults < MaxFaults
  /\ faults' = faults + 1
  /\ UNCHANGED <<clock, writes, crashes>>

NoFault == UNCHANGED bounds

(* A killed command may leave the index.lock it made; it made none when    *)
(* there was one.                                                          *)
LeaveLock == lockSince' = IF lockSince = Never THEN clock ELSE lockSince

-----------------------------------------------------------------------------
(* The pipeline.                                                           *)

LoopTick ==
  /\ enabled = "yes"
  /\ pc[Tick] = "idle"
  /\ state.failures < MaxFailures
  /\ pc' = [pc EXCEPT ![Tick] = "wait"]
  /\ queue' = Append(queue, Tick)
  /\ UNCHANGED <<git, vlock, result, notice, attended, owner, enabled, bounds, torn>>

(* push_now past its rate limit.                                           *)
PushNow(m) ==
  /\ enabled = "yes"
  /\ pc[m] = "idle"
  /\ state.failures < MaxFailures
  /\ state.invoked # Never => clock - state.invoked >= MinInterval
  /\ snapshot' = state.invoked
  /\ state' = [state EXCEPT !.invoked = clock]
  /\ since' = clock
  /\ pc' = [pc EXCEPT ![m] = "wait"]
  /\ queue' = Append(queue, m)
  /\ attended' = attended \cup {m}
  /\ UNCHANGED <<git, vlock, result, notice, enabled, bounds, torn>>

(* The tool call is cancelled; the shielded run goes on.                   *)
CallerLeaves(m) ==
  /\ m \in attended
  /\ attended' = attended \ {m}
  /\ UNCHANGED <<git, vlock, queue, pc, result, notice, owner, enabled, bounds, torn>>

MyTurn(r) == pc[r] = "wait" /\ queue # <<>> /\ Head(queue) = r

TakeLock(r) ==
  /\ MyTurn(r)
  /\ vlock = Free
  /\ vlock' = r
  /\ pc' = [pc EXCEPT ![r] = "status"]
  /\ UNCHANGED <<git, queue, result, notice, attended, owner, enabled, bounds, torn>>

(* TimeoutError of vault_lock.                                             *)
LockContention(r) ==
  /\ MyTurn(r)
  /\ vlock # Free
  /\ Ends(r, "contended")
  /\ UNCHANGED <<git, bounds, torn>>

(* Variant: a run with nothing to commit counts as a success.              *)
StatusNoopSucceeds(r) ==
  /\ pc[r] = "status"
  /\ IF Dirty THEN Goes(r, "add") ELSE Ends(r, "pushed")
  /\ NoFault
  /\ UNCHANGED <<git, torn>>

Status(r) ==
  /\ pc[r] = "status"
  /\ IF Dirty THEN Goes(r, "add") ELSE Ends(r, "noop")
  /\ NoFault
  /\ UNCHANGED <<git, torn>>

Add(r) ==
  /\ pc[r] = "add"
  /\ lockSince = Never
  /\ index' = work
  /\ Goes(r, "diff")
  /\ NoFault
  /\ UNCHANGED <<work, log, pushed, lockSince, torn>>

(* GitOpError of status, add or diff: nothing in the pipeline catches it.  *)
GitRaises(r) ==
  /\ pc[r] \in {"status", "add", "diff"}
  /\ \/ Fault /\ UNCHANGED <<index, lockSince>>
     \/ Fault /\ pc[r] # "diff" /\ LeaveLock /\ UNCHANGED index
     \/ Fault /\ pc[r] = "add" /\ lockSince = Never /\ index' = work
              /\ UNCHANGED lockSince
     \/ pc[r] = "add" /\ lockSince # Never /\ NoFault /\ UNCHANGED <<index, lockSince>>
  /\ Ends(r, "raised")
  /\ UNCHANGED <<work, log, pushed, torn>>

Diff(r) ==
  /\ pc[r] = "diff"
  /\ CASE Staged = {} -> Ends(r, "noop")
       [] Staged \cap Denied # {} -> Ends(r, "failed")
       [] OTHER -> Goes(r, "commit")
  /\ NoFault
  /\ UNCHANGED <<git, torn>>

(* git commit, then git rev-parse.                                         *)
Commit(r) ==
  /\ pc[r] = "commit"
  /\ lockSince = Never
  /\ log' = Append(log, index)
  /\ pc' = [pc EXCEPT ![r] = "push"]
  /\ vlock' = Free
  /\ NoFault
  /\ UNCHANGED <<work, index, pushed, lockSince, queue, result, notice, attended,
                 owner, enabled, torn>>

CommitFails(r) ==
  /\ pc[r] = "commit"
  /\ \/ Fault /\ UNCHANGED <<log, lockSince>>
     \/ Fault /\ UNCHANGED log /\ LeaveLock
     \/ Fault /\ lockSince = Never /\ log' = Append(log, index)
              /\ (UNCHANGED lockSince \/ LeaveLock)
     \/ lockSince # Never /\ NoFault /\ UNCHANGED <<log, lockSince>>
  /\ Ends(r, "failed")
  /\ UNCHANGED <<work, index, pushed, torn>>

Push(r) ==
  /\ pc[r] = "push"
  /\ pushed' = Len(log)
  /\ torn' = FALSE
  /\ Ends(r, "pushed")
  /\ NoFault
  /\ UNCHANGED <<work, log, index, lockSince>>

PushFails(r) ==
  /\ pc[r] = "push"
  /\ Fault
  /\ pushed' \in {pushed, Len(log)}
  /\ Ends(r, "failed")
  /\ UNCHANGED <<work, log, index, lockSince, torn>>

(* The notice has been sent, or given up on; a manual run's task ends.     *)
Notified(r) ==
  /\ pc[r] = "notify"
  /\ notice' = [notice EXCEPT ![r] = "none"]
  /\ pc' = [pc EXCEPT ![r] = IF r \in attended THEN "return" ELSE "idle"]
  /\ result' = [result EXCEPT ![r] = IF r \in attended THEN @ ELSE "none"]
  /\ UNCHANGED <<git, vlock, queue, attended, owner, enabled, bounds, torn>>

(* push_now goes on after its run: a failed one gives its window back.     *)
Return(m) ==
  /\ pc[m] = "return"
  /\ pc' = [pc EXCEPT ![m] = "idle"]
  /\ result' = [result EXCEPT ![m] = "none"]
  /\ attended' = attended \ {m}
  /\ IF result[m] = "failed" /\ m \in attended
     THEN state' = [state EXCEPT !.invoked = snapshot] /\ since' = Never
     ELSE UNCHANGED <<state, since>>
  /\ UNCHANGED <<git, vlock, queue, notice, snapshot, enabled, bounds, torn>>

-----------------------------------------------------------------------------
(* The memory tools, the clock, and the daemon's death and boot.           *)

(* Variant: the memory tools do not look at the lock.                      *)
WriterTakesAnyway ==
  /\ enabled # "down"
  /\ writes < MaxWrites
  /\ vlock' = Writer
  /\ writes' = writes + 1
  /\ UNCHANGED <<git, queue, pc, result, notice, attended, owner, enabled,
                 clock, faults, crashes, torn>>

WriterTakes ==
  /\ enabled # "down"
  /\ vlock = Free
  /\ writes < MaxWrites
  /\ vlock' = Writer
  /\ writes' = writes + 1
  /\ UNCHANGED <<git, queue, pc, result, notice, attended, owner, enabled,
                 clock, faults, crashes, torn>>

(* write_note_tx or delete_note_tx ends: a note changed, or nothing did.   *)
WriterWrites ==
  /\ vlock = Writer
  /\ vlock' = Free
  /\ work' \in {work} \cup {Differ(work, {n}) : n \in Notes}
  /\ UNCHANGED <<log, pushed, index, lockSince, queue, pc, result, notice, attended,
                 owner, enabled, bounds, torn>>

Minute ==
  /\ clock < MaxClock
  /\ clock' = clock + 1
  /\ UNCHANGED <<git, vlock, queue, pc, result, notice, attended, owner, enabled,
                 writes, faults, crashes, torn>>

(* The process dies, and with it the git command it was running, which may *)
(* have landed and may have left index.lock.  Daemon.stop, which waits for *)
(* the runs and then cancels them, ends in the same states.                *)
InFlight(label) == \E r \in Runs : pc[r] = label

Crash ==
  /\ enabled # "down"
  /\ crashes < MaxCrashes
  /\ crashes' = crashes + 1
  /\ enabled' = "down"
  /\ \/ UNCHANGED <<index, log, pushed>>
     \/ InFlight("add") /\ lockSince = Never /\ index' = work /\ UNCHANGED <<log, pushed>>
     \/ InFlight("commit") /\ lockSince = Never /\ log' = Append(log, index)
                           /\ UNCHANGED <<index, pushed>>
     \/ InFlight("push") /\ pushed' = Len(log) /\ UNCHANGED <<index, log>>
  /\ \/ UNCHANGED lockSince
     \/ (InFlight("status") \/ InFlight("add") \/ InFlight("commit")) /\ LeaveLock
  /\ torn' = (torn \/ pushed' < Len(log'))
  /\ vlock' = Free
  /\ queue' = <<>>
  /\ pc' = [r \in Runs |-> "idle"]
  /\ result' = [r \in Runs |-> "none"]
  /\ notice' = [r \in Runs |-> "none"]
  /\ attended' = {}
  /\ snapshot' = Never
  /\ UNCHANGED <<work, state, since, clock, writes, faults>>

(* Variant: the state file is not read back.                               *)
BootForgets ==
  /\ enabled = "down"
  /\ enabled' \in {"yes", "no"}
  /\ state' = [last |-> "ok", failures |-> 0, invoked |-> Never]
  /\ UNCHANGED <<git, vlock, queue, pc, result, notice, attended, snapshot, since,
                 bounds, torn>>

(* _cleanup_stale_vault_locks, then startup_check.                         *)
Boot ==
  /\ enabled = "down"
  /\ enabled' \in {"yes", "no"}
  /\ lockSince' = IF lockSince # Never /\ clock - lockSince > StaleAge
                  THEN Never ELSE lockSince
  /\ UNCHANGED <<work, log, pushed, index, vlock, queue, pc, result, notice, attended,
                 owner, bounds, torn>>

Step(r) ==
  \/ TakeLock(r) \/ LockContention(r)
  \/ Status(r) \/ Add(r) \/ GitRaises(r) \/ Diff(r)
  \/ Commit(r) \/ CommitFails(r) \/ Push(r) \/ PushFails(r)
  \/ Notified(r)

Next ==
  \/ LoopTick
  \/ \E m \in Manuals : PushNow(m) \/ CallerLeaves(m) \/ Return(m)
  \/ \E r \in Runs : Step(r)
  \/ WriterTakes \/ WriterWrites
  \/ Minute \/ Crash \/ Boot

Spec == Init /\ [][Next]_vars

(* Every wait of a run is bounded: git commands by git_op_timeout_s and    *)
(* push_timeout_s, vault_lock by its own timeout, a notice by              *)
(* NOTIFY_TIMEOUT_S; _lock is first come, first served.                    *)
FairSpec ==
  /\ Spec
  /\ \A r \in Runs : WF_vars(Step(r))
  /\ \A m \in Manuals : WF_vars(Return(m))
  /\ WF_vars(WriterWrites)

-----------------------------------------------------------------------------
(* Properties.                                                             *)

(* Every variable stays in its range.                                      *)
TypeOK ==
  /\ work \subseteq Notes /\ index \subseteq Notes
  /\ log \in Seq(SUBSET Notes) /\ Len(log) >= 1
  /\ pushed \in 1..Len(log)
  /\ lockSince \in Moments
  /\ vlock \in {Free, Writer} \cup Runs
  /\ queue \in Seq(Runs)
  /\ pc \in [Runs -> Inside \cup {"idle", "wait", "notify", "return"}]
  /\ result \in [Runs -> Results]
  /\ notice \in [Runs -> Notices]
  /\ attended \subseteq Manuals
  /\ state \in [last : {"ok", "fail"}, failures : Nat, invoked : Moments]
  /\ snapshot \in Moments /\ since \in Moments
  /\ enabled \in {"yes", "no", "down"}
  /\ clock \in Times /\ writes \in 0..MaxWrites
  /\ faults \in 0..MaxFaults /\ crashes \in 0..MaxCrashes
  /\ torn \in BOOLEAN

(* The commits are pictures of the whole vault taken in one instant, none  *)
(* touching a denied file, and the remote has a prefix of them, although   *)
(* the memory tools write in their own threads, git commands die half way  *)
(* and the process with them: the module implements VaultBackup.           *)
Backup == INSTANCE VaultBackup
BackupSpec == Backup!Spec

(* A commit the remote lacks while nobody is pushing is known to the edge  *)
(* machine, so that the owner has been told and the next push is announced *)
(* as a recovery, unless the process died between commit and push.         *)
UnpushedIsRecorded ==
  pushed < Len(log) /\ ~InFlight("push") => state.last = "fail" \/ torn

(* Between two calls of vault_push_now that get past the rate limit, and   *)
(* across restarts, lies the minimal interval, unless a failed run gave    *)
(* its window back in between.                                             *)
AcceptedAreSpaced ==
  [][\A m \in Manuals : pc[m] = "idle" /\ pc'[m] = "wait"
        => since = Never \/ clock - since >= MinInterval]_vars

(* Every run that begins ends, and gives back both locks on its way.       *)
RunFinishes == \A r \in Runs : pc[r] # "idle" ~> pc[r] = "idle"
=============================================================================
