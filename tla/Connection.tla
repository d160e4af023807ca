----------------------------- MODULE Connection -----------------------------
(***************************************************************************)
(* The one aiosqlite connection that ConversationStore, SchedulerStore and *)
(* SubagentStore share.  A call of a store is a few statements and a       *)
(* commit, each awaited by itself; the connection's thread executes the    *)
(* statements of all calls one by one.  sqlite3 begins a transaction       *)
(* before the first INSERT or UPDATE that finds none, and a commit or a    *)
(* rollback ends it for everybody.  The locks of SchedulerStore and of     *)
(* SubagentStore keep the calls of one store apart, and those only.        *)
(*                                                                         *)
(* An action is one statement.  A call of one write stands for all its     *)
(* kind, whatever it reads beside; the minute of one schedule stands for   *)
(* every pair of a trigger and its last_fire_at.                           *)
(***************************************************************************)
EXTENDS Naturals

CONSTANTS
  Appends,     \* calls of ConversationStore.append
  Turns,       \* of start_turn, complete_turn and interrupt_turn
  Marks,       \* of the calls of SchedulerStore that write one row
  Starts,      \* of SubagentStore.record_started, all for one agent
  Loop,        \* SchedulerLoop, in try_materialize_trigger for one minute
  MaxTicks,    \* bound: attempts of the loop
  MaxCancels,  \* bound: calls whose task is cancelled
  MaxCrashes   \* bound: deaths of the process

OneWrite == Appends \cup Turns \cup Marks
Calls == OneWrite \cup Starts \cup {Loop}

(* What a call writes: a row of its own, the row of the agent, or the      *)
(* row of the trigger and then the column of its schedule.                 *)
Rows == OneWrite \cup {"agent", "trigger", "last_fire_at"}

ASSUME ConnectionAssumption ==
  /\ OneWrite \cap {"agent", "trigger", "last_fire_at"} = {}
  /\ Appends \cap (Turns \cup Marks) = {} /\ Turns \cap Marks = {}
  /\ Starts \cap OneWrite = {} /\ Loop \notin OneWrite \cup Starts
  /\ MaxTicks \in Nat /\ MaxCancels \in Nat /\ MaxCrashes \in Nat

VARIABLES
  disk,    \* what is committed
  open,    \* what is written in the open transaction
  inTx,    \* Connection.in_transaction
  busy,    \* appends whose INSERT ... RETURNING has a row left to step over
  pc,      \* the statement each call comes to next
  fires,   \* how often the loop has got an id for the minute
  lost,    \* rows that the rollback of another call has undone
  split,   \* the loop was cancelled, or a call of another store has ended
           \* the transaction, between its INSERT and its commit
  left,    \* a call that raised or was cancelled has left the transaction open
  ticks, cancels, crashes

database == <<disk, open, inTx>>
history == <<fires, lost, split, left>>
budgets == <<ticks, cancels, crashes>>
connectionVars == <<database, busy, pc, history, budgets>>

Inside == {"fetch", "bump", "commit", "rollback"}
Labels == {"new", "returned", "raised", "cancelled", "dead"} \cup Inside

Visible == disk \cup open
Row(c) == IF c \in Starts THEN "agent" ELSE c

ConnectionInit ==
  /\ disk = {} /\ open = {} /\ inTx = FALSE
  /\ busy = {}
  /\ pc = [c \in Calls |-> "new"]
  /\ fires = 0 /\ lost = {} /\ split = FALSE /\ left = FALSE
  /\ ticks = 0 /\ cancels = 0 /\ crashes = 0

-----------------------------------------------------------------------------
(* Statements, as sqlite3 executes them.                                   *)

Reaches(c, label) == pc' = [pc EXCEPT ![c] = label]

(* An INSERT or UPDATE, in the transaction there is or in a new one.       *)
Executes(rows) == open' = open \cup rows /\ inTx' = TRUE /\ UNCHANGED disk

Ends == open' = {} /\ inTx' = FALSE /\ left' = FALSE

StoreOf(c) ==
  IF c \in Starts THEN "subagent"
  ELSE IF c \in Marks \cup {Loop} THEN "scheduler" ELSE "conversations"

(* A transaction that ends under the loop by the hand of another store.    *)
Splits(c) ==
  split' = (split \/ (pc[Loop] \in {"bump", "commit"} /\ StoreOf(c) # "scheduler"))

-----------------------------------------------------------------------------
(* Calls of the stores.                                                    *)

(* Variant: a call of the scheduler's store without its lock.              *)
MayEnterUnlocked(c) == pc[c] = "new"

(* _tx_lock and SubagentStore._lock; ConversationStore has none.           *)
MayEnter(c) ==
  /\ pc[c] = "new"
  /\ StoreOf(c) # "conversations" =>
       \A d \in Calls : StoreOf(d) = StoreOf(c) => pc[d] \notin Inside

(* Variant: a write that is left to the next commit of anybody.            *)
WriteUncommitted(c) ==
  /\ MayEnter(c)
  /\ Executes({c})
  /\ IF c \in Appends
     THEN Reaches(c, "fetch") /\ busy' = busy \cup {c}
     ELSE Reaches(c, IF c \in Marks THEN "returned" ELSE "commit") /\ UNCHANGED busy
  /\ UNCHANGED <<history, budgets>>

(* append asks for the id with RETURNING and is not through with the       *)
(* statement before it has fetched it.                                     *)
Write(c) ==
  /\ MayEnter(c)
  /\ Executes({c})
  /\ IF c \in Appends
     THEN Reaches(c, "fetch") /\ busy' = busy \cup {c}
     ELSE Reaches(c, "commit") /\ UNCHANGED busy
  /\ UNCHANGED <<history, budgets>>

Fetch(c) ==
  /\ pc[c] = "fetch"
  /\ busy' = busy \ {c}
  /\ Reaches(c, "commit")
  /\ UNCHANGED <<database, history, budgets>>

(* record_started: the start hook of an agent may fire again.              *)
RecordStarted(c) ==
  /\ MayEnter(c)
  /\ Executes(IF "agent" \in Visible THEN {} ELSE {"agent"})
  /\ Reaches(c, IF "agent" \in Visible THEN "rollback" ELSE "commit")
  /\ UNCHANGED <<busy, history, budgets>>

(* Variant: INSERT OR IGNORE, and the id of the row there is.              *)
InsertOrIgnore ==
  /\ MayEnter(Loop) /\ ticks < MaxTicks
  /\ "last_fire_at" \notin Visible
  /\ ticks' = ticks + 1
  /\ Executes({"trigger"})
  /\ Reaches(Loop, "bump")
  /\ UNCHANGED <<busy, history, cancels, crashes>>

(* A tick finds the minute due by last_fire_at; UNIQUE refuses a minute    *)
(* that has a row.                                                         *)
InsertTrigger ==
  /\ MayEnter(Loop) /\ ticks < MaxTicks
  /\ "last_fire_at" \notin Visible
  /\ ticks' = ticks + 1
  /\ Executes(IF "trigger" \in Visible THEN {} ELSE {"trigger"})
  /\ Reaches(Loop, IF "trigger" \in Visible THEN "rollback" ELSE "bump")
  /\ UNCHANGED <<busy, history, cancels, crashes>>

Bump ==
  /\ pc[Loop] = "bump"
  /\ Executes({"last_fire_at"})
  /\ Reaches(Loop, "commit")
  /\ UNCHANGED <<busy, history, budgets>>

(* A call returns or raises; the loop ticks again.                         *)
Leaves(c, outcome) == Reaches(c, IF c = Loop THEN "new" ELSE outcome)

Commit(c) ==
  /\ pc[c] = "commit" /\ (inTx => busy = {})
  /\ disk' = Visible
  /\ Ends /\ Splits(c)
  /\ fires' = IF c = Loop THEN fires + 1 ELSE fires
  /\ Leaves(c, "returned")
  /\ UNCHANGED <<busy, lost, budgets>>

(* sqlite refuses to commit while a statement that writes is in progress:  *)
(* the OperationalError goes up to the caller.                             *)
CommitRaises(c) ==
  /\ pc[c] = "commit" /\ inTx /\ busy # {}
  /\ left' = TRUE
  /\ Leaves(c, "raised")
  /\ UNCHANGED <<database, busy, fires, lost, split, budgets>>

(* The IntegrityError of a duplicate: the rollback undoes what others have *)
(* not committed yet, then the call returns None, or the id it looks up.   *)
Rollback(c) ==
  /\ pc[c] = "rollback"
  /\ lost' = lost \cup open
  /\ Ends /\ Splits(c)
  /\ Leaves(c, "returned")
  /\ UNCHANGED <<disk, busy, fires, budgets>>

(* The task of a call is cancelled: the statement it waits for is executed *)
(* all the same, the next one is not.                                      *)
Cancel(c) ==
  /\ pc[c] \in Inside /\ cancels < MaxCancels
  /\ cancels' = cancels + 1
  /\ busy' = busy \ {c}
  /\ left' = inTx
  /\ split' = (split \/ c = Loop)
  /\ Reaches(c, "cancelled")
  /\ UNCHANGED <<database, fires, lost, ticks, crashes>>

(* The process dies, and what is not committed with it.                    *)
Crash ==
  /\ crashes < MaxCrashes
  /\ crashes' = crashes + 1
  /\ open' = {} /\ inTx' = FALSE /\ busy' = {} /\ left' = FALSE
  /\ pc' = [c \in Calls |-> IF c = Loop THEN "new"
                            ELSE IF pc[c] \in Inside THEN "dead" ELSE pc[c]]
  /\ UNCHANGED <<disk, fires, lost, split, ticks, cancels>>

ConnectionNext ==
  \/ \E c \in OneWrite : Write(c)
  \/ \E c \in Appends : Fetch(c)
  \/ \E c \in Starts : RecordStarted(c)
  \/ InsertTrigger \/ Bump
  \/ \E c \in Calls : Commit(c) \/ CommitRaises(c) \/ Rollback(c) \/ Cancel(c)
  \/ Crash

ConnectionSpec == ConnectionInit /\ [][ConnectionNext]_connectionVars

-----------------------------------------------------------------------------
(* Properties.                                                             *)

(* Every variable has its type.                                            *)
ConnectionTypeOK ==
  /\ disk \in SUBSET Rows /\ open \in SUBSET Rows /\ inTx \in BOOLEAN
  /\ busy \in SUBSET Appends
  /\ pc \in [Calls -> Labels]
  /\ fires \in Nat /\ lost \in SUBSET Rows
  /\ split \in BOOLEAN /\ left \in BOOLEAN
  /\ ticks \in 0..MaxTicks /\ cancels \in 0..MaxCancels /\ crashes \in 0..MaxCrashes

(* What a call has returned for survives every death, whoever's commit has *)
(* carried it, unless the duplicate of another call has rolled it back     *)
(* between the statement and the commit.                                   *)
ReturnedIsDurable ==
  \A c \in Calls \ {Loop} : pc[c] = "returned" => Row(c) \in disk \cup lost

(* try_materialize_trigger: a trigger and the last_fire_at that goes with  *)
(* it are on disk together or not at all; the lock gives as much against   *)
(* the scheduler's own calls, and nothing against those of other stores.   *)
MinuteIsWhole == ~split => ("trigger" \in disk <=> "last_fire_at" \in disk)

(* The loop gets an id for a minute once, through deaths and failed        *)
(* commits, unless a rollback has undone the row it got the id for.        *)
MinuteFiresOnce == fires > 1 => "trigger" \in lost

(* No transaction outlives the calls that write in it, except for one that *)
(* an exception or a cancellation has left for the next commit to take.    *)
NothingIsLeftOpen == inTx => left \/ \E c \in Calls : pc[c] \in Inside
=============================================================================
