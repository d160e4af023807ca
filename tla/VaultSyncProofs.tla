--------------------------- MODULE VaultSyncProofs ---------------------------
(***************************************************************************)
(* Proofs about VaultSync for every number of callers, notes and faults.   *)
(* The two locks carry the argument: whoever is inside the pipeline heads  *)
(* the queue of _lock, and until its commit it also holds vault_lock, so   *)
(* what it staged is still the whole vault when it commits it.             *)
(***************************************************************************)
EXTENDS VaultSync, TLAPS

(* One run is inside the pipeline, the head of the queue.                  *)
OneInside == \A r \in Runs : pc[r] \in Inside => queue # <<>> /\ Head(queue) = r

(* A run before its commit holds vault_lock.                               *)
GitIsLocked == \A r \in Runs : pc[r] \in Git => vlock = r

(* What is staged is the vault as it is.                                   *)
StagedIsWhole == \A r \in Runs : pc[r] \in {"diff", "commit"} => index = work

(* What is about to be committed has passed the checks.                    *)
CommitIsCleared ==
  \A r \in Runs : pc[r] = "commit" => Staged # {} /\ Staged \cap Denied = {}

(* The ghost of the rate limit agrees with the persisted timer.            *)
SinceIsInvoked == since = Never \/ since = state.invoked

IInv ==
  /\ TypeOK
  /\ OneInside
  /\ GitIsLocked
  /\ StagedIsWhole
  /\ CommitIsCleared
  /\ UnpushedIsRecorded
  /\ SinceIsInvoked

Pcs == Inside \cup {"idle", "wait", "notify", "return"}
StateRows == [last : {"ok", "fail"}, failures : Nat, invoked : Moments]

-----------------------------------------------------------------------------
(* Who joins a queue does not take the place of its head.                  *)
LEMMA AppendKeepsHead ==
  ASSUME NEW S, NEW q \in Seq(S), q # <<>>, NEW x \in S
  PROVE  Append(q, x) # <<>> /\ Head(Append(q, x)) = Head(q)
<1>1. Len(q) \in Nat /\ Len(q) >= 1
  OBVIOUS
<1>2. Len(Append(q, x)) = Len(q) + 1 /\ Append(q, x)[1] = q[1]
  BY <1>1
<1> QED BY <1>1, <1>2

(* Both edges keep the persisted state well formed.                        *)
LEMMA EdgesAreRows ==
  ASSUME NEW s \in StateRows
  PROVE  /\ FailureEdge(s) \in StateRows /\ FailureEdge(s).last = "fail"
         /\ SuccessEdge(s) \in StateRows
         /\ FailureEdge(s).invoked = s.invoked /\ SuccessEdge(s).invoked = s.invoked
         /\ FailureNotice(s) \in Notices /\ SuccessNotice(s) \in Notices
<1>1. FailureEdge(s) \in StateRows /\ FailureEdge(s).last = "fail"
      /\ FailureEdge(s).invoked = s.invoked
  BY DEF StateRows, FailureEdge
<1>2. SuccessEdge(s) \in StateRows /\ SuccessEdge(s).invoked = s.invoked
  BY DEF StateRows, SuccessEdge
<1>3. FailureNotice(s) \in Notices
  BY DEF FailureNotice, Notices
<1>4. SuccessNotice(s) \in Notices
  BY DEF SuccessNotice, Notices
<1> QED BY <1>1, <1>2, <1>3, <1>4

(* What leaving the pipeline does to the variables it touches.             *)
LEMMA EndsEffect ==
  ASSUME TypeOK, NEW r \in Runs, NEW res \in Results, queue # <<>>, Ends(r, res)
  PROVE  /\ result' \in [Runs -> Results]
         /\ pc' \in [Runs -> Pcs] /\ pc' = [pc EXCEPT ![r] = "notify"]
         /\ queue' \in Seq(Runs)
         /\ vlock' \in {Free, Writer} \cup Runs
         /\ vlock' = IF vlock = r THEN Free ELSE vlock
         /\ state' \in StateRows /\ state'.invoked = state.invoked
         /\ notice' \in [Runs -> Notices]
         /\ snapshot' = snapshot /\ since' = since
         /\ attended' = attended /\ enabled' = enabled
         /\ res = "failed" => state'.last = "fail"
         /\ res \notin {"failed", "pushed"} => state' = state
<1>1. /\ result' \in [Runs -> Results]
      /\ pc' \in [Runs -> Pcs] /\ pc' = [pc EXCEPT ![r] = "notify"]
      /\ snapshot' = snapshot /\ since' = since
      /\ attended' = attended /\ enabled' = enabled
  BY DEF TypeOK, Ends, Pcs
<1>2. queue' \in Seq(Runs)
  BY DEF TypeOK, Ends
<1>3. /\ vlock' \in {Free, Writer} \cup Runs
      /\ vlock' = IF vlock = r THEN Free ELSE vlock
  BY DEF TypeOK, Ends
<1>4. state \in StateRows /\ notice \in [Runs -> Notices]
  BY DEF TypeOK, StateRows
<1>5. CASE res = "failed"
  <2>1. state' = FailureEdge(state) /\ notice' = [notice EXCEPT ![r] = FailureNotice(state)]
    BY <1>5 DEF Ends
  <2> QED BY <1>1, <1>2, <1>3, <1>4, <1>5, <2>1, EdgesAreRows
<1>6. CASE res = "pushed"
  <2>1. state' = SuccessEdge(state) /\ notice' = [notice EXCEPT ![r] = SuccessNotice(state)]
    BY <1>6 DEF Ends
  <2> QED BY <1>1, <1>2, <1>3, <1>4, <1>6, <2>1, EdgesAreRows
<1>7. CASE res \notin {"failed", "pushed"}
  <2>1. state' = state /\ notice' = notice
    BY <1>7 DEF Ends
  <2> QED BY <1>1, <1>2, <1>3, <1>4, <1>7, <2>1
<1> QED BY <1>5, <1>6, <1>7

(* Leaving the pipeline keeps the invariant, whatever the command did to   *)
(* git, provided the vault's files and the index of the others' work stay  *)
(* as they were.                                                           *)
LEMMA EndsKeeps ==
  ASSUME IInv, NEW r \in Runs, NEW res \in Results, Ends(r, res),
         queue # <<>>, Head(queue) = r,
         work' = work, index' \subseteq Notes, log' \in Seq(SUBSET Notes),
         Len(log') >= 1, pushed' \in 1..Len(log'), lockSince' \in Moments,
         torn' \in BOOLEAN,
         clock' \in Times, writes' \in 0..MaxWrites,
         faults' \in 0..MaxFaults, crashes' \in 0..MaxCrashes,
         pushed' < Len(log') => state'.last = "fail" \/ torn'
  PROVE  IInv'
<1>1. TypeOK /\ OneInside /\ SinceIsInvoked
  BY DEF IInv
<1>2. /\ result' \in [Runs -> Results]
      /\ pc' \in [Runs -> Pcs] /\ pc' = [pc EXCEPT ![r] = "notify"]
      /\ queue' \in Seq(Runs)
      /\ vlock' \in {Free, Writer} \cup Runs
      /\ state' \in StateRows /\ state'.invoked = state.invoked
      /\ notice' \in [Runs -> Notices]
      /\ snapshot' = snapshot /\ since' = since
      /\ attended' = attended /\ enabled' = enabled
  BY <1>1, EndsEffect
<1>3. TypeOK'
  BY <1>1, <1>2 DEF TypeOK, Pcs, StateRows
<1>4. \A s \in Runs : pc'[s] \notin Inside
  <2> SUFFICES ASSUME NEW s \in Runs PROVE pc'[s] \notin Inside
    OBVIOUS
  <2>1. CASE s = r
    BY <1>1, <1>2, <2>1 DEF TypeOK, Inside, Git
  <2>2. CASE s # r
    <3>1. pc'[s] = pc[s]
      BY <1>1, <1>2, <2>2 DEF TypeOK
    <3> QED BY <1>1, <2>2, <3>1 DEF OneInside
  <2> QED BY <2>1, <2>2
<1>5. OneInside' /\ GitIsLocked' /\ StagedIsWhole' /\ CommitIsCleared'
  BY <1>4 DEF OneInside, GitIsLocked, StagedIsWhole, CommitIsCleared, Inside, Git
<1>6. UnpushedIsRecorded'
  BY DEF UnpushedIsRecorded
<1>7. SinceIsInvoked'
  BY <1>1, <1>2 DEF SinceIsInvoked
<1> QED BY <1>3, <1>5, <1>6, <1>7 DEF IInv

-----------------------------------------------------------------------------
(* The invariant holds at first.                                           *)
LEMMA InitKeeps == Init => IInv
<1> SUFFICES ASSUME Init PROVE IInv
  OBVIOUS
<1> USE DEF Init
<1>1. TypeOK
  <2>1. log \in Seq(SUBSET Notes) /\ Len(log) = 1 /\ queue \in Seq(Runs)
    OBVIOUS
  <2>2. clock \in Times
    BY VaultAssumption DEF Times
  <2>3. state \in [last : {"ok", "fail"}, failures : Nat, invoked : Moments]
    BY DEF Moments
  <2>4. writes \in 0..MaxWrites /\ faults \in 0..MaxFaults /\ crashes \in 0..MaxCrashes
    BY VaultAssumption
  <2>5. /\ pc \in [Runs -> Inside \cup {"idle", "wait", "notify", "return"}]
        /\ result \in [Runs -> Results] /\ notice \in [Runs -> Notices]
    BY DEF Results, Notices
  <2>6. lockSince \in Moments /\ snapshot \in Moments /\ since \in Moments
    BY DEF Moments
  <2>7. pushed \in 1..Len(log)
    BY <2>1
  <2>8. /\ work \subseteq Notes /\ index \subseteq Notes
        /\ vlock \in {Free, Writer} \cup Runs /\ attended \subseteq Manuals
        /\ enabled \in {"yes", "no", "down"} /\ torn \in BOOLEAN
    OBVIOUS
  <2> HIDE DEF Init
  <2> QED BY <2>1, <2>2, <2>3, <2>4, <2>5, <2>6, <2>7, <2>8 DEF TypeOK
<1>2. OneInside /\ GitIsLocked /\ StagedIsWhole /\ CommitIsCleared
  BY DEF OneInside, GitIsLocked, StagedIsWhole, CommitIsCleared, Inside, Git
<1>3. UnpushedIsRecorded
  BY DEF UnpushedIsRecorded
<1>4. SinceIsInvoked
  BY DEF SinceIsInvoked
<1> QED BY <1>1, <1>2, <1>3, <1>4 DEF IInv

(* Requests, callers leaving and the locks.                                *)
LEMMA RequestsKeep ==
  ASSUME IInv, NEW r \in Runs,
         \/ LoopTick
         \/ r \in Manuals /\ (PushNow(r) \/ CallerLeaves(r) \/ Return(r))
         \/ TakeLock(r) \/ Notified(r)
  PROVE  IInv'
<1> USE DEF IInv
<1>1. CASE LoopTick
  <2>1. pc[Tick] = "idle" /\ pc' = [pc EXCEPT ![Tick] = "wait"]
        /\ queue' = Append(queue, Tick) /\ Tick \in Runs
    BY <1>1 DEF LoopTick, Runs
  <2>2. TypeOK'
    <3>1. queue' \in Seq(Runs)
      BY <2>1 DEF TypeOK
    <3>2. pc' \in [Runs -> Inside \cup {"idle", "wait", "notify", "return"}]
      BY <2>1 DEF TypeOK
    <3> QED BY <1>1, <3>1, <3>2 DEF LoopTick, TypeOK, git, owner, bounds
  <2>3. \A s \in Runs : pc'[s] \in Inside => pc[s] = pc'[s]
    BY <2>1 DEF TypeOK, Inside, Git
  <2>4. OneInside'
    BY <2>1, <2>3, AppendKeepsHead DEF OneInside, TypeOK
  <2>5. GitIsLocked' /\ StagedIsWhole' /\ CommitIsCleared'
    BY <1>1, <2>3 DEF LoopTick, git, GitIsLocked, StagedIsWhole, CommitIsCleared,
                      Staged, Differ, Tip, Inside, Git
  <2>6. UnpushedIsRecorded' /\ SinceIsInvoked'
    BY <1>1, <2>1 DEF LoopTick, git, owner, UnpushedIsRecorded, SinceIsInvoked, InFlight, TypeOK
  <2> QED BY <2>2, <2>4, <2>5, <2>6
<1>2. CASE r \in Manuals /\ PushNow(r)
  <2>1. pc[r] = "idle" /\ pc' = [pc EXCEPT ![r] = "wait"]
        /\ queue' = Append(queue, r)
    BY <1>2 DEF PushNow
  <2>2. TypeOK'
    BY <1>2, <2>1 DEF PushNow, TypeOK, git, bounds, Moments
  <2>3. \A s \in Runs : pc'[s] \in Inside => pc[s] = pc'[s]
    BY <2>1 DEF TypeOK, Inside, Git
  <2>4. OneInside'
    BY <2>1, <2>3, AppendKeepsHead DEF OneInside, TypeOK
  <2>5. GitIsLocked' /\ StagedIsWhole' /\ CommitIsCleared'
    BY <1>2, <2>3 DEF PushNow, git, GitIsLocked, StagedIsWhole, CommitIsCleared,
                      Staged, Differ, Tip, Inside, Git
  <2>6. UnpushedIsRecorded' /\ SinceIsInvoked'
    BY <1>2, <2>1 DEF PushNow, git, UnpushedIsRecorded, SinceIsInvoked, InFlight, TypeOK
  <2> QED BY <2>2, <2>4, <2>5, <2>6
<1>3. CASE r \in Manuals /\ CallerLeaves(r)
  <2>1. TypeOK'
    BY <1>3 DEF CallerLeaves, TypeOK, git, owner, bounds
  <2>2. OneInside' /\ GitIsLocked' /\ StagedIsWhole' /\ CommitIsCleared'
    BY <1>3 DEF CallerLeaves, git, OneInside, GitIsLocked, StagedIsWhole, CommitIsCleared,
                Staged, Differ, Tip
  <2>3. UnpushedIsRecorded' /\ SinceIsInvoked'
    BY <1>3 DEF CallerLeaves, git, owner, UnpushedIsRecorded, SinceIsInvoked, InFlight
  <2> QED BY <2>1, <2>2, <2>3
<1>4. CASE r \in Manuals /\ Return(r)
  <2>1. pc[r] = "return" /\ pc' = [pc EXCEPT ![r] = "idle"]
        /\ \/ state' = [state EXCEPT !.invoked = snapshot] /\ since' = Never
           \/ UNCHANGED <<state, since>>
    BY <1>4 DEF Return
  <2>2. state' \in StateRows /\ state'.last = state.last /\ since' \in Moments
        /\ SinceIsInvoked'
    BY <2>1 DEF TypeOK, StateRows, SinceIsInvoked, Moments
  <2>3. TypeOK'
    BY <1>4, <2>1, <2>2 DEF Return, TypeOK, StateRows, git, bounds, Results
  <2>4. \A s \in Runs : pc'[s] \in Inside => pc[s] = pc'[s]
    BY <2>1 DEF TypeOK, Inside, Git
  <2>5. OneInside' /\ GitIsLocked' /\ StagedIsWhole' /\ CommitIsCleared'
    BY <1>4, <2>4 DEF Return, git, OneInside, GitIsLocked, StagedIsWhole, CommitIsCleared,
                      Staged, Differ, Tip, Inside, Git
  <2>6. UnpushedIsRecorded'
    BY <1>4, <2>1, <2>2 DEF Return, git, UnpushedIsRecorded, InFlight, TypeOK
  <2> QED BY <2>2, <2>3, <2>5, <2>6
<1>5. CASE TakeLock(r)
  <2>1. /\ pc[r] = "wait" /\ queue # <<>> /\ Head(queue) = r
        /\ vlock = Free /\ vlock' = r
        /\ pc' = [pc EXCEPT ![r] = "status"]
        /\ UNCHANGED <<git, queue, owner>>
    BY <1>5 DEF TakeLock, MyTurn
  <2>2. TypeOK'
    BY <1>5, <2>1 DEF TakeLock, TypeOK, git, owner, bounds, Inside, Git
  <2>3. \A s \in Runs \ {r} : pc'[s] = pc[s] /\ pc[s] \notin Inside
    BY <2>1 DEF TypeOK, OneInside
  <2>4. pc'[r] = "status"
    BY <2>1 DEF TypeOK
  <2>5. OneInside' /\ GitIsLocked' /\ StagedIsWhole' /\ CommitIsCleared'
    BY <2>1, <2>3, <2>4 DEF OneInside, GitIsLocked, StagedIsWhole, CommitIsCleared, Inside, Git
  <2>6. UnpushedIsRecorded' /\ SinceIsInvoked'
    BY <1>5, <2>1, <2>3, <2>4 DEF TakeLock, git, owner, UnpushedIsRecorded, SinceIsInvoked,
                                  InFlight, TypeOK
  <2> QED BY <2>2, <2>5, <2>6
<1>6. CASE Notified(r)
  <2>1. /\ pc[r] = "notify" /\ pc' = [pc EXCEPT ![r] = pc'[r]]
        /\ pc'[r] \in {"return", "idle"} /\ result'[r] \in Results
        /\ result' = [result EXCEPT ![r] = result'[r]]
    BY <1>6 DEF Notified, TypeOK, Results
  <2>2. TypeOK'
    BY <1>6, <2>1 DEF Notified, TypeOK, git, owner, bounds, Notices
  <2>3. \A s \in Runs : pc'[s] \in Inside => pc[s] = pc'[s]
    BY <2>1 DEF TypeOK, Inside, Git
  <2>4. OneInside' /\ GitIsLocked' /\ StagedIsWhole' /\ CommitIsCleared'
    BY <1>6, <2>3 DEF Notified, git, OneInside, GitIsLocked, StagedIsWhole, CommitIsCleared,
                      Staged, Differ, Tip, Inside, Git
  <2>5. UnpushedIsRecorded' /\ SinceIsInvoked'
    BY <1>6, <2>1 DEF Notified, git, owner, UnpushedIsRecorded, SinceIsInvoked, InFlight, TypeOK
  <2> QED BY <2>2, <2>4, <2>5
<1> QED BY <1>1, <1>2, <1>3, <1>4, <1>5, <1>6

-----------------------------------------------------------------------------
(* What every step of the pipeline may rely on.                            *)
LEMMA InsideRun ==
  ASSUME IInv, NEW r \in Runs, pc[r] \in Inside
  PROVE  /\ queue # <<>> /\ Head(queue) = r
         /\ \A s \in Runs \ {r} : pc[s] \notin Inside
         /\ pc[r] \in Git => vlock = r
BY DEF IInv, OneInside, GitIsLocked, Inside

(* The bounds and the index.lock stay in range under a fault or none.      *)
LEMMA FaultKeepsRange ==
  ASSUME TypeOK, Fault \/ NoFault
  PROVE  /\ clock' \in Times /\ writes' \in 0..MaxWrites
         /\ faults' \in 0..MaxFaults /\ crashes' \in 0..MaxCrashes
<1>1. MaxFaults \in Nat
  BY VaultAssumption
<1> QED BY <1>1 DEF TypeOK, Fault, NoFault, bounds

LEMMA LockKeepsRange ==
  ASSUME TypeOK, LeaveLock \/ UNCHANGED lockSince
  PROVE  lockSince' \in Moments
BY DEF TypeOK, LeaveLock, Moments

(* A run that stays in the pipeline and goes on to its next command.       *)
LEMMA GoesKeeps ==
  ASSUME IInv, NEW r \in Runs, NEW label \in {"add", "diff", "commit"}, Goes(r, label),
         pc[r] \in Git, NoFault,
         UNCHANGED <<work, log, pushed, lockSince, torn>>,
         index' \subseteq Notes,
         label \in {"diff", "commit"} => index' = work,
         label = "commit" => Staged' # {} /\ Staged' \cap Denied = {}
  PROVE  IInv'
<1>1. /\ TypeOK /\ queue # <<>> /\ Head(queue) = r /\ vlock = r
      /\ \A s \in Runs \ {r} : pc[s] \notin Inside
  BY InsideRun DEF IInv, Inside
<1>2. /\ pc' = [pc EXCEPT ![r] = label]
      /\ UNCHANGED <<vlock, queue, result, notice, attended, owner, enabled>>
  BY DEF Goes
<1>3. pc'[r] = label /\ \A s \in Runs \ {r} : pc'[s] = pc[s]
  BY <1>1, <1>2 DEF TypeOK
<1>4. TypeOK'
  <2>1. pc' \in [Runs -> Inside \cup {"idle", "wait", "notify", "return"}]
    BY <1>1, <1>2 DEF TypeOK, Inside, Git
  <2> QED BY <1>1, <1>2, <2>1 DEF TypeOK, NoFault, bounds, owner
<1>5. OneInside' /\ GitIsLocked' /\ StagedIsWhole' /\ CommitIsCleared'
  BY <1>1, <1>2, <1>3 DEF OneInside, GitIsLocked, StagedIsWhole, CommitIsCleared, Inside, Git
<1>6. \A s \in Runs : pc'[s] # "push" /\ pc[s] # "push"
  BY <1>1, <1>3 DEF Inside, Git
<1>7. UnpushedIsRecorded' /\ SinceIsInvoked'
  BY <1>2, <1>6 DEF IInv, owner, UnpushedIsRecorded, SinceIsInvoked, InFlight
<1> QED BY <1>4, <1>5, <1>7 DEF IInv

(* Run r leaves without a commit of its own and without publishing.        *)
LEMMA EndsPlainly ==
  ASSUME IInv, NEW r \in Runs, NEW res \in Results \ {"pushed"}, Ends(r, res),
         queue # <<>>, Head(queue) = r, pc[r] # "push",
         UNCHANGED <<work, log, pushed, torn>>,
         index' \subseteq Notes, lockSince' \in Moments, Fault \/ NoFault
  PROVE  IInv'
<1>1. TypeOK /\ UnpushedIsRecorded
  BY DEF IInv
<1>2. /\ clock' \in Times /\ writes' \in 0..MaxWrites
      /\ faults' \in 0..MaxFaults /\ crashes' \in 0..MaxCrashes
  BY <1>1, FaultKeepsRange
<1>3. ~InFlight("push")
  <2> SUFFICES ASSUME NEW s \in Runs, pc[s] = "push" PROVE FALSE
    BY DEF InFlight
  <2>1. Head(queue) = s
    BY DEF IInv, OneInside, Inside
  <2> QED BY <2>1
<1>4. state'.last = "fail" \/ state' = state
  BY <1>1, EndsEffect
<1>5. pushed' < Len(log') => state'.last = "fail" \/ torn'
  BY <1>1, <1>3, <1>4 DEF UnpushedIsRecorded
<1> QED BY <1>1, <1>2, <1>5, EndsKeeps DEF TypeOK

(* The pipeline: each command of run r, and each way it may fail.          *)
LEMMA StepsKeep ==
  ASSUME IInv, NEW r \in Runs, Step(r)
  PROVE  IInv'
<1>0. TypeOK
  BY DEF IInv
<1>1. CASE TakeLock(r) \/ Notified(r)
  BY <1>1, RequestsKeep
<1>2. CASE LockContention(r)
  <2>1. /\ pc[r] = "wait" /\ queue # <<>> /\ Head(queue) = r
        /\ Ends(r, "contended") /\ UNCHANGED <<git, torn>> /\ NoFault
    BY <1>2 DEF LockContention, MyTurn, NoFault
  <2> QED BY <1>0, <2>1, EndsPlainly DEF Results, TypeOK, git
<1>3. CASE Status(r)
  <2>1. /\ pc[r] = "status" /\ UNCHANGED <<git, torn>> /\ NoFault
        /\ (Goes(r, "add") \/ Ends(r, "noop"))
    BY <1>3 DEF Status
  <2>2. queue # <<>> /\ Head(queue) = r
    BY <2>1, InsideRun DEF Inside, Git
  <2>3. CASE Goes(r, "add")
    BY <1>0, <2>1, <2>3, GoesKeeps DEF Git, TypeOK, git
  <2>4. CASE Ends(r, "noop")
    BY <1>0, <2>1, <2>2, <2>4, EndsPlainly DEF Results, TypeOK, git
  <2> QED BY <2>1, <2>3, <2>4
<1>4. CASE Add(r)
  BY <1>0, <1>4, GoesKeeps DEF Add, Git, TypeOK
<1>5. CASE GitRaises(r)
  <2>1. /\ pc[r] \in {"status", "add", "diff"} /\ Ends(r, "raised")
        /\ UNCHANGED <<work, log, pushed, torn>>
        /\ (Fault \/ NoFault) /\ (LeaveLock \/ UNCHANGED lockSince)
        /\ (index' = index \/ index' = work)
    BY <1>5 DEF GitRaises
  <2>2. queue # <<>> /\ Head(queue) = r
    BY <2>1, InsideRun DEF Inside, Git
  <2>3. lockSince' \in Moments /\ index' \subseteq Notes
    BY <1>0, <2>1, LockKeepsRange DEF TypeOK
  <2> QED BY <2>1, <2>2, <2>3, EndsPlainly DEF Results
<1>6. CASE Diff(r)
  <2>1. /\ pc[r] = "diff" /\ UNCHANGED <<git, torn>> /\ NoFault
        /\ \/ Ends(r, "noop") \/ Ends(r, "failed")
           \/ Staged # {} /\ Staged \cap Denied = {} /\ Goes(r, "commit")
    BY <1>6 DEF Diff
  <2>2. queue # <<>> /\ Head(queue) = r /\ index = work
    BY <2>1, InsideRun DEF Inside, Git, IInv, StagedIsWhole
  <2>3. CASE Goes(r, "commit") /\ Staged # {} /\ Staged \cap Denied = {}
    <3>1. Staged' = Staged
      BY <2>1 DEF Staged, Differ, Tip, git
    <3> QED BY <1>0, <2>1, <2>2, <2>3, <3>1, GoesKeeps DEF Git, TypeOK, git
  <2>4. CASE Ends(r, "noop") \/ Ends(r, "failed")
    BY <1>0, <2>1, <2>2, <2>4, EndsPlainly DEF Results, TypeOK, git
  <2> QED BY <2>1, <2>3, <2>4
<1>7. CASE Commit(r)
  <2>1. /\ pc[r] = "commit" /\ log' = Append(log, index) /\ vlock' = Free
        /\ pc' = [pc EXCEPT ![r] = "push"] /\ UNCHANGED bounds
        /\ UNCHANGED <<work, index, pushed, lockSince, queue, result, notice, attended,
                       owner, enabled, torn>>
    BY <1>7 DEF Commit, NoFault
  <2>2. /\ queue # <<>> /\ Head(queue) = r
        /\ \A s \in Runs \ {r} : pc[s] \notin Inside
    BY <2>1, InsideRun DEF Inside, Git
  <2>3. log' \in Seq(SUBSET Notes) /\ Len(log') = Len(log) + 1
    BY <1>0, <2>1 DEF TypeOK
  <2>4. pc'[r] = "push" /\ \A s \in Runs \ {r} : pc'[s] = pc[s]
    BY <1>0, <2>1 DEF TypeOK
  <2>5. TypeOK'
    <3>1. pc' \in [Runs -> Inside \cup {"idle", "wait", "notify", "return"}]
      BY <1>0, <2>1 DEF TypeOK, Inside
    <3>2. pushed' \in 1..Len(log') /\ Len(log') >= 1
      BY <1>0, <2>1, <2>3 DEF TypeOK
    <3> QED BY <1>0, <2>1, <2>3, <3>1, <3>2 DEF TypeOK, bounds, owner
  <2>6. OneInside' /\ GitIsLocked' /\ StagedIsWhole' /\ CommitIsCleared'
    BY <2>1, <2>2, <2>4 DEF OneInside, GitIsLocked, StagedIsWhole, CommitIsCleared,
                            Inside, Git
  <2>7. UnpushedIsRecorded' /\ SinceIsInvoked'
    BY <2>1, <2>4 DEF IInv, UnpushedIsRecorded, SinceIsInvoked, InFlight, owner
  <2> QED BY <2>5, <2>6, <2>7 DEF IInv
<1>8. CASE CommitFails(r)
  <2>1. /\ pc[r] = "commit" /\ Ends(r, "failed") /\ UNCHANGED <<work, index, pushed, torn>>
        /\ (Fault \/ NoFault) /\ (LeaveLock \/ UNCHANGED lockSince)
        /\ (log' = log \/ log' = Append(log, index))
    BY <1>8 DEF CommitFails
  <2>2. queue # <<>> /\ Head(queue) = r
    BY <2>1, InsideRun DEF Inside, Git
  <2>3. /\ log' \in Seq(SUBSET Notes) /\ Len(log') >= 1 /\ pushed' \in 1..Len(log')
        /\ index' \subseteq Notes /\ torn' \in BOOLEAN
    <3>0. /\ log \in Seq(SUBSET Notes) /\ index \in SUBSET Notes
          /\ (log' = log \/ log' = Append(log, index))
      BY <1>0, <2>1 DEF TypeOK
    <3>1. log' \in Seq(SUBSET Notes) /\ Len(log') >= Len(log)
      <4>1. CASE log' = log
        BY <3>0, <4>1
      <4>2. CASE log' = Append(log, index)
        BY <3>0, <4>2
      <4> QED BY <3>0, <4>1, <4>2
    <3> QED BY <1>0, <2>1, <3>1 DEF TypeOK
  <2>4. lockSince' \in Moments
    BY <1>0, <2>1, LockKeepsRange
  <2>5. /\ clock' \in Times /\ writes' \in 0..MaxWrites
        /\ faults' \in 0..MaxFaults /\ crashes' \in 0..MaxCrashes
    BY <1>0, <2>1, FaultKeepsRange
  <2>6. state'.last = "fail"
    BY <1>0, <2>1, <2>2, EndsEffect DEF Results
  <2> QED BY <2>1, <2>2, <2>3, <2>4, <2>5, <2>6, EndsKeeps DEF Results
<1>9. CASE Push(r)
  <2>1. /\ pc[r] = "push" /\ Ends(r, "pushed") /\ pushed' = Len(log) /\ torn' = FALSE
        /\ UNCHANGED <<work, log, index, lockSince>> /\ NoFault
    BY <1>9 DEF Push
  <2>2. queue # <<>> /\ Head(queue) = r
    BY <2>1, InsideRun DEF Inside, Git
  <2>3. /\ log' \in Seq(SUBSET Notes) /\ Len(log') >= 1 /\ pushed' \in 1..Len(log')
        /\ index' \subseteq Notes /\ lockSince' \in Moments
        /\ ~(pushed' < Len(log'))
    BY <1>0, <2>1 DEF TypeOK
  <2>4. /\ clock' \in Times /\ writes' \in 0..MaxWrites
        /\ faults' \in 0..MaxFaults /\ crashes' \in 0..MaxCrashes
    BY <1>0, <2>1, FaultKeepsRange
  <2> QED BY <2>1, <2>2, <2>3, <2>4, EndsKeeps DEF Results
<1>10. CASE PushFails(r)
  <2>1. /\ pc[r] = "push" /\ Ends(r, "failed") /\ pushed' \in {pushed, Len(log)}
        /\ UNCHANGED <<work, log, index, lockSince, torn>> /\ Fault
    BY <1>10 DEF PushFails
  <2>2. queue # <<>> /\ Head(queue) = r
    BY <2>1, InsideRun DEF Inside, Git
  <2>3. /\ log' \in Seq(SUBSET Notes) /\ Len(log') >= 1 /\ pushed' \in 1..Len(log')
        /\ index' \subseteq Notes /\ lockSince' \in Moments /\ torn' \in BOOLEAN
    BY <1>0, <2>1 DEF TypeOK
  <2>4. /\ clock' \in Times /\ writes' \in 0..MaxWrites
        /\ faults' \in 0..MaxFaults /\ crashes' \in 0..MaxCrashes
    BY <1>0, <2>1, FaultKeepsRange
  <2>5. state'.last = "fail"
    BY <1>0, <2>1, <2>2, EndsEffect DEF Results
  <2> QED BY <2>1, <2>2, <2>3, <2>4, <2>5, EndsKeeps DEF Results
<1> QED BY <1>1, <1>2, <1>3, <1>4, <1>5, <1>6, <1>7, <1>8, <1>9, <1>10 DEF Step

(* The memory tools, the clock, the daemon's death and its boot.           *)
LEMMA OthersKeep ==
  ASSUME IInv, WriterTakes \/ WriterWrites \/ Minute \/ Crash \/ Boot
  PROVE  IInv'
<1>0. TypeOK
  BY DEF IInv
<1>1. CASE WriterTakes
  <2>1. /\ vlock = Free /\ vlock' = Writer /\ writes < MaxWrites /\ writes' = writes + 1
        /\ UNCHANGED <<git, queue, pc, result, notice, attended, owner, enabled,
                       clock, faults, crashes, torn>>
    BY <1>1 DEF WriterTakes
  <2>2. TypeOK'
    <3>1. writes' \in 0..MaxWrites
      BY <1>0, <2>1, VaultAssumption DEF TypeOK
    <3> QED BY <1>0, <2>1, <3>1 DEF TypeOK, git, owner
  <2>3. \A r \in Runs : pc[r] \notin Git
    BY <2>1, VaultAssumption DEF IInv, GitIsLocked
  <2>4. OneInside' /\ GitIsLocked' /\ StagedIsWhole' /\ CommitIsCleared'
    BY <2>1, <2>3 DEF IInv, OneInside, GitIsLocked, StagedIsWhole, CommitIsCleared, Git, git
  <2>5. UnpushedIsRecorded' /\ SinceIsInvoked'
    BY <2>1 DEF IInv, git, owner, UnpushedIsRecorded, SinceIsInvoked, InFlight
  <2> QED BY <2>2, <2>4, <2>5 DEF IInv
<1>2. CASE WriterWrites
  <2>1. /\ vlock = Writer /\ vlock' = Free
        /\ work' \in {work} \cup {Differ(work, {n}) : n \in Notes}
        /\ UNCHANGED <<log, pushed, index, lockSince, queue, pc, result, notice, attended,
                       owner, enabled, bounds, torn>>
    BY <1>2 DEF WriterWrites
  <2>2. TypeOK'
    <3>1. work' \subseteq Notes
      BY <1>0, <2>1 DEF TypeOK, Differ
    <3> QED BY <1>0, <2>1, <3>1 DEF TypeOK, owner, bounds
  <2>3. \A r \in Runs : pc[r] \notin Git
    BY <2>1, VaultAssumption DEF IInv, GitIsLocked
  <2>4. OneInside' /\ GitIsLocked' /\ StagedIsWhole' /\ CommitIsCleared'
    BY <2>1, <2>3 DEF IInv, OneInside, GitIsLocked, StagedIsWhole, CommitIsCleared, Git
  <2>5. UnpushedIsRecorded' /\ SinceIsInvoked'
    BY <2>1 DEF IInv, owner, UnpushedIsRecorded, SinceIsInvoked, InFlight
  <2> QED BY <2>2, <2>4, <2>5 DEF IInv
<1>3. CASE Minute
  <2>1. /\ clock < MaxClock /\ clock' = clock + 1
        /\ UNCHANGED <<git, vlock, queue, pc, result, notice, attended, owner, enabled,
                       writes, faults, crashes, torn>>
    BY <1>3 DEF Minute
  <2>2. TypeOK'
    <3>1. clock' \in Times
      BY <1>0, <2>1, VaultAssumption DEF TypeOK, Times
    <3> QED BY <1>0, <2>1, <3>1 DEF TypeOK, git, owner
  <2>3. OneInside' /\ GitIsLocked' /\ StagedIsWhole' /\ CommitIsCleared'
    BY <2>1 DEF IInv, OneInside, GitIsLocked, StagedIsWhole, CommitIsCleared, git,
                Staged, Differ, Tip
  <2>4. UnpushedIsRecorded' /\ SinceIsInvoked'
    BY <2>1 DEF IInv, git, owner, UnpushedIsRecorded, SinceIsInvoked, InFlight
  <2> QED BY <2>2, <2>3, <2>4 DEF IInv
<1>4. CASE Crash
  <2>1. /\ crashes < MaxCrashes /\ crashes' = crashes + 1 /\ enabled' = "down"
        /\ vlock' = Free /\ queue' = <<>> /\ attended' = {} /\ snapshot' = Never
        /\ pc' = [r \in Runs |-> "idle"] /\ result' = [r \in Runs |-> "none"]
        /\ notice' = [r \in Runs |-> "none"]
        /\ torn' = (torn \/ pushed' < Len(log'))
        /\ UNCHANGED <<work, state, since, clock, writes, faults>>
        /\ (UNCHANGED lockSince \/ LeaveLock)
    BY <1>4 DEF Crash
  <2>2. /\ index' \subseteq Notes /\ log' \in Seq(SUBSET Notes) /\ Len(log') >= 1
        /\ pushed' \in 1..Len(log')
    <3>1. CASE UNCHANGED <<index, log, pushed>>
      BY <1>0, <3>1 DEF TypeOK
    <3>2. CASE index' = work /\ UNCHANGED <<log, pushed>>
      BY <1>0, <3>2 DEF TypeOK
    <3>3. CASE log' = Append(log, index) /\ UNCHANGED <<index, pushed>>
      <4>1. log \in Seq(SUBSET Notes) /\ index \in SUBSET Notes
        BY <1>0 DEF TypeOK
      <4>2. log' \in Seq(SUBSET Notes) /\ Len(log') = Len(log) + 1
        BY <4>1, <3>3
      <4> QED BY <1>0, <3>3, <4>2 DEF TypeOK
    <3>4. CASE pushed' = Len(log) /\ UNCHANGED <<index, log>>
      BY <1>0, <3>4 DEF TypeOK
    <3> QED BY <1>4, <3>1, <3>2, <3>3, <3>4 DEF Crash
  <2>3. TypeOK'
    <3>1. crashes' \in 0..MaxCrashes
      BY <1>0, <2>1, VaultAssumption DEF TypeOK
    <3>2. lockSince' \in Moments
      BY <1>0, <2>1, LockKeepsRange
    <3>3. queue' \in Seq(Runs) /\ snapshot' \in Moments
      BY <2>1 DEF Moments
    <3>4. /\ pc' \in [Runs -> Inside \cup {"idle", "wait", "notify", "return"}]
          /\ result' \in [Runs -> Results] /\ notice' \in [Runs -> Notices]
      BY <2>1 DEF Results, Notices
    <3>5. torn' \in BOOLEAN
      BY <2>1, <1>0 DEF TypeOK
    <3> QED BY <1>0, <2>1, <2>2, <3>1, <3>2, <3>3, <3>4, <3>5 DEF TypeOK
  <2>4. OneInside' /\ GitIsLocked' /\ StagedIsWhole' /\ CommitIsCleared'
    BY <2>1 DEF OneInside, GitIsLocked, StagedIsWhole, CommitIsCleared, Inside, Git
  <2>5. UnpushedIsRecorded' /\ SinceIsInvoked'
    BY <2>1 DEF IInv, UnpushedIsRecorded, SinceIsInvoked
  <2> QED BY <2>3, <2>4, <2>5 DEF IInv
<1>5. CASE Boot
  <2>1. /\ enabled' \in {"yes", "no"} /\ lockSince' \in {Never, lockSince}
        /\ UNCHANGED <<work, log, pushed, index, vlock, queue, pc, result, notice, attended,
                       owner, bounds, torn>>
    BY <1>5 DEF Boot
  <2>2. TypeOK'
    BY <1>0, <2>1 DEF TypeOK, owner, bounds, Moments
  <2>3. OneInside' /\ GitIsLocked' /\ StagedIsWhole' /\ CommitIsCleared'
    BY <2>1 DEF IInv, OneInside, GitIsLocked, StagedIsWhole, CommitIsCleared,
                Staged, Differ, Tip
  <2>4. UnpushedIsRecorded' /\ SinceIsInvoked'
    BY <2>1 DEF IInv, owner, UnpushedIsRecorded, SinceIsInvoked, InFlight
  <2> QED BY <2>2, <2>3, <2>4 DEF IInv
<1> QED BY <1>1, <1>2, <1>3, <1>4, <1>5

-----------------------------------------------------------------------------
(* Every step of the module keeps the invariant.                           *)
LEMMA NextKeeps == IInv /\ [Next]_vars => IInv'
<1> SUFFICES ASSUME IInv, [Next]_vars PROVE IInv'
  OBVIOUS
<1>1. CASE LoopTick
  BY <1>1, RequestsKeep DEF Runs
<1>2. CASE \E m \in Manuals : PushNow(m) \/ CallerLeaves(m) \/ Return(m)
  <2>1. PICK m \in Manuals : PushNow(m) \/ CallerLeaves(m) \/ Return(m)
    BY <1>2
  <2>2. m \in Runs
    BY DEF Runs
  <2> QED BY <2>1, <2>2, RequestsKeep
<1>3. CASE \E r \in Runs : Step(r)
  <2>1. PICK r \in Runs : Step(r)
    BY <1>3
  <2> QED BY <2>1, StepsKeep
<1>4. CASE WriterTakes \/ WriterWrites \/ Minute \/ Crash \/ Boot
  BY <1>4, OthersKeep
<1>5. CASE UNCHANGED vars
  BY <1>5 DEF vars, git, owner, bounds, IInv, TypeOK, OneInside, GitIsLocked, StagedIsWhole,
              CommitIsCleared, UnpushedIsRecorded, SinceIsInvoked, Staged, Differ, Tip, InFlight
<1> QED BY <1>1, <1>2, <1>3, <1>4, <1>5 DEF Next

(* The inductive invariant holds in every behaviour.                       *)
THEOREM Invariant == Spec => []IInv
BY InitKeeps, NextKeeps, PTL DEF Spec

(* The variables of VaultSync stay in their ranges, for every number of    *)
(* callers and notes.                                                      *)
THEOREM TypeCorrect == Spec => []TypeOK
<1>1. IInv => TypeOK
  BY DEF IInv
<1> QED BY <1>1, Invariant, PTL

(* A commit the remote lacks is known to the edge machine, or a death tore *)
(* its run.                                                                *)
THEOREM UnpushedIsKnown == Spec => []UnpushedIsRecorded
<1>1. IInv => UnpushedIsRecorded
  BY DEF IInv
<1> QED BY <1>1, Invariant, PTL

-----------------------------------------------------------------------------
(* Only push_now past its rate limit starts a manual run.                  *)
LEMMA OnlyPushNowStarts ==
  ASSUME IInv, Next, NEW m \in Manuals, pc[m] = "idle", pc'[m] = "wait"
  PROVE  PushNow(m)
<1>0. TypeOK /\ m \in Runs /\ m # Tick
  BY VaultAssumption DEF IInv, Runs
<1>1. CASE LoopTick
  <2>1. pc'[m] = pc[m]
    BY <1>0, <1>1 DEF LoopTick, TypeOK
  <2> QED BY <2>1
<1>2. CASE \E n \in Manuals : PushNow(n) \/ CallerLeaves(n) \/ Return(n)
  <2>1. PICK n \in Manuals : PushNow(n) \/ CallerLeaves(n) \/ Return(n)
    BY <1>2
  <2>2. CASE CallerLeaves(n)
    BY <2>2 DEF CallerLeaves
  <2>3. CASE Return(n)
    BY <1>0, <2>3 DEF Return, TypeOK
  <2>4. CASE PushNow(n)
    <3>1. n = m
      BY <1>0, <2>4 DEF PushNow, TypeOK
    <3> QED BY <2>4, <3>1
  <2> QED BY <2>1, <2>2, <2>3, <2>4
<1>3. CASE \E r \in Runs : Step(r)
  <2>1. PICK r \in Runs : Step(r)
    BY <1>3
  <2>2. PICK label \in {"status", "add", "diff", "commit", "push", "notify", "return", "idle"} :
          pc' = [pc EXCEPT ![r] = label]
    BY <2>1 DEF Step, TakeLock, LockContention, Status, Add, GitRaises, Diff, Commit,
                CommitFails, Push, PushFails, Notified, Ends, Goes
  <2>3. pc'[m] # "wait"
    BY <1>0, <2>2 DEF TypeOK
  <2> QED BY <2>3
<1>4. CASE WriterTakes \/ WriterWrites \/ Minute \/ Boot
  BY <1>4 DEF WriterTakes, WriterWrites, Minute, Boot
<1>5. CASE Crash
  BY <1>0, <1>5 DEF Crash
<1> QED BY <1>1, <1>2, <1>3, <1>4, <1>5 DEF Next

(* vault_push_now gets past the rate limit at most once in an interval,    *)
(* across restarts, unless a failed run gave its window back.              *)
THEOREM PushesAreSpaced == Spec => AcceptedAreSpaced
<1>1. IInv /\ [Next]_vars
        => [\A m \in Manuals : pc[m] = "idle" /\ pc'[m] = "wait"
              => since = Never \/ clock - since >= MinInterval]_vars
  <2> SUFFICES ASSUME IInv, Next, NEW m \in Manuals, pc[m] = "idle", pc'[m] = "wait",
                      since # Never
               PROVE  clock - since >= MinInterval
    OBVIOUS
  <2>1. PushNow(m)
    BY OnlyPushNowStarts
  <2>2. since = state.invoked
    BY DEF IInv, SinceIsInvoked
  <2> QED BY <2>1, <2>2 DEF PushNow
<1> QED BY <1>1, Invariant, PTL DEF Spec, AcceptedAreSpaced

-----------------------------------------------------------------------------
(* VaultSync implements VaultBackup.                                       *)

(* A commit takes a picture of the whole vault.                            *)
LEMMA CommitIsSnapshot ==
  ASSUME IInv, NEW r \in Runs, pc[r] = "commit", log' = Append(log, index),
         UNCHANGED <<work, pushed>>
  PROVE  Backup!Snapshot
<1>1. index = work /\ Staged # {} /\ Staged \cap Denied = {}
  BY DEF IInv, StagedIsWhole, CommitIsCleared
<1>2. Backup!Newest = Tip
  BY DEF Backup!Newest, Tip
<1>3. Backup!Differ(work, Backup!Newest) = Staged
  BY <1>1, <1>2 DEF Backup!Differ, Differ, Staged
<1>4. work # Backup!Newest
  BY <1>1, <1>2 DEF Differ, Staged
<1> QED BY <1>1, <1>3, <1>4 DEF Backup!Snapshot

(* Every step is a step of VaultBackup or leaves its variables alone.      *)
LEMMA StepRefines == IInv /\ [Next]_vars => [Backup!Next]_(Backup!vars)
<1> SUFFICES ASSUME IInv, [Next]_vars PROVE [Backup!Next]_(Backup!vars)
  OBVIOUS
<1> DEFINE Still == UNCHANGED <<work, log, pushed>>
<1>0. Still => [Backup!Next]_(Backup!vars)
  BY DEF Backup!vars
<1>1. CASE LoopTick \/ WriterTakes \/ Minute \/ Boot
  <2>1. Still
    BY <1>1 DEF LoopTick, WriterTakes, Minute, Boot, git
  <2> QED BY <1>0, <2>1
<1>2. CASE \E m \in Manuals : PushNow(m) \/ CallerLeaves(m) \/ Return(m)
  <2>1. Still
    BY <1>2 DEF PushNow, CallerLeaves, Return, git
  <2> QED BY <1>0, <2>1
<1>3. CASE \E r \in Runs : Step(r)
  <2>1. PICK r \in Runs : Step(r)
    BY <1>3
  <2>2. CASE TakeLock(r) \/ LockContention(r) \/ Status(r) \/ Add(r) \/ GitRaises(r)
             \/ Diff(r) \/ Notified(r)
    <3>1. Still
      BY <2>2 DEF TakeLock, LockContention, Status, Add, GitRaises, Diff, Notified, git
    <3> QED BY <1>0, <3>1
  <2>3. CASE Commit(r)
    BY <2>3, CommitIsSnapshot DEF Commit, Backup!Next
  <2>4. CASE CommitFails(r)
    <3>1. pc[r] = "commit" /\ UNCHANGED <<work, pushed>>
          /\ (log' = log \/ log' = Append(log, index))
      BY <2>4 DEF CommitFails
    <3> QED BY <1>0, <3>1, CommitIsSnapshot DEF Backup!Next
  <2>5. CASE Push(r) \/ PushFails(r)
    <3>1. UNCHANGED <<work, log>> /\ (pushed' = pushed \/ pushed' = Len(log))
      BY <2>5 DEF Push, PushFails
    <3> QED BY <1>0, <3>1 DEF Backup!Next, Backup!Publish
  <2> QED BY <2>1, <2>2, <2>3, <2>4, <2>5 DEF Step
<1>4. CASE WriterWrites
  <2>1. work' \in SUBSET Notes /\ UNCHANGED <<log, pushed>>
    BY <1>4 DEF WriterWrites, IInv, TypeOK, Differ
  <2> QED BY <2>1 DEF Backup!Next, Backup!Write
<1>5. CASE Crash
  <2>1. UNCHANGED work
    BY <1>5 DEF Crash
  <2>2. CASE UNCHANGED <<log, pushed>>
    BY <1>0, <2>1, <2>2
  <2>3. CASE InFlight("commit") /\ log' = Append(log, index) /\ UNCHANGED <<index, pushed>>
    <3>1. PICK r \in Runs : pc[r] = "commit"
      BY <2>3 DEF InFlight
    <3> QED BY <2>1, <2>3, <3>1, CommitIsSnapshot DEF Backup!Next
  <2>4. CASE pushed' = Len(log) /\ UNCHANGED <<index, log>>
    BY <2>1, <2>4 DEF Backup!Next, Backup!Publish
  <2> QED BY <1>5, <2>2, <2>3, <2>4 DEF Crash
<1>6. CASE UNCHANGED vars
  <2>1. Still
    BY <1>6 DEF vars, git
  <2> QED BY <1>0, <2>1
<1> QED BY <1>1, <1>2, <1>3, <1>4, <1>5, <1>6 DEF Next

(* The synchronisation keeps whole pictures of the vault, none touching a  *)
(* denied file, and publishes prefixes of them: VaultSync implements       *)
(* VaultBackup for every number of callers, notes, faults and deaths.      *)
THEOREM VaultSyncImplementsBackup == Spec => BackupSpec
<1>1. Init => Backup!Init
  BY DEF Init, Backup!Init
<1> QED BY <1>1, StepRefines, Invariant, PTL DEF Spec, BackupSpec, Backup!Spec
=============================================================================
