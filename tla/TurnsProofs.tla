----------------------------- MODULE TurnsProofs -----------------------------
(***************************************************************************)
(* Theorems about Turns for any messages and kinds of messages.  The       *)
(* inductive invariant says who is in the lock (Locked), which coroutine   *)
(* may stand where (Place), what the status of its turn is there (Status), *)
(* when the row of the owner is written (Rows), where the upload is        *)
(* (Upload), and what a stop still waits for (Owed).  All but the first    *)
(* speak of one message, so that a step of another message keeps them.     *)
(***************************************************************************)
EXTENDS Turns, SequenceTheorems, TLAPS

Idle == {"new", "done", "lost"}
In(q, m) == \E i \in 1..Len(q) : q[i] = m
Distinct(q) == \A i, j \in 1..Len(q) : q[i] = q[j] => i = j

(* The lock has in it whoever waits for it or works under it, once, and    *)
(* who works under it is at its head.                                      *)
InOrder(m) == /\ In(lock, m) <=> pc[m] \in UnderLock \cup {"lock"}
              /\ pc[m] \in UnderLock => Holds(lock, m)
Locked == IF Alive THEN Distinct(lock) /\ \A m \in Messages : InOrder(m) ELSE lock = <<>>

(* One message of the scheduler is under way at a time.                    *)
OneScheduled ==
  \A m, n \in Messages : kind[m] = "scheduled" /\ kind[n] = "scheduled"
                           /\ pc[m] \notin Idle /\ pc[n] \notin Idle => m = n

(* Where a message of each kind can be; nothing runs in a dead process.    *)
Place(m) ==
  /\ pc[m] \in UnderLock => kind[m] # "voice"
  /\ pc[m] \in {"spawned", "shield"} \cup InJob => kind[m] = "voice"
  /\ pc[m] \in {"marker", "excuse", "failed marker"} => kind[m] = "photo"
  /\ persist[m] # "none" => kind[m] = "voice" /\ pc[m] \in {"shield", "done"}
  /\ ~Alive => pc[m] \in Idle /\ persist[m] = "none"
  /\ m \in doomed => life = "stopping"

(* The status of a turn at each place: it is pending until its last steps. *)
Status(m) ==
  /\ pc[m] \in {"new", "lock"} => turns[m] = "absent"
  /\ pc[m] \in {"spawned"} \cup (UnderLock \ {"interrupt"}) \cup (InJob \ {"emit"})
       => turns[m] = "pending"
  /\ pc[m] = "interrupt" =>
       turns[m] = "pending" \/ (turns[m] = "complete" /\ life = "stopping")
  /\ pc[m] = "emit" \/ persist[m] # "none" => turns[m] \in {"pending", "complete"}
  /\ pc[m] = "shield" /\ persist[m] = "none" => turns[m] \in {"complete", "interrupted"}
  /\ persist[m] = "last row" => turns[m] = "complete"

(* When the row of the owner is there: before the stream, but for a photo; *)
(* a photo's with the verdict; a voice message's with its persist task.    *)
Quiet == {"new", "lock", "append", "load", "failed marker", "failed",
          "spawned", "sem", "save", "recall", "apologise", "write off"}
Rows(m) ==
  /\ pc[m] \in Quiet => "assistant" \notin said[m]
  /\ kind[m] # "photo" /\ pc[m] \in {"load"} \cup Asking => "user" \in said[m]
  /\ kind[m] = "photo" /\ pc[m] = "complete" => "user" \in said[m]
  /\ kind[m] = "photo" /\ pc[m] = "interrupt" => "user" \in said[m] \/ m \in cut
  /\ (pc[m] = "shield" /\ persist[m] = "none") \/ persist[m] = "status" => "user" \in said[m]
  /\ pc[m] = "done" /\ "assistant" \in said[m] =>
       "user" \in said[m] \/ persist[m] # "none" \/ m \in cut

(* An upload is kept as soon as its turn is to end without an answer.      *)
Upload(m) ==
  /\ pc[m] \in {"complete", "close"} => m \in result
  /\ pc[m] \in {"failed", "apologise", "write off"} => file[m] = "kept"
  /\ kind[m] \in {"file", "photo", "voice"} =>
       /\ turns[m] = "complete" /\ m \notin result => file[m] = "kept"
       /\ life = "up" /\ pc[m] \in {"done", "lost"} => file[m] # "tmp"

(* What the stop waits for still has its writes to make or has made them.  *)
Owed(m) ==
  m \in doomed =>
    /\ pc[m] \in {"shield", "done"} \/ (pc[m] = "interrupt" /\ kind[m] # "photo")
    /\ pc[m] # "interrupt" /\ persist[m] = "none" => turns[m] # "pending" /\ "user" \in said[m]

Local(m) == Place(m) /\ Status(m) /\ Rows(m) /\ Upload(m) /\ Owed(m)

IInv == /\ TypeOK /\ Locked /\ OneScheduled /\ HistoryIsCurrent
        /\ \A m \in Messages : Local(m)

-----------------------------------------------------------------------------
(* The lock and the semaphores are queues: who joins comes last, who leaves*)
(* from the head or from among the waiting is gone, the others stay.       *)
LEMMA AppendIs ==
  ASSUME NEW q \in Seq(Messages), NEW m \in Messages
  PROVE  /\ Append(q, m) \in Seq(Messages)
         /\ \A n : In(Append(q, m), n) <=> In(q, n) \/ n = m
         /\ \A n : Holds(q, n) => Holds(Append(q, m), n)
         /\ Distinct(q) /\ ~In(q, m) => Distinct(Append(q, m))
<1>1. /\ Append(q, m) \in Seq(Messages) /\ Len(Append(q, m)) = Len(q) + 1
      /\ \A i \in 1..Len(q) : Append(q, m)[i] = q[i]
      /\ Append(q, m)[Len(q) + 1] = m
  BY AppendProperties
<1>2. Len(q) \in Nat
  OBVIOUS
<1>3. \A n : In(Append(q, m), n) <=> In(q, n) \/ n = m
  <2>1. ASSUME NEW n, In(Append(q, m), n) PROVE In(q, n) \/ n = m
    <3>1. PICK i \in 1..Len(Append(q, m)) : Append(q, m)[i] = n
      BY <2>1 DEF In
    <3>2. i \in 1..Len(q) \/ i = Len(q) + 1
      BY <1>1, <1>2
    <3>3. QED
      BY <1>1, <3>1, <3>2 DEF In
  <2>2. ASSUME NEW n, In(q, n) PROVE In(Append(q, m), n)
    <3>1. PICK i \in 1..Len(q) : q[i] = n
      BY <2>2 DEF In
    <3>2. i \in 1..Len(Append(q, m)) /\ Append(q, m)[i] = n
      BY <1>1, <1>2, <3>1
    <3>3. QED
      BY <3>2 DEF In
  <2>3. In(Append(q, m), m)
    <3>1. Len(q) + 1 \in 1..Len(Append(q, m))
      BY <1>1, <1>2
    <3>2. QED
      BY <1>1, <3>1 DEF In
  <2>4. QED
    BY <2>1, <2>2, <2>3
<1>4. \A n : Holds(q, n) => Holds(Append(q, m), n)
  BY <1>1, <1>2 DEF Holds
<1>5. Distinct(q) /\ ~In(q, m) => Distinct(Append(q, m))
  BY <1>1, <1>2 DEF Distinct, In
<1>6. QED
  BY <1>1, <1>3, <1>4, <1>5

LEMMA ReleasedIs ==
  ASSUME NEW q \in Seq(Messages), NEW m \in Messages, Holds(q, m), Distinct(q)
  PROVE  /\ Distinct(Released(q, m))
         /\ \A n : In(Released(q, m), n) <=> In(q, n) /\ n # m
<1>1. q # <<>> /\ q[1] = m /\ Len(q) \in Nat /\ Len(q) > 0
  BY DEF Holds
<1>2. /\ Released(q, m) = Tail(q) /\ Len(Tail(q)) = Len(q) - 1
      /\ \A i \in 1..(Len(q) - 1) : Tail(q)[i] = q[i + 1]
  BY <1>1 DEF Released, Holds
<1>3. Distinct(Tail(q))
  BY <1>1, <1>2 DEF Distinct
<1>4. ASSUME NEW n, In(Tail(q), n) PROVE In(q, n) /\ n # m
  <2>1. PICK i \in 1..(Len(q) - 1) : Tail(q)[i] = n
    BY <1>2, <1>4 DEF In
  <2>2. q[i + 1] = n /\ i + 1 \in 1..Len(q) /\ i + 1 # 1
    BY <1>1, <1>2, <2>1
  <2>3. n # m
    BY <1>1, <2>2 DEF Distinct
  <2>4. QED
    BY <2>2, <2>3 DEF In
<1>5. ASSUME NEW n, In(q, n), n # m PROVE In(Tail(q), n)
  <2>1. PICK i \in 1..Len(q) : q[i] = n
    BY <1>5 DEF In
  <2>2. i # 1
    BY <1>1, <1>5, <2>1
  <2>3. i - 1 \in 1..(Len(q) - 1) /\ Tail(q)[i - 1] = q[(i - 1) + 1] /\ (i - 1) + 1 = i
    BY <1>1, <1>2, <2>1, <2>2
  <2>4. i - 1 \in 1..Len(Tail(q)) /\ Tail(q)[i - 1] = n
    BY <1>2, <2>1, <2>3
  <2>5. QED
    BY <2>4 DEF In
<1>6. QED
  BY <1>2, <1>3, <1>4, <1>5

LEMMA ReleasedType ==
  ASSUME NEW q \in Seq(Messages), NEW m \in Messages PROVE Released(q, m) \in Seq(Messages)
<1>1. q # <<>> => Tail(q) \in Seq(Messages)
  OBVIOUS
<1>2. QED
  BY <1>1 DEF Released, Holds

LEMMA WithoutIs ==
  ASSUME NEW q \in Seq(Messages), NEW m \in Messages, In(q, m), Distinct(q)
  PROVE  /\ Without(q, m) \in Seq(Messages)
         /\ Distinct(Without(q, m))
         /\ \A n : In(Without(q, m), n) <=> In(q, n) /\ n # m
         /\ \A n : Holds(q, n) /\ n # m => Holds(Without(q, m), n)
<1> DEFINE k == CHOOSE i \in DOMAIN q : q[i] = m
           w == Without(q, m)
<1>1. DOMAIN q = 1..Len(q) /\ Len(q) \in Nat
  OBVIOUS
<1>2. k \in 1..Len(q) /\ q[k] = m
  <2>1. \E i \in DOMAIN q : q[i] = m
    BY <1>1 DEF In
  <2>2. QED
    BY <1>1, <2>1
<1>3. w = SubSeq(q, 1, k - 1) \o SubSeq(q, k + 1, Len(q))
  BY DEF Without
<1> HIDE DEF k, w
<1>4. /\ SubSeq(q, 1, k - 1) \in Seq(Messages) /\ Len(SubSeq(q, 1, k - 1)) = k - 1
      /\ \A i \in 1..(k - 1) : SubSeq(q, 1, k - 1)[i] = q[i]
  <2>1. \A i \in 1..(k - 1) : q[i] \in Messages
    BY <1>1, <1>2
  <2>2. 1 \in Int /\ k - 1 \in Int
    BY <1>2
  <2>3. QED
    BY <1>2, <2>1, <2>2, SubSeqProperties
<1>5. /\ SubSeq(q, k + 1, Len(q)) \in Seq(Messages)
      /\ Len(SubSeq(q, k + 1, Len(q))) = Len(q) - k
      /\ \A i \in 1..(Len(q) - k) : SubSeq(q, k + 1, Len(q))[i] = q[k + i]
  <2>1. \A i \in (k + 1)..Len(q) : q[i] \in Messages
    BY <1>1, <1>2
  <2>2. k + 1 \in Int /\ Len(q) \in Int
    BY <1>1, <1>2
  <2>3. /\ SubSeq(q, k + 1, Len(q)) \in Seq(Messages)
        /\ Len(SubSeq(q, k + 1, Len(q))) = IF k + 1 <= Len(q) THEN Len(q) - (k + 1) + 1 ELSE 0
        /\ \A i \in 1..(Len(q) - (k + 1) + 1) :
             SubSeq(q, k + 1, Len(q))[i] = q[(k + 1) + i - 1]
    BY <2>1, <2>2, SubSeqProperties
  <2>4. Len(q) - (k + 1) + 1 = Len(q) - k /\ \A i \in Int : (k + 1) + i - 1 = k + i
    BY <1>1, <1>2
  <2>5. ASSUME NEW i \in 1..(Len(q) - k) PROVE SubSeq(q, k + 1, Len(q))[i] = q[k + i]
    BY <1>1, <1>2, <2>3, <2>4
  <2>6. Len(SubSeq(q, k + 1, Len(q))) = Len(q) - k
    <3>1. CASE k + 1 <= Len(q)
      BY <1>1, <1>2, <2>3, <2>4, <3>1
    <3>2. CASE ~(k + 1 <= Len(q))
      <4>1. Len(q) - k = 0
        <5>1. \A a, b \in Int : a <= b /\ ~(a + 1 <= b) => b - a = 0
          OBVIOUS
        <5>2. k \in Int /\ Len(q) \in Int /\ k <= Len(q)
          BY <1>1, <1>2
        <5>3. QED
          BY <3>2, <5>1, <5>2
      <4>2. Len(SubSeq(q, k + 1, Len(q))) = 0
        BY <2>3, <3>2
      <4>3. QED
        BY <4>1, <4>2
    <3>3. QED
      BY <3>1, <3>2
  <2>7. QED
    BY <2>3, <2>5, <2>6
<1>6. /\ w \in Seq(Messages) /\ Len(w) = Len(q) - 1
      /\ \A i \in 1..(Len(q) - 1) : w[i] = IF i < k THEN q[i] ELSE q[i + 1]
  <2>1. /\ w \in Seq(Messages) /\ Len(w) = (k - 1) + (Len(q) - k)
        /\ \A i \in 1..((k - 1) + (Len(q) - k)) :
             w[i] = IF i <= k - 1 THEN SubSeq(q, 1, k - 1)[i]
                                  ELSE SubSeq(q, k + 1, Len(q))[i - (k - 1)]
    BY <1>3, <1>4, <1>5, ConcatProperties
  <2>2. (k - 1) + (Len(q) - k) = Len(q) - 1
    BY <1>1, <1>2
  <2>3. ASSUME NEW i \in 1..(Len(q) - 1) PROVE w[i] = IF i < k THEN q[i] ELSE q[i + 1]
    <3>1. CASE i < k
      BY <1>1, <1>2, <1>4, <2>1, <2>2, <3>1
    <3>2. CASE ~(i < k)
      <4>1. i - (k - 1) \in 1..(Len(q) - k) /\ k + (i - (k - 1)) = i + 1 /\ ~(i <= k - 1)
        BY <1>1, <1>2, <3>2
      <4>2. QED
        BY <1>5, <2>1, <2>2, <3>2, <4>1
    <3>3. QED
      BY <3>1, <3>2
  <2>4. QED
    BY <2>1, <2>2, <2>3
<1>7. Distinct(w)
  BY <1>1, <1>2, <1>6 DEF Distinct
<1>8. ASSUME NEW n, In(w, n) PROVE In(q, n) /\ n # m
  <2>1. PICK i \in 1..(Len(q) - 1) : w[i] = n
    BY <1>6, <1>8 DEF In
  <2>2. PICK j \in 1..Len(q) : q[j] = n /\ j # k
    BY <1>1, <1>2, <1>6, <2>1
  <2>3. QED
    BY <1>2, <2>2 DEF In, Distinct
<1>9. ASSUME NEW n, In(q, n), n # m PROVE In(w, n)
  <2>1. PICK i \in 1..Len(q) : q[i] = n
    BY <1>9 DEF In
  <2>2. i # k
    BY <1>2, <1>9, <2>1
  <2>3. \E j \in 1..(Len(q) - 1) : w[j] = n
    <3>1. CASE i < k
      BY <1>1, <1>2, <1>6, <2>1, <3>1
    <3>2. CASE i > k
      <4>1. i - 1 \in 1..(Len(q) - 1) /\ ~(i - 1 < k) /\ (i - 1) + 1 = i
        BY <1>1, <1>2, <2>1, <3>2
      <4>2. QED
        BY <1>6, <2>1, <4>1
    <3>3. QED
      BY <1>1, <1>2, <2>1, <2>2, <3>1, <3>2
  <2>4. QED
    BY <1>6, <2>3 DEF In
<1>10. ASSUME NEW n, Holds(q, n), n # m PROVE Holds(w, n)
  <2>1. q[1] = n /\ Len(q) > 0
    BY <1>10 DEF Holds
  <2>2. k # 1
    BY <1>2, <1>10, <2>1
  <2>3. Len(w) > 0 /\ w[1] = n
    BY <1>1, <1>2, <1>6, <2>1, <2>2
  <2>4. QED
    BY <1>6, <2>3 DEF Holds
<1>11. QED
  BY <1>6, <1>7, <1>8, <1>9, <1>10 DEF w

-----------------------------------------------------------------------------
(* The first state.                                                        *)
LEMMA InitIInv == Init => IInv
<1> SUFFICES ASSUME Init PROVE IInv
  OBVIOUS
<1> USE TurnsAssumption DEF Init, Alive
<1>1. TypeOK
  BY DEF TypeOK, Labels, Kinds, Uploads, Files, Photos, Voices, Of
<1>2. Locked /\ OneScheduled
  BY DEF Locked, InOrder, Distinct, In, UnderLock, Asking, OneScheduled, Idle
<1>3. ASSUME NEW m \in Messages PROVE Local(m)
  <2>1. Place(m) /\ Status(m)
    BY DEF Place, Status, UnderLock, Asking, InJob, Idle
  <2>2. Rows(m) /\ Upload(m) /\ Owed(m)
    BY DEF Rows, Upload, Owed, Asking, Quiet
  <2>3. QED
    BY <2>1, <2>2 DEF Local
<1>4. HistoryIsCurrent
  BY DEF HistoryIsCurrent, Asking, Foreground
<1>5. QED
  BY <1>1, <1>2, <1>3, <1>4 DEF IInv

-----------------------------------------------------------------------------
(* The types, without those of the queues.                                 *)
Queues == lock \in Seq(Messages) /\ sem \in Seq(Messages) /\ line \in Seq(Messages)
Data ==
  /\ kind \in [Messages -> Kinds]
  /\ turns \in [Messages -> {"absent", "pending", "complete", "interrupted"}]
  /\ said \in [Messages -> SUBSET {"user", "assistant"}]
  /\ seen \in [Messages -> SUBSET Messages]
  /\ file \in [Messages -> {"tmp", "kept", "gone"}]
  /\ pc \in [Messages -> Labels]
  /\ persist \in [Messages -> {"none", "row", "last row", "status"}]
  /\ result \in SUBSET Messages
  /\ life \in {"up", "stopping", "stopped", "dead"}
  /\ doomed \in SUBSET Messages /\ cut \in SUBSET Messages
  /\ stops \in 0..MaxStops /\ crashes \in 0..MaxCrashes

LEMMA Types == TypeOK <=> Queues /\ Data
  BY DEF TypeOK, Queues, Data

(* A step of one message leaves all that is of another as it was.          *)
Same(n) == /\ turns'[n] = turns[n] /\ said'[n] = said[n] /\ file'[n] = file[n]
           /\ pc'[n] = pc[n] /\ persist'[n] = persist[n]
           /\ (n \in result' <=> n \in result) /\ (n \in cut' <=> n \in cut)
Alone(m) == /\ Alive /\ kind' = kind /\ life' = life /\ doomed' = doomed
            /\ \A n \in Messages : n # m => Same(n)

(* Whatever steps, the others stand still.                                 *)
LEMMA AloneStep ==
  ASSUME Data, NEW m \in Messages, Arrive(m) \/ Answer(m) \/ Job(m)
  PROVE  Alone(m)
<1> USE DEF Data, store, queues, process, At, Goes, Alone, Same, Alive
<1>1. CASE Arrive(m)
  BY <1>1 DEF Arrive
<1>2. CASE StartTurn(m)
  BY <1>2 DEF StartTurn, HandsOver, Spawns
<1>3. CASE AppendUser(m)
  BY <1>3 DEF AppendUser, Writes
<1>4. CASE Load(m)
  BY <1>4 DEF Load, Quarantines
<1>5. CASE FailedMarker(m)
  BY <1>5 DEF FailedMarker, Writes, Quarantines
<1>6. CASE Failed(m)
  BY <1>6 DEF Failed, CompleteTurn, Leaves, Unlinks
<1>7. CASE Block(m)
  BY <1>7 DEF Block, Shows, Writes
<1>8. CASE StreamEnds(m)
  BY <1>8 DEF StreamEnds, Verdict
<1>9. CASE BridgeError(m)
  BY <1>9 DEF BridgeError
<1>10. CASE DeadlineCuts(m)
  BY <1>10 DEF DeadlineCuts
<1>11. CASE Marker(m)
  BY <1>11 DEF Marker, Verdict, Writes
<1>12. CASE Complete(m)
  BY <1>12 DEF Complete, CompleteTurn, Leaves, Unlinks
<1>13. CASE Interrupt(m)
  BY <1>13 DEF Interrupt, InterruptTurn, Leaves, Unlinks
<1>14. CASE JobStarts(m)
  BY <1>14 DEF JobStarts
<1>15. CASE Transcribed(m)
  BY <1>15 DEF Transcribed, Quarantines
<1>16. CASE TranscriptionFails(m)
  BY <1>16 DEF TranscriptionFails, Quarantines
<1>17. CASE Apologise(m)
  BY <1>17 DEF Apologise
<1>18. CASE WriteOff(m)
  BY <1>18 DEF WriteOff, CompleteTurn
<1>19. CASE SaveTranscript(m)
  BY <1>19 DEF SaveTranscript
<1>20. CASE Recall(m)
  BY <1>20 DEF Recall
<1>21. CASE VoiceBlock(m)
  BY <1>21 DEF VoiceBlock, Shows, Writes
<1>22. CASE VoiceStreamEnds(m)
  BY <1>22 DEF VoiceStreamEnds
<1>23. CASE VoiceComplete(m)
  BY <1>23 DEF VoiceComplete, CompleteTurn
<1>24. CASE DeadlineCutsJob(m)
  BY <1>24 DEF DeadlineCutsJob, Persists
<1>25. CASE Emit(m)
  BY <1>25 DEF Emit, Persists
<1>26. CASE PersistRow(m)
  BY <1>26 DEF PersistRow, Writes
<1>27. CASE PersistStatus(m)
  BY <1>27 DEF PersistStatus, InterruptTurn
<1>28. CASE JobEnds(m)
  BY <1>28 DEF JobEnds, Unlinks
<1>29. QED
  BY <1>1, <1>2, <1>3, <1>4, <1>5, <1>6, <1>7, <1>8, <1>9, <1>10, <1>11, <1>12, <1>13, <1>14, <1>15,
     <1>16, <1>17, <1>18, <1>19, <1>20, <1>21, <1>22, <1>23, <1>24, <1>25, <1>26, <1>27, <1>28 DEF Answer, Job

(* Whatever steps, the types are kept.                                     *)
LEMMA DataStep ==
  ASSUME Data, NEW m \in Messages, Arrive(m) \/ Answer(m) \/ Job(m)
  PROVE  Data'
<1> USE DEF Data, store, queues, process, At, Goes, Labels, UnderLock, Asking, InJob, Kinds, Completed
<1>1. CASE Arrive(m)
  BY <1>1 DEF Arrive
<1>2. CASE StartTurn(m)
  <2>1. ASSUME NEW x \in {"spawned", "load", "append"}, Goes(m, x) PROVE pc' \in [Messages -> Labels]
    BY <2>1
  <2>2. ASSUME Goes(m, "spawned") PROVE pc' \in [Messages -> Labels]
    BY <2>1, <2>2
  <2>3. ASSUME Goes(m, "load") PROVE pc' \in [Messages -> Labels]
    BY <2>1, <2>3
  <2>4. ASSUME Goes(m, "append") PROVE pc' \in [Messages -> Labels]
    BY <2>1, <2>4
  <2>5. pc' \in [Messages -> Labels]
    BY <1>2, <2>2, <2>3, <2>4 DEF StartTurn, HandsOver, Spawns
  <2>6. QED
    BY <1>2, <2>5 DEF StartTurn, HandsOver, Spawns
<1>3. CASE AppendUser(m)
  BY <1>3 DEF AppendUser, Writes
<1>4. CASE Load(m)
  <2>1. ASSUME NEW x \in {"ask", "failed", "failed marker"}, Goes(m, x) PROVE pc' \in [Messages -> Labels]
    BY <2>1
  <2>2. ASSUME Goes(m, "ask") PROVE pc' \in [Messages -> Labels]
    BY <2>1, <2>2
  <2>3. ASSUME Goes(m, "failed") PROVE pc' \in [Messages -> Labels]
    BY <2>1, <2>3
  <2>4. ASSUME Goes(m, "failed marker") PROVE pc' \in [Messages -> Labels]
    BY <2>1, <2>4
  <2>5. pc' \in [Messages -> Labels]
    BY <1>4, <2>2, <2>3, <2>4 DEF Load, Quarantines
  <2>6. file' \in [Messages -> {"tmp", "kept", "gone"}]
    BY <1>4 DEF Load, Quarantines
  <2>7. QED
    BY <1>4, <2>5, <2>6 DEF Load, Quarantines
<1>5. CASE FailedMarker(m)
  BY <1>5 DEF FailedMarker, Writes, Quarantines
<1>6. CASE Failed(m)
  BY <1>6 DEF Failed, CompleteTurn, Leaves, Unlinks
<1>7. CASE Block(m)
  <2>1. CASE Shows(m, "block")
    <3>1. Writes(m, "assistant") /\ result' = result
      BY <2>1 DEF Shows
    <3>2. QED
      BY <1>7, <3>1 DEF Block, Writes
  <2>2. CASE Shows(m, "result")
    BY <1>7, <2>2 DEF Block, Shows, Writes
  <2>3. QED
    BY <1>7, <2>1, <2>2 DEF Block
<1>8. CASE StreamEnds(m)
  BY <1>8 DEF StreamEnds, Verdict
<1>9. CASE BridgeError(m)
  BY <1>9 DEF BridgeError
<1>10. CASE DeadlineCuts(m)
  BY <1>10 DEF DeadlineCuts
<1>11. CASE Marker(m)
  BY <1>11 DEF Marker, Verdict, Writes
<1>12. CASE Complete(m)
  BY <1>12 DEF Complete, CompleteTurn, Leaves, Unlinks
<1>13. CASE Interrupt(m)
  BY <1>13 DEF Interrupt, InterruptTurn, Leaves, Unlinks
<1>14. CASE JobStarts(m)
  BY <1>14 DEF JobStarts
<1>15. CASE Transcribed(m)
  <2>1. ASSUME NEW x \in {"save", "recall", "apologise"}, Goes(m, x) PROVE pc' \in [Messages -> Labels]
    BY <2>1
  <2>2. ASSUME Goes(m, "save") PROVE pc' \in [Messages -> Labels]
    BY <2>1, <2>2
  <2>3. ASSUME Goes(m, "recall") PROVE pc' \in [Messages -> Labels]
    BY <2>1, <2>3
  <2>4. ASSUME Goes(m, "apologise") PROVE pc' \in [Messages -> Labels]
    BY <2>1, <2>4
  <2>5. pc' \in [Messages -> Labels]
    BY <1>15, <2>2, <2>3, <2>4 DEF Transcribed, Quarantines
  <2>6. file' \in [Messages -> {"tmp", "kept", "gone"}]
    BY <1>15 DEF Transcribed, Quarantines
  <2>7. QED
    BY <1>15, <2>5, <2>6 DEF Transcribed, Quarantines
<1>16. CASE TranscriptionFails(m)
  BY <1>16 DEF TranscriptionFails, Quarantines
<1>17. CASE Apologise(m)
  BY <1>17 DEF Apologise
<1>18. CASE WriteOff(m)
  BY <1>18 DEF WriteOff, CompleteTurn
<1>19. CASE SaveTranscript(m)
  BY <1>19 DEF SaveTranscript
<1>20. CASE Recall(m)
  BY <1>20 DEF Recall
<1>21. CASE VoiceBlock(m)
  <2>1. CASE Shows(m, "block")
    <3>1. Writes(m, "assistant") /\ result' = result
      BY <2>1 DEF Shows
    <3>2. QED
      BY <1>21, <3>1 DEF VoiceBlock, Writes
  <2>2. CASE Shows(m, "result")
    BY <1>21, <2>2 DEF VoiceBlock, Shows, Writes
  <2>3. QED
    BY <1>21, <2>1, <2>2 DEF VoiceBlock
<1>22. CASE VoiceStreamEnds(m)
  <2>1. ASSUME NEW x \in {"emit", "close"}, Goes(m, x) PROVE pc' \in [Messages -> Labels]
    BY <2>1
  <2>2. ASSUME Goes(m, "emit") PROVE pc' \in [Messages -> Labels]
    BY <2>1, <2>2
  <2>3. ASSUME Goes(m, "close") PROVE pc' \in [Messages -> Labels]
    BY <2>1, <2>3
  <2>4. pc' \in [Messages -> Labels]
    BY <1>22, <2>2, <2>3 DEF VoiceStreamEnds
  <2>5. QED
    BY <1>22, <2>4 DEF VoiceStreamEnds
<1>23. CASE VoiceComplete(m)
  BY <1>23 DEF VoiceComplete, CompleteTurn
<1>24. CASE DeadlineCutsJob(m)
  BY <1>24 DEF DeadlineCutsJob, Persists
<1>25. CASE Emit(m)
  BY <1>25 DEF Emit, Persists
<1>26. CASE PersistRow(m)
  BY <1>26 DEF PersistRow, Writes
<1>27. CASE PersistStatus(m)
  BY <1>27 DEF PersistStatus, InterruptTurn
<1>28. CASE JobEnds(m)
  BY <1>28 DEF JobEnds, Unlinks
<1>29. QED
  BY <1>1, <1>2, <1>3, <1>4, <1>5, <1>6, <1>7, <1>8, <1>9, <1>10, <1>11, <1>12, <1>13, <1>14, <1>15,
     <1>16, <1>17, <1>18, <1>19, <1>20, <1>21, <1>22, <1>23, <1>24, <1>25, <1>26, <1>27, <1>28 DEF Answer, Job

(* Whatever steps, the queues are queues.                                  *)
LEMMA QueueStep ==
  ASSUME Queues, NEW m \in Messages, Arrive(m) \/ Answer(m) \/ Job(m)
  PROVE  Queues'
<1> USE DEF Queues, queues
<1>1. CASE Arrive(m)
  BY <1>1, AppendProperties DEF Arrive
<1>2. CASE StartTurn(m)
  BY <1>2, ReleasedType DEF StartTurn, HandsOver, Spawns
<1>3. CASE AppendUser(m)
  BY <1>3 DEF AppendUser, Writes
<1>4. CASE Load(m)
  BY <1>4 DEF Load, Quarantines
<1>5. CASE FailedMarker(m)
  BY <1>5 DEF FailedMarker, Writes, Quarantines
<1>6. CASE Failed(m)
  BY <1>6, ReleasedType DEF Failed, CompleteTurn, Leaves, Unlinks
<1>7. CASE Block(m)
  BY <1>7 DEF Block, Shows, Writes
<1>8. CASE StreamEnds(m)
  BY <1>8 DEF StreamEnds, Verdict
<1>9. CASE BridgeError(m)
  BY <1>9 DEF BridgeError
<1>10. CASE DeadlineCuts(m)
  BY <1>10 DEF DeadlineCuts
<1>11. CASE Marker(m)
  BY <1>11 DEF Marker, Verdict, Writes
<1>12. CASE Complete(m)
  BY <1>12, ReleasedType DEF Complete, CompleteTurn, Leaves, Unlinks
<1>13. CASE Interrupt(m)
  BY <1>13, ReleasedType DEF Interrupt, InterruptTurn, Leaves, Unlinks
<1>14. CASE JobStarts(m)
  BY <1>14, AppendProperties DEF JobStarts
<1>15. CASE Transcribed(m)
  BY <1>15, ReleasedType DEF Transcribed, Quarantines, Released
<1>16. CASE TranscriptionFails(m)
  BY <1>16 DEF TranscriptionFails, Quarantines
<1>17. CASE Apologise(m)
  BY <1>17 DEF Apologise
<1>18. CASE WriteOff(m)
  BY <1>18, ReleasedType DEF WriteOff, CompleteTurn
<1>19. CASE SaveTranscript(m)
  BY <1>19 DEF SaveTranscript
<1>20. CASE Recall(m)
  BY <1>20, AppendProperties DEF Recall
<1>21. CASE VoiceBlock(m)
  BY <1>21 DEF VoiceBlock, Shows, Writes
<1>22. CASE VoiceStreamEnds(m)
  BY <1>22, ReleasedType DEF VoiceStreamEnds, Released
<1>23. CASE VoiceComplete(m)
  BY <1>23 DEF VoiceComplete, CompleteTurn
<1>24. CASE DeadlineCutsJob(m)
  BY <1>24, ReleasedType DEF DeadlineCutsJob, Persists, Released
<1>25. CASE Emit(m)
  BY <1>25 DEF Emit, Persists
<1>26. CASE PersistRow(m)
  BY <1>26 DEF PersistRow, Writes
<1>27. CASE PersistStatus(m)
  BY <1>27 DEF PersistStatus, InterruptTurn
<1>28. CASE JobEnds(m)
  BY <1>28 DEF JobEnds, Unlinks
<1>29. QED
  BY <1>1, <1>2, <1>3, <1>4, <1>5, <1>6, <1>7, <1>8, <1>9, <1>10, <1>11, <1>12, <1>13, <1>14, <1>15,
     <1>16, <1>17, <1>18, <1>19, <1>20, <1>21, <1>22, <1>23, <1>24, <1>25, <1>26, <1>27, <1>28 DEF Answer, Job

(* It stands where a message of its kind may.                              *)
LEMMA PlaceStep ==
  ASSUME Data, NEW m \in Messages, Local(m), Arrive(m) \/ Answer(m) \/ Job(m)
  PROVE  Place(m)'
<1> USE DEF Data, Local, store, queues, process, At, Goes, Alive, Foreground, Files, Photos, Voices, Scheduled, Of, Place, Idle, UnderLock, Asking, InJob
<1>1. CASE Arrive(m)
  BY <1>1 DEF Arrive
<1>2. CASE StartTurn(m)
  BY <1>2 DEF StartTurn, HandsOver, Spawns
<1>3. CASE AppendUser(m)
  BY <1>3 DEF AppendUser, Writes
<1>4. CASE Load(m)
  BY <1>4 DEF Load, Quarantines
<1>5. CASE FailedMarker(m)
  BY <1>5 DEF FailedMarker, Writes, Quarantines
<1>6. CASE Failed(m)
  BY <1>6 DEF Failed, CompleteTurn, Leaves, Unlinks
<1>7. CASE Block(m)
  <2>1. CASE Shows(m, "block")
    <3>1. Writes(m, "assistant") /\ result' = result
      BY <2>1 DEF Shows
    <3>2. QED
      BY <1>7, <3>1 DEF Block, Writes
  <2>2. CASE Shows(m, "result")
    BY <1>7, <2>2 DEF Block, Shows, Writes
  <2>3. QED
    BY <1>7, <2>1, <2>2 DEF Block
<1>8. CASE StreamEnds(m)
  BY <1>8 DEF StreamEnds, Verdict
<1>9. CASE BridgeError(m)
  BY <1>9 DEF BridgeError
<1>10. CASE DeadlineCuts(m)
  BY <1>10 DEF DeadlineCuts
<1>11. CASE Marker(m)
  BY <1>11 DEF Marker, Verdict, Writes
<1>12. CASE Complete(m)
  BY <1>12 DEF Complete, CompleteTurn, Leaves, Unlinks
<1>13. CASE Interrupt(m)
  BY <1>13 DEF Interrupt, InterruptTurn, Leaves, Unlinks
<1>14. CASE JobStarts(m)
  BY <1>14 DEF JobStarts
<1>15. CASE Transcribed(m)
  BY <1>15 DEF Transcribed, Quarantines
<1>16. CASE TranscriptionFails(m)
  BY <1>16 DEF TranscriptionFails, Quarantines
<1>17. CASE Apologise(m)
  BY <1>17 DEF Apologise
<1>18. CASE WriteOff(m)
  BY <1>18 DEF WriteOff, CompleteTurn
<1>19. CASE SaveTranscript(m)
  BY <1>19 DEF SaveTranscript
<1>20. CASE Recall(m)
  BY <1>20 DEF Recall
<1>21. CASE VoiceBlock(m)
  <2>1. CASE Shows(m, "block")
    <3>1. Writes(m, "assistant") /\ result' = result
      BY <2>1 DEF Shows
    <3>2. QED
      BY <1>21, <3>1 DEF VoiceBlock, Writes
  <2>2. CASE Shows(m, "result")
    BY <1>21, <2>2 DEF VoiceBlock, Shows, Writes
  <2>3. QED
    BY <1>21, <2>1, <2>2 DEF VoiceBlock
<1>22. CASE VoiceStreamEnds(m)
  BY <1>22 DEF VoiceStreamEnds
<1>23. CASE VoiceComplete(m)
  BY <1>23 DEF VoiceComplete, CompleteTurn
<1>24. CASE DeadlineCutsJob(m)
  BY <1>24 DEF DeadlineCutsJob, Persists
<1>25. CASE Emit(m)
  BY <1>25 DEF Emit, Persists
<1>26. CASE PersistRow(m)
  BY <1>26 DEF PersistRow, Writes
<1>27. CASE PersistStatus(m)
  BY <1>27 DEF PersistStatus, InterruptTurn
<1>28. CASE JobEnds(m)
  BY <1>28 DEF JobEnds, Unlinks
<1>29. QED
  BY <1>1, <1>2, <1>3, <1>4, <1>5, <1>6, <1>7, <1>8, <1>9, <1>10, <1>11, <1>12, <1>13, <1>14, <1>15,
     <1>16, <1>17, <1>18, <1>19, <1>20, <1>21, <1>22, <1>23, <1>24, <1>25, <1>26, <1>27, <1>28 DEF Answer, Job

(* It finds and leaves the status it expects.                              *)
LEMMA StatusStep ==
  ASSUME Data, NEW m \in Messages, Local(m), Arrive(m) \/ Answer(m) \/ Job(m)
  PROVE  Status(m)'
<1> USE DEF Data, Local, store, queues, process, At, Goes, Alive, Foreground, Files, Photos, Voices, Scheduled, Of, Place, Status, UnderLock, Asking, InJob, Idle
<1>1. CASE Arrive(m)
  BY <1>1 DEF Arrive
<1>2. CASE StartTurn(m)
  BY <1>2 DEF StartTurn, HandsOver, Spawns
<1>3. CASE AppendUser(m)
  BY <1>3 DEF AppendUser, Writes
<1>4. CASE Load(m)
  BY <1>4 DEF Load, Quarantines
<1>5. CASE FailedMarker(m)
  BY <1>5 DEF FailedMarker, Writes, Quarantines
<1>6. CASE Failed(m)
  BY <1>6 DEF Failed, CompleteTurn, Leaves, Unlinks
<1>7. CASE Block(m)
  <2>1. CASE Shows(m, "block")
    <3>1. Writes(m, "assistant") /\ result' = result
      BY <2>1 DEF Shows
    <3>2. QED
      BY <1>7, <3>1 DEF Block, Writes
  <2>2. CASE Shows(m, "result")
    BY <1>7, <2>2 DEF Block, Shows, Writes
  <2>3. QED
    BY <1>7, <2>1, <2>2 DEF Block
<1>8. CASE StreamEnds(m)
  BY <1>8 DEF StreamEnds, Verdict
<1>9. CASE BridgeError(m)
  BY <1>9 DEF BridgeError
<1>10. CASE DeadlineCuts(m)
  BY <1>10 DEF DeadlineCuts
<1>11. CASE Marker(m)
  BY <1>11 DEF Marker, Verdict, Writes
<1>12. CASE Complete(m)
  BY <1>12 DEF Complete, CompleteTurn, Leaves, Unlinks
<1>13. CASE Interrupt(m)
  BY <1>13 DEF Interrupt, InterruptTurn, Leaves, Unlinks
<1>14. CASE JobStarts(m)
  BY <1>14 DEF JobStarts
<1>15. CASE Transcribed(m)
  BY <1>15 DEF Transcribed, Quarantines
<1>16. CASE TranscriptionFails(m)
  BY <1>16 DEF TranscriptionFails, Quarantines
<1>17. CASE Apologise(m)
  BY <1>17 DEF Apologise
<1>18. CASE WriteOff(m)
  BY <1>18 DEF WriteOff, CompleteTurn
<1>19. CASE SaveTranscript(m)
  BY <1>19 DEF SaveTranscript
<1>20. CASE Recall(m)
  BY <1>20 DEF Recall
<1>21. CASE VoiceBlock(m)
  <2>1. CASE Shows(m, "block")
    <3>1. Writes(m, "assistant") /\ result' = result
      BY <2>1 DEF Shows
    <3>2. QED
      BY <1>21, <3>1 DEF VoiceBlock, Writes
  <2>2. CASE Shows(m, "result")
    BY <1>21, <2>2 DEF VoiceBlock, Shows, Writes
  <2>3. QED
    BY <1>21, <2>1, <2>2 DEF VoiceBlock
<1>22. CASE VoiceStreamEnds(m)
  BY <1>22 DEF VoiceStreamEnds
<1>23. CASE VoiceComplete(m)
  BY <1>23 DEF VoiceComplete, CompleteTurn
<1>24. CASE DeadlineCutsJob(m)
  BY <1>24 DEF DeadlineCutsJob, Persists
<1>25. CASE Emit(m)
  BY <1>25 DEF Emit, Persists
<1>26. CASE PersistRow(m)
  BY <1>26 DEF PersistRow, Writes
<1>27. CASE PersistStatus(m)
  BY <1>27 DEF PersistStatus, InterruptTurn
<1>28. CASE JobEnds(m)
  BY <1>28 DEF JobEnds, Unlinks
<1>29. QED
  BY <1>1, <1>2, <1>3, <1>4, <1>5, <1>6, <1>7, <1>8, <1>9, <1>10, <1>11, <1>12, <1>13, <1>14, <1>15,
     <1>16, <1>17, <1>18, <1>19, <1>20, <1>21, <1>22, <1>23, <1>24, <1>25, <1>26, <1>27, <1>28 DEF Answer, Job

(* It writes the row of the owner in time.                                 *)
LEMMA RowsStep ==
  ASSUME Data, NEW m \in Messages, Local(m), Arrive(m) \/ Answer(m) \/ Job(m)
  PROVE  Rows(m)'
<1> USE DEF Data, Local, store, queues, process, At, Goes, Alive, Foreground, Files, Photos, Voices, Scheduled, Of, Place, Rows, Quiet, UnderLock, Asking, InJob, Idle
<1>1. CASE Arrive(m)
  BY <1>1 DEF Arrive
<1>2. CASE StartTurn(m)
  BY <1>2 DEF StartTurn, HandsOver, Spawns
<1>3. CASE AppendUser(m)
  BY <1>3 DEF AppendUser, Writes
<1>4. CASE Load(m)
  BY <1>4 DEF Load, Quarantines
<1>5. CASE FailedMarker(m)
  BY <1>5 DEF FailedMarker, Writes, Quarantines
<1>6. CASE Failed(m)
  BY <1>6 DEF Failed, CompleteTurn, Leaves, Unlinks
<1>7. CASE Block(m)
  <2>1. CASE Shows(m, "block")
    <3>1. Writes(m, "assistant") /\ result' = result
      BY <2>1 DEF Shows
    <3>2. QED
      BY <1>7, <3>1 DEF Block, Writes
  <2>2. CASE Shows(m, "result")
    BY <1>7, <2>2 DEF Block, Shows, Writes
  <2>3. QED
    BY <1>7, <2>1, <2>2 DEF Block
<1>8. CASE StreamEnds(m)
  BY <1>8 DEF StreamEnds, Verdict
<1>9. CASE BridgeError(m)
  BY <1>9 DEF BridgeError
<1>10. CASE DeadlineCuts(m)
  BY <1>10 DEF DeadlineCuts
<1>11. CASE Marker(m)
  BY <1>11 DEF Marker, Verdict, Writes
<1>12. CASE Complete(m)
  BY <1>12 DEF Complete, CompleteTurn, Leaves, Unlinks
<1>13. CASE Interrupt(m)
  BY <1>13 DEF Interrupt, InterruptTurn, Leaves, Unlinks
<1>14. CASE JobStarts(m)
  BY <1>14 DEF JobStarts
<1>15. CASE Transcribed(m)
  BY <1>15 DEF Transcribed, Quarantines
<1>16. CASE TranscriptionFails(m)
  BY <1>16 DEF TranscriptionFails, Quarantines
<1>17. CASE Apologise(m)
  BY <1>17 DEF Apologise
<1>18. CASE WriteOff(m)
  BY <1>18 DEF WriteOff, CompleteTurn
<1>19. CASE SaveTranscript(m)
  BY <1>19 DEF SaveTranscript
<1>20. CASE Recall(m)
  BY <1>20 DEF Recall
<1>21. CASE VoiceBlock(m)
  <2>1. CASE Shows(m, "block")
    <3>1. Writes(m, "assistant") /\ result' = result
      BY <2>1 DEF Shows
    <3>2. QED
      BY <1>21, <3>1 DEF VoiceBlock, Writes
  <2>2. CASE Shows(m, "result")
    BY <1>21, <2>2 DEF VoiceBlock, Shows, Writes
  <2>3. QED
    BY <1>21, <2>1, <2>2 DEF VoiceBlock
<1>22. CASE VoiceStreamEnds(m)
  BY <1>22 DEF VoiceStreamEnds
<1>23. CASE VoiceComplete(m)
  BY <1>23 DEF VoiceComplete, CompleteTurn
<1>24. CASE DeadlineCutsJob(m)
  BY <1>24 DEF DeadlineCutsJob, Persists
<1>25. CASE Emit(m)
  BY <1>25 DEF Emit, Persists
<1>26. CASE PersistRow(m)
  BY <1>26 DEF PersistRow, Writes
<1>27. CASE PersistStatus(m)
  BY <1>27 DEF PersistStatus, InterruptTurn
<1>28. CASE JobEnds(m)
  BY <1>28 DEF JobEnds, Unlinks
<1>29. QED
  BY <1>1, <1>2, <1>3, <1>4, <1>5, <1>6, <1>7, <1>8, <1>9, <1>10, <1>11, <1>12, <1>13, <1>14, <1>15,
     <1>16, <1>17, <1>18, <1>19, <1>20, <1>21, <1>22, <1>23, <1>24, <1>25, <1>26, <1>27, <1>28 DEF Answer, Job

(* It keeps or removes its upload.                                         *)
LEMMA UploadStep ==
  ASSUME Data, NEW m \in Messages, Local(m), Arrive(m) \/ Answer(m) \/ Job(m)
  PROVE  Upload(m)'
<1> USE DEF Data, Local, store, queues, process, At, Goes, Alive, Foreground, Files, Photos, Voices, Scheduled, Of, Place, Upload, InJob, Idle
<1>1. CASE Arrive(m)
  BY <1>1 DEF Arrive
<1>2. CASE StartTurn(m)
  BY <1>2 DEF StartTurn, HandsOver, Spawns
<1>3. CASE AppendUser(m)
  BY <1>3 DEF AppendUser, Writes
<1>4. CASE Load(m)
  BY <1>4 DEF Load, Quarantines
<1>5. CASE FailedMarker(m)
  BY <1>5 DEF FailedMarker, Writes, Quarantines
<1>6. CASE Failed(m)
  BY <1>6 DEF Failed, CompleteTurn, Leaves, Unlinks
<1>7. CASE Block(m)
  <2>1. CASE Shows(m, "block")
    <3>1. Writes(m, "assistant") /\ result' = result
      BY <2>1 DEF Shows
    <3>2. QED
      BY <1>7, <3>1 DEF Block, Writes
  <2>2. CASE Shows(m, "result")
    BY <1>7, <2>2 DEF Block, Shows, Writes
  <2>3. QED
    BY <1>7, <2>1, <2>2 DEF Block
<1>8. CASE StreamEnds(m)
  BY <1>8 DEF StreamEnds, Verdict
<1>9. CASE BridgeError(m)
  BY <1>9 DEF BridgeError
<1>10. CASE DeadlineCuts(m)
  BY <1>10 DEF DeadlineCuts
<1>11. CASE Marker(m)
  BY <1>11 DEF Marker, Verdict, Writes
<1>12. CASE Complete(m)
  BY <1>12 DEF Complete, CompleteTurn, Leaves, Unlinks
<1>13. CASE Interrupt(m)
  BY <1>13 DEF Interrupt, InterruptTurn, Leaves, Unlinks
<1>14. CASE JobStarts(m)
  BY <1>14 DEF JobStarts
<1>15. CASE Transcribed(m)
  BY <1>15 DEF Transcribed, Quarantines
<1>16. CASE TranscriptionFails(m)
  BY <1>16 DEF TranscriptionFails, Quarantines
<1>17. CASE Apologise(m)
  BY <1>17 DEF Apologise
<1>18. CASE WriteOff(m)
  BY <1>18 DEF WriteOff, CompleteTurn
<1>19. CASE SaveTranscript(m)
  BY <1>19 DEF SaveTranscript
<1>20. CASE Recall(m)
  BY <1>20 DEF Recall
<1>21. CASE VoiceBlock(m)
  <2>1. CASE Shows(m, "block")
    <3>1. Writes(m, "assistant") /\ result' = result
      BY <2>1 DEF Shows
    <3>2. QED
      BY <1>21, <3>1 DEF VoiceBlock, Writes
  <2>2. CASE Shows(m, "result")
    BY <1>21, <2>2 DEF VoiceBlock, Shows, Writes
  <2>3. QED
    BY <1>21, <2>1, <2>2 DEF VoiceBlock
<1>22. CASE VoiceStreamEnds(m)
  BY <1>22 DEF VoiceStreamEnds
<1>23. CASE VoiceComplete(m)
  BY <1>23 DEF VoiceComplete, CompleteTurn
<1>24. CASE DeadlineCutsJob(m)
  BY <1>24 DEF DeadlineCutsJob, Persists
<1>25. CASE Emit(m)
  BY <1>25 DEF Emit, Persists
<1>26. CASE PersistRow(m)
  BY <1>26 DEF PersistRow, Writes
<1>27. CASE PersistStatus(m)
  BY <1>27 DEF PersistStatus, InterruptTurn
<1>28. CASE JobEnds(m)
  BY <1>28 DEF JobEnds, Unlinks
<1>29. QED
  BY <1>1, <1>2, <1>3, <1>4, <1>5, <1>6, <1>7, <1>8, <1>9, <1>10, <1>11, <1>12, <1>13, <1>14, <1>15,
     <1>16, <1>17, <1>18, <1>19, <1>20, <1>21, <1>22, <1>23, <1>24, <1>25, <1>26, <1>27, <1>28 DEF Answer, Job

(* It makes the writes a stop waits for.                                   *)
LEMMA OwedStep ==
  ASSUME Data, NEW m \in Messages, Local(m), Arrive(m) \/ Answer(m) \/ Job(m)
  PROVE  Owed(m)'
<1> USE DEF Data, Local, store, queues, process, At, Goes, Alive, Foreground, Files, Photos, Voices, Scheduled, Of, Place, Status, Rows, Owed, InJob, UnderLock, Asking, Idle
<1>1. CASE Arrive(m)
  BY <1>1 DEF Arrive
<1>2. CASE StartTurn(m)
  BY <1>2 DEF StartTurn, HandsOver, Spawns
<1>3. CASE AppendUser(m)
  BY <1>3 DEF AppendUser, Writes
<1>4. CASE Load(m)
  BY <1>4 DEF Load, Quarantines
<1>5. CASE FailedMarker(m)
  BY <1>5 DEF FailedMarker, Writes, Quarantines
<1>6. CASE Failed(m)
  BY <1>6 DEF Failed, CompleteTurn, Leaves, Unlinks
<1>7. CASE Block(m)
  <2>1. CASE Shows(m, "block")
    <3>1. Writes(m, "assistant") /\ result' = result
      BY <2>1 DEF Shows
    <3>2. QED
      BY <1>7, <3>1 DEF Block, Writes
  <2>2. CASE Shows(m, "result")
    BY <1>7, <2>2 DEF Block, Shows, Writes
  <2>3. QED
    BY <1>7, <2>1, <2>2 DEF Block
<1>8. CASE StreamEnds(m)
  BY <1>8 DEF StreamEnds, Verdict
<1>9. CASE BridgeError(m)
  BY <1>9 DEF BridgeError
<1>10. CASE DeadlineCuts(m)
  BY <1>10 DEF DeadlineCuts
<1>11. CASE Marker(m)
  BY <1>11 DEF Marker, Verdict, Writes
<1>12. CASE Complete(m)
  BY <1>12 DEF Complete, CompleteTurn, Leaves, Unlinks
<1>13. CASE Interrupt(m)
  BY <1>13 DEF Interrupt, InterruptTurn, Leaves, Unlinks
<1>14. CASE JobStarts(m)
  BY <1>14 DEF JobStarts
<1>15. CASE Transcribed(m)
  BY <1>15 DEF Transcribed, Quarantines
<1>16. CASE TranscriptionFails(m)
  BY <1>16 DEF TranscriptionFails, Quarantines
<1>17. CASE Apologise(m)
  BY <1>17 DEF Apologise
<1>18. CASE WriteOff(m)
  BY <1>18 DEF WriteOff, CompleteTurn
<1>19. CASE SaveTranscript(m)
  BY <1>19 DEF SaveTranscript
<1>20. CASE Recall(m)
  BY <1>20 DEF Recall
<1>21. CASE VoiceBlock(m)
  <2>1. CASE Shows(m, "block")
    <3>1. Writes(m, "assistant") /\ result' = result
      BY <2>1 DEF Shows
    <3>2. QED
      BY <1>21, <3>1 DEF VoiceBlock, Writes
  <2>2. CASE Shows(m, "result")
    BY <1>21, <2>2 DEF VoiceBlock, Shows, Writes
  <2>3. QED
    BY <1>21, <2>1, <2>2 DEF VoiceBlock
<1>22. CASE VoiceStreamEnds(m)
  BY <1>22 DEF VoiceStreamEnds
<1>23. CASE VoiceComplete(m)
  BY <1>23 DEF VoiceComplete, CompleteTurn
<1>24. CASE DeadlineCutsJob(m)
  BY <1>24 DEF DeadlineCutsJob, Persists
<1>25. CASE Emit(m)
  BY <1>25 DEF Emit, Persists
<1>26. CASE PersistRow(m)
  BY <1>26 DEF PersistRow, Writes
<1>27. CASE PersistStatus(m)
  BY <1>27 DEF PersistStatus, InterruptTurn
<1>28. CASE JobEnds(m)
  BY <1>28 DEF JobEnds, Unlinks
<1>29. QED
  BY <1>1, <1>2, <1>3, <1>4, <1>5, <1>6, <1>7, <1>8, <1>9, <1>10, <1>11, <1>12, <1>13, <1>14, <1>15,
     <1>16, <1>17, <1>18, <1>19, <1>20, <1>21, <1>22, <1>23, <1>24, <1>25, <1>26, <1>27, <1>28 DEF Answer, Job

-----------------------------------------------------------------------------
(* The lock through the steps of one message: it moves within the lock,    *)
(* leaves it, or joins it.                                                 *)
LEMMA LockKept ==
  ASSUME Locked, NEW m \in Messages, Alone(m), lock' = lock,
         pc'[m] \in UnderLock \cup {"lock"} <=> pc[m] \in UnderLock \cup {"lock"},
         pc'[m] \in UnderLock => pc[m] \in UnderLock \/ Holds(lock, m)
  PROVE  Locked'
<1>1. Alive' /\ Distinct(lock')
  BY DEF Alone, Alive, Locked
<1>2. ASSUME NEW n \in Messages PROVE InOrder(n)'
  <2>1. InOrder(n)
    BY DEF Locked, Alone
  <2>2. CASE n = m
    BY <2>1, <2>2 DEF InOrder
  <2>3. CASE n # m
    BY <2>1, <2>3 DEF InOrder, Alone, Same
  <2>4. QED
    BY <2>2, <2>3
<1>3. QED
  BY <1>1, <1>2 DEF Locked

LEMMA LockLeft ==
  ASSUME Locked, Queues, NEW m \in Messages, Alone(m), Holds(lock, m),
         lock' = Released(lock, m), pc'[m] \notin UnderLock \cup {"lock"}
  PROVE  Locked'
<1>1. Alive /\ Alive' /\ Distinct(lock) /\ \A n \in Messages : InOrder(n)
  BY DEF Alone, Alive, Locked
<1>2. Distinct(lock') /\ \A n : In(lock', n) <=> In(lock, n) /\ n # m
  BY <1>1, ReleasedIs DEF Queues
<1>3. ASSUME NEW n \in Messages PROVE InOrder(n)'
  <2>1. CASE n = m
    BY <1>2, <2>1 DEF InOrder
  <2>2. CASE n # m
    <3>1. pc'[n] = pc[n]
      BY <2>2 DEF Alone, Same
    <3>2. ~Holds(lock, n)
      BY <2>2 DEF Holds
    <3>3. QED
      BY <1>1, <1>2, <2>2, <3>1, <3>2 DEF InOrder
  <2>3. QED
    BY <2>1, <2>2
<1>4. QED
  BY <1>1, <1>2, <1>3 DEF Locked

LEMMA LockJoined ==
  ASSUME Locked, Queues, NEW m \in Messages, Alone(m), pc[m] = "new",
         lock' = Append(lock, m), pc'[m] = "lock"
  PROVE  Locked'
<1>1. Alive /\ Alive' /\ Distinct(lock) /\ \A n \in Messages : InOrder(n)
  BY DEF Alone, Alive, Locked
<1>2. ~In(lock, m)
  BY <1>1 DEF InOrder, UnderLock, Asking
<1>3. /\ Distinct(lock') /\ \A n : In(lock', n) <=> In(lock, n) \/ n = m
      /\ \A n : Holds(lock, n) => Holds(lock', n)
  BY <1>1, <1>2, AppendIs DEF Queues
<1>4. ASSUME NEW n \in Messages PROVE InOrder(n)'
  <2>1. CASE n = m
    BY <1>3, <2>1 DEF InOrder, UnderLock, Asking
  <2>2. CASE n # m
    <3>1. pc'[n] = pc[n]
      BY <2>2 DEF Alone, Same
    <3>2. QED
      BY <1>1, <1>3, <2>2, <3>1 DEF InOrder
  <2>3. QED
    BY <2>1, <2>2
<1>5. QED
  BY <1>1, <1>3, <1>4 DEF Locked

(* Whatever steps, the lock is in order.                                   *)
LEMMA LockStep ==
  ASSUME Data, Queues, Locked, NEW m \in Messages, Place(m), Alone(m),
         Arrive(m) \/ Answer(m) \/ Job(m)
  PROVE  Locked'
<1> USE DEF store, queues, process, At, Goes, Alive, Data, Place, UnderLock, Asking, InJob, Foreground, Files, Photos, Voices, Scheduled, Of, Idle
<1>1. CASE Arrive(m)
  BY <1>1, LockJoined DEF Arrive
<1>2. CASE StartTurn(m)
  <2>1. CASE m \in Voices /\ HandsOver(m)
    <3>1. lock' = Released(lock, m) /\ Holds(lock, m) /\ pc'[m] = "spawned"
      BY <1>2, <2>1 DEF StartTurn, HandsOver, Spawns
    <3>2. QED
      BY <3>1, LockLeft
  <2>2. CASE m \in Photos /\ Goes(m, "load") /\ UNCHANGED lock
    <3>1. lock' = lock /\ Holds(lock, m) /\ pc[m] = "lock" /\ pc'[m] = "load"
      BY <1>2, <2>2 DEF StartTurn
    <3>2. QED
      BY <3>1, LockKept
  <2>3. CASE m \notin Voices \cup Photos /\ Goes(m, "append") /\ UNCHANGED lock
    <3>1. lock' = lock /\ Holds(lock, m) /\ pc[m] = "lock" /\ pc'[m] = "append"
      BY <1>2, <2>3 DEF StartTurn
    <3>2. QED
      BY <3>1, LockKept
  <2>4. QED
    BY <1>2, <2>1, <2>2, <2>3 DEF StartTurn
<1>3. CASE AppendUser(m)
  BY <1>3, LockKept DEF AppendUser, Writes
<1>4. CASE Load(m)
  BY <1>4, LockKept DEF Load, Quarantines
<1>5. CASE FailedMarker(m)
  BY <1>5, LockKept DEF FailedMarker, Writes, Quarantines
<1>6. CASE Failed(m)
  <2>1. InOrder(m)
    BY DEF Locked, Alone
  <2>2. lock' = Released(lock, m) /\ Holds(lock, m) /\ pc'[m] = "done"
    BY <1>6, <2>1 DEF Failed, Leaves, InOrder
  <2>3. QED
    BY <2>2, LockLeft
<1>7. CASE Block(m)
  BY <1>7, LockKept DEF Block, Shows, Writes
<1>8. CASE StreamEnds(m)
  BY <1>8, LockKept DEF StreamEnds, Verdict
<1>9. CASE BridgeError(m)
  BY <1>9, LockKept DEF BridgeError
<1>10. CASE DeadlineCuts(m)
  BY <1>10, LockKept DEF DeadlineCuts
<1>11. CASE Marker(m)
  BY <1>11, LockKept DEF Marker, Verdict, Writes
<1>12. CASE Complete(m)
  <2>1. InOrder(m)
    BY DEF Locked, Alone
  <2>2. lock' = Released(lock, m) /\ Holds(lock, m) /\ pc'[m] = "done"
    BY <1>12, <2>1 DEF Complete, Leaves, InOrder
  <2>3. QED
    BY <2>2, LockLeft
<1>13. CASE Interrupt(m)
  <2>1. InOrder(m)
    BY DEF Locked, Alone
  <2>2. lock' = Released(lock, m) /\ Holds(lock, m) /\ pc'[m] = "done"
    BY <1>13, <2>1 DEF Interrupt, Leaves, InOrder
  <2>3. QED
    BY <2>2, LockLeft
<1>14. CASE JobStarts(m)
  BY <1>14, LockKept DEF JobStarts
<1>15. CASE Transcribed(m)
  BY <1>15, LockKept DEF Transcribed, Quarantines
<1>16. CASE TranscriptionFails(m)
  BY <1>16, LockKept DEF TranscriptionFails, Quarantines
<1>17. CASE Apologise(m)
  BY <1>17, LockKept DEF Apologise
<1>18. CASE WriteOff(m)
  BY <1>18, LockKept DEF WriteOff, CompleteTurn
<1>19. CASE SaveTranscript(m)
  BY <1>19, LockKept DEF SaveTranscript
<1>20. CASE Recall(m)
  BY <1>20, LockKept DEF Recall
<1>21. CASE VoiceBlock(m)
  BY <1>21, LockKept DEF VoiceBlock, Shows, Writes
<1>22. CASE VoiceStreamEnds(m)
  BY <1>22, LockKept DEF VoiceStreamEnds
<1>23. CASE VoiceComplete(m)
  BY <1>23, LockKept DEF VoiceComplete, CompleteTurn
<1>24. CASE DeadlineCutsJob(m)
  BY <1>24, LockKept DEF DeadlineCutsJob, Persists
<1>25. CASE Emit(m)
  BY <1>25, LockKept DEF Emit, Persists
<1>26. CASE PersistRow(m)
  BY <1>26, LockKept DEF PersistRow, Writes
<1>27. CASE PersistStatus(m)
  BY <1>27, LockKept DEF PersistStatus, InterruptTurn
<1>28. CASE JobEnds(m)
  BY <1>28, LockKept DEF JobEnds, Unlinks
<1>29. QED
  BY <1>1, <1>2, <1>3, <1>4, <1>5, <1>6, <1>7, <1>8, <1>9, <1>10, <1>11, <1>12, <1>13, <1>14, <1>15,
     <1>16, <1>17, <1>18, <1>19, <1>20, <1>21, <1>22, <1>23, <1>24, <1>25, <1>26, <1>27, <1>28 DEF Answer, Job

(* Only an arrival brings a message under way, and the dispatcher brings   *)
(* one when there is no other of its own.                                  *)
LEMMA ScheduledKept ==
  ASSUME OneScheduled, NEW m \in Messages, Alone(m),
         \/ pc'[m] \in Idle \/ pc[m] \notin Idle
         \/ kind[m] = "scheduled" => \A n \in Messages : kind[n] = "scheduled" => pc[n] \in Idle
  PROVE  OneScheduled'
<1>1. kind' = kind /\ \A n \in Messages : n # m => pc'[n] = pc[n]
  BY DEF Alone, Same
<1>2. QED
  BY <1>1 DEF OneScheduled

(* Whatever steps, one message of the scheduler is under way.              *)
LEMMA ScheduledStep ==
  ASSUME Data, OneScheduled, NEW m \in Messages, Alone(m),
         Arrive(m) \/ Answer(m) \/ Job(m)
  PROVE  OneScheduled'
<1> USE DEF store, queues, process, At, Goes, Alive, Data, Idle, Scheduled, Of
<1>1. CASE Arrive(m)
  BY <1>1, ScheduledKept DEF Arrive
<1>2. CASE StartTurn(m)
  BY <1>2, ScheduledKept DEF StartTurn, HandsOver, Spawns
<1>3. CASE AppendUser(m)
  BY <1>3, ScheduledKept DEF AppendUser, Writes
<1>4. CASE Load(m)
  BY <1>4, ScheduledKept DEF Load, Quarantines
<1>5. CASE FailedMarker(m)
  BY <1>5, ScheduledKept DEF FailedMarker, Writes, Quarantines
<1>6. CASE Failed(m)
  BY <1>6, ScheduledKept DEF Failed, CompleteTurn, Leaves, Unlinks
<1>7. CASE Block(m)
  BY <1>7, ScheduledKept DEF Block, Shows, Writes
<1>8. CASE StreamEnds(m)
  BY <1>8, ScheduledKept DEF StreamEnds, Verdict
<1>9. CASE BridgeError(m)
  BY <1>9, ScheduledKept DEF BridgeError
<1>10. CASE DeadlineCuts(m)
  BY <1>10, ScheduledKept DEF DeadlineCuts
<1>11. CASE Marker(m)
  BY <1>11, ScheduledKept DEF Marker, Verdict, Writes
<1>12. CASE Complete(m)
  BY <1>12, ScheduledKept DEF Complete, CompleteTurn, Leaves, Unlinks
<1>13. CASE Interrupt(m)
  BY <1>13, ScheduledKept DEF Interrupt, InterruptTurn, Leaves, Unlinks
<1>14. CASE JobStarts(m)
  BY <1>14, ScheduledKept DEF JobStarts
<1>15. CASE Transcribed(m)
  BY <1>15, ScheduledKept DEF Transcribed, Quarantines
<1>16. CASE TranscriptionFails(m)
  BY <1>16, ScheduledKept DEF TranscriptionFails, Quarantines
<1>17. CASE Apologise(m)
  BY <1>17, ScheduledKept DEF Apologise
<1>18. CASE WriteOff(m)
  BY <1>18, ScheduledKept DEF WriteOff, CompleteTurn
<1>19. CASE SaveTranscript(m)
  BY <1>19, ScheduledKept DEF SaveTranscript
<1>20. CASE Recall(m)
  BY <1>20, ScheduledKept DEF Recall
<1>21. CASE VoiceBlock(m)
  BY <1>21, ScheduledKept DEF VoiceBlock, Shows, Writes
<1>22. CASE VoiceStreamEnds(m)
  BY <1>22, ScheduledKept DEF VoiceStreamEnds
<1>23. CASE VoiceComplete(m)
  BY <1>23, ScheduledKept DEF VoiceComplete, CompleteTurn
<1>24. CASE DeadlineCutsJob(m)
  BY <1>24, ScheduledKept DEF DeadlineCutsJob, Persists
<1>25. CASE Emit(m)
  BY <1>25, ScheduledKept DEF Emit, Persists
<1>26. CASE PersistRow(m)
  BY <1>26, ScheduledKept DEF PersistRow, Writes
<1>27. CASE PersistStatus(m)
  BY <1>27, ScheduledKept DEF PersistStatus, InterruptTurn
<1>28. CASE JobEnds(m)
  BY <1>28, ScheduledKept DEF JobEnds, Unlinks
<1>29. QED
  BY <1>1, <1>2, <1>3, <1>4, <1>5, <1>6, <1>7, <1>8, <1>9, <1>10, <1>11, <1>12, <1>13, <1>14, <1>15,
     <1>16, <1>17, <1>18, <1>19, <1>20, <1>21, <1>22, <1>23, <1>24, <1>25, <1>26, <1>27, <1>28 DEF Answer, Job

(* What the history of a message under the lock has to have.               *)
Seen(n) ==
  kind[n] # "voice" /\ Alive /\ pc[n] \in Asking =>
    \A x \in Messages : x # n /\ kind[x] # "voice" /\ turns[x] = "complete" => x \in seen[n]

LEMMA HistoryIs == HistoryIsCurrent <=> \A n \in Messages : Seen(n)
  BY DEF HistoryIsCurrent, Seen, Foreground, Voices, Of, Completed

(* A turn answered under the lock is completed by the holder of the lock.  *)
LEMMA SeenKept ==
  ASSUME Data, Locked, NEW m \in Messages, Alone(m), \A n \in Messages : Seen(n),
         \A n \in Messages : n # m => seen'[n] = seen[n],
         \/ kind[m] = "voice" \/ turns'[m] # "complete" \/ turns'[m] = turns[m]
         \/ pc[m] \in UnderLock,
         \/ kind[m] = "voice" \/ pc'[m] \notin Asking \/ seen'[m] = Completed
         \/ pc[m] \in Asking /\ seen'[m] = seen[m]
  PROVE  \A n \in Messages : Seen(n)'
<1>1. SUFFICES ASSUME NEW n \in Messages, kind'[n] # "voice", Alive', pc'[n] \in Asking,
                      NEW x \in Messages, x # n, kind'[x] # "voice", turns'[x] = "complete"
               PROVE  x \in seen'[n]
  BY DEF Seen
<1>2. kind' = kind /\ Alive
  BY DEF Alone
<1>3. Seen(n)
  OBVIOUS
<1>4. CASE n = m
  <2>1. turns'[x] = turns[x]
    BY <1>1, <1>4 DEF Alone, Same
  <2>2. QED
    BY <1>1, <1>2, <1>3, <1>4, <2>1 DEF Seen, Completed
<1>5. CASE n # m
  <2>1. pc'[n] = pc[n] /\ seen'[n] = seen[n]
    BY <1>5 DEF Alone, Same
  <2>2. Holds(lock, n)
    BY <1>1, <1>2, <2>1 DEF Locked, InOrder, UnderLock
  <2>3. turns[x] = "complete"
    <3>1. CASE x = m
      <4>1. pc[m] \in UnderLock => Holds(lock, m)
        BY <1>2 DEF Locked, InOrder
      <4>2. ~Holds(lock, m)
        BY <1>5, <2>2 DEF Holds
      <4>3. QED
        BY <1>1, <1>2, <3>1, <4>1, <4>2
    <3>2. CASE x # m
      BY <1>1, <3>2 DEF Alone, Same
    <3>3. QED
      BY <3>1, <3>2
  <2>4. QED
    BY <1>1, <1>2, <1>3, <2>1, <2>3 DEF Seen
<1>6. QED
  BY <1>4, <1>5

(* Whatever steps, the histories are current.                              *)
LEMMA SeenStep ==
  ASSUME Data, Locked, NEW m \in Messages, Place(m), Alone(m),
         \A n \in Messages : Seen(n), Arrive(m) \/ Answer(m) \/ Job(m)
  PROVE  \A n \in Messages : Seen(n)'
<1> USE DEF store, queues, process, At, Goes, Alive, Data, UnderLock, Asking, InJob, Place, Files, Photos, Voices, Of
<1>1. CASE Arrive(m)
  BY <1>1, SeenKept DEF Arrive
<1>2. CASE StartTurn(m)
  BY <1>2, SeenKept DEF StartTurn, HandsOver, Spawns
<1>3. CASE AppendUser(m)
  BY <1>3, SeenKept DEF AppendUser, Writes
<1>4. CASE Load(m)
  BY <1>4, SeenKept DEF Load, Quarantines
<1>5. CASE FailedMarker(m)
  BY <1>5, SeenKept DEF FailedMarker, Writes, Quarantines
<1>6. CASE Failed(m)
  BY <1>6, SeenKept DEF Failed, CompleteTurn, Leaves, Unlinks
<1>7. CASE Block(m)
  BY <1>7, SeenKept DEF Block, Shows, Writes
<1>8. CASE StreamEnds(m)
  BY <1>8, SeenKept DEF StreamEnds, Verdict
<1>9. CASE BridgeError(m)
  BY <1>9, SeenKept DEF BridgeError
<1>10. CASE DeadlineCuts(m)
  BY <1>10, SeenKept DEF DeadlineCuts
<1>11. CASE Marker(m)
  BY <1>11, SeenKept DEF Marker, Verdict, Writes
<1>12. CASE Complete(m)
  BY <1>12, SeenKept DEF Complete, CompleteTurn, Leaves, Unlinks
<1>13. CASE Interrupt(m)
  BY <1>13, SeenKept DEF Interrupt, InterruptTurn, Leaves, Unlinks
<1>14. CASE JobStarts(m)
  BY <1>14, SeenKept DEF JobStarts
<1>15. CASE Transcribed(m)
  BY <1>15, SeenKept DEF Transcribed, Quarantines
<1>16. CASE TranscriptionFails(m)
  BY <1>16, SeenKept DEF TranscriptionFails, Quarantines
<1>17. CASE Apologise(m)
  BY <1>17, SeenKept DEF Apologise
<1>18. CASE WriteOff(m)
  BY <1>18, SeenKept DEF WriteOff, CompleteTurn
<1>19. CASE SaveTranscript(m)
  BY <1>19, SeenKept DEF SaveTranscript
<1>20. CASE Recall(m)
  BY <1>20, SeenKept DEF Recall
<1>21. CASE VoiceBlock(m)
  BY <1>21, SeenKept DEF VoiceBlock, Shows, Writes
<1>22. CASE VoiceStreamEnds(m)
  BY <1>22, SeenKept DEF VoiceStreamEnds
<1>23. CASE VoiceComplete(m)
  BY <1>23, SeenKept DEF VoiceComplete, CompleteTurn
<1>24. CASE DeadlineCutsJob(m)
  BY <1>24, SeenKept DEF DeadlineCutsJob, Persists
<1>25. CASE Emit(m)
  BY <1>25, SeenKept DEF Emit, Persists
<1>26. CASE PersistRow(m)
  BY <1>26, SeenKept DEF PersistRow, Writes
<1>27. CASE PersistStatus(m)
  BY <1>27, SeenKept DEF PersistStatus, InterruptTurn
<1>28. CASE JobEnds(m)
  BY <1>28, SeenKept DEF JobEnds, Unlinks
<1>29. QED
  BY <1>1, <1>2, <1>3, <1>4, <1>5, <1>6, <1>7, <1>8, <1>9, <1>10, <1>11, <1>12, <1>13, <1>14, <1>15,
     <1>16, <1>17, <1>18, <1>19, <1>20, <1>21, <1>22, <1>23, <1>24, <1>25, <1>26, <1>27, <1>28 DEF Answer, Job

(* What a step of one message does to the invariant, put together.         *)
LEMMA MessageStep ==
  ASSUME IInv, NEW m \in Messages, Arrive(m) \/ Answer(m) \/ Job(m)
  PROVE  IInv'
<1>1. Data /\ Queues /\ Locked /\ OneScheduled
  BY Types DEF IInv
<1>2. (\A n \in Messages : Local(n)) /\ \A n \in Messages : Seen(n)
  BY HistoryIs DEF IInv
<1>3. Local(m) /\ Place(m)
  BY <1>2 DEF Local
<1>4. Alone(m)
  BY <1>1, AloneStep
<1>5. TypeOK'
  BY <1>1, DataStep, QueueStep DEF TypeOK, Queues, Data
<1>6. Locked' /\ OneScheduled'
  BY <1>1, <1>3, <1>4, LockStep, ScheduledStep
<1>7. HistoryIsCurrent'
  <2>1. \A n \in Messages : Seen(n)'
    BY <1>1, <1>2, <1>3, <1>4, SeenStep
  <2>2. QED
    BY <2>1 DEF HistoryIsCurrent, Seen, Foreground, Voices, Of, Completed
<1>8. ASSUME NEW n \in Messages PROVE Local(n)'
  <2>1. CASE n = m
    BY <1>1, <1>3, <2>1, PlaceStep, StatusStep, RowsStep, UploadStep, OwedStep DEF Local
  <2>2. CASE n # m
    <3>1. /\ Same(n) /\ kind' = kind /\ life' = life /\ doomed' = doomed
          /\ Place(n) /\ Status(n) /\ Rows(n) /\ Upload(n) /\ Owed(n)
      BY <1>2, <1>4, <2>2 DEF Alone, Local
    <3>2. Place(n)' /\ Status(n)'
      BY <3>1 DEF Same, Place, Status, Alive
    <3>3. Rows(n)' /\ Upload(n)' /\ Owed(n)'
      BY <3>1 DEF Same, Rows, Upload, Owed
    <3>4. QED
      BY <3>2, <3>3 DEF Local
  <2>3. QED
    BY <2>1, <2>2
<1>9. QED
  BY <1>5, <1>6, <1>7, <1>8 DEF IInv

-----------------------------------------------------------------------------
(* A stop: what becomes of each message.                                   *)
LEMMA StopStep == IInv /\ StopCancels => IInv'
<1> SUFFICES ASSUME IInv, StopCancels PROVE IInv'
  OBVIOUS
<1>1. Data /\ Queues /\ Locked /\ OneScheduled
  BY Types DEF IInv
<1>2. (\A n \in Messages : Local(n)) /\ \A n \in Messages : Seen(n)
  BY HistoryIs DEF IInv
<1>3. PICK landed \in SUBSET Cut :
        turns' = [m \in Messages |->
                   IF m \notin landed THEN turns[m]
                   ELSE IF pc[m] = "interrupt" THEN "interrupted" ELSE "complete"]
  BY DEF StopCancels
<1> DEFINE Ending(n) == kind[n] = "voice" /\ pc[n] \in InJob
           Asked(n) == kind[n] = "scheduled" /\ pc[n] \in Asking \ {"interrupt"}
           Gone(n) == \/ kind[n] = "scheduled" /\ pc[n] \in {"lock", "append", "load", "interrupt"}
                      \/ pc[n] \in {"spawned", "shield"}
(* The step, of one message.                                               *)
<1>4. /\ life = "up" /\ life' = "stopping" /\ kind' = kind /\ seen' = seen
      /\ said' = said /\ result' = result /\ cut' = cut
  BY DEF StopCancels
<1>5. ASSUME NEW n \in Messages
      PROVE  /\ pc'[n] = IF Ending(n) THEN "shield"
                         ELSE IF Gone(n) THEN "done"
                         ELSE IF Asked(n) THEN "interrupt" ELSE pc[n]
             /\ persist'[n] = IF Ending(n) THEN Persists(n) ELSE persist[n]
             /\ file'[n] = IF pc[n] = "shield" /\ file[n] = "tmp" THEN "gone" ELSE file[n]
             /\ n \in doomed' <=> Ending(n) \/ Asked(n) \/ persist[n] # "none"
  BY DEF StopCancels, Cancelled, Unwound, Dropped, Persisting, Scheduled, Voices, Of
<1>6. ASSUME NEW n \in Messages
      PROVE  \/ turns'[n] = turns[n]
             \/ /\ turns'[n] = "complete"
                /\ \/ kind[n] = "voice" /\ pc[n] \in {"write off", "close"}
                   \/ kind[n] = "scheduled" /\ pc[n] = "complete"
             \/ turns'[n] = "interrupted" /\ kind[n] = "scheduled" /\ pc[n] = "interrupt"
  BY <1>3 DEF Cut, Scheduled, Voices, Of
<1>7. ASSUME NEW n \in Messages PROVE Local(n)'
  <2>1. Place(n) /\ Status(n) /\ Rows(n) /\ Upload(n) /\ Owed(n)
    BY <1>2 DEF Local
  <2> HIDE DEF Ending, Asked, Gone
  <2>2. Place(n)'
    BY <1>4, <1>5, <2>1 DEF Place, Alive, Ending, Asked, Gone, UnderLock, Asking, InJob, Idle
  <2>3. Status(n)'
    BY <1>4, <1>5, <1>6, <2>1
       DEF Place, Status, Persists, Ending, Asked, Gone, UnderLock, Asking, InJob
  <2>4. Rows(n)'
    BY <1>4, <1>5, <2>1
       DEF Place, Rows, Quiet, Persists, Ending, Asked, Gone, UnderLock, Asking, InJob
  <2>5. Upload(n)'
    BY <1>4, <1>5, <1>6, <2>1 DEF Place, Upload, Ending, Asked, Gone, UnderLock, Asking, InJob
  <2>6. Owed(n)'
    BY <1>4, <1>5, <1>6, <2>1
       DEF Place, Status, Rows, Owed, Persists, Ending, Asked, Gone, UnderLock, Asking, InJob
  <2>7. QED
    BY <2>2, <2>3, <2>4, <2>5, <2>6 DEF Local
<1>8. HistoryIsCurrent'
  <2>1. SUFFICES ASSUME NEW n \in Messages, kind[n] # "voice", pc'[n] \in Asking,
                        NEW x \in Messages, x # n, kind[x] # "voice", turns'[x] = "complete"
                 PROVE  x \in seen[n]
    BY <1>4 DEF HistoryIsCurrent, Foreground, Voices, Of, Completed
  <2>2. pc[n] \in Asking
    BY <1>5, <2>1 DEF Asking, InJob
  <2>3. Alive
    BY <1>4 DEF Alive
  <2>4. turns[x] = "complete"
    <3>1. ASSUME pc[x] = "complete" PROVE FALSE
      <4>1. Holds(lock, x) /\ Holds(lock, n)
        BY <1>1, <2>2, <2>3, <3>1 DEF Locked, InOrder, UnderLock, Asking
      <4>2. QED
        BY <2>1, <4>1 DEF Holds
    <3>2. QED
      BY <1>6, <2>1, <3>1
  <2>5. QED
    BY <1>2, <2>1, <2>2, <2>3, <2>4 DEF Seen
<1>9. OneScheduled'
  BY <1>1, <1>4, <1>5 DEF OneScheduled, Idle, Asking, InJob
<1>10. Locked' /\ lock' \in Seq(Messages)
  <2>1. Alive /\ Alive' /\ Distinct(lock) /\ \A n \in Messages : InOrder(n)
    BY <1>1, <1>4 DEF Locked, Alive
  <2>2. ASSUME NEW n \in Messages, n \notin Dropped
        PROVE  /\ pc'[n] \in UnderLock \cup {"lock"} <=> pc[n] \in UnderLock \cup {"lock"}
               /\ pc'[n] \in UnderLock => pc[n] \in UnderLock
    BY <1>2, <1>5, <2>2
       DEF Local, Place, Dropped, Scheduled, Of, UnderLock, Asking, InJob
  <2>3. CASE Dropped = {}
    <3>1. lock' = lock
      BY <2>3 DEF StopCancels
    <3>2. QED
      BY <1>1, <2>1, <2>2, <2>3, <3>1 DEF Locked, InOrder, Queues
  <2>4. CASE Dropped # {}
    <3>1. PICK m \in Dropped : lock' = Without(lock, m)
      BY <2>4 DEF StopCancels
    <3>2. m \in Messages /\ pc'[m] = "done" /\ In(lock, m)
      BY <1>5, <2>1, <3>1 DEF Dropped, Scheduled, Of, InOrder, UnderLock, Asking, InJob
    <3>3. \A n \in Messages : n # m => n \notin Dropped
      BY <1>1, <3>1 DEF OneScheduled, Dropped, Scheduled, Of, Idle
    <3>4. /\ lock' \in Seq(Messages) /\ Distinct(lock')
          /\ \A n : In(lock', n) <=> In(lock, n) /\ n # m
          /\ \A n : Holds(lock, n) /\ n # m => Holds(lock', n)
      BY <1>1, <2>1, <3>1, <3>2, WithoutIs DEF Queues
    <3>5. ASSUME NEW n \in Messages PROVE InOrder(n)'
      <4>1. CASE n = m
        BY <3>2, <3>4, <4>1 DEF InOrder, UnderLock, Asking
      <4>2. CASE n # m
        BY <2>1, <2>2, <3>3, <3>4, <4>2 DEF InOrder
      <4>3. QED
        BY <4>1, <4>2
    <3>6. QED
      BY <2>1, <3>4, <3>5 DEF Locked
  <2>5. QED
    BY <2>3, <2>4
<1>11. TypeOK'
  <2>1. turns' \in [Messages -> {"absent", "pending", "complete", "interrupted"}]
    BY <1>1, <1>3 DEF Data
  <2>2. pc' \in [Messages -> Labels]
    BY <1>1 DEF Data, StopCancels, Labels, UnderLock, Asking
  <2>3. persist' \in [Messages -> {"none", "row", "last row", "status"}]
    BY <1>1 DEF Data, StopCancels, Persists
  <2>4. file' \in [Messages -> {"tmp", "kept", "gone"}]
    BY <1>1 DEF Data, StopCancels
  <2>5. doomed' \in SUBSET Messages
    BY DEF StopCancels, Cancelled, Unwound, Persisting, Voices, Scheduled, Of
  <2>6. stops' \in 0..MaxStops /\ crashes' = crashes
    <3>1. /\ stops \in 0..MaxStops /\ MaxStops \in Nat /\ stops < MaxStops
          /\ stops' = stops + 1 /\ crashes' = crashes
      BY <1>1, TurnsAssumption DEF Data, StopCancels
    <3>2. QED
      BY <3>1
  <2>7. sem' \in Seq(Messages) /\ line' \in Seq(Messages)
    BY DEF StopCancels
  <2>8. QED
    BY <1>1, <1>4, <1>10, <2>1, <2>2, <2>3, <2>4, <2>5, <2>6, <2>7 DEF TypeOK, Data
<1>12. QED
  BY <1>7, <1>8, <1>9, <1>10, <1>11 DEF IInv

(* A death, and the close that ends a stop: nothing is left running.       *)
LEMMA PerishStep ==
  ASSUME IInv, Perish, life' \in {"stopped", "dead"},
         stops' \in 0..MaxStops, crashes' \in 0..MaxCrashes
  PROVE  IInv'
<1>1. Data /\ Queues /\ \A n \in Messages : Local(n)
  BY Types DEF IInv
<1>2. ~Alive'
  BY DEF Alive
<1>3. ASSUME NEW n \in Messages
      PROVE  /\ (pc'[n] = pc[n] /\ pc[n] \in {"new", "done"}) \/ pc'[n] = "lost"
             /\ pc'[n] = "done" => persist[n] = "none"
             /\ persist'[n] = "none" /\ n \notin doomed'
             /\ kind' = kind /\ turns' = turns /\ said' = said /\ file' = file
             /\ result' = result /\ cut' = cut
  BY DEF Perish, Persisting, store
<1>4. ASSUME NEW n \in Messages PROVE Local(n)'
  <2>1. Place(n) /\ Status(n) /\ Rows(n) /\ Upload(n)
    BY <1>1 DEF Local
  <2>2. Place(n)' /\ Status(n)'
    BY <1>2, <1>3, <2>1 DEF Place, Status, UnderLock, Asking, InJob, Idle
  <2>3. Rows(n)' /\ Upload(n)' /\ Owed(n)'
    BY <1>3, <2>1 DEF Rows, Quiet, Upload, Owed, Asking
  <2>4. QED
    BY <2>2, <2>3 DEF Local
<1>5. Locked' /\ HistoryIsCurrent'
  BY <1>2 DEF Locked, HistoryIsCurrent, Perish
<1>6. OneScheduled'
  BY <1>3 DEF OneScheduled, Idle
<1>7. TypeOK'
  <2>1. pc' \in [Messages -> Labels]
    BY <1>1 DEF Data, Perish, Labels
  <2>2. lock' \in Seq(Messages) /\ sem' \in Seq(Messages) /\ line' \in Seq(Messages)
    BY DEF Perish
  <2>3. persist' \in [Messages -> {"none", "row", "last row", "status"}]
    BY DEF Perish
  <2>4. Data'
    BY <1>1, <2>1, <2>3 DEF Data, Perish, store
  <2>5. QED
    BY <2>2, <2>4 DEF TypeOK, Data
<1>8. QED
  BY <1>4, <1>5, <1>6, <1>7 DEF IInv

(* A boot meets nothing but finished and lost work.                        *)
LEMMA BootStep == IInv /\ Boot => IInv'
<1> SUFFICES ASSUME IInv, Boot PROVE IInv'
  OBVIOUS
<1>1. Data /\ Queues /\ Locked /\ ~Alive /\ \A n \in Messages : Local(n)
  BY Types DEF IInv, Boot
<1>2. ASSUME NEW n \in Messages
      PROVE  /\ pc'[n] = pc[n] /\ pc[n] \in Idle /\ persist'[n] = "none" /\ n \notin doomed
             /\ doomed' = doomed /\ kind' = kind /\ said' = said /\ result' = result /\ cut' = cut
             /\ turns'[n] = IF turns[n] = "pending" THEN "interrupted" ELSE turns[n]
             /\ file'[n] = IF pc[n] # "new" /\ file[n] = "tmp" THEN "gone" ELSE file[n]
  BY <1>1 DEF Local, Place, Boot, Alive
<1>3. ASSUME NEW n \in Messages PROVE Local(n)'
  <2>1. Place(n) /\ Status(n) /\ Rows(n) /\ Upload(n)
    BY <1>1 DEF Local
  <2>2. Place(n)' /\ Status(n)'
    BY <1>2, <2>1 DEF Place, Status, UnderLock, Asking, InJob, Idle
  <2>3. Rows(n)' /\ Upload(n)' /\ Owed(n)'
    <3>1. Rows(n)'
      BY <1>1, <1>2, <2>1 DEF Place, Rows, Quiet, Asking, Idle
    <3>2. Upload(n)'
      BY <1>2, <2>1 DEF Upload, Idle
    <3>3. Owed(n)'
      BY <1>2 DEF Owed
    <3>4. QED
      BY <3>1, <3>2, <3>3
  <2>4. QED
    BY <2>2, <2>3 DEF Local
<1>4. HistoryIsCurrent' /\ OneScheduled'
  BY <1>2 DEF HistoryIsCurrent, OneScheduled, Idle, Asking, Foreground
<1>5. Locked'
  <2>1. lock' = <<>> /\ Alive'
    BY <1>1 DEF Locked, Boot, queues, Alive
  <2>2. Distinct(lock') /\ \A n : ~In(lock', n)
    BY <2>1 DEF Distinct, In
  <2>3. \A n \in Messages : pc'[n] \notin UnderLock \cup {"lock"}
    BY <1>2 DEF Idle, UnderLock, Asking
  <2>4. QED
    BY <2>1, <2>2, <2>3 DEF Locked, InOrder
<1>6. TypeOK'
  BY <1>1 DEF TypeOK, Data, Queues, Boot, queues
<1>7. QED
  BY <1>3, <1>4, <1>5, <1>6 DEF IInv

-----------------------------------------------------------------------------
(* The invariant.                                                          *)
LEMMA NextIInv == IInv /\ [Next]_vars => IInv'
<1> SUFFICES ASSUME IInv, [Next]_vars PROVE IInv'
  OBVIOUS
<1>1. ASSUME NEW m \in Messages, Arrive(m) \/ Answer(m) \/ Job(m) PROVE IInv'
  BY <1>1, MessageStep
<1>2. CASE StopCancels
  BY <1>2, StopStep
<1>3. CASE StopCloses
  <2>1. stops' \in 0..MaxStops /\ crashes' \in 0..MaxCrashes
    BY <1>3 DEF IInv, TypeOK, StopCloses
  <2>2. QED
    BY <1>3, <2>1, PerishStep DEF StopCloses
<1>4. CASE Crash
  <2>1. stops' \in 0..MaxStops /\ crashes' \in 0..MaxCrashes
    <3>1. /\ stops \in 0..MaxStops /\ crashes \in 0..MaxCrashes /\ MaxCrashes \in Nat
          /\ crashes < MaxCrashes /\ crashes' = crashes + 1 /\ stops' = stops
      BY <1>4, TurnsAssumption DEF IInv, TypeOK, Crash
    <3>2. QED
      BY <3>1
  <2>2. QED
    BY <1>4, <2>1, PerishStep DEF Crash
<1>5. CASE Boot
  BY <1>5, BootStep
<1>6. CASE UNCHANGED vars
  <2> USE <1>6 DEF vars, store, queues, process
  <2>1. TypeOK' /\ HistoryIsCurrent'
    BY DEF IInv, TypeOK, HistoryIsCurrent, Foreground, Voices, Of, Completed, Alive
  <2>2. Locked' /\ OneScheduled'
    BY DEF IInv, Locked, InOrder, OneScheduled, Alive
  <2>3. ASSUME NEW n \in Messages PROVE Local(n)'
    BY DEF IInv, Local, Place, Status, Rows, Upload, Owed, Alive
  <2>4. QED
    BY <2>1, <2>2, <2>3 DEF IInv
<1>7. QED
  BY <1>1, <1>2, <1>3, <1>4, <1>5, <1>6 DEF Next

(* Whatever the messages are, the invariant holds of every behaviour.      *)
THEOREM Invariant == Spec => []IInv
<1>1. Init => IInv
  BY InitIInv
<1>2. IInv /\ [Next]_vars => IInv'
  BY NextIInv
<1>3. QED
  BY <1>1, <1>2, PTL DEF Spec

(* Every variable keeps its type, the queues and the persist tasks among   *)
(* them.                                                                   *)
THEOREM TypeCorrect == Spec => []TypeOK
<1>1. IInv => TypeOK
  BY DEF IInv
<1>2. QED
  BY <1>1, Invariant, PTL

(* A turn is answered from the conversation as it is: of the turns under   *)
(* the lock none completes between load_recent and the end of another.     *)
THEOREM HistoryCurrent == Spec => []HistoryIsCurrent
<1>1. IInv => HistoryIsCurrent
  BY DEF IInv
<1>2. QED
  BY <1>1, Invariant, PTL

(* A turn the model has spoken in keeps what the owner sent, or has a      *)
(* persist task that writes it.                                            *)
THEOREM UserRowKept == Spec => []UserRowSurvives
<1>1. IInv => UserRowSurvives
  <2>1. SUFFICES ASSUME IInv, NEW m \in Messages \ cut, pc[m] = "done", "assistant" \in said[m]
                 PROVE  "user" \in said[m] \/ Attended(m)
    BY DEF UserRowSurvives
  <2>2. Rows(m)
    BY <2>1 DEF IInv, Local
  <2>3. QED
    BY <2>1, <2>2 DEF Rows, Attended
<1>2. QED
  BY <1>1, Invariant, PTL

(* No upload stays in the uploads directory when its turn is over, and one *)
(* that could not be read is kept.                                         *)
THEOREM UploadSettled == Spec => []UploadIsSettled
<1>1. IInv => UploadIsSettled
  <2>1. SUFFICES ASSUME IInv, life = "up", NEW m \in Uploads, pc[m] \in {"done", "lost"}
                 PROVE  IF turns[m] = "complete" /\ m \notin result
                        THEN file[m] = "kept" ELSE file[m] # "tmp"
    BY DEF UploadIsSettled
  <2>2. m \in Messages /\ kind[m] \in {"file", "photo", "voice"}
    BY DEF Uploads, Files, Photos, Voices, Of
  <2>3. Upload(m)
    BY <2>1, <2>2 DEF IInv, Local
  <2>4. QED
    BY <2>1, <2>2, <2>3 DEF Upload
<1>2. QED
  BY <1>1, Invariant, PTL

(* Daemon.stop closes the connection after the last write of every job it  *)
(* has cancelled.                                                          *)
THEOREM StopDrained == Spec => StopDrains
<1>1. IInv /\ [Next]_vars =>
        (life = "stopping" /\ life' = "stopped" =>
           \A m \in doomed : turns[m] # "pending" /\ "user" \in said[m])
  <2>1. SUFFICES ASSUME IInv, [Next]_vars, life = "stopping", life' = "stopped",
                        NEW m \in doomed
                 PROVE  turns[m] # "pending" /\ "user" \in said[m]
    OBVIOUS
  <2>2. m \in Messages /\ Local(m)
    BY <2>1 DEF IInv, TypeOK
  <2>3. StopCloses
    <3>1. ASSUME NEW n \in Messages, Arrive(n) \/ Answer(n) \/ Job(n) PROVE life' = life
      BY <2>1, <3>1, AloneStep, Types DEF IInv, Alone
    <3>2. life' = life \/ StopCancels \/ StopCloses \/ Crash \/ Boot
      BY <2>1, <3>1 DEF Next, vars, process
    <3>3. QED
      BY <2>1, <3>2 DEF StopCancels, Crash, Boot
  <2>4. pc[m] = "done" /\ persist[m] = "none"
    BY <2>1, <2>2, <2>3 DEF StopCloses, Persisting
  <2>5. QED
    BY <2>1, <2>2, <2>4 DEF Local, Owed
<1>2. QED
  BY <1>1, Invariant, PTL DEF Spec, StopDrains

-----------------------------------------------------------------------------
(* The store keeps the promise of SerialTurns.  The status the promise is  *)
(* about, and the three kinds of its steps.                                *)
Ended(n) == IF turns[n] = "pending" /\ ~Attended(n) THEN "interrupted" ELSE turns[n]
Bar == [n \in Messages |-> Ended(n)]

LEMMA SaySteps ==
  ASSUME Data, kind' = kind, NEW m \in Messages, NEW role \in {"user", "assistant"},
         \A n \in Messages : Ended(n)' = Ended(n),
         said' = [said EXCEPT ![m] = @ \cup {role}],
         Ended(m) = "pending" \/ (kind[m] = "voice" /\ Ended(m) = "complete")
  PROVE  Serial!Next
<1>1. Bar' = Bar /\ Voices' = Voices
  BY DEF Bar, Voices, Of
<1>2. Serial!Say(m, role)
  BY <1>1 DEF Serial!Say, Bar, Ended, Voices, Of
<1>3. QED
  BY <1>2 DEF Serial!Next

LEMMA EndSteps ==
  ASSUME Data, kind' = kind, said' = said,
         \A n \in Messages : \/ Ended(n)' = Ended(n)
                             \/ Ended(n) = "pending" /\ Ended(n)' \in {"complete", "interrupted"}
  PROVE  Serial!Next
<1>1. Voices' = Voices
  BY DEF Voices, Of
<1>2. PICK completed \in SUBSET Messages : \A n \in Messages :
        n \in completed <=> Bar[n] = "pending" /\ Bar'[n] = "complete"
  <2>1. {n \in Messages : Bar[n] = "pending" /\ Bar'[n] = "complete"} \in SUBSET Messages
    OBVIOUS
  <2>2. QED
    BY <2>1
<1>3. PICK interrupted \in SUBSET Messages : \A n \in Messages :
        n \in interrupted <=> Bar[n] = "pending" /\ Bar'[n] = "interrupted"
  <2>1. {n \in Messages : Bar[n] = "pending" /\ Bar'[n] = "interrupted"} \in SUBSET Messages
    OBVIOUS
  <2>2. QED
    BY <2>1
<1>4. \A n \in completed \cup interrupted : Bar[n] = "pending"
  BY <1>2, <1>3
<1>5. Bar' = [n \in Messages |-> IF n \in completed THEN "complete"
                                 ELSE IF n \in interrupted THEN "interrupted" ELSE Bar[n]]
  BY <1>2, <1>3 DEF Bar
<1>6. Serial!End(completed, interrupted)
  BY <1>1, <1>4, <1>5 DEF Serial!End, Bar, Ended
<1>7. QED
  BY <1>6 DEF Serial!Next

LEMMA BeginSteps ==
  ASSUME Data, kind' = kind, said' = said, NEW m \in Messages,
         Ended(m) = "absent", Ended(m)' = "pending",
         \A n \in Messages : n # m => Ended(n)' = Ended(n),
         kind[m] # "voice" => \A n \in Messages : kind[n] # "voice" => Ended(n) # "pending"
  PROVE  Serial!Next
<1>1. Voices' = Voices /\ Bar' = [Bar EXCEPT ![m] = "pending"]
  BY DEF Bar, Voices, Of
<1>2. Serial!Begin(m)
  BY <1>1 DEF Serial!Begin, Serial!Foreground, Bar, Ended, Voices, Of
<1>3. QED
  BY <1>2 DEF Serial!Next

(* Who holds the lock is the only one under it with a pending turn.        *)
LEMMA LockIsSerial ==
  ASSUME Data, Locked, Alive, NEW m \in Messages, pc[m] = "lock", Holds(lock, m),
         \A n \in Messages : Place(n) /\ Status(n),
         NEW n \in Messages, kind[n] # "voice"
  PROVE  Ended(n) # "pending"
<1>1. SUFFICES ASSUME Ended(n) = "pending" PROVE FALSE
  OBVIOUS
<1>2. turns[n] = "pending" /\ pc[n] \notin Idle
  BY <1>1 DEF Ended, Attended, Idle, Place
<1>3. pc[n] \in UnderLock
  BY <1>2 DEF Data, Labels, Place, Status, Idle
<1>4. n = m
  BY <1>3 DEF Locked, InOrder, Holds
<1>5. QED
  BY <1>3, <1>4 DEF UnderLock, Asking

(* Whatever steps, the promise is kept.                                    *)
LEMMA SerialStep ==
  ASSUME Data, Locked, NEW m \in Messages, Alone(m),
         \A n \in Messages : Place(n) /\ Status(n), Arrive(m) \/ Answer(m) \/ Job(m)
  PROVE  Serial!Next
<1> USE DEF store, queues, process, At, Goes, Alive
<1>a. Place(m) /\ Status(m) /\ kind' = kind
  BY DEF Alone
<1>b. \A n \in Messages : n # m => Ended(n)' = Ended(n)
  BY DEF Alone, Same, Ended, Attended
<1>1. CASE Arrive(m)
  <2>1. said' = said /\ (Ended(m)' = Ended(m) \/ (Ended(m) = "pending" /\ Ended(m)' \in {"complete", "interrupted"}))
    BY <1>1, <1>a DEF Arrive, Data, Place, Status, UnderLock, Asking, InJob, Ended, Attended, Photos, Voices, Files, Of
  <2>2. QED
    BY <2>1, <1>a, <1>b, EndSteps
<1>2. CASE StartTurn(m)
  <2>1. said' = said /\ Ended(m) = "absent" /\ turns'[m] = "pending"
    BY <1>2, <1>a DEF StartTurn, Data, Place, Status, UnderLock, Asking, InJob, Ended, Attended, Photos, Voices, Files, Of
  <2>2. Ended(m)' = "pending"
    <3>1. pc'[m] \in {"spawned", "load", "append"}
      BY <1>2, <1>a DEF StartTurn, HandsOver, Spawns, Data, Place, Status, UnderLock, Asking, InJob, Ended, Attended, Photos, Voices, Files, Of
    <3>2. QED
      BY <2>1, <3>1 DEF Ended, Attended
  <2>3. Alive /\ pc[m] = "lock" /\ Holds(lock, m)
    BY <1>2, <1>a DEF StartTurn, Data, Place, Status, UnderLock, Asking, InJob, Ended, Attended, Photos, Voices, Files, Of
  <2>4. \A n \in Messages : kind[n] # "voice" => Ended(n) # "pending"
    BY <2>3, LockIsSerial
  <2>5. QED
    BY <2>1, <2>2, <2>4, <1>a, <1>b, BeginSteps
<1>3. CASE AppendUser(m)
  <2>1. /\ Ended(m)' = Ended(m) /\ Writes(m, "user")
        /\ Ended(m) = "pending" \/ (kind[m] = "voice" /\ Ended(m) = "complete")
    BY <1>3, <1>a DEF AppendUser, Writes, Data, Place, Status, UnderLock, Asking, InJob, Ended, Attended, Photos, Voices, Files, Of
  <2>2. QED
    BY <2>1, <1>a, <1>b, SaySteps DEF Writes
<1>4. CASE Load(m)
  <2>1. said' = said /\ (Ended(m)' = Ended(m) \/ (Ended(m) = "pending" /\ Ended(m)' \in {"complete", "interrupted"}))
    BY <1>4, <1>a DEF Load, Quarantines, Data, Place, Status, UnderLock, Asking, InJob, Ended, Attended, Photos, Voices, Files, Of
  <2>2. QED
    BY <2>1, <1>a, <1>b, EndSteps
<1>5. CASE FailedMarker(m)
  <2>1. /\ Ended(m)' = Ended(m) /\ Writes(m, "user")
        /\ Ended(m) = "pending" \/ (kind[m] = "voice" /\ Ended(m) = "complete")
    BY <1>5, <1>a DEF FailedMarker, Writes, Quarantines, Data, Place, Status, UnderLock, Asking, InJob, Ended, Attended, Photos, Voices, Files, Of
  <2>2. QED
    BY <2>1, <1>a, <1>b, SaySteps DEF Writes
<1>6. CASE Failed(m)
  <2>1. said' = said /\ (Ended(m)' = Ended(m) \/ (Ended(m) = "pending" /\ Ended(m)' \in {"complete", "interrupted"}))
    BY <1>6, <1>a DEF Failed, CompleteTurn, Leaves, Unlinks, Data, Place, Status, UnderLock, Asking, InJob, Ended, Attended, Photos, Voices, Files, Of
  <2>2. QED
    BY <2>1, <1>a, <1>b, EndSteps
<1>7. CASE Block(m)
  <2>1. Ended(m)' = Ended(m) /\ Ended(m) = "pending"
    BY <1>7, <1>a DEF Block, Data, Place, Status, UnderLock, Asking, InJob, Ended, Attended, Photos, Voices, Files, Of
  <2>2. CASE Shows(m, "block")
    BY <2>1, <2>2, <1>a, <1>b, SaySteps DEF Shows, Writes
  <2>3. CASE Shows(m, "result")
    <3>1. said' = said
      BY <2>3 DEF Shows
    <3>2. QED
      BY <2>1, <3>1, <1>a, <1>b, EndSteps
  <2>4. QED
    BY <1>7, <2>2, <2>3 DEF Block
<1>8. CASE StreamEnds(m)
  <2>1. said' = said /\ (Ended(m)' = Ended(m) \/ (Ended(m) = "pending" /\ Ended(m)' \in {"complete", "interrupted"}))
    BY <1>8, <1>a DEF StreamEnds, Verdict, Data, Place, Status, UnderLock, Asking, InJob, Ended, Attended, Photos, Voices, Files, Of
  <2>2. QED
    BY <2>1, <1>a, <1>b, EndSteps
<1>9. CASE BridgeError(m)
  <2>1. said' = said /\ (Ended(m)' = Ended(m) \/ (Ended(m) = "pending" /\ Ended(m)' \in {"complete", "interrupted"}))
    BY <1>9, <1>a DEF BridgeError, Data, Place, Status, UnderLock, Asking, InJob, Ended, Attended, Photos, Voices, Files, Of
  <2>2. QED
    BY <2>1, <1>a, <1>b, EndSteps
<1>10. CASE DeadlineCuts(m)
  <2>1. said' = said /\ (Ended(m)' = Ended(m) \/ (Ended(m) = "pending" /\ Ended(m)' \in {"complete", "interrupted"}))
    BY <1>10, <1>a DEF DeadlineCuts, Data, Place, Status, UnderLock, Asking, InJob, Ended, Attended, Photos, Voices, Files, Of
  <2>2. QED
    BY <2>1, <1>a, <1>b, EndSteps
<1>11. CASE Marker(m)
  <2>1. /\ Ended(m)' = Ended(m) /\ Writes(m, "user")
        /\ Ended(m) = "pending" \/ (kind[m] = "voice" /\ Ended(m) = "complete")
    BY <1>11, <1>a DEF Marker, Verdict, Writes, Data, Place, Status, UnderLock, Asking, InJob, Ended, Attended, Photos, Voices, Files, Of
  <2>2. QED
    BY <2>1, <1>a, <1>b, SaySteps DEF Writes
<1>12. CASE Complete(m)
  <2>1. said' = said /\ (Ended(m)' = Ended(m) \/ (Ended(m) = "pending" /\ Ended(m)' \in {"complete", "interrupted"}))
    BY <1>12, <1>a DEF Complete, CompleteTurn, Leaves, Unlinks, Data, Place, Status, UnderLock, Asking, InJob, Ended, Attended, Photos, Voices, Files, Of
  <2>2. QED
    BY <2>1, <1>a, <1>b, EndSteps
<1>13. CASE Interrupt(m)
  <2>1. said' = said /\ (Ended(m)' = Ended(m) \/ (Ended(m) = "pending" /\ Ended(m)' \in {"complete", "interrupted"}))
    BY <1>13, <1>a DEF Interrupt, InterruptTurn, Leaves, Unlinks, Data, Place, Status, UnderLock, Asking, InJob, Ended, Attended, Photos, Voices, Files, Of
  <2>2. QED
    BY <2>1, <1>a, <1>b, EndSteps
<1>14. CASE JobStarts(m)
  <2>1. said' = said /\ (Ended(m)' = Ended(m) \/ (Ended(m) = "pending" /\ Ended(m)' \in {"complete", "interrupted"}))
    BY <1>14, <1>a DEF JobStarts, Data, Place, Status, UnderLock, Asking, InJob, Ended, Attended, Photos, Voices, Files, Of
  <2>2. QED
    BY <2>1, <1>a, <1>b, EndSteps
<1>15. CASE Transcribed(m)
  <2>1. said' = said /\ (Ended(m)' = Ended(m) \/ (Ended(m) = "pending" /\ Ended(m)' \in {"complete", "interrupted"}))
    BY <1>15, <1>a DEF Transcribed, Quarantines, Data, Place, Status, UnderLock, Asking, InJob, Ended, Attended, Photos, Voices, Files, Of
  <2>2. QED
    BY <2>1, <1>a, <1>b, EndSteps
<1>16. CASE TranscriptionFails(m)
  <2>1. said' = said /\ (Ended(m)' = Ended(m) \/ (Ended(m) = "pending" /\ Ended(m)' \in {"complete", "interrupted"}))
    BY <1>16, <1>a DEF TranscriptionFails, Quarantines, Data, Place, Status, UnderLock, Asking, InJob, Ended, Attended, Photos, Voices, Files, Of
  <2>2. QED
    BY <2>1, <1>a, <1>b, EndSteps
<1>17. CASE Apologise(m)
  <2>1. said' = said /\ (Ended(m)' = Ended(m) \/ (Ended(m) = "pending" /\ Ended(m)' \in {"complete", "interrupted"}))
    BY <1>17, <1>a DEF Apologise, Data, Place, Status, UnderLock, Asking, InJob, Ended, Attended, Photos, Voices, Files, Of
  <2>2. QED
    BY <2>1, <1>a, <1>b, EndSteps
<1>18. CASE WriteOff(m)
  <2>1. said' = said /\ (Ended(m)' = Ended(m) \/ (Ended(m) = "pending" /\ Ended(m)' \in {"complete", "interrupted"}))
    BY <1>18, <1>a DEF WriteOff, CompleteTurn, Data, Place, Status, UnderLock, Asking, InJob, Ended, Attended, Photos, Voices, Files, Of
  <2>2. QED
    BY <2>1, <1>a, <1>b, EndSteps
<1>19. CASE SaveTranscript(m)
  <2>1. said' = said /\ (Ended(m)' = Ended(m) \/ (Ended(m) = "pending" /\ Ended(m)' \in {"complete", "interrupted"}))
    BY <1>19, <1>a DEF SaveTranscript, Data, Place, Status, UnderLock, Asking, InJob, Ended, Attended, Photos, Voices, Files, Of
  <2>2. QED
    BY <2>1, <1>a, <1>b, EndSteps
<1>20. CASE Recall(m)
  <2>1. said' = said /\ (Ended(m)' = Ended(m) \/ (Ended(m) = "pending" /\ Ended(m)' \in {"complete", "interrupted"}))
    BY <1>20, <1>a DEF Recall, Data, Place, Status, UnderLock, Asking, InJob, Ended, Attended, Photos, Voices, Files, Of
  <2>2. QED
    BY <2>1, <1>a, <1>b, EndSteps
<1>21. CASE VoiceBlock(m)
  <2>1. Ended(m)' = Ended(m) /\ Ended(m) = "pending"
    BY <1>21, <1>a DEF VoiceBlock, Data, Place, Status, UnderLock, Asking, InJob, Ended, Attended, Photos, Voices, Files, Of
  <2>2. CASE Shows(m, "block")
    BY <2>1, <2>2, <1>a, <1>b, SaySteps DEF Shows, Writes
  <2>3. CASE Shows(m, "result")
    <3>1. said' = said
      BY <2>3 DEF Shows
    <3>2. QED
      BY <2>1, <3>1, <1>a, <1>b, EndSteps
  <2>4. QED
    BY <1>21, <2>2, <2>3 DEF VoiceBlock
<1>22. CASE VoiceStreamEnds(m)
  <2>1. said' = said /\ (Ended(m)' = Ended(m) \/ (Ended(m) = "pending" /\ Ended(m)' \in {"complete", "interrupted"}))
    BY <1>22, <1>a DEF VoiceStreamEnds, Data, Place, Status, UnderLock, Asking, InJob, Ended, Attended, Photos, Voices, Files, Of
  <2>2. QED
    BY <2>1, <1>a, <1>b, EndSteps
<1>23. CASE VoiceComplete(m)
  <2>1. said' = said /\ (Ended(m)' = Ended(m) \/ (Ended(m) = "pending" /\ Ended(m)' \in {"complete", "interrupted"}))
    BY <1>23, <1>a DEF VoiceComplete, CompleteTurn, Data, Place, Status, UnderLock, Asking, InJob, Ended, Attended, Photos, Voices, Files, Of
  <2>2. QED
    BY <2>1, <1>a, <1>b, EndSteps
<1>24. CASE DeadlineCutsJob(m)
  <2>1. said' = said /\ (Ended(m)' = Ended(m) \/ (Ended(m) = "pending" /\ Ended(m)' \in {"complete", "interrupted"}))
    BY <1>24, <1>a DEF DeadlineCutsJob, Persists, Data, Place, Status, UnderLock, Asking, InJob, Ended, Attended, Photos, Voices, Files, Of
  <2>2. QED
    BY <2>1, <1>a, <1>b, EndSteps
<1>25. CASE Emit(m)
  <2>1. said' = said /\ (Ended(m)' = Ended(m) \/ (Ended(m) = "pending" /\ Ended(m)' \in {"complete", "interrupted"}))
    BY <1>25, <1>a DEF Emit, Persists, Data, Place, Status, UnderLock, Asking, InJob, Ended, Attended, Photos, Voices, Files, Of
  <2>2. QED
    BY <2>1, <1>a, <1>b, EndSteps
<1>26. CASE PersistRow(m)
  <2>1. /\ Ended(m)' = Ended(m) /\ Writes(m, "user")
        /\ Ended(m) = "pending" \/ (kind[m] = "voice" /\ Ended(m) = "complete")
    BY <1>26, <1>a DEF PersistRow, Writes, Data, Place, Status, UnderLock, Asking, InJob, Ended, Attended, Photos, Voices, Files, Of
  <2>2. QED
    BY <2>1, <1>a, <1>b, SaySteps DEF Writes
<1>27. CASE PersistStatus(m)
  <2>1. said' = said /\ (Ended(m)' = Ended(m) \/ (Ended(m) = "pending" /\ Ended(m)' \in {"complete", "interrupted"}))
    BY <1>27, <1>a DEF PersistStatus, InterruptTurn, Data, Place, Status, UnderLock, Asking, InJob, Ended, Attended, Photos, Voices, Files, Of
  <2>2. QED
    BY <2>1, <1>a, <1>b, EndSteps
<1>28. CASE JobEnds(m)
  <2>1. said' = said /\ (Ended(m)' = Ended(m) \/ (Ended(m) = "pending" /\ Ended(m)' \in {"complete", "interrupted"}))
    BY <1>28, <1>a DEF JobEnds, Unlinks, Data, Place, Status, UnderLock, Asking, InJob, Ended, Attended, Photos, Voices, Files, Of
  <2>2. QED
    BY <2>1, <1>a, <1>b, EndSteps
<1>29. QED
  BY <1>1, <1>2, <1>3, <1>4, <1>5, <1>6, <1>7, <1>8, <1>9, <1>10, <1>11, <1>12, <1>13, <1>14, <1>15,
     <1>16, <1>17, <1>18, <1>19, <1>20, <1>21, <1>22, <1>23, <1>24, <1>25, <1>26, <1>27, <1>28 DEF Answer, Job

(* The daemon's steps end turns, whoever they were left to.                *)
LEMMA SerialDaemonStep ==
  ASSUME IInv, StopCancels \/ StopCloses \/ Crash \/ Boot
  PROVE  Serial!Next
<1>1. Data /\ \A n \in Messages : Local(n)
  BY Types DEF IInv
<1>2. kind' = kind /\ said' = said
  BY DEF StopCancels, StopCloses, Crash, Boot, Perish, store
<1>3. ASSUME NEW n \in Messages
      PROVE  \/ Ended(n)' = Ended(n)
             \/ Ended(n) = "pending" /\ Ended(n)' \in {"complete", "interrupted"}
  <2>1. Place(n) /\ Status(n)
    BY <1>1 DEF Local
  <2>2. pc[n] \in Labels /\ turns[n] \in {"absent", "pending", "complete", "interrupted"}
    BY <1>1 DEF Data
  <2>3. CASE StopCancels
    <3>1. PICK landed \in SUBSET Cut :
            turns' = [m \in Messages |->
                       IF m \notin landed THEN turns[m]
                       ELSE IF pc[m] = "interrupt" THEN "interrupted" ELSE "complete"]
      BY <2>3 DEF StopCancels
    <3>2. /\ life = "up"
          /\ pc'[n] = IF kind[n] = "voice" /\ pc[n] \in InJob THEN "shield"
                      ELSE IF \/ kind[n] = "scheduled" /\ pc[n] \in {"lock", "append", "load", "interrupt"}
                              \/ pc[n] \in {"spawned", "shield"} THEN "done"
                      ELSE IF kind[n] = "scheduled" /\ pc[n] \in Asking \ {"interrupt"}
                           THEN "interrupt" ELSE pc[n]
          /\ persist'[n] = IF kind[n] = "voice" /\ pc[n] \in InJob THEN Persists(n) ELSE persist[n]
      BY <2>3 DEF StopCancels, Cancelled, Unwound, Dropped, Scheduled, Voices, Of
    <3>3. \/ turns'[n] = turns[n]
          \/ /\ turns'[n] = "complete"
             /\ \/ kind[n] = "voice" /\ pc[n] \in {"write off", "close"}
                \/ kind[n] = "scheduled" /\ pc[n] = "complete"
          \/ turns'[n] = "interrupted" /\ kind[n] = "scheduled" /\ pc[n] = "interrupt"
      BY <3>1 DEF Cut, Scheduled, Voices, Of
    <3>4. QED
      BY <2>1, <2>2, <3>2, <3>3
         DEF Ended, Attended, Place, Status, Persists, UnderLock, Asking, InJob
  <2>4. CASE Perish
    <3>1. /\ turns' = turns /\ persist'[n] = "none"
          /\ pc'[n] = "lost" \/ (pc'[n] = pc[n] /\ pc[n] \in {"new", "done"} /\ persist[n] = "none")
      BY <2>4 DEF Perish, Persisting, store
    <3>2. QED
      BY <2>1, <2>2, <3>1 DEF Ended, Attended, Status
  <2>5. CASE Boot
    <3>1. /\ pc'[n] = pc[n] /\ persist'[n] = persist[n]
          /\ turns'[n] = IF turns[n] = "pending" THEN "interrupted" ELSE turns[n]
      BY <2>5 DEF Boot
    <3>2. pc[n] \in Idle /\ persist[n] = "none"
      BY <2>1, <2>5 DEF Place, Boot
    <3>3. QED
      BY <2>1, <3>1, <3>2 DEF Ended, Attended, Idle
  <2>6. QED
    BY <2>3, <2>4, <2>5 DEF StopCloses, Crash
<1>4. QED
  BY <1>1, <1>2, <1>3, EndSteps

(* Turns implements SerialTurns: one turn at a time is pending under the   *)
(* lock, a turn ends once, and no row of it appears after the end but the  *)
(* last row of a voice message that was completed.                         *)
THEOREM Serialised == Spec => SerialSpec
<1>1. Init => Serial!Init
  BY DEF Init, Serial!Init, Voices, Of
<1>2. IInv /\ [Next]_vars => [Serial!Next]_(Serial!vars)
  <2> SUFFICES ASSUME IInv, [Next]_vars PROVE [Serial!Next]_(Serial!vars)
    OBVIOUS
  <2>1. ASSUME NEW m \in Messages, Arrive(m) \/ Answer(m) \/ Job(m) PROVE Serial!Next
    <3>1. Data /\ Locked /\ \A n \in Messages : Place(n) /\ Status(n)
      BY Types DEF IInv, Local
    <3>2. Alone(m)
      BY <2>1, <3>1, AloneStep
    <3>3. QED
      BY <2>1, <3>1, <3>2, SerialStep
  <2>2. CASE UNCHANGED vars
    BY <2>2 DEF vars, store, queues, process, Serial!vars, Attended, Voices, Of
  <2>3. QED
    BY <2>1, <2>2, SerialDaemonStep DEF Next
<1>3. QED
  BY <1>1, <1>2, Invariant, PTL DEF Spec, SerialSpec, Serial!Spec

=============================================================================
