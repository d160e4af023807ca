-------------------------------- MODULE Turns --------------------------------
(***************************************************************************)
(* ClaudeHandler and ConversationStore: the turns of one chat.  A message  *)
(* is answered under the chat's lock, except that a voice message only     *)
(* begins its turn there and leaves the rest to a background job, which    *)
(* transcribes behind a semaphore, asks a bridge of its own and leaves its *)
(* last writes to a shielded persist task.  Daemon.stop cancels the jobs   *)
(* and drains the persist tasks; a boot interrupts the turns left pending  *)
(* and sweeps the uploads.                                                 *)
(*                                                                         *)
(* An action is the code between two awaits.  The answer of the model is   *)
(* external: any number of blocks, perhaps a result, perhaps an error.     *)
(* What the owner is sent, the artefacts of a turn and the contents of     *)
(* rows are left out; history_limit is, too: a history is every complete   *)
(* turn there was.  A handler whose store call raises is not modelled.     *)
(***************************************************************************)
EXTENDS Naturals, Sequences

CONSTANTS
  Messages,
  Mixes,      \* the kinds the messages may have: functions from Messages to Kinds
  MaxStops,   \* bound: stops of the daemon
  MaxCrashes  \* bound: deaths of the process

(* Text of the owner, a document to be extracted, an image to be decoded,  *)
(* a message of the scheduler's dispatcher, a voice message, no message.   *)
Kinds == {"text", "file", "photo", "scheduled", "voice", "none"}

ASSUME TurnsAssumption ==
  /\ Mixes \subseteq [Messages -> Kinds]
  /\ MaxStops \in Nat /\ MaxCrashes \in Nat

VARIABLES
  kind,     \* what each message is
  turns,    \* the column turns.status
  said,     \* the roles of the rows each turn has in conversations
  seen,     \* the history each turn has loaded
  file,     \* where the upload of each message is
  lock,     \* the chat's lock: its holder, then those waiting for it
  sem,      \* audio_bg_sem, likewise
  line,     \* the semaphore of the audio bridge, likewise
  pc,       \* the await each message's coroutine stands at
  persist,  \* the persist task of each voice message
  result,   \* the turns whose stream has shown a ResultMessage
  life,     \* of the process
  doomed,   \* the turns of the tasks Daemon.stop has cancelled or drains
  cut,      \* the photos whose deadline passed outside the stream
  stops, crashes

store == <<turns, said>>
queues == <<lock, sem, line>>
process == <<kind, life, doomed, cut, stops, crashes>>
vars == <<turns, said, seen, file, queues, pc, persist, result, process>>

Of(k) == {m \in Messages : kind[m] = k}
Files == Of("file")
Photos == Of("photo")
Scheduled == Of("scheduled")
Voices == Of("voice")
Foreground == Messages \ Voices
Uploads == Files \cup Photos \cup Voices

Asking == {"ask", "marker", "excuse", "complete", "interrupt"}
UnderLock == {"append", "load", "failed marker", "failed"} \cup Asking
InJob == {"sem", "save", "recall", "line", "close", "emit", "apologise", "write off"}
Labels == {"new", "lock", "spawned", "shield", "done", "lost"} \cup UnderLock \cup InJob

Completed == {m \in Messages : turns[m] = "complete"}
Holds(q, m) == q # <<>> /\ Head(q) = m
Without(q, m) == LET k == CHOOSE i \in DOMAIN q : q[i] = m
                 IN  SubSeq(q, 1, k - 1) \o SubSeq(q, k + 1, Len(q))
Released(q, m) == IF Holds(q, m) THEN Tail(q) ELSE q
Alive == life \in {"up", "stopping"}

Init ==
  /\ kind \in Mixes
  /\ turns = [m \in Messages |-> "absent"]
  /\ said = [m \in Messages |-> {}]
  /\ seen = [m \in Messages |-> {}]
  /\ file = [m \in Messages |-> IF m \in Uploads THEN "tmp" ELSE "gone"]
  /\ lock = <<>> /\ sem = <<>> /\ line = <<>>
  /\ pc = [m \in Messages |-> "new"]
  /\ persist = [m \in Messages |-> "none"]
  /\ result = {}
  /\ life = "up" /\ doomed = {} /\ cut = {}
  /\ stops = 0 /\ crashes = 0

-----------------------------------------------------------------------------
(* Steps of one coroutine.                                                 *)

At(m, label) == Alive /\ pc[m] = label
Goes(m, label) == pc' = [pc EXCEPT ![m] = label]
Writes(m, role) == said' = [said EXCEPT ![m] = @ \cup {role}]

(* Variant: interrupt_turn as unconditional as complete_turn.              *)
InterruptTurnAlways(m) == turns' = [turns EXCEPT ![m] = "interrupted"]

(* UPDATE turns: complete_turn looks at no status, interrupt_turn does.    *)
CompleteTurn(m) == turns' = [turns EXCEPT ![m] = "complete"]
InterruptTurn(m) == turns' = [turns EXCEPT ![m] = IF @ = "pending" THEN "interrupted" ELSE @]

(* The upload goes at the end of its turn, unless it has been moved away.  *)
Unlinks(m) == file' = [file EXCEPT ![m] = IF @ = "tmp" THEN "gone" ELSE @]
Quarantines(m) == file' = [file EXCEPT ![m] = "kept"]

-----------------------------------------------------------------------------
(* Turns answered under the lock.                                          *)

(* The adapter or the dispatcher calls handle; the dispatcher waits for it. *)
Arrive(m) ==
  /\ life = "up" /\ pc[m] = "new" /\ kind[m] # "none"
  /\ m \in Scheduled => \A n \in Scheduled : pc[n] \in {"new", "done", "lost"}
  /\ lock' = Append(lock, m)
  /\ Goes(m, "lock")
  /\ UNCHANGED <<store, seen, file, sem, line, persist, result, process>>

(* Daemon.spawn_audio_task: a task of the job that has not run yet.        *)
Spawns(m) == Goes(m, "spawned")

(* A voice turn leaves the lock to its job: the dispatch awaits nothing.   *)
HandsOver(m) == Spawns(m) /\ lock' = Released(lock, m)

(* start_turn.  The row of a photo waits for what the model saw.           *)
StartTurn(m) ==
  /\ At(m, "lock") /\ Holds(lock, m)
  /\ turns' = [turns EXCEPT ![m] = "pending"]
  /\ \/ m \in Voices /\ HandsOver(m)
     \/ m \in Photos /\ Goes(m, "load") /\ UNCHANGED lock
     \/ m \notin Voices \cup Photos /\ Goes(m, "append") /\ UNCHANGED lock
  /\ UNCHANGED <<said, seen, file, sem, line, persist, result, process>>

AppendUser(m) ==
  /\ At(m, "append")
  /\ Writes(m, "user")
  /\ Goes(m, "load")
  /\ UNCHANGED <<turns, seen, file, queues, persist, result, process>>

(* Variant: a file that could not be extracted goes with its turn.         *)
LoadKeepsNothing(m) ==
  /\ At(m, "load")
  /\ seen' = [seen EXCEPT ![m] = Completed]
  /\ Goes(m, "ask") \/ (m \in Files /\ Goes(m, "failed"))
                    \/ (m \in Photos /\ Goes(m, "failed marker"))
  /\ UNCHANGED <<store, file, queues, persist, result, process>>

(* load_recent, then the attachment is read: an extraction may fail and    *)
(* move its file away, an image may not decode.                            *)
Load(m) ==
  /\ At(m, "load")
  /\ seen' = [seen EXCEPT ![m] = Completed]
  /\ \/ Goes(m, "ask") /\ UNCHANGED file
     \/ m \in Files /\ Quarantines(m) /\ Goes(m, "failed")
     \/ m \in Photos /\ Goes(m, "failed marker") /\ UNCHANGED file
  /\ UNCHANGED <<store, queues, persist, result, process>>

FailedMarker(m) ==
  /\ At(m, "failed marker")
  /\ Writes(m, "user")
  /\ Quarantines(m)
  /\ Goes(m, "failed")
  /\ UNCHANGED <<turns, seen, queues, persist, result, process>>

(* The end of a turn under the lock.                                       *)
Leaves(m) ==
  /\ lock' = Released(lock, m)
  /\ Unlinks(m)
  /\ Goes(m, "done")
  /\ UNCHANGED <<said, seen, sem, line, persist, result, process>>

Failed(m) == At(m, "failed") /\ CompleteTurn(m) /\ Leaves(m)

(* bridge.ask yields blocks and ResultMessages, one of each iteration of   *)
(* the model, and never ends with the first: a block may follow a result.  *)
Shows(m, what) ==
  IF what = "result" THEN result' = result \cup {m} /\ UNCHANGED said
                     ELSE Writes(m, "assistant") /\ UNCHANGED result

(* What the stream shows is stored before more of it is read.              *)
Block(m) ==
  /\ At(m, "ask")
  /\ \E what \in {"block", "result"} : Shows(m, what)
  /\ UNCHANGED <<turns, seen, file, queues, pc, persist, process>>

(* A turn whose stream showed no result is interrupted.                    *)
Verdict(m) == IF m \in result THEN "complete" ELSE "interrupt"

StreamEnds(m) ==
  /\ At(m, "ask")
  /\ Goes(m, IF m \in Photos THEN "marker" ELSE Verdict(m))
  /\ UNCHANGED <<store, seen, file, queues, persist, result, process>>

(* Variant: an error loses the row of a photo.                             *)
BridgeErrorSkipsMarker(m) ==
  /\ At(m, "ask")
  /\ Goes(m, "interrupt")
  /\ UNCHANGED <<store, seen, file, queues, persist, result, process>>

BridgeError(m) ==
  /\ At(m, "ask")
  /\ Goes(m, IF m \in Photos THEN "excuse" ELSE "interrupt")
  /\ UNCHANGED <<store, seen, file, queues, persist, result, process>>

(* bridge.ask is a generator, and the asyncio.timeout in it was entered by *)
(* the task that reads it: a deadline that passes while a block is stored  *)
(* or a document sent cancels the handler there, and no error is caught.   *)
DeadlineCuts(m) ==
  /\ At(m, "ask")
  /\ Goes(m, "interrupt")
  /\ cut' = cut \cup ({m} \cap Photos)
  /\ UNCHANGED <<store, seen, file, queues, persist, result, kind, life, doomed, stops, crashes>>

(* The row of a photo, after an answer and after an error.                 *)
Marker(m) ==
  /\ At(m, "marker") \/ At(m, "excuse")
  /\ Writes(m, "user")
  /\ Goes(m, IF pc[m] = "marker" THEN Verdict(m) ELSE "interrupt")
  /\ UNCHANGED <<turns, seen, file, queues, persist, result, process>>

(* Variant: the lock is left before complete_turn has been awaited.        *)
CompleteOutsideLock(m) ==
  /\ At(m, "complete")
  /\ IF Holds(lock, m)
     THEN lock' = Tail(lock) /\ UNCHANGED <<turns, file, pc>>
     ELSE CompleteTurn(m) /\ Unlinks(m) /\ Goes(m, "done") /\ UNCHANGED lock
  /\ UNCHANGED <<said, seen, sem, line, persist, result, process>>

Complete(m) == At(m, "complete") /\ CompleteTurn(m) /\ Leaves(m)
Interrupt(m) == At(m, "interrupt") /\ InterruptTurn(m) /\ Leaves(m)

-----------------------------------------------------------------------------
(* The background job of a voice message.                                  *)

JobStarts(m) ==
  /\ At(m, "spawned")
  /\ sem' = Append(sem, m)
  /\ Goes(m, "sem")
  /\ UNCHANGED <<store, seen, file, lock, line, persist, result, process>>

(* The sidecar answers and the semaphore is left; a transcript may be      *)
(* saved to the vault, or be of a recording that is too long.              *)
Transcribed(m) ==
  /\ At(m, "sem") /\ Holds(sem, m)
  /\ sem' = Tail(sem)
  /\ \/ (Goes(m, "save") \/ Goes(m, "recall")) /\ UNCHANGED file
     \/ Quarantines(m) /\ Goes(m, "apologise")
  /\ UNCHANGED <<store, seen, lock, line, persist, result, process>>

(* A failed transcription is dealt with before the semaphore is left.      *)
TranscriptionFails(m) ==
  /\ At(m, "sem") /\ Holds(sem, m)
  /\ Quarantines(m)
  /\ Goes(m, "apologise")
  /\ UNCHANGED <<store, seen, queues, persist, result, process>>

Apologise(m) ==
  /\ At(m, "apologise")
  /\ Goes(m, "write off")
  /\ UNCHANGED <<store, seen, file, queues, persist, result, process>>

WriteOff(m) ==
  /\ At(m, "write off")
  /\ CompleteTurn(m)
  /\ sem' = Released(sem, m)
  /\ Goes(m, "done")
  /\ UNCHANGED <<said, seen, file, lock, line, persist, result, process>>

SaveTranscript(m) ==
  /\ At(m, "save")
  /\ Goes(m, "recall")
  /\ UNCHANGED <<store, seen, file, queues, persist, result, process>>

Recall(m) ==
  /\ At(m, "recall")
  /\ seen' = [seen EXCEPT ![m] = Completed]
  /\ line' = Append(line, m)
  /\ Goes(m, "line")
  /\ UNCHANGED <<store, file, lock, sem, persist, result, process>>

VoiceBlock(m) ==
  /\ At(m, "line") /\ Holds(line, m)
  /\ \E what \in {"block", "result"} : Shows(m, what)
  /\ UNCHANGED <<turns, seen, file, queues, pc, persist, process>>

(* The stream ends, or fails: then nothing is completed.                   *)
VoiceStreamEnds(m) ==
  /\ At(m, "line") /\ Holds(line, m)
  /\ line' = Tail(line)
  /\ Goes(m, "emit") \/ (m \in result /\ Goes(m, "close"))
  /\ UNCHANGED <<store, seen, file, lock, sem, persist, result, process>>

VoiceComplete(m) ==
  /\ At(m, "close")
  /\ CompleteTurn(m)
  /\ Goes(m, "emit")
  /\ UNCHANGED <<said, seen, file, queues, persist, result, process>>

(* What the finally of a job leaves to its persist task: the row, and the  *)
(* status of a turn the job has not completed.                             *)
Persists(m) == IF turns[m] = "complete" THEN "last row" ELSE "row"

(* emit_direct returns; the job waits, shielded, for its persist task.     *)
Emit(m) ==
  /\ At(m, "emit")
  /\ persist' = [persist EXCEPT ![m] = Persists(m)]
  /\ Goes(m, "shield")
  /\ UNCHANGED <<store, seen, file, queues, result, process>>

(* The deadline cuts a job where it would cut a handler: the finally hands *)
(* over to the persist task, and nothing is emitted.                       *)
DeadlineCutsJob(m) ==
  /\ At(m, "line") /\ Holds(line, m)
  /\ line' = Tail(line)
  /\ persist' = [persist EXCEPT ![m] = Persists(m)]
  /\ Goes(m, "shield")
  /\ UNCHANGED <<store, seen, file, lock, sem, result, process>>

(* Variant: the persist task forgets the status.                           *)
PersistRowOnly(m) ==
  /\ Alive /\ persist[m] \in {"row", "last row"}
  /\ Writes(m, "user")
  /\ persist' = [persist EXCEPT ![m] = "none"]
  /\ UNCHANGED <<turns, seen, file, queues, pc, result, process>>

PersistRow(m) ==
  /\ Alive /\ persist[m] \in {"row", "last row"}
  /\ Writes(m, "user")
  /\ persist' = [persist EXCEPT ![m] = IF @ = "row" THEN "status" ELSE "none"]
  /\ UNCHANGED <<turns, seen, file, queues, pc, result, process>>

PersistStatus(m) ==
  /\ Alive /\ persist[m] = "status"
  /\ InterruptTurn(m)
  /\ persist' = [persist EXCEPT ![m] = "none"]
  /\ UNCHANGED <<said, seen, file, queues, pc, result, process>>

JobEnds(m) ==
  /\ At(m, "shield") /\ persist[m] = "none"
  /\ Unlinks(m)
  /\ Goes(m, "done")
  /\ UNCHANGED <<store, seen, queues, persist, result, process>>

-----------------------------------------------------------------------------
(* The daemon stops, dies and boots.                                       *)

Cancelled == {m \in Voices : pc[m] \in InJob}
Persisting == {m \in Messages : persist[m] # "none"}
Unwound == {m \in Scheduled : pc[m] \in Asking \ {"interrupt"}}
Dropped == {m \in Scheduled : pc[m] \in {"lock", "append", "load", "interrupt"}}

(* An UPDATE a cancellation cuts may have been made; an INSERT is taken as *)
(* lost, its turn is nobody's in any case.                                 *)
Cut == {m \in Voices : pc[m] \in {"write off", "close"}}
         \cup {m \in Scheduled : pc[m] \in {"complete", "interrupt"}}

(* Daemon.stop: no more messages, then every background task is cancelled. *)
(* A job that has begun goes to its finally, one that has not is gone, one *)
(* that waits for its persist task leaves it; the dispatcher's turn is     *)
(* interrupted if its stream has begun.                                    *)
StopCancels ==
  /\ life = "up" /\ stops < MaxStops
  /\ life' = "stopping" /\ stops' = stops + 1
  /\ doomed' = Cancelled \cup Unwound \cup Persisting
  /\ \E landed \in SUBSET Cut :
       turns' = [m \in Messages |->
                  IF m \notin landed THEN turns[m]
                  ELSE IF pc[m] = "interrupt" THEN "interrupted" ELSE "complete"]
  /\ pc' = [m \in Messages |->
              IF m \in Cancelled THEN "shield"
              ELSE IF m \in Dropped \/ pc[m] \in {"spawned", "shield"} THEN "done"
              ELSE IF m \in Unwound THEN "interrupt"
              ELSE pc[m]]
  /\ persist' = [m \in Messages |-> IF m \in Cancelled THEN Persists(m) ELSE persist[m]]
  /\ file' = [m \in Messages |->
                IF pc[m] = "shield" /\ file[m] = "tmp" THEN "gone" ELSE file[m]]
  /\ IF Dropped = {} THEN UNCHANGED lock ELSE \E m \in Dropped : lock' = Without(lock, m)
  /\ sem' = <<>> /\ line' = <<>>
  /\ UNCHANGED <<said, seen, result, kind, cut, crashes>>

(* A task dies with the loop it runs in.                                   *)
Perish ==
  /\ pc' = [m \in Messages |->
              IF pc[m] \in {"new", "done"} /\ m \notin Persisting THEN pc[m] ELSE "lost"]
  /\ persist' = [m \in Messages |-> "none"]
  /\ lock' = <<>> /\ sem' = <<>> /\ line' = <<>>
  /\ doomed' = {}
  /\ UNCHANGED <<store, seen, file, result, kind, cut>>

(* Variant: the connection is closed without the drain.                    *)
StopClosesUndrained ==
  /\ life = "stopping"
  /\ \A m \in doomed : pc[m] \in {"done", "shield"}
  /\ life' = "stopped"
  /\ Perish
  /\ UNCHANGED <<stops, crashes>>

(* Daemon.stop has waited for what it cancelled and for the persist tasks, *)
(* and closes the connection.  A drain that runs out of time is a Crash.   *)
StopCloses ==
  /\ life = "stopping"
  /\ \A m \in doomed : pc[m] = "done" /\ m \notin Persisting
  /\ life' = "stopped"
  /\ Perish
  /\ UNCHANGED <<stops, crashes>>

Crash ==
  /\ Alive /\ crashes < MaxCrashes
  /\ crashes' = crashes + 1 /\ life' = "dead"
  /\ Perish
  /\ UNCHANGED stops

(* Daemon.start: the sweep of the uploads, cleanup_orphan_pending_turns.   *)
Boot ==
  /\ ~Alive
  /\ life' = "up"
  /\ file' = [m \in Messages |-> IF pc[m] # "new" /\ file[m] = "tmp" THEN "gone" ELSE file[m]]
  /\ turns' = [m \in Messages |-> IF turns[m] = "pending" THEN "interrupted" ELSE turns[m]]
  /\ UNCHANGED <<said, seen, queues, pc, persist, result, kind, doomed, cut, stops, crashes>>

Answer(m) ==
  \/ StartTurn(m) \/ AppendUser(m) \/ Load(m) \/ FailedMarker(m) \/ Failed(m)
  \/ Block(m) \/ StreamEnds(m) \/ BridgeError(m) \/ DeadlineCuts(m) \/ Marker(m)
  \/ Complete(m) \/ Interrupt(m)

Job(m) ==
  \/ JobStarts(m) \/ Transcribed(m) \/ TranscriptionFails(m) \/ Apologise(m) \/ WriteOff(m)
  \/ SaveTranscript(m) \/ Recall(m) \/ VoiceBlock(m) \/ VoiceStreamEnds(m) \/ VoiceComplete(m)
  \/ DeadlineCutsJob(m) \/ Emit(m) \/ PersistRow(m) \/ PersistStatus(m) \/ JobEnds(m)

Next ==
  \/ \E m \in Messages : Arrive(m) \/ Answer(m) \/ Job(m)
  \/ StopCancels \/ StopCloses \/ Crash \/ Boot

Spec == Init /\ [][Next]_vars

(* One event loop runs every coroutine, the bridge ends a stream by its    *)
(* timeout, the sidecar by its own; systemd restarts the process.          *)
FairSpec ==
  /\ Spec
  /\ \A m \in Messages : WF_vars(Answer(m) \/ Job(m))
  /\ WF_vars(StopCloses) /\ WF_vars(Boot)

-----------------------------------------------------------------------------
(* Properties.                                                             *)

(* Every variable has its type.                                            *)
TypeOK ==
  /\ kind \in [Messages -> Kinds]
  /\ turns \in [Messages -> {"absent", "pending", "complete", "interrupted"}]
  /\ said \in [Messages -> SUBSET {"user", "assistant"}]
  /\ seen \in [Messages -> SUBSET Messages]
  /\ file \in [Messages -> {"tmp", "kept", "gone"}]
  /\ lock \in Seq(Messages) /\ sem \in Seq(Messages) /\ line \in Seq(Messages)
  /\ pc \in [Messages -> Labels]
  /\ persist \in [Messages -> {"none", "row", "last row", "status"}]
  /\ result \in SUBSET Messages
  /\ life \in {"up", "stopping", "stopped", "dead"}
  /\ doomed \in SUBSET Messages /\ cut \in SUBSET Messages
  /\ stops \in 0..MaxStops /\ crashes \in 0..MaxCrashes

(* Somebody who will end it attends to a turn.                             *)
Attended(m) == pc[m] \notin {"new", "done", "lost"} \/ persist[m] # "none"

(* The history a turn was given is still the conversation when it answers: *)
(* no other turn under the lock has completed since it was loaded.         *)
HistoryIsCurrent ==
  \A m \in Foreground :
    Alive /\ pc[m] \in Asking => (Completed \ {m}) \cap Foreground \subseteq seen[m]

(* Whatever became of it, a turn the model has spoken in keeps the row of  *)
(* what the owner sent, unless the process died under it: but not a photo  *)
(* whose handler the deadline of its stream has cut.                       *)
UserRowSurvives ==
  \A m \in Messages \ cut :
    pc[m] = "done" /\ "assistant" \in said[m] => "user" \in said[m] \/ Attended(m)

(* An upload that could not be read is kept for inspection, any other is   *)
(* gone when its turn is over; none stays in the uploads directory.        *)
UploadIsSettled ==
  life = "up" => \A m \in Uploads :
    pc[m] \in {"done", "lost"} =>
      IF turns[m] = "complete" /\ m \notin result THEN file[m] = "kept" ELSE file[m] # "tmp"

(* An orderly stop loses nothing a cancelled job had to write: the turn    *)
(* has ended and the owner's message is on record.                         *)
StopDrains ==
  [][life = "stopping" /\ life' = "stopped" =>
       \A m \in doomed : turns[m] # "pending" /\ "user" \in said[m]]_vars

(* Every turn ends, in this life of the process or at the next boot: none  *)
(* stays pending for ever.                                                 *)
TurnEnds == \A m \in Messages : []<>(turns[m] # "pending")

(* The promise of SerialTurns, where a pending turn nobody attends counts  *)
(* as interrupted already: no row of it may appear, it may not complete.   *)
Serial == INSTANCE SerialTurns
            WITH Turns <- Messages, background <- Voices,
                 turns <- [m \in Messages |->
                             IF turns[m] = "pending" /\ ~Attended(m)
                             THEN "interrupted" ELSE turns[m]]
SerialSpec == Serial!Spec
=============================================================================
