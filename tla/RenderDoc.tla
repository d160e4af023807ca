----------------------------- MODULE RenderDoc -----------------------------
(***************************************************************************)
(* Documents that a turn renders for the owner: the calls of the tool      *)
(* render_doc, the ledger of artefacts, their delivery by the turn, the    *)
(* three-phase sweeper, cancelled renders, the drain of Daemon.stop and    *)
(* the cleanup of the next start.                                          *)
(*                                                                         *)
(* A render is named by the uuid of its file.  The owner's turns are       *)
(* served one at a time, and one turn may call the tool several times at   *)
(* once.  The ledger's lock is never held across an await, so each section *)
(* under it is part of one action.  The writing of a file runs in a        *)
(* thread, which no cancellation reaches.                                  *)
(***************************************************************************)
EXTENDS Naturals, FiniteSets, Sequences

CONSTANTS Renders,   \* uuids of the files that may be rendered
          Names,     \* suggested file names
          NameOf,    \* the suggested name of each render
          Slots,     \* render_max_concurrent
          MaxTurns,  \* bound: turns of the owner
          MaxFaults, \* bound: files that cannot be unlinked, messages that fail
          MaxLives   \* bound: lives of the process

ASSUME NameOfAssumption == NameOf \in [Renders -> Names]
ASSUME SlotsAssumption == Slots \in Nat \ {0}
ASSUME BoundsAssumption == MaxTurns \in Nat /\ MaxFaults \in Nat /\ MaxLives \in Nat

VARIABLES
  call,     \* how far the tool call of a render is
  thread,   \* renders whose writing thread runs
  files,    \* renders whose file is in the artefact directory
  ledger,   \* the record of a render: its delivery, and whether the ttl is over
  turn,     \* what the owner's turn awaits
  pending,  \* pending_artefacts of the turn
  at,       \* the artefact of pending that is being delivered
  spc,      \* the phase of the sweeper
  doomed,   \* the sweeper's snapshot, later its deleted_paths
  up,       \* the daemon: running, draining, without adapter, off
  drain,    \* the calls that Daemon.stop waits for
  heard,    \* messages to the owner about a render
  turns, faults, lives

vars == <<call, thread, files, ledger, turn, pending, at, spc, doomed, up, drain,
          heard, turns, faults, lives>>

turnVars  == <<turn, pending, at, heard, turns>>
sweepVars == <<spc, doomed>>
lifeVars  == <<up, drain, lives>>

Running == {r \in Renders : call[r] \in {"pandoc", "writing"}}
Open    == {r \in Renders : call[r] \in {"queued", "pandoc", "writing"}}
Undelivered == {pending[i] : i \in (at + 1)..Len(pending)}

Init ==
  /\ call = [r \in Renders |-> "none"] /\ ledger = [r \in Renders |-> "absent"]
  /\ thread = {} /\ files = {} /\ doomed = {} /\ drain = {}
  /\ turn = "none" /\ pending = <<>> /\ at = 0 /\ spc = "sleep" /\ up = "on"
  /\ heard = [r \in Renders |-> 0]
  /\ turns = 0 /\ faults = 0 /\ lives = 1

----------------------------------------------------------------------------
(* The tool call.                                                          *)

(* The model calls the tool.                                               *)
Call(r) ==
  /\ turn = "stream" /\ call[r] = "none"
  /\ call' = [call EXCEPT ![r] = "queued"]
  /\ UNCHANGED <<thread, files, ledger, turnVars, sweepVars, lifeVars, faults>>

(* A failed result: of it the model is told, and nobody else.              *)
Fails(r) == call' = [call EXCEPT ![r] = "failed"]

(* The refusals before the semaphore: a format that is disabled, an input  *)
(* over its cap.                                                           *)
Refuse(r) ==
  /\ turn = "stream" /\ call[r] = "none"
  /\ Fails(r)
  /\ UNCHANGED <<thread, files, ledger, turnVars, sweepVars, lifeVars, faults>>

TakeSlot(r) ==
  /\ call[r] = "queued" /\ Cardinality(Running) < Slots
  /\ call' = [call EXCEPT ![r] = "pandoc"]
  /\ UNCHANGED <<thread, files, ledger, turnVars, sweepVars, lifeVars, faults>>

(* The converter's subprocess has ended; the file is written in a thread.  *)
(* (For docx the subprocess writes the file, and is killed with its call.) *)
StartWriting(r) ==
  /\ call[r] = "pandoc"
  /\ call' = [call EXCEPT ![r] = "writing"]
  /\ thread' = thread \cup {r}
  /\ UNCHANGED <<files, ledger, turnVars, sweepVars, lifeVars, faults>>

ThreadWrites(r) ==
  /\ r \in thread
  /\ thread' = thread \ {r} /\ files' = files \cup {r}
  /\ UNCHANGED <<call, ledger, turnVars, sweepVars, lifeVars, faults>>

Recorded(r) == [ledger EXCEPT ![r] = "inflight"]

(* _dispatch after the renderer: register_artefact, audit, ok envelope.    *)
Register(r) ==
  /\ call[r] = "writing" /\ r \notin thread /\ r \in files
  /\ ledger' = Recorded(r)
  /\ call' = [call EXCEPT ![r] = "result"]
  /\ UNCHANGED <<thread, files, turnVars, sweepVars, lifeVars, faults>>

(* The renderer has raised: _dispatch unlinks what there is of the file.   *)
Raised(r) ==
  /\ files' = files \ {r} /\ Fails(r)
  /\ UNCHANGED <<ledger, turnVars, sweepVars, lifeVars, faults>>

(* The converter fails, or is killed when its time is over.                *)
ConverterFails(r) == call[r] = "pandoc" /\ Raised(r) /\ UNCHANGED thread

(* The thread raises, or its time is over and it goes on, or the file it   *)
(* has written is over its cap.                                            *)
WriterFails(r) ==
  /\ call[r] = "writing" /\ Raised(r)
  /\ thread' \in {thread, thread \ {r}}

SameNameInFlight(r) ==
  {q \in Renders : ledger[q] = "inflight" /\ NameOf[q] = NameOf[r]}

(* The branch of render for CancelledError, while _dispatch has been       *)
(* unlinking its own file: every record in flight with the same name goes. *)
Purge(r) ==
  /\ files' = files \ ({r} \cup SameNameInFlight(r))
  /\ ledger' = [q \in Renders |-> IF q \in SameNameInFlight(r) THEN "absent" ELSE ledger[q]]

(* The tool's wait_for times out, the session cancels the call, or         *)
(* Daemon.stop does.  A call that waits for its slot has nothing to undo.  *)
CallCancelled(r) ==
  /\ r \in Open
  /\ call' = [call EXCEPT ![r] = "cancelled"]
  /\ \/ call[r] = "queued" /\ UNCHANGED <<files, ledger>>
     \/ call[r] # "queued" /\ Purge(r)
  /\ UNCHANGED <<thread, turnVars, sweepVars, lifeVars, faults>>

----------------------------------------------------------------------------
(* The turn.                                                               *)

TurnStarts ==
  /\ up # "off" /\ turn = "none" /\ turns < MaxTurns
  /\ turn' = "stream" /\ pending' = <<>> /\ at' = 0 /\ turns' = turns + 1
  /\ UNCHANGED <<call, thread, files, ledger, sweepVars, lifeVars, heard, faults>>

(* The envelope names an artefact.                                         *)
Artefact(r) == call[r] = "result"

(* It comes by in the stream: the bridge yields an ArtefactBlock for it.   *)
ResultSeen(r) ==
  /\ turn = "stream" /\ Artefact(r)
  /\ pending' = Append(pending, r)
  /\ call' = [call EXCEPT ![r] = "over"]
  /\ UNCHANGED <<thread, files, ledger, turn, at, heard, turns, sweepVars, lifeVars, faults>>

(* A ResultMessage, or the end of the stream: _flush_artefacts begins.     *)
FlushStarts ==
  /\ turn = "stream" /\ pending # <<>>
  /\ turn' = "send" /\ at' = 0
  /\ UNCHANGED <<call, thread, files, ledger, pending, heard, turns, sweepVars, lifeVars, faults>>

Current == pending[at + 1]
Tell(r) == heard' = [heard EXCEPT ![r] = @ + 1]

(* send_document looks at the file: of one that is gone it says nothing.   *)
SendDocument ==
  /\ turn = "send"
  /\ turn' = IF Current \in files THEN "upload" ELSE "mark"
  /\ UNCHANGED <<call, thread, files, ledger, pending, at, heard, turns, sweepVars, lifeVars, faults>>

(* The bot reads the file and sends it (or says that it is too large).     *)
Upload ==
  /\ turn = "upload" /\ up \in {"on", "drain"} /\ Current \in files
  /\ Tell(Current) /\ turn' = "mark"
  /\ UNCHANGED <<call, thread, files, ledger, pending, at, turns, sweepVars, lifeVars, faults>>

(* It cannot, and the owner is told so; that message is best effort if the *)
(* file is there.                                                          *)
UploadFails ==
  /\ turn = "upload" /\ turn' = "mark"
  /\ \/ Current \notin files /\ up \in {"on", "drain"} /\ Tell(Current) /\ UNCHANGED faults
     \/ Current \in files /\ faults < MaxFaults /\ faults' = faults + 1
        /\ (Tell(Current) \/ UNCHANGED heard)
     \/ Current \in files /\ up = "closed" /\ UNCHANGED <<heard, faults>>
  /\ UNCHANGED <<call, thread, files, ledger, pending, at, turns, sweepVars, lifeVars>>

Delivered(r) == IF ledger[r] = "absent" THEN ledger ELSE [ledger EXCEPT ![r] = "delivered"]

(* Variant: the list is not cleared.                                       *)
MarkKeepsList ==
  /\ turn = "mark" /\ ledger' = Delivered(Current)
  /\ IF at + 1 < Len(pending)
     THEN turn' = "send" /\ at' = at + 1
     ELSE turn' = "stream" /\ at' = 0
  /\ UNCHANGED <<call, thread, files, pending, heard, turns, sweepVars, lifeVars, faults>>

(* mark_delivered, in the finally of each artefact; after the last one the *)
(* list is cleared.                                                        *)
Mark ==
  /\ turn = "mark" /\ ledger' = Delivered(Current)
  /\ IF at + 1 < Len(pending)
     THEN turn' = "send" /\ at' = at + 1 /\ UNCHANGED pending
     ELSE turn' = "stream" /\ at' = 0 /\ pending' = <<>>
  /\ UNCHANGED <<call, thread, files, heard, turns, sweepVars, lifeVars, faults>>

(* Of a file that vanished meanwhile the notice is not best effort: when   *)
(* it raises, the record is marked and the turn dies with what is left of  *)
(* the list.                                                               *)
NoticeRaises ==
  /\ turn = "upload" /\ Current \notin files
  /\ \/ up = "closed" /\ UNCHANGED faults
     \/ faults < MaxFaults /\ faults' = faults + 1
  /\ ledger' = Delivered(Current)
  /\ turn' = "none" /\ pending' = <<>> /\ at' = 0
  /\ UNCHANGED <<call, thread, files, heard, turns, sweepVars, lifeVars>>

StreamEnds ==
  /\ turn = "stream" /\ pending = <<>> /\ turn' = "none"
  /\ UNCHANGED <<call, thread, files, ledger, pending, at, heard, turns, sweepVars, lifeVars, faults>>

(* A ClaudeBridgeError, or any other exception in the stream: what was not *)
(* delivered is dropped, and its records stay in flight.                   *)
StreamDies ==
  /\ turn = "stream"
  /\ turn' = "none" /\ pending' = <<>> /\ at' = 0
  /\ UNCHANGED <<call, thread, files, ledger, heard, turns, sweepVars, lifeVars, faults>>

----------------------------------------------------------------------------
(* The sweeper, and the passing of artefact_ttl_s.                         *)

Expire(r) ==
  /\ ledger[r] = "delivered" /\ ledger' = [ledger EXCEPT ![r] = "expired"]
  /\ UNCHANGED <<call, thread, files, turnVars, sweepVars, lifeVars, faults>>

Expired == {r \in Renders : ledger[r] = "expired"}

(* Variant: the snapshot takes records in flight too.                      *)
SweepSnapshotAll ==
  /\ spc = "sleep" /\ up # "off"
  /\ doomed' = {r \in Renders : ledger[r] # "absent"} /\ doomed' # {} /\ spc' = "unlink"
  /\ UNCHANGED <<call, thread, files, ledger, turnVars, lifeVars, faults>>

SweepSnapshot ==
  /\ spc = "sleep" /\ up # "off"
  /\ Expired # {} /\ doomed' = Expired /\ spc' = "unlink"
  /\ UNCHANGED <<call, thread, files, ledger, turnVars, lifeVars, faults>>

(* Variant: a file that cannot be unlinked ends the loop.                  *)
SweepUnlinkRaises ==
  /\ spc = "unlink"
  /\ \E kept \in SUBSET (doomed \cap files) :
       /\ kept # {} => faults < MaxFaults
       /\ faults' = IF kept = {} THEN faults ELSE faults + 1
       /\ spc' = IF kept = {} THEN "pop" ELSE "ended"
       /\ doomed' = doomed \ kept /\ files' = files \ (doomed \ kept)
  /\ UNCHANGED <<call, thread, ledger, turnVars, lifeVars>>

(* Unlinking is synchronous; a file that cannot be unlinked is kept for    *)
(* the next pass.                                                          *)
SweepUnlink ==
  /\ spc = "unlink" /\ spc' = "pop"
  /\ \E kept \in SUBSET (doomed \cap files) :
       /\ kept # {} => faults < MaxFaults
       /\ faults' = IF kept = {} THEN faults ELSE faults + 1
       /\ doomed' = doomed \ kept /\ files' = files \ (doomed \ kept)
  /\ UNCHANGED <<call, thread, ledger, turnVars, lifeVars>>

SweepPop ==
  /\ spc = "pop"
  /\ ledger' = [r \in Renders |-> IF r \in doomed /\ ledger[r] # "inflight"
                                  THEN "absent" ELSE ledger[r]]
  /\ doomed' = {} /\ spc' = "sleep"
  /\ UNCHANGED <<call, thread, files, turnVars, lifeVars, faults>>

----------------------------------------------------------------------------
(* Daemon.stop, a death, and the next start.                               *)

StopDrains ==
  /\ up = "on" /\ up' = "drain" /\ drain' = Open
  /\ UNCHANGED <<call, thread, files, ledger, turnVars, sweepVars, lives, faults>>

(* The calls of the snapshot have ended, of themselves or cancelled when   *)
(* the drain's budget was spent (CallCancelled); the adapter is stopped.   *)
StopAdapter ==
  /\ up = "drain" /\ drain \cap Open = {}
  /\ up' = "closed" /\ drain' = {}
  /\ UNCHANGED <<call, thread, files, ledger, turnVars, sweepVars, lives, faults>>

Forget ==
  /\ call' = [r \in Renders |-> IF call[r] = "none" THEN "none" ELSE "over"]
  /\ ledger' = [r \in Renders |-> "absent"]
  /\ thread' = {} /\ doomed' = {} /\ spc' = "sleep" /\ drain' = {}
  /\ turn' = "none" /\ pending' = <<>> /\ at' = 0

(* mark_orphans_delivered_at_shutdown changes records that go with the     *)
(* process; the executor's threads are joined before it ends.              *)
StopEnds ==
  /\ up = "closed" /\ up' = "off" /\ Forget
  /\ files' = files \cup thread
  /\ UNCHANGED <<heard, turns, faults, lives>>

Crash ==
  /\ up # "off" /\ lives < MaxLives /\ up' = "off" /\ Forget
  /\ UNCHANGED <<files, heard, turns, faults, lives>>

(* _cleanup_stale_artefacts: any of the files may be older than the        *)
(* threshold.                                                              *)
Boot ==
  /\ up = "off" /\ lives < MaxLives /\ up' = "on" /\ lives' = lives + 1
  /\ \E old \in SUBSET files : files' = files \ old
  /\ UNCHANGED <<call, thread, ledger, turnVars, sweepVars, drain, faults>>

----------------------------------------------------------------------------
ToolStep(r) == TakeSlot(r) \/ StartWriting(r) \/ ThreadWrites(r) \/ Register(r)
(* _flush_artefacts; a path is always inside the artefact directory.       *)
Deliver == FlushStarts \/ SendDocument \/ Upload \/ UploadFails \/ Mark \/ NoticeRaises
Sweep == SweepSnapshot \/ SweepUnlink \/ SweepPop

Next ==
  \/ \E r \in Renders : \/ Call(r) \/ Refuse(r) \/ ToolStep(r) \/ ConverterFails(r) \/ WriterFails(r)
                        \/ CallCancelled(r) \/ ResultSeen(r) \/ Expire(r)
  \/ TurnStarts \/ Deliver \/ StreamEnds \/ StreamDies \/ Sweep
  \/ StopDrains \/ StopAdapter \/ StopEnds \/ Crash \/ Boot

Spec == Init /\ [][Next]_vars

(* The event loop runs the sweeper, which nothing else holds up; ttl and   *)
(* delivery are not assumed to go on.                                      *)
FairSpec == Spec /\ WF_vars(Sweep)

----------------------------------------------------------------------------
(* The variables keep their types, and a turn that delivers stands at a    *)
(* document of its list.                                                   *)
TypeOK ==
  /\ call \in [Renders -> {"none", "queued", "pandoc", "writing", "result", "failed",
                           "cancelled", "over"}]
  /\ ledger \in [Renders -> {"absent", "inflight", "delivered", "expired"}]
  /\ thread \subseteq Renders /\ files \subseteq Renders
  /\ doomed \subseteq Renders /\ drain \subseteq Renders
  /\ turn \in {"none", "stream", "send", "upload", "mark"} /\ pending \in Seq(Renders)
  /\ at \in Nat /\ (turn \in {"send", "upload", "mark"} => at < Len(pending))
  /\ spc \in {"sleep", "unlink", "pop"} /\ up \in {"on", "drain", "closed", "off"}
  /\ heard \in [Renders -> Nat]
  /\ turns \in 0..MaxTurns /\ faults \in 0..MaxFaults /\ lives \in Nat

(* The two halves of UndeliveredIsThere, and the one exception.            *)
NamesakeCancelled(r) ==
  \E q \in Renders \ {r} : NameOf[q] = NameOf[r] /\ call[q] = "cancelled"
RecordHasFile == \A r \in Renders : ledger[r] = "inflight" => r \in files
AwaitedIsKept ==
  \A r \in Undelivered : ledger[r] = "inflight" \/ NamesakeCancelled(r)

(* A document the turn has still to deliver has its record in flight and   *)
(* its file in place, whatever the sweeper, other renders and the drain do *)
(* meanwhile; only the cancellation of a render with the same name takes   *)
(* both away (subsystem.py:290-330 and 429-462).                           *)
UndeliveredIsThere == RecordHasFile /\ AwaitedIsKept

(* The owner hears of a document at most once, as the file or as a notice, *)
(* though the list is flushed at every ResultMessage and again at the end  *)
(* of the stream (message.py:800-836 and 952-1111).                        *)
HeardOnce == \A r \in Renders : heard[r] <= 1

(* The promise of Delivery.                                                *)
Fate(r) == CASE call[r] \in {"none", "queued", "pandoc", "writing"} -> "new"
             [] call[r] = "result" -> "made"
             [] OTHER -> "past"
Post == INSTANCE Delivery WITH
  fate  <- [r \in Renders |-> Fate(r)],
  list  <- SubSeq(pending, at + 1, Len(pending)),
  store <- {r \in Renders : ledger[r] = "inflight"}
DeliverySpec == Post!Spec

(* Documents whose time is over do not stay on disk: the sweeper comes     *)
(* back for a file it could not unlink (subsystem.py:290-342).             *)
Reaped == Expired \cap files # {} ~> (Expired \cap files = {} \/ up = "off")
=============================================================================
