------------------------------- MODULE Intake -------------------------------
(***************************************************************************)
(* The way of a message from Telegram to its turn and back: the handlers   *)
(* of the adapter, one task each, the downloads, the albums that collect   *)
(* in buckets until a debounce task or a text flushes them, the queue at   *)
(* the lock of the chat, the answers, an orderly stop, and a death with    *)
(* the sweep of the next start.  The chat is the owner's; what a turn does *)
(* is the module Turns.                                                    *)
(*                                                                         *)
(* A turn bears the name of the message it answers, that of an album the   *)
(* name of its first photo.  None of the locks of the aggregator is held   *)
(* across an await, so what runs between two awaits is one step.           *)
(***************************************************************************)
EXTENDS Naturals, Sequences, FiniteSets

CONSTANTS Texts,       \* messages with text
          Photos,      \* photos that are part of an album
          Others,      \* documents, single photos, voice and audio messages
          Groups,      \* albums
          GroupOf,     \* the album of a photo
          MaxPhotos,   \* MAX_PHOTOS_PER_TURN
          None,        \* no task, no turn
          MaxFaults,   \* bound: apologies, answers and turns that raise
          MaxLives     \* bound: processes, one after the other

Msgs == Texts \cup Photos \cup Others

ASSUME NamesAssumption ==
  /\ Texts \cap Photos = {} /\ Texts \cap Others = {} /\ Photos \cap Others = {}
  /\ None \notin Msgs
ASSUME GroupAssumption == GroupOf \in [Photos -> Groups]
ASSUME BoundsAssumption == MaxPhotos \in Nat \ {0} /\ MaxFaults \in Nat /\ MaxLives \in Nat \ {0}

VARIABLES
  up,       \* "up", "stopping" or "down"
  stage,    \* where the task of a message stands
  files,    \* messages whose upload is on the disk
  bucket,   \* the photos a bucket holds, in order; <<>> when there is none
  opened,   \* the buckets, in the order of the registry
  told,     \* overflow_notified
  task,     \* flush_task of a bucket: the photo that armed it
  timers,   \* debounce tasks that sleep
  queue,    \* turns at the lock of the chat; the first has it
  batch,    \* the messages a turn answers
  todo,     \* the buckets a text still has to flush
  waits,    \* the turn a text waits for
  held,     \* history: the photos in buckets when a text arrived, until its turn ends
  faults, lives

vars == <<up, stage, files, bucket, opened, told, task, timers, queue, batch, todo, waits,
          held, faults, lives>>

buckets == <<bucket, opened, told, task, timers>>
turns   == <<queue, batch>>
texts   == <<todo, waits, held>>
bounds  == <<faults, lives>>

Members(g) == {bucket[g][i] : i \in DOMAIN bucket[g]}
Leader(g)  == bucket[g][1]
Open(g)    == bucket[g] # <<>>
Without(s, x) ==
  LET i == CHOOSE k \in DOMAIN s : s[k] = x
  IN  SubSeq(s, 1, i - 1) \o SubSeq(s, i + 1, Len(s))

(* Where a message is on its way, and where it is not: answered, refused,  *)
(* dropped, part of the turn of another; or left by an exception, a stop   *)
(* or a death.                                                             *)
Moving == {"download", "health", "link", "flush", "bucket", "lock", "reply"}
Over   == {"over", "left"}

Init ==
  /\ up = "up" /\ stage = [m \in Msgs |-> "new"] /\ files = {}
  /\ bucket = [g \in Groups |-> <<>>] /\ opened = <<>>
  /\ told = [g \in Groups |-> FALSE] /\ task = [g \in Groups |-> None] /\ timers = {}
  /\ queue = <<>> /\ batch = [m \in Msgs |-> {}]
  /\ todo = [m \in Texts |-> <<>>] /\ waits = [m \in Texts |-> None]
  /\ held = [m \in Texts |-> {}]
  /\ faults = 0 /\ lives = 1

Goes(m, s) == stage' = [stage EXCEPT ![m] = s]
Enqueue(m, ms) == queue' = Append(queue, m) /\ batch' = [batch EXCEPT ![m] = ms]
Fault == faults < MaxFaults /\ faults' = faults + 1 /\ UNCHANGED lives

(* handle of ClaudeHandler is called: the task goes to the lock.           *)
HandlesAlone(m) == Goes(m, "lock") /\ Enqueue(m, {m})

----------------------------------------------------------------------------
(* _do_flush: the bucket leaves the registry, its debounce task ends, its  *)
(* photos become a turn.                                                   *)

AfterFlush(g) ==
  [m \in Msgs |-> IF m = Leader(g) THEN "lock"
                  ELSE IF m \in Members(g) THEN "over" ELSE stage[m]]

(* Variant: the bucket stays in the registry while its turn runs.          *)
DoFlushKeeps(g) ==
  /\ timers' = timers \ {task[g]}
  /\ Enqueue(Leader(g), Members(g))
  /\ UNCHANGED <<bucket, opened, told, task>>

DoFlush(g) ==
  /\ bucket' = [bucket EXCEPT ![g] = <<>>] /\ opened' = Without(opened, g)
  /\ told' = [told EXCEPT ![g] = FALSE] /\ task' = [task EXCEPT ![g] = None]
  /\ timers' = timers \ {task[g]}
  /\ Enqueue(Leader(g), Members(g))

(* _delayed_flush: the sleep is over.                                      *)
TimerFires(p) ==
  LET g == GroupOf[p] IN
  /\ p \in timers
  /\ IF Open(g)
     THEN DoFlush(g) /\ stage' = AfterFlush(g)
     ELSE timers' = timers \ {p} /\ UNCHANGED <<stage, bucket, opened, told, task, turns>>
  /\ UNCHANGED <<up, files, texts, bounds>>

(* After the flush a text goes to its turn; with the trigger of a          *)
(* transcription it is a link (_on_url_transcribe).                        *)
UrlNext(m) == Goes(m, "link") /\ UNCHANGED turns

Answer(m) == HandlesAlone(m) \/ UrlNext(m)

(* Of the buckets a text has found, those that are gone meanwhile are      *)
(* passed over.                                                            *)
FirstOpen(gs) == {i \in DOMAIN gs : Open(gs[i]) /\ \A j \in 1..(i - 1) : ~Open(gs[j])}

(* Variant: the first bucket is all that is flushed.                       *)
FlushForChatOnce(m, gs) ==
  \/ /\ FirstOpen(gs) = {} /\ Answer(m)
     /\ todo' = [todo EXCEPT ![m] = <<>>] /\ waits' = [waits EXCEPT ![m] = None]
     /\ UNCHANGED buckets
  \/ \E i \in FirstOpen(gs) :
       /\ DoFlush(gs[i])
       /\ stage' = [AfterFlush(gs[i]) EXCEPT ![m] = "flush"]
       /\ todo' = [todo EXCEPT ![m] = <<>>]
       /\ waits' = [waits EXCEPT ![m] = Leader(gs[i])]

(* flush_for_chat, and what the text does after the last of them.          *)
FlushForChat(m, gs) ==
  \/ /\ FirstOpen(gs) = {} /\ Answer(m)
     /\ todo' = [todo EXCEPT ![m] = <<>>] /\ waits' = [waits EXCEPT ![m] = None]
     /\ UNCHANGED buckets
  \/ \E i \in FirstOpen(gs) :
       /\ DoFlush(gs[i])
       /\ stage' = [AfterFlush(gs[i]) EXCEPT ![m] = "flush"]
       /\ todo' = [todo EXCEPT ![m] = SubSeq(gs, i + 1, Len(gs))]
       /\ waits' = [waits EXCEPT ![m] = Leader(gs[i])]

----------------------------------------------------------------------------
(* Arrivals.  Each update is a task of its own.                            *)

New(m) == up = "up" /\ stage[m] = "new"

(* _on_text.                                                               *)
TextArrives(m) ==
  /\ New(m)
  /\ held' = [held EXCEPT ![m] = {p \in Photos : stage[p] = "bucket"}]
  /\ FlushForChat(m, opened)
  /\ UNCHANGED <<up, files, bounds>>

(* The turn the text waits for has been answered, or has failed.           *)
TextGoesOn(m) ==
  /\ stage[m] = "flush" /\ stage[waits[m]] \in Over
  /\ FlushForChat(m, todo[m])
  /\ UNCHANGED <<up, files, held, bounds>>

(* What is refused before anything is fetched: a size, a suffix, a length, *)
(* a kind of medium nobody handles.                                        *)
Refused(m) ==
  /\ New(m) /\ m \notin Texts /\ Goes(m, "over")
  /\ UNCHANGED <<up, files, buckets, turns, texts, bounds>>

Begins(m, s) ==
  /\ New(m) /\ Goes(m, s)
  /\ UNCHANGED <<up, files, buckets, turns, texts, bounds>>

PhotoArrives(m) == m \in Photos \cup Others /\ Begins(m, "download")
DocumentArrives(m) == m \in Others /\ Begins(m, "download")
VoiceArrives(m) == m \in Others /\ Begins(m, "health")
AudioArrives(m) == m \in Others /\ Begins(m, "health")
AudioDocumentArrives(m) == m \in Others /\ Begins(m, "health")

(* _ensure_sidecar_health, then the acknowledgement, whether it is sent or *)
(* not; a link goes to its turn, a recording is fetched first.             *)
SidecarHealthy(m) ==
  /\ \/ stage[m] = "health" /\ Goes(m, "download") /\ UNCHANGED turns
     \/ stage[m] = "link" /\ HandlesAlone(m)
  /\ UNCHANGED <<up, files, buckets, texts, bounds>>

SidecarOffline(m) ==
  /\ stage[m] \in {"health", "link"} /\ Goes(m, "over")
  /\ UNCHANGED <<up, files, buckets, turns, texts, bounds>>

----------------------------------------------------------------------------
(* Downloads.                                                              *)

(* Variant: one too many.                                                  *)
OverflowsLate(p) == Len(bucket[GroupOf[p]]) > MaxPhotos

(* add: beyond MaxPhotos the file goes and the timer is left alone.        *)
Overflows(p) == Len(bucket[GroupOf[p]]) >= MaxPhotos

(* Variant: the file stays.                                                *)
OverflowKeepsFile(p) ==
  /\ Goes(p, "over") /\ told' = [told EXCEPT ![GroupOf[p]] = TRUE]
  /\ files' = files \cup {p}
  /\ UNCHANGED <<bucket, opened, task, timers>>

Overflow(p) ==
  /\ Goes(p, "over") /\ told' = [told EXCEPT ![GroupOf[p]] = TRUE]
  /\ UNCHANGED <<files, bucket, opened, task, timers>>

(* Variant: the timer of before is stopped, and armed only once.           *)
AddStopsTimer(p) ==
  LET g == GroupOf[p] IN
  /\ Goes(p, "bucket") /\ files' = files \cup {p}
  /\ bucket' = [bucket EXCEPT ![g] = Append(@, p)]
  /\ opened' = IF Open(g) THEN opened ELSE Append(opened, g)
  /\ task' = [task EXCEPT ![g] = p] /\ timers' = (timers \ {task[g]}) \cup (IF Open(g) THEN {} ELSE {p})
  /\ UNCHANGED told

Add(p) ==
  LET g == GroupOf[p] IN
  /\ Goes(p, "bucket") /\ files' = files \cup {p}
  /\ bucket' = [bucket EXCEPT ![g] = Append(@, p)]
  /\ opened' = IF Open(g) THEN opened ELSE Append(opened, g)
  /\ task' = [task EXCEPT ![g] = p] /\ timers' = (timers \ {task[g]}) \cup {p}
  /\ UNCHANGED told

PhotoDownloaded(p) ==
  /\ p \in Photos /\ stage[p] = "download"
  /\ IF Overflows(p) THEN Overflow(p) ELSE Add(p)
  /\ UNCHANGED <<up, turns, texts, bounds>>

Downloaded(m) ==
  /\ m \in Others /\ stage[m] = "download"
  /\ files' = files \cup {m} /\ HandlesAlone(m)
  /\ UNCHANGED <<up, buckets, texts, bounds>>

(* A file that is not complete, if there is one, stays.                    *)
StaysBehind(ms) == files' \in {files, files \cup ms}

(* Too big, too slow or lost: the owner is told, then the partial file     *)
(* goes.                                                                   *)
DownloadFails(m) ==
  /\ stage[m] = "download" /\ Goes(m, "over")
  /\ UNCHANGED <<up, files, buckets, turns, texts, bounds>>

(* ... but telling the owner may raise.                                    *)
ApologyRaises(m) ==
  /\ stage[m] = "download" /\ Goes(m, "left") /\ Fault
  /\ StaysBehind({m})
  /\ UNCHANGED <<up, buckets, turns, texts>>

----------------------------------------------------------------------------
(* Turns and answers.                                                      *)

Has(t) == queue # <<>> /\ queue[1] = t

LetsGo(t) ==
  /\ batch' = [batch EXCEPT ![t] = {}]
  /\ held' = [m \in Texts |-> IF m = t THEN {} ELSE held[m]]
  /\ UNCHANGED <<up, buckets, todo, waits>>

(* The handler has come to its end.  It removes the uploads, those of a    *)
(* recording with the job that takes them over.                            *)
TurnEnds(t) ==
  /\ Has(t) /\ Goes(t, "reply") /\ queue' = Tail(queue)
  /\ files' = files \ batch[t]
  /\ LetsGo(t) /\ UNCHANGED bounds

(* The handler raises: _do_flush apologises for an album and removes its   *)
(* files; for others it depends on how far the handler has come.           *)
TurnRaises(t) ==
  /\ Has(t) /\ Goes(t, "left") /\ queue' = Tail(queue) /\ Fault
  /\ files' \in {files \ batch[t]} \cup (IF t \in Photos THEN {} ELSE {files})
  /\ LetsGo(t)

(* The text of the turn is sent in pieces, after the lock is released; a   *)
(* recording answers from its job.                                         *)
Replies(t) ==
  /\ stage[t] = "reply" /\ Goes(t, "over")
  /\ UNCHANGED <<up, files, buckets, turns, texts, bounds>>

ReplyRaises(t) ==
  /\ stage[t] = "reply" /\ Goes(t, "left") /\ Fault
  /\ UNCHANGED <<up, files, buckets, turns, texts>>

----------------------------------------------------------------------------
(* stop of the adapter: cancel_all drops the buckets and their timers, no  *)
(* update comes any more; tasks that run go on until the process ends.     *)
CancelAll ==
  /\ bucket' = [g \in Groups |-> <<>>] /\ opened' = <<>>
  /\ told' = [g \in Groups |-> FALSE] /\ task' = [g \in Groups |-> None]
  /\ timers' = timers \ {task[g] : g \in Groups}

Stop ==
  /\ up = "up" /\ up' = "stopping" /\ CancelAll
  /\ stage' = [m \in Msgs |-> IF stage[m] = "bucket" THEN "left" ELSE stage[m]]
  /\ UNCHANGED <<files, turns, texts, bounds>>

(* The process ends, by itself or not: every task is cut off, the uploads  *)
(* stay.                                                                   *)
Perish ==
  /\ up # "down" /\ lives < MaxLives /\ up' = "down"
  /\ bucket' = [g \in Groups |-> <<>>] /\ opened' = <<>>
  /\ told' = [g \in Groups |-> FALSE] /\ task' = [g \in Groups |-> None] /\ timers' = {}
  /\ stage' = [m \in Msgs |-> IF stage[m] \in Moving \/ m \in files THEN "left" ELSE stage[m]]
  /\ StaysBehind({m \in Msgs : stage[m] = "download"})
  /\ queue' = <<>> /\ batch' = [m \in Msgs |-> {}]
  /\ waits' = [m \in Texts |-> None] /\ todo' = [m \in Texts |-> <<>>]
  /\ held' = [m \in Texts |-> {}]
  /\ UNCHANGED bounds

(* The next start sweeps the uploads before the adapter polls again.       *)
Boot ==
  /\ up = "down" /\ up' = "up" /\ files' = {} /\ lives' = lives + 1
  /\ UNCHANGED <<stage, buckets, turns, texts, faults>>

----------------------------------------------------------------------------
Arrive(m) == \/ m \in Texts /\ TextArrives(m)
             \/ Refused(m) \/ PhotoArrives(m) \/ DocumentArrives(m)
             \/ VoiceArrives(m) \/ AudioArrives(m) \/ AudioDocumentArrives(m)

Works(m) == \/ m \in Texts /\ TextGoesOn(m)
            \/ SidecarHealthy(m) \/ SidecarOffline(m)
            \/ PhotoDownloaded(m) \/ Downloaded(m) \/ DownloadFails(m) \/ ApologyRaises(m)
            \/ m \in Photos /\ TimerFires(m)
            \/ TurnEnds(m) \/ TurnRaises(m) \/ Replies(m) \/ ReplyRaises(m)

Working == \E m \in Msgs : Works(m)

Next == (\E m \in Msgs : Arrive(m)) \/ Working \/ Stop \/ Perish \/ Boot

Spec == Init /\ [][Next]_vars

----------------------------------------------------------------------------
(* The variables keep their types; a bucket holds photos of its own        *)
(* album, no more than MaxPhotos, and _buckets has the buckets that are    *)
(* not empty (media_group.py:77-128).                                      *)
TypeOK ==
  /\ up \in {"up", "stopping", "down"} /\ stage \in [Msgs -> {"new"} \cup Moving \cup Over]
  /\ files \subseteq Msgs \ Texts
  /\ bucket \in [Groups -> Seq(Photos)] /\ told \in [Groups -> BOOLEAN]
  /\ \A g \in Groups : /\ Len(bucket[g]) <= MaxPhotos
                       /\ \A p \in Members(g) : GroupOf[p] = g /\ stage[p] = "bucket"
  /\ {opened[i] : i \in DOMAIN opened} = {g \in Groups : Open(g)}
  /\ task \in [Groups -> Photos \cup {None}] /\ timers \subseteq Photos
  /\ queue \in Seq(Msgs) /\ batch \in [Msgs -> SUBSET Msgs]
  /\ todo \in [Texts -> Seq(Groups)] /\ waits \in [Texts -> Msgs \cup {None}]
  /\ held \in [Texts -> SUBSET Photos]
  /\ faults \in 0..MaxFaults /\ lives \in 1..MaxLives

(* A photo that has been taken in is in one bucket or in one turn, a turn  *)
(* is at the lock once and has no more than MaxPhotos                      *)
(* (media_group.py:22-33).                                                 *)
PhotoGoesOnce ==
  /\ \A p \in Photos :
       Cardinality({g \in Groups : p \in Members(g)} \cup {t \in Msgs : p \in batch[t]}) <= 1
  /\ \A t \in Photos : Cardinality(batch[t]) <= MaxPhotos
  /\ \A i, j \in DOMAIN queue : queue[i] = queue[j] => i = j

(* Its download, its bucket, or a turn that waits for the lock or runs.    *)
InHands(m) == \/ stage[m] \in {"download", "bucket"}
              \/ \E t \in Msgs : m \in batch[t] /\ stage[t] = "lock"

(* An upload on the disk is in somebody's hands, unless an exception, a    *)
(* stop or a death has left it to the sweep of the next start              *)
(* (telegram.py:392-393, media_group.py:211-213).                          *)
UploadIsHeld ==
  \A m \in files : InHands(m) \/ stage[m] = "left"

(* A photo that has been fetched and has not had its turn.                 *)
Pending(p) == \/ stage[p] = "bucket"
              \/ \E t \in Photos : p \in batch[t] /\ stage[t] = "lock"

(* When the turn of a text runs, no photo that was in a bucket when the    *)
(* text came is still to have its turn (telegram.py:272-276).              *)
HeldPhotosFirst ==
  \A m \in Texts : Has(m) => \A p \in held[m] : ~Pending(p)

(* A message whose task can go on by itself: it waits for an answer of     *)
(* Telegram or the sidecar, its debounce task sleeps, the turn it waits    *)
(* for is over, or it has the lock.                                        *)
Ready(m) == \/ stage[m] \in {"download", "health", "link", "reply"}
            \/ m \in timers
            \/ stage[m] = "flush" /\ stage[waits[m]] \in Over
            \/ Has(m)

SomebodyIsReady == (\E m \in Msgs : stage[m] \in Moving) => \E m \in Msgs : Ready(m)

(* As long as a message is on its way some task can go on: no album waits  *)
(* for a flush, no text for a turn and no turn for the lock that will not  *)
(* come (media_group.py:197-280, telegram.py:266-341).                     *)
NobodyIsStuck == SomebodyIsReady /\ \A m \in Msgs : Ready(m) => ENABLED Works(m)

(* The promise of Inbox.  A message whose turn is at the lock is due, even *)
(* if its own task, one of an album, is over.                              *)
Fate(m) == IF stage[m] \in Over \cup {"lock", "reply"}
             THEN IF \E t \in Msgs : m \in batch[t] THEN "due" ELSE "gone"
           ELSE IF stage[m] = "bucket" THEN "fetched"
           ELSE "new"
Ask == INSTANCE Inbox WITH fate <- [m \in Msgs |-> Fate(m)],
                           line <- [i \in DOMAIN queue |-> batch[queue[i]]]
InboxSpec == Ask!Spec
=============================================================================
