# Verification of the 0xone assistant daemon

The repository is a single-owner Telegram assistant: one Python process
(`src/assistant/`) on one asyncio loop, one sqlite file, one vault of
Markdown notes in a git repository, and sessions of the Claude SDK. Its logic
lies less in algorithms than in hand-overs: rows that move between tables and
queues, background tasks that outlive the request that began them, retries,
drains, locks of two kinds, and a boot that must make sense of whatever the
last life left behind. That is what this project models.

Paths below are relative to `src/src/assistant/` unless they start with
`plan/`.

## 1. The system

| Component | State | Operations | Talks to | Hard behaviour | Correct when |
|---|---|---|---|---|---|
| Scheduler (`scheduler/store.py`, `loop.py`, `dispatcher.py`) | tables `schedules`, `triggers`; `asyncio.Queue`; the in-flight set; LRU of seen ids | add, disable, enable; tick: revert stuck, materialise, enqueue, mark sent, note saturation, reclaim; deliver, ack, drop, revert, dead-letter; clean slate at boot | turn handler (delivers), adapter, supervisor of the daemon | loop and dispatcher interleave at every await over shared rows; bounded queue; crashes between commit and enqueue; catch-up after a stall | a minute gives one row, a row ends once, the owner hears once per life, the in-flight set is exact, the window is caught up |
| Subagent ledger (`subagent/store.py`, `picker.py`, `hooks.py`, `notify.py`) | table `subagent_jobs`; pending notices; the picker's current job; the context variable of a dispatch | spawn, cancel, take, refetch, mark failed; SubagentStart, SubagentStop, tool gate; recover orphans | Claude SDK (sessions and hooks), adapter, boot | hooks of one agent in either order and twice; the picker reads a row before a long await; death in the middle | one row per agent, no ghost `started` row, a bounded number of dispatches, every request is settled, one notice per job |
| Vault synchronisation (`vault_sync/`) | git repository and index, `index.lock`, `_lock`, the file lock, the persisted edge state and rate-limit timer | tick, `vault_push_now`, status, add, diff, commit, push, restore the timer, clean a stale lock | memory tools (file lock), git, adapter (notices) | two runs and a writer; killed git commands; a caller that is cancelled; death between commit and push | history is whole snapshots without denied files, the remote has a prefix, an unpushed commit is known, pushes are spaced, locks are given back |
| Vault audit log (`vault_sync/audit.py`) | one file | append, rotate | vault synchronisation | none that a decision reads | best effort |
| Long-term memory (`tools_sdk/_memory_core.py`, `memory.py`, `memory/store.py`) | note files, FTS index in its own sqlite file, stored newest mtime | write, delete, search, read, reindex, save a transcript | vault lock, audio job | rename before commit; the probe at boot compares a count and one mtime | the index agrees with the files after a boot |
| Turn handling (`handlers/message.py`, `state/conversations.py`) | `turns`, `conversations`, one lock per chat, persist tasks | start, append, complete, interrupt, clean up; audio background job; delivery of artefacts | bridge, adapter, memory, renderer, transcription | background completion races later turns and the drain; an unconditional `complete_turn` | history holds whole turns only, each turn ends once, a chat is served in order |
| Telegram adapter (`adapters/telegram.py`) | uploads directory, one task per update | receive, refuse, download, flush albums, send an answer or a document, sweep uploads at start | handler, media groups, sidecar | a text beside photos still being fetched, apologies and answers that raise, stop and death during a download | an upload is held by somebody or swept, a text comes after the photos it found |
| Media groups (`adapters/media_group.py`) | buckets per (chat, group), a debounce task each | add, flush after debounce, flush for a chat, cancel all | adapter | the debounce wakes while an item joins or a flush takes the bucket | a photo is in one turn, or its file is removed |
| Document rendering (`render_doc/`) | artefact ledger, files, semaphore | render, register, mark delivered, sweep, mark orphans | tools, handler, adapter | cancellation removes by file name; three-phase sweep over a ledger others change | a document waits with its file until it is delivered, is sent once, and its file goes at last |
| Cron expressions (`scheduler/cron.py`) | none | parse, next fire, `is_due` | scheduler | missing and repeated local times | a wall-clock minute fires once, none is lost, the announced firing comes |
| Scheduler tools (`tools_sdk/scheduler.py`) | none | validate, call the store | scheduler | cap and origin checks | the cap holds |
| Daemon (`main.py`) | process lock, task sets, boot marker, respawn times | start, supervise, stop in nine stages | all | order of stop; supervisors that give up | nothing in flight is lost silently |
| Database (`state/db.py`) | `user_version` | four migrations | all stores | one connection for all stores: a rollback or commit is shared | each store's transactions are atomic |
| Claude bridge (`bridge/`) | semaphore | ask, history, tool guards | SDK | cancellation of a stream, timeouts | an answer or an error, never both |
| Skill installer (`tools_sdk/_installer_core.py`) | cached previews, skills directory, background syncs | preview, install, uninstall | bridge | two installs of one name in threads, rename and crash, stale preview, a cached list read while directories move | a marked skill is whole and stays, what was previewed is installed |
| Transcription, Whisper server | HTTP client; a service without shared state | transcribe | audio job | timeouts, retries | one result or one failure |
| File extraction, Configuration | none | pure | handler | formats | - |

How they meet: the adapter hands updates to the handler, which holds a chat's
lock for the whole turn and asks the bridge; tools called inside the bridge's
session change the scheduler, the subagent ledger, the memory, the vault and the
artefact ledger while the handler waits; the loop, the dispatcher, the picker,
the vault tick and the sweeper run beside it and reach the owner through the
handler or the adapter. They share the process (a crash ends all of them at
once), the sqlite connection, and the vault's file lock.

`PROJECT.json` lists under `hazards` where this code is exposed, line by line,
and which property looks at it.

## 2. Plan

In this order, the most consequential first:

1. `Scheduler` over `TriggerLifecycle`, proofs in `SchedulerProofs`. *Done.*
2. `Subagent` over `JobLifecycle`, proofs in `SubagentProofs`. *Done.*
3. `VaultSync` over `VaultBackup`, proofs in `VaultSyncProofs`. *Done.*
4. `Turns` over `SerialTurns`, proofs in `TurnsProofs`. *Done.*
5. `RenderDoc`: documents from the tool call to the sweeper, proofs in
   `RenderDocProofs`. *Done.*
6. `MemoryIndex`: notes, rows and the probe at boot, proofs in
   `MemoryIndexProofs`. *Done.*
7. `Intake`: the adapter's handlers and the media groups, proofs in
   `GroundProofs`. *Done.*
8. `Installer`, proofs in `InstallerProofs`. *Done.*
9. `Cron`: parsing by terms, the two walks over a clock that changes, proofs in
   `GroundProofs`. *Done.*
10. `Connection`: the sqlite transaction that three stores share, statement by
    statement, proofs in `GroundProofs`. *Done.*
11. A proof of the Scheduler's `DeliveredOncePerLife`, which rests on the size of
    the LRU, in `SchedulerProofs`. *Done.*
12. Abstract specifications `Inbox` of `Intake`, `Delivery` of `RenderDoc` and
    `Shelf` of `Installer`, with their proofs; that `Intake` always has somebody who
    can go on; that `Cron` keeps the rule which `Scheduler` takes as given. *Done.*
13. The supervisors of the daemon with their hourly limit, the background sync
    of skills. *Not begun.*

Each module is checked alone, with the others as its environment (a turn of
`Intake` is one action, `Turns` takes it apart), because the product of two of
them is out of TLC's reach at any size at which something happens.

## 3. Modules

All models take the step between two awaits of one coroutine as one action: the
daemon has one event loop, so nothing else runs in between. A call of a store is
one action at the place of its await, since each store serialises its calls with
its own lock; what the shared connection makes of that is the subject of the
module `Connection`, which takes the calls apart. Where the code works in a
thread, an action is one call of the file system or of sqlite. Program counters
are named for the await a coroutine stands at. A death of the process may come
between any two actions; it keeps tables and files, and forgets the rest. A
graceful stop cancels the same coroutines at the same awaits, so for the state of
Scheduler, Subagent, VaultSync, MemoryIndex and Installer it is a death too.

Definitions whose comment begins with *Variant* are used by no specification:
each is a form of a neighbouring definition with a plausible mistake in it, and
the properties are tried against them to see that they would notice.

### Scheduler

`sched` and `trig` are the rows of the two tables, `queue` and `inflight` what
the loop and the dispatcher share, `lru` the dispatcher's memory. `lpc` and
`dpc` are where the coroutines stand, `tick` the loop's locals. A trigger is a
pair of schedule and minute, which is the UNIQUE key of its table.

| Code | Actions |
|---|---|
| `add_schedule`, `disable_schedule`, `enable_schedule` | `AddSchedule`, `DisableSchedule`, `EnableSchedule` |
| `SchedulerLoop._tick` | `LoopSweep`, `LoopList`, `LoopSkip`, `LoopMaterialize`, `LoopEnqueue`, `LoopNote`, `LoopMarkSent`, `LoopScanned`, `LoopReclaim`, `LoopRequeue`, `LoopSleep`, `LoopStoreError` |
| `is_due` | `IsDue` over the set `Fires[s]` of minutes the expression matches |
| `SchedulerDispatcher.run`, `_process` | `DispGet`, `DispCheck`, `DispHandle`, `DispSend`, `DispAck`, `DispDrop`, `DispDead`, `DispUnsend`, `DispRevert`, `DispStoreError`, `DispCancelled` |
| the supervisor of the daemon | `DispRespawn` |
| death, `clean_slate_sent` and start | `Crash`, `Boot` |

`DispFinish` and `Release` are the `finally` of `run`, which every path out of
`_process` takes. `DispCancelled` is the deadline of the bridge that meets the
dispatcher's task outside the stream: a `CancelledError` ends the task, and no
supervisor starts another. `LoopList` uses the rows of the moment of a scan rather than a
copy of `last_fire_at`: only the loop writes that column. `TriggerLifecycle` is
the abstract promise: the life of one row and when the owner may hear of it.

### Subagent

`jobs` is the table. `ppc`, `pjob` are the picker. `agents` holds, for each id
the SDK may hand out, how far its start and stop hooks have come and which
request its session carries in the context variable. `notes` is the set
`pending_updates`; `told` counts what reached the owner. Row ids stand for the
order of `created_at`; `completed` stands for `failed` as well, which no code
tells apart after it is written.

| Code | Actions |
|---|---|
| `subagent_spawn`, `subagent_cancel` | `Spawn`, `Cancel` |
| `SubagentRequestPicker` | `PickerTake`, `PickerReturn`, `PickerRefetch`, `PickerFail`, `PickerNotify`, `PickerStoreError` |
| the SDK (external) | `Begin` (`PickedTask`, `NativeTask`), `StartAgain`, `SessionLost` |
| `on_subagent_start` | `StartClaim`, `StartInsert` |
| `on_subagent_stop`, delivery | `StopRead`, `StopRecord`, `StopFetch`, `Deliver` |
| a hook's store call raises | `HookStoreError` |
| death, `recover_orphans` | `Crash`, `Boot` |

The store's updates are operators on a row (`Claimable`, `Cancelled`,
`DispatchFailed`, `Finished`, `Recovered`), each with the WHERE clause of its
statement. `told` leaves out the summary sent at boot. `JobLifecycle` is the
abstract promise: the life of one row, and one message to the owner.

### VaultSync

`work`, `log`, `pushed`, `index` are git as far as the code looks at it: the
files, the commits as pictures of the files, how many the remote has, what is
staged. `lockSince` is the age of an `index.lock`. `vlock` is the file lock that
the memory tools take too; `queue` is the asyncio lock, its holder in front.
`state` is the persisted edge machine, `snapshot` the attribute
`_state_pre_invocation_at`. `since` and `torn` are history variables.

| Code | Actions |
|---|---|
| `_loop`, `push_now` | `LoopTick`, `PushNow`, `CallerLeaves`, `Return` |
| entering `_lock` and `vault_lock` | `TakeLock`, `LockContention` |
| `_run_once` | `Status`, `Add`, `Diff`, `Commit`, `Push`, and `GitRaises`, `CommitFails`, `PushFails` where a command exits with an error or is killed |
| `_drive_edge` and its notices | `Ends`, `EndsHoldingLock`, `FailureEdge`, `SuccessEdge`, `Notified` |
| memory tools | `WriterTakes`, `WriterWrites` |
| death, `startup_check` | `Crash`, `Boot` |

A killed command may or may not have had its effect and may leave `index.lock`.
Leaving the asyncio lock and moving the edge machine are one action because
nothing is awaited between them. `VaultBackup` is the abstract promise.

### Turns

One chat. `kind` is what each message is, chosen once from the set `Mixes`.
`turns` and `said` are the tables `turns` and `conversations` as far as
anything reads them: a status, and whose rows a turn has. `seen` is the history a
turn has loaded, `file` where its upload is. `lock`, `sem` and `line` are the chat's
lock, `audio_bg_sem` and the audio bridge's own semaphore, each a queue with its
holder in front. `pc` names the await a message's coroutine stands at, `persist`
what the shielded persist task of a voice message has yet to do.

| Code | Actions |
|---|---|
| `handle`, `_handle_locked` to the bridge | `Arrive`, `StartTurn`, `AppendUser`, `Load` |
| a document or image that cannot be read | `Load`, `FailedMarker`, `Failed` |
| the stream of `bridge.ask` and its end | `Block`, `StreamEnds`, `BridgeError`, `DeadlineCuts`, `Marker`, `Complete`, `Interrupt` |
| `_run_audio_job` | `JobStarts`, `Transcribed`, `TranscriptionFails`, `Apologise`, `WriteOff`, `SaveTranscript`, `Recall`, `VoiceBlock`, `VoiceStreamEnds`, `VoiceComplete`, `Emit`, `DeadlineCutsJob`, `JobEnds` |
| its persist task | `PersistRow`, `PersistStatus` |
| `Daemon.stop` | `StopCancels`, `StopCloses` |
| death, `Daemon.start` | `Crash`, `Boot` |

The timeout of `bridge.ask` is entered by the generator but cancels the task that
iterates it. When it fires while that task awaits a store call rather than the
stream, a `CancelledError` comes out of the handler: `DeadlineCuts`, which for a photo
loses the row of the owner (`cut`), and `DeadlineCutsJob`. Messages of the scheduler
come one at a time, because the dispatcher awaits each.

Here a graceful stop differs from a death, so it has actions of its own: it cancels
the background tasks, a cancelled job goes through its `finally`, and the
persist tasks are drained before the connection closes. `UPDATE`s that the
cancellation cuts may have landed; an `INSERT` it cuts is taken as lost, since the
turn it belongs to is left to the boot either way. A drain that runs out of its
budget is a `Crash`. Turns of the owner are tasks of the adapter: nobody waits for
them, and they end with the loop. The job's own check that a sidecar is configured
is left out, the setting being fixed for the life of the process.

`SerialTurns` is the abstract promise: foreground turns are pending one at a time,
every turn ends once and never leaves its end, and rows come only while it is
pending, or after the completion of a background turn. A pending turn that
nobody attends any more is mapped to an interrupted one, because no row may be
added to it and it may not complete: that is what `complete_turn`, which looks at no
status, needs from all of its callers.

### RenderDoc

A render is named by the uuid of its file. `call` is how far its tool call is,
`thread` the renders whose writing thread runs, `files` the artefact directory,
`ledger` the records with their delivery. `turn`, `pending` and `at` are the
owner's turn with its `pending_artefacts`; `spc` and `doomed` the sweeper with its
snapshot; `drain` the calls `Daemon.stop` waits for. `heard` is a history variable.

| Code | Actions |
|---|---|
| `render_doc` tool, `RenderDocSubsystem.render`, `_dispatch` | `Call`, `Refuse`, `TakeSlot`, `StartWriting`, `ThreadWrites`, `Register`, `ConverterFails`, `WriterFails`, `CallCancelled` (with `Purge`, the branch for `CancelledError`) |
| the stream of the turn, `_flush_artefacts` | `TurnStarts`, `ResultSeen`, `FlushStarts`, `SendDocument`, `Upload`, `UploadFails`, `Mark`, `NoticeRaises`, `StreamEnds`, `StreamDies` |
| `_sweep_iteration`, the ttl | `Expire`, `SweepSnapshot`, `SweepUnlink`, `SweepPop` |
| `Daemon.stop`, death, `_cleanup_stale_artefacts` | `StopDrains`, `StopAdapter`, `StopEnds`, `Crash`, `Boot` |

The ledger's lock is never held across an await, so what runs under it is part
of one action. A thread outlives its call: nothing cancels it.

`Delivery` is the abstract promise: documents go into the turn's list in the order of
their results, each is spoken of once and in front of the list, and what is kept for
delivery goes by delivery, by a cancelled namesake, or with the process.

### MemoryIndex

A note is its version, which stands for content and modification time alike.
`file` is the disk, `index` the committed rows, `stored` the newest time the index
knows. `lock` is the vault's file lock, `pc` and `op` the threads of the tools with
their calls, `rows`, `read`, `timed`, `newest` what a reindex has seen so far.
`strayed`, `touched` and `missed` are history variables: notes that left their row in
one of the ways the properties name.

| Code | Actions |
|---|---|
| `memory_write`, `save_transcript`, `write_note_tx` | `Write`, `SaveTranscript`, `TakeLock`, `WriteRenames`, `WriteCommits` |
| `memory_delete`, `delete_note_tx` | `Delete`, `TakeLock`, `DeleteUnlinks`, `DeleteCommits` |
| `memory_reindex`, `reindex_vault` | `Reindex`, `TakeLock`, `ScanReads`, `ScanStats`, `ScanCommits` |
| the lock's timeout; a rename, unlink or commit that raises | `LockTimesOut`, `Raises` |
| the owner's editor (takes no lock) | `Edit`, `Remove`, `RenameNote` |
| death, `_maybe_auto_reindex` | `Crash`, `Probe`, then the scan |

### Intake

`stage` is where the task of a message stands, `files` the uploads. `bucket`,
`opened`, `told` and `task` are the registry of `MediaGroupAggregator`, `timers` its
debounce tasks that sleep. `queue` is the lock of the chat, `batch` what a turn
answers, `todo` and `waits` what a text still has to flush. `held` is a history
variable.

| Code | Actions |
|---|---|
| `_on_text`, `flush_for_chat`, `_on_url_transcribe` | `TextArrives`, `TextGoesOn`, `FlushForChat`, `UrlNext` |
| the handlers of photos, documents, voice and audio | `Refused`, `PhotoArrives`, `DocumentArrives`, `VoiceArrives`, `AudioArrives`, `AudioDocumentArrives` |
| `_ensure_sidecar_health` | `SidecarHealthy`, `SidecarOffline` |
| downloads and their apologies | `PhotoDownloaded` (`Add`, `Overflow`), `Downloaded`, `DownloadFails`, `ApologyRaises` |
| `_delayed_flush`, `_do_flush` | `TimerFires`, `DoFlush` |
| the turn (see Turns) and the answer | `TurnEnds`, `TurnRaises`, `Replies`, `ReplyRaises` |
| `stop`, death, the sweep of the start | `Stop`, `Perish`, `Boot` |

Time is left out: a debounce task that sleeps may wake at any moment, which
covers every order of its sleep and the arrivals. The sleep of a task that was
cancelled does not end, because a cancelled task is no longer in `timers`.

`Inbox` is the abstract promise: a message is new, fetched (photos), due or gone, and
turns come in a line. `Fate` maps a message by where its task, its bucket and its turn
are; the line is `queue` with the messages each turn answers.

### Installer

One name and one address are modelled, those of `skill-creator`, for which an
install of the owner and the bootstrap of a start compete. A tree is the version it
holds. `source` is the address, `manifest`, `preview` and `bundle` the cached preview,
`stage` and `work` how far the two installers are and what they fetched, `staged`
their staging directories, `skill` and `tools` what is in place, `litter` the staging
directories nobody works on. `stamp`, `dirty`, `reading` and `cache` are the prompt's
list with its key. `seen` is a history variable.

| Code | Actions |
|---|---|
| `skill_preview` | `PreviewStarts`, `PreviewFetches`, `PreviewFails`, `PreviewEnds` |
| `skill_install`, `_bootstrap_skill_creator_bg` | `InstallStarts`, `Fetch`, `FetchFails`, `Check`, `Finish`, `BootGate`, `BootTimesOut` |
| `atomic_install` in its thread | `Enter`, `Copy`, `CopyFails`, `RenameSkill`, `RenameTools`, `Rollback`, `Mark` |
| `skill_uninstall`, `sweep_run_dirs` | `Uninstall`, `Sweep` |
| `build_manifest` and the sentinel | `Render`, `List` |
| the source (external), death and start | `SourceChanges`, `Die` |

Abstractions: the owner has one install at a time (two that overlap share the
directory `verify/`, so the tree that was hashed could be replaced before it is
copied), and does not uninstall a skill while it is being installed
(`MayUninstall`; otherwise a rollback may remove another's skill, and a marker may
land on it). A tree whose source was removed cannot be copied. Each change of a
directory gives it a time of its own. The background `uv sync` is left out.

`Shelf` is the abstract promise: all that the threads do to `skills/` and `tools/` is
invisible until the marker, and then the skill is there at once, whole.

### Cron

A pure algorithm under a small machine. The calendar has hours, days, weeks and
months of a few units each, the clock is set back or forward once. `Expand`,
`Parses` and `ParseCron` are the parser without the splitting of text, `Matches` the
rule that two restricted day fields are alternatives, `NextFire` and `IsDue` the two
walks. The machine adds a schedule at some minute (`AddSchedule`), lets the loop tick, several
times a minute (`Tick`), or miss minutes (`Miss`). What a tick does with a minute that
has its row is the UNIQUE key of `triggers`.

### Connection

`disk` is what is committed, `open` what is written in the transaction that is open,
`inTx` whether there is one: sqlite3 begins it before the first write that finds none,
and a commit or rollback ends it for everybody. `busy` are the `INSERT ... RETURNING`
of `append` that have a row left to step over; while there is one, sqlite refuses to
commit. `pc` is the statement a call comes to next. The rest are history variables:
`fires`, how often the loop has got an id for the minute; `lost`, rows that the
rollback of another call has undone; `split` and `left`, whether the loop's
transaction was ended by another store, or one was left open.

| Code | Actions |
|---|---|
| `ConversationStore.append` | `Write`, `Fetch`, `Commit` |
| `start_turn`, `complete_turn`, `interrupt_turn`; the one-row updates of `SchedulerStore` | `Write`, `Commit` |
| `SubagentStore.record_started` | `RecordStarted`, `Commit`, `Rollback` |
| `SchedulerStore.try_materialize_trigger` | `InsertTrigger`, `Bump`, `Commit`, `Rollback` |
| a commit sqlite refuses; a task that is cancelled; death | `CommitRaises`, `Cancel`, `Crash` |

An action is one statement, executed by the connection's own thread, in any order
across calls. `MayEnter` is the lock of the two stores that have one. One call of
a kind stands for all of it: it writes one row of its own, whatever it reads.

## 4. Runs

| Run | Question | Instance |
|---|---|---|
| `scheduler_faults` | rows, queue and deliveries under every interleaving, a death and two errors; refinement of `TriggerLifecycle` | 2 schedules firing in minute 0, queue of 1, clock to 1, dead after 2; 1.5 million states |
| `scheduler_catchup` | catching up, release and requeue under fairness | 1 schedule firing every minute, clock to 2, no faults; 166 thousand states |
| `scheduler_retry` | is a failed run retried, as the comments say? No | 1 schedule, no faults |
| `subagent` | all of the ledger's properties, with refinement of `JobLifecycle` | 2 requests, 1 agent, 2 attempts, 1 death, 1 store error, 1 repeated hook; 402 thousand states |
| `vault_sync` | all properties of the vault, with refinement of `VaultBackup` | 2 notes one of them denied, the loop, 1 caller, a writer; 2 writes, 1 git fault, 1 death, clock to 2; 525 thousand states |
| `turns` | all properties of turns through an orderly stop and a death, with refinement of `SerialTurns` | a voice message beside a photo and a message of the scheduler, beside a document, beside another voice message; 1 stop, 1 death; 866 thousand states |
| `render_doc` | does a document wait with its file for the turn, go out once, and go at last? | 3 renders, 2 of one name, 1 slot, 1 turn, 1 fault, 2 lives; 923 thousand states |
| `memory_index` | do rows and files agree, and does the probe see when they do not? | 2 notes, 2 threads, 3 calls, 2 edits, 1 fault, 1 death; 3.3 million states |
| `intake` | where do photos and uploads go, and does anybody wait for ever? | an album of 3 with room for 2, one of 1, a text, another upload, 1 fault, 2 lives; 634 thousand states |
| `installer` | what stands in `skills/`, and does the prompt know it? | a plain version, one with tools, an invalid one; 1 change, 3 calls, 1 fault, 2 lives; 7.9 million states |
| `cron` | does a clock change fire a minute twice, or lose one? | 9 expressions, 3 clocks, 3 minutes an hour, 2 hours a day, a window of 3, 16 minutes; 563 thousand states |
| `connection` | what may a call that has returned rely on, and when does a trigger part from its `last_fire_at`? | an `append`, a call that ends a turn, one that marks a trigger, 2 starts of one agent, 3 ticks, 1 cancelled task, 1 death; 999 thousand states |

Properties by module:

* Scheduler. `InflightIsExact` relates the set the reclaim filters with to what
  is really queued or being processed. `DeliveredOncePerLife` says what survives
  the store's many unguarded updates. `NoMinuteSkipped` ties `last_fire_at` to the
  rows and to the catch-up window. `SaturatedIsRequeued` and `CatchesUp` are
  liveness.
* Subagent. `OneRowPerAgent` and `StartedIsOfThisLife` are about the claims of two
  hooks and a picker on one row; `RequestIsSettled` is liveness.
* VaultSync. `UnpushedIsRecorded` ties the edge machine to git across deaths,
  `AcceptedAreSpaced` is the rate limit across restarts and failed runs,
  `RunFinishes` says that a run ends and so gives both locks back.
* Turns. `TurnEnds` says that every path, the hand-over to the background
  included, leads to somebody who ends the turn; `UserRowSurvives` and
  `UploadIsSettled` what is kept on each of the many error paths;
  `HistoryIsCurrent` that no turn answers from a history overtaken by another
  foreground turn (a voice turn may complete meanwhile, by design);
  `StopDrains` that an orderly stop loses neither row nor status of a job it
  cancels.
* RenderDoc. `UndeliveredIsThere` names the one way in which a document that waits
  can lose its file; `DeliverySpec`, the refinement, looks at a list that is flushed
  several times a turn, in which a document is heard of at most once; `Reaped` is liveness of the sweeper.
* MemoryIndex. `RowsFollowFiles` says that the threads never disagree by themselves;
  what is excepted is named in the history variables, and `ProbeIsExact` says of
  exactly those that the next start sees them, unless a later transaction has
  hidden them.
* Intake. `PhotoGoesOnce`, `UploadIsHeld` and `HeldPhotosFirst` follow a photo from
  its download to its turn. `NobodyIsStuck` says that some task can go on as long as
  a message is on its way; it is an invariant over `ENABLED` rather than a
  liveness property because the run uses symmetry. It has two parts: `SomebodyIsReady`,
  a condition on the variables alone, and that whoever is ready really is enabled.
  `InboxSpec` is the refinement: albums go whole and never above the limit, turns
  are served in their order, and what is over never comes back.
* Installer. `MarkedIsWhole` and `ShelfSpec` are what a start relies on that passes
  a marked skill unseen: the marker stands over a whole skill, and nothing but the
  owner takes that away; `InstalledWasShown` compares what was hashed with what is
  copied; `CacheIsExact` relates a key to a directory that threads change.
* Cron. `OncePerWallMinute` and `NothingIsLost` are about the repeated and the
  missing hour, `PromiseIsKept` about two walks that must agree.
* Connection. `ReturnedIsDurable` says that a call which has returned is on disk
  whoever's commit carried it, and names the one exception, a duplicate's rollback.
  `MinuteIsWhole` is what "commit or rollback together" amounts to over a shared
  transaction, and `MinuteFiresOnce` what the loop makes of it across deaths.

Refinements: `Scheduler!LifecycleSpec`, `Subagent!LifecycleSpec`,
`VaultSync!BackupSpec`, `Turns!SerialSpec`, `Intake!InboxSpec`, `RenderDoc!DeliverySpec`
and `Installer!ShelfSpec`. All seven are theorems. The type invariants are theorems too,
and no run checks them again, nor `HeardOnce` of RenderDoc and `MarkedStays` of
Installer, which follow from the refinement and are theorems of their own.

Why the bounds are enough. Two schedules with one queue slot is the least in which
a queue is full, a trigger is saturated and another is in flight at once; a second
minute is the least in which a row is late. Two errors give a revert and a dead
letter at the threshold 2. Two requests let a hook claim another row than the one
the picker dispatched; one agent with a repeated start gives two claims of one
identity, and the case of two agents is covered by the proofs. Two writes, one
before and one after a staged tree, make a torn snapshot possible if a lock fails;
one denied note makes a refused commit; one death at each await and one killed git
command reach every recovery path. Two turns under the lock and a voice turn
beside them make every overlap the lock rules out or allows, two voice messages
let one hold what the other waits for, a document has its own way to fail, and a
second stop or death would meet only what the first has left. Three renders let
one be cancelled while a namesake waits and a third is being delivered; one turn
is enough because a turn takes nothing over from the one before, and its calls may
outlive it. Two threads and two notes make every overlap of a write, a delete and
a reindex, and three calls let one follow a pair that overlapped; two edits are a
renamed note and a change. An album one photo too large meets the overflow, a
second album makes a text flush two buckets. Two lives and two installers reach
every leftover a start may find. Three ticks are a firing whose `last_fire_at` is
lost, the duplicate it leads to, and the firing after that; one call of each kind
is in every place between the loop's two statements, and two starts make the other
duplicate. A window as long as the clock's change is what the defaults have (3600
s); with a smaller one `PromiseIsKept` fails, since minutes of the repeated hour
hold up those behind them.

The counters `MaxCrashes`, `MaxErrors`, `MaxRepeats`, `MaxRequests`, `MaxWrites`,
`MaxFaults`, `MaxFailures`, `MaxStops`, `MaxTurns`, `MaxLives`, `MaxCalls`,
`MaxEdits`, `MaxChanges`, `MaxTicks`, `MaxCancels`, `MaxClock` and `Horizon` are
bounds of the model and stand in the guards of the actions they bound; the others
are settings of the code or the participants of a run. `CHECK_DEADLOCK FALSE` is
given everywhere but for the Scheduler: the other systems rest once the bounded
requests, messages, calls or minutes are over (or the vault is disabled at start).
The Scheduler's clock and loop never rest, so there deadlock is checked. Notes and
threads of `memory_index`, and the photos of the album of `intake`, are
interchangeable, and these runs declare symmetry; neither has a liveness property.

Fairness. Weak fairness of `Loop`, `Dispatcher`, `Boot` and `Clock`; of `Picker`
and `Boot`; of each run's `Step` and `Return` and of `WriterWrites`; of each turn's
`Answer` and `Job`, of `StopCloses` and of the boot; of `Sweep`. The event
loop runs every ready coroutine in turn, and each await these actions stand at is
bounded: store calls are local, the bridge has `claude.timeout`, the
sidecar's client its own, git has
`git_op_timeout_s` and `push_timeout_s`, the file lock its own timeout, a notice
`NOTIFY_TIMEOUT_S`, the sweeper only sleeps for its interval, and asyncio locks are
first come, first served. Systemd restarts the process. Nothing is assumed of the
owner, of the SDK's choice to start an agent, of errors, of the ttl, or of a caller
or writer that has not begun.

## 5. Proofs

| Theorem | Says |
|---|---|
| `SchedulerProofs!TypeCorrect`, `InflightExact`, `TerminalStaysFinal` | `TypeOK`, `InflightIsExact`, `TerminalIsFinal` for all schedules, horizons, queue sizes and limits |
| `SchedulerProofs!NothingSkipped` | `NoMinuteSkipped` |
| `SchedulerProofs!DeliveredOnce` | `DeliveredOncePerLife` of every run in which the LRU forgets nothing while the process lives (`LruLasts`) |
| `SchedulerProofs!DeliveredOnceSmall` | `DeliveredOncePerLife` of every run, if all firings up to the horizon fit into the LRU |
| `SchedulerProofs!SchedulerImplementsLifecycle` | `Scheduler` implements `TriggerLifecycle` |
| `SubagentProofs!TypeCorrect`, `AgentHasOneRow`, `NoGhosts`, `WriteOffIsSafe`, `DispatchesAreBounded` | `TypeOK`, `OneRowPerAgent`, `StartedIsOfThisLife`, `ErrorNeverStarted`, `DispatchBudget` |
| `SubagentProofs!LedgerImplementsLifecycle` | `Subagent` implements `JobLifecycle` |
| `VaultSyncProofs!TypeCorrect`, `UnpushedIsKnown`, `PushesAreSpaced` | `TypeOK`, `UnpushedIsRecorded`, `AcceptedAreSpaced` |
| `VaultSyncProofs!VaultSyncImplementsBackup` | `VaultSync` implements `VaultBackup` |
| `TurnsProofs!TypeCorrect`, `HistoryCurrent`, `UserRowKept`, `UploadSettled`, `StopDrained` | `TypeOK` and the safety properties of the run |
| `TurnsProofs!Serialised` | `Turns` implements `SerialTurns` |
| `RenderDocProofs!TypeCorrect`, `UndeliveredKept`, `HeardAtMostOnce` | `TypeOK`, `UndeliveredIsThere`, `HeardOnce` |
| `RenderDocProofs!RenderDocImplementsDelivery` | `RenderDoc` implements `Delivery` |
| `MemoryIndexProofs!TypeCorrect`, `RowsFollow`, `ProbeExact` | `TypeOK`, `RowsFollowFiles`, `ProbeIsExact` |
| `GroundProofs!TypesHold`, `PhotosGoOnce`, `UploadsAreHeld`, `HeldPhotosGoFirst` | Intake's `TypeOK`, `PhotoGoesOnce`, `UploadIsHeld`, `HeldPhotosFirst`, for all messages, albums, limits and lives |
| `GroundProofs!IntakeImplementsInbox` | `Intake` implements `Inbox` |
| `GroundProofs!SomebodyGoesOn` | `SomebodyIsReady`, of which `NobodyIsStuck` says that it is enough |
| `GroundProofs!TypeCorrect`, `ReturnedDurable`, `MinuteWhole`, `MinuteOnce`, `NothingLeft` | Connection's types, the three properties of its run, and `NothingIsLeftOpen` |
| `GroundProofs!FiresOncePerWallMinute`, `NothingLost` | Cron's `OncePerWallMinute`, `NothingIsLost`, for every calendar, change of the clock, expression and window |
| `GroundProofs!TakesTheOldest` | where no clock is set back, `is_due` is the rule `DueMinutes`, `IsDue` of Scheduler |
| `GroundProofs!PromiseKept` | `PromiseIsKept`, if the window is not shorter than what the clock is set back by |
| `InstallerProofs!TypeCorrect`, `MarkedSkillIsWhole`, `MarkedSkillStays`, `InstalledSkillWasShown`, `CachedListIsExact` | `TypeOK`, `MarkedIsWhole`, `MarkedStays`, `InstalledWasShown`, `CacheIsExact` |
| `InstallerProofs!InstallerImplementsShelf` | `Installer` implements `Shelf` |

They assume the named assumptions on the constants, and nothing else but for the
two conditions the table names; why those are needed is said below. `GroundProofs`
has the theorems of three modules, which it can extend at once because they share
neither names nor state.

*Custody* (Scheduler). `InflightIsExact` is not inductive: an enqueue keeps it
only if what the loop holds is neither queued nor being processed and has not
ended, which depends on where the loop stands. `Custody` adds `LoopHolds`,
`DispHolds` and `OffIsEmpty`: a trigger that is not at rest in its table is in
the hands of exactly one of loop, queue and dispatcher, and its row is live. That
terminal rows are never written follows, because each unguarded update is made
by the one that has the trigger in hand; the refinement of `TriggerLifecycle` follows
likewise, action by action. `NothingSkipped` needs that a tick's own minute is never
ahead of the clock (`TickIsPast`): what is outside the window then is outside it now.

*Remembered* (Scheduler). A trigger that was delivered in this life is in the LRU, and
one on its way to the owner (`check`, `handle`, `send`) is in it too but was not
delivered yet. Every step keeps that, unless the LRU drops a trigger of this life.
It may: with one slot and two schedules TLC finds a trigger that is delivered, whose
`mark_acked` raises, that is pushed out by the other one while it is reverted and
requeued, and is delivered again. So `DeliveredOncePerLife` is not a theorem of
`Spec` for every `LruSize`. `DeliveredOnce` has the LRU's memory as its hypothesis,
and `DeliveredOnceSmall` discharges it by counting (`LruTouchIs`, the library's facts
on cardinality, and `OnlyFirings`, that nothing but firings is ever queued). The
code has 256 slots, so 256 other triggers would have to pass between a delivery and
the next lookup of the same one.

*Ledger* (Subagent). What a status says of the row's agent (`RowsAreSound`), what
an agent's hooks say of its row (`AgentsAreSound`, `ClaimsAreSound`), what the
picker still owes the row it dispatches (`PickerHolds`, `BudgetIsKept`) and who
may still write to the owner about a job (`MessagesAreSound`). The dispatch
budget needs the count of open dispatches, since an attempt is written only after
its dispatch has returned. One message per job needs that whoever may still send
one is the only one who may.

*IInv* (VaultSync). `OneInside` says that a run in the pipeline heads the asyncio
lock's queue; `GitIsLocked` that before its commit it has the file lock;
so `StagedIsWhole` and `CommitIsCleared`: what passed the checks is still the
whole vault when it is committed, which is the `Snapshot` step of `VaultBackup`.
`SinceIsInvoked` ties the history variable to the persisted timer.

*IInv* (Turns). `Locked` says that the lock's queue holds exactly those who wait
for it or work under it, once each, with the worker in front. Every other part is
about one message: `Place`, where a message of its kind may stand; `Status`, what
the row of its turn says there; `Rows`, when the owner's row is written; `Upload`,
where the file is; `Owed`, what a stop still waits for. A step of one message keeps
them for all others, so each action is looked at for one message only. That
`complete_turn`, which looks at no status, never meets an interrupted turn is
`Status`; that the turns under the lock come one at a time, which the refinement
of `SerialTurns` needs, is `Locked`.

*IInv* (RenderDoc). `Records` says whose call has a record, `Doomed` that the records
the sweeper chose can never be in flight again, and `ListedOnce` that a document is
listed once and only those before the one being delivered have been heard of.
`ResultIsKept` carries `UndeliveredIsThere` over the time between the return of the
call and the moment the stream shows its result. The refinement of `Delivery` maps
the list to what is left of `pending` behind the flush and the store to the records
in flight; `ListedOnce` gives that only the front is spoken of, `Records` that only
a call that has not returned can be given up.

*IInv* (MemoryIndex). `Settled` is what the two properties need of a note at rest:
its row is that of its file and its time is not later than the index knows.
`Working` is what a thread under the lock may rely on unless the owner's editor, which
takes none, came between; `Visible` that a row behind its file shows in the times,
as long as nothing was `missed`. That the newest time on disk exists at all is an
argument over finite sets, `GreatestExists`.

*IInv* (Intake). None of the three properties is inductive, because each needs to know
where a message is when its bucket, its turn or its flush says it is somewhere.
`Core` and `Registry` tie a photo's `stage` to the bucket of its album; `AtLock` ties
`stage` to the queue and to the turn a message answers with, and says that a turn
answers itself and photos that are through; `Apart` that no message is in two turns.
`UploadIsHeld` is then `Uploads`, and `PhotoGoesOnce` follows from `Core`, `AtLock`
and `Apart`. `HeldPhotosFirst` needs `Ahead`: a photo that a text found is in a
bucket the text has yet to flush, or in a turn in front of the text in the
lock's queue, or through. A flush moves a whole bucket into a turn at the back of
the queue, where no text that holds one of its photos has come yet; that is the
longest step of the proof. For `Inbox` the same parts say that the messages of the
turn at the head of the queue are exactly those that become gone.

*SomebodyGoesOn* (Intake). Whoever waits, waits for somebody: a text that flushes for a
turn that is queued or over (`Waits`, over `Late`, which no message leaves), a turn
for the head of the queue, a photo in a bucket for its album's debounce task, which
sleeps as long as the bucket is open (`Timed`). No chain is circular, because what is
in the queue waits for turns only and the head of the queue waits for nobody.

*CronInv* and *Announced* (Cron). The walk of `is_due` looks only at the minutes after
`last_fire_at` and inside the window. `Behind` says that nothing due before
`last_fire_at` was passed over, `Fresh` that before the first firing there was
nothing to fire, and `Caught` that a minute about to leave the window has
been taken, which is what the tick of its last minute does; `FirstOnes` that what
fires is the first occurrence of its wall-clock minute. `OncePerWallMinute` is
`FirstOnes`, `NothingIsLost` is `Caught`. That the walks find the least or the greatest
minute of a finite set is an argument over finite sets (`MinIs` and the lemmas after it).
`Announced` follows the minute `next_fire` named on request: it has fired, or is
still ahead with nothing due between, or is a minute of the repeated hour that waits
for `last_fire_at` to come to it (`Foretold`). It fails if the clock is set back by more than
the window: TLC shows a change of 3 minutes and a window of 2 in which the promised
minute is skipped. The defaults are one hour and one hour.

*ConnectionInv* (Connection). `RowsKept` says where the row of a call is while the call
runs, in the open transaction or committed or rolled back by a duplicate;
`StoreLocked` that no other call of the scheduler's store runs beside the loop's two
statements; `WholeMinute` that without a commit or rollback of another store the
trigger is ahead of `last_fire_at` between these two only; `OnceKept` that a second
firing needs a rollback that took the row of the first.

*IInv* (Installer). `Threads` says what an install has in its hands at each of its
file-system calls: an unmarked skill between rename and marker is its own, so the
loser of two renames never rolls back the winner's. `Startup` says that no tool is
called before the bootstrap's first step, which is why the gate cannot remove a
skill that the owner's install is about to mark. `Shown` carries the manifest from
the preview to the copy. `KeyGrows` says that under one time of the directory the
number of files only grows: a key that was computed before a change is never met
again after it, which is what makes the cached list exact. For `Shelf` one more
invariant is needed, `Checked`: what a thread carries from its check to its mark has
passed the validation or has been wiped, though previews and timeouts take the
tree away under it.

Only model-checked. Every safety invariant and action property of the passing runs
is a theorem, but for the second half of `NobodyIsStuck` of Intake, that who is ready
is enabled: ENABLED is beyond the prover. The first half is `SomebodyGoesOn`. Liveness
under fairness is beyond the prover: `SaturatedIsRequeued`, `CatchesUp`,
`RequestIsSettled`, `RunFinishes`, `TurnEnds`, `Reaped`. What a run of Intake or of
Cron shows beyond the theorems is that the cases happen.

## 6. Where code and text disagree

`scheduler_retry` shows one: a run that fails is reverted to `pending`, but of the
pending rows the loop only picks up those marked saturated, so nothing retries it
and it never reaches the dead-letter threshold (`scheduler/dispatcher.py:174-175`).

The models were written from the code, and the following were noted on the way.
No run is kept for them; the models contain the behaviour, and properties that
would be broken by it name the exception.

* Scheduler. A `sent` row that `clean_slate_sent` reverts at boot is not replayed
  either, against `scheduler/store.py:18-19`, and a death between the commit of a
  new row and its enqueue strands that row as `pending`. The comment of
  `dispatcher.py:6-8` has the LRU catch duplicates after a crash, though it is empty
  then. `enable_schedule` does not look at the cap.
* Subagent. A stop hook that runs before the start hook has committed its claim
  finds no row and records nothing, against `subagent/store.py:250-253`; the branch
  written for this case looks for a requested row that carries the agent, and no
  statement ever writes one. A cancel during the dispatch ends the requested row at
  once, so the start hook inserts a second row without the flag and the tool gate
  lets the agent run on, against `tools_sdk/subagent.py:306`.
* VaultSync. The timer of the rate limit is restored only when the pipeline returns
  a failed result; an exception of `git status` leaves it charged, against
  `subsystem.py:720-721`. A young `index.lock` at boot is left in place although
  `boot.py:7-9` promises a clean first tick. Notices are sent after the lock is left
  and may overtake each other.
* Turns. The semaphore of the audio jobs covers the transcription only, against
  `handlers/message.py:1385-1386`; the bridge's own semaphore still takes the
  answers one at a time.
* Turns and Scheduler. `asyncio.timeout` in `bridge/claude.py:596` is entered inside
  the generator by the task of the handler. If it passes while the handler awaits
  something other than the stream, the handler is cancelled where it stands: a
  photo's turn ends without the row of the owner, against `handlers/message.py:888-890`,
  and the owner is told nothing. A message of the scheduler takes the dispatcher's
  task with it, and the supervisor (`main.py:956-971`) takes a `CancelledError` for a
  stop and never starts another, against the docstring at `main.py:936-942`.
* Connection. `scheduler/store.py:60-64` promises that the trigger and `last_fire_at`
  "commit-or-rollback together". A commit of another store between the two
  statements, then a death, leaves the trigger without its `last_fire_at`; every
  later tick inside the catch-up window then meets a duplicate, whose rollback undoes
  what the other stores have written and not committed. A rollback of another store
  between the two statements undoes the trigger and commits `last_fire_at`, and the
  minute is lost. While an `append` has not fetched its id, a commit of anybody
  raises although the next one makes the write durable.
* RenderDoc. A render has no await after `register_artefact`, so the branch for
  `CancelledError` (`subsystem.py:437-460`) never finds a record of its own, only
  those of namesakes, whose documents are lost; `send_document` then returns in
  silence, because its docstring (`adapters/telegram.py:217-218`) expects the
  handler to have told the owner, which the handler does only when it raises. A
  timed-out render's thread writes its file after the unlink, against
  the comment at `subsystem.py:440-447`. Documents go out only at a `ResultMessage`, so the order
  promised in `message.py:786-787` does not hold, and the drain of `main.py:1086-1093` does
  not cover their delivery. A stream that dies leaves records in flight until stop.
* MemoryIndex. The rename before the commit is said to be repaired by the probe
  (`_memory_core.py:889-891`). The probe compares a count and the newest time, so
  a later transaction hides a row that is behind: an edit of the owner followed by
  a write, a commit that failed followed by another. `missed` is this exception in
  `ProbeIsExact`. Renaming a note keeps its time. A note that cannot be parsed has no
  row, so the counts differ at every start, or agree by chance. `memory_delete` with
  another spelling of the path leaves the row. The overwrite check of `memory_write`
  comes before the lock.
* Intake. A photo still being fetched is overtaken by the text after it, against
  `telegram.py:272-277`, and a second text overtakes one that waits for an album.
  An apology that raises leaves the partial file to the sweep. A photo whose
  download ends after `cancel_all` opens a new bucket. Answers are sent after the
  lock is released, so two may change places.
* Installer. A death after the rename of `tools/` leaves `tools/<name>`, and every
  later bootstrap is refused. A `copytree` that fails leaves its staging directory
  outside the rollback, and `glob("*/SKILL.md")` lists staging directories in the
  prompt. A bootstrap that runs out of time goes on in its thread. A background
  sync that is stopped stays `pending`.
* Cron. Inside the repeated hour `next_fire` may return an instant before
  `from_utc`, against its docstring ("strictly after"). A schedule added there gets a
  `last_fire_at` an hour back and fires minutes from before it existed. The minutes
  of the repeated hour hold up those behind them until the window is over. The
  check for existing times is vacuous for walls that come from UTC.

## 7. Not modelled, and why

Not begun: the hourly limit of the supervisors (a limit on
respawns stands for it), migrations, the boot marker, and the background sync of
skills. Left out for good: the renderers, file extraction and transcription (calls
into libraries and services), the audit logs (files no decision reads), the argument
checks of tools and the tool guards of the bridge (pure), wording of messages,
commits and notices, configuration.

Inside the modelled parts: the notify call of a dead letter, store calls of a turn
that raise, the limit on its history, a corrupted vault state file and a failing
save of it, the interval of the vault loop (a tick may begin at any time after
the last), retries of a single send
on a rate limit, searches and listings, the month field of an expression, names of
time zones, skills of other names and two installs of the owner at once.
