----------------------------- MODULE Installer -----------------------------
(***************************************************************************)
(* Skills that are fetched, previewed and installed: the tools             *)
(* skill_preview, skill_install and skill_uninstall, the bootstrap of      *)
(* skill-creator that every start runs beside them, the sweep of staging   *)
(* directories, and the prompt's cached list of what is installed.         *)
(*                                                                         *)
(* One skill name and one address are modelled, those of skill-creator,    *)
(* for which a user's install and the bootstrap compete.  What a source or *)
(* a directory holds is a version of the bundle.  No lock guards any of    *)
(* this: tools and bootstrap share an event loop, and atomic_install runs  *)
(* in a thread, one file-system call per action.                           *)
(***************************************************************************)
EXTENDS Naturals

CONSTANTS Versions,   \* what the source may hold
          WithTools,  \* versions with a tools/ directory
          Valid,      \* versions that validate_bundle accepts
          Absent,     \* no directory, no file
          MaxChanges, \* bound: changes at the source
          MaxCalls,   \* bound: tool calls
          MaxFaults,  \* bound: fetches, copies, renames that fail, bootstrap timeouts
          MaxLives    \* bound: lives of the process

ASSUME VersionsAssumption == WithTools \subseteq Versions /\ Valid \subseteq Versions
ASSUME BoundsAssumption ==
         {MaxChanges, MaxCalls, MaxFaults} \subseteq Nat /\ MaxLives \in Nat \ {0}
ASSUME AbsentAssumption == Absent \notin Versions \cup {"user", "boot"}

VARIABLES
  source,   \* the version at the address
  manifest, \* the version whose hash manifest.json keeps
  preview,  \* how far a preview is
  bundle,   \* the tree the preview fetched
  stage,    \* how far the user's install and the bootstrap are
  work,     \* the tree each of them fetched: verify/ and skill-creator-boot
  wanted,   \* the manifest that the user's install has read
  staged,   \* the staging directories of each
  late,     \* the bootstrap's wait_for is over, its thread goes on
  skill,    \* skills/<name>: its version, the marker, and who put it there
  tools,    \* tools/<name>
  litter,   \* staging directories with a SKILL.md that nobody works on
  dirty,    \* run/skills.dirty
  stamp,    \* modification time of the directory skills
  reading,  \* the cache key that build_manifest has computed
  cache,    \* the cached list of skills with its key
  seen,     \* history: versions that a preview has shown
  changes, calls, faults, lives

vars == <<source, manifest, preview, bundle, stage, work, wanted, staged, late, skill,
          tools, litter, dirty, stamp, reading, cache, seen, changes, calls, faults, lives>>

cacheVars   == <<manifest, preview, bundle, seen>>
promptVars  == <<reading, cache>>
boundVars   == <<changes, calls, faults, lives>>

Installers == {"user", "boot"}
Maybe == Versions \cup {Absent}
NoSkill == [ver |-> Absent, marked |-> FALSE, by |-> Absent]
NoStage == [skill |-> Absent, tools |-> Absent]
InThread == {"copy", "skill", "tools", "marker"}

(* What the glob over skills/ finds: staging directories have a SKILL.md.  *)
Listing ==
  [skill |-> skill.ver, staged |-> [i \in Installers |-> staged[i].skill], litter |-> litter]

There(v) == IF v = Absent THEN 0 ELSE 1
Staging == There(staged["user"].skill) + There(staged["boot"].skill)
Count == litter + Staging + There(skill.ver)

(* Variant: the number of files is left out of the key.                    *)
KeyWithoutCount == [time |-> stamp, count |-> 0]

(* A SKILL.md keeps the time it was fetched at, which is before its copy   *)
(* changed skills/: the latest time is that of the directory.              *)
Key == [time |-> stamp, count |-> Count]

(* The event loop runs nothing else while a prompt is rendered; before the *)
(* sweep and the first step of the bootstrap no tool is called.            *)
LoopIsFree == reading = Absent
Serving == LoopIsFree /\ stage["boot"] \notin {"sweep", "gate"}

Init ==
  /\ source \in Versions
  /\ manifest = Absent /\ preview = "idle" /\ bundle = Absent /\ seen = {}
  /\ stage = [i \in Installers |-> IF i = "boot" THEN "sweep" ELSE "idle"]
  /\ work = [i \in Installers |-> Absent] /\ staged = [i \in Installers |-> NoStage]
  /\ wanted = Absent /\ late = FALSE /\ skill = NoSkill /\ tools = Absent
  /\ litter = 0 /\ dirty = FALSE /\ stamp = 0 /\ reading = Absent /\ cache = Absent
  /\ changes = 0 /\ calls = 0 /\ faults = 0 /\ lives = 1

----------------------------------------------------------------------------
(* The preview.                                                            *)

PreviewStarts ==
  /\ Serving /\ preview = "idle" /\ calls < MaxCalls
  /\ calls' = calls + 1
  /\ preview' = "fetch" /\ bundle' = Absent
  /\ UNCHANGED <<source, manifest, seen, stage, work, wanted, staged, late, skill, tools,
                 litter, dirty, stamp, promptVars, changes, faults, lives>>

PreviewFetches ==
  /\ Serving /\ preview = "fetch"
  /\ preview' = "check" /\ bundle' = source
  /\ UNCHANGED <<source, manifest, seen, stage, work, wanted, staged, late, skill, tools,
                 litter, dirty, stamp, promptVars, boundVars>>

(* A failed fetch leaves the manifest of an earlier preview.               *)
PreviewFails ==
  /\ Serving /\ preview = "fetch" /\ faults < MaxFaults
  /\ faults' = faults + 1
  /\ preview' = "idle"
  /\ UNCHANGED <<source, manifest, bundle, seen, stage, work, wanted, staged, late, skill,
                 tools, litter, dirty, stamp, promptVars, changes, calls, lives>>

(* An invalid bundle takes the whole cache directory with it, a running    *)
(* install's tree included.  A preview whose tree was wiped under it ends  *)
(* in an exception.                                                        *)
PreviewEnds ==
  /\ Serving /\ preview = "check"
  /\ preview' = "idle"
  /\ \/ /\ bundle = Absent
        /\ UNCHANGED <<manifest, bundle, seen, work>>
     \/ /\ bundle \in Versions \ Valid
        /\ manifest' = Absent /\ bundle' = Absent
        /\ work' = [work EXCEPT !["user"] = Absent]
        /\ UNCHANGED seen
     \/ /\ bundle \in Valid
        /\ manifest' = bundle /\ seen' = seen \cup {bundle}
        /\ UNCHANGED <<bundle, work>>
  /\ UNCHANGED <<source, stage, wanted, staged, late, skill, tools, litter, dirty, stamp,
                 promptVars, boundVars>>

----------------------------------------------------------------------------
(* Fetching and checking, by skill_install and by the bootstrap.           *)

InstallStarts ==
  /\ Serving /\ stage["user"] = "idle" /\ manifest # Absent /\ calls < MaxCalls
  /\ calls' = calls + 1
  /\ wanted' = manifest
  /\ stage' = [stage EXCEPT !["user"] = "fetch"]
  /\ work' = [work EXCEPT !["user"] = Absent]
  /\ UNCHANGED <<source, cacheVars, staged, late, skill, tools, litter, dirty, stamp,
                 promptVars, changes, faults, lives>>

Fetch(i) ==
  /\ Serving /\ stage[i] = "fetch"
  /\ work' = [work EXCEPT ![i] = source]
  /\ stage' = [stage EXCEPT ![i] = "check"]
  /\ UNCHANGED <<source, cacheVars, wanted, staged, late, skill, tools, litter, dirty,
                 stamp, promptVars, boundVars>>

(* A refusal, an error, an exception before the thread: the install is     *)
(* over, the bootstrap removes its tree.                                   *)
GivesUp(i) ==
  /\ stage' = [stage EXCEPT ![i] = "idle"]
  /\ work' = IF i = "boot" THEN [work EXCEPT !["boot"] = Absent] ELSE work

FetchFails(i) ==
  /\ Serving /\ stage[i] = "fetch" /\ faults < MaxFaults
  /\ faults' = faults + 1
  /\ GivesUp(i)
  /\ UNCHANGED <<source, cacheVars, wanted, staged, late, skill, tools, litter, dirty,
                 stamp, promptVars, changes, calls, lives>>

(* Variant: the re-fetched tree is not compared with the preview.          *)
SourceChangedNever == FALSE

(* skill_install compares the hash of what it fetched with the manifest.   *)
SourceChanged == work["user"] # wanted

(* validate_bundle, by what it decides.                                    *)
Passes(i) == work[i] \in Valid

(* Another content than the preview's wipes the cache; what the validation *)
(* refuses leaves it.                                                      *)
Check(i) ==
  /\ Serving /\ stage[i] = "check"
  /\ \/ /\ i = "user" /\ SourceChanged
        /\ manifest' = Absent /\ bundle' = Absent
        /\ work' = [work EXCEPT !["user"] = Absent]
        /\ stage' = [stage EXCEPT !["user"] = "idle"]
     \/ /\ i = "user" => ~SourceChanged
        /\ ~Passes(i)
        /\ GivesUp(i)
        /\ UNCHANGED <<manifest, bundle>>
     \/ /\ i = "user" => ~SourceChanged
        /\ Passes(i)
        /\ stage' = [stage EXCEPT ![i] = "enter"]
        /\ UNCHANGED <<manifest, bundle, work>>
  /\ UNCHANGED <<source, preview, seen, wanted, staged, late, skill, tools, litter, dirty,
                 stamp, promptVars, boundVars>>

----------------------------------------------------------------------------
(* atomic_install, in a thread.                                            *)

(* Both targets must be free; then the copy makes its staging directory.   *)
Enter(i) ==
  /\ stage[i] = "enter"
  /\ \/ /\ skill.ver # Absent \/ (tools # Absent /\ work[i] \in WithTools)
        /\ GivesUp(i)
        /\ late' = (late /\ i # "boot")
        /\ UNCHANGED stamp
     \/ /\ skill.ver = Absent /\ (tools = Absent \/ work[i] \notin WithTools)
        /\ stage' = [stage EXCEPT ![i] = "copy"]
        /\ stamp' = stamp + 1
        /\ UNCHANGED <<work, late>>
  /\ UNCHANGED <<source, cacheVars, wanted, staged, skill, tools, litter, dirty,
                 promptVars, boundVars>>

(* The copy's inner tools/ goes to a staging directory of its own.         *)
Copy(i) ==
  /\ stage[i] = "copy" /\ work[i] # Absent
  /\ staged' = [staged EXCEPT ![i] =
       [skill |-> work[i], tools |-> IF work[i] \in WithTools THEN work[i] ELSE Absent]]
  /\ stage' = [stage EXCEPT ![i] = "skill"]
  /\ UNCHANGED <<source, cacheVars, work, wanted, late, skill, tools, litter, dirty, stamp,
                 promptVars, boundVars>>

(* A full disk, or a tree that was wiped meanwhile: copytree raises, and   *)
(* its half-filled directory stays, with or without a SKILL.md.            *)
CopyFails(i) ==
  /\ stage[i] = "copy"
  /\ \/ work[i] = Absent /\ UNCHANGED faults
     \/ work[i] # Absent /\ faults < MaxFaults /\ faults' = faults + 1
  /\ litter' \in {litter, litter + 1}
  /\ GivesUp(i)
  /\ late' = (late /\ i # "boot")
  /\ UNCHANGED <<source, cacheVars, wanted, staged, skill, tools, dirty, stamp, promptVars,
                 changes, calls, lives>>

(* Variant: the rollback removes skills/<name> whoever put it there.       *)
RollbackAlways(i, created) ==
  /\ skill' = NoSkill
  /\ staged' = [staged EXCEPT ![i] = NoStage]
  /\ stamp' = stamp + 1
  /\ GivesUp(i)
  /\ late' = (late /\ i # "boot")

(* Whatever was staged or, by this install, put in place goes.             *)
Rollback(i, created) ==
  /\ skill' = IF created THEN NoSkill ELSE skill
  /\ staged' = [staged EXCEPT ![i] = NoStage]
  /\ stamp' = stamp + 1
  /\ GivesUp(i)
  /\ late' = (late /\ i # "boot")

(* rename(2) refuses a directory that is there and is not empty.           *)
RenameSkill(i) ==
  /\ stage[i] = "skill"
  /\ \/ /\ skill.ver = Absent
        /\ skill' = [ver |-> staged[i].skill, marked |-> FALSE, by |-> i]
        /\ staged' = [staged EXCEPT ![i].skill = Absent]
        /\ stage' = [stage EXCEPT ![i] =
             IF staged[i].tools = Absent THEN "marker" ELSE "tools"]
        /\ stamp' = stamp + 1
        /\ UNCHANGED <<work, late, faults>>
     \/ /\ skill.ver = Absent => faults < MaxFaults
        /\ faults' = IF skill.ver = Absent THEN faults + 1 ELSE faults
        /\ Rollback(i, FALSE)
  /\ UNCHANGED <<source, cacheVars, wanted, tools, litter, dirty, promptVars, changes, calls,
                 lives>>

(* Variant: a failed rename of tools/ is not rolled back.                  *)
RenameToolsGoesOn(i) ==
  /\ stage[i] = "tools"
  /\ staged' = [staged EXCEPT ![i].tools = Absent]
  /\ stage' = [stage EXCEPT ![i] = "marker"]
  /\ \/ tools = Absent /\ tools' = staged[i].tools /\ UNCHANGED faults
     \/ tools # Absent /\ UNCHANGED <<tools, faults>>
     \/ /\ tools = Absent /\ faults < MaxFaults
        /\ faults' = faults + 1 /\ UNCHANGED tools
  /\ UNCHANGED <<source, cacheVars, work, wanted, late, skill, litter, dirty, stamp,
                 promptVars, changes, calls, lives>>

RenameTools(i) ==
  /\ stage[i] = "tools"
  /\ \/ /\ tools = Absent
        /\ tools' = staged[i].tools
        /\ staged' = [staged EXCEPT ![i].tools = Absent]
        /\ stage' = [stage EXCEPT ![i] = "marker"]
        /\ UNCHANGED <<work, late, skill, stamp, faults>>
     \/ /\ tools = Absent => faults < MaxFaults
        /\ faults' = IF tools = Absent THEN faults + 1 ELSE faults
        /\ Rollback(i, TRUE)
        /\ UNCHANGED tools
  /\ UNCHANGED <<source, cacheVars, wanted, litter, dirty, promptVars, changes, calls, lives>>

Mark(i) ==
  /\ stage[i] = "marker"
  /\ skill' = [skill EXCEPT !.marked = TRUE]
  /\ stage' = [stage EXCEPT ![i] = "done"]
  /\ UNCHANGED <<source, cacheVars, work, wanted, staged, late, tools, litter, dirty, stamp,
                 promptVars, boundVars>>

(* Back on the loop.  A bootstrap whose time was over touches nothing any  *)
(* more; the user's install wipes its cache.                               *)
Finish(i) ==
  /\ Serving /\ stage[i] = "done"
  /\ stage' = [stage EXCEPT ![i] = "idle"]
  /\ work' = [work EXCEPT ![i] = Absent]
  /\ late' = (late /\ i # "boot")
  /\ dirty' = (dirty \/ i = "user" \/ ~late)
  /\ IF i = "user" THEN manifest' = Absent /\ bundle' = Absent
                   ELSE UNCHANGED <<manifest, bundle>>
  /\ UNCHANGED <<source, preview, seen, wanted, staged, skill, tools, litter, stamp,
                 promptVars, boundVars>>

----------------------------------------------------------------------------
(* Uninstalling, the start of the process, and the prompt.                 *)

(* Bound: an owner does not remove a skill while it is being installed.    *)
MayUninstall ==
  /\ Serving /\ calls < MaxCalls
  /\ \A i \in Installers : stage[i] \notin InThread \cup {"enter", "done"}

Uninstall ==
  /\ MayUninstall
  /\ calls' = calls + 1
  /\ skill' = NoSkill /\ tools' = Absent /\ dirty' = TRUE
  /\ stamp' = IF skill.ver = Absent THEN stamp ELSE stamp + 1
  /\ UNCHANGED <<source, cacheVars, stage, work, wanted, staged, late, litter, promptVars,
                 changes, faults, lives>>

(* Both sweeps run before the bootstrap's first step: their tasks were     *)
(* spawned first and await nothing.  A cache entry of a week may go.       *)
Sweep ==
  /\ LoopIsFree /\ stage["boot"] = "sweep"
  /\ stage' = [stage EXCEPT !["boot"] = "gate"]
  /\ litter' = 0
  /\ stamp' = IF litter = 0 THEN stamp ELSE stamp + 1
  /\ manifest' \in {manifest, Absent}
  /\ UNCHANGED <<source, preview, bundle, seen, work, wanted, staged, late, skill, tools,
                 dirty, promptVars, boundVars>>

(* A marker ends the bootstrap; a directory without one is removed.        *)
BootGate ==
  /\ LoopIsFree /\ stage["boot"] = "gate"
  /\ IF skill.marked
       THEN stage' = [stage EXCEPT !["boot"] = "idle"] /\ UNCHANGED <<skill, stamp>>
       ELSE /\ stage' = [stage EXCEPT !["boot"] = "fetch"]
            /\ skill' = NoSkill
            /\ stamp' = IF skill.ver = Absent THEN stamp ELSE stamp + 1
  /\ UNCHANGED <<source, cacheVars, work, wanted, staged, late, tools, litter, dirty,
                 promptVars, boundVars>>

(* The bootstrap's 120 s are over: its tree is removed, also under the     *)
(* thread, which nobody stops.                                             *)
BootTimesOut ==
  /\ Serving /\ ~late /\ faults < MaxFaults
  /\ stage["boot"] \in InThread \cup {"fetch", "check", "enter"}
  /\ faults' = faults + 1
  /\ work' = [work EXCEPT !["boot"] = Absent]
  /\ IF stage["boot"] \in InThread
       THEN late' = TRUE /\ UNCHANGED stage
       ELSE stage' = [stage EXCEPT !["boot"] = "idle"] /\ UNCHANGED late
  /\ UNCHANGED <<source, cacheVars, wanted, staged, skill, tools, litter, dirty, stamp,
                 promptVars, changes, calls, lives>>

(* What a death leaves of the staging directories is litter.  It may come  *)
(* between the two removals of an uninstall.                               *)
Die ==
  /\ lives < MaxLives
  /\ lives' = lives + 1
  /\ litter' = litter + Staging
  /\ staged' = [i \in Installers |-> NoStage] /\ work' = [i \in Installers |-> Absent]
  /\ stage' = [i \in Installers |-> IF i = "boot" THEN "sweep" ELSE "idle"]
  /\ preview' = "idle" /\ bundle' = Absent /\ wanted' = Absent /\ late' = FALSE
  /\ reading' = Absent /\ cache' = Absent
  /\ \/ UNCHANGED <<skill, calls>>
     \/ /\ MayUninstall
        /\ skill' = NoSkill /\ calls' = calls + 1
  /\ UNCHANGED <<source, manifest, seen, tools, dirty, stamp, changes, faults>>

SourceChanges ==
  /\ changes < MaxChanges
  /\ changes' = changes + 1
  /\ source' \in Versions \ {source}
  /\ UNCHANGED <<cacheVars, stage, work, wanted, staged, late, skill, tools, litter, dirty,
                 stamp, promptVars, calls, faults, lives>>

(* The prompt: the sentinel drops the cache and bumps the directory's      *)
(* time; then build_manifest computes its key.                             *)
Render ==
  /\ Serving
  /\ dirty' = FALSE
  /\ stamp' = IF dirty THEN stamp + 1 ELSE stamp
  /\ cache' = IF dirty THEN Absent ELSE cache
  /\ reading' = [Key EXCEPT !.time = stamp']
  /\ UNCHANGED <<source, cacheVars, stage, work, wanted, staged, late, skill, tools, litter,
                 boundVars>>

(* A cached list with that key serves; otherwise the directory is read,    *)
(* perhaps after a thread has changed it.                                  *)
List ==
  /\ reading # Absent
  /\ reading' = Absent
  /\ IF cache # Absent /\ cache.key = reading
       THEN UNCHANGED cache
       ELSE cache' = [key |-> reading, listing |-> Listing]
  /\ UNCHANGED <<source, cacheVars, stage, work, wanted, staged, late, skill, tools, litter,
                 dirty, stamp, boundVars>>

Next ==
  \/ PreviewStarts \/ PreviewFetches \/ PreviewFails \/ PreviewEnds \/ InstallStarts
  \/ \E i \in Installers :
       \/ Fetch(i) \/ FetchFails(i) \/ Check(i) \/ Enter(i) \/ Copy(i) \/ CopyFails(i)
       \/ RenameSkill(i) \/ RenameTools(i) \/ Mark(i) \/ Finish(i)
  \/ Uninstall \/ Sweep \/ BootGate \/ BootTimesOut \/ Die \/ SourceChanges
  \/ Render \/ List

Spec == Init /\ [][Next]_vars

----------------------------------------------------------------------------
(* Properties.                                                             *)

Keys == [time : Nat, count : Nat]
Skills == [ver : Maybe, marked : BOOLEAN, by : Installers \cup {Absent}]
Listings == [skill : Maybe, staged : [Installers -> Maybe], litter : Nat]

Stages == InThread \cup {"sweep", "gate", "idle", "fetch", "check", "enter", "done"}

FetchedOK ==
  /\ source \in Versions /\ manifest \in Maybe /\ bundle \in Maybe /\ wanted \in Maybe
  /\ preview \in {"idle", "fetch", "check"} /\ seen \subseteq Versions
  /\ work \in [Installers -> Maybe]

StageOK ==
  /\ stage \in [Installers -> Stages]
  /\ late \in BOOLEAN
  /\ late => stage["boot"] \in InThread \cup {"done"}

StagedOK ==
  /\ staged \in [Installers -> [skill : Maybe, tools : Maybe]]
  /\ \A i \in Installers : staged[i] # NoStage => stage[i] \in {"skill", "tools"}

PlacedOK ==
  /\ skill \in Skills
  /\ tools \in Maybe /\ litter \in Nat /\ dirty \in BOOLEAN /\ stamp \in Nat

PromptOK ==
  /\ reading \in Keys \cup {Absent}
  /\ cache \in [key : Keys, listing : Listings] \cup {Absent}

BoundOK ==
  /\ changes \in 0..MaxChanges /\ calls \in 0..MaxCalls /\ faults \in 0..MaxFaults
  /\ lives \in 1..MaxLives

(* The variables keep their types; a staging directory belongs to a thread *)
(* at work or is litter, and only a running thread can be late.            *)
TypeOK == FetchedOK /\ StageOK /\ StagedOK /\ PlacedOK /\ PromptOK /\ BoundOK

(* The marker .0xone-installed, which lets every later start pass, stands  *)
(* only over a skill that is in place with the tools of its version,       *)
(* however installs, rollbacks, the bootstrap and deaths interleave.       *)
MarkedIsWhole ==
  skill.marked =>
    skill.ver \in Versions /\ (skill.ver \in WithTools => tools = skill.ver)

(* What the user's install puts in place is a version that a preview has   *)
(* shown, though the source changes and the cache is wiped meanwhile.      *)
InstalledWasShown == skill.by = "user" => skill.ver \in seen

(* Of two installs of one name the first wins and keeps it: no rollback,   *)
(* no cleanup of a start, nothing but an uninstall removes or changes a    *)
(* skill that has its marker.                                              *)
MarkedStays == [][skill.marked /\ calls' = calls => skill' = skill]_vars

(* The promise of Shelf.                                                   *)
Whole == [skill |-> skill.ver, by |-> skill.by,
          tools |-> IF skill.ver \in WithTools THEN tools ELSE Absent]
Rack == INSTANCE Shelf WITH
  shelf <- IF skill.marked THEN Whole ELSE Absent, shown <- seen, asked <- calls
ShelfSpec == Rack!Spec

(* A cached list of skills whose key is still that of the directory is     *)
(* what the directory holds, though a thread renames and removes while the *)
(* list is read: the key is computed before the reading.                   *)
CacheIsExact ==
  reading = Absent /\ cache # Absent =>
    (cache.key = Key => cache.listing = Listing)
=============================================================================
