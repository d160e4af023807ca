-------------------------- MODULE InstallerProofs --------------------------
(***************************************************************************)
(* Theorems about Installer for every set of versions and every bound.     *)
(* The inductive invariant has four parts: what a thread has moved so far  *)
(* (Threads), which start-up steps exclude which tool (Startup), where a   *)
(* version came from (Shown), and how the prompt's key grows (KeyGrows).   *)
(***************************************************************************)
EXTENDS Installer, TLAPS

(* An install holds in its hands what it has not yet renamed, and is the   *)
(* one that put the unmarked skill there between its rename and the mark.  *)
Holds(i) ==
  /\ stage[i] = "skill" =>
       /\ staged[i].skill \in Versions
       /\ staged[i].tools = IF staged[i].skill \in WithTools THEN staged[i].skill ELSE Absent
  /\ stage[i] \in {"tools", "marker"} => skill.by = i /\ ~skill.marked /\ skill.ver \in Versions
  /\ stage[i] = "tools" =>
       skill.ver \in WithTools /\ staged[i] = [skill |-> Absent, tools |-> skill.ver]
  /\ stage[i] = "marker" /\ skill.ver \in WithTools => tools = skill.ver

Threads == (\A i \in Installers : Holds(i)) /\ MarkedIsWhole

(* Before the bootstrap's first step no tool has been called.              *)
Startup == stage["boot"] \in {"sweep", "gate"} => stage["user"] = "idle"

(* What the user's install works on is what it was asked for, or gone.     *)
Shown ==
  /\ InstalledWasShown
  /\ manifest \in seen \cup {Absent}
  /\ stage["user"] # "idle" => wanted \in seen
  /\ stage["user"] \in {"enter", "copy"} => work["user"] \in {wanted, Absent}
  /\ stage["user"] = "skill" => staged["user"].skill = wanted

(* Under one time of the directory the number of files only grows, so a    *)
(* key that has been computed is never met again once something changed.   *)
NotAfter(k) == k.time < stamp \/ (k.time = stamp /\ k.count <= Count)
KeyGrows ==
  /\ reading # Absent => NotAfter(reading)
  /\ cache # Absent => NotAfter(cache.key) /\ (cache.key = Key => cache.listing = Listing)

IInv == TypeOK /\ Threads /\ Startup /\ Shown /\ KeyGrows

-----------------------------------------------------------------------------
(* Types, one lemma for each conjunct of TypeOK.                           *)

(* The constant that stands for no skill is a skill record.                *)
LEMMA NoSkillType == NoSkill \in Skills
  BY DEF NoSkill, Skills, Maybe

(* What is fetched, previewed and wanted is a version or absent after      *)
(* every step.                                                             *)
LEMMA FetchedOKStep == TypeOK /\ [Next]_vars => FetchedOK'
<1> SUFFICES ASSUME TypeOK, [Next]_vars PROVE FetchedOK'
  OBVIOUS
<1> USE VersionsAssumption, AbsentAssumption DEF TypeOK, FetchedOK, Installers, Maybe
<1>1. CASE PreviewStarts
  BY <1>1 DEF PreviewStarts, cacheVars
<1>2. CASE PreviewFetches
  BY <1>2 DEF PreviewFetches, cacheVars
<1>3. CASE PreviewFails
  BY <1>3 DEF PreviewFails, cacheVars
<1>4. CASE PreviewEnds
  BY <1>4 DEF PreviewEnds, cacheVars
<1>5. CASE InstallStarts
  BY <1>5 DEF InstallStarts, cacheVars
<1>6. ASSUME NEW i \in Installers, Fetch(i) PROVE FetchedOK'
  BY <1>6 DEF Fetch, cacheVars
<1>7. ASSUME NEW i \in Installers, FetchFails(i) PROVE FetchedOK'
  BY <1>7 DEF FetchFails, GivesUp, cacheVars
<1>8. ASSUME NEW i \in Installers, Check(i) PROVE FetchedOK'
  BY <1>8 DEF Check, GivesUp, cacheVars
<1>9. ASSUME NEW i \in Installers, Enter(i) PROVE FetchedOK'
  BY <1>9 DEF Enter, GivesUp, cacheVars
<1>10. ASSUME NEW i \in Installers, Copy(i) PROVE FetchedOK'
  BY <1>10 DEF Copy, cacheVars
<1>11. ASSUME NEW i \in Installers, CopyFails(i) PROVE FetchedOK'
  BY <1>11 DEF CopyFails, GivesUp, cacheVars
<1>12. ASSUME NEW i \in Installers, RenameSkill(i) PROVE FetchedOK'
  BY <1>12 DEF RenameSkill, Rollback, GivesUp, cacheVars
<1>13. ASSUME NEW i \in Installers, RenameTools(i) PROVE FetchedOK'
  BY <1>13 DEF RenameTools, Rollback, GivesUp, cacheVars
<1>14. ASSUME NEW i \in Installers, Mark(i) PROVE FetchedOK'
  BY <1>14 DEF Mark, cacheVars
<1>15. ASSUME NEW i \in Installers, Finish(i) PROVE FetchedOK'
  BY <1>15 DEF Finish, cacheVars
<1>16. CASE Uninstall
  BY <1>16 DEF Uninstall, MayUninstall, cacheVars
<1>17. CASE Sweep
  BY <1>17 DEF Sweep, cacheVars
<1>18. CASE BootGate
  BY <1>18 DEF BootGate, cacheVars
<1>19. CASE BootTimesOut
  BY <1>19 DEF BootTimesOut, cacheVars
<1>20. CASE Die
  BY <1>20 DEF Die, MayUninstall, cacheVars
<1>21. CASE SourceChanges
  BY <1>21 DEF SourceChanges, cacheVars
<1>22. CASE Render
  BY <1>22 DEF Render, cacheVars
<1>23. CASE List
  BY <1>23 DEF List, cacheVars
<1>24. CASE UNCHANGED vars
  BY <1>24 DEF vars
<1>25. QED
  BY <1>1, <1>2, <1>3, <1>4, <1>5, <1>6, <1>7, <1>8, <1>9, <1>10, <1>11, <1>12, <1>13,
     <1>14, <1>15, <1>16, <1>17, <1>18, <1>19, <1>20, <1>21, <1>22, <1>23, <1>24 DEF
     Next

(* A bootstrap is late only while its thread runs: every way out of the    *)
(* thread, a failed rename and a death included, forgets it.               *)
LEMMA StageOKStep == TypeOK /\ [Next]_vars => StageOK'
<1> SUFFICES ASSUME TypeOK, [Next]_vars PROVE StageOK'
  OBVIOUS
<1> USE VersionsAssumption, AbsentAssumption DEF TypeOK, StageOK, Stages, Installers,
     InThread
<1>1. CASE PreviewStarts
  BY <1>1 DEF PreviewStarts
<1>2. CASE PreviewFetches
  BY <1>2 DEF PreviewFetches
<1>3. CASE PreviewFails
  BY <1>3 DEF PreviewFails
<1>4. CASE PreviewEnds
  BY <1>4 DEF PreviewEnds
<1>5. CASE InstallStarts
  BY <1>5 DEF InstallStarts
<1>6. ASSUME NEW i \in Installers, Fetch(i) PROVE StageOK'
  BY <1>6 DEF Fetch
<1>7. ASSUME NEW i \in Installers, FetchFails(i) PROVE StageOK'
  BY <1>7 DEF FetchFails, GivesUp
<1>8. ASSUME NEW i \in Installers, Check(i) PROVE StageOK'
  BY <1>8 DEF Check, GivesUp
<1>9. ASSUME NEW i \in Installers, Enter(i) PROVE StageOK'
  BY <1>9 DEF Enter, GivesUp
<1>10. ASSUME NEW i \in Installers, Copy(i) PROVE StageOK'
  BY <1>10 DEF Copy
<1>11. ASSUME NEW i \in Installers, CopyFails(i) PROVE StageOK'
  BY <1>11 DEF CopyFails, GivesUp
<1>12. ASSUME NEW i \in Installers, RenameSkill(i) PROVE StageOK'
  <2>1. \/ stage' = [stage EXCEPT ![i] = "marker"] /\ late' = late
        \/ stage' = [stage EXCEPT ![i] = "tools"] /\ late' = late
        \/ stage' = [stage EXCEPT ![i] = "idle"] /\ late' = (late /\ i # "boot")
    BY <1>12 DEF RenameSkill, Rollback, GivesUp
  <2>2. stage' \in [Installers -> Stages]
    BY <2>1
  <2>3. late' \in BOOLEAN
    BY <2>1
  <2>4. late' => stage'["boot"] \in InThread \cup {"done"}
    BY <2>1
  <2>5. QED
    BY <2>2, <2>3, <2>4
<1>13. ASSUME NEW i \in Installers, RenameTools(i) PROVE StageOK'
  <2>1. \/ stage' = [stage EXCEPT ![i] = "marker"] /\ late' = late
        \/ stage' = [stage EXCEPT ![i] = "idle"] /\ late' = (late /\ i # "boot")
    BY <1>13 DEF RenameTools, Rollback, GivesUp
  <2>2. stage' \in [Installers -> Stages]
    BY <2>1
  <2>3. late' \in BOOLEAN
    BY <2>1
  <2>4. late' => stage'["boot"] \in InThread \cup {"done"}
    BY <2>1
  <2>5. QED
    BY <2>2, <2>3, <2>4
<1>14. ASSUME NEW i \in Installers, Mark(i) PROVE StageOK'
  BY <1>14 DEF Mark
<1>15. ASSUME NEW i \in Installers, Finish(i) PROVE StageOK'
  BY <1>15 DEF Finish
<1>16. CASE Uninstall
  BY <1>16 DEF Uninstall, MayUninstall
<1>17. CASE Sweep
  BY <1>17 DEF Sweep
<1>18. CASE BootGate
  BY <1>18 DEF BootGate
<1>19. CASE BootTimesOut
  BY <1>19 DEF BootTimesOut
<1>20. CASE Die
  BY <1>20 DEF Die, MayUninstall
<1>21. CASE SourceChanges
  BY <1>21 DEF SourceChanges
<1>22. CASE Render
  BY <1>22 DEF Render
<1>23. CASE List
  BY <1>23 DEF List
<1>24. CASE UNCHANGED vars
  BY <1>24 DEF vars
<1>25. QED
  BY <1>1, <1>2, <1>3, <1>4, <1>5, <1>6, <1>7, <1>8, <1>9, <1>10, <1>11, <1>12, <1>13,
     <1>14, <1>15, <1>16, <1>17, <1>18, <1>19, <1>20, <1>21, <1>22, <1>23, <1>24 DEF
     Next

(* A staging directory is left to nobody: both renames, the rollback and   *)
(* a death take it along.  That a thread at the second rename holds only   *)
(* tools/ comes from Threads.                                              *)
LEMMA StagedOKStep == TypeOK /\ Threads /\ [Next]_vars => StagedOK'
<1> SUFFICES ASSUME TypeOK /\ Threads, [Next]_vars PROVE StagedOK'
  OBVIOUS
<1> USE VersionsAssumption, AbsentAssumption DEF TypeOK, StagedOK, StageOK, Installers,
     NoStage, Stages, InThread, Maybe
<1>1. CASE PreviewStarts
  BY <1>1 DEF PreviewStarts
<1>2. CASE PreviewFetches
  BY <1>2 DEF PreviewFetches
<1>3. CASE PreviewFails
  BY <1>3 DEF PreviewFails
<1>4. CASE PreviewEnds
  BY <1>4 DEF PreviewEnds
<1>5. CASE InstallStarts
  BY <1>5 DEF InstallStarts
<1>6. ASSUME NEW i \in Installers, Fetch(i) PROVE StagedOK'
  BY <1>6 DEF Fetch
<1>7. ASSUME NEW i \in Installers, FetchFails(i) PROVE StagedOK'
  BY <1>7 DEF FetchFails, GivesUp
<1>8. ASSUME NEW i \in Installers, Check(i) PROVE StagedOK'
  BY <1>8 DEF Check, GivesUp
<1>9. ASSUME NEW i \in Installers, Enter(i) PROVE StagedOK'
  BY <1>9 DEF Enter, GivesUp
<1>10. ASSUME NEW i \in Installers, Copy(i) PROVE StagedOK'
  <2>1. /\ stage' = [stage EXCEPT ![i] = "skill"]
        /\ staged' = [staged EXCEPT ![i] = staged'[i]]
        /\ staged'[i] \in [skill : Maybe, tools : Maybe]
    BY <1>10 DEF Copy, FetchedOK
  <2>2. QED
    BY <2>1
<1>11. ASSUME NEW i \in Installers, CopyFails(i) PROVE StagedOK'
  BY <1>11 DEF CopyFails, GivesUp
<1>12. ASSUME NEW i \in Installers, RenameSkill(i) PROVE StagedOK'
  BY <1>12 DEF RenameSkill, Rollback, GivesUp
<1>13. ASSUME NEW i \in Installers, RenameTools(i) PROVE StagedOK'
  <2>1. stage[i] = "tools" /\ staged[i].skill = Absent
    BY <1>13 DEF RenameTools, Threads, Holds
  <2>2. staged' = [staged EXCEPT ![i].tools = Absent] \/ staged' = [staged EXCEPT ![i] = NoStage]
    BY <1>13 DEF RenameTools, Rollback
  <2>3. staged' = [staged EXCEPT ![i] = NoStage]
    BY <2>1, <2>2
  <2>4. stage' = [stage EXCEPT ![i] = "marker"] \/ stage' = [stage EXCEPT ![i] = "idle"]
    BY <1>13 DEF RenameTools, Rollback, GivesUp
  <2>5. QED
    BY <2>3, <2>4
<1>14. ASSUME NEW i \in Installers, Mark(i) PROVE StagedOK'
  BY <1>14 DEF Mark
<1>15. ASSUME NEW i \in Installers, Finish(i) PROVE StagedOK'
  BY <1>15 DEF Finish
<1>16. CASE Uninstall
  BY <1>16 DEF Uninstall, MayUninstall
<1>17. CASE Sweep
  BY <1>17 DEF Sweep
<1>18. CASE BootGate
  BY <1>18 DEF BootGate
<1>19. CASE BootTimesOut
  BY <1>19 DEF BootTimesOut
<1>20. CASE Die
  BY <1>20 DEF Die, MayUninstall
<1>21. CASE SourceChanges
  BY <1>21 DEF SourceChanges
<1>22. CASE Render
  BY <1>22 DEF Render
<1>23. CASE List
  BY <1>23 DEF List
<1>24. CASE UNCHANGED vars
  BY <1>24 DEF vars
<1>25. QED
  BY <1>1, <1>2, <1>3, <1>4, <1>5, <1>6, <1>7, <1>8, <1>9, <1>10, <1>11, <1>12, <1>13,
     <1>14, <1>15, <1>16, <1>17, <1>18, <1>19, <1>20, <1>21, <1>22, <1>23, <1>24 DEF
     Next

(* What is in place stays a skill record, whoever puts it there or takes   *)
(* it away.                                                                *)
LEMMA PlacedOKStep == TypeOK /\ [Next]_vars => PlacedOK'
<1> SUFFICES ASSUME TypeOK, [Next]_vars PROVE PlacedOK'
  OBVIOUS
<1> USE VersionsAssumption, AbsentAssumption DEF TypeOK, PlacedOK, Maybe
<1>1. CASE PreviewStarts
  BY <1>1 DEF PreviewStarts
<1>2. CASE PreviewFetches
  BY <1>2 DEF PreviewFetches
<1>3. CASE PreviewFails
  BY <1>3 DEF PreviewFails
<1>4. CASE PreviewEnds
  BY <1>4 DEF PreviewEnds
<1>5. CASE InstallStarts
  BY <1>5 DEF InstallStarts
<1>6. ASSUME NEW i \in Installers, Fetch(i) PROVE PlacedOK'
  BY <1>6 DEF Fetch
<1>7. ASSUME NEW i \in Installers, FetchFails(i) PROVE PlacedOK'
  BY <1>7 DEF FetchFails, GivesUp
<1>8. ASSUME NEW i \in Installers, Check(i) PROVE PlacedOK'
  BY <1>8 DEF Check, GivesUp
<1>9. ASSUME NEW i \in Installers, Enter(i) PROVE PlacedOK'
  BY <1>9 DEF Enter, GivesUp
<1>10. ASSUME NEW i \in Installers, Copy(i) PROVE PlacedOK'
  BY <1>10 DEF Copy
<1>11. ASSUME NEW i \in Installers, CopyFails(i) PROVE PlacedOK'
  BY <1>11 DEF CopyFails, GivesUp
<1>12. ASSUME NEW i \in Installers, RenameSkill(i) PROVE PlacedOK'
  <2>1. \/ skill' = [ver |-> staged[i].skill, marked |-> FALSE, by |-> i]
        \/ skill' = skill
    BY <1>12 DEF RenameSkill, Rollback
  <2>2. staged[i].skill \in Maybe
    BY DEF StagedOK
  <2>3. [ver |-> staged[i].skill, marked |-> FALSE, by |-> i] \in Skills
    BY <2>2 DEF Skills
  <2>4. stamp' = stamp + 1 /\ tools' = tools /\ litter' = litter /\ dirty' = dirty
    BY <1>12 DEF RenameSkill, Rollback
  <2>5. skill' \in Skills
    BY <2>1, <2>3
  <2>6. QED
    BY <2>4, <2>5
<1>13. ASSUME NEW i \in Installers, RenameTools(i) PROVE PlacedOK'
  <2>1. tools' \in {tools, staged[i].tools} /\ staged[i].tools \in Maybe
    BY <1>13 DEF RenameTools, Rollback, StagedOK
  <2>2. skill' \in {skill, NoSkill}
    BY <1>13 DEF RenameTools, Rollback
  <2>3. stamp' \in {stamp, stamp + 1} /\ litter' = litter /\ dirty' = dirty
    BY <1>13 DEF RenameTools, Rollback
  <2>4. QED
    BY <2>1, <2>2, <2>3, NoSkillType
<1>14. ASSUME NEW i \in Installers, Mark(i) PROVE PlacedOK'
  BY <1>14 DEF Mark, Skills
<1>15. ASSUME NEW i \in Installers, Finish(i) PROVE PlacedOK'
  BY <1>15 DEF Finish
<1>16. CASE Uninstall
  BY <1>16, NoSkillType DEF Uninstall
<1>17. CASE Sweep
  BY <1>17 DEF Sweep
<1>18. CASE BootGate
  <2>1. skill' \in {skill, NoSkill}
    BY <1>18 DEF BootGate
  <2>2. stamp' \in {stamp, stamp + 1}
    BY <1>18 DEF BootGate
  <2>3. tools' = tools /\ litter' = litter /\ dirty' = dirty
    BY <1>18 DEF BootGate
  <2>4. QED
    BY <2>1, <2>2, <2>3, NoSkillType
<1>19. CASE BootTimesOut
  BY <1>19 DEF BootTimesOut
<1>20. CASE Die
  <2>1. skill' \in {skill, NoSkill}
    BY <1>20 DEF Die
  <2>2. Staging \in Nat
    BY DEF Staging, There
  <2>3. litter' = litter + Staging /\ tools' = tools /\ dirty' = dirty /\ stamp' = stamp
    BY <1>20 DEF Die
  <2>4. QED
    BY <2>1, <2>2, <2>3, NoSkillType
<1>21. CASE SourceChanges
  BY <1>21 DEF SourceChanges
<1>22. CASE Render
  <2>1. dirty' = FALSE /\ stamp' \in {stamp, stamp + 1}
    BY <1>22 DEF Render
  <2>2. skill' = skill /\ tools' = tools /\ litter' = litter
    BY <1>22 DEF Render
  <2>3. stamp' \in Nat
    BY <2>1
  <2>4. dirty' \in BOOLEAN
    BY <2>1
  <2>5. QED
    BY <2>2, <2>3, <2>4
<1>23. CASE List
  BY <1>23 DEF List
<1>24. CASE UNCHANGED vars
  BY <1>24 DEF vars
<1>25. QED
  BY <1>1, <1>2, <1>3, <1>4, <1>5, <1>6, <1>7, <1>8, <1>9, <1>10, <1>11, <1>12, <1>13,
     <1>14, <1>15, <1>16, <1>17, <1>18, <1>19, <1>20, <1>21, <1>22, <1>23, <1>24 DEF
     Next

(* The prompt's key and its cached list keep their shape.                  *)
LEMMA PromptOKStep == TypeOK /\ [Next]_vars => PromptOK'
<1> SUFFICES ASSUME TypeOK, [Next]_vars PROVE PromptOK'
  OBVIOUS
<1> USE VersionsAssumption, AbsentAssumption DEF TypeOK, PromptOK
<1>1. CASE PreviewStarts
  BY <1>1 DEF PreviewStarts, promptVars
<1>2. CASE PreviewFetches
  BY <1>2 DEF PreviewFetches, promptVars
<1>3. CASE PreviewFails
  BY <1>3 DEF PreviewFails, promptVars
<1>4. CASE PreviewEnds
  BY <1>4 DEF PreviewEnds, promptVars
<1>5. CASE InstallStarts
  BY <1>5 DEF InstallStarts, promptVars
<1>6. ASSUME NEW i \in Installers, Fetch(i) PROVE PromptOK'
  BY <1>6 DEF Fetch, promptVars
<1>7. ASSUME NEW i \in Installers, FetchFails(i) PROVE PromptOK'
  BY <1>7 DEF FetchFails, GivesUp, promptVars
<1>8. ASSUME NEW i \in Installers, Check(i) PROVE PromptOK'
  BY <1>8 DEF Check, GivesUp, promptVars
<1>9. ASSUME NEW i \in Installers, Enter(i) PROVE PromptOK'
  BY <1>9 DEF Enter, GivesUp, promptVars
<1>10. ASSUME NEW i \in Installers, Copy(i) PROVE PromptOK'
  BY <1>10 DEF Copy, promptVars
<1>11. ASSUME NEW i \in Installers, CopyFails(i) PROVE PromptOK'
  BY <1>11 DEF CopyFails, GivesUp, promptVars
<1>12. ASSUME NEW i \in Installers, RenameSkill(i) PROVE PromptOK'
  BY <1>12 DEF RenameSkill, Rollback, GivesUp, promptVars
<1>13. ASSUME NEW i \in Installers, RenameTools(i) PROVE PromptOK'
  BY <1>13 DEF RenameTools, Rollback, GivesUp, promptVars
<1>14. ASSUME NEW i \in Installers, Mark(i) PROVE PromptOK'
  BY <1>14 DEF Mark, promptVars
<1>15. ASSUME NEW i \in Installers, Finish(i) PROVE PromptOK'
  BY <1>15 DEF Finish, promptVars
<1>16. CASE Uninstall
  BY <1>16 DEF Uninstall, MayUninstall, promptVars
<1>17. CASE Sweep
  BY <1>17 DEF Sweep, promptVars
<1>18. CASE BootGate
  BY <1>18 DEF BootGate, promptVars
<1>19. CASE BootTimesOut
  BY <1>19 DEF BootTimesOut, promptVars
<1>20. CASE Die
  BY <1>20 DEF Die, MayUninstall, promptVars
<1>21. CASE SourceChanges
  BY <1>21 DEF SourceChanges, promptVars
<1>22. CASE Render
  <2>1. Count \in Nat /\ stamp' \in Nat
    BY <1>22 DEF Render, Count, Staging, There, PlacedOK
  <2>2. /\ cache' \in {cache, Absent}
        /\ reading' = [time |-> stamp', count |-> Count]
    BY <1>22 DEF Render, Key
  <2>3. reading' \in Keys
    BY <2>1, <2>2 DEF Keys
  <2>4. QED
    BY <2>2, <2>3
<1>23. CASE List
  <2>1. Listing \in Listings
    BY DEF Listing, Listings, StagedOK, PlacedOK, Skills, Maybe
  <2>2. reading \in Keys /\ reading' = Absent
    BY <1>23 DEF List
  <2>3. cache' \in {cache, [key |-> reading, listing |-> Listing]}
    BY <1>23 DEF List
  <2>4. QED
    BY <2>1, <2>2, <2>3
<1>24. CASE UNCHANGED vars
  BY <1>24 DEF vars
<1>25. QED
  BY <1>1, <1>2, <1>3, <1>4, <1>5, <1>6, <1>7, <1>8, <1>9, <1>10, <1>11, <1>12, <1>13,
     <1>14, <1>15, <1>16, <1>17, <1>18, <1>19, <1>20, <1>21, <1>22, <1>23, <1>24 DEF
     Next

(* The bounds of the model hold.                                           *)
LEMMA BoundOKStep == TypeOK /\ [Next]_vars => BoundOK'
<1> SUFFICES ASSUME TypeOK, [Next]_vars PROVE BoundOK'
  OBVIOUS
<1> USE VersionsAssumption, AbsentAssumption, BoundsAssumption DEF TypeOK, BoundOK
<1>1. CASE PreviewStarts
  BY <1>1 DEF PreviewStarts, boundVars
<1>2. CASE PreviewFetches
  BY <1>2 DEF PreviewFetches, boundVars
<1>3. CASE PreviewFails
  BY <1>3 DEF PreviewFails, boundVars
<1>4. CASE PreviewEnds
  BY <1>4 DEF PreviewEnds, boundVars
<1>5. CASE InstallStarts
  BY <1>5 DEF InstallStarts, boundVars
<1>6. ASSUME NEW i \in Installers, Fetch(i) PROVE BoundOK'
  BY <1>6 DEF Fetch, boundVars
<1>7. ASSUME NEW i \in Installers, FetchFails(i) PROVE BoundOK'
  BY <1>7 DEF FetchFails, GivesUp, boundVars
<1>8. ASSUME NEW i \in Installers, Check(i) PROVE BoundOK'
  BY <1>8 DEF Check, GivesUp, boundVars
<1>9. ASSUME NEW i \in Installers, Enter(i) PROVE BoundOK'
  BY <1>9 DEF Enter, GivesUp, boundVars
<1>10. ASSUME NEW i \in Installers, Copy(i) PROVE BoundOK'
  BY <1>10 DEF Copy, boundVars
<1>11. ASSUME NEW i \in Installers, CopyFails(i) PROVE BoundOK'
  BY <1>11 DEF CopyFails, GivesUp, boundVars
<1>12. ASSUME NEW i \in Installers, RenameSkill(i) PROVE BoundOK'
  BY <1>12 DEF RenameSkill, Rollback, GivesUp, boundVars
<1>13. ASSUME NEW i \in Installers, RenameTools(i) PROVE BoundOK'
  BY <1>13 DEF RenameTools, Rollback, GivesUp, boundVars
<1>14. ASSUME NEW i \in Installers, Mark(i) PROVE BoundOK'
  BY <1>14 DEF Mark, boundVars
<1>15. ASSUME NEW i \in Installers, Finish(i) PROVE BoundOK'
  BY <1>15 DEF Finish, boundVars
<1>16. CASE Uninstall
  BY <1>16 DEF Uninstall, MayUninstall, boundVars
<1>17. CASE Sweep
  BY <1>17 DEF Sweep, boundVars
<1>18. CASE BootGate
  BY <1>18 DEF BootGate, boundVars
<1>19. CASE BootTimesOut
  BY <1>19 DEF BootTimesOut, boundVars
<1>20. CASE Die
  BY <1>20 DEF Die, MayUninstall, boundVars
<1>21. CASE SourceChanges
  BY <1>21 DEF SourceChanges, boundVars
<1>22. CASE Render
  BY <1>22 DEF Render, boundVars
<1>23. CASE List
  BY <1>23 DEF List, boundVars
<1>24. CASE UNCHANGED vars
  BY <1>24 DEF vars
<1>25. QED
  BY <1>1, <1>2, <1>3, <1>4, <1>5, <1>6, <1>7, <1>8, <1>9, <1>10, <1>11, <1>12, <1>13,
     <1>14, <1>15, <1>16, <1>17, <1>18, <1>19, <1>20, <1>21, <1>22, <1>23, <1>24 DEF
     Next

-----------------------------------------------------------------------------
(* The four parts of the invariant.                                        *)

(* Of the user's install and the bootstrap at most one is between its      *)
(* rename and its marker, because rename(2) refuses a directory that is    *)
(* there; what the other one does, rolls back or cleans up leaves that     *)
(* skill and its tools alone.                                              *)
LEMMA ThreadsStep == TypeOK /\ Threads /\ Startup /\ [Next]_vars => Threads'
<1> SUFFICES ASSUME TypeOK /\ Threads /\ Startup, [Next]_vars PROVE Threads'
  OBVIOUS
<1> USE VersionsAssumption, AbsentAssumption DEF TypeOK, Threads, MarkedIsWhole, Holds,
     NoSkill, NoStage, InThread, Installers
<1>1. CASE PreviewStarts
  BY <1>1 DEF PreviewStarts, Serving, LoopIsFree
<1>2. CASE PreviewFetches
  BY <1>2 DEF PreviewFetches
<1>3. CASE PreviewFails
  BY <1>3 DEF PreviewFails
<1>4. CASE PreviewEnds
  BY <1>4 DEF PreviewEnds
<1>5. CASE InstallStarts
  BY <1>5 DEF InstallStarts, Serving, LoopIsFree
<1>6. ASSUME NEW i \in Installers, Fetch(i) PROVE Threads'
  BY <1>6 DEF Fetch, Serving, LoopIsFree
<1>7. ASSUME NEW i \in Installers, FetchFails(i) PROVE Threads'
  BY <1>7 DEF FetchFails, GivesUp, Serving, LoopIsFree
<1>8. ASSUME NEW i \in Installers, Check(i) PROVE Threads'
  <2>1. UNCHANGED <<staged, skill, tools>>
    BY <1>8 DEF Check
  <2>2. \A j \in Installers : stage'[j] = stage[j] \/ stage'[j] \in {"idle", "enter", "copy"}
    BY <1>8 DEF Check, GivesUp, StageOK
  <2>3. QED
    BY <2>1, <2>2
<1>9. ASSUME NEW i \in Installers, Enter(i) PROVE Threads'
  <2>1. UNCHANGED <<staged, skill, tools>>
    BY <1>9 DEF Enter
  <2>2. \A j \in Installers : stage'[j] = stage[j] \/ stage'[j] \in {"idle", "enter", "copy"}
    BY <1>9 DEF Enter, GivesUp, StageOK
  <2>3. QED
    BY <2>1, <2>2
<1>10. ASSUME NEW i \in Installers, Copy(i) PROVE Threads'
  BY <1>10 DEF Copy, StageOK, StagedOK, PlacedOK, FetchedOK, Stages, Skills, Maybe
<1>11. ASSUME NEW i \in Installers, CopyFails(i) PROVE Threads'
  BY <1>11 DEF CopyFails, GivesUp, StageOK, StagedOK, PlacedOK, FetchedOK, Stages,
     Skills, Maybe
<1>12. ASSUME NEW i \in Installers, RenameSkill(i) PROVE Threads'
  BY <1>12 DEF RenameSkill, Rollback, GivesUp, StageOK, StagedOK, PlacedOK, FetchedOK,
     Stages, Skills, Maybe
<1>13. ASSUME NEW i \in Installers, RenameTools(i) PROVE Threads'
  BY <1>13 DEF RenameTools, Rollback, GivesUp, StageOK, StagedOK, PlacedOK, FetchedOK,
     Stages, Skills, Maybe
<1>14. ASSUME NEW i \in Installers, Mark(i) PROVE Threads'
  BY <1>14 DEF Mark, StageOK, StagedOK, PlacedOK, FetchedOK, Stages, Skills, Maybe
<1>15. ASSUME NEW i \in Installers, Finish(i) PROVE Threads'
  BY <1>15 DEF Finish, Serving, LoopIsFree
<1>16. CASE Uninstall
  BY <1>16 DEF Uninstall, MayUninstall, Serving, LoopIsFree, StageOK, StagedOK,
     PlacedOK, FetchedOK, Stages, Skills, Maybe
<1>17. CASE Sweep
  BY <1>17 DEF Sweep, LoopIsFree
<1>18. CASE BootGate
  BY <1>18 DEF BootGate, LoopIsFree, Startup, StageOK
<1>19. CASE BootTimesOut
  <2>1. UNCHANGED <<staged, skill, tools>>
    BY <1>19 DEF BootTimesOut
  <2>2. \A j \in Installers : stage'[j] = stage[j] \/ stage'[j] \in {"idle", "enter", "copy"}
    BY <1>19 DEF BootTimesOut, StageOK
  <2>3. QED
    BY <2>1, <2>2
<1>20. CASE Die
  BY <1>20 DEF Die, MayUninstall, Serving, LoopIsFree, StageOK, StagedOK, PlacedOK,
     FetchedOK, Stages, Skills, Maybe
<1>21. CASE SourceChanges
  BY <1>21 DEF SourceChanges
<1>22. CASE Render
  BY <1>22 DEF Render, Serving
<1>23. CASE List
  BY <1>23 DEF List
<1>24. CASE UNCHANGED vars
  BY <1>24 DEF vars
<1>25. QED
  BY <1>1, <1>2, <1>3, <1>4, <1>5, <1>6, <1>7, <1>8, <1>9, <1>10, <1>11, <1>12, <1>13,
     <1>14, <1>15, <1>16, <1>17, <1>18, <1>19, <1>20, <1>21, <1>22, <1>23, <1>24 DEF
     Next

(* Tools are served only after the bootstrap's gate, which therefore       *)
(* meets no install between its rename and its marker.                     *)
LEMMA StartupStep == TypeOK /\ Startup /\ [Next]_vars => Startup'
<1> SUFFICES ASSUME TypeOK /\ Startup, [Next]_vars PROVE Startup'
  OBVIOUS
<1> USE VersionsAssumption, AbsentAssumption DEF TypeOK, StageOK, Stages, InThread,
     Installers, Startup, Serving
<1>1. CASE PreviewStarts
  BY <1>1 DEF PreviewStarts, Serving, LoopIsFree
<1>2. CASE PreviewFetches
  BY <1>2 DEF PreviewFetches
<1>3. CASE PreviewFails
  BY <1>3 DEF PreviewFails
<1>4. CASE PreviewEnds
  BY <1>4 DEF PreviewEnds
<1>5. CASE InstallStarts
  BY <1>5 DEF InstallStarts, Serving, LoopIsFree
<1>6. ASSUME NEW i \in Installers, Fetch(i) PROVE Startup'
  BY <1>6 DEF Fetch, Serving, LoopIsFree
<1>7. ASSUME NEW i \in Installers, FetchFails(i) PROVE Startup'
  BY <1>7 DEF FetchFails, GivesUp, Serving, LoopIsFree
<1>8. ASSUME NEW i \in Installers, Check(i) PROVE Startup'
  BY <1>8 DEF Check, GivesUp, Serving, LoopIsFree, Passes, SourceChanged
<1>9. ASSUME NEW i \in Installers, Enter(i) PROVE Startup'
  BY <1>9 DEF Enter, GivesUp
<1>10. ASSUME NEW i \in Installers, Copy(i) PROVE Startup'
  BY <1>10 DEF Copy
<1>11. ASSUME NEW i \in Installers, CopyFails(i) PROVE Startup'
  BY <1>11 DEF CopyFails, GivesUp
<1>12. ASSUME NEW i \in Installers, RenameSkill(i) PROVE Startup'
  BY <1>12 DEF RenameSkill, Rollback, GivesUp
<1>13. ASSUME NEW i \in Installers, RenameTools(i) PROVE Startup'
  BY <1>13 DEF RenameTools, Rollback, GivesUp
<1>14. ASSUME NEW i \in Installers, Mark(i) PROVE Startup'
  BY <1>14 DEF Mark
<1>15. ASSUME NEW i \in Installers, Finish(i) PROVE Startup'
  BY <1>15 DEF Finish, Serving, LoopIsFree
<1>16. CASE Uninstall
  BY <1>16 DEF Uninstall, MayUninstall, Serving, LoopIsFree
<1>17. CASE Sweep
  BY <1>17 DEF Sweep, LoopIsFree
<1>18. CASE BootGate
  BY <1>18 DEF BootGate, LoopIsFree
<1>19. CASE BootTimesOut
  BY <1>19 DEF BootTimesOut, Serving, LoopIsFree
<1>20. CASE Die
  BY <1>20 DEF Die, MayUninstall, Serving, LoopIsFree, Staging, There
<1>21. CASE SourceChanges
  BY <1>21 DEF SourceChanges
<1>22. CASE Render
  BY <1>22 DEF Render, Key, Serving
<1>23. CASE List
  BY <1>23 DEF List
<1>24. CASE UNCHANGED vars
  BY <1>24 DEF vars
<1>25. QED
  BY <1>1, <1>2, <1>3, <1>4, <1>5, <1>6, <1>7, <1>8, <1>9, <1>10, <1>11, <1>12, <1>13,
     <1>14, <1>15, <1>16, <1>17, <1>18, <1>19, <1>20, <1>21, <1>22, <1>23, <1>24 DEF
     Next

(* What the user's install carries from stage to stage is what it wanted   *)
(* when it began, which a preview had shown.                               *)
LEMMA ShownStep == TypeOK /\ Threads /\ Startup /\ Shown /\ [Next]_vars => Shown'
<1> SUFFICES ASSUME TypeOK /\ Threads /\ Startup /\ Shown, [Next]_vars PROVE Shown'
  OBVIOUS
<1> USE VersionsAssumption, AbsentAssumption DEF TypeOK, StageOK, Stages, InThread,
     Installers, Startup, Serving, LoopIsFree, Shown, InstalledWasShown, NoSkill,
     FetchedOK, Maybe
<1>1. CASE PreviewStarts
  BY <1>1 DEF PreviewStarts, Serving, LoopIsFree, cacheVars
<1>2. CASE PreviewFetches
  BY <1>2 DEF PreviewFetches, cacheVars
<1>3. CASE PreviewFails
  BY <1>3 DEF PreviewFails, cacheVars
<1>4. CASE PreviewEnds
  BY <1>4 DEF PreviewEnds, cacheVars
<1>5. CASE InstallStarts
  BY <1>5 DEF InstallStarts, Serving, LoopIsFree, cacheVars
<1>6. ASSUME NEW i \in Installers, Fetch(i) PROVE Shown'
  BY <1>6 DEF Fetch, Serving, LoopIsFree, cacheVars
<1>7. ASSUME NEW i \in Installers, FetchFails(i) PROVE Shown'
  BY <1>7 DEF FetchFails, GivesUp, Serving, LoopIsFree, cacheVars
<1>8. ASSUME NEW i \in Installers, Check(i) PROVE Shown'
  BY <1>8 DEF Check, GivesUp, Serving, LoopIsFree, Passes, SourceChanged, cacheVars
<1>9. ASSUME NEW i \in Installers, Enter(i) PROVE Shown'
  BY <1>9 DEF Enter, GivesUp, cacheVars
<1>10. ASSUME NEW i \in Installers, Copy(i) PROVE Shown'
  BY <1>10 DEF Copy, cacheVars, StagedOK, Threads, Holds
<1>11. ASSUME NEW i \in Installers, CopyFails(i) PROVE Shown'
  BY <1>11 DEF CopyFails, GivesUp, cacheVars
<1>12. ASSUME NEW i \in Installers, RenameSkill(i) PROVE Shown'
  BY <1>12 DEF RenameSkill, Rollback, GivesUp, cacheVars, StagedOK, Threads, Holds
<1>13. ASSUME NEW i \in Installers, RenameTools(i) PROVE Shown'
  BY <1>13 DEF RenameTools, Rollback, GivesUp, cacheVars, StagedOK, Threads, Holds
<1>14. ASSUME NEW i \in Installers, Mark(i) PROVE Shown'
  BY <1>14 DEF Mark, cacheVars
<1>15. ASSUME NEW i \in Installers, Finish(i) PROVE Shown'
  BY <1>15 DEF Finish, Serving, LoopIsFree, cacheVars
<1>16. CASE Uninstall
  BY <1>16 DEF Uninstall, MayUninstall, Serving, LoopIsFree, cacheVars
<1>17. CASE Sweep
  BY <1>17 DEF Sweep, LoopIsFree, cacheVars
<1>18. CASE BootGate
  BY <1>18 DEF BootGate, LoopIsFree, cacheVars
<1>19. CASE BootTimesOut
  BY <1>19 DEF BootTimesOut, Serving, LoopIsFree, cacheVars
<1>20. CASE Die
  BY <1>20 DEF Die, MayUninstall, Serving, LoopIsFree, Staging, There, cacheVars
<1>21. CASE SourceChanges
  BY <1>21 DEF SourceChanges, cacheVars
<1>22. CASE Render
  BY <1>22 DEF Render, Key, Serving, cacheVars
<1>23. CASE List
  BY <1>23 DEF List, cacheVars
<1>24. CASE UNCHANGED vars
  BY <1>24 DEF vars
<1>25. QED
  BY <1>1, <1>2, <1>3, <1>4, <1>5, <1>6, <1>7, <1>8, <1>9, <1>10, <1>11, <1>12, <1>13,
     <1>14, <1>15, <1>16, <1>17, <1>18, <1>19, <1>20, <1>21, <1>22, <1>23, <1>24 DEF
     Next

(* A step that changes what the directory holds either changes its time    *)
(* or adds a file, so a key computed earlier lies behind.                  *)
LEMMA KeyStep == TypeOK /\ Threads /\ KeyGrows /\ [Next]_vars => KeyGrows'
<1> SUFFICES ASSUME TypeOK /\ Threads /\ KeyGrows, [Next]_vars PROVE KeyGrows'
  OBVIOUS
<1> USE VersionsAssumption, AbsentAssumption DEF TypeOK, PlacedOK, PromptOK, StagedOK,
     KeyGrows, NotAfter, Key, Keys, Count, Staging, There, Listing, Maybe, NoStage,
     NoSkill, Skills, Listings, Installers
<1>1. CASE PreviewStarts
  BY <1>1 DEF PreviewStarts, promptVars
<1>2. CASE PreviewFetches
  BY <1>2 DEF PreviewFetches, promptVars
<1>3. CASE PreviewFails
  BY <1>3 DEF PreviewFails, promptVars
<1>4. CASE PreviewEnds
  BY <1>4 DEF PreviewEnds, promptVars
<1>5. CASE InstallStarts
  BY <1>5 DEF InstallStarts, promptVars
<1>6. ASSUME NEW i \in Installers, Fetch(i) PROVE KeyGrows'
  BY <1>6 DEF Fetch, promptVars
<1>7. ASSUME NEW i \in Installers, FetchFails(i) PROVE KeyGrows'
  BY <1>7 DEF FetchFails, GivesUp, promptVars
<1>8. ASSUME NEW i \in Installers, Check(i) PROVE KeyGrows'
  BY <1>8 DEF Check, GivesUp, promptVars
<1>9. ASSUME NEW i \in Installers, Enter(i) PROVE KeyGrows'
  BY <1>9 DEF Enter, GivesUp, promptVars
<1>10. ASSUME NEW i \in Installers, Copy(i) PROVE KeyGrows'
  BY <1>10 DEF Copy, promptVars
<1>11. ASSUME NEW i \in Installers, CopyFails(i) PROVE KeyGrows'
  BY <1>11 DEF CopyFails, GivesUp, promptVars
<1>12. ASSUME NEW i \in Installers, RenameSkill(i) PROVE KeyGrows'
  BY <1>12 DEF RenameSkill, Rollback, GivesUp, promptVars
<1>13. ASSUME NEW i \in Installers, RenameTools(i) PROVE KeyGrows'
  BY <1>13 DEF RenameTools, Rollback, GivesUp, promptVars
<1>14. ASSUME NEW i \in Installers, Mark(i) PROVE KeyGrows'
  BY <1>14 DEF Mark, promptVars
<1>15. ASSUME NEW i \in Installers, Finish(i) PROVE KeyGrows'
  BY <1>15 DEF Finish, promptVars
<1>16. CASE Uninstall
  BY <1>16 DEF Uninstall, promptVars
<1>17. CASE Sweep
  BY <1>17 DEF Sweep, promptVars
<1>18. CASE BootGate
  BY <1>18 DEF BootGate, promptVars
<1>19. CASE BootTimesOut
  BY <1>19 DEF BootTimesOut, promptVars
<1>20. CASE Die
  BY <1>20 DEF Die, Staging, There, promptVars
<1>21. CASE SourceChanges
  BY <1>21 DEF SourceChanges, promptVars
<1>22. CASE Render
  BY <1>22 DEF Render, Key, promptVars
<1>23. CASE List
  BY <1>23 DEF List, promptVars
<1>24. CASE UNCHANGED vars
  BY <1>24 DEF vars
<1>25. QED
  BY <1>1, <1>2, <1>3, <1>4, <1>5, <1>6, <1>7, <1>8, <1>9, <1>10, <1>11, <1>12, <1>13,
     <1>14, <1>15, <1>16, <1>17, <1>18, <1>19, <1>20, <1>21, <1>22, <1>23, <1>24 DEF
     Next

-----------------------------------------------------------------------------
(* Theorems.                                                               *)

(* The first state satisfies the invariant.                                *)
LEMMA InitHolds == Init => IInv
<1> SUFFICES ASSUME Init PROVE IInv
  OBVIOUS
<1> USE VersionsAssumption, BoundsAssumption, AbsentAssumption DEF Init, Installers, Maybe
<1>1. FetchedOK /\ StageOK
  BY DEF FetchedOK, StageOK, Stages, InThread
<1>2. StagedOK /\ PlacedOK /\ PromptOK
  BY DEF StagedOK, NoStage, PlacedOK, NoSkill, Skills, PromptOK
<1>3. Threads /\ Startup
  BY DEF Threads, Holds, MarkedIsWhole, NoSkill, Startup
<1>4. Shown /\ KeyGrows
  BY DEF Shown, InstalledWasShown, NoSkill, KeyGrows
<1>5. BoundOK
  BY DEF BoundOK
<1>6. QED
  BY <1>1, <1>2, <1>3, <1>4, <1>5 DEF IInv, TypeOK

(* Every step keeps it.                                                    *)
LEMMA StepKeeps == IInv /\ [Next]_vars => IInv'
<1> SUFFICES ASSUME IInv, [Next]_vars PROVE IInv'
  OBVIOUS
<1>1. TypeOK /\ Threads /\ Startup /\ Shown /\ KeyGrows
  BY DEF IInv
<1>2. TypeOK'
  BY <1>1, FetchedOKStep, StageOKStep, StagedOKStep, PlacedOKStep, PromptOKStep, BoundOKStep
  DEF TypeOK
<1>3. Threads' /\ Startup' /\ Shown' /\ KeyGrows'
  BY <1>1, ThreadsStep, StartupStep, ShownStep, KeyStep
<1>4. QED
  BY <1>2, <1>3 DEF IInv

(* The inductive invariant: threads, start-up, what was shown, and the     *)
(* prompt's key, for every set of versions and every bound.                *)
THEOREM InstallerInvariant == Spec => []IInv
<1>1. Init => IInv
  BY InitHolds
<1>2. IInv /\ [Next]_vars => IInv'
  BY StepKeeps
<1>3. QED
  BY <1>1, <1>2, PTL DEF Spec

(* The variables keep their types (all of installer.py and                 *)
(* _installer_core.py that is modelled).                                   *)
THEOREM TypeCorrect == Spec => []TypeOK
<1>1. IInv => TypeOK
  BY DEF IInv
<1>2. QED
  BY <1>1, InstallerInvariant, PTL

(* The marker that later starts trust stands only over a whole skill, for  *)
(* any number of deaths, faults and calls (_installer_core.py:637-692).    *)
THEOREM MarkedSkillIsWhole == Spec => []MarkedIsWhole
<1>1. IInv => MarkedIsWhole
  BY DEF IInv, Threads
<1>2. QED
  BY <1>1, InstallerInvariant, PTL

(* What the user's install puts in place was shown by a preview            *)
(* (installer.py:241-310).                                                 *)
THEOREM InstalledSkillWasShown == Spec => []InstalledWasShown
<1>1. IInv => InstalledWasShown
  BY DEF IInv, Shown
<1>2. QED
  BY <1>1, InstallerInvariant, PTL

(* The prompt's cached list is never stale under its key                   *)
(* (skills.py:76-132).                                                     *)
THEOREM CachedListIsExact == Spec => []CacheIsExact
<1>1. IInv => CacheIsExact
  BY DEF IInv, KeyGrows, CacheIsExact
<1>2. QED
  BY <1>1, InstallerInvariant, PTL

(* What MarkedStays says of a step.                                        *)
KeepsMarked == skill.marked /\ calls' = calls => skill' = skill

(* No step but an uninstall touches a marked skill: a rename finds it      *)
(* there, a rollback removes only what carries no marker yet, and the      *)
(* gate passes it.                                                         *)
LEMMA MarkedStep == TypeOK /\ Threads /\ [Next]_vars => KeepsMarked
<1> SUFFICES ASSUME TypeOK /\ Threads, [Next]_vars PROVE KeepsMarked
  OBVIOUS
<1> USE VersionsAssumption, AbsentAssumption DEF TypeOK, BoundOK, Threads, Holds,
     MarkedIsWhole, KeepsMarked
<1>1. CASE PreviewStarts
  BY <1>1 DEF PreviewStarts, boundVars
<1>2. CASE PreviewFetches
  BY <1>2 DEF PreviewFetches, boundVars
<1>3. CASE PreviewFails
  BY <1>3 DEF PreviewFails, boundVars
<1>4. CASE PreviewEnds
  BY <1>4 DEF PreviewEnds, boundVars
<1>5. CASE InstallStarts
  BY <1>5 DEF InstallStarts, boundVars
<1>6. ASSUME NEW i \in Installers, Fetch(i) PROVE KeepsMarked
  BY <1>6 DEF Fetch, boundVars
<1>7. ASSUME NEW i \in Installers, FetchFails(i) PROVE KeepsMarked
  BY <1>7 DEF FetchFails, GivesUp, boundVars
<1>8. ASSUME NEW i \in Installers, Check(i) PROVE KeepsMarked
  BY <1>8 DEF Check, GivesUp, boundVars
<1>9. ASSUME NEW i \in Installers, Enter(i) PROVE KeepsMarked
  BY <1>9 DEF Enter, GivesUp, boundVars
<1>10. ASSUME NEW i \in Installers, Copy(i) PROVE KeepsMarked
  BY <1>10 DEF Copy, boundVars
<1>11. ASSUME NEW i \in Installers, CopyFails(i) PROVE KeepsMarked
  BY <1>11 DEF CopyFails, GivesUp, boundVars
<1>12. ASSUME NEW i \in Installers, RenameSkill(i) PROVE KeepsMarked
  BY <1>12 DEF RenameSkill, Rollback, GivesUp, boundVars
<1>13. ASSUME NEW i \in Installers, RenameTools(i) PROVE KeepsMarked
  BY <1>13 DEF RenameTools, Rollback, GivesUp, boundVars
<1>14. ASSUME NEW i \in Installers, Mark(i) PROVE KeepsMarked
  BY <1>14 DEF Mark, boundVars
<1>15. ASSUME NEW i \in Installers, Finish(i) PROVE KeepsMarked
  BY <1>15 DEF Finish, boundVars
<1>16. CASE Uninstall
  BY <1>16 DEF Uninstall, boundVars
<1>17. CASE Sweep
  BY <1>17 DEF Sweep, boundVars
<1>18. CASE BootGate
  BY <1>18 DEF BootGate, boundVars
<1>19. CASE BootTimesOut
  BY <1>19 DEF BootTimesOut, boundVars
<1>20. CASE Die
  BY <1>20 DEF Die, boundVars
<1>21. CASE SourceChanges
  BY <1>21 DEF SourceChanges, boundVars
<1>22. CASE Render
  BY <1>22 DEF Render, boundVars
<1>23. CASE List
  BY <1>23 DEF List, boundVars
<1>24. CASE UNCHANGED vars
  BY <1>24 DEF vars
<1>25. QED
  BY <1>1, <1>2, <1>3, <1>4, <1>5, <1>6, <1>7, <1>8, <1>9, <1>10, <1>11, <1>12, <1>13,
     <1>14, <1>15, <1>16, <1>17, <1>18, <1>19, <1>20, <1>21, <1>22, <1>23, <1>24 DEF
     Next

(* The first install of a name wins and keeps it                           *)
(* (_installer_core.py:675-692, main.py:1018-1034).                        *)
THEOREM MarkedSkillStays == Spec => MarkedStays
<1>1. IInv /\ [Next]_vars => [KeepsMarked]_vars
  BY MarkedStep DEF IInv
<1>2. QED
  BY <1>1, InstallerInvariant, PTL DEF Spec, MarkedStays, KeepsMarked

-----------------------------------------------------------------------------
(* Installer implements Shelf.  What a thread carries between its check    *)
(* and its mark has passed the validation, or has been wiped.              *)
Checked ==
  \A i \in Installers :
    /\ stage[i] \in {"enter", "copy"} => work[i] \in Valid \cup {Absent}
    /\ stage[i] = "skill" => staged[i].skill \in Valid
    /\ stage[i] \in {"tools", "marker"} => skill.ver \in Valid

LEMMA CheckedStep == IInv /\ Checked /\ [Next]_vars => Checked'
<1> SUFFICES ASSUME IInv, Checked, [Next]_vars PROVE Checked'
  OBVIOUS
<1>0. TypeOK /\ Startup /\ \A i \in Installers : Holds(i)
  BY DEF IInv, Threads
<1> USE VersionsAssumption, AbsentAssumption
        DEF Checked, TypeOK, FetchedOK, StageOK, StagedOK, PlacedOK, Installers, cacheVars
<1>1. CASE UNCHANGED <<stage, work, staged, skill>>
  BY <1>1
<1>2. CASE PreviewEnds
  BY <1>0, <1>2 DEF PreviewEnds
<1>3. CASE InstallStarts
  BY <1>0, <1>3 DEF InstallStarts
<1>4. ASSUME NEW i \in Installers, Fetch(i) \/ FetchFails(i) \/ Check(i) \/ Finish(i)
      PROVE  Checked'
  BY <1>0, <1>4 DEF Fetch, FetchFails, Check, Finish, GivesUp, Passes
<1>5. ASSUME NEW i \in Installers, Enter(i) \/ Copy(i) \/ CopyFails(i) \/ Mark(i)
      PROVE  Checked'
  <2>1. CASE Enter(i)
    BY <1>0, <2>1 DEF Enter, GivesUp
  <2>2. CASE Copy(i)
    BY <1>0, <2>2 DEF Copy
  <2>3. CASE CopyFails(i)
    BY <1>0, <2>3 DEF CopyFails, GivesUp
  <2>4. CASE Mark(i)
    <3>1. skill'.ver = skill.ver
      BY <1>0, <2>4 DEF Mark, Skills
    <3> QED BY <1>0, <2>4, <3>1 DEF Mark
  <2> QED BY <1>5, <2>1, <2>2, <2>3, <2>4
<1>6. ASSUME NEW i \in Installers, RenameSkill(i) PROVE Checked'
  <2>1. CASE skill.ver = Absent /\ skill' = [ver |-> staged[i].skill, marked |-> FALSE, by |-> i]
    BY <1>0, <1>6, <2>1 DEF RenameSkill, Rollback, GivesUp, Holds
  <2>2. CASE Rollback(i, FALSE)
    BY <1>0, <1>6, <2>2 DEF RenameSkill, Rollback, GivesUp, NoStage
  <2> QED BY <1>6, <2>1, <2>2 DEF RenameSkill
<1>7. ASSUME NEW i \in Installers, RenameTools(i) PROVE Checked'
  <2>1. CASE UNCHANGED skill
    BY <1>0, <1>7, <2>1 DEF RenameTools, Rollback, GivesUp, NoStage
  <2>2. CASE Rollback(i, TRUE)
    BY <1>0, <1>7, <2>2 DEF RenameTools, Rollback, GivesUp, NoStage, Holds
  <2> QED BY <1>7, <2>1, <2>2 DEF RenameTools
<1>8. CASE Uninstall
  BY <1>0, <1>8 DEF Uninstall, MayUninstall, InThread
<1>9. CASE Sweep \/ BootGate \/ BootTimesOut
  BY <1>0, <1>9 DEF Sweep, BootGate, BootTimesOut, Startup
<1>10. CASE Die
  BY <1>0, <1>10 DEF Die
<1>11. CASE PreviewStarts \/ PreviewFetches \/ PreviewFails \/ SourceChanges \/ Render \/ List
            \/ UNCHANGED vars
  BY <1>1, <1>11 DEF PreviewStarts, PreviewFetches, PreviewFails, SourceChanges, Render, List, vars
<1> QED BY <1>2, <1>3, <1>4, <1>5, <1>6, <1>7, <1>8, <1>9, <1>10, <1>11 DEF Next

(* The skill that the owner finds under its marker.                        *)
Found == IF skill.marked THEN Whole ELSE Absent

(* The thread that sets the marker puts a whole skill on an empty shelf.   *)
LEMMA PutsIs ==
  ASSUME IInv, Checked, NEW i \in Installers, Mark(i)
  PROVE  Rack!Next
<1>1. /\ Holds(i) /\ InstalledWasShown /\ skill \in Skills
      /\ stage[i] = "marker" /\ skill' = [skill EXCEPT !.marked = TRUE]
      /\ UNCHANGED <<tools, seen, calls>>
  BY DEF IInv, Threads, Shown, TypeOK, PlacedOK, Mark, cacheVars, boundVars
<1>2. /\ ~skill.marked /\ skill.by = i /\ skill.ver \in Versions /\ skill.ver \in Valid
      /\ skill.ver \in WithTools => tools = skill.ver
  BY <1>1 DEF Holds, Checked
<1>3. skill'.marked /\ skill'.ver = skill.ver /\ skill'.by = i
  BY <1>1, <1>2 DEF Skills
<1>4. /\ Found = Absent
      /\ Found' = [skill |-> skill.ver, by |-> i,
                   tools |-> IF skill.ver \in WithTools THEN skill.ver ELSE Absent]
  BY <1>1, <1>2, <1>3 DEF Found, Whole
<1>5. i = "user" => skill.ver \in seen
  BY <1>1, <1>2 DEF InstalledWasShown
<1>6. Rack!Put(skill.ver, i)
  BY <1>1, <1>2, <1>4, <1>5 DEF Rack!Put, Found
<1> QED BY <1>2, <1>6 DEF Rack!Next, Installers

(* A call of the owner's.                                                  *)
LEMMA AsksIs ==
  ASSUME calls' = calls + 1, UNCHANGED seen, Found' \in {Found, Absent}
  PROVE  Rack!Next
BY DEF Rack!Next, Rack!Ask, Found

(* What changes nothing on the shelf.                                      *)
LEMMA SameIs ==
  ASSUME Found' = Found, UNCHANGED <<seen, calls>>
  PROVE  UNCHANGED Rack!vars
BY DEF Rack!vars, Found

(* Installer implements Shelf: however the threads of two installs, their  *)
(* rollbacks, the starts and the deaths interleave, a marked skill appears *)
(* as one step, whole, valid and, for the owner's own, shown, and goes by  *)
(* a call of the owner only.                                               *)
THEOREM InstallerImplementsShelf == Spec => ShelfSpec
<1>1. Init => Rack!Init /\ Checked
  BY AbsentAssumption DEF Init, Rack!Init, Checked, NoSkill, Installers
<1>2. IInv /\ Checked /\ [Next]_vars => [Rack!Next]_(Rack!vars)
  <2> SUFFICES ASSUME IInv, Checked, [Next]_vars PROVE Rack!Next \/ UNCHANGED Rack!vars
    OBVIOUS
  <2>0. /\ MarkedIsWhole /\ seen \subseteq Versions
        /\ \A i \in Installers : Holds(i)
    BY DEF IInv, Threads, TypeOK, FetchedOK
  <2>1. CASE UNCHANGED <<skill, tools>>
    <3>1. Found' = Found
      BY <2>1 DEF Found, Whole
    <3>2. CASE UNCHANGED <<seen, calls>>
      BY <3>1, <3>2, SameIs
    <3>3. CASE UNCHANGED seen /\ calls' = calls + 1
      BY <3>1, <3>3, AsksIs
    <3>4. ASSUME bundle \in Valid, seen' = seen \cup {bundle}, UNCHANGED calls PROVE Rack!Next
      <4>1. Rack!Show(bundle)
        BY <3>1, <3>4 DEF Rack!Show, Found
      <4> QED BY <3>4, <4>1, VersionsAssumption DEF Rack!Next
    <3> QED BY <3>2, <3>3, <3>4 DEF Next, PreviewStarts, PreviewFetches, PreviewFails,
               PreviewEnds, InstallStarts, Fetch, FetchFails, Check, Enter, Copy, CopyFails,
               RenameSkill, RenameTools, Mark, Finish, Uninstall, Sweep, BootGate, BootTimesOut,
               Die, SourceChanges, Render, List, cacheVars, boundVars, vars
  <2>2. ASSUME NEW i \in Installers, RenameSkill(i) PROVE UNCHANGED Rack!vars
    <3>1. UNCHANGED <<tools, seen, calls>> /\ (UNCHANGED skill \/ (~skill'.marked /\ skill.ver = Absent))
      BY <2>2 DEF RenameSkill, Rollback, cacheVars
    <3>2. Found' = Found
      BY <2>0, <3>1, AbsentAssumption DEF Found, Whole, MarkedIsWhole
    <3> QED BY <3>1, <3>2, SameIs
  <2>3. ASSUME NEW i \in Installers, RenameTools(i) PROVE UNCHANGED Rack!vars
    <3>1. UNCHANGED <<seen, calls>> /\ ~skill.marked /\ ~skill'.marked
      BY <2>0, <2>3 DEF RenameTools, Rollback, NoSkill, cacheVars, Holds
    <3> QED BY <3>1, SameIs DEF Found
  <2>4. ASSUME NEW i \in Installers, Mark(i) PROVE Rack!Next
    BY <2>4, PutsIs
  <2>5. CASE Uninstall
    BY <2>5, AsksIs DEF Uninstall, NoSkill, cacheVars, Found
  <2>6. CASE BootGate
    <3>1. /\ UNCHANGED <<tools, seen, calls>>
          /\ UNCHANGED skill \/ (~skill.marked /\ ~skill'.marked)
      BY <2>6 DEF BootGate, NoSkill, cacheVars, boundVars
    <3>2. Found' = Found
      BY <3>1 DEF Found, Whole
    <3> QED BY <3>1, <3>2, SameIs
  <2>7. CASE Die
    <3>1. UNCHANGED <<tools, seen>>
      BY <2>7 DEF Die
    <3>2. CASE UNCHANGED <<skill, calls>>
      BY <2>1, <3>1, <3>2
    <3>3. CASE skill' = NoSkill /\ calls' = calls + 1
      BY <3>1, <3>3, AsksIs DEF NoSkill, Found
    <3> QED BY <2>7, <3>2, <3>3 DEF Die
  <2> QED BY <2>1, <2>2, <2>3, <2>4, <2>5, <2>6, <2>7
          DEF Next, PreviewStarts, PreviewFetches, PreviewFails,
              PreviewEnds, InstallStarts, Fetch, FetchFails, Check, Enter, Copy, CopyFails,
              Finish, Sweep, BootTimesOut, SourceChanges, Render, List, vars
<1>3. Spec => []Checked
  BY <1>1, CheckedStep, InstallerInvariant, PTL DEF Spec
<1> QED BY <1>1, <1>2, <1>3, InstallerInvariant, PTL DEF Spec, ShelfSpec, Rack!Spec
=============================================================================
