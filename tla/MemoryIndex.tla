---------------------------- MODULE MemoryIndex ----------------------------
(***************************************************************************)
(* The notes of the vault and their search index: memory_write,            *)
(* memory_delete, memory_reindex and save_transcript in their threads, the *)
(* vault lock, the rename before the commit, edits of the owner that take  *)
(* no lock, and the probe of the index at boot.                            *)
(*                                                                         *)
(* A note is its version: the number stands for the content and for the    *)
(* modification time alike, since every writing gives the file a content   *)
(* and a time of its own.  0 is a note that does not exist.  The index     *)
(* holds the version each row was made from.                               *)
(***************************************************************************)
EXTENDS Naturals, FiniteSets

CONSTANTS Notes,       \* paths in the vault
          Workers,     \* threads that run a tool call or save a transcript
          Starter,     \* the thread of Daemon.start
          NoOne,       \* nobody holds the vault lock
          MaxCalls,    \* bound: calls of the tools
          MaxEdits,    \* bound: what the owner does to the files
          MaxFaults,   \* bound: renames, unlinks and commits that fail
          MaxCrashes   \* bound: deaths of the process

ASSUME NamesAssumption ==
  Starter \notin Workers /\ NoOne \notin Workers /\ NoOne # Starter
ASSUME NotesAssumption == Notes # {} /\ IsFiniteSet(Notes)
ASSUME BoundsAssumption ==
  MaxCalls \in Nat /\ MaxEdits \in Nat /\ MaxFaults \in Nat /\ MaxCrashes \in Nat

VARIABLES
  file,     \* the version of each note on disk
  broken,   \* notes whose frontmatter cannot be parsed
  index,    \* the committed rows
  stored,   \* meta('max_mtime_ns')
  clock,    \* the last version given to a file
  lock,     \* who holds the vault lock
  pc,       \* where a thread stands
  op,       \* its call: the note, its spelling, the version it has written
  rows,     \* the rows the reindex under the lock has read
  read,     \* the notes it has read
  timed,    \* the notes whose time it has looked at
  newest,   \* the newest time it has seen
  calls, edits, faults, crashes,
  strayed,  \* history: notes that left their row in one of the known ways
  touched,  \* history: notes the owner has touched since the lock was taken
  missed    \* history: a transaction has committed beside a strayed note

vars == <<file, broken, index, stored, clock, lock, pc, op, rows, read, timed, newest,
          calls, edits, faults, crashes, strayed, touched, missed>>

Threads  == Workers \cup {Starter}
disk     == <<file, broken, clock>>
idxVars  == <<index, stored>>
scanVars == <<rows, read, timed, newest>>
budget   == <<calls, edits, faults, crashes>>
history  == <<strayed, touched, missed>>

Existing == {n \in Notes : file[n] # 0}
Rows     == {n \in Notes : index[n] # 0}
Later(a, b) == IF a > b THEN a ELSE b

(* _scan_vault_stats: the newest time in the vault.                        *)
NewestOnDisk == CHOOSE t \in {0} \cup {file[n] : n \in Notes} :
                  \A n \in Notes : file[n] <= t

(* parse_frontmatter raises for a block that is no YAML mapping.           *)
Parses(n) == n \notin broken

(* _parse_note_for_index: the row a note gives, none if it cannot be read. *)
RowOf(n) == IF Parses(n) THEN file[n] ELSE 0

(* What _maybe_auto_reindex finds at boot.                                 *)
ProbeFires == \/ Cardinality(Existing) # Cardinality(Rows)
              \/ NewestOnDisk > stored

Init ==
  /\ file = [n \in Notes |-> 0] /\ index = [n \in Notes |-> 0] /\ broken = {}
  /\ stored = 0 /\ clock = 0 /\ lock = NoOne
  /\ pc = [a \in Threads |-> "idle"]
  /\ op \in [Workers -> [note : Notes, alias : {FALSE}, version : {0}]]
  /\ rows = [n \in Notes |-> 0] /\ read = {} /\ timed = {} /\ newest = 0
  /\ calls = 0 /\ edits = 0 /\ faults = 0 /\ crashes = 0
  /\ strayed = {} /\ touched = {} /\ missed = FALSE

----------------------------------------------------------------------------
(* The calls.  The path has passed validate_path (Notes has no other), and *)
(* every check of the tools comes before the lock.                         *)

Called(w, kind, n, alias) ==
  /\ pc[Starter] = "idle" /\ pc[w] = "idle" /\ calls < MaxCalls
  /\ pc' = [pc EXCEPT ![w] = kind]
  /\ op' = [op EXCEPT ![w] = [note |-> n, alias |-> alias, version |-> 0]]
  /\ calls' = calls + 1
  /\ UNCHANGED <<disk, idxVars, lock, scanVars, edits, faults, crashes, history>>

(* memory_write: a note that exists is refused unless overwrite is set.    *)
Write(w, n) == \E overwrite \in BOOLEAN :
  /\ n \in Existing => overwrite
  /\ Called(w, "write", n, FALSE)

(* save_transcript: it writes over whatever is there.                      *)
SaveTranscript(w, n) == Called(w, "write", n, FALSE)

(* memory_delete: the row is dropped by the path as the caller spells it,  *)
(* which need not be the normalised one of the row ("./a.md", "x//a.md").  *)
Delete(w, n) == n \in Existing /\ \E alias \in BOOLEAN : Called(w, "delete", n, alias)

Reindex(w) == \E n \in Notes : Called(w, "reindex", n, FALSE)

(* 5 s have passed at the lock.                                            *)
LockTimesOut(w) ==
  /\ lock # NoOne /\ pc[w] \in {"write", "delete", "reindex"}
  /\ pc' = [pc EXCEPT ![w] = "idle"]
  /\ UNCHANGED <<disk, idxVars, lock, op, scanVars, budget, history>>

(* Entering the lock; the transaction is opened and its first statement    *)
(* executed, or the scan begins.                                           *)
Entered == [write |-> "insert", delete |-> "drop", reindex |-> "scan"]

ScanBegins == rows' = [n \in Notes |-> 0] /\ read' = {} /\ timed' = {} /\ newest' = 0

Enters(w) ==
  /\ pc[w] \in DOMAIN Entered
  /\ pc' = [pc EXCEPT ![w] = Entered[pc[w]]]
  /\ lock' = w /\ touched' = {}
  /\ IF pc[w] = "reindex" THEN ScanBegins ELSE UNCHANGED scanVars
  /\ UNCHANGED <<disk, idxVars, op, budget, strayed, missed>>

TakeLock(w) == lock = NoOne /\ Enters(w)

----------------------------------------------------------------------------
(* Transactions under the lock.                                            *)

At(a, step)  == pc[a] = step
Goes(a, step) == pc' = [pc EXCEPT ![a] = step]
Leaves(a) == lock' = NoOne /\ Goes(a, "idle")
Fault == faults < MaxFaults /\ faults' = faults + 1 /\ UNCHANGED <<calls, edits, crashes>>

(* A commit beside a note that has strayed may take its time over.         *)
Settles(n) ==
  /\ strayed' = (strayed \ {n}) \cup touched
  /\ missed' = ((strayed \ {n}) \cup touched # {})
  /\ touched' = {}

(* write_note_tx: the row is inserted but not committed, the file is       *)
(* renamed into place.                                                     *)
WriteRenames(w) ==
  LET n == op[w].note IN
  /\ At(w, "insert") /\ Goes(w, "renamed")
  /\ clock' = clock + 1 /\ file' = [file EXCEPT ![n] = clock + 1] /\ broken' = broken \ {n}
  /\ op' = [op EXCEPT ![w].version = clock + 1]
  /\ UNCHANGED <<idxVars, lock, scanVars, budget, history>>

(* Variant: the table keeps its time.                                      *)
WriteCommitsOldTime(w) ==
  LET n == op[w].note IN
  /\ At(w, "renamed") /\ Leaves(w) /\ Settles(n)
  /\ index' = [index EXCEPT ![n] = op[w].version]
  /\ UNCHANGED stored
  /\ UNCHANGED <<disk, op, scanVars, budget>>

(* ... its time is read back from the disk, and row and time are committed *)
WriteCommits(w) ==
  LET n == op[w].note IN
  /\ At(w, "renamed") /\ Leaves(w) /\ Settles(n)
  /\ index' = [index EXCEPT ![n] = op[w].version]
  /\ stored' = Later(stored, file[n])
  /\ UNCHANGED <<disk, op, scanVars, budget>>

(* delete_note_tx: the file goes before the row; a file that is gone is no *)
(* error.                                                                  *)
DeleteUnlinks(w) ==
  LET n == op[w].note IN
  /\ At(w, "drop") /\ Goes(w, "unlinked")
  /\ file' = [file EXCEPT ![n] = 0] /\ broken' = broken \ {n}
  /\ UNCHANGED <<clock, idxVars, lock, op, scanVars, budget, history>>

DeleteCommits(w) ==
  LET n == op[w].note IN
  /\ At(w, "unlinked") /\ Leaves(w)
  /\ IF op[w].alias
     THEN /\ strayed' = strayed \cup touched \cup {n} /\ touched' = {}
          /\ missed' = ((strayed \ {n}) \cup touched # {}) /\ UNCHANGED index
     ELSE index' = [index EXCEPT ![n] = 0] /\ Settles(n)
  /\ stored' = NewestOnDisk
  /\ UNCHANGED <<disk, op, scanVars, budget>>

(* The rename, the unlink or the commit raises: rolled back, but what the  *)
(* disk has seen stays.                                                    *)
Raises(w) ==
  /\ pc[w] \in {"insert", "drop", "renamed", "unlinked"} /\ Fault /\ Leaves(w)
  /\ strayed' = strayed \cup touched \cup
       (IF pc[w] \in {"renamed", "unlinked"} THEN {op[w].note} ELSE {})
  /\ touched' = {}
  /\ UNCHANGED <<disk, idxVars, op, scanVars, missed>>

----------------------------------------------------------------------------
(* reindex_vault, of a tool or of the start: every note is read, then its  *)
(* time is looked at, then all rows and the newest time are replaced.      *)

ScanReads(a, n) ==
  /\ At(a, "scan") /\ lock = a /\ n \notin read /\ read = timed
  /\ rows' = [rows EXCEPT ![n] = RowOf(n)]
  /\ read' = read \cup {n}
  /\ timed' = IF RowOf(n) = 0 THEN timed \cup {n} ELSE timed
  /\ UNCHANGED <<disk, idxVars, lock, pc, op, newest, budget, history>>

ScanStats(a, n) ==
  /\ At(a, "scan") /\ lock = a /\ n \in read \ timed
  /\ timed' = timed \cup {n} /\ newest' = Later(newest, file[n])
  /\ UNCHANGED <<disk, idxVars, lock, pc, op, rows, read, budget, history>>

(* Variant: the rows of notes that are no longer there are kept.           *)
ScanCommitsOver(a) ==
  /\ At(a, "scan") /\ lock = a /\ timed = Notes /\ Leaves(a)
  /\ index' = [n \in Notes |-> IF rows[n] = 0 THEN index[n] ELSE rows[n]] /\ stored' = newest
  /\ strayed' = touched /\ missed' = (touched # {}) /\ touched' = {}
  /\ UNCHANGED <<disk, op, scanVars, budget>>

ScanCommits(a) ==
  /\ At(a, "scan") /\ lock = a /\ timed = Notes /\ Leaves(a)
  /\ index' = rows /\ stored' = newest
  /\ strayed' = touched /\ missed' = (touched # {}) /\ touched' = {}
  /\ UNCHANGED <<disk, op, scanVars, budget>>

----------------------------------------------------------------------------
(* The owner's editor takes no lock.                                       *)

Touches(ns) ==
  /\ edits < MaxEdits /\ edits' = edits + 1
  /\ strayed' = strayed \cup ns
  /\ touched' = IF lock = NoOne THEN touched ELSE touched \cup ns
  /\ UNCHANGED <<idxVars, lock, pc, op, scanVars, calls, faults, crashes>>

Edit(n) ==
  /\ Touches({n}) /\ UNCHANGED missed
  /\ clock' = clock + 1 /\ file' = [file EXCEPT ![n] = clock + 1]
  /\ broken' \in {broken \ {n}, broken \cup {n}}

Remove(n) ==
  /\ n \in Existing /\ Touches({n}) /\ UNCHANGED missed
  /\ file' = [file EXCEPT ![n] = 0] /\ broken' = broken \ {n} /\ UNCHANGED clock

(* A note that is renamed keeps its time, so nothing the probe looks at    *)
(* changes.                                                                *)
RenameNote(n, m) ==
  /\ n \in Existing \ broken /\ m \notin Existing /\ Touches({n, m}) /\ missed' = TRUE
  /\ file' = [file EXCEPT ![m] = file[n], ![n] = 0]
  /\ UNCHANGED <<clock, broken>>

----------------------------------------------------------------------------
(* A death rolls the open transaction back and releases the lock.          *)
Crash ==
  /\ crashes < MaxCrashes /\ crashes' = crashes + 1 /\ pc[Starter] = "idle"
  /\ pc' = [a \in Threads |-> IF a = Starter THEN "probe" ELSE "idle"]
  /\ lock' = NoOne /\ touched' = {}
  /\ strayed' = strayed \cup touched \cup
       {n \in Notes : \E w \in Workers : pc[w] \in {"renamed", "unlinked"} /\ op[w].note = n}
  /\ UNCHANGED <<disk, idxVars, op, scanVars, calls, edits, faults, missed>>

(* _maybe_auto_reindex of the next start; nobody else has the lock.        *)
Probe ==
  /\ pc[Starter] = "probe"
  /\ IF ProbeFires
     THEN Goes(Starter, "scan") /\ lock' = Starter /\ ScanBegins /\ touched' = {}
     ELSE Goes(Starter, "idle") /\ UNCHANGED <<lock, scanVars, touched>>
  /\ UNCHANGED <<disk, idxVars, op, budget, strayed, missed>>

----------------------------------------------------------------------------
Call(w) == \/ Reindex(w)
           \/ \E n \in Notes : Write(w, n) \/ SaveTranscript(w, n) \/ Delete(w, n)

Work(w) == \/ TakeLock(w) \/ LockTimesOut(w)
           \/ WriteRenames(w) \/ WriteCommits(w) \/ DeleteUnlinks(w) \/ DeleteCommits(w)
           \/ Raises(w)

Scan(a) == ScanCommits(a) \/ \E n \in Notes : ScanReads(a, n) \/ ScanStats(a, n)

Owner == \E n \in Notes : Edit(n) \/ Remove(n) \/ \E m \in Notes : RenameNote(n, m)

Next == \/ \E w \in Workers : Call(w) \/ Work(w)
        \/ \E a \in Threads : Scan(a)
        \/ Owner \/ Crash \/ Probe

Spec == Init /\ [][Next]_vars

----------------------------------------------------------------------------
(* The variables keep their types; a thread is in its critical section     *)
(* exactly while it holds the vault lock, and no note is newer than the    *)
(* clock.                                                                  *)
TypeOK ==
  /\ file \in [Notes -> Nat] /\ index \in [Notes -> Nat] /\ rows \in [Notes -> Nat]
  /\ stored \in Nat /\ clock \in Nat /\ newest \in Nat
  /\ broken \subseteq Existing /\ timed \subseteq read /\ read \subseteq Notes
  /\ lock \in Threads \cup {NoOne}
  /\ pc \in [Threads -> {"idle", "write", "delete", "reindex", "insert", "renamed", "drop",
                         "unlinked", "scan", "probe"}]
  /\ \A a \in Threads : pc[a] \in {"insert", "renamed", "drop", "unlinked", "scan"} <=> lock = a
  /\ op \in [Workers -> [note : Notes, alias : BOOLEAN, version : Nat]]
  /\ strayed \subseteq Notes /\ touched \subseteq Notes /\ missed \in BOOLEAN
  /\ \A n \in Notes : file[n] <= clock
  /\ calls \in 0..MaxCalls /\ edits \in 0..MaxEdits
  /\ faults \in 0..MaxFaults /\ crashes \in 0..MaxCrashes

(* Whenever nobody holds the vault lock, each row is that of its file,     *)
(* except for notes that the owner edited, that a raised or lost commit    *)
(* left behind, or that were deleted under another spelling: concurrent    *)
(* writes, deletes and a reindex never disagree by themselves              *)
(* (_memory_core.py:741-933).                                              *)
RowsFollowFiles ==
  lock = NoOne => \A n \in Notes \ strayed : index[n] = RowOf(n)

(* As long as every note can be parsed (one that cannot is counted and has *)
(* no row, which may stand for a note that is gone), the probe at boot     *)
(* finds every disagreement that no later transaction has hidden, and      *)
(* finds none where there is none (_memory_core.py:820-873).               *)
ProbeIsExact ==
  lock = NoOne /\ broken = {} =>
    /\ (\E n \in Notes : index[n] # RowOf(n)) /\ ~missed => ProbeFires
    /\ strayed = {} => ~ProbeFires
=============================================================================
