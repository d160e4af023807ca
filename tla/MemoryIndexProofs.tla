------------------------- MODULE MemoryIndexProofs -------------------------
(***************************************************************************)
(* Theorems about MemoryIndex for every vault, any number of threads and   *)
(* every bound.  The inductive invariant says what the thread under the    *)
(* vault lock may rely on (Working), that a note which has not strayed has *)
(* its row (Settled), and what the probe can still see of one that has     *)
(* (Visible).                                                              *)
(***************************************************************************)
EXTENDS MemoryIndex, FiniteSetTheorems, WellFoundedInduction, TLAPS

USE NamesAssumption, NotesAssumption, BoundsAssumption

Steps == {"idle", "write", "delete", "reindex", "insert", "renamed", "drop", "unlinked",
          "scan", "probe"}
Inside == {"insert", "renamed", "drop", "unlinked", "scan"}

(* Someone under the lock has changed the note and not yet its row.        *)
Busy(n) == \E w \in Workers : pc[w] \in {"renamed", "unlinked"} /\ op[w].note = n

(* A tool's thread is as it left the file, unless the owner came between.  *)
Working ==
  /\ \A w \in Workers : op[w].note \notin touched =>
       /\ pc[w] = "renamed" => file[op[w].note] = op[w].version /\ op[w].note \notin broken
       /\ pc[w] = "unlinked" => file[op[w].note] = 0
  /\ \A a \in Threads : pc[a] = "scan" =>
       /\ \A n \in read \ touched : rows[n] = RowOf(n)
       /\ \A n \in timed \ (touched \cup broken) : file[n] <= newest

(* Whatever the owner has touched since the lock was taken has strayed; no *)
(* time is later than the clock; while the daemon starts no tool runs.     *)
Sound ==
  /\ touched \subseteq strayed
  /\ stored <= clock /\ newest <= clock
  /\ pc[Starter] # "idle" => \A w \in Workers : pc[w] = "idle"

Settled ==
  \A n \in Notes \ strayed :
    ~Busy(n) => index[n] = RowOf(n) /\ (n \notin broken => file[n] <= stored)

(* As long as nothing has been missed, a file that is no newer than the    *)
(* index has the row it was given.                                         *)
Visible ==
  ~missed => \A n \in Notes \ broken :
    file[n] # 0 /\ file[n] <= stored => index[n] = file[n]

IInv == TypeOK /\ Working /\ Sound /\ Settled /\ Visible

-----------------------------------------------------------------------------
(* A set of numbers with a bound has a greatest one: the smallest of the   *)
(* sets that hold all its members from one of them on begins there.        *)
LEMMA GreatestExists ==
  ASSUME NEW T, T \subseteq Nat, T # {}, NEW c \in Nat, \A t \in T : t <= c
  PROVE  \E x \in T : \A y \in T : y <= x
<1> DEFINE From(t) == {y \in T : y >= t}
           C == {From(t) : t \in T}
<1>1. IsFiniteSet(T)
  BY FS_BoundedSetOfNaturals
<1>2. \A t \in T : From(t) \in SUBSET T /\ IsFiniteSet(From(t))
  BY <1>1, FS_Subset
<1>3. C \subseteq FiniteSubsetsOf(T) /\ C # {}
  BY <1>2 DEF FiniteSubsetsOf
<1>4. \E U \in C : \A V \in C : ~(<<V, U>> \in StrictSubsetOrdering(T))
  <2> HIDE DEF C
  <2>1. QED
    BY <1>3, WFMin, FS_StrictSubsetOrderingWellFounded
<1>5. PICK x \in T : \A V \in C : ~(<<V, From(x)>> \in StrictSubsetOrdering(T))
  BY <1>4
<1>6. ASSUME NEW y \in T, y > x PROVE FALSE
  <2>1. From(y) \subseteq From(x) /\ From(y) # From(x)
    <3>1. ASSUME NEW z \in From(y) PROVE z \in From(x)
      <4>1. x \in Nat /\ y \in Nat /\ z \in Nat /\ z \in T /\ z >= y
        OBVIOUS
      <4>2. QED
        BY <1>6, <4>1
    <3>2. x \in From(x) /\ x \notin From(y)
      BY <1>6
    <3>3. QED
      BY <3>1, <3>2
  <2>2. <<From(y), From(x)>> \in StrictSubsetOrdering(T)
    <3> HIDE DEF From
    <3>1. QED
      BY <1>2, <2>1 DEF StrictSubsetOrdering
  <2>3. QED
    BY <2>2, <1>5
<1>7. QED
  BY <1>6

(* The newest time on disk is the time of a note, or 0, and no note has a  *)
(* later one.                                                              *)
LEMMA NewestIsNewest ==
  TypeOK => /\ NewestOnDisk \in Nat /\ NewestOnDisk <= clock
            /\ \A n \in Notes : file[n] <= NewestOnDisk
            /\ NewestOnDisk = 0 \/ \E n \in Notes : file[n] = NewestOnDisk
<1> SUFFICES ASSUME TypeOK
             PROVE  /\ NewestOnDisk \in Nat /\ NewestOnDisk <= clock
                    /\ \A n \in Notes : file[n] <= NewestOnDisk
                    /\ NewestOnDisk = 0 \/ \E n \in Notes : file[n] = NewestOnDisk
  OBVIOUS
<1> DEFINE T == {0} \cup {file[n] : n \in Notes}
<1>1. T \subseteq Nat /\ T # {} /\ \A t \in T : t <= clock
  BY DEF TypeOK
<1>2. clock \in Nat
  BY DEF TypeOK
<1>3. \E x \in T : \A y \in T : y <= x
  <2> HIDE DEF T
  <2>1. QED
    BY <1>1, <1>2, GreatestExists
<1>4. \E x \in T : \A n \in Notes : file[n] <= x
  BY <1>3
<1>5. NewestOnDisk \in T /\ \A n \in Notes : file[n] <= NewestOnDisk
  BY <1>4 DEF NewestOnDisk
<1>6. QED
  BY <1>1, <1>5

(* All calls of the tools begin in one way.                                *)
Tools == {"write", "delete", "reindex"}
LEMMA CallIsCalled ==
  \A w \in Workers : Call(w) =>
    \E kind \in Tools, n \in Notes, alias \in BOOLEAN : Called(w, kind, n, alias)
  BY DEF Call, Write, SaveTranscript, Delete, Reindex, Tools

-----------------------------------------------------------------------------
(* Every step keeps the types, and the lock with the thread that is inside.*)
LEMMA TypeStep == IInv /\ [Next]_vars => TypeOK'
<1> SUFFICES ASSUME IInv, [Next]_vars PROVE TypeOK'
  OBVIOUS
<1> USE DEF IInv, TypeOK, Threads, Existing, disk, idxVars, scanVars, budget, history
<1>1. ASSUME NEW w \in Workers, Call(w) PROVE TypeOK'
  <2>1. PICK kind \in Tools, n \in Notes, alias \in BOOLEAN : Called(w, kind, n, alias)
    BY <1>1, CallIsCalled
  <2>2. QED
    BY <2>1 DEF Called, Tools
<1>2. ASSUME NEW w \in Workers, TakeLock(w) PROVE TypeOK'
  BY <1>2 DEF TakeLock, Enters, Entered, ScanBegins
<1>3. ASSUME NEW w \in Workers, LockTimesOut(w) PROVE TypeOK'
  BY <1>3 DEF LockTimesOut
<1>4. ASSUME NEW w \in Workers, WriteRenames(w) PROVE TypeOK'
  BY <1>4 DEF WriteRenames, At, Goes
<1>5. ASSUME NEW w \in Workers, WriteCommits(w) PROVE TypeOK'
  BY <1>5 DEF WriteCommits, At, Goes, Leaves, Settles, Later
<1>6. ASSUME NEW w \in Workers, DeleteUnlinks(w) PROVE TypeOK'
  BY <1>6 DEF DeleteUnlinks, At, Goes
<1>7. ASSUME NEW w \in Workers, DeleteCommits(w) PROVE TypeOK'
  <2> HIDE DEF Existing
  <2>1. NewestOnDisk \in Nat
    BY NewestIsNewest
  <2>2. /\ index' \in [Notes -> Nat] /\ stored' \in Nat
        /\ strayed' \subseteq Notes /\ touched' \subseteq Notes /\ missed' \in BOOLEAN
    <3>1. op[w].note \in Notes
      OBVIOUS
    <3>2. stored' \in Nat
      BY <1>7, <2>1 DEF DeleteCommits
    <3>3. index' \in [Notes -> Nat] /\ touched' = {}
      BY <1>7 DEF DeleteCommits, Settles
    <3>4. strayed' \subseteq Notes
      BY <1>7, <3>1 DEF DeleteCommits, Settles
    <3>5. missed' \in BOOLEAN
      BY <1>7 DEF DeleteCommits, Settles
    <3>6. QED
      BY <3>2, <3>3, <3>4, <3>5
  <2>3. QED
    BY <1>7, <2>2 DEF DeleteCommits, At, Goes, Leaves, Existing
<1>8. ASSUME NEW w \in Workers, Raises(w) PROVE TypeOK'
  BY <1>8 DEF Raises, Goes, Leaves, Fault
<1>9. ASSUME NEW a \in Threads, NEW n \in Notes, ScanReads(a, n) PROVE TypeOK'
  BY <1>9 DEF ScanReads, At, RowOf
<1>10. ASSUME NEW a \in Threads, NEW n \in Notes, ScanStats(a, n) PROVE TypeOK'
  BY <1>10 DEF ScanStats, At, Later
<1>11. ASSUME NEW a \in Threads, ScanCommits(a) PROVE TypeOK'
  BY <1>11 DEF ScanCommits, At, Goes, Leaves
<1>12. ASSUME NEW n \in Notes, Edit(n) PROVE TypeOK'
  BY <1>12 DEF Edit, Touches
<1>13. ASSUME NEW n \in Notes, Remove(n) PROVE TypeOK'
  BY <1>13 DEF Remove, Touches
<1>14. ASSUME NEW n \in Notes, NEW m \in Notes, RenameNote(n, m) PROVE TypeOK'
  BY <1>14 DEF RenameNote, Touches
<1>15. CASE Crash
  BY <1>15 DEF Crash
<1>16. CASE Probe
  BY <1>16 DEF Probe, Goes, ScanBegins, Sound
<1>17. CASE UNCHANGED vars
  BY <1>17 DEF vars
<1>18. QED
  BY <1>1, <1>2, <1>3, <1>4, <1>5, <1>6, <1>7, <1>8, <1>9, <1>10, <1>11, <1>12, <1>13,
     <1>14, <1>15, <1>16, <1>17 DEF Next, Work, Scan, Owner

-----------------------------------------------------------------------------
(* Only the thread under the lock changes files and rows, and the owner    *)
(* leaves his mark in touched.                                             *)
LEMMA WorkingStep == IInv /\ [Next]_vars => Working'
<1> SUFFICES ASSUME IInv, [Next]_vars PROVE Working'
  OBVIOUS
<1> USE DEF IInv, TypeOK, Working, Threads, Existing, RowOf, Parses, disk, idxVars, scanVars,
        budget, history
<1>1. ASSUME NEW w \in Workers, Call(w) PROVE Working'
  <2>1. PICK kind \in Tools, n \in Notes, alias \in BOOLEAN : Called(w, kind, n, alias)
    BY <1>1, CallIsCalled
  <2>2. QED
    BY <2>1 DEF Called, Tools
<1>2. ASSUME NEW w \in Workers, TakeLock(w) PROVE Working'
  BY <1>2 DEF TakeLock, Enters, Entered, ScanBegins
<1>3. ASSUME NEW w \in Workers, LockTimesOut(w) PROVE Working'
  BY <1>3 DEF LockTimesOut
<1>4. ASSUME NEW w \in Workers, WriteRenames(w) PROVE Working'
  BY <1>4 DEF WriteRenames, At, Goes
<1>5. ASSUME NEW w \in Workers, WriteCommits(w) PROVE Working'
  BY <1>5 DEF WriteCommits, At, Goes, Leaves
<1>6. ASSUME NEW w \in Workers, DeleteUnlinks(w) PROVE Working'
  BY <1>6 DEF DeleteUnlinks, At, Goes
<1>7. ASSUME NEW w \in Workers, DeleteCommits(w) PROVE Working'
  BY <1>7 DEF DeleteCommits, At, Goes, Leaves
<1>8. ASSUME NEW w \in Workers, Raises(w) PROVE Working'
  BY <1>8 DEF Raises, Goes, Leaves
<1>9. ASSUME NEW a \in Threads, NEW n \in Notes, ScanReads(a, n) PROVE Working'
  BY <1>9 DEF ScanReads, At
<1>10. ASSUME NEW a \in Threads, NEW n \in Notes, ScanStats(a, n) PROVE Working'
  BY <1>10 DEF ScanStats, At, Later
<1>11. ASSUME NEW a \in Threads, ScanCommits(a) PROVE Working'
  BY <1>11 DEF ScanCommits, At, Goes, Leaves
<1>12. ASSUME NEW n \in Notes, Edit(n) PROVE Working'
  BY <1>12 DEF Edit, Touches
<1>13. ASSUME NEW n \in Notes, Remove(n) PROVE Working'
  BY <1>13 DEF Remove, Touches
<1>14. ASSUME NEW n \in Notes, NEW m \in Notes, RenameNote(n, m) PROVE Working'
  BY <1>14 DEF RenameNote, Touches
<1>15. CASE Crash
  BY <1>15 DEF Crash
<1>16. CASE Probe
  BY <1>16 DEF Probe, Goes, ScanBegins, Sound
<1>17. CASE UNCHANGED vars
  BY <1>17 DEF vars
<1>18. QED
  BY <1>1, <1>2, <1>3, <1>4, <1>5, <1>6, <1>7, <1>8, <1>9, <1>10, <1>11, <1>12, <1>13,
     <1>14, <1>15, <1>16, <1>17 DEF Next, Work, Scan, Owner

(* Times come from files, and files get the time of the clock.             *)
LEMMA SoundStep == IInv /\ [Next]_vars => Sound'
<1> SUFFICES ASSUME IInv, [Next]_vars PROVE Sound'
  OBVIOUS
<1> USE DEF IInv, TypeOK, Sound, Threads, Existing, disk, idxVars, scanVars, budget, history
<1>1. ASSUME NEW w \in Workers, Call(w) PROVE Sound'
  <2>1. PICK kind \in Tools, n \in Notes, alias \in BOOLEAN : Called(w, kind, n, alias)
    BY <1>1, CallIsCalled
  <2>2. QED
    BY <2>1 DEF Called, Tools
<1>2. ASSUME NEW w \in Workers, TakeLock(w) PROVE Sound'
  BY <1>2 DEF TakeLock, Enters, Entered, ScanBegins
<1>3. ASSUME NEW w \in Workers, LockTimesOut(w) PROVE Sound'
  BY <1>3 DEF LockTimesOut
<1>4. ASSUME NEW w \in Workers, WriteRenames(w) PROVE Sound'
  BY <1>4 DEF WriteRenames, At, Goes
<1>5. ASSUME NEW w \in Workers, WriteCommits(w) PROVE Sound'
  BY <1>5 DEF WriteCommits, At, Goes, Leaves, Settles, Later
<1>6. ASSUME NEW w \in Workers, DeleteUnlinks(w) PROVE Sound'
  BY <1>6 DEF DeleteUnlinks, At, Goes
<1>7. ASSUME NEW w \in Workers, DeleteCommits(w) PROVE Sound'
  <2>1. stored' <= clock
    <3> HIDE DEF Existing
    <3>1. QED
      BY <1>7, NewestIsNewest DEF DeleteCommits
  <2>2. QED
    BY <1>7, <2>1 DEF DeleteCommits, At, Goes, Leaves, Settles
<1>8. ASSUME NEW w \in Workers, Raises(w) PROVE Sound'
  BY <1>8 DEF Raises, Goes, Leaves
<1>9. ASSUME NEW a \in Threads, NEW n \in Notes, ScanReads(a, n) PROVE Sound'
  BY <1>9 DEF ScanReads, At
<1>10. ASSUME NEW a \in Threads, NEW n \in Notes, ScanStats(a, n) PROVE Sound'
  BY <1>10 DEF ScanStats, At, Later
<1>11. ASSUME NEW a \in Threads, ScanCommits(a) PROVE Sound'
  BY <1>11 DEF ScanCommits, At, Goes, Leaves
<1>12. ASSUME NEW n \in Notes, Edit(n) PROVE Sound'
  BY <1>12 DEF Edit, Touches
<1>13. ASSUME NEW n \in Notes, Remove(n) PROVE Sound'
  BY <1>13 DEF Remove, Touches
<1>14. ASSUME NEW n \in Notes, NEW m \in Notes, RenameNote(n, m) PROVE Sound'
  BY <1>14 DEF RenameNote, Touches
<1>15. CASE Crash
  BY <1>15 DEF Crash
<1>16. CASE Probe
  BY <1>16 DEF Probe, Goes, ScanBegins
<1>17. CASE UNCHANGED vars
  BY <1>17 DEF vars
<1>18. QED
  BY <1>1, <1>2, <1>3, <1>4, <1>5, <1>6, <1>7, <1>8, <1>9, <1>10, <1>11, <1>12, <1>13,
     <1>14, <1>15, <1>16, <1>17 DEF Next, Work, Scan, Owner

(* Nobody else touches the note a thread works on, so that its commit puts *)
(* down the row of what is there.                                          *)
LEMMA SettledStep == IInv /\ [Next]_vars => Settled'
<1> SUFFICES ASSUME IInv, [Next]_vars PROVE Settled'
  OBVIOUS
<1> USE DEF IInv, TypeOK, Sound, Working, Settled, Busy, RowOf, Parses, Threads, Existing, disk,
        idxVars, scanVars, budget, history
<1>1. ASSUME NEW w \in Workers, Call(w) PROVE Settled'
  <2>1. PICK kind \in Tools, n \in Notes, alias \in BOOLEAN : Called(w, kind, n, alias)
    BY <1>1, CallIsCalled
  <2>2. QED
    BY <2>1 DEF Called, Tools
<1>2. ASSUME NEW w \in Workers, TakeLock(w) PROVE Settled'
  BY <1>2 DEF TakeLock, Enters, Entered, ScanBegins
<1>3. ASSUME NEW w \in Workers, LockTimesOut(w) PROVE Settled'
  BY <1>3 DEF LockTimesOut
<1>4. ASSUME NEW w \in Workers, WriteRenames(w) PROVE Settled'
  BY <1>4 DEF WriteRenames, At, Goes
<1>5. ASSUME NEW w \in Workers, WriteCommits(w) PROVE Settled'
  BY <1>5 DEF WriteCommits, At, Goes, Leaves, Settles, Later
<1>6. ASSUME NEW w \in Workers, DeleteUnlinks(w) PROVE Settled'
  BY <1>6 DEF DeleteUnlinks, At, Goes
<1>7. ASSUME NEW w \in Workers, DeleteCommits(w) PROVE Settled'
  <2>1. \A n \in Notes : file[n] <= NewestOnDisk
    <3> HIDE DEF Existing
    <3>1. QED
      BY NewestIsNewest
  <2>2. QED
    BY <1>7, <2>1 DEF DeleteCommits, At, Goes, Leaves, Settles
<1>8. ASSUME NEW w \in Workers, Raises(w) PROVE Settled'
  BY <1>8 DEF Raises, Goes, Leaves
<1>9. ASSUME NEW a \in Threads, NEW n \in Notes, ScanReads(a, n) PROVE Settled'
  BY <1>9 DEF ScanReads, At
<1>10. ASSUME NEW a \in Threads, NEW n \in Notes, ScanStats(a, n) PROVE Settled'
  BY <1>10 DEF ScanStats, At, Later
<1>11. ASSUME NEW a \in Threads, ScanCommits(a) PROVE Settled'
  BY <1>11 DEF ScanCommits, At, Goes, Leaves
<1>12. ASSUME NEW n \in Notes, Edit(n) PROVE Settled'
  BY <1>12 DEF Edit, Touches
<1>13. ASSUME NEW n \in Notes, Remove(n) PROVE Settled'
  BY <1>13 DEF Remove, Touches
<1>14. ASSUME NEW n \in Notes, NEW m \in Notes, RenameNote(n, m) PROVE Settled'
  BY <1>14 DEF RenameNote, Touches
<1>15. CASE Crash
  BY <1>15 DEF Crash
<1>16. CASE Probe
  BY <1>16 DEF Probe, Goes, ScanBegins
<1>17. CASE UNCHANGED vars
  BY <1>17 DEF vars
<1>18. QED
  BY <1>1, <1>2, <1>3, <1>4, <1>5, <1>6, <1>7, <1>8, <1>9, <1>10, <1>11, <1>12, <1>13,
     <1>14, <1>15, <1>16, <1>17 DEF Next, Work, Scan, Owner

(* A commit beside which no note has strayed settles all of them; a later  *)
(* change gives a file a time the index has not seen, or takes it away.    *)
LEMMA VisibleStep == IInv /\ [Next]_vars => Visible'
<1> SUFFICES ASSUME IInv, [Next]_vars PROVE Visible'
  OBVIOUS
<1> USE DEF IInv, TypeOK, Sound, Working, Visible, Busy, RowOf, Parses, Threads, Existing, disk,
        idxVars, scanVars, budget, history
<1>1. ASSUME NEW w \in Workers, Call(w) PROVE Visible'
  <2>1. PICK kind \in Tools, n \in Notes, alias \in BOOLEAN : Called(w, kind, n, alias)
    BY <1>1, CallIsCalled
  <2>2. QED
    BY <2>1 DEF Called, Tools
<1>2. ASSUME NEW w \in Workers, TakeLock(w) PROVE Visible'
  BY <1>2 DEF TakeLock, Enters, Entered, ScanBegins
<1>3. ASSUME NEW w \in Workers, LockTimesOut(w) PROVE Visible'
  BY <1>3 DEF LockTimesOut
<1>4. ASSUME NEW w \in Workers, WriteRenames(w) PROVE Visible'
  BY <1>4 DEF WriteRenames, At, Goes
<1>5. ASSUME NEW w \in Workers, WriteCommits(w) PROVE Visible'
  <2>1. Settled' /\ (\A n \in Notes : ~Busy(n)')
    <3>1. lock = w /\ \A v \in Workers : pc'[v] \notin {"renamed", "unlinked"}
      BY <1>5 DEF WriteCommits, At, Goes, Leaves
    <3>2. QED
      BY <3>1, SettledStep
  <2>2. missed' = (strayed' # {})
    BY <1>5 DEF WriteCommits, Settles
  <2>3. QED
    BY <2>1, <2>2 DEF Settled
<1>6. ASSUME NEW w \in Workers, DeleteUnlinks(w) PROVE Visible'
  BY <1>6 DEF DeleteUnlinks, At, Goes
<1>7. ASSUME NEW w \in Workers, DeleteCommits(w) PROVE Visible'
  <2>1. Settled' /\ (\A n \in Notes : ~Busy(n)')
    <3>1. lock = w /\ \A v \in Workers : pc'[v] \notin {"renamed", "unlinked"}
      BY <1>7 DEF DeleteCommits, At, Goes, Leaves
    <3>2. QED
      BY <3>1, SettledStep
  <2>2. CASE ~op[w].alias
    <3>1. missed' = (strayed' # {})
      BY <1>7, <2>2 DEF DeleteCommits, Settles
    <3>2. QED
      BY <2>1, <3>1 DEF Settled
  <2>3. CASE op[w].alias
    <3>1. missed' = ((strayed \ {op[w].note}) \cup touched # {})
          /\ strayed' = strayed \cup touched \cup {op[w].note} /\ file' = file
      BY <1>7, <2>3 DEF DeleteCommits
    <3>2. op[w].note \notin touched => file[op[w].note] = 0
      BY <1>7 DEF DeleteCommits, At
    <3>3. QED
      BY <2>1, <3>1, <3>2 DEF Settled
  <2>4. QED
    BY <2>2, <2>3
<1>8. ASSUME NEW w \in Workers, Raises(w) PROVE Visible'
  BY <1>8 DEF Raises, Goes, Leaves
<1>9. ASSUME NEW a \in Threads, NEW n \in Notes, ScanReads(a, n) PROVE Visible'
  BY <1>9 DEF ScanReads, At
<1>10. ASSUME NEW a \in Threads, NEW n \in Notes, ScanStats(a, n) PROVE Visible'
  BY <1>10 DEF ScanStats, At, Later
<1>11. ASSUME NEW a \in Threads, ScanCommits(a) PROVE Visible'
  BY <1>11 DEF ScanCommits, At, Goes, Leaves
<1>12. ASSUME NEW n \in Notes, Edit(n) PROVE Visible'
  BY <1>12 DEF Edit, Touches
<1>13. ASSUME NEW n \in Notes, Remove(n) PROVE Visible'
  BY <1>13 DEF Remove, Touches
<1>14. ASSUME NEW n \in Notes, NEW m \in Notes, RenameNote(n, m) PROVE Visible'
  BY <1>14 DEF RenameNote, Touches
<1>15. CASE Crash
  BY <1>15 DEF Crash
<1>16. CASE Probe
  BY <1>16 DEF Probe, Goes, ScanBegins
<1>17. CASE UNCHANGED vars
  BY <1>17 DEF vars
<1>18. QED
  BY <1>1, <1>2, <1>3, <1>4, <1>5, <1>6, <1>7, <1>8, <1>9, <1>10, <1>11, <1>12, <1>13,
     <1>14, <1>15, <1>16, <1>17 DEF Next, Work, Scan, Owner

-----------------------------------------------------------------------------
(* The inductive invariant, for every vault.                               *)
THEOREM Invariant == Spec => []IInv
<1>1. Init => IInv
  <2> SUFFICES ASSUME Init PROVE IInv
    OBVIOUS
  <2>1. TypeOK
    <3>1. \A a \in Threads : pc[a] = "idle"
      BY DEF Init
    <3>2. op \in [Workers -> [note : Notes, alias : BOOLEAN, version : Nat]]
      <4>1. op \in [Workers -> [note : Notes, alias : {FALSE}, version : {0}]]
        BY DEF Init
      <4>2. [note : Notes, alias : {FALSE}, version : {0}]
              \subseteq [note : Notes, alias : BOOLEAN, version : Nat]
        <5>1. ASSUME NEW r \in [note : Notes, alias : {FALSE}, version : {0}]
              PROVE  r \in [note : Notes, alias : BOOLEAN, version : Nat]
          <6>1. r = [note |-> r.note, alias |-> FALSE, version |-> 0] /\ r.note \in Notes
            OBVIOUS
          <6>2. ASSUME NEW n \in Notes
                PROVE  [note |-> n, alias |-> FALSE, version |-> 0]
                         \in [note : Notes, alias : BOOLEAN, version : Nat]
            OBVIOUS
          <6>3. QED
            BY <6>1, <6>2, Zenon
        <5>2. QED
          BY <5>1
      <4>3. QED
        BY <4>1, <4>2
    <3>3. /\ file \in [Notes -> Nat] /\ index \in [Notes -> Nat] /\ rows \in [Notes -> Nat]
          /\ \A n \in Notes : file[n] <= clock
      BY DEF Init
    <3>4. /\ calls \in 0..MaxCalls /\ edits \in 0..MaxEdits
          /\ faults \in 0..MaxFaults /\ crashes \in 0..MaxCrashes
      BY DEF Init
    <3>5. missed \in BOOLEAN
      BY DEF Init
    <3>6. /\ lock \in Threads \cup {NoOne}
          /\ pc \in [Threads -> Steps]
          /\ \A a \in Threads : pc[a] \in Inside <=> lock = a
      BY <3>1 DEF Init, Threads, Steps, Inside
    <3>7. QED
      BY <3>2, <3>3, <3>4, <3>5, <3>6 DEF Init, TypeOK, Steps, Inside
  <2>2. Working /\ Sound /\ Settled /\ Visible
    BY DEF Init, Working, Sound, Settled, Visible, Threads, RowOf, Parses
  <2>3. QED
    BY <2>1, <2>2 DEF IInv
<1>2. IInv /\ [Next]_vars => IInv'
  BY TypeStep, WorkingStep, SoundStep, SettledStep, VisibleStep DEF IInv
<1>3. QED
  BY <1>1, <1>2, PTL DEF Spec

(* Every variable has its type, and a thread is inside exactly while it    *)
(* holds the vault lock.                                                   *)
THEOREM TypeCorrect == Spec => []TypeOK
<1>1. IInv => TypeOK
  BY DEF IInv
<1>2. QED
  BY <1>1, Invariant, PTL

(* Whatever the tools do together, the row of every note that has not      *)
(* strayed is that of its file when the lock is free.                      *)
THEOREM RowsFollow == Spec => []RowsFollowFiles
<1>1. IInv => RowsFollowFiles
  BY DEF IInv, TypeOK, Settled, Busy, RowsFollowFiles, Threads
<1>2. QED
  BY <1>1, Invariant, PTL

(* The probe of the next start sees every disagreement that nothing has    *)
(* hidden since: with the counts equal and no file newer than the index,   *)
(* the files are among the rows and so are all of them.                    *)
THEOREM ProbeExact == Spec => []ProbeIsExact
<1>1. IInv => ProbeIsExact
  <2> SUFFICES ASSUME IInv, lock = NoOne, broken = {}
               PROVE  /\ (\E n \in Notes : index[n] # RowOf(n)) /\ ~missed => ProbeFires
                      /\ strayed = {} => ~ProbeFires
    BY DEF ProbeIsExact
  <2>1. /\ NewestOnDisk \in Nat /\ stored \in Nat
        /\ \A n \in Notes : file[n] \in Nat /\ file[n] <= NewestOnDisk
        /\ NewestOnDisk = 0 \/ \E n \in Notes : file[n] = NewestOnDisk
    BY NewestIsNewest DEF IInv, TypeOK
  <2>2. \A n \in Notes : RowOf(n) = file[n]
    BY DEF RowOf, Parses
  <2>3. ASSUME ~missed, ~ProbeFires PROVE \A n \in Notes : index[n] = RowOf(n)
    <3>1. NewestOnDisk <= stored /\ Cardinality(Existing) = Cardinality(Rows)
      BY <2>1, <2>3 DEF ProbeFires
    <3>2. \A n \in Existing : index[n] = file[n]
      BY <2>1, <2>3, <3>1 DEF IInv, Visible, Existing
    <3>3. Existing \in SUBSET Rows /\ IsFiniteSet(Rows)
      BY <3>2, FS_Subset DEF Existing, Rows
    <3>4. Existing = Rows
      BY <3>1, <3>3, FS_Subset
    <3>5. QED
      BY <2>2, <3>2, <3>4 DEF Existing, Rows
  <2>4. ASSUME strayed = {} PROVE ~ProbeFires
    <3>1. \A n \in Notes : ~Busy(n)
      BY DEF IInv, TypeOK, Busy, Threads
    <3>2. \A n \in Notes : index[n] = file[n] /\ file[n] <= stored
      BY <2>2, <2>4, <3>1 DEF IInv, Settled
    <3>3. Existing = Rows
      BY <3>2 DEF Existing, Rows
    <3>4. QED
      BY <2>1, <3>2, <3>3 DEF ProbeFires
  <2>5. QED
    BY <2>3, <2>4
<1>2. QED
  BY <1>1, Invariant, PTL
=============================================================================
