--------------------------- MODULE MCMemoryIndex ---------------------------
(* Two notes, two threads; the notes are alike and so are the threads.     *)
EXTENDS MemoryIndex, TLC

CONSTANTS n1, n2, w1, w2

MCNotes == {n1, n2}
MCWorkers == {w1, w2}
Alike == Permutations(MCNotes) \cup Permutations(MCWorkers)
=============================================================================
