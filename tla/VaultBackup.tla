----------------------------- MODULE VaultBackup -----------------------------
(***************************************************************************)
(* What the vault synchronisation promises, whoever asks for it and        *)
(* whatever fails: the history it keeps is made of whole pictures of the   *)
(* vault, each taken in one instant and none with a denied file changed in *)
(* it, and what is published is always a prefix of that history.           *)
(***************************************************************************)
EXTENDS Sequences, Naturals

CONSTANTS Notes,    \* the files the vault may hold
          Denied    \* those whose names the secret denylist matches

VARIABLES work,     \* the files of the vault
          log,      \* the pictures taken of it, oldest first
          pushed    \* how many of them the remote has

vars == <<work, log, pushed>>

Newest == log[Len(log)]
Differ(a, b) == (a \ b) \cup (b \ a)

Init ==
  /\ work = {}
  /\ log = <<{}>>
  /\ pushed = 1

Write ==
  /\ work' \in SUBSET Notes
  /\ UNCHANGED <<log, pushed>>

Snapshot ==
  /\ work # Newest
  /\ Differ(work, Newest) \cap Denied = {}
  /\ log' = Append(log, work)
  /\ UNCHANGED <<work, pushed>>

Publish ==
  /\ pushed' = Len(log)
  /\ UNCHANGED <<work, log>>

Next == Write \/ Snapshot \/ Publish

Spec == Init /\ [][Next]_vars
=============================================================================
