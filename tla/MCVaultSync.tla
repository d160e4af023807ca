----------------------------- MODULE MCVaultSync -----------------------------
(* A note and a file the denylist matches; one caller of the tool.         *)
EXTENDS VaultSync

CONSTANTS n1, s1, m1

TwoNotes == {n1, s1}
OneDenied == {s1}
OneManual == {m1}
Every2 == {2}
=============================================================================
