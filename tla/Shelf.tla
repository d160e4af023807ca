-------------------------------- MODULE Shelf --------------------------------
(***************************************************************************)
(* What installing promises, whatever threads, rollbacks, starts and       *)
(* deaths do: a skill with its marker appears at once, whole and valid,    *)
(* and only where there is none; one that the owner asked for has been     *)
(* shown before; and only the owner takes it away.                         *)
(***************************************************************************)
EXTENDS Naturals

CONSTANTS Versions, WithTools, Valid, Absent

VARIABLES
  shelf, \* the skill that has its marker, with its tools and who put it there
  shown, \* the versions that the owner has seen
  asked  \* calls of the owner's
vars == <<shelf, shown, asked>>

Init == shelf = Absent /\ shown = {} /\ asked = 0

Show(v) == v \in Valid /\ shown' = shown \cup {v} /\ UNCHANGED <<shelf, asked>>

Ask == asked' = asked + 1 /\ shelf' \in {shelf, Absent} /\ UNCHANGED shown

Put(v, who) ==
  /\ shelf = Absent /\ v \in Valid /\ (who = "user" => v \in shown)
  /\ shelf' = [skill |-> v, tools |-> IF v \in WithTools THEN v ELSE Absent, by |-> who]
  /\ UNCHANGED <<shown, asked>>

Next == \/ \E v \in Versions : Show(v) \/ Put(v, "user") \/ Put(v, "boot")
        \/ Ask

Spec == Init /\ [][Next]_vars
=============================================================================
