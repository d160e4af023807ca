------------------------------ MODULE Delivery ------------------------------
(***************************************************************************)
(* What the owner may rely on while documents are rendered for a turn,     *)
(* whatever calls are cancelled, records swept and files lost meanwhile:   *)
(* documents come in the order of their results, each is spoken of once    *)
(* and in front of the list only, one that is past never comes back, and   *)
(* the store forgets a document that waits only by its delivery, with the  *)
(* cancellation of a namesake, or with the process.                        *)
(***************************************************************************)
EXTENDS Naturals, Sequences

CONSTANTS Renders, Names, NameOf

VARIABLES
  fate,   \* of a document: "new", "made", or "past" when listed or given up
  list,   \* the documents the turn has for the owner, in order
  store,  \* the documents that are kept until they are delivered
  heard   \* messages to the owner about a document
vars == <<fate, list, store, heard>>

Init ==
  /\ fate = [r \in Renders |-> "new"] /\ heard = [r \in Renders |-> 0]
  /\ list = <<>> /\ store = {}

Becomes(r, f) == fate' = [fate EXCEPT ![r] = f]

Make(r) ==
  /\ fate[r] = "new" /\ Becomes(r, "made")
  /\ store' = store \cup {r} /\ UNCHANGED <<list, heard>>

(* A render fails or is cancelled; the latter may take what is kept under  *)
(* its name.                                                               *)
GiveUp(r) ==
  /\ fate[r] = "new" /\ Becomes(r, "past")
  /\ store' \in {store, {q \in store : NameOf[q] # NameOf[r]}}
  /\ UNCHANGED <<list, heard>>

List(r) ==
  /\ fate[r] = "made" /\ Becomes(r, "past")
  /\ list' = Append(list, r) /\ UNCHANGED <<store, heard>>

Tell ==
  /\ list # <<>> /\ heard[Head(list)] = 0
  /\ heard' = [heard EXCEPT ![Head(list)] = 1] /\ UNCHANGED <<fate, list, store>>

Settle ==
  /\ list # <<>> /\ list' = Tail(list) /\ store' = store \ {Head(list)}
  /\ UNCHANGED <<fate, heard>>

(* The turn ends early, with or without the first of its list.             *)
Abandon ==
  /\ list' = <<>>
  /\ \/ UNCHANGED store
     \/ list # <<>> /\ store' = store \ {Head(list)}
  /\ UNCHANGED <<fate, heard>>

Die ==
  /\ list' = <<>> /\ store' = {} /\ UNCHANGED heard
  /\ \E rs \in SUBSET {r \in Renders : fate[r] = "new"} :
       fate' = [r \in Renders |-> IF r \in rs THEN "new" ELSE "past"]

Next == \/ \E r \in Renders : Make(r) \/ GiveUp(r) \/ List(r)
        \/ Tell \/ Settle \/ Abandon \/ Die

Spec == Init /\ [][Next]_vars
=============================================================================
