-------------------------- MODULE TriggerLifecycle --------------------------
(***************************************************************************)
(* What the scheduler promises about one firing of a schedule, whoever     *)
(* moves it: a row is created once, wanders between pending and sent, and  *)
(* ends acked, dropped or dead for good.  The owner receives replies only  *)
(* for rows that have not ended, and an acked row has been delivered.      *)
(***************************************************************************)
EXTENDS Naturals

CONSTANT Triggers

VARIABLES
  status,     \* per trigger, the column triggers.status
  delivered   \* per trigger, the replies the owner has received

vars == <<status, delivered>>

Live == {"pending", "sent"}

Init ==
  /\ status = [k \in Triggers |-> "absent"]
  /\ delivered = [k \in Triggers |-> 0]

Move(k, from, to) ==
  /\ status[k] \in from
  /\ status' = [status EXCEPT ![k] = to]
  /\ UNCHANGED delivered

Create(k) == Move(k, {"absent"}, "pending")
Send(k) == Move(k, {"pending"}, "sent")
Drop(k) == Move(k, Live, "dropped")
Bury(k) == Move(k, Live, "dead")
Ack(k) == delivered[k] > 0 /\ Move(k, Live, "acked")

(* A failed run reverts one row; a sweep and a boot revert many at once.   *)
Revert(ks) ==
  /\ \A k \in ks : status[k] \in Live
  /\ status' = [k \in Triggers |-> IF k \in ks THEN "pending" ELSE status[k]]
  /\ UNCHANGED delivered

Deliver(k) ==
  /\ status[k] \in Live
  /\ delivered' = [delivered EXCEPT ![k] = @ + 1]
  /\ UNCHANGED status

Next ==
  \/ \E k \in Triggers :
       Create(k) \/ Send(k) \/ Drop(k) \/ Bury(k) \/ Ack(k) \/ Deliver(k)
  \/ \E ks \in SUBSET Triggers : Revert(ks)

Spec == Init /\ [][Next]_vars
=============================================================================
