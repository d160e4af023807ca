----------------------------- MODULE JobLifecycle -----------------------------
(***************************************************************************)
(* What the subagent ledger promises about one job, whoever moves it: it   *)
(* is asked for or appears already started, starts at most once, ends once *)
(* for good, and the owner is told of it at most once and never while it   *)
(* still waits for its subagent.                                           *)
(***************************************************************************)
EXTENDS Naturals

CONSTANT Jobs

VARIABLES
  status,   \* per job, the column subagent_jobs.status
  told      \* per job, the messages the owner has received about it

vars == <<status, told>>

Init ==
  /\ status = [k \in Jobs |-> "absent"]
  /\ told = [k \in Jobs |-> 0]

Move(k, from, to) ==
  /\ status[k] = from
  /\ status' = [status EXCEPT ![k] = to]
  /\ UNCHANGED told

Ask(k) == Move(k, "absent", "requested")
Appear(k) == Move(k, "absent", "started")
Start(k) == Move(k, "requested", "started")
Withdraw(k) == Move(k, "requested", "stopped") \/ Move(k, "requested", "error")
Finish(k) == \E to \in {"completed", "stopped"} : Move(k, "started", to)

(* A boot: what ran is interrupted, what waited too long is dropped.       *)
Recover(stale) ==
  /\ \A k \in stale : status[k] = "requested"
  /\ status' = [k \in Jobs |->
                  IF status[k] = "started" THEN "interrupted"
                  ELSE IF k \in stale THEN "dropped"
                  ELSE status[k]]
  /\ UNCHANGED told

Tell(k) ==
  /\ status[k] \notin {"absent", "requested"}
  /\ told[k] = 0
  /\ told' = [told EXCEPT ![k] = 1]
  /\ UNCHANGED status

Next ==
  \/ \E k \in Jobs :
       Ask(k) \/ Appear(k) \/ Start(k) \/ Withdraw(k) \/ Finish(k) \/ Tell(k)
  \/ \E stale \in SUBSET Jobs : Recover(stale)

Spec == Init /\ [][Next]_vars
=============================================================================
