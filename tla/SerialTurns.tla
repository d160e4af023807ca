----------------------------- MODULE SerialTurns -----------------------------
(***************************************************************************)
(* What the conversation store may rely on, whoever speaks: a turn is      *)
(* begun once and ends once; the turns of one chat that are answered under *)
(* its lock are pending one at a time, and none of their rows appears      *)
(* after the end.  A background turn may overlap them and may still get a  *)
(* row when it is complete, but not when it has been interrupted.          *)
(***************************************************************************)
CONSTANTS Turns

VARIABLES
  background,  \* the turns that are not answered under the lock
  turns,       \* per turn, the column turns.status
  said         \* per turn, the roles its rows of conversations have
vars == <<background, turns, said>>

Foreground == Turns \ background

Init ==
  /\ background \in SUBSET Turns
  /\ turns = [m \in Turns |-> "absent"]
  /\ said = [m \in Turns |-> {}]

Begin(m) ==
  /\ turns[m] = "absent"
  /\ m \in Foreground => \A n \in Foreground : turns[n] # "pending"
  /\ turns' = [turns EXCEPT ![m] = "pending"]
  /\ UNCHANGED <<background, said>>

Say(m, role) ==
  /\ turns[m] = "pending" \/ (m \in background /\ turns[m] = "complete")
  /\ said' = [said EXCEPT ![m] = @ \cup {role}]
  /\ UNCHANGED <<background, turns>>

(* A turn ends alone; a death or the end of the daemon ends several.       *)
End(completed, interrupted) ==
  /\ \A m \in completed \cup interrupted : turns[m] = "pending"
  /\ turns' = [m \in Turns |->
                 IF m \in completed THEN "complete"
                 ELSE IF m \in interrupted THEN "interrupted"
                 ELSE turns[m]]
  /\ UNCHANGED <<background, said>>

Next ==
  \/ \E m \in Turns : Begin(m) \/ (\E role \in {"user", "assistant"} : Say(m, role))
  \/ \E completed, interrupted \in SUBSET Turns : End(completed, interrupted)

Spec == Init /\ [][Next]_vars
=============================================================================
