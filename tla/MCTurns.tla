------------------------------- MODULE MCTurns -------------------------------
(* A photo, a message of the scheduler and a voice message; or a voice     *)
(* message with a document or another voice message before it.             *)
EXTENDS Turns

CONSTANTS m1, m2, v1
ThreeMessages == {m1, m2, v1}

Mix(first, second) == [m \in ThreeMessages |-> IF m = m1 THEN first
                                               ELSE IF m = m2 THEN second ELSE "voice"]
SomeMixes == {Mix("photo", "scheduled"), Mix("file", "none"), Mix("voice", "none")}
=============================================================================
