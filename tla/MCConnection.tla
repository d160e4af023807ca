---------------------------- MODULE MCConnection ----------------------------
(* A call of append, one that ends a turn, one that marks a trigger and    *)
(* two start hooks of one agent, beside the loop.                          *)
EXTENDS Connection
=============================================================================
