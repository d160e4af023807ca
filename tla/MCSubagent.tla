----------------------------- MODULE MCSubagent -----------------------------
(* Agents are interchangeable model values; no symmetry is declared, since *)
(* a liveness property is checked.                                         *)
EXTENDS Subagent

CONSTANT a1

OneAgent == {a1}
=============================================================================
