---------------------------- MODULE MCRenderDoc ----------------------------
(* Three renders, the first two under one suggested name.                  *)
EXTENDS RenderDoc

CONSTANTS r1, r2, r3, report, table

MCRenders == {r1, r2, r3}
MCNames == {report, table}
MCNameOf == [r \in MCRenders |-> IF r = r3 THEN table ELSE report]
=============================================================================
