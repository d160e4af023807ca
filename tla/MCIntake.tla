------------------------------ MODULE MCIntake ------------------------------
(* An album of three photos, one too many, another of one, a text or link, *)
(* and one upload of any other kind.                                       *)
EXTENDS Intake, TLC

CONSTANTS a1, a2, a3, b1, t1, o1, ga, gb

MCTexts == {t1}
MCPhotos == {a1, a2, a3, b1}
MCOthers == {o1}
MCGroups == {ga, gb}
MCGroupOf == (a1 :> ga) @@ (a2 :> ga) @@ (a3 :> ga) @@ (b1 :> gb)
Alike == Permutations({a1, a2, a3})
=============================================================================
