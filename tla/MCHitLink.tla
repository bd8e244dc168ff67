----------------------------- MODULE MCHitLink -----------------------------
(* An instance of HitLink: two weapons, whose ids may coincide, in part or as  *)
(* a whole.                                                                    *)
EXTENDS HitLink, TLC

CONSTANTS w1, w2, p1, p2

MCPlayerOf == (1 :> p1) @@ (2 :> p2)
MCIds == {[player |-> p1, device |-> 1], [player |-> p2, device |-> 1],
          [player |-> p2, device |-> 2]}
MCMaxShots == (1 :> 4) @@ (2 :> 0)
Symmetry == Permutations(Weapons)
=============================================================================
