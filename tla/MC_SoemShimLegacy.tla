-------------------------- MODULE MC_SoemShimLegacy --------------------------
(* Two Xeryon drives given as model values, at bus positions 1 and 2.      *)
(* Positions tell the drives apart, so there is no symmetry.               *)
EXTENDS SoemShimLegacy, TLC

CONSTANTS s1, s2

MCObytes == [s \in Slaves |-> 20]
MCIbytes == [s \in Slaves |-> 8]
MCPosition == (s1 :> 1) @@ (s2 :> 2)
=============================================================================
