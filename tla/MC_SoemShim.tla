----------------------------- MODULE MC_SoemShim -----------------------------
(* Drives given as model values, each a Xeryon drive with 20 output bytes  *)
(* and 8 input bytes, so that they are interchangeable.                    *)
EXTENDS SoemShim, TLC

MCObytes == [s \in Slaves |-> IO_RX_BYTES]
MCIbytes == [s \in Slaves |-> IO_TX_BYTES]
MCSymmetry == Permutations(Slaves)
=============================================================================
