------------------------------ MODULE MCBench ------------------------------
(* Bench on small constants for TLC. *)
EXTENDS Bench
CONSTANTS off, porsche

MCInputs == {off}
MCIdents == {porsche}
=============================================================================
