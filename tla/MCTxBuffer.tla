----------------------------- MODULE MCTxBuffer -----------------------------
(* TxBuffer on small constants for TLC. *)
EXTENDS TxBuffer
CONSTANTS off, press, turn, porsche, generic

MCInputs == {off, press, turn}
MCIdents == {porsche, generic}
=============================================================================
