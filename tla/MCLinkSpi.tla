----------------------------- MODULE MCLinkSpi -----------------------------
(* LinkSpi on small constants for TLC. *)
EXTENDS LinkSpi
CONSTANTS off, press, porsche

MCInputs == {off, press}
MCIdents == {porsche}
=============================================================================
