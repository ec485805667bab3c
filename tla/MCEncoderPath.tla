--------------------------- MODULE MCEncoderPath ---------------------------
(* EncoderPath on small constants for TLC.  The signature of idle axes is   *)
(* the encoder byte as an unsigned byte, here of two bits.                  *)
EXTENDS EncoderPath
CONSTANT porsche

MCIdents == {porsche}
MCAxisSig == [t \in {0} \X {0} \X Encs |-> t[3] % 4]
=============================================================================
