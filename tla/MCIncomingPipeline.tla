------------------------- MODULE MCIncomingPipeline -------------------------
(* The instances of IncomingPipeline that TLC checks. *)
EXTENDS IncomingPipeline

MsgSymmetry == Permutations(Msg)
=============================================================================
