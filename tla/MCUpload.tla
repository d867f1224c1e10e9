------------------------------- MODULE MCUpload -------------------------------
(* Instances of the upload pipeline for TLC. *)
EXTENDS UploadProperties

CONSTANTS b1, b2

OneBlock  == {b1}
TwoBlocks == {b1, b2}

AllFaults == FaultKind
=============================================================================
