--------------------------- MODULE MCSha256Buffer ---------------------------
(* The sizes of the code and messages of up to three blocks, in pieces of   *)
(* every size.                                                              *)
EXTENDS Sha256Buffer
=============================================================================
