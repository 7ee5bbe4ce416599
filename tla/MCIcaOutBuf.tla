----------------------------- MODULE MCIcaOutBuf ------------------------------
(* IcaOutBuf for TLC: two writers and up to three ordinary buffers, so that  *)
(* the low water mark lies below, at and above the limit and both writers    *)
(* may wait at once.                                                         *)
EXTENDS IcaOutBufProps
=============================================================================
