---------------------------- MODULE MCNativeRing ----------------------------
(* TLC instance of NativeRing.                                             *)
EXTENDS NativeLife
=============================================================================
