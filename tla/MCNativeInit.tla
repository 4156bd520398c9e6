----------------------------- MODULE MCNativeInit -----------------------------
(* NativeInit with every step of the code, for TLC.                        *)
EXTENDS NativeInit
=============================================================================
