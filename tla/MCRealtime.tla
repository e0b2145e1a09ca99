----------------------------- MODULE MCRealtime -----------------------------
(* Small instances of RealtimeSync.                                        *)
EXTENDS RealtimeSync, TLC

Symmetric == Permutations(Socket)
=============================================================================
