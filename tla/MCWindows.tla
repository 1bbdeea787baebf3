----------------------------- MODULE MCWindows -----------------------------
(* Instances of Windows for TLC: two process ids, so that a shell that is     *)
(* left behind can live beside its successor.                                 *)
EXTENDS Windows
=============================================================================
