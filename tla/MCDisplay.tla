----------------------------- MODULE MCDisplay -----------------------------
(* Display has no parameters: TLC explores all of it.                        *)
EXTENDS Display
=============================================================================
