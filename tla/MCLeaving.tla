----------------------------- MODULE MCLeaving -----------------------------
(* Leaving needs no definitions for TLC: its constants are numbers.          *)
EXTENDS Leaving
=============================================================================
