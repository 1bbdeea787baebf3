------------------------------- MODULE MCAuth -------------------------------
(* Auth is finite as it stands: nothing has to be bounded for TLC.           *)
EXTENDS Auth
=============================================================================
