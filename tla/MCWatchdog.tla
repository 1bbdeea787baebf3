----------------------------- MODULE MCWatchdog -----------------------------
(* An instance of Watchdog for TLC: a keyboard with one Ctrl key, and an event *)
(* queue that a few key strokes overflow.                                      *)
EXTENDS Watchdog

MCAllLockers == {"locker", "tde", "hint"}
=============================================================================
