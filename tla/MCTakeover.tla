----------------------------- MODULE MCTakeover -----------------------------
(* Instances of Takeover for TLC: two consoles in any state, one of them     *)
(* steal_vt's default, and one laptop panel.  The SysRq mask is the one      *)
(* several distributions ship.                                              *)
EXTENDS Takeover

MCVTs == {1, 12}
MCSysRq == {176}
MCDark == {0}
=============================================================================
