------------------------------- MODULE MCInput ------------------------------
(* The input loop for TLC.  Mouse and Typing share no variable, so that      *)
(* their product would show nothing more than the two by themselves: a       *)
(* behaviour follows one device.                                             *)
(*                                                                           *)
(* Mouse: a frame uses two packets, drops a third and leaves a fourth; the   *)
(* other limits are those of the code.  Typing: a frame handles MaxEvents    *)
(* events and drops one more, fewer than InputMax characters of it reach     *)
(* nuklear, and MaxLen letters fill a field.                                 *)
EXTENDS Mouse, Typing

VARIABLE device     \* which one the behaviour follows

inputVars == <<device, vars, mouseVars>>

OneDevice ==
    \/ device = "mouse" /\ MouseNext /\ UNCHANGED vars
    \/ device = "keyboard" /\ Next /\ UNCHANGED mouseVars

InputInit ==
    /\ device \in {"mouse", "keyboard"} /\ MouseInit /\ Init
    /\ IF device = "mouse" THEN down = {} ELSE ~held     \* of the other: one state

InputSpec ==
    /\ InputInit
    /\ [][OneDevice /\ UNCHANGED device]_inputVars
    /\ WF_inputVars(device = "mouse" /\ Draw /\ UNCHANGED <<device, vars>>)
=============================================================================
