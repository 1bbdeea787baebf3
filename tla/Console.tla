------------------------------ MODULE Console -------------------------------
(***************************************************************************)
(* What the rescue GUI promises about the console it borrows, whatever the *)
(* system calls and the interleavings by which it is done: the settings    *)
(* are changed only before it serves the user and given back only after,   *)
(* none is changed again once the giving back has begun, and a GUI that    *)
(* ends by itself has given everything back, the screen included, and      *)
(* touches nothing after that.  Module Takeover implements it.             *)
(***************************************************************************)
CONSTANT Settings       \* what is changed besides the screen

VARIABLES
    stage,              \* how far the GUI is
    changed,            \* the settings that differ from what was found
    screen              \* whether the user's console is in the foreground

vars == <<stage, changed, screen>>

Stages == {"taking", "serving", "giving", "refusing", "returned", "refused", "abandoned"}

Init == stage = "taking" /\ changed = {} /\ screen = "user"

\* The console is taken over, one setting after another.
Take ==
    /\ stage = "taking" /\ stage' \in {"taking", "serving"}
    /\ changed \subseteq changed' /\ changed' \subseteq Settings
    /\ screen' \in {"user", "gui"}

\* The console cannot be had: the screen has not been touched.
Refuse ==
    /\ stage = "taking" /\ stage' = "refusing"
    /\ screen = "user"
    /\ UNCHANGED <<changed, screen>>

\* The session: other programs may change the settings too, and the user may
\* choose another console to come home to.
Serve ==
    /\ stage = "serving" /\ stage' \in {"serving", "giving"}
    /\ changed' \subseteq Settings
    /\ screen' \in {"user", "gui"}

\* The start fails after the screen was taken.
Fail == stage = "taking" /\ stage' = "giving" /\ UNCHANGED <<changed, screen>>

\* Nothing is taken again.
GiveBack ==
    /\ stage = "giving" /\ UNCHANGED stage
    /\ changed' \subseteq changed
    /\ screen' \in {screen, "user"}

\* What a refused start has changed may stay changed.
Undo ==
    /\ stage = "refusing" /\ stage' \in {"refusing", "refused"}
    /\ changed' \subseteq changed
    /\ UNCHANGED screen

Return ==
    /\ stage = "giving" /\ stage' = "returned"
    /\ changed = {} /\ screen = "user"
    /\ UNCHANGED <<changed, screen>>

\* A signal: of the settings, nothing is promised any more.
Abandon ==
    /\ stage \notin {"returned", "refused"} /\ stage' = "abandoned"
    /\ changed' \subseteq Settings
    /\ screen' \in {"user", "gui"}

Next == Take \/ Refuse \/ Serve \/ Fail \/ GiveBack \/ Undo \/ Return \/ Abandon

Spec == Init /\ [][Next]_vars
=============================================================================
