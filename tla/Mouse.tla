-------------------------------- MODULE Mouse -------------------------------
(***************************************************************************)
(* The mouse of the rescue GUI (cad_rescue_gui.c): the packets of          *)
(* /dev/input/mice, read by a loop that draws frames, and the filters that *)
(* decide which presses of the button are clicks.                          *)
(*                                                                         *)
(* A packet tells whether the button is down; each has three bytes and is  *)
(* read whole, so that the accumulator is empty between frames.  The right *)
(* button and the position, but for whether it changed, are left out.      *)
(***************************************************************************)
EXTENDS Integers, Sequences, SequencesExt

CONSTANTS MaxReads,     \* 16: reads a frame uses; it makes one more
          IdleLimit,    \* 5: frames without a packet after which the button is up
          Cooldown,     \* 3: frames without clicks after a window has opened
          QueueLen      \* packets the kernel keeps

ASSUME MouseAssumption ==
    /\ MaxReads \in Nat \ {0} /\ IdleLimit \in Nat /\ Cooldown \in Nat
    /\ QueueLen \in Nat \ {0}

VARIABLES
    held,               \* the button is down
    queue,              \* packets that wait, each with the state of the button
    mouse_btn_left,
    mouse_idle_frames,
    keyboard_active,    \* the mouse is hidden
    ignore_clicks,
    click_cooldown,
    frame_count,        \* its lowest bit, so that every frame is a step
    \* for the properties
    clicks,             \* clicks since the button was last pressed, up to 2
    undisturbed         \* no filter has been at work, and nothing lost, since then

mouseVars == <<held, queue, mouse_btn_left, mouse_idle_frames, keyboard_active, ignore_clicks,
               click_cooldown, frame_count, clicks, undisturbed>>

-----------------------------------------------------------------------------
(* The device, external.  A packet merges with the last one if the button  *)
(* is the same, unless that one's movement needs several reads, or if the  *)
(* queue is full.                                                          *)

Queued(b) ==
    LET merged == [queue EXCEPT ![Len(queue)] = b]
    IN IF Len(queue) = QueueLen THEN {merged}
       ELSE {Append(queue, b)}
            \cup (IF queue # <<>> /\ Last(queue) = b THEN {merged} ELSE {})

\* The button goes down or up.
Button ==
    /\ held' = ~held
    /\ queue' \in Queued(held')
    /\ clicks' = IF held' THEN 0 ELSE clicks
    /\ undisturbed' = (held' \/ undisturbed)
    /\ UNCHANGED <<mouse_btn_left, mouse_idle_frames, keyboard_active, ignore_clicks,
                   click_cooldown, frame_count>>

Move ==
    /\ queue' \in Queued(held)
    /\ UNCHANGED <<held, mouse_btn_left, mouse_idle_frames, keyboard_active, ignore_clicks,
                   click_cooldown, frame_count, clicks, undisturbed>>

-----------------------------------------------------------------------------
(* A frame.                                                                *)

\* The read that finds the limit passed has taken its packet from the queue.
Reads == IF Len(queue) > MaxReads THEN MaxReads ELSE Len(queue)
Lost == Len(queue) > MaxReads
Remaining == IF Lost THEN SubSeq(queue, MaxReads + 2, Len(queue)) ELSE <<>>

\* The button after the packets of the frame; before it, mouse_btn_left is what the
\* last frame made of it.
ButtonRead == IF queue = <<>> THEN mouse_btn_left ELSE queue[Reads]

\* Mutant: silence means nothing.
SilentForever(idle) == FALSE

\* After a while without packets the button counts as up.
Silent(idle) == idle > IdleLimit

\* Mutant: prev_mouse_btn_left is not kept.
ForgottenEdge(btn, prev) == btn

\* A click is a button that was up in the last frame.
Edge(btn, prev) == btn /\ ~prev

\* One frame of the cooldown has passed.
Cooled == IF click_cooldown > 0 THEN click_cooldown - 1 ELSE 0

\* The rest of the frame may use the keyboard (key), and open a window (opens).
MouseFrame(moved, key, opens) ==
    LET idle == IF queue # <<>> THEN 0
                ELSE IF mouse_idle_frames > IdleLimit THEN mouse_idle_frames
                ELSE mouse_idle_frames + 1
        btn == ButtonRead /\ ~Silent(idle)
        prev == mouse_btn_left /\ ~Silent(idle)
        awoken == keyboard_active /\ (moved \/ btn # prev)
        ignoring == ignore_clicks \/ (awoken /\ btn)
        cooling == click_cooldown > 0
        seen == btn /\ ~ignoring /\ ~cooling
        click == Edge(seen, prev /\ ~cooling)
    IN /\ moved => queue # <<>>
       /\ queue' = Remaining
       /\ mouse_idle_frames' = idle
       /\ mouse_btn_left' = seen
       /\ keyboard_active' = ((keyboard_active /\ ~awoken) \/ key)
       /\ ignore_clicks' = (ignoring /\ btn)
       /\ click_cooldown' = IF opens THEN Cooldown ELSE Cooled
       /\ clicks' = IF click /\ clicks < 2 THEN clicks + 1 ELSE clicks
       /\ undisturbed' = (undisturbed /\ ~Silent(idle) /\ ~ignoring /\ ~cooling /\ ~Lost)
       /\ frame_count' = (frame_count + 1) % 2
       /\ UNCHANGED held

Draw == \E moved, key, opens \in BOOLEAN : MouseFrame(moved, key, opens)

-----------------------------------------------------------------------------
MouseInit ==
    /\ held \in BOOLEAN /\ queue = <<>>
    /\ mouse_btn_left = FALSE /\ mouse_idle_frames = 0
    /\ keyboard_active = TRUE /\ ignore_clicks = FALSE /\ click_cooldown = 0
    /\ frame_count = 0 /\ clicks = 0 /\ undisturbed = TRUE

MouseNext == Button \/ Move \/ Draw

MouseSpec == MouseInit /\ [][MouseNext]_mouseVars

\* The loop goes on drawing.
MouseFairSpec == MouseSpec /\ WF_mouseVars(Draw)

-----------------------------------------------------------------------------
(* Properties.                                                             *)

MouseTypeOK ==
    /\ held \in BOOLEAN
    /\ queue \in Seq(BOOLEAN) /\ Len(queue) <= QueueLen
    /\ mouse_btn_left \in BOOLEAN
    /\ mouse_idle_frames \in 0..(IdleLimit + 1)
    /\ keyboard_active \in BOOLEAN /\ ignore_clicks \in BOOLEAN
    /\ click_cooldown \in 0..Cooldown /\ frame_count \in 0..1
    /\ clicks \in 0..2 /\ undisturbed \in BOOLEAN

\* One press of the button is one click, unless a filter has set the flag to up while
\* the button was down, or a packet was lost: the filters against ghost clicks are the
\* only source of them.
OneClickPerPress == undisturbed => clicks <= 1

\* A button that was let go is seen as up, even if the packet that said so was the one
\* too many of its frame and the mouse does not move again.
ButtonComesUp == ~held ~> (held \/ (~mouse_btn_left /\ ~ignore_clicks))
=============================================================================
