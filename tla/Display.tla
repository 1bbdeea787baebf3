------------------------------- MODULE Display -------------------------------
(***************************************************************************)
(* The screen of the rescue GUI (cad_rescue_gui.c): the second half of     *)
(* init_drm builds two dumb buffers, or falls back to one; the render loop *)
(* draws into the buffer that is not shown and flips, or falls back to     *)
(* drawing in place; execute_sleep sets the mode again after a suspend;    *)
(* cleanup_drm gives everything back.  Any ioctl may fail.                 *)
(*                                                                         *)
(* The kernel's side (objects, CRTC, pending flip) is external.            *)
(***************************************************************************)
EXTENDS Naturals

Bufs    == {0, 1}
Desktop == 2        \* the CRTC shows the framebuffer it had before
Off     == 3        \* the CRTC shows nothing
NoFlip  == 4        \* no page flip is pending

VARIABLES
    pc, i,           \* the next step, and the loop variable of init_drm
    handle, fb_id,   \* the indices at which drm.handle[], drm.fb_id[] are not 0
    buffer,          \* drm.buffer[]: NULL, mapped, or MAP_FAILED
    double_buffered, \* drm.double_buffered
    saved_crtc,      \* drm.saved_crtc: unset, or whether it holds a mode
    front_buf, back_buf,
    frame_count,     \* 1, or 2 for any later frame
    running,
    missed,          \* 1 when the last SETCRTC of the render loop failed
    dumbs, fbs, maps,\* kernel objects the process has
    crtc, pending    \* what the CRTC shows, and the flip to come

drmVars   == <<handle, fb_id, buffer, double_buffered, saved_crtc>>
frameVars == <<front_buf, back_buf, frame_count, running, missed>>
objVars   == <<dumbs, fbs, maps>>
vars      == <<pc, i, drmVars, frameVars, objVars, crtc, pending>>

Steps == {"create", "addfb", "map", "mmap", "save", "setcrtc", "frame", "draw",
          "present", "restore", "release", "closed"}

Goto(a, b) == pc = a /\ pc' = b

-----------------------------------------------------------------------------
(* The kernel.                                                             *)

\* Setting the mode waits for a pending flip and replaces it.
SETCRTC(b) == crtc' = b /\ pending' = NoFlip

VBlank ==
    /\ pending # NoFlip
    /\ SETCRTC(pending)
    /\ UNCHANGED <<pc, i, drmVars, frameVars, objVars>>

\* What will be on the screen once a pending flip is done.
Shown == IF pending = NoFlip THEN crtc ELSE pending

-----------------------------------------------------------------------------
(* init_drm, from the buffers on.                                          *)

\* What a failure for buffer i leads to: without the second buffer the GUI
\* runs on the first; without the first it gives up.
FailedBuffer(here) == Goto(here, IF i = 1 THEN "save" ELSE "restore")

CreateDumb ==
    /\ \/ /\ Goto("create", "addfb")
          /\ handle' = handle \cup {i}
          /\ dumbs' = dumbs \cup {i}
          /\ UNCHANGED double_buffered
       \/ /\ FailedBuffer("create")
          /\ double_buffered' = IF i = 1 THEN 0 ELSE double_buffered
          /\ UNCHANGED <<handle, dumbs>>
    /\ UNCHANGED <<i, fb_id, buffer, saved_crtc, frameVars, fbs, maps, crtc, pending>>

\* Mutant: the loop still believes in two buffers.
DropSecondDouble ==
    /\ handle' = handle \ {1}
    /\ fb_id' = fb_id \ {1}
    /\ dumbs' = dumbs \ {1}
    /\ fbs' = fbs \ {1}
    /\ UNCHANGED double_buffered

\* Mutant: the fields are cleared without RMFB.
DropSecondForgets ==
    /\ handle' = handle \ {1}
    /\ fb_id' = fb_id \ {1}
    /\ double_buffered' = 0
    /\ dumbs' = dumbs \ {1}
    /\ UNCHANGED fbs

\* Gives back buffer 1 after a failure, as far as it was built.
DropSecond ==
    /\ handle' = handle \ {1}
    /\ fb_id' = fb_id \ {1}
    /\ double_buffered' = 0
    /\ dumbs' = dumbs \ {1}
    /\ fbs' = fbs \ {1}

Keep == UNCHANGED <<handle, fb_id, double_buffered, dumbs, fbs>>

AddFb ==
    /\ \/ /\ Goto("addfb", "map")
          /\ fb_id' = fb_id \cup {i}
          /\ fbs' = fbs \cup {i}
          /\ UNCHANGED <<handle, double_buffered, dumbs>>
       \/ /\ FailedBuffer("addfb")
          /\ IF i = 1 THEN DropSecond ELSE Keep
    /\ UNCHANGED <<i, buffer, saved_crtc, frameVars, maps, crtc, pending>>

MapDumb ==
    /\ \/ Goto("map", "mmap") /\ Keep
       \/ FailedBuffer("map") /\ IF i = 1 THEN DropSecond ELSE Keep
    /\ UNCHANGED <<i, buffer, saved_crtc, frameVars, maps, crtc, pending>>

\* The failed second mapping stays MAP_FAILED.
Mmap ==
    /\ \/ /\ Goto("mmap", IF i = 0 THEN "create" ELSE "save")
          /\ buffer' = [buffer EXCEPT ![i] = "mapped"]
          /\ maps' = maps \cup {i}
          /\ i' = 1
          /\ Keep
       \/ /\ FailedBuffer("mmap")
          /\ buffer' = [buffer EXCEPT ![i] = "MAP_FAILED"]
          /\ IF i = 1 THEN DropSecond ELSE Keep
          /\ UNCHANGED <<i, maps>>
    /\ UNCHANGED <<saved_crtc, frameVars, crtc, pending>>

\* GETCRTC; when it fails only the id is set and there is no mode.
SaveCrtc ==
    /\ Goto("save", "setcrtc")
    /\ saved_crtc' \in {"no mode", IF crtc = Off THEN "no mode" ELSE "mode"}
    /\ UNCHANGED <<i, handle, fb_id, buffer, double_buffered, frameVars, objVars, crtc,
                   pending>>

SetCrtc ==
    /\ \/ Goto("setcrtc", "frame") /\ SETCRTC(0)
       \/ Goto("setcrtc", "restore") /\ UNCHANGED <<crtc, pending>>
    /\ UNCHANGED <<i, drmVars, frameVars, objVars>>

-----------------------------------------------------------------------------
(* The render loop.                                                        *)

\* The top of the loop chooses the buffer to draw into.
BeginFrame ==
    /\ running = 1
    /\ Goto("frame", "draw")
    /\ back_buf' = IF double_buffered = 1 THEN 1 - front_buf ELSE 0
    /\ UNCHANGED <<i, drmVars, front_buf, frame_count, running, missed, objVars, crtc, pending>>

Draw ==
    /\ Goto("draw", "present")
    /\ UNCHANGED <<i, drmVars, frameVars, objVars, crtc, pending>>

\* The user's choices, made while the frame is drawn: running = 0, or
\* execute_sleep(fb_id[front_buf]), whose SETCRTC may fail twice.
Leave ==
    /\ pc = "draw"
    /\ running' = 0
    /\ UNCHANGED <<pc, i, drmVars, front_buf, back_buf, frame_count, missed, objVars, crtc,
                   pending>>

execute_sleep ==
    /\ pc = "draw"
    /\ front_buf \in fb_id
    /\ SETCRTC(front_buf)
    /\ UNCHANGED <<pc, i, drmVars, frameVars, objVars>>

\* Mutant: the buffers do not change roles.
EndFrameSame ==
    /\ pc = "present"
    /\ pc' = IF running = 1 THEN "frame" ELSE "restore"
    /\ frame_count' = 2
    /\ UNCHANGED <<i, handle, fb_id, buffer, saved_crtc, front_buf, back_buf, running,
                   objVars>>

\* front_buf = back_buf, and around the loop or out of it.
EndFrame ==
    /\ pc = "present"
    /\ pc' = IF running = 1 THEN "frame" ELSE "restore"
    /\ front_buf' = back_buf
    /\ frame_count' = 2
    /\ UNCHANGED <<i, handle, fb_id, buffer, saved_crtc, back_buf, running, objVars>>

\* SETCRTC on the first frame, its result ignored.
PresentFirst ==
    /\ double_buffered = 1 /\ frame_count = 1
    /\ EndFrame
    /\ \/ SETCRTC(back_buf) /\ missed' = 0
       \/ UNCHANGED <<crtc, pending>> /\ missed' = 1
    /\ UNCHANGED double_buffered

\* A page flip takes effect at the next vertical blank.
PageFlip ==
    /\ double_buffered = 1 /\ frame_count # 1
    /\ pending = NoFlip
    /\ EndFrame
    /\ pending' = back_buf
    /\ missed' = 0
    /\ UNCHANGED <<double_buffered, crtc>>

\* It fails, for one when the last one is still pending (EBUSY): single buffer
\* from now on, with the CRTC forced to buffer 0.
PageFlipFails ==
    /\ double_buffered = 1 /\ frame_count # 1
    /\ EndFrame
    /\ double_buffered' = 0
    /\ \/ SETCRTC(0) /\ missed' = 0
       \/ UNCHANGED <<crtc, pending>> /\ missed' = 1

\* DIRTYFB on buffer 0.
PresentSingle ==
    /\ double_buffered = 0
    /\ EndFrame
    /\ UNCHANGED <<double_buffered, missed, crtc, pending>>

-----------------------------------------------------------------------------
(* cleanup_drm.                                                            *)

\* SETCRTC of what GETCRTC returned.  GETCRTC leaves the list of connectors
\* empty, and the kernel refuses a mode without connectors (EINVAL).
RestoreCrtc ==
    /\ Goto("restore", "release")
    /\ IF saved_crtc = "no mode" THEN SETCRTC(Off) ELSE UNCHANGED <<crtc, pending>>
    /\ UNCHANGED <<i, drmVars, frameVars, objVars>>

\* munmap, RMFB and DESTROY_DUMB of what the fields name, then close.  The
\* CRTC is switched off with the framebuffer it shows.
ReleaseBuffers ==
    /\ Goto("release", "closed")
    /\ maps' = maps \ {b \in Bufs : buffer[b] = "mapped"}
    /\ fbs' = fbs \ fb_id
    /\ dumbs' = dumbs \ handle
    /\ buffer' = [b \in Bufs |-> "NULL"]
    /\ fb_id' = {}
    /\ handle' = {}
    /\ SETCRTC(IF Shown \in fbs THEN Off ELSE Shown)
    /\ UNCHANGED <<i, double_buffered, saved_crtc, frameVars>>

-----------------------------------------------------------------------------
Init ==
    /\ pc = "create" /\ i = 0
    /\ handle = {} /\ fb_id = {}
    /\ buffer = [b \in Bufs |-> "NULL"]
    /\ double_buffered = 1
    /\ saved_crtc = "unset"
    /\ front_buf = 0 /\ back_buf = 0
    /\ frame_count = 1 /\ running = 1 /\ missed = 0
    /\ dumbs = {} /\ fbs = {} /\ maps = {}
    /\ crtc \in {Desktop, Off}
    /\ pending = NoFlip

init_drm == CreateDumb \/ AddFb \/ MapDumb \/ Mmap \/ SaveCrtc \/ SetCrtc

Present == PresentFirst \/ PageFlip \/ PageFlipFails \/ PresentSingle

cleanup_drm == RestoreCrtc \/ ReleaseBuffers

Done == pc = "closed" /\ UNCHANGED vars

Next ==
    \/ init_drm \/ BeginFrame \/ Draw \/ Leave \/ execute_sleep \/ Present
    \/ cleanup_drm \/ VBlank \/ Done

Spec == Init /\ [][Next]_vars

-----------------------------------------------------------------------------
\* The variables keep the types of drm and of the kernel's side.
TypeOK ==
    /\ pc \in Steps
    /\ i \in Bufs
    /\ handle \subseteq Bufs /\ fb_id \subseteq Bufs
    /\ buffer \in [Bufs -> {"NULL", "mapped", "MAP_FAILED"}]
    /\ double_buffered \in {0, 1}
    /\ saved_crtc \in {"unset", "mode", "no mode"}
    /\ front_buf \in Bufs /\ back_buf \in Bufs
    /\ frame_count \in {1, 2} /\ running \in {0, 1} /\ missed \in {0, 1}
    /\ dumbs \subseteq Bufs /\ fbs \subseteq Bufs /\ maps \subseteq Bufs
    /\ crtc \in Bufs \cup {Desktop, Off}
    /\ pending \in Bufs \cup {NoFlip}

\* The render loop never draws through a pointer that is not a mapping (NULL or
\* MAP_FAILED), whichever step failed for the second buffer and whenever the
\* loop fell back to a single one.
DrawsMapped == pc \in {"draw", "present"} => back_buf \in maps

\* Every way through init_drm and the loop ends with all dumb buffers,
\* framebuffers and mappings released by cleanup_drm.
AllReleased == pc = "closed" => dumbs = {} /\ fbs = {} /\ maps = {}

\* With two buffers the frame is not drawn into the one on its way to the
\* screen, also after a suspend, unless the last SETCRTC failed.
OffScreenDrawing ==
    pc = "draw" /\ double_buffered = 1 /\ missed = 0 => Shown # back_buf

=============================================================================
