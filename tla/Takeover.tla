------------------------------ MODULE Takeover ------------------------------
(***************************************************************************)
(* The life of one rescue GUI process (cad_rescue_gui.c): it saves and     *)
(* changes the state of the console (kernel log level, SysRq, backlight,   *)
(* foreground virtual terminal, text/graphics mode of its own VT), runs,   *)
(* and must give all of it back, whichever way it ends: restore_vt() on a  *)
(* return of main, emergency_restore() on a signal whose handler main      *)
(* installed.                                                              *)
(*                                                                         *)
(* Every system call that changes the console is one step, so that a       *)
(* signal, the kernel's deferred console switch and the desktop's          *)
(* cooperation can come between any two of them.  The kernel part          *)
(* (VT_ACTIVATE, VT_WAITACTIVE, KDSETMODE) is external.                    *)
(***************************************************************************)
EXTENDS Integers, FiniteSets

CONSTANTS VTs,            \* the virtual terminals of the machine
          DefaultVT,      \* steal_vt's fallback when VT_OPENQRY fails (12)
          SysRqValues,    \* values /proc/sys/kernel/sysrq may have at start
          Backlights,     \* the devices under /sys/class/backlight
          MaxBacklights,  \* MAX_BACKLIGHTS, the size of the saved table (4)
          MaxBrightness,  \* max_brightness of every device
          Levels,         \* brightness a device may have at start
          MaxSignals      \* bound: handled signals delivered to one process

NoVT == -1                \* journal.original_vt and rescue_vt before they are set

ASSUME TakeoverAssumption ==
    /\ VTs \subseteq (Nat \ {0})
    /\ DefaultVT \in VTs
    /\ SysRqValues \subseteq Nat
    /\ IsFiniteSet(Backlights)
    /\ MaxBacklights \in Nat
    /\ MaxBrightness \in Nat \ {0}
    /\ Levels \subseteq 0..MaxBrightness
    /\ MaxSignals \in Nat

VARIABLES
    \* the process
    pc,             \* its next step
    rc,             \* the status main returns: 0, or 1 after a failed start
    sigs,           \* handled signals delivered so far
    sigInWait,      \* the first handled signal came in steal_vt's VT_WAITACTIVE
    exit,           \* how the process ended
    original_vt,    \* recovery_journal_t.original_vt
    rescue_vt,      \* recovery_journal_t.rescue_vt
    tty_fd,         \* recovery_journal_t.tty_fd
    ttyVT,          \* the VT that descriptor denotes
    rescue_tty_fd,  \* recovery_journal_t.rescue_tty_fd
    drm_fd,         \* recovery_journal_t.drm_fd
    vt_restored,    \* the once-only flag of restore_vt
    saved_sysrq,    \* -1 when there is nothing to restore
    tracked,        \* the devices entered in backlights[]
    saved,          \* saved_brightness of each tracked device
    enforced,       \* enforced_brightness of each tracked device
    \* the machine
    fg,             \* the foreground VT
    want,           \* console switch the kernel's worker has still to do
    release,        \* switch that waits for the foreground desktop's VT_RELDISP
    kd,             \* text or graphics mode of every VT
    owner,          \* the VT_PROCESS owner of every VT
    sysrq, klog, brightness,
    before          \* the console as the process found it

procVars    == <<pc, rc, sigs, sigInWait, exit>>
journalVars == <<original_vt, rescue_vt, tty_fd, ttyVT, rescue_tty_fd, drm_fd,
                 vt_restored>>
savedVars   == <<saved_sysrq, tracked, saved, enforced>>
vtVars      == <<fg, want, release, kd, owner>>
hwVars      == <<sysrq, klog, brightness>>
vars        == <<procVars, journalVars, savedVars, vtVars, hwVars, before>>

Starting   == {"klog", "handlers"}
TakingOver == {"sysrq_read", "sysrq_write", "backlight", "open_tty0", "getstate",
               "openqry", "open_rescue", "activate", "wait_rescue"}
Owning     == {"graphics", "scan", "buffers", "rawfb", "input", "running",
               "close_input", "cleanup_drm"}
Restoring  == {"restore", "r_text", "r_close", "r_klog", "r_activate", "r_wait",
               "r_backlight", "r_sysrq", "r_tty", "return"}
Emergency  == {"e_rescue", "e_tty", "e_activate", "e_sysrq"}
Steps      == Starting \cup TakingOver \cup Owning \cup Restoring \cup Emergency
                 \cup {"exited"}

\* A descriptor of the journal: -1, open, or closed but not set back to -1.
FdStates == {"none", "open", "stale"}

-----------------------------------------------------------------------------
(* The kernel's console, external: how VT_ACTIVATE ends up in a switch.    *)

\* set_console() ignores a request while the foreground VT is in graphics
\* mode and nobody owns it (VT_AUTO); VT_ACTIVATE reports success all the same.
VT_ACTIVATE(v) ==
    want' = IF kd[fg] = "graphics" /\ owner[fg] = "none" THEN want ELSE v

KDSETMODE(v, mode) == kd' = [kd EXCEPT ![v] = mode]

\* Completing a switch resets any VT involved whose owner has died.
SwitchTo(v) ==
    /\ fg' = v
    /\ LET dead == {u \in {fg, v} : owner[u] = "dead"}
       IN /\ kd' = [u \in VTs |-> IF u \in dead THEN "text" ELSE kd[u]]
          /\ owner' = [u \in VTs |-> IF u \in dead THEN "none" ELSE owner[u]]

\* The console worker takes the last requested switch.  A desktop in
\* VT_PROCESS mode is asked to release the screen first.
ConsoleWorker ==
    /\ want # NoVT
    /\ want' = NoVT
    /\ \/ /\ want = fg
          /\ UNCHANGED <<fg, release, kd, owner>>
       \/ /\ want # fg /\ owner[fg] \in {"live", "frozen"}
          /\ release' = want
          /\ UNCHANGED <<fg, kd, owner>>
       \/ /\ want # fg /\ owner[fg] \in {"none", "dead"}
          /\ SwitchTo(want)
          /\ UNCHANGED release
    /\ UNCHANGED <<procVars, journalVars, savedVars, hwVars, before>>

\* A live desktop answers the release signal (VT_RELDISP).
DesktopReleases ==
    /\ release # NoVT
    /\ owner[fg] = "live"
    /\ SwitchTo(release)
    /\ release' = NoVT
    /\ UNCHANGED <<procVars, journalVars, savedVars, want, hwVars, before>>

\* The desktop of a VT dies: a crash, or a kill from the task manager.  A
\* release it still owed is never answered.
DesktopDies(v) ==
    /\ owner[v] \in {"live", "frozen"}
    /\ owner' = [owner EXCEPT ![v] = "dead"]
    /\ UNCHANGED <<procVars, journalVars, savedVars, fg, want, release, kd, hwVars,
                   before>>

\* Some other program dims a screen while the rescue GUI shows on it.
SomeoneDims(d) ==
    /\ pc = "running"
    /\ brightness' = [brightness EXCEPT ![d] = 0]
    /\ UNCHANGED <<procVars, journalVars, savedVars, vtVars, sysrq, klog,
                   before>>

Environment ==
    \/ ConsoleWorker
    \/ DesktopReleases
    \/ \E v \in VTs : DesktopDies(v)
    \/ \E d \in Backlights : SomeoneDims(d)

-----------------------------------------------------------------------------
(* main, up to the takeover of the VT.                                     *)

Goto(a, b) == pc = a /\ pc' = b

\* A start that fails makes main return 1.
Fail(a, b) == Goto(a, b) /\ rc' = 1

\* klogctl(6): no kernel messages on the console.
MuteKernelLog ==
    /\ Goto("klog", "handlers")
    /\ klog' = "muted"
    /\ UNCHANGED <<rc, sigs, sigInWait, exit, journalVars, savedVars, vtVars, sysrq,
                   brightness, before>>

\* atexit(restore_vt) and the sigactions: from here on signals are handled.
InstallHandlers ==
    /\ Goto("handlers", "sysrq_read")
    /\ UNCHANGED <<rc, sigs, sigInWait, exit, journalVars, savedVars, vtVars, hwVars, before>>

\* disable_sysrq: nothing is written when the value cannot be read.
ReadSysRq ==
    /\ \/ /\ Goto("sysrq_read", "sysrq_write")
          /\ saved_sysrq' = sysrq
       \/ /\ Goto("sysrq_read", "backlight")
          /\ UNCHANGED saved_sysrq
    /\ UNCHANGED <<rc, sigs, sigInWait, exit, journalVars, tracked, saved, enforced, vtVars,
                   hwVars, before>>

WriteSysRq ==
    /\ Goto("sysrq_write", "backlight")
    /\ sysrq' = 0
    /\ UNCHANGED <<rc, sigs, sigInWait, exit, journalVars, savedVars, vtVars, klog, brightness,
                   before>>

IsDark(b) == b <= MaxBrightness \div 20

SafeLevel == IF MaxBrightness \div 3 = 0 THEN 1 ELSE MaxBrightness \div 3

EnforcedLevel(b) == IF IsDark(b) THEN SafeLevel ELSE b

\* The devices whose two files can be read enter the table until it is full.
force_backlight ==
    /\ Goto("backlight", "open_tty0")
    /\ \E T \in SUBSET Backlights :
          /\ Cardinality(T) <= MaxBacklights
          /\ tracked' = T
          /\ saved' = brightness
          /\ enforced' = [d \in Backlights |->
                            IF d \in T THEN EnforcedLevel(brightness[d]) ELSE 0]
          /\ brightness' = [d \in Backlights |->
                             IF d \in T THEN EnforcedLevel(brightness[d])
                                        ELSE brightness[d]]
    /\ UNCHANGED <<rc, sigs, sigInWait, exit, journalVars, saved_sysrq, vtVars, sysrq, klog,
                   before>>

\* steal_vt: /dev/tty0 is the VT in the foreground when it is opened.
OpenTty0 ==
    /\ \/ /\ Goto("open_tty0", "getstate")
          /\ tty_fd' = "open"
          /\ ttyVT' = fg
          /\ UNCHANGED rc
       \/ /\ Fail("open_tty0", "return")
          /\ UNCHANGED <<tty_fd, ttyVT>>
    /\ UNCHANGED <<sigs, sigInWait, exit, original_vt, rescue_vt, rescue_tty_fd, drm_fd,
                   vt_restored, savedVars, vtVars, hwVars, before>>

\* On failure the descriptor is closed and keeps its number in the journal.
GetState ==
    /\ \/ /\ Goto("getstate", "openqry")
          /\ original_vt' = fg
          /\ UNCHANGED <<rc, tty_fd>>
       \/ /\ Fail("getstate", "return")
          /\ tty_fd' = "stale"
          /\ UNCHANGED original_vt
    /\ UNCHANGED <<sigs, sigInWait, exit, rescue_vt, ttyVT, rescue_tty_fd, drm_fd, vt_restored,
                   savedVars, vtVars, hwVars, before>>

\* VT_OPENQRY answers a VT nobody has open, -1 when there is none, or fails
\* and leaves the default in place.
OpenQry ==
    /\ Goto("openqry", "open_rescue")
    /\ rescue_vt' \in (VTs \ before.inUse) \cup {DefaultVT, NoVT}
    /\ rescue_vt' = NoVT => VTs = before.inUse
    /\ UNCHANGED <<rc, sigs, sigInWait, exit, original_vt, tty_fd, ttyVT, rescue_tty_fd, drm_fd,
                   vt_restored, savedVars, vtVars, hwVars, before>>

OpenRescueTty ==
    /\ Goto("open_rescue", "activate")
    /\ rescue_tty_fd' \in IF rescue_vt = NoVT THEN {"none"} ELSE {"none", "open"}
    /\ UNCHANGED <<rc, sigs, sigInWait, exit, original_vt, rescue_vt, tty_fd, ttyVT, drm_fd,
                   vt_restored, savedVars, vtVars, hwVars, before>>

Stale(fd) == IF fd = "open" THEN "stale" ELSE fd

ActivateRescue ==
    /\ \/ /\ Goto("activate", "wait_rescue")
          /\ rescue_vt # NoVT
          /\ VT_ACTIVATE(rescue_vt)
          /\ UNCHANGED <<rc, tty_fd, rescue_tty_fd>>
       \/ /\ Fail("activate", "return")
          /\ rescue_tty_fd' = Stale(rescue_tty_fd)
          /\ tty_fd' = Stale(tty_fd)
          /\ UNCHANGED want
    /\ UNCHANGED <<sigs, sigInWait, exit, original_vt, rescue_vt, ttyVT, drm_fd, vt_restored,
                   savedVars, fg, release, kd, owner, hwVars, before>>

\* Mutant: waits for the default VT whatever VT_OPENQRY answered.
WaitDefault ==
    /\ Goto("wait_rescue", "graphics")
    /\ fg = DefaultVT
    /\ UNCHANGED <<rc, sigs, sigInWait, exit, journalVars, savedVars, vtVars, hwVars,
                   before>>

\* VT_WAITACTIVE sleeps until the switch has happened.
WaitRescue ==
    /\ Goto("wait_rescue", "graphics")
    /\ fg = rescue_vt
    /\ UNCHANGED <<rc, sigs, sigInWait, exit, journalVars, savedVars, vtVars, hwVars, before>>

\* The rescue VT hides its cursor.  The console is unblanked too (TIOCLINUX), which
\* changes nothing that is modelled: only the backlight darkens a screen here.
GraphicsMode ==
    /\ Goto("graphics", "scan")
    /\ IF rescue_tty_fd = "open" THEN KDSETMODE(rescue_vt, "graphics")
                                 ELSE UNCHANGED kd
    /\ UNCHANGED <<rc, sigs, sigInWait, exit, journalVars, savedVars, fg, want, release, owner,
                   hwVars, before>>

-----------------------------------------------------------------------------
(* The rest of init_drm and of the start.  What the buffers are is the      *)
(* subject of module Display.                                              *)

\* The search for a card with a connected screen; without one, restore_vt.
ScanCards ==
    /\ \/ /\ Goto("scan", "buffers")
          /\ drm_fd' = "open"
          /\ UNCHANGED rc
       \/ /\ Fail("scan", "restore")
          /\ UNCHANGED drm_fd
    /\ UNCHANGED <<sigs, sigInWait, exit, original_vt, rescue_vt, tty_fd, ttyVT, rescue_tty_fd,
                   vt_restored, savedVars, vtVars, hwVars, before>>

\* Dumb buffers, framebuffers and SETCRTC; a failure calls cleanup_drm.
SetupBuffers ==
    /\ \/ Goto("buffers", "rawfb") /\ UNCHANGED rc
       \/ Fail("buffers", "cleanup_drm")
    /\ UNCHANGED <<sigs, sigInWait, exit, journalVars, savedVars, vtVars, hwVars, before>>

\* nk_rawfb_init; a failure returns from main with the card still open.
InitRawfb ==
    /\ \/ Goto("rawfb", "input") /\ UNCHANGED rc
       \/ Fail("rawfb", "return")
    /\ UNCHANGED <<sigs, sigInWait, exit, journalVars, savedVars, vtVars, hwVars, before>>

\* Open and grab the keyboard; the GUI runs without one if it must.  The grab
\* itself is the business of the module Leaving.
GrabInput ==
    /\ Goto("input", "running")
    /\ UNCHANGED <<rc, sigs, sigInWait, exit, journalVars, savedVars, vtVars, hwVars, before>>

-----------------------------------------------------------------------------
(* The running GUI, as far as the console is concerned.                    *)

\* Mutant: keeps the level that was saved, dark as it may be.
maintain_saved ==
    /\ pc = "running"
    /\ brightness' = [d \in Backlights |->
                        IF d \in tracked THEN saved[d] ELSE brightness[d]]
    /\ UNCHANGED <<procVars, journalVars, savedVars, vtVars, sysrq, klog,
                   before>>

\* Mutant: goes on until the screen is given back.
maintain_after ==
    /\ pc \in {"running", "close_input", "cleanup_drm"}
    /\ brightness' = [d \in Backlights |->
                        IF d \in tracked THEN enforced[d] ELSE brightness[d]]
    /\ UNCHANGED <<procVars, journalVars, savedVars, vtVars, sysrq, klog,
                   before>>

\* Every 500 frames each tracked device is put back to its enforced level.
maintain_backlight ==
    /\ pc = "running"
    /\ brightness' = [d \in Backlights |->
                        IF d \in tracked THEN enforced[d] ELSE brightness[d]]
    /\ UNCHANGED <<procVars, journalVars, savedVars, vtVars, sysrq, klog,
                   before>>

\* Cancel, lock, sign out, restart, shut down, run: running = 0.
LeaveLoop ==
    /\ Goto("running", "close_input")
    /\ UNCHANGED <<rc, sigs, sigInWait, exit, journalVars, savedVars, vtVars, hwVars, before>>

\* A session chosen in the switch-user list becomes the VT to return to.
SwitchUser(v) ==
    /\ Goto("running", "close_input")
    /\ original_vt' = v
    /\ UNCHANGED <<rc, sigs, sigInWait, exit, rescue_vt, tty_fd, ttyVT, rescue_tty_fd, drm_fd,
                   vt_restored, savedVars, vtVars, hwVars, before>>

CloseInput ==
    /\ Goto("close_input", "cleanup_drm")
    /\ UNCHANGED <<rc, sigs, sigInWait, exit, journalVars, savedVars, vtVars, hwVars, before>>

cleanup_drm ==
    /\ Goto("cleanup_drm", "restore")
    /\ drm_fd' = "none"
    /\ UNCHANGED <<rc, sigs, sigInWait, exit, original_vt, rescue_vt, tty_fd, ttyVT,
                   rescue_tty_fd, vt_restored, savedVars, vtVars, hwVars, before>>

-----------------------------------------------------------------------------
(* restore_vt and the end of main.                                         *)

\* main returns and atexit calls restore_vt, or _exit(0) after the run command.
Return ==
    /\ \/ Goto("return", "restore") /\ UNCHANGED exit
       \/ Goto("return", "exited") /\ rc = 0 /\ exit' = "normal"
    /\ UNCHANGED <<rc, sigs, sigInWait, journalVars, savedVars, vtVars, hwVars, before>>

\* The atomic test-and-set; only the atexit call can find it set.
restore_vt ==
    /\ vt_restored' = TRUE
    /\ \/ /\ vt_restored
          /\ Goto("restore", "exited")
          /\ exit' = IF rc = 0 THEN "normal" ELSE "failed"
       \/ /\ ~vt_restored
          /\ Goto("restore", "r_text")
          /\ UNCHANGED exit
    /\ UNCHANGED <<rc, sigs, sigInWait, original_vt, rescue_vt, tty_fd, ttyVT, rescue_tty_fd,
                   drm_fd, savedVars, vtVars, hwVars, before>>

\* Mutant: the rescue VT is closed in graphics mode.
RestoreTextSkipped ==
    /\ Goto("r_text", "r_close")
    /\ UNCHANGED <<rc, sigs, sigInWait, exit, journalVars, savedVars, vtVars, hwVars,
                   before>>

\* A VT in text mode is one a user can work with.  KDSKBMODE, the line settings and
\* the reset sequence go to the same terminal right after it: on a free VT they were
\* never changed, on DefaultVT they undo what a desktop had set, as KD_TEXT does.
RestoreText ==
    /\ Goto("r_text", "r_close")
    /\ IF rescue_tty_fd = "open" THEN KDSETMODE(rescue_vt, "text") ELSE UNCHANGED kd
    /\ UNCHANGED <<rc, sigs, sigInWait, exit, journalVars, savedVars, fg, want, release, owner,
                   hwVars, before>>

\* Nothing but the rescue VT is restored when /dev/tty0 could not be opened.
CloseRescueTty ==
    /\ Goto("r_close", IF tty_fd = "none" THEN "return" ELSE "r_klog")
    /\ rescue_tty_fd' = "none"
    /\ UNCHANGED <<rc, sigs, sigInWait, exit, original_vt, rescue_vt, tty_fd, ttyVT, drm_fd,
                   vt_restored, savedVars, vtVars, hwVars, before>>

UnmuteKernelLog ==
    /\ Goto("r_klog", "r_activate")
    /\ klog' = "on"
    /\ UNCHANGED <<rc, sigs, sigInWait, exit, journalVars, savedVars, vtVars, sysrq, brightness,
                   before>>

\* The ioctls fail at once on a descriptor that is already closed.
ActivateOriginal ==
    /\ Goto("r_activate", "r_wait")
    /\ IF tty_fd = "open" THEN VT_ACTIVATE(original_vt) ELSE UNCHANGED want
    /\ UNCHANGED <<rc, sigs, sigInWait, exit, journalVars, savedVars, fg, release, kd, owner,
                   hwVars, before>>

WaitOriginal ==
    /\ Goto("r_wait", "r_backlight")
    /\ tty_fd = "open" => fg = original_vt
    /\ UNCHANGED <<rc, sigs, sigInWait, exit, journalVars, savedVars, vtVars, hwVars, before>>

restore_backlight ==
    /\ Goto("r_backlight", "r_sysrq")
    /\ brightness' = [d \in Backlights |->
                        IF d \in tracked THEN saved[d] ELSE brightness[d]]
    /\ UNCHANGED <<rc, sigs, sigInWait, exit, journalVars, savedVars, vtVars, sysrq, klog,
                   before>>

restore_sysrq ==
    /\ Goto("r_sysrq", "r_tty")
    /\ sysrq' = IF saved_sysrq >= 0 THEN saved_sysrq ELSE sysrq
    /\ UNCHANGED <<rc, sigs, sigInWait, exit, journalVars, savedVars, vtVars, klog, brightness,
                   before>>

\* saved_sysrq = -1, close(tty_fd), tty_fd = -1.
CloseTty ==
    /\ Goto("r_tty", "return")
    /\ saved_sysrq' = -1
    /\ tty_fd' = "none"
    /\ UNCHANGED <<rc, sigs, sigInWait, exit, original_vt, rescue_vt, ttyVT, rescue_tty_fd,
                   drm_fd, vt_restored, tracked, saved, enforced, vtVars, hwVars,
                   before>>

-----------------------------------------------------------------------------
(* Signals.  SEGV, ABRT, TERM, INT, BUS, FPE and ILL run emergency_restore; *)
(* the handler blocks only its own signal, so another one may interrupt it. *)

Handled == pc \notin Starting \cup {"exited"}

Signal ==
    /\ Handled
    /\ sigs < MaxSignals
    /\ sigs' = sigs + 1
    /\ sigInWait' = IF sigs = 0 THEN pc = "wait_rescue" ELSE sigInWait
    /\ pc' = "e_rescue"
    /\ UNCHANGED <<rc, exit, journalVars, savedVars, vtVars, hwVars, before>>

\* A signal with the default action (KILL, HUP, QUIT, or any before the
\* handlers are installed) ends the process where it stands.
Killed ==
    /\ pc # "exited"
    /\ pc' = "exited"
    /\ exit' = "killed"
    /\ UNCHANGED <<rc, sigs, sigInWait, journalVars, savedVars, vtVars, hwVars, before>>

\* Mutant: resets the rescue VT only when there is no tty_fd to use.
EmergencyRescueTextElse ==
    /\ Goto("e_rescue", "e_tty")
    /\ IF rescue_tty_fd = "open" /\ tty_fd = "none"
       THEN KDSETMODE(rescue_vt, "text")
       ELSE UNCHANGED kd
    /\ UNCHANGED <<rc, sigs, sigInWait, exit, journalVars, savedVars, fg, want, release,
                   owner, hwVars, before>>

EmergencyRescueText ==
    /\ Goto("e_rescue", "e_tty")
    /\ IF rescue_tty_fd = "open" THEN KDSETMODE(rescue_vt, "text") ELSE UNCHANGED kd
    /\ UNCHANGED <<rc, sigs, sigInWait, exit, journalVars, savedVars, fg, want, release, owner,
                   hwVars, before>>

\* tty_fd is the VT that was in the foreground when it was opened.
EmergencyTtyText ==
    /\ Goto("e_tty", "e_activate")
    /\ IF tty_fd = "open" THEN KDSETMODE(ttyVT, "text") ELSE UNCHANGED kd
    /\ UNCHANGED <<rc, sigs, sigInWait, exit, journalVars, savedVars, fg, want, release, owner,
                   hwVars, before>>

\* Mutant: asks for the desktop's VT through the rescue descriptor only.
EmergencyActivateRescueOnly ==
    /\ Goto("e_activate", "e_sysrq")
    /\ IF original_vt # NoVT /\ rescue_tty_fd = "open"
       THEN VT_ACTIVATE(original_vt)
       ELSE UNCHANGED want
    /\ UNCHANGED <<rc, sigs, sigInWait, exit, journalVars, savedVars, fg, release, kd,
                   owner, hwVars, before>>

EmergencyActivate ==
    /\ Goto("e_activate", "e_sysrq")
    /\ IF /\ original_vt # NoVT
          /\ tty_fd = "open" \/ (tty_fd = "none" /\ rescue_tty_fd = "open")
       THEN VT_ACTIVATE(original_vt)
       ELSE UNCHANGED want
    /\ UNCHANGED <<rc, sigs, sigInWait, exit, journalVars, savedVars, fg, release, kd, owner,
                   hwVars, before>>

\* One character is written: the last decimal digit of the saved value.
EmergencySysRq ==
    /\ Goto("e_sysrq", "exited")
    /\ sysrq' = IF saved_sysrq >= 0 THEN saved_sysrq % 10 ELSE sysrq
    /\ exit' = "emergency"
    /\ UNCHANGED <<rc, sigs, sigInWait, journalVars, savedVars, vtVars, klog, brightness, before>>

-----------------------------------------------------------------------------
(* The specification.                                                      *)

\* Any console a machine may have when Ctrl-Alt-Del is pressed: some VTs in
\* use, the one in the foreground among them, each with a desktop or a text
\* login; a desktop has its VT in graphics mode and in VT_PROCESS mode.
Init ==
    /\ pc = "klog" /\ rc = 0 /\ sigs = 0 /\ sigInWait = FALSE /\ exit = "none"
    /\ original_vt = NoVT /\ rescue_vt = NoVT
    /\ tty_fd = "none" /\ ttyVT = NoVT /\ rescue_tty_fd = "none" /\ drm_fd = "none"
    /\ vt_restored = FALSE
    /\ saved_sysrq = -1
    /\ tracked = {}
    /\ saved = [d \in Backlights |-> 0]
    /\ enforced = [d \in Backlights |-> 0]
    /\ fg \in VTs
    /\ want = NoVT /\ release = NoVT
    /\ owner \in [VTs -> {"none", "live", "frozen"}]
    /\ kd = [v \in VTs |-> IF owner[v] = "none" THEN "text" ELSE "graphics"]
    /\ sysrq \in SysRqValues
    /\ klog = "on"
    /\ brightness \in [Backlights -> Levels]
    /\ \E U \in SUBSET VTs :
          /\ {fg} \cup {v \in VTs : owner[v] # "none"} \subseteq U
          /\ before = [fg |-> fg, inUse |-> U, kd |-> kd, sysrq |-> sysrq,
                       brightness |-> brightness]

Start ==
    \/ MuteKernelLog \/ InstallHandlers \/ ReadSysRq \/ WriteSysRq
    \/ force_backlight

StealVT ==
    \/ OpenTty0 \/ GetState \/ OpenQry \/ OpenRescueTty \/ ActivateRescue
    \/ WaitRescue \/ GraphicsMode

InitGUI == ScanCards \/ SetupBuffers \/ InitRawfb \/ GrabInput

User == LeaveLoop \/ \E v \in before.inUse : SwitchUser(v)

Leave ==
    \/ CloseInput \/ cleanup_drm \/ Return
    \/ restore_vt \/ RestoreText \/ CloseRescueTty \/ UnmuteKernelLog
    \/ ActivateOriginal \/ WaitOriginal \/ restore_backlight \/ restore_sysrq
    \/ CloseTty

emergency_restore ==
    \/ EmergencyRescueText \/ EmergencyTtyText \/ EmergencyActivate
    \/ EmergencySysRq

Process == Start \/ StealVT \/ InitGUI \/ Leave \/ emergency_restore

Done == pc = "exited" /\ UNCHANGED vars

Next ==
    \/ Process \/ maintain_backlight \/ User
    \/ Signal \/ Killed
    \/ Environment
    \/ Done

Spec == Init /\ [][Next]_vars

\* The scheduler runs the process and the kernel's worker, a live desktop
\* answers, the render loop reaches its 500th frame.  The user, signals and
\* deaths of desktops owe nothing.
FairSpec ==
    /\ Spec
    /\ WF_vars(Process)
    /\ WF_vars(maintain_backlight)
    /\ WF_vars(ConsoleWorker)
    /\ WF_vars(DesktopReleases)

-----------------------------------------------------------------------------
\* The variables keep the types of the journal, the saved settings and the
\* console; no brightness that is written leaves the range of its device.
TypeOK ==
    /\ pc \in Steps
    /\ rc \in {0, 1}
    /\ sigs \in 0..MaxSignals
    /\ sigInWait \in BOOLEAN
    /\ exit \in {"none", "normal", "failed", "emergency", "killed"}
    /\ original_vt \in VTs \cup {NoVT}
    /\ rescue_vt \in VTs \cup {NoVT}
    /\ tty_fd \in FdStates
    /\ ttyVT \in VTs \cup {NoVT}
    /\ rescue_tty_fd \in FdStates
    /\ drm_fd \in {"none", "open"}
    /\ vt_restored \in BOOLEAN
    /\ saved_sysrq \in Nat \cup {-1}
    /\ tracked \subseteq Backlights
    /\ saved \in [Backlights -> 0..MaxBrightness]
    /\ enforced \in [Backlights -> 0..MaxBrightness]
    /\ fg \in VTs
    /\ want \in VTs \cup {NoVT}
    /\ release \in VTs \cup {NoVT}
    /\ kd \in [VTs -> {"text", "graphics"}]
    /\ owner \in [VTs -> {"none", "live", "frozen", "dead"}]
    /\ sysrq \in Nat
    /\ klog \in {"on", "muted"}
    /\ brightness \in [Backlights -> 0..MaxBrightness]
    /\ before \in [fg : VTs, inUse : SUBSET VTs, kd : [VTs -> {"text", "graphics"}],
                   sysrq : Nat, brightness : [Backlights -> 0..MaxBrightness]]

\* The console the user should be looking at when the GUI is gone.
Home == IF original_vt = NoVT THEN before.fg ELSE original_vt

\* No console switch is under way any more.
Settled == want = NoVT /\ release = NoVT

\* restore_vt gives the screen back: when main returns, after a full session
\* or after a start that failed anywhere in init_drm, the desktop's VT (or the
\* one chosen in the switch-user list) is in the foreground and no switch away
\* from it is pending.
ConsoleReturned ==
    exit \in {"normal", "failed"} =>
        fg = Home /\ want \in {NoVT, Home} /\ release \in {NoVT, Home}

\* emergency_restore gives the screen back too.  At any step of main and of
\* restore_vt but one, the switch it requests is not refused by the kernel and
\* ends on the desktop's VT.  (The one is VT_WAITACTIVE: see ScreenComesBack.)
EmergencyReturns ==
    exit = "emergency" /\ ~sigInWait /\ Settled => fg = Home

\* Neither restore_vt nor emergency_restore leaves a dead console: a VT in
\* graphics mode that nobody owns, which the kernel never switches away from.
NoDeadConsole ==
    exit \in {"normal", "failed", "emergency"} =>
        \A v \in VTs : kd[v] = "graphics" => owner[v] # "none"

\* restore_vt brings back what the start changed: SysRq, the kernel log level
\* and the brightness of every tracked device, whether the session ran or the
\* start failed, unless it failed to open /dev/tty0: then nothing is brought back.
FullRestoration ==
    exit = "normal" \/ (exit = "failed" /\ ttyVT # NoVT) =>
        /\ sysrq = before.sysrq
        /\ klog = "on"
        /\ \A d \in tracked : brightness[d] = before.brightness[d]

\* A screen that another program dims is lit again by maintain_backlight.
ScreenStaysLit ==
    \A d \in Backlights :
        (pc = "running" /\ d \in tracked /\ IsDark(brightness[d]))
            ~> (pc # "running" \/ ~IsDark(brightness[d]))

\* A session the user leaves ends, VT_WAITACTIVE of restore_vt included, when
\* the rescue VT was a free one; a handled signal always ends the process.
LeavingCompletes ==
    /\ (pc = "close_input" /\ owner[rescue_vt] = "none") ~> pc = "exited"
    /\ pc = "e_rescue" ~> pc = "exited"

-----------------------------------------------------------------------------
(* The promise of module Console.                                           *)

Stage ==
    IF pc \in Emergency \/ exit \in {"emergency", "killed"} THEN "abandoned"
    ELSE IF exit \in {"normal", "failed"}
         THEN IF original_vt = NoVT THEN "refused" ELSE "returned"
    ELSE IF pc \in Restoring \cup {"close_input", "cleanup_drm"}
         THEN IF original_vt = NoVT THEN "refusing" ELSE "giving"
    ELSE IF pc = "running" THEN "serving" ELSE "taking"

Settings == {"sysrq", "klog", "backlight"}

\* The settings that are not as the process found them.
Changed ==
    {s \in Settings :
        \/ s = "sysrq" /\ sysrq # before.sysrq
        \/ s = "klog" /\ klog # "on"
        \/ s = "backlight" /\ \E d \in tracked : brightness[d] # before.brightness[d]}

Screen == IF fg = Home THEN "user" ELSE "gui"

C == INSTANCE Console WITH stage <- Stage, changed <- Changed, screen <- Screen

\* Every step of main, of restore_vt, of the handler, of the kernel and of the desktops
\* is one the abstract console allows: restore_vt only gives back, what it has given
\* back stays so, and a process that has ended by itself leaves nothing under way.
GivenBack == C!Spec

-----------------------------------------------------------------------------
(* What the documentation says of the exits and the code does not do.       *)

\* README: the emergency_restore handler "*always* executes to return control
\* of the display to the user".
ScreenComesBack == exit = "emergency" /\ Settled => fg = Home

=============================================================================
