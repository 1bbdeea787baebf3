------------------------------- MODULE Leaving -------------------------------
(***************************************************************************)
(* What goes on when the user leaves the rescue GUI (cad_rescue_gui.c) by  *)
(* Lock, Sign out, Restart or Shut down: the GUI forks a detached helper   *)
(* (a child that forks it and ends), and the helper acts while the GUI     *)
(* gives the screen back, or crashes.                                      *)
(*                                                                         *)
(* A descriptor is shared by all processes forked since it was opened: the *)
(* keyboard's grab and DRM mastership last until the last of them closes   *)
(* it, unless mastership is dropped explicitly.  Children are reaped by    *)
(* the kernel (SA_NOCLDWAIT).  External: the kernel, the user's session,   *)
(* loginctl, init and the disk.                                            *)
(***************************************************************************)
EXTENDS Naturals, FiniteSets

CONSTANTS Polls,     \* bound: rounds of each polling loop (30 to 150 in the code)
          MaxProcs   \* bound: process ids of the user's session

ASSUME LeavingAssumption == Polls \in Nat \ {0} /\ MaxProcs \in Nat

Choices == {"lock", "sign_out", "restart", "shutdown"}
FewLeft == 2         \* execute_sign_out takes two processes or less for none
Pids == 1..MaxProcs  \* in the order in which readdir gives them

VARIABLES
    gui,             \* the GUI process: its loop, execute_sleep, its way out
    fg,              \* the foreground VT: rescue, or the desktop's
    choice,          \* what the user left the GUI by
    child,           \* the process between the GUI and the helper
    helper,          \* the next step of the helper
    left,            \* polls left in the loop the helper is in
    sigterm,         \* what SIGTERM does to the helper
    kbd, drm,        \* the processes that have the keyboard, the card open
    master,          \* the GUI's open file is DRM master
    sync,            \* the sync child of the GUI and of the helper
    victim,          \* a process of somebody else was killed
    disk,            \* ok, or stuck: sync does not end, not even killed
    procs, asked,    \* processes of the session; it was asked to end
    pos, late,       \* where the SIGKILL pass is; a fork landed behind it
    loginctl,        \* none, running, or how it ended
    blind,           \* /proc could not be opened, and the helper ended on that
    init, machine

guiVars  == <<gui, fg, choice, child>>
helpVars == <<helper, left, sigterm>>
fileVars == <<kbd, drm, master>>
syncVars == <<sync, victim, disk>>
killVars == <<pos, late>>
sessVars == <<procs, asked, loginctl, blind, killVars>>
bootVars == <<init, machine>>
vars     == <<guiVars, helpVars, fileVars, syncVars, sessVars, bootVars>>

GuiOver == gui \in {"gone", "crashed"}

Inherit(p) == kbd' = kbd \cup {p} /\ drm' = drm \cup {p}

\* p is gone, or has closed its descriptors.
CloseAll(p) ==
    /\ kbd' = kbd \ {p}
    /\ drm' = drm \ {p}
    /\ master' = (master /\ drm \ {p} # {})

-----------------------------------------------------------------------------
(* sync in a child, with two seconds to end: execute_sleep and the power     *)
(* actions, o being the process that waits.                                  *)

SyncFork(o) == sync' \in {[sync EXCEPT ![o] = s] : s \in {"running", "none"}}

\* waitpid never returns the pid: the kernel has reaped the child, and the
\* loop ends with ECHILD, or after 20 polls.  Then the pid is killed.
SyncKill(o) ==
    /\ sync' = [sync EXCEPT ![o] = IF @ = "running" /\ disk = "ok" THEN "ended" ELSE @]
    /\ victim' = (victim \/ sync[o] = "reused")

SyncEnds(o) ==
    /\ sync[o] = "running" /\ disk = "ok"
    /\ sync' = [sync EXCEPT ![o] = "ended"]
    /\ IF o = "gui" THEN CloseAll("sync") ELSE UNCHANGED fileVars
    /\ UNCHANGED <<guiVars, helpVars, victim, disk, sessVars, bootVars>>

\* Another process gets the pid.
PidReused(o) ==
    /\ sync[o] = "ended"
    /\ sync' = [sync EXCEPT ![o] = "reused"]
    /\ UNCHANGED <<guiVars, helpVars, fileVars, victim, disk, sessVars, bootVars>>

DiskFails ==
    /\ disk = "ok" /\ disk' = "stuck"
    /\ UNCHANGED <<guiVars, helpVars, fileVars, sync, victim, sessVars, bootVars>>

-----------------------------------------------------------------------------
(* The GUI.                                                                *)

GuiGoto(a, b) == gui = a /\ gui' = b

\* execute_sleep, with the fork of sync; one suspend per session.
SleepSync ==
    /\ GuiGoto("loop", "syncing")
    /\ sync["gui"] = "none"
    /\ SyncFork("gui")
    /\ IF sync'["gui"] = "running" THEN Inherit("sync") ELSE UNCHANGED <<kbd, drm>>
    /\ UNCHANGED <<fg, choice, child, helpVars, master, victim, disk, sessVars, bootVars>>

SleepKill ==
    /\ GuiGoto("syncing", "loop")
    /\ SyncKill("gui")
    /\ IF sync'["gui"] = "ended" THEN CloseAll("sync") ELSE UNCHANGED fileVars
    /\ UNCHANGED <<fg, choice, child, helpVars, disk, sessVars, bootVars>>

\* A button: fork, which may fail unnoticed, and running = 0.
Choose(c) ==
    /\ GuiGoto("loop", "leaving")
    /\ choice' = c
    /\ \/ child' = "forked" /\ Inherit("child")
       \/ UNCHANGED <<child, kbd, drm>>
    /\ UNCHANGED <<fg, helpVars, master, syncVars, sessVars, bootVars>>

\* The end of main: the input is closed, then cleanup_drm and restore_vt.
CloseInput ==
    /\ GuiGoto("leaving", "input_closed")
    /\ kbd' = kbd \ {"gui"}
    /\ UNCHANGED <<fg, choice, child, helpVars, drm, master, syncVars, sessVars, bootVars>>

CleanupDrm ==
    /\ GuiGoto("input_closed", "drm_closed")
    /\ master' = FALSE
    /\ drm' = drm \ {"gui"}
    /\ UNCHANGED <<fg, choice, child, helpVars, kbd, syncVars, sessVars, bootVars>>

RestoreVt ==
    /\ GuiGoto("drm_closed", "activated")
    /\ UNCHANGED <<fg, choice, child, helpVars, fileVars, syncVars, sessVars, bootVars>>

Return ==
    /\ fg = "home"
    /\ GuiGoto("activated", "gone")
    /\ UNCHANGED <<fg, choice, child, helpVars, fileVars, syncVars, sessVars, bootVars>>

\* A handled signal: emergency_restore asks for the desktop's VT and ends the
\* process without DROP_MASTER.
Crash ==
    /\ ~GuiOver
    /\ gui' = "crashed"
    /\ CloseAll("gui")
    /\ UNCHANGED <<fg, choice, child, helpVars, syncVars, sessVars, bootVars>>

\* The kernel, when it gets to it.
SwitchBack ==
    /\ gui \in {"activated", "crashed"} /\ fg = "rescue"
    /\ fg' = "home"
    /\ UNCHANGED <<gui, choice, child, helpVars, fileVars, syncVars, sessVars, bootVars>>

\* The child: setsid, the second fork, which may fail, and _exit.
ChildForks ==
    /\ child = "forked" /\ child' = "done"
    /\ \/ /\ helper' = choice
          /\ left' = Polls
          /\ kbd' = (kbd \ {"child"}) \cup {"helper"}
          /\ drm' = (drm \ {"child"}) \cup {"helper"}
          /\ UNCHANGED master
       \/ CloseAll("child") /\ UNCHANGED <<helper, left>>
    /\ UNCHANGED <<gui, fg, choice, sigterm, syncVars, sessVars, bootVars>>

-----------------------------------------------------------------------------
(* The helper.                                                             *)

HelperGoto(a, b) == helper = a /\ helper' = b

\* Exits, and what is still open is closed.
HelperExits(a) == HelperGoto(a, "done") /\ CloseAll("helper")

\* One round of the wait for the desktop's VT, which is given up in the end.
PollVT(here, next) ==
    \/ fg # "home" /\ left > 1 /\ helper = here /\ left' = left - 1 /\ UNCHANGED helper
    \/ (fg = "home" \/ left = 1) /\ HelperGoto(here, next) /\ left' = Polls

\* Mutant: no time limit.
LockWaitForever ==
    /\ fg = "home" /\ HelperGoto("lock", "lock_cmd") /\ left' = Polls
    /\ UNCHANGED <<guiVars, sigterm, fileVars, syncVars, sessVars, bootVars>>

LockWait ==
    /\ PollVT("lock", "lock_cmd")
    /\ UNCHANGED <<guiVars, sigterm, fileVars, syncVars, sessVars, bootVars>>

\* execute_as_user(lock_cmd), whose own children close what they inherit.
LockCommand ==
    /\ HelperExits("lock_cmd")
    /\ UNCHANGED <<guiVars, left, sigterm, syncVars, sessVars, bootVars>>

\* Mutant: the card is closed, but mastership is not dropped.
DropAndCloseOnly == CloseAll("helper")

\* DROP_MASTER on the shared file, and the descriptors are closed.
DropAndClose ==
    /\ master' = FALSE
    /\ kbd' = kbd \ {"helper"}
    /\ drm' = drm \ {"helper"}

SignOutStart ==
    /\ HelperGoto("sign_out", "s_wait")
    /\ DropAndClose
    /\ UNCHANGED <<guiVars, left, sigterm, syncVars, sessVars, bootVars>>

SignOutWait ==
    /\ PollVT("s_wait", "s_desktop")
    /\ UNCHANGED <<guiVars, sigterm, fileVars, syncVars, sessVars, bootVars>>

\* The desktop's own logout command, if the desktop is a known one.  It may
\* not be there, or not work.
DesktopLogout ==
    /\ \/ HelperGoto("s_desktop", "s_watch") /\ asked' \in {TRUE, asked}
       \/ HelperGoto("s_desktop", "s_loginctl") /\ UNCHANGED asked
    /\ UNCHANGED <<guiVars, left, sigterm, fileVars, syncVars, procs, loginctl, blind,
                   killVars, bootVars>>

Few(enough) == Cardinality(procs) <= enough

\* One round of a wait for the session's processes: enough is none left, or
\* few, and a /proc that cannot be opened shows none.
WatchSession(here, enough, success, failure) ==
    /\ \/ /\ ~Few(enough) /\ left > 1
          /\ helper = here /\ left' = left - 1 /\ UNCHANGED <<helper, blind>>
       \/ ~Few(enough) /\ left = 1 /\ HelperGoto(here, failure) /\ left' = Polls
          /\ UNCHANGED blind
       \/ Few(enough) /\ HelperGoto(here, success) /\ left' = Polls /\ UNCHANGED blind
       \/ HelperGoto(here, success) /\ left' = Polls /\ blind' = (success = "done" \/ blind)
    /\ UNCHANGED <<guiVars, sigterm, fileVars, syncVars, procs, asked, loginctl, killVars,
                   bootVars>>

WatchDesktop == WatchSession("s_watch", FewLeft, "done", "s_loginctl")

\* loginctl terminate-session or terminate-user, if either name is known.
\* A failed fork makes pid -1, which is what waitpid then returns: status is
\* read uninitialized.
Loginctl ==
    /\ \/ HelperGoto("s_loginctl", "s_waitpid") /\ loginctl' = "running"
       \/ /\ helper = "s_loginctl" /\ helper' \in {"s_watch2", "s_term"}
          /\ UNCHANGED loginctl
    /\ UNCHANGED <<guiVars, left, sigterm, fileVars, syncVars, procs, asked, blind, killVars,
                   bootVars>>

LoginctlEnds ==
    /\ loginctl = "running" /\ disk = "ok"
    /\ \/ loginctl' = "ok" /\ asked' = TRUE
       \/ loginctl' = "failed" /\ UNCHANGED asked
    /\ UNCHANGED <<guiVars, helpVars, fileVars, syncVars, procs, blind, killVars, bootVars>>

\* The kernel has reaped loginctl: waitpid fails with ECHILD once it is over.
WaitLoginctl ==
    /\ loginctl # "running"
    /\ HelperGoto("s_waitpid", "s_term")
    /\ UNCHANGED <<guiVars, left, sigterm, fileVars, syncVars, sessVars, bootVars>>

WatchLoginctl == WatchSession("s_watch2", FewLeft, "done", "s_term")

\* SIGTERM to every process of the user, one of which may ignore it; to none if
\* /proc cannot be opened.
TermAll ==
    /\ HelperGoto("s_term", "s_watch3")
    /\ asked' \in {TRUE, asked}
    /\ UNCHANGED <<guiVars, left, sigterm, fileVars, syncVars, procs, loginctl, blind, killVars,
                   bootVars>>

WatchTerm == WatchSession("s_watch3", 0, "s_kill", "s_kill")

\* The SIGKILL pass: /proc is opened, and read once from its beginning.
KillOpens ==
    /\ \/ HelperGoto("s_kill", "s_pass") /\ pos' = 1 /\ UNCHANGED <<fileVars, blind>>
       \/ HelperExits("s_kill") /\ blind' = TRUE /\ UNCHANGED pos
    /\ UNCHANGED <<guiVars, left, sigterm, syncVars, procs, asked, loginctl, late, bootVars>>

\* Mutant: a second SIGTERM.
KillNextTerm ==
    /\ helper = "s_pass" /\ pos <= MaxProcs
    /\ asked' = TRUE
    /\ pos' = pos + 1
    /\ UNCHANGED <<guiVars, helpVars, fileVars, syncVars, procs, loginctl, blind, late,
                   bootVars>>

\* The next id: its process, if there is one and it is the user's, is killed.
KillNext ==
    /\ helper = "s_pass" /\ pos <= MaxProcs
    /\ procs' = procs \ {pos}
    /\ pos' = pos + 1
    /\ UNCHANGED <<guiVars, helpVars, fileVars, syncVars, asked, loginctl, blind, late,
                   bootVars>>

\* The pass is over: _exit, without a look at who is left.
KillEnds ==
    /\ HelperExits("s_pass") /\ pos > MaxProcs
    /\ pos' = 0
    /\ UNCHANGED <<guiVars, left, sigterm, syncVars, procs, asked, loginctl, blind, late,
                   bootVars>>

\* Mutant: SIGTERM keeps the GUI's handler.
PowerStartObeys ==
    /\ helper \in {"restart", "shutdown"} /\ helper' = "p_sync"
    /\ DropAndClose
    /\ UNCHANGED <<guiVars, left, sigterm, syncVars, sessVars, bootVars>>

\* SIGTERM is ignored, so that init does not end the helper.
PowerStart ==
    /\ helper \in {"restart", "shutdown"} /\ helper' = "p_sync"
    /\ sigterm' = "ignored"
    /\ DropAndClose
    /\ UNCHANGED <<guiVars, left, syncVars, sessVars, bootVars>>

\* The two rounds of sync, before the command and after the grace time.
PowerSync ==
    /\ \/ HelperGoto("p_sync", "p_wait") \/ HelperGoto("p_sync2", "p_wait2")
    /\ SyncFork("helper")
    /\ UNCHANGED <<guiVars, left, sigterm, fileVars, victim, disk, sessVars, bootVars>>

PowerKill ==
    /\ \/ HelperGoto("p_wait", "p_command") \/ HelperGoto("p_wait2", "p_remount")
    /\ SyncKill("helper")
    /\ UNCHANGED <<guiVars, left, sigterm, fileVars, disk, sessVars, bootVars>>

\* systemctl or reboot, poweroff, which may be unreadable or unanswered; then
\* six seconds.
PowerCommand ==
    /\ HelperGoto("p_command", "p_sync2")
    /\ init' \in {init, IF init = "idle" THEN "asked" ELSE init}
    /\ UNCHANGED <<guiVars, left, sigterm, fileVars, syncVars, sessVars, machine>>

\* SysRq 'u', then the reboot system call.
PowerRemount ==
    /\ HelperGoto("p_remount", "p_reboot")
    /\ UNCHANGED <<guiVars, left, sigterm, fileVars, syncVars, sessVars, bootVars>>

PowerReboot ==
    /\ HelperExits("p_reboot")
    /\ machine' = "down"
    /\ UNCHANGED <<guiVars, left, sigterm, syncVars, sessVars, init>>

-----------------------------------------------------------------------------
(* The session and init.                                                   *)

ProcEnds ==
    /\ asked /\ \E p \in procs : procs' = procs \ {p}
    /\ UNCHANGED <<guiVars, helpVars, fileVars, syncVars, asked, loginctl, blind, killVars,
                   bootVars>>

\* A child gets any free id, one that the pass has already gone by too.
ProcForks ==
    /\ procs # {}
    /\ \E p \in Pids \ procs : procs' = procs \cup {p} /\ late' = (late \/ p < pos)
    /\ UNCHANGED <<guiVars, helpVars, fileVars, syncVars, asked, loginctl, blind, pos,
                   bootVars>>

\* SIGTERM to all: the GUI has its handler, and so has a helper that does not
\* ignore it.
InitTerm ==
    /\ init = "asked" /\ init' = "term"
    /\ helper' = IF sigterm = "ignored" \/ helper = "none" THEN helper ELSE "done"
    /\ gui' = IF GuiOver THEN gui ELSE "crashed"
    /\ LET dead == {p \in {"gui", "helper"} : p = "gui" \/ sigterm # "ignored"}
       IN /\ kbd' = kbd \ dead
          /\ drm' = drm \ dead
          /\ master' = (master /\ drm \ dead # {})
    /\ UNCHANGED <<fg, choice, child, left, sigterm, syncVars, sessVars, machine>>

\* SIGKILL to all, to a helper that ignores SIGTERM too.  A sync that hangs stays.
InitKill ==
    /\ init = "term" /\ init' = "killed"
    /\ helper' = IF helper = "none" THEN helper ELSE "done"
    /\ LET alive == IF disk = "stuck" THEN {"sync"} ELSE {}
       IN /\ kbd' = kbd \cap alive
          /\ drm' = drm \cap alive
          /\ master' = (master /\ drm \cap alive # {})
    /\ procs' = {} /\ pos' = 0
    /\ UNCHANGED <<guiVars, left, sigterm, syncVars, asked, loginctl, blind, late, machine>>

InitDown ==
    /\ init = "killed" /\ machine' = "down"
    /\ UNCHANGED <<guiVars, helpVars, fileVars, syncVars, sessVars, init>>

InitFreezes ==
    /\ init # "frozen" /\ init' = "frozen"
    /\ UNCHANGED <<guiVars, helpVars, fileVars, syncVars, sessVars, machine>>

-----------------------------------------------------------------------------
Init ==
    /\ gui = "loop" /\ fg = "rescue" /\ choice = "none" /\ child = "none"
    /\ helper = "none" /\ left = 0 /\ sigterm = "handler"
    /\ kbd = {"gui"} /\ drm = {"gui"} /\ master = TRUE
    /\ sync = [o \in {"gui", "helper"} |-> "none"] /\ victim = FALSE
    /\ disk \in {"ok", "stuck"}
    /\ procs \in SUBSET Pids /\ asked = FALSE /\ loginctl = "none" /\ blind = FALSE
    /\ pos = 0 /\ late = FALSE
    /\ init \in {"idle", "frozen"} /\ machine = "up"

Gui == SleepKill \/ CloseInput \/ CleanupDrm \/ RestoreVt \/ Return

User == SleepSync \/ \E c \in Choices : Choose(c)

execute_sign_out ==
    \/ SignOutStart \/ SignOutWait \/ DesktopLogout \/ WatchDesktop \/ Loginctl
    \/ WaitLoginctl \/ WatchLoginctl \/ TermAll \/ WatchTerm \/ KillOpens
    \/ KillNext \/ KillEnds

execute_power ==
    \/ PowerStart \/ PowerSync \/ PowerKill \/ PowerCommand \/ PowerRemount \/ PowerReboot

Helper == ChildForks \/ LockWait \/ LockCommand \/ execute_sign_out \/ execute_power

InitSystem == InitTerm \/ InitKill \/ InitDown

\* Everything has ended, but for a helper that waits for a loginctl that cannot.
Over ==
    \/ machine = "down"
    \/ GuiOver /\ helper \in {"none", "done"}
    \/ GuiOver /\ helper = "s_waitpid" /\ disk = "stuck"

Done == Over /\ UNCHANGED vars

Next ==
    \/ /\ machine = "up"
       /\ \/ Gui \/ User \/ Helper \/ Crash \/ SwitchBack
          \/ \E o \in {"gui", "helper"} : SyncEnds(o) \/ PidReused(o)
          \/ DiskFails \/ LoginctlEnds \/ ProcEnds \/ ProcForks
          \/ InitSystem \/ InitFreezes
    \/ Done

Spec == Init /\ [][Next]_vars

\* The scheduler runs the GUI and the helper; sync and loginctl end while the
\* disk answers.  Nothing is assumed of the console switch, the session, the
\* user and init.
FairSpec ==
    /\ Spec
    /\ WF_vars(machine = "up" /\ Gui)
    /\ WF_vars(machine = "up" /\ Helper)
    /\ WF_vars(machine = "up" /\ \E o \in {"gui", "helper"} : SyncEnds(o))
    /\ WF_vars(machine = "up" /\ LoginctlEnds)

-----------------------------------------------------------------------------
HelperSteps ==
    Choices \cup
    {"none", "lock_cmd", "s_wait", "s_desktop", "s_watch", "s_loginctl", "s_waitpid",
     "s_watch2", "s_term", "s_watch3", "s_kill", "s_pass", "p_sync", "p_wait", "p_command",
     "p_sync2", "p_wait2", "p_remount", "p_reboot", "done"}

Holders == {"gui", "child", "helper", "sync"}

\* The variables keep their types: the polling loops end within their rounds.
TypeOK ==
    /\ gui \in {"loop", "syncing", "leaving", "input_closed", "drm_closed", "activated",
                "gone", "crashed"}
    /\ fg \in {"rescue", "home"}
    /\ choice \in Choices \cup {"none"}
    /\ child \in {"none", "forked", "done"}
    /\ helper \in HelperSteps
    /\ left \in 0..Polls
    /\ sigterm \in {"handler", "ignored"}
    /\ kbd \subseteq Holders
    /\ drm \subseteq Holders
    /\ master \in BOOLEAN /\ victim \in BOOLEAN
    /\ sync \in [{"gui", "helper"} -> {"none", "running", "ended", "reused"}]
    /\ disk \in {"ok", "stuck"}
    /\ procs \subseteq Pids /\ asked \in BOOLEAN /\ blind \in BOOLEAN
    /\ pos \in 0..(MaxProcs + 1) /\ late \in BOOLEAN
    /\ loginctl \in {"none", "running", "ok", "failed"}
    /\ init \in {"idle", "asked", "term", "killed", "frozen"} /\ machine \in {"up", "down"}

\* "tant qu'il est ouvert, le kernel refuse de donner le DRM Master": when the
\* helper ends the session or asks for a reboot, nobody is DRM master, also when
\* the GUI hangs in its exit, crashed, or left a sync behind.
MasterFree ==
    helper \in {"s_desktop", "s_watch", "s_loginctl", "s_waitpid", "s_watch2", "s_term",
                "s_watch3", "s_kill", "s_pass", "p_command", "p_sync2", "p_wait2"} => ~master

\* The keyboard's grab does not outlive the GUI for good: the helpers close the
\* keyboard or end, even if the desktop's VT never comes back; only a sync that
\* hangs on a dead disk keeps it.
KeyboardComesBack == GuiOver ~> (kbd = {} \/ disk = "stuck" \/ machine = "down")

\* A sign out that was begun ends with the session gone, whether the desktop's command
\* and loginctl work or not and whatever processes ignore SIGTERM.  What the code does
\* not do is named: a /proc that cannot be opened counts as an empty session, the wait
\* for loginctl has no limit when the disk hangs it, and the last resort is one pass
\* over /proc, which a child born behind it survives.
SignOutHappens ==
    helper = "sign_out" ~>
        (helper = "done" /\ Few(FewLeft)) \/ blind \/ late \/ disk = "stuck"

\* A restart or a shut down takes place when the disk is dead, the commands are
\* missing, or init freezes at any point of its own procedure before it has killed
\* everybody else, the helper with them.
PowerHappens ==
    helper \in {"restart", "shutdown"} ~> (machine = "down" \/ init = "killed")

-----------------------------------------------------------------------------
(* What the comments say and the code does not do.                         *)

\* "loginctl a reussi, attendre 10s que la session se ferme": after a loginctl
\* that succeeded the helper waits before it signals every process of the user.
FailsafeOnlyLast ==
    [][helper = "s_waitpid" /\ loginctl = "ok" => helper' \in {"s_waitpid", "s_watch2"}]_vars
=============================================================================
