# lnxCAD: a TLA+ verification project

lnxCAD gives a Linux desktop a "Ctrl+Alt+Del screen" that works when the desktop
does not.  A root daemon (`src/cad_watchdog.c`) follows a keyboard; when Ctrl, Alt and
Delete are down together and the screen is not locked, it executes the rescue GUI
(`src/cad_rescue_gui.c`) from memory.  The GUI takes the console away from the desktop
(virtual terminal, DRM master, keyboard, SysRq, backlight, kernel log), draws on raw
DRM buffers, offers lock, switch user, sign out, task manager, terminal and power
actions, and gives everything back.

The code cannot be tested well: its mistakes show as a black screen, a dead console or
a GUI that comes back by itself, and they depend on when a signal, a key, a page flip
or a desktop's answer arrives.  These modules say what the code does between any two of
those events, and what it promises.

## Inventory

| Component | State it keeps | Operations | Module |
| --- | --- | --- | --- |
| Watchdog daemon | `terminate_requested`, `gui_fd`, `fallback_path`, the open keyboard, three key flags, the child | `prepare_gui_memfd`, `main`, `listen_for_cad`, `is_screen_locked`, `signal_handler` | `Watchdog` |
| Console takeover and restoration | `recovery_journal_t journal`, `vt_restored`, `saved_sysrq`, `backlights[]` | `main` (start, exits), `steal_vt`, `restore_vt`, `emergency_restore`, `force_/maintain_/restore_backlight`, `disable_/restore_sysrq` | `Takeover` |
| Display | `drm` (handles, framebuffers, mappings, `double_buffered`, `saved_crtc`), `front_buf`, `back_buf` | `init_drm`, the frame loop's buffer choice and presentation, `execute_sleep`, `cleanup_drm` | `Display` |
| Leaving: lock, sign out, sleep, restart, shut down | a detached helper, inherited descriptors, a sync child | the power menu's forks, `execute_sign_out`, `execute_restart`, `execute_shutdown`, `execute_sleep`, `execute_command_safe` | `Leaving` |
| Password conversations | a pty, a child (`su`, `sudo`, `passwd`), the disposition of SIGCHLD, what was sent, the message | `verify_root_password*`, `change_own_password`, the zombie loop of the frame | `Auth` |
| Terminal, elevation and windows | `term_pty`, `terminal_root_mode`, `taskmgr_root_mode`, `run_as_root`, `root_authorized`, the password dialog, the `show_*` flags, `trigger_action` | `launch_terminal_shell`, `close_current_pty`, `cleanup_terminal_session`, the frame loop from its snapshots to its end | `Windows` |
| Input | mouse packets, `click_cooldown`, `ignore_clicks`, `shift_pressed`, the password fields | the first half of the frame loop, the masked fields | `Mouse`, `Typing`, `Windows` |
| Task manager | `top_procs_cpu`, the table of CPU times, the schedule of its scans | `scan_processes`, the buttons of its rows | `Tasks` |
| Session list, system figures | `sessions[]`, counters | `scan_sessions`, `scan_sysinfo` | not modelled: read `/run` and `/proc` into strings that are shown |
| Session detection | `user_session` | `detect_user_session` and its string helpers | not modelled: reads `/proc` and `/etc` into strings |
| Drawing and theme | pixels | `draw_*`, nuklear, `theme_generator.c` | not modelled: layout only |
| Packaging | files | `bin_packer.c`, `compressors/`, `decompressors/`, scripts | not modelled: build tools and vendored codecs |
| Busybox, libtsm, nuklear | | | not modelled: third-party; nuklear's text editor is part of `Typing` |

How they interact.  The daemon and the GUI share the keyboard (the GUI's `EVIOCGRAB`
hides events from the daemon) and a parent-child relation (the daemon waits, and passes
a stop on with `kill`).  The GUI and the kernel share the console: a VT switch is asked
for by `VT_ACTIVATE`, carried out later by a kernel worker, and may need the consent of
the desktop that owns the foreground VT (`VT_RELDISP`).  The GUI and the GPU share the
CRTC: a page flip is accepted now and takes effect at the next vertical blank.  The GUI
and the helpers it forks share open files: the keyboard's grab and DRM mastership last
until the last of them has closed its copy.  The GUI and `su`, `sudo` or `passwd` share a
pseudo terminal and SIGCHLD: the GUI sets `SA_NOCLDWAIT` for its life and puts it aside
for a conversation, and its helpers inherit it.  The frame loop and the terminal's shell
share a process group and a pseudo terminal; the loop learns of the shell's end only when
it reads.  `Console` is the abstract owner of the console that `Takeover` implements.

What is hard: a signal between a test and the sleep it should interrupt; a signal
handler that runs in the middle of the very code that restores; deferred VT switches
and flips; events the daemon does not see; a locker that changes between two probes;
any one of a dozen ioctls failing half way through the start; helpers that act while the
GUI exits, hangs or crashes; `waitpid` for a child the kernel has reaped; a terminal whose
texts arrive late or in pieces; several keys in one frame, of which some see a dialog that
is already closed; queues that are cut off at the limit of a frame; process ids that are
reused between a scan and the button.

What makes each part correct:

* Watchdog: it launches only for a combination that is really down, never over a lock,
  one GUI at a time, and outlives it; it stops when told to, and finds its keyboard
  again; it leaves no file behind.
* Takeover: it gets the console, whatever the desktop does (it does not, see `frozen_desktop`);
  however the process ends, the user is back on the desktop's VT, no console
  is left in graphics mode without an owner, and SysRq, kernel log and brightness are
  as before.
* Display: drawing goes to mapped memory that is not on the screen, what is drawn is
  shown, and everything is released.
* Leaving: nobody holds the screen when a session is ended, the keyboard comes back, and
  a sign out, restart or shut down takes place even if what it relies on fails.
* Passwords: the verdict is that of an authority, a right password is not refused for a
  reason of timing, the message tells the truth, and the GUI is neither blocked nor
  left with zombies.
* Terminal, elevation, windows: one shell at most, with the rights and the mode that are
  shown, and none left running by a terminal that was closed; root's rights only after an accepted
  password; a dialog that is really modal; a shell's end that is noticed, and none left when
  the loop ends.
* Input: a press is one click, a button and a modifier come up, and a password field
  holds what was typed.
* Task manager: a signal goes only to a process that may be managed, the list has the
  highest percentages, and its figures are what the processes used.

## Plan

Done, in this order:

1. `Takeover`, the heart of the system, with its environment (kernel, desktops).
2. `Watchdog`, with its environment (keyboard, evdev queue, locker, child).
3. `Display`.
4. `Leaving`: the helpers beside the exit of the GUI.
5. `Auth`: the conversations with `su`, `sudo` and `passwd`.
6. Proofs of safety properties of all five.
7. `Windows`: the frame loop with the terminal, the rights and the password dialog.
8. `Mouse` and `Typing`: the packets and events of a frame, the filters on clicks, the
   masked fields.
9. `Tasks`: `scan_processes` with ids that are reused, and the buttons of the rows.
10. `Console`, an abstract specification that `Takeover` implements.
11. Proofs for `Windows`, `Mouse` and `Console`, and of `FullRestoration` and
    `RealUnlessLost`.
12. Proofs for `Typing` and `Tasks`: all safety properties of the runs are theorems now.

Left:

13. `System`, which composes `Watchdog` with `Takeover`: of the GUI, `Watchdog` only has the
    grab and the end.
14. `scan_sessions` beside sessions that end, and the unsigned arithmetic of
    `scan_sysinfo`.

The project keeps a dozen runs and forty checked properties, so that checking all of it
stays a matter of minutes.  A safety property that is proved, and that another checked
property implies, has no run: the type invariants with a proof, and `ConsoleReturned` and
`FullRestoration`, which `GivenBack` implies on the instance of the run.

## Modules

### Takeover

One GUI process and the console.  Every system call that changes the console is one
step: `pc` names the next one, in the order of `main` and `steal_vt`
(`klog`, `handlers`, `sysrq_read`, ..., `wait_rescue`, `graphics`, `scan`, `buffers`,
`rawfb`, `input`, `running`), then of the exit (`close_input`, `cleanup_drm`, `restore`,
`r_text`, ..., `r_tty`, `return`), and `e_*` for `emergency_restore`.  A handled signal
may come at every step and jumps to `e_rescue`; the handlers are installed with the
other signals not blocked, so a second one may interrupt the handler.  A signal with
its default action ends the process with nothing restored (`Killed`).

The journal's fields keep their names; `ttyVT` is the VT that `tty_fd` was opened on, and
`sigInWait` says that a signal came while `steal_vt` slept in `VT_WAITACTIVE`.  `want` and
`release` are the kernel's side of a switch: requested and not yet done, and waiting for
the foreground desktop.  A VT in graphics mode with no `VT_PROCESS` owner refuses to be
left: that is the "dead console". A desktop may be healthy, frozen, dead, or absent, on
every VT.

Abstracted: `DrmCards` and connectors (only whether a card works), the contents of
sysfs names, logging, `escape_cgroups`, `mlockall` and priorities, which change nothing
the properties see.  `current_state` in the journal is written and never read.  The unblanking
of the console (`TIOCLINUX`) in `GraphicsMode`, and the keyboard mode, the line settings and
the reset of the rescue terminal in `RestoreText`, go with the `KDSETMODE` beside them: on a
free VT nobody had changed them.

### Watchdog

The daemon, its child up to `exec` and the child's effect on the keyboard, the evdev
queue of the daemon's descriptor, the user's fingers and the screen locker.  A blocking
call is two steps, the call and the sleep, because `terminate_requested` is tested
before and `EINTR` only comes during.  A full evdev queue is emptied and replaced by
`SYN_DROPPED`, as the kernel does; the daemon skips that event.  Each key event carries
an auxiliary fact for the properties: whether the combination was really down.  `fired`
keeps it for the last combination the daemon acted on, `lost` says that an event was
dropped or went to the GUI's grab since the device was opened, `steady` that the lock that was
there at the combination is still there in the same form, and `blind` why it was not found:
the very probe that looks for this form failed, or `/proc` could not be opened
(`NoProcDir`), after which the code asks neither `dcop` nor `loginctl`.  The failure of a
probe that could not have shown the lock excuses nothing.

Abstracted: which of the known lockers runs (a lock shows as a process, as Trinity's
answer or as logind's `LockedHint`), the decompressor (succeeds or not), the arguments
and environment of the child, `detect_*` and `harden_daemon`.

### Display

The buffers, the CRTC and the frame loop.  `init_drm` may fail in each ioctl for each
buffer; the loop may be suspended (`execute_sleep`) or left in any frame; the page flip
may fail for its own reasons or because the last is pending.  `handle` and `fb_id` are
the indices where the C arrays are not zero; `dumbs`, `fbs`, `maps` are what the kernel
really keeps for the process.  `frame_count` only distinguishes the first frame.
`missed` says that the last `SETCRTC` of the loop failed, whose result the code ignores.

### Leaving

The GUI from its loop to its end, the child it forks for a choice of the power menu, the
helper that child forks, and what the helper acts on.  `gui` goes through `CloseInput`,
`CleanupDrm`, `RestoreVt` and `Return`, or crashes at any step into `emergency_restore`,
which ends it.  `helper` is the helper's next step: `lock_cmd` after `LockWait`; `s_*`
through `execute_sign_out` (drop master, close, poll the VT, ask the desktop, watch,
`loginctl`, watch, SIGTERM, watch, SIGKILL in one pass over `/proc`); `p_*` through
`execute_restart` and `execute_shutdown`, which are the same code but for their commands.
`left` counts the rounds of the polling loop it is in.  `kbd` and `drm` are the processes
that have the keyboard and the card open; `master` is a property of the open file they
share.

The children of GUI and helper are reaped by the kernel, so that `waitpid` answers ECHILD
whatever became of them: that is why `WaitLoginctl` cannot tell success from failure, and
why `SyncKill` may hit a process that got the pid (`victim`).

The pass of SIGKILL goes from entry to entry (`KillOpens`, `KillNext`, `KillEnds`; `pos` is where
it is) while the processes of the session fork and end: a child whose id lies behind `pos`
is never visited, and `late` remembers it.  init kills every process before it brings the
machine down (`InitKill`, `InitDown`), and may freeze in between, when the helper is no longer
there to force the reboot.

Abstracted: which desktop's logout command is used, the text of commands, the minor
differences in the length of the polling loops, and the resume of the display after
`execute_sleep`, which is in `Display`.

### Auth

One conversation at a time, since it blocks the frame.  `gui` follows the functions:
`fork`, `prompt` (wait for something that looks like a prompt, at most 2 s), `drain`
(read until 100 ms of silence), or `talk` for `passwd` (at most 5 s), `close`, `wait`,
and `shadow`.  `prog` says which program it is; `su`'s and `sudo`'s functions are the same
code.  `out` and `input` are the two directions of the terminal; a text is what the
`strstr` tests of the GUI tell apart, and a read may take any number of texts and cut the
last in two.  `typed` says whose password was typed, which is all the programs check.

The programs are external: they may be missing, refuse the rights, prompt late, drop what
was typed ahead, ask again, take their time for the verdict, get SIGHUP at any of those
points, and block on a dead disk.  `user_session.uid > 0` is assumed, as it is whenever a
session was detected.

Abstracted: the wording of prompts in the eleven languages (`LC_ALL=C` is set), the debug
log, clearing the buffers, and what the dialog does with the answer (`Windows`).

### Console

The abstract owner of the console: a stage (taking, serving, giving, and how it ended), the
set of settings that differ from what was found, and whether the user's console is in
front.  It says what a user of the machine can rely on, without the system calls: settings
are changed before and during the session only, nothing is taken again once the giving back
has begun, and a GUI that ends by itself has given everything back and touches nothing
afterwards; a GUI that is refused the console has not moved the screen; only a signal
excuses it.  `Takeover` maps its journal and the hardware to these (`Stage`, `Changed`,
`Screen`), and `GivenBack` is the refinement.

### Windows

The frame loop, six phases to a frame: the snapshots, the mouse and the shell's end
(`FrameBegins`); the keys in their order; one widget of one window; the dialog; the manual
buttons; and the end of the frame, which closes the shell of a terminal that was shown when
the frame began and is not any more (`FrameEnds`, `cleanup_terminal_session`).  What closes
a terminal, Escape, its two close buttons, the toggle, the menu or the power menu, only
takes it off `shown`; a terminal that is closed and opened again in one frame keeps its
shell.  A key sees what the keys before it in the frame have changed, while `is_modal` and
`snap` are what was open when the frame began, which is exactly the difference in the code
that lets a left-over Enter, or an Enter after an Escape, meet something else. `shown` is
the set of `show_*` flags.  `commit` is what Enter makes of the field that has the focus,
`text` that something was typed.  `proc` has the shells, whose end is external and may fall
between any two steps; a process id is reused as soon as it is free.

Which button the arrows have selected, and where the pointer is, is any of those that are
drawn: the model follows neither the selection nor coordinates.  `verify_root_password` is
its answer (module `Auth`); with `NeedsPassword` an empty password is refused, which holds
unless the administrator's account has none.  libtsm's screen is assumed to exist.

### Mouse

The packets of `/dev/input/mice` and the filters on clicks: at most 16 reads are used in a
frame and one more is made, whose packet is lost; five silent frames take the button for
up; the press that wakes the mouse is ignored; a window that opens starts a cooldown.  The
device merges a packet with the last one waiting, if it may.  A packet is read whole
(`mousedev` gives three bytes a read), so that the resynchronisation of the accumulator
never has anything to do.

### Typing

The events for a password field, one step each: the shift flag that both keys write, the
characters, the edit keys, and the one event too many, which is read and dropped.  `Frame`
is the rest of a frame: nuklear's edit, in which each edit key counts once and comes before
all the characters, and for a masked field, which is edited as stars, the copying back
(`Stored`).  `meant` is what the same keys would give one by one; `calm` says that the field
was only used in ways that are safe: characters or one edit key in a frame but not both,
with room for them, at the end of what is masked, and one shift key at a time.  What
becomes of the other uses is under the known differences.  Tab inside a frame, between its
characters, is left out.

### Tasks

`scan_processes` with its open-addressing table, the list of the busiest and the buttons,
beside processes that start, work, end and reuse ids.  A scan visits the ids one after the
other in ascending order (`Visit`), and the processes go on meanwhile; a process that starts
during a scan may or may not be seen by it.  A row has the percentage that the code
computes from the ticks (`Percent`, which rounds down for the interval and again for the
number of cores), and the list is in its order.  A scan that cannot open `/proc` changes
nothing (`ScanFails`).  A process may change its owner and name between the scan and the
button (`Execs`).  The lists by memory and by name (the same insertion with another key) and
the shown columns are left out.  In which frame a scan is due is left open, and whether the
window has root's rights is any answer (module `Windows`).  There is one widget at work in a
frame: the mouse is moved away while `keyboard_active`, so that a click and an Enter never
meet.  `used`, `fresh`, `changed`, `ticks` and `signalled` serve the properties.  `TicksExact`
leaves out an id that was reused and a process that the full table had no room for; what
the code shows of the latter is the run `full_table`.

### MC and proof modules

`MCTakeover` and `MCWatchdog` give some constants their values.  `MCInput` puts `Mouse` and
`Typing` side by side: they share no variable, so that a behaviour follows one of the two
devices.  The other MC modules need no definitions.  `TakeoverProofs` (which also shows
that `Takeover` implements `Console`), `WatchdogProofs`, `DisplayProofs`, `LeavingProofs`,
`AuthProofs`, `WindowsProofs`, `InputProofs` (about both `Mouse` and `Typing`, which is why
the former's names have a prefix) and `TasksProofs` hold the theorems.  Operators with the
comment "Mutant" stand before the definition they are variants of: replacing the definition
by one of them must violate the property named in `PROJECT.json`.

## Runs

| Run | Config | Shows |
| --- | --- | --- |
| `takeover` | `MCTakeover.cfg` | `EmergencyReturns`, `NoDeadConsole` and the refinement `GivenBack`, with up to two handled signals at any steps, two VTs in any state; `ScreenStaysLit`, `LeavingCompletes` under fairness |
| `watchdog` | `MCWatchdog.cfg` | `NoBypass`, `NoOrphan`, `FallbackRemoved`, `RealUnlessLost`; `InterruptStops`, `Reconnects` under fairness |
| `display` | `MCDisplay.cfg` | `DrawsMapped`, `AllReleased`, `OffScreenDrawing` |
| `leaving` | `MCLeaving.cfg` | `MasterFree`; `KeyboardComesBack`, `SignOutHappens`, `PowerHappens` under fairness, with the GUI hanging or crashing, a dead disk, a frozen init, a session that ignores SIGTERM and one that forks during the pass of SIGKILL |
| `auth` | `MCAuth.cfg` | `AcceptedByAuthority`, `RightPasswordAccepted`, `ChangedMeansStored`, `ReapingRestored`; `AnswerComes`, `ZombieReaped` under fairness |
| `windows` | `MCWindows.cfg` | `IndicatorTruthful`, `ClosedTerminalGone`, `RootOnlyAuthorized`, `StaleEnterHarmless`, `DialogIsModal`; `ShellEndNoticed`, `LoopEnds` under fairness |
| `input` | `MCInput.cfg` | `OneClickPerPress`, `TypeOK` of `Typing` (no field grows past its buffer), `ShiftComesUp`, `StoredAsTyped`; `ButtonComesUp` under fairness |
| `tasks` | `MCTasks.cfg` | `TypeOK` (no list grows past its array), `OnlyManaged`, `TicksExact`, `ListsBusiest` |

The remaining runs end in a violation: each states what a document or a comment of the
repository says and shows a behaviour of the code that differs.

| Run | Said | What the trace shows |
| --- | --- | --- |
| `screen_comes_back` | README: the handler "*always*" returns the display | a signal during `VT_WAITACTIVE` of `steal_vt`: the handler activates the VT that is still in front, the switch to the rescue VT is still pending, and the user ends on an empty VT |
| `failsafe_only_last` | comments: after a `loginctl` that succeeded the session gets 10 s, and SIGTERM to everything comes only if nothing else worked | `waitpid` fails with ECHILD, the success is not seen, and every process of the user is signalled at once |
| `frozen_desktop` | README: works "even in the event of a total freeze of the desktop environment", and will "force the kernel to switch to a clean, empty VT" | the desktop in front has its VT in `VT_PROCESS` mode and does not answer: the switch stays pending, and `VT_WAITACTIVE` of `steal_vt`, which has no time limit, never returns |
| `full_table` | comment in `scan_processes`: with a full table "Le CPU affiché sera de 0%" for the processes that have no room | such a process has no old time to subtract, and is shown with what it has used in its whole life |

Known differences that have no run of their own, all visible in the modules:
`/dev/tty0` that cannot be opened ends the GUI without restoring SysRq, kernel log and
backlight, which it has changed by then (all of it is inside `restore_vt`'s test of `tty_fd`);
`emergency_restore` writes the last digit of the saved SysRq mask (176 comes back as 6),
leaves the enforced brightness and puts the desktop's own VT in text mode; the fallback
file of the daemon is executed while `gui_fd` has it open for writing (`ETXTBSY`);
`cleanup_drm` restores a CRTC without naming a connector, which the kernel refuses; a
suspend in the frame after a failed flip shows the buffer that is no longer drawn; the
README says that the lock command runs when the desktop's VT is active again, and the
helper runs it without that after 5 s; a stop that comes before
`waitpid` sleeps is not passed on to the GUI (the service manager then kills both); a
press read after the flags were cleared, whose release went to the GUI's grab, stays set
(`RealUnlessLost` carries exactly that hypothesis).  A SIGTERM between the daemon's test and
`read` interrupts nothing, although a comment says that a stop interrupts at once: the
daemon sleeps until the next key.  The debounce, which a comment says avoids multiple
launches, does not read: a combination typed before the grab waits in the queue and
launches again.  `execute_sleep` kills the sync child also when it ended in time, by a pid
that may be another process's by then (`victim` in `Leaving`).

A `/proc` that cannot be opened makes the daemon launch over a lock that `loginctl` would
have shown (`NoProcDir`).  A process that forks behind the pass of SIGKILL survives the sign
out: `SignOutHappens` excuses exactly that (`late`), and is violated without the excuse.  An
init that kills everybody and then freezes leaves the machine on, with no helper to force it
down (`PowerHappens` ends at `init = "killed"`).

In the frame loop: a masked field whose cursor is not at its end appends a star when a
character is inserted, and loses its last character when another is deleted; in one frame
Backspace counts once and comes before the text, and of more than 15 characters the rest is
dropped (`NK_INPUT_MAX`); a field of 255 characters gives its last up to the next edit;
releasing one of two shift keys releases the flag; Enter and Escape in one frame leave a
submission for the next dialog (harmless, see `StaleEnterHarmless`).  A button that is held
while a window opens, or longer than the mouse is silent, clicks again with the next
packet.  A launch that fails leaves a terminal window without a shell, and without a
keyboard the end of a shell is not noticed.  The kill button of a row does not look at the
process again: an id that was reused, or a process that has changed its owner, is signalled
all the same.  If the list is renewed in the frame of an Enter, the row under the selection
may be another process.

### Bounds, and why they are enough

* `VTs = {1, 12}`: the code only distinguishes the original VT, the rescue VT and, when
  `VT_OPENQRY` fails, VT 12; with two VTs those coincide in every possible way,
  the desktop on VT 12 included.
* One backlight: the devices are handled independently by the same loop.  The panel is dark
  at first (`Levels = {0}`), the case in which the code changes it, and `MaxBrightness = 60`
  makes what was found (0), what counts as dark (up to `max / 20` = 3), what is enforced
  (`max / 3` = 20) and the full level differ; any levels in the proofs.
* `SysRqValues = {176}`: more than one digit, so that writing one digit shows.
* `MaxSignals = 2`: a handled signal and a second one inside the handler; the handler
  ends with `_exit` and keeps no count.  The frozen desktop needs none.
* `CtrlKeys`: one with TLC; that the flag is shared by two does not matter to liveness, and
  the safety properties are proved for any number.
* `EvdevBuffer = 2`: a few strokes overflow it (the kernel's is 64 or more); any length in
  the proofs.
* `Windows`: two process ids, so that a shell and its successor differ and an id is reused;
  `MaxKeys = 2` keys in a frame, the least for Enter after Escape, and any number in the
  proofs.
* `Mouse`: 2 reads in a frame and a queue of 4, so that a packet is lost and one is left
  over; the limits of 5 and 3 frames are the code's.
* `Typing`: frames of 3 events and one too many, 4 characters and `NK_INPUT_MAX = 3` (two
  characters reach nuklear, a third does not), so that a field, nuklear's input and a frame
  are each filled and overrun; any limits in the proofs.
* `Tasks`: three ids in a table of 2 slots, of which 1 and 3 collide, so that entries are
  displaced, wrap around and find no room; two rows in the list, so that one process is left
  out; one tick each, which is 2 units, over intervals of 1 or 2 and two cores, so that a process
  that worked shows 1 % or 0 %; and one process at a time that
  has started since its id was visited (`MaxFresh`), the least for an id to be reused.  Any
  of them in the proofs.
* `Display` and `Auth` have no constants: they are finite as they are, since each program
  says only a few texts before it ends or waits.  In `Auth` a password is stored once per
  behaviour (`ChangePassword` needs `~stored`), so that "changed" cannot be excused by an
  earlier change.
* `Polls = 2`: rounds of the polling loops (30 to 150 in the code); a loop may end in its
  first round, a later one, or by running out, and nothing else depends on the number.
* `MaxProcs = 3`: one more than the two processes `execute_sign_out` takes for none, so
  that a session is alive, nearly over and over, and that a pass has an id before and one
  behind it.

### Fairness

* `Takeover!FairSpec`: the process runs (SCHED_FIFO, `mlockall`), its frame loop reaches
  `maintain_backlight` every 500 frames, the kernel's console worker runs, and a healthy
  desktop answers the release signal.  Nothing is assumed of signals, of the user, of
  frozen desktops or of who dims the screen; `maintain_backlight` is weakly fair, which
  is what a loop that reaches it again and again gives.
* `Watchdog!FairSpec`: the daemon and its child are scheduled, and a GUI that got SIGTERM
  ends.  Nothing is assumed of keys, hotplug, locks or the GUI's user.
* `Leaving!FairSpec`: the GUI and the helper are scheduled; sync and `loginctl` end while
  the disk answers.  Nothing is assumed of the console switch, the session's processes,
  the user and init.
* `Auth!FairSpec`: the GUI and the program are scheduled, and `select` times out.  `Frame`
  is strongly fair: every 60th frame reaps, also if the user starts a conversation in
  each of the frames between.  Nothing is assumed of the user or the shell.
* `Windows!FairSpec` and `MouseFairSpec` (in `MCInput`, `InputSpec`): the loop goes on
  (weak fairness of its steps; it waits for the display only).  Nothing is assumed of keys,
  packets or the shell.
* `Typing` and `Tasks` state no liveness and no fairness.

Deadlock is checked in every run: a process that has ended stutters explicitly
(`Done`, `Frozen`) or its environment goes on.

## Proofs

All theorems hold for every value of the constants that satisfies the `ASSUME` of the
component.

* `TakeoverProofs`: `TypeCorrect`, `ScreenReturned` (`ConsoleReturned`),
  `EmergencyScreenReturned` (`EmergencyReturns`), `ConsoleAlive` (`NoDeadConsole`).  The
  properties speak of ended processes only, so the invariant must say at every step
  where the console is heading: nothing is under way before `activate`; during the wait
  the one switch leads to the rescue VT; while the GUI runs nothing is under way; from
  `r_activate` on every switch leads home; in the handler the screen can still be brought
  back unless the signal came during the wait (`ConsoleInv`).  `GraphicsHeld` says that a
  dead console is always the rescue VT, and that its descriptor is open at a step from
  which both exits reset it.
  In the same module, `SettingsReturned` (`FullRestoration`, which excuses a start that could not
  open `/dev/tty0` and nothing else) and `TakeoverImplementsConsole`
  (`GivenBack`).  `SettingsInv`: what is saved is what was found and what is not saved was not
  changed (`SavedInv`), how far `restore_vt` has come (`ProgressInv`), that it only skips its
  work when the screen was never left (`KnownInv`), and what an ended process has done
  (`EndInv`).  The step lemmas show, for each action, the abstract action it is.
* `WatchdogProofs`: `TypeCorrect`, `NeverBypassed` (`NoBypass`), `NeverOrphaned`
  (`NoOrphan`), `FileRemoved` (`FallbackRemoved`), `OnlyRealCombinations`
  (`RealUnlessLost`).  `LockInv` says which signs the probes made so far exclude, unless
  `blind` says why not; `FileInv` where the file can exist during `prepare_gui_memfd`.
  `NoOrphan` is inductive as it stands.  `RealInv` relates the three flags to the keys that
  are down over the whole queue, for any length of it: while no event is lost, what the
  flags will be after the queued events is what is down now (`FollowsKeys`), and an event
  that says the combination is not down leaves one flag clear (`FalseEndsOff`).  Instead of
  an induction over the queue, `Off` says of a flag and a position which event decided it
  last.
* `WindowsProofs`: `TypeCorrect`, `IndicatorsTruthful` (`IndicatorTruthful`, inductive as
  it stands), `ClosedTerminalsGone` (`ClosedTerminalGone`), `RootNeedsPassword`
  (`RootOnlyAuthorized`), `LeftOverEnterHarmless` (`StaleEnterHarmless`), `DialogModal`
  (`DialogIsModal`), for any number of ids and of keys in a frame.  `RightsInv` says it of
  the modes, `terminal_root_mode` included, from which `IndicatorTruthful` gives the rights
  of the shells; `DialogInv` says that a dialog that was not there when the frame began
  holds nothing, and that a frame that began with one has no manual button pressed.
* `InputProofs`, about the mouse: `MouseTypeCorrect`, `OnePressOneClick` (`OneClickPerPress`),
  for any limits and any queue.  `PressInv`: the last packet that waits tells how the button
  is, and as long as the button of an undisturbed press that has clicked is down, the flag
  is set.
* `InputProofs`, about the password fields: `TypeCorrect` (`TypeOK`: the password never
  outgrows what nuklear was given), `ShiftReleased` (`ShiftComesUp`, inductive as it stands)
  and `TypedIsStored` (`StoredAsTyped`), for frames, inputs and passwords of any length.
  `StoredAsTyped` speaks of the moments between frames; `StoredInv` says inside a frame what
  is on its way: what was meant is the field with the characters of this frame typed in, or
  with its one edit key applied (`Pending`), there is room for them, a masked field is
  edited at its end, and the flag agrees with the one shift key.  The lemmas behind it say
  that characters that come one by one are those that come together (`TypedAppend`) and that
  a string of stars, edited and copied back, is the password edited (`MaskedTyped`,
  `MaskedKey`).
* `TasksProofs`: `TypeCorrect` (`TypeOK`), `BusiestListed` (`ListsBusiest`), `ExactTicks`
  (`TicksExact`) and `ManagedOnly` (`OnlyManaged`), for any ids, table size, number of rows and
  bound of the ticks.  Open addressing: the table is only ever filled, so that between the
  first slot of an id and the one where it lies no slot is free (`Placed`), nobody has two
  entries (`Distinct`), a search for an id in the table ends at it (`FindThere`) and one for
  another returns 0 (`FindNot`).  `Books` says which of the two tables accounts for a process
  while the scan is on its way: the old one until the visit, the new one after it.
  `InsertRowCases` and `InsertRowKeeps` describe one insertion into a descending list;
  `ListInv` adds to `ListsBusiest` that ids not yet visited have no figure.  `RowsTrue` says
  that what a row tells of an owner is still true unless the id was given away or the process
  has changed it.  `LeastNumber`,
  by well-founded induction over a set, gives the first free slot; no other induction is
  needed.
* `DisplayProofs`: `TypeCorrect`, `NeverDrawsUnmapped` (`DrawsMapped`), `NothingLeaks`
  (`AllReleased`), `DrawsOffScreen` (`OffScreenDrawing`).  `FieldsInv`: the fields name
  exactly what the kernel keeps; `MappedInv`: a buffer the loop may choose is mapped;
  `FrontInv`: the front buffer is on the screen or on its way.
* `LeavingProofs`: `TypeCorrect` (for any number of rounds and processes no loop runs past
  its bound) and `MasterReleased` (`MasterFree`).  `MasterFree` names the
  steps at which mastership matters; `Released` says it of every step after the helper
  has begun to act, the waits in between included.  It rests on two facts: no step gives
  mastership to anybody (`MasterOnlyGivenUp`), and every way into an acting step drops it
  (`ActingStarts`).
* `AuthProofs`: `TypeCorrect`, `DispositionRestored` (`ReapingRestored`), `OnlyByAuthority`
  (`AcceptedByAuthority`), `NeverRefused` (`RightPasswordAccepted`), `NeverFalselyChanged`
  (`ChangedMeansStored`), for terminals that hold any number of texts.  `TypeInv` adds that
  a program exists only during a conversation, asks only its own questions, and that the
  disposition to return to is the loop's (`Apart`, `Asking`, `Reaping`).  `Grounds` follows
  an acceptance from the right answer over the program's exit to the verdict; `Evidence`
  follows a change from the store over the text on its way and the exit status to the
  message.

Only model-checked: the liveness properties, since fairness and ENABLED are out of the
prover's reach.  Every safety property that a run checks is a theorem.

## Not modelled

Pixels, layout and translations; the selection by arrow keys and the codes sent to the
shell; `scan_sessions`, `scan_sysinfo` and the parsing of `/proc`, `/etc` and sysfs; memory
safety of string helpers; the vendored codecs, busybox, libtsm and, but for its text
editor, nuklear; the build and install scripts.  In the environment: a second keyboard, a
third program that switches VTs while the GUI runs, a GPU that is unplugged.
