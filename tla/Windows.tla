------------------------------ MODULE Windows -------------------------------
(***************************************************************************)
(* The frame loop of the rescue GUI (cad_rescue_gui.c): which windows are  *)
(* open, the dialog that asks for the administrator's password, the rights *)
(* it gives, and the shell behind the terminal window.                     *)
(*                                                                         *)
(* A frame takes its snapshots, collects the mouse and the shell's end,    *)
(* handles its key events in order, then runs the windows from back to     *)
(* front, the dialog among them, and last the two manual buttons.  A key   *)
(* sees what the keys before it changed, but is_modal is the dialog as it  *)
(* was when the frame began.                                               *)
(*                                                                         *)
(* Which button the arrow keys have selected, and which one a click meets, *)
(* is any of those that are drawn.  The filters on clicks are the subject  *)
(* of module Mouse, the answer of verify_root_password that of Auth, the   *)
(* rows of the task manager that of Tasks.  libtsm's screen exists.        *)
(***************************************************************************)
EXTENDS Naturals, Sequences

CONSTANTS Pids,     \* process ids for shells
          NoShell,  \* term_pty == NULL
          NeedsPassword, \* neither su, sudo nor the hash accepts an empty password
          MaxKeys   \* bound: key events handled in one frame

ASSUME WindowsAssumption ==
    NoShell \notin Pids /\ NeedsPassword \in BOOLEAN /\ MaxKeys \in Nat

Panels == {"terminal", "taskmgr", "run", "change", "switch", "power"}
MenuButtons == {"lock", "switch", "signout", "change", "taskmgr", "run", "cancel"}
ManualButtons == {"terminal", "power"}
Snapped == {"run", "change", "switch"}
Modes == {"bash", "busybox"}
Texts == {"empty", "typed"}
Enters == {"enter", "kpenter"}
NoProc == [root |-> FALSE, mode |-> "none"]
Shells == [root : BOOLEAN, mode : Modes]

VARIABLES
    phase,              \* where the frame is
    running,            \* the condition of the loop
    kbd,                \* journal.kbd_fd >= 0
    keys,               \* key events handled in this frame
    click,              \* the mouse button went down in this frame
    keyboard_active,    \* the mouse is hidden
    shown,              \* the windows whose show_ flag is set
    snap,               \* snap_run, snap_change, snap_switch: open as the frame began
    snap_prompt,        \* the dialog was open as the frame began
    prev_show_terminal, \* so was the terminal
    trigger_action,     \* the button the keyboard or a manual button pressed
    commit,             \* Enter for the front window: cp_enter_pressed, is_enter_pressed
    text,               \* characters typed in this frame, for nuklear
    \* the dialog
    show_password_prompt,
    pwd_prompt_source,
    pwd_enter_pressed,
    root_pwd_buffer,    \* whether it holds anything
    \* the rights
    root_authorized, terminal_root_mode, taskmgr_root_mode, run_as_root,
    \* the terminal
    terminal_mode,
    busybox_memfd,      \* the copy of busybox in memory could be made
    term_pty,           \* the shell the window is connected to
    proc,               \* the shells that run
    \* after the loop
    run_command_ready,
    ran                 \* the rights the command was run with

frameVars  == <<phase, running, keys, click, keyboard_active>>
localVars  == <<snap, snap_prompt, trigger_action, commit, text>>
promptVars == <<show_password_prompt, pwd_prompt_source, pwd_enter_pressed, root_pwd_buffer>>
rightVars  == <<root_authorized, terminal_root_mode, taskmgr_root_mode, run_as_root>>
shellVars  == <<terminal_mode, term_pty, proc>>
runVars    == <<run_command_ready, ran>>
vars == <<frameVars, kbd, prev_show_terminal, localVars, shown, promptVars, rightVars,
          busybox_memfd, shellVars, runVars>>

\* The dialog as it was when the frame began.
is_modal == snap_prompt

-----------------------------------------------------------------------------
(* Shells.                                                                 *)

\* close_current_pty: the descriptor goes, and the shell with its group.
Closed == IF term_pty = NoShell THEN proc ELSE [proc EXCEPT ![term_pty] = NoProc]

\* launch_terminal_shell: no terminal or no process, and term_pty stays NULL; or
\* a child with the rights of terminal_root_mode.
Launch(procs, root, mode) ==
    \/ /\ term_pty' = NoShell
       /\ proc' = procs
    \/ \E p \in Pids :
          /\ procs[p] = NoProc
          /\ term_pty' = p
          /\ proc' = [procs EXCEPT ![p] = [root |-> root, mode |-> mode]]

close_current_pty ==
    /\ term_pty' = NoShell
    /\ proc' = Closed

\* The old shell is closed before a new one is launched.
Relaunch(root, mode) == Launch(Closed, root, mode)

\* A shell ends: exit, a failed exec, a kill.  SIGCHLD has SA_NOCLDWAIT.
ShellExits ==
    /\ phase # "left"
    /\ \E p \in Pids :
          /\ proc[p] # NoProc
          /\ proc' = [proc EXCEPT ![p] = NoProc]
    /\ UNCHANGED <<frameVars, kbd, prev_show_terminal, localVars, shown, promptVars,
                   rightVars, busybox_memfd, terminal_mode, term_pty, runVars>>

ShellEnded == term_pty # NoShell /\ proc[term_pty] = NoProc

-----------------------------------------------------------------------------
(* The beginning of a frame.                                               *)

\* Mutant: the memset of the buffer is optimised away.
KeptPassword == root_pwd_buffer

\* secure_clear_buffer
ClearedPassword == "empty"

\* Mutant: the window of a shell that has ended stays open.
PtyDispatchIgnored(open) == shown' = open /\ UNCHANGED term_pty

\* The output of the shell is read, and its end noticed, only with a keyboard.
PtyDispatch(open) ==
    IF kbd /\ ShellEnded
    THEN term_pty' = NoShell /\ shown' = open \ {"terminal"}
    ELSE UNCHANGED term_pty /\ shown' = open

\* The mouse does not move, moves, or its button goes down.  Leaving the keyboard
\* costs the first click.  A click on a manual button is not one on a window.
MouseInput ==
    \/ UNCHANGED keyboard_active /\ click' = FALSE /\ trigger_action' = "none"
    \/ keyboard_active' = FALSE /\ click' = FALSE /\ trigger_action' = "none"
    \/ /\ ~keyboard_active /\ UNCHANGED keyboard_active
       /\ \/ click' = TRUE /\ trigger_action' = "none"
          \/ /\ ~show_password_prompt
             /\ click' = FALSE /\ trigger_action' \in ManualButtons

\* A click beside the open power menu closes it, and is still seen by the windows.
AfterClick == IF show_password_prompt THEN {shown} ELSE {shown, shown \ {"power"}}

\* The test of the loop, the snapshots, the mouse, the wiping of a buffer whose
\* dialog is closed, the shell.
FrameBegins ==
    /\ phase = "frame" /\ running
    /\ phase' = "keys"
    /\ keys' = 0
    /\ commit' = FALSE /\ text' = FALSE
    /\ snap_prompt' = show_password_prompt
    /\ snap' = shown \cap Snapped
    /\ prev_show_terminal' = ("terminal" \in shown)
    /\ MouseInput
    /\ root_pwd_buffer' = IF show_password_prompt THEN root_pwd_buffer ELSE ClearedPassword
    /\ \E open \in IF click' THEN AfterClick ELSE {shown} : PtyDispatch(open)
    /\ UNCHANGED <<running, kbd, show_password_prompt,
                   pwd_prompt_source, pwd_enter_pressed, rightVars, busybox_memfd,
                   terminal_mode, proc, runVars>>

-----------------------------------------------------------------------------
(* The key events of a frame.  A release changes nothing here.             *)

KeyEvent ==
    /\ phase = "keys" /\ kbd /\ keys < MaxKeys
    /\ keys' = keys + 1
    /\ UNCHANGED <<phase, click, kbd, prev_show_terminal, snap, snap_prompt,
                   busybox_memfd, shellVars, runVars>>

\* The terminal takes the keys, unless the dialog was there when the frame began.
ToShell == "terminal" \in shown /\ ~is_modal

\* Escape hides the terminal, whose shell FrameEnds closes; any other key goes to the
\* shell.
KeyToShell ==
    /\ KeyEvent /\ ToShell
    /\ shown' \in {shown, shown \ {"terminal"}}
    /\ UNCHANGED <<running, keyboard_active, trigger_action, commit, text, promptVars, rightVars>>

\* The dialog is closed; one opened for the run command takes its tick back.
PromptCancelled ==
    /\ show_password_prompt' = FALSE
    /\ run_as_root' = IF pwd_prompt_source = "run" THEN FALSE ELSE run_as_root

\* The order in which Escape looks for something to close.
EscapeOrder == <<"taskmgr", "run", "change", "switch", "power">>

Escapes(i) ==
    /\ EscapeOrder[i] \in shown
    /\ \A j \in 1..(i - 1) : EscapeOrder[j] \notin shown

KeyEscape ==
    /\ KeyEvent /\ ~ToShell
    /\ \/ /\ show_password_prompt
          /\ PromptCancelled
          /\ UNCHANGED <<running, shown>>
       \/ /\ ~show_password_prompt
          /\ \E i \in 1..5 : Escapes(i) /\ shown' = shown \ {EscapeOrder[i]}
          /\ UNCHANGED <<running, show_password_prompt, run_as_root>>
       \/ /\ ~show_password_prompt /\ shown \subseteq {"terminal"}
          /\ running' = FALSE
          /\ UNCHANGED <<shown, show_password_prompt, run_as_root>>
    /\ UNCHANGED <<keyboard_active, trigger_action, commit, text, pwd_prompt_source,
                   pwd_enter_pressed, root_pwd_buffer, root_authorized, terminal_root_mode,
                   taskmgr_root_mode>>

\* Tab and the arrows move the focus or the selection of the window in front, and hide
\* the mouse; neither the run window nor a dialog closed in this frame looks at them.
KeyFocus ==
    /\ KeyEvent /\ ~ToShell
    /\ \/ show_password_prompt \/ shown \cap {"change", "switch"} # {}
       \/ ~is_modal /\ (shown \cap {"taskmgr", "power"} # {} \/ shown = {})
    /\ keyboard_active' = TRUE
    /\ UNCHANGED <<running, shown, trigger_action, commit, text, promptVars, rightVars>>

\* Cancel, if it has the focus, is chosen by Space or by the main Enter; everything
\* else submits, a space in the password field too.
KeySubmit(k) ==
    /\ KeyEvent /\ ~ToShell /\ show_password_prompt
    /\ keyboard_active' = TRUE
    /\ \/ k # "kpenter" /\ PromptCancelled /\ UNCHANGED pwd_enter_pressed
       \/ pwd_enter_pressed' = TRUE /\ UNCHANGED <<show_password_prompt, run_as_root>>
    /\ UNCHANGED <<running, shown, trigger_action, commit, text, pwd_prompt_source,
                   root_pwd_buffer, root_authorized, terminal_root_mode, taskmgr_root_mode>>

\* A character or a Backspace, for whichever field nuklear runs in this frame; what
\* it becomes there is the subject of module Typing.
KeyText ==
    /\ KeyEvent /\ ~ToShell
    /\ text' = TRUE
    /\ UNCHANGED <<running, keyboard_active, shown, trigger_action, commit, promptVars,
                   rightVars>>

\* Enter or Space in the window to change the password, or to switch users: apply,
\* close, or show the passwords; the switch window waits for the widgets.
KeyForm ==
    /\ KeyEvent /\ ~ToShell /\ ~show_password_prompt
    /\ shown \cap {"change", "switch"} # {}
    /\ keyboard_active' = TRUE
    /\ \/ commit' = TRUE /\ UNCHANGED shown
       \/ "change" \in shown /\ shown' = shown \ {"change"} /\ UNCHANGED commit
       \/ "change" \in shown /\ UNCHANGED <<shown, commit>>
    /\ UNCHANGED <<running, trigger_action, text, promptVars, rightVars>>

\* Enter elsewhere: a row of the task manager (Space too), an entry of the power
\* menu, the run command's field if it has the focus, or the menu (main Enter only).
KeyEnter(k) ==
    /\ KeyEvent /\ ~ToShell /\ ~show_password_prompt /\ ~is_modal
    /\ shown \cap {"change", "switch"} = {}
    /\ keyboard_active' = TRUE
    /\ \/ /\ "taskmgr" \in shown
          /\ trigger_action' = "row"
          /\ UNCHANGED <<running, shown, commit>>
       \/ /\ "taskmgr" \notin shown /\ "power" \in shown /\ k # "space"
          /\ \/ shown' = shown \ {"power"} /\ UNCHANGED running
             \/ running' = FALSE /\ UNCHANGED shown
          /\ UNCHANGED <<trigger_action, commit>>
       \/ /\ "run" \in shown /\ shown \cap {"taskmgr", "power"} = {} /\ k # "space"
          /\ commit' \in BOOLEAN
          /\ UNCHANGED <<running, shown, trigger_action>>
       \/ /\ shown = {} /\ k = "enter"
          /\ trigger_action' \in MenuButtons \cup ManualButtons
          /\ UNCHANGED <<running, shown, commit>>
    /\ UNCHANGED <<text, promptVars, rightVars>>

\* Enter after an Escape that closed the dialog in this frame is seen by nuklear only.
KeyEnterLate ==
    /\ KeyEvent /\ ~ToShell /\ ~show_password_prompt /\ is_modal
    /\ shown # {} /\ shown \cap {"change", "switch"} = {}
    /\ commit' \in BOOLEAN
    /\ UNCHANGED <<running, keyboard_active, shown, trigger_action, text, promptVars,
                   rightVars>>

\* No more events: the windows are run.
KeysEnd ==
    /\ phase = "keys"
    /\ phase' = "windows"
    /\ keys' = 0
    /\ UNCHANGED <<running, click, keyboard_active, kbd, prev_show_terminal, localVars,
                   shown, promptVars, rightVars, busybox_memfd, shellVars, runVars>>

-----------------------------------------------------------------------------
(* The windows.  At most one widget is used in a frame: a click meets one, *)
(* and the keyboard hides the mouse.  The frame's own variables are        *)
(* forgotten as soon as nothing reads them.                                *)

WindowStep ==
    /\ phase = "windows" /\ phase' = "dialog"
    /\ trigger_action' = IF trigger_action \in ManualButtons THEN trigger_action ELSE "none"
    /\ snap' = {}
    /\ UNCHANGED <<keys, click, kbd, prev_show_terminal, snap_prompt, commit, text,
                   busybox_memfd, ran>>

Clicked == click /\ ~keyboard_active

\* Mutant: a window does not look whether the dialog is in front of it.
BehindAlways(w) == WindowStep /\ w \in shown

\* A window that is run: open, and no dialog in front of it.
Behind(w) == WindowStep /\ ~show_password_prompt /\ w \in shown

MenuVisible == ~show_password_prompt /\ shown \subseteq {"power"}

Opened(b) == CASE b = "taskmgr" -> shown \cup {"taskmgr"}
               [] b \in {"switch", "change", "run"} -> {b}
               [] OTHER -> shown

\* The main menu.  Lock needs a known lock command.
MenuButton(b) ==
    /\ WindowStep /\ MenuVisible
    /\ Clicked \/ trigger_action = b
    /\ shown' = Opened(b)
    /\ running' \in CASE b = "lock" -> {running, FALSE}
                      [] b \in {"signout", "cancel"} -> {FALSE}
                      [] OTHER -> {running}
    /\ UNCHANGED <<keyboard_active, promptVars, rightVars, shellVars, run_command_ready>>

\* The dialog is opened, empty, on behalf of w.
OpenPrompt(w) ==
    /\ show_password_prompt' = TRUE
    /\ pwd_prompt_source' = w
    /\ root_pwd_buffer' = ClearedPassword
    /\ keyboard_active' = TRUE
    /\ UNCHANGED pwd_enter_pressed

\* The button for the rights of the shell: back to the user, to root, or the dialog.
TerminalRights ==
    /\ Behind("terminal") /\ Clicked
    /\ \/ /\ terminal_root_mode \/ root_authorized
          /\ terminal_root_mode' = ~terminal_root_mode
          /\ Relaunch(terminal_root_mode', terminal_mode)
          /\ UNCHANGED <<keyboard_active, promptVars>>
       \/ /\ ~terminal_root_mode /\ ~root_authorized
          /\ OpenPrompt("terminal")
          /\ UNCHANGED <<terminal_root_mode, term_pty, proc>>
    /\ UNCHANGED <<running, shown, root_authorized, taskmgr_root_mode, run_as_root,
                   terminal_mode, run_command_ready>>

\* Mutant: the shell in use is kept.
TerminalModeKeeps(m) ==
    /\ Behind("terminal") /\ Clicked
    /\ terminal_mode # m
    /\ m = "busybox" => busybox_memfd
    /\ terminal_mode' = m
    /\ UNCHANGED <<term_pty, proc>>
    /\ UNCHANGED <<running, keyboard_active, shown, promptVars, rightVars, run_command_ready>>

\* The buttons bash and busybox; whether the launch succeeds is not looked at.
TerminalMode(m) ==
    /\ Behind("terminal") /\ Clicked
    /\ terminal_mode # m
    /\ m = "busybox" => busybox_memfd
    /\ terminal_mode' = m
    /\ Relaunch(terminal_root_mode, m)
    /\ UNCHANGED <<running, keyboard_active, shown, promptVars, rightVars, run_command_ready>>

TaskManagerRights ==
    /\ Behind("taskmgr") /\ Clicked
    /\ \/ /\ taskmgr_root_mode \/ root_authorized
          /\ taskmgr_root_mode' = ~taskmgr_root_mode
          /\ UNCHANGED <<keyboard_active, promptVars>>
       \/ /\ ~taskmgr_root_mode /\ ~root_authorized
          /\ OpenPrompt("taskmgr")
          /\ UNCHANGED taskmgr_root_mode
    /\ UNCHANGED <<running, shown, root_authorized, terminal_root_mode, run_as_root,
                   shellVars, run_command_ready>>

\* Mutant: the box is ticked while the password is still asked for.
RunRightsEager ==
    /\ Behind("run") /\ "run" \in snap /\ Clicked
    /\ run_as_root' = ~run_as_root
    /\ IF run_as_root \/ root_authorized THEN UNCHANGED <<keyboard_active, promptVars>>
                                         ELSE OpenPrompt("run")
    /\ UNCHANGED <<running, shown, root_authorized, terminal_root_mode, taskmgr_root_mode,
                   shellVars, run_command_ready>>

\* The box "execute as root" of the run window.
RunRights ==
    /\ Behind("run") /\ "run" \in snap /\ Clicked
    /\ \/ /\ run_as_root \/ root_authorized
          /\ run_as_root' = ~run_as_root
          /\ UNCHANGED <<keyboard_active, promptVars>>
       \/ /\ ~run_as_root /\ ~root_authorized
          /\ OpenPrompt("run")
          /\ UNCHANGED run_as_root
    /\ UNCHANGED <<running, shown, root_authorized, terminal_root_mode, taskmgr_root_mode,
                   shellVars, run_command_ready>>

\* The command is kept for after the loop.
RunCommand ==
    /\ Behind("run") /\ "run" \in snap
    /\ Clicked \/ commit
    /\ run_command_ready' = TRUE
    /\ running' = FALSE
    /\ UNCHANGED <<keyboard_active, shown, promptVars, rightVars, shellVars>>

\* A session, or a new one, is chosen; so is the next power state.
LeaveFrom(w) ==
    /\ Behind(w)
    /\ \/ w = "switch" /\ w \in snap /\ (Clicked \/ commit)
       \/ w = "power" /\ Clicked
    /\ running' = FALSE
    /\ shown' = shown \ {w}
    /\ UNCHANGED <<keyboard_active, promptVars, rightVars, shellVars, run_command_ready>>

\* The close buttons, and Sleep, which closes the menu.  The shell of a terminal that
\* is closed is left to FrameEnds.
CloseWindow(w) ==
    /\ Behind(w)
    /\ \/ Clicked
       \/ w = "taskmgr" /\ trigger_action = "row"
       \/ w = "switch" /\ commit
    /\ w \in Snapped => w \in snap
    /\ shown' = shown \ {w}
    /\ UNCHANGED <<running, keyboard_active, promptVars, rightVars, shellVars,
                   run_command_ready>>

\* No widget of this module is used.
NoWidget ==
    /\ WindowStep
    /\ ~(MenuVisible /\ trigger_action \in MenuButtons)
    /\ UNCHANGED <<running, keyboard_active, shown, promptVars, rightVars, shellVars,
                   run_command_ready>>

-----------------------------------------------------------------------------
(* The dialog, the manual buttons and the end of the loop.                 *)

DialogStep ==
    /\ phase = "dialog" /\ phase' = "manual"
    /\ click' = FALSE /\ commit' = FALSE /\ text' = FALSE
    /\ UNCHANGED <<running, keys, keyboard_active, kbd, prev_show_terminal, snap,
                   snap_prompt, trigger_action, shown, pwd_prompt_source, busybox_memfd,
                   terminal_mode, runVars>>

NoDialog ==
    /\ DialogStep /\ ~show_password_prompt
    /\ UNCHANGED <<show_password_prompt, pwd_enter_pressed, root_pwd_buffer, rightVars,
                   term_pty, proc>>

\* verify_root_password: what was typed is the password or not.
Verdicts(held) == IF held = "empty" /\ NeedsPassword THEN {FALSE} ELSE BOOLEAN

\* What an accepted password is for.
Granted ==
    /\ root_authorized' = TRUE
    /\ IF pwd_prompt_source = "terminal"
       THEN terminal_root_mode' = TRUE /\ Relaunch(TRUE, terminal_mode)
       ELSE UNCHANGED <<terminal_root_mode, term_pty, proc>>
    /\ taskmgr_root_mode' = (taskmgr_root_mode \/ pwd_prompt_source = "taskmgr")

\* The dialog's widgets, in their order: the close button of the title does not
\* keep the rest from running, so that a submission beside it still counts; a
\* click on cancel comes last.
Dialog(c) ==
    /\ DialogStep /\ show_password_prompt
    /\ c # "none" => Clicked /\ is_modal
    /\ LET submitted == c = "submit" \/ pwd_enter_pressed \/ commit
       IN \E held \in IF text THEN Texts ELSE {root_pwd_buffer} :
          \E accepted \in IF submitted THEN Verdicts(held) ELSE {FALSE} :
            /\ IF accepted THEN Granted
               ELSE UNCHANGED <<root_authorized, terminal_root_mode, taskmgr_root_mode,
                                term_pty, proc>>
            /\ show_password_prompt' = (~accepted /\ c \notin {"close", "cancel"})
            /\ run_as_root' = IF pwd_prompt_source # "run" THEN run_as_root
                              ELSE c # "cancel" /\ (accepted \/ (run_as_root /\ c # "close"))
            /\ root_pwd_buffer' = IF submitted THEN ClearedPassword ELSE held
    /\ pwd_enter_pressed' = FALSE

ManualStep ==
    /\ phase = "manual" /\ phase' = "end"
    /\ trigger_action' = "none" /\ snap_prompt' = FALSE
    /\ UNCHANGED <<running, keys, click, keyboard_active, kbd, prev_show_terminal, snap,
                   commit, text, promptVars, rightVars, busybox_memfd, terminal_mode,
                   runVars>>

\* The terminal is opened, with a new shell if it has none, or closed; the run
\* window is left as it is.
TerminalButton ==
    /\ ManualStep /\ trigger_action = "terminal"
    /\ LET rest == shown \cap {"run"}
       IN \/ /\ "terminal" \in shown
             /\ shown' = rest
             /\ UNCHANGED <<term_pty, proc>>
          \/ /\ "terminal" \notin shown /\ term_pty # NoShell
             /\ shown' = rest \cup {"terminal"}
             /\ UNCHANGED <<term_pty, proc>>
          \/ /\ "terminal" \notin shown /\ term_pty = NoShell
             /\ Launch(proc, terminal_root_mode, terminal_mode)
             /\ shown' = IF term_pty' = NoShell THEN rest ELSE rest \cup {"terminal"}

PowerButton ==
    /\ ManualStep /\ trigger_action = "power"
    /\ shown' = IF "power" \in shown THEN {} ELSE {"power"}
    /\ UNCHANGED <<term_pty, proc>>

NoManualButton ==
    /\ ManualStep /\ trigger_action \notin ManualButtons
    /\ UNCHANGED <<shown, term_pty, proc>>

FrameEnd ==
    /\ phase = "end" /\ phase' = "frame"
    /\ UNCHANGED <<running, keys, click, keyboard_active, kbd, prev_show_terminal, localVars,
                   shown, promptVars, rightVars, busybox_memfd, terminal_mode, runVars>>

\* Mutant: a terminal closed by the power menu keeps its shell.
FrameEndsKeeps ==
    /\ FrameEnd
    /\ IF prev_show_terminal /\ shown = {} THEN close_current_pty
                                           ELSE UNCHANGED <<term_pty, proc>>

\* cleanup_terminal_session: whatever closed the terminal during this frame, its shell
\* goes now.  A terminal that was closed and opened again keeps it.
FrameEnds ==
    /\ FrameEnd
    /\ IF prev_show_terminal /\ "terminal" \notin shown THEN close_current_pty
                                                      ELSE UNCHANGED <<term_pty, proc>>

\* What the command that was kept is run with.
RunWith == IF ~run_command_ready THEN "none" ELSE IF run_as_root THEN "root" ELSE "user"

\* Mutant: the shell outlives the loop.
LeaveShell ==
    /\ phase = "frame" /\ ~running
    /\ phase' = "left"
    /\ ran' = RunWith
    /\ UNCHANGED <<running, keys, click, keyboard_active, kbd, prev_show_terminal,
                   localVars, shown, promptVars, rightVars, busybox_memfd, shellVars,
                   run_command_ready>>

\* The loop has ended: the shell is closed, the display given back, and then the
\* command is run.
Leave ==
    /\ phase = "frame" /\ ~running
    /\ phase' = "left"
    /\ close_current_pty
    /\ ran' = RunWith
    /\ UNCHANGED <<running, keys, click, keyboard_active, kbd, prev_show_terminal,
                   localVars, shown, promptVars, rightVars, busybox_memfd,
                   terminal_mode, run_command_ready>>

Ended == phase = "left" /\ UNCHANGED vars

-----------------------------------------------------------------------------
(* The first shell is launched before the first frame.                     *)
Init ==
    /\ phase = "frame" /\ running = TRUE
    /\ kbd \in BOOLEAN
    /\ keys = 0 /\ click = FALSE /\ keyboard_active = TRUE
    /\ shown = {}
    /\ snap = {} /\ snap_prompt = FALSE /\ prev_show_terminal = FALSE
    /\ trigger_action = "none" /\ commit = FALSE /\ text = FALSE
    /\ show_password_prompt = FALSE /\ pwd_prompt_source = "none"
    /\ pwd_enter_pressed = FALSE /\ root_pwd_buffer = "empty"
    /\ root_authorized = FALSE /\ terminal_root_mode = FALSE
    /\ taskmgr_root_mode = FALSE /\ run_as_root = FALSE
    /\ terminal_mode = "bash"
    /\ busybox_memfd \in BOOLEAN
    /\ term_pty \in Pids \cup {NoShell}
    /\ proc = [p \in Pids |-> IF p = term_pty THEN [root |-> FALSE, mode |-> "bash"]
                                              ELSE NoProc]
    /\ run_command_ready = FALSE /\ ran = "none"

\* What the user types.
Key ==
    \/ KeyToShell
    \/ KeyEscape
    \/ KeyFocus
    \/ \E k \in Enters \cup {"space"} : KeySubmit(k) \/ KeyEnter(k)
    \/ KeyText
    \/ KeyForm
    \/ KeyEnterLate

Window ==
    \/ \E b \in MenuButtons : MenuButton(b)
    \/ TerminalRights
    \/ \E m \in Modes : TerminalMode(m)
    \/ TaskManagerRights
    \/ RunRights
    \/ RunCommand
    \/ \E w \in {"switch", "power"} : LeaveFrom(w)
    \/ \E w \in Panels : CloseWindow(w)
    \/ NoWidget

\* The steps of the loop itself.
Loop ==
    \/ FrameBegins
    \/ KeysEnd
    \/ Window
    \/ NoDialog
    \/ \E c \in {"none", "close", "submit", "cancel"} : Dialog(c)
    \/ TerminalButton
    \/ PowerButton
    \/ NoManualButton
    \/ FrameEnds
    \/ Leave

Next == Key \/ Loop \/ ShellExits \/ Ended

Spec == Init /\ [][Next]_vars

\* The loop never sleeps on anything but the display: it goes on.
FairSpec == Spec /\ WF_vars(Loop)

-----------------------------------------------------------------------------
(* Properties.                                                             *)

TypeOK ==
    /\ phase \in {"frame", "keys", "windows", "dialog", "manual", "end", "left"}
    /\ running \in BOOLEAN /\ kbd \in BOOLEAN /\ keys \in 0..MaxKeys
    /\ click \in BOOLEAN /\ keyboard_active \in BOOLEAN
    /\ shown \subseteq Panels
    /\ snap \subseteq Snapped /\ snap_prompt \in BOOLEAN /\ prev_show_terminal \in BOOLEAN
    /\ trigger_action \in MenuButtons \cup ManualButtons \cup {"row", "none"}
    /\ commit \in BOOLEAN /\ text \in BOOLEAN
    /\ show_password_prompt \in BOOLEAN
    /\ pwd_prompt_source \in {"none", "terminal", "taskmgr", "run"}
    /\ pwd_enter_pressed \in BOOLEAN /\ root_pwd_buffer \in Texts
    /\ root_authorized \in BOOLEAN /\ terminal_root_mode \in BOOLEAN
    /\ taskmgr_root_mode \in BOOLEAN /\ run_as_root \in BOOLEAN
    /\ terminal_mode \in Modes /\ busybox_memfd \in BOOLEAN
    /\ term_pty \in Pids \cup {NoShell}
    /\ proc \in [Pids -> Shells \cup {NoProc}]
    /\ run_command_ready \in BOOLEAN /\ ran \in {"none", "user", "root"}

\* p has the rights and the mode that the terminal's buttons show.
Indicated(p) == proc[p] = [root |-> terminal_root_mode, mode |-> terminal_mode]

\* A shell that runs is the one the terminal is connected to, with the rights that the
\* label of the rights button tells and in the mode that is highlighted: no toggle,
\* change of mode, failed launch, submission or exit leaves another one behind.
IndicatorTruthful == \A p \in Pids : proc[p] # NoProc => term_pty = p /\ Indicated(p)

\* A frame that began with the terminal open ends with it open or with its shell gone,
\* whether Escape, the close button, the toggle, the power menu, another window or the
\* end of the shell itself closed it, and whatever dialog was answered meanwhile: no
\* shell that was in use runs on behind a closed terminal.
ClosedTerminalGone ==
    phase = "frame" /\ prev_show_terminal /\ "terminal" \notin shown =>
        term_pty = NoShell /\ \A p \in Pids : proc[p] = NoProc

\* Nothing runs, and nothing may be managed, with root's rights unless the password
\* was accepted: neither a shell, the task manager, the run box nor the command run
\* after the loop, whatever was opened, cancelled or submitted in between.
RootOnlyAuthorized ==
    /\ \A p \in Pids : proc[p].root => root_authorized
    /\ taskmgr_root_mode \/ run_as_root \/ ran = "root" => root_authorized

\* pwd_enter_pressed outlives a dialog that is closed in the frame of the Enter, and
\* then submits the next one as it opens.  Such a submission authorizes nothing: in
\* its first frame a dialog holds nothing but what was typed in that very frame.
StaleEnterHarmless ==
    [][NeedsPassword /\ phase = "dialog" /\ ~snap_prompt /\ ~text
        => root_authorized' = root_authorized]_vars

\* While the dialog is up the windows behind it are out of reach: the loop does not
\* end, and no window is opened or closed but that of a shell that has ended.
DialogIsModal ==
    [][show_password_prompt /\ snap_prompt /\ show_password_prompt'
        => running' = running /\ shown' \in {shown, shown \ {"terminal"}}]_vars

\* With a keyboard, the end of the shell is noticed: its window closes or it is
\* replaced, and the loop does not keep a terminal connected to nothing.
ShellEndNoticed == (kbd /\ ShellEnded) ~> ~ShellEnded

\* Once running is 0 the loop is left, with no shell alive.
LoopEnds == ~running ~> (phase = "left" /\ \A p \in Pids : proc[p] = NoProc)
=============================================================================
