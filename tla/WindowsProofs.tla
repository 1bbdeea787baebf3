--------------------------- MODULE WindowsProofs ----------------------------
(***************************************************************************)
(* Theorems about Windows, for any number of process ids and of key events *)
(* in a frame.                                                             *)
(***************************************************************************)
EXTENDS Windows, TLAPS

\* The two halves of the type invariant: the flags, and the rest.
FlagsOK ==
    /\ running \in BOOLEAN /\ kbd \in BOOLEAN /\ click \in BOOLEAN
    /\ keyboard_active \in BOOLEAN /\ snap_prompt \in BOOLEAN
    /\ prev_show_terminal \in BOOLEAN
    /\ commit \in BOOLEAN /\ text \in BOOLEAN
    /\ show_password_prompt \in BOOLEAN /\ pwd_enter_pressed \in BOOLEAN
    /\ root_authorized \in BOOLEAN /\ terminal_root_mode \in BOOLEAN
    /\ taskmgr_root_mode \in BOOLEAN /\ run_as_root \in BOOLEAN
    /\ busybox_memfd \in BOOLEAN /\ run_command_ready \in BOOLEAN

ShellsOK == term_pty \in Pids \cup {NoShell} /\ proc \in [Pids -> Shells \cup {NoProc}]

ValuesOK ==
    /\ phase \in {"frame", "keys", "windows", "dialog", "manual", "end", "left"}
    /\ keys \in 0..MaxKeys
    /\ shown \subseteq Panels /\ snap \subseteq Snapped
    /\ trigger_action \in MenuButtons \cup ManualButtons \cup {"row", "none"}
    /\ pwd_prompt_source \in {"none", "terminal", "taskmgr", "run"}
    /\ root_pwd_buffer \in Texts /\ terminal_mode \in Modes
    /\ ran \in {"none", "user", "root"}

\* The halves make the whole.
LEMMA TypeParts ==
  /\ TypeOK <=> FlagsOK /\ ShellsOK /\ ValuesOK
  /\ TypeOK' <=> FlagsOK' /\ ShellsOK' /\ ValuesOK'
  BY Zenon DEF TypeOK, FlagsOK, ShellsOK, ValuesOK

\* The loop starts with one shell at most, and no dialog.
LEMMA InitType == Init => TypeOK
  <1> SUFFICES ASSUME Init PROVE TypeOK
    OBVIOUS
  <1>1. FlagsOK
    BY Zenon DEF Init, FlagsOK
  <1>2. ShellsOK
    BY DEF Init, ShellsOK, Shells, Modes
  <1>3. ValuesOK
    BY WindowsAssumption DEF Init, ValuesOK, Texts, Modes
  <1> QED  BY <1>1, <1>2, <1>3, TypeParts

\* A launch gives a shell of the rights and the mode asked for, or none.
LEMMA LaunchType ==
  ASSUME NEW procs \in [Pids -> Shells \cup {NoProc}], NEW root \in BOOLEAN,
         NEW mode \in Modes, Launch(procs, root, mode)
  PROVE  ShellsOK'
  BY DEF Launch, Shells, ShellsOK

\* Closing a shell leaves shells.
LEMMA ClosedType == ShellsOK => Closed \in [Pids -> Shells \cup {NoProc}]
  BY DEF ShellsOK, Closed

\* So does the launch of a shell in the place of another.
LEMMA RelaunchType ==
  ASSUME ShellsOK, NEW root \in BOOLEAN, NEW mode \in Modes, Relaunch(root, mode)
  PROVE  ShellsOK'
  BY ClosedType, LaunchType DEF Relaunch

\* The key events keep the types.
LEMMA KeyType == TypeOK /\ Key => TypeOK'
  <1> SUFFICES ASSUME TypeOK, Key PROVE TypeOK'
    OBVIOUS
  <1> USE DEF promptVars, rightVars
  <1>1. FlagsOK /\ ShellsOK /\ ValuesOK
    BY TypeParts
  <1>2. KeyEvent /\ UNCHANGED <<kbd, click, prev_show_terminal, snap_prompt,
                             busybox_memfd, run_command_ready>>
    BY DEF Key, KeyToShell, KeyEscape, KeyFocus, KeySubmit, KeyEnter, KeyText, KeyForm,
       KeyEnterLate, KeyEvent, runVars
  <1>3. /\ ShellsOK' /\ keys' \in 0..MaxKeys /\ snap' \subseteq Snapped
        /\ UNCHANGED <<phase, terminal_mode, ran>>
    BY <1>1, <1>2, WindowsAssumption DEF ShellsOK, ValuesOK, KeyEvent, shellVars, runVars
  <1>4. CASE KeyToShell
    <2>1. UNCHANGED <<running, keyboard_active, commit, text, show_password_prompt,
          pwd_enter_pressed, root_authorized, terminal_root_mode, taskmgr_root_mode,
          run_as_root>>
      BY <1>4 DEF KeyToShell
    <2>2. FlagsOK'
      BY <1>1, <1>2, <2>1 DEF FlagsOK
    <2>3. ValuesOK'
      BY <1>1, <1>3, <1>4 DEF ValuesOK, KeyToShell
    <2> QED  BY <2>2, <2>3, <1>3, TypeParts
  <1>5. CASE KeyEscape
    <2>1. running' \in BOOLEAN /\ show_password_prompt' \in BOOLEAN /\
          run_as_root' \in BOOLEAN
      BY <1>1, <1>5, Zenon DEF FlagsOK, KeyEscape, PromptCancelled
    <2>2. UNCHANGED <<keyboard_active, commit, text, pwd_enter_pressed, root_authorized,
          terminal_root_mode, taskmgr_root_mode>>
      BY <1>5 DEF KeyEscape, PromptCancelled
    <2>3. FlagsOK'
      BY <1>1, <1>2, <2>1, <2>2 DEF FlagsOK
    <2>4. ValuesOK'
      BY <1>1, <1>3, <1>5 DEF ValuesOK, KeyEscape, PromptCancelled
    <2> QED  BY <2>3, <2>4, <1>3, TypeParts
  <1>6. CASE KeyFocus
    <2>1. keyboard_active' \in BOOLEAN
      BY <1>1, <1>6, Zenon DEF FlagsOK, KeyFocus
    <2>2. UNCHANGED <<running, commit, text, show_password_prompt, pwd_enter_pressed,
          root_authorized, terminal_root_mode, taskmgr_root_mode, run_as_root>>
      BY <1>6 DEF KeyFocus
    <2>3. FlagsOK'
      BY <1>1, <1>2, <2>1, <2>2 DEF FlagsOK
    <2>4. ValuesOK'
      BY <1>1, <1>3, <1>6 DEF ValuesOK, KeyFocus
    <2> QED  BY <2>3, <2>4, <1>3, TypeParts
  <1>7. ASSUME NEW k \in Enters \cup {"space"}, KeySubmit(k) PROVE TypeOK'
    <2>1. keyboard_active' \in BOOLEAN /\ show_password_prompt' \in BOOLEAN /\
          pwd_enter_pressed' \in BOOLEAN /\ run_as_root' \in BOOLEAN
      BY <1>1, <1>7, Zenon DEF FlagsOK, KeySubmit, PromptCancelled
    <2>2. UNCHANGED <<running, commit, text, root_authorized, terminal_root_mode,
          taskmgr_root_mode>>
      BY <1>7 DEF KeySubmit, PromptCancelled
    <2>3. FlagsOK'
      BY <1>1, <1>2, <2>1, <2>2 DEF FlagsOK
    <2>4. ValuesOK'
      BY <1>1, <1>3, <1>7 DEF ValuesOK, KeySubmit, PromptCancelled
    <2> QED  BY <2>3, <2>4, <1>3, TypeParts
  <1>8. ASSUME NEW k \in Enters \cup {"space"}, KeyEnter(k) PROVE TypeOK'
    <2>1. keyboard_active' \in BOOLEAN /\ running' \in BOOLEAN /\ commit' \in BOOLEAN
      BY <1>1, <1>8, Zenon DEF FlagsOK, KeyEnter
    <2>2. UNCHANGED <<text, show_password_prompt, pwd_enter_pressed, root_authorized,
          terminal_root_mode, taskmgr_root_mode, run_as_root>>
      BY <1>8 DEF KeyEnter
    <2>3. FlagsOK'
      BY <1>1, <1>2, <2>1, <2>2 DEF FlagsOK
    <2>4. ValuesOK'
      BY <1>1, <1>3, <1>8 DEF ValuesOK, KeyEnter
    <2> QED  BY <2>3, <2>4, <1>3, TypeParts
  <1>9. CASE KeyText
    <2>1. text' \in BOOLEAN
      BY <1>1, <1>9, Zenon DEF FlagsOK, KeyText
    <2>2. UNCHANGED <<running, keyboard_active, commit, show_password_prompt,
          pwd_enter_pressed, root_authorized, terminal_root_mode, taskmgr_root_mode,
          run_as_root>>
      BY <1>9 DEF KeyText
    <2>3. FlagsOK'
      BY <1>1, <1>2, <2>1, <2>2 DEF FlagsOK
    <2>4. ValuesOK'
      BY <1>1, <1>3, <1>9 DEF ValuesOK, KeyText
    <2> QED  BY <2>3, <2>4, <1>3, TypeParts
  <1>10. CASE KeyForm
    <2>1. keyboard_active' \in BOOLEAN /\ commit' \in BOOLEAN
      BY <1>1, <1>10, Zenon DEF FlagsOK, KeyForm
    <2>2. UNCHANGED <<running, text, show_password_prompt, pwd_enter_pressed,
          root_authorized, terminal_root_mode, taskmgr_root_mode, run_as_root>>
      BY <1>10 DEF KeyForm
    <2>3. FlagsOK'
      BY <1>1, <1>2, <2>1, <2>2 DEF FlagsOK
    <2>4. ValuesOK'
      BY <1>1, <1>3, <1>10 DEF ValuesOK, KeyForm
    <2> QED  BY <2>3, <2>4, <1>3, TypeParts
  <1>11. CASE KeyEnterLate
    <2>1. commit' \in BOOLEAN
      BY <1>1, <1>11, Zenon DEF FlagsOK, KeyEnterLate
    <2>2. UNCHANGED <<running, keyboard_active, text, show_password_prompt,
          pwd_enter_pressed, root_authorized, terminal_root_mode, taskmgr_root_mode,
          run_as_root>>
      BY <1>11 DEF KeyEnterLate
    <2>3. FlagsOK'
      BY <1>1, <1>2, <2>1, <2>2 DEF FlagsOK
    <2>4. ValuesOK'
      BY <1>1, <1>3, <1>11 DEF ValuesOK, KeyEnterLate
    <2> QED  BY <2>3, <2>4, <1>3, TypeParts
  <1> QED
    BY <1>4, <1>5, <1>6, <1>7, <1>8, <1>9, <1>10, <1>11 DEF Key

\* The windows keep the types.
LEMMA WindowType == TypeOK /\ Window => TypeOK'
  <1> SUFFICES ASSUME TypeOK, Window PROVE TypeOK'
    OBVIOUS
  <1> USE DEF promptVars, rightVars, shellVars
  <1>1. FlagsOK /\ ShellsOK /\ ValuesOK
    BY TypeParts
  <1>2. WindowStep /\ UNCHANGED <<click, kbd, prev_show_terminal, snap_prompt, commit,
                               text, busybox_memfd>>
    BY DEF Window, MenuButton, TerminalRights, TerminalMode, TaskManagerRights, RunRights,
       RunCommand, LeaveFrom, CloseWindow, NoWidget, Behind, WindowStep
  <1>3. /\ UNCHANGED <<keys, ran>> /\ phase' = "dialog" /\ snap' \subseteq Snapped
        /\ trigger_action' \in MenuButtons \cup ManualButtons \cup {"row", "none"}
    BY <1>1, <1>2 DEF ValuesOK, WindowStep
  <1>4. ASSUME NEW b \in MenuButtons, MenuButton(b) PROVE TypeOK'
    <2>1. running' \in BOOLEAN
      BY <1>1, <1>4, Zenon DEF FlagsOK, MenuButton
    <2>2. UNCHANGED <<keyboard_active, show_password_prompt, pwd_enter_pressed,
          root_authorized, terminal_root_mode, taskmgr_root_mode, run_as_root,
          run_command_ready>>
      BY <1>4 DEF MenuButton
    <2>3. FlagsOK'
      BY <1>1, <1>2, <2>1, <2>2 DEF FlagsOK
    <2>4. ValuesOK'
      BY <1>1, <1>3, <1>4 DEF ValuesOK, MenuButton, Opened, Panels, MenuButtons
    <2>5. ShellsOK'
      BY <1>1, <1>4 DEF ShellsOK, MenuButton
    <2> QED  BY <2>3, <2>4, <2>5, TypeParts
  <1>5. CASE TerminalRights
    <2>1. keyboard_active' \in BOOLEAN /\ show_password_prompt' \in BOOLEAN /\
          terminal_root_mode' \in BOOLEAN
      BY <1>1, <1>5, Zenon DEF FlagsOK, TerminalRights, OpenPrompt
    <2>2. UNCHANGED <<running, pwd_enter_pressed, root_authorized, taskmgr_root_mode,
          run_as_root, run_command_ready>>
      BY <1>5 DEF TerminalRights, OpenPrompt
    <2>3. FlagsOK'
      BY <1>1, <1>2, <2>1, <2>2 DEF FlagsOK
    <2>4. ValuesOK'
      BY <1>1, <1>3, <1>5 DEF ValuesOK, TerminalRights, OpenPrompt, ClearedPassword, Texts
    <2>5. ShellsOK'
      BY <1>1, <1>5, <2>1, RelaunchType DEF TerminalRights, ShellsOK, ValuesOK
    <2> QED  BY <2>3, <2>4, <2>5, TypeParts
  <1>6. ASSUME NEW m \in Modes, TerminalMode(m) PROVE TypeOK'
    <2>1. UNCHANGED <<running, keyboard_active, show_password_prompt, pwd_enter_pressed,
          root_authorized, terminal_root_mode, taskmgr_root_mode, run_as_root,
          run_command_ready>>
      BY <1>6 DEF TerminalMode
    <2>2. FlagsOK'
      BY <1>1, <1>2, <2>1 DEF FlagsOK
    <2>3. ValuesOK'
      BY <1>1, <1>3, <1>6 DEF ValuesOK, TerminalMode
    <2>4. ShellsOK'
      BY <1>1, <1>6, RelaunchType DEF TerminalMode, FlagsOK
    <2> QED  BY <2>2, <2>3, <2>4, TypeParts
  <1>7. CASE TaskManagerRights
    <2>1. keyboard_active' \in BOOLEAN /\ show_password_prompt' \in BOOLEAN /\
          taskmgr_root_mode' \in BOOLEAN
      BY <1>1, <1>7, Zenon DEF FlagsOK, TaskManagerRights, OpenPrompt
    <2>2. UNCHANGED <<running, pwd_enter_pressed, root_authorized, terminal_root_mode,
          run_as_root, run_command_ready>>
      BY <1>7 DEF TaskManagerRights, OpenPrompt
    <2>3. FlagsOK'
      BY <1>1, <1>2, <2>1, <2>2 DEF FlagsOK
    <2>4. ValuesOK'
      BY <1>1, <1>3, <1>7 DEF ValuesOK, TaskManagerRights, OpenPrompt, ClearedPassword,
         Texts
    <2>5. ShellsOK'
      BY <1>1, <1>7 DEF ShellsOK, TaskManagerRights
    <2> QED  BY <2>3, <2>4, <2>5, TypeParts
  <1>8. CASE RunRights
    <2>1. keyboard_active' \in BOOLEAN /\ show_password_prompt' \in BOOLEAN /\
          run_as_root' \in BOOLEAN
      BY <1>1, <1>8, Zenon DEF FlagsOK, RunRights, OpenPrompt
    <2>2. UNCHANGED <<running, pwd_enter_pressed, root_authorized, terminal_root_mode,
          taskmgr_root_mode, run_command_ready>>
      BY <1>8 DEF RunRights, OpenPrompt
    <2>3. FlagsOK'
      BY <1>1, <1>2, <2>1, <2>2 DEF FlagsOK
    <2>4. ValuesOK'
      BY <1>1, <1>3, <1>8 DEF ValuesOK, RunRights, OpenPrompt, ClearedPassword, Texts
    <2>5. ShellsOK'
      BY <1>1, <1>8 DEF ShellsOK, RunRights
    <2> QED  BY <2>3, <2>4, <2>5, TypeParts
  <1>9. CASE RunCommand
    <2>1. running' \in BOOLEAN /\ run_command_ready' \in BOOLEAN
      BY <1>1, <1>9, Zenon DEF FlagsOK, RunCommand
    <2>2. UNCHANGED <<keyboard_active, show_password_prompt, pwd_enter_pressed,
          root_authorized, terminal_root_mode, taskmgr_root_mode, run_as_root>>
      BY <1>9 DEF RunCommand
    <2>3. FlagsOK'
      BY <1>1, <1>2, <2>1, <2>2 DEF FlagsOK
    <2>4. ValuesOK'
      BY <1>1, <1>3, <1>9 DEF ValuesOK, RunCommand
    <2>5. ShellsOK'
      BY <1>1, <1>9 DEF ShellsOK, RunCommand
    <2> QED  BY <2>3, <2>4, <2>5, TypeParts
  <1>10. ASSUME NEW w \in {"switch", "power"}, LeaveFrom(w) PROVE TypeOK'
    <2>1. running' \in BOOLEAN
      BY <1>1, <1>10, Zenon DEF FlagsOK, LeaveFrom
    <2>2. UNCHANGED <<keyboard_active, show_password_prompt, pwd_enter_pressed,
          root_authorized, terminal_root_mode, taskmgr_root_mode, run_as_root,
          run_command_ready>>
      BY <1>10 DEF LeaveFrom
    <2>3. FlagsOK'
      BY <1>1, <1>2, <2>1, <2>2 DEF FlagsOK
    <2>4. ValuesOK'
      BY <1>1, <1>3, <1>10 DEF ValuesOK, LeaveFrom
    <2>5. ShellsOK'
      BY <1>1, <1>10 DEF ShellsOK, LeaveFrom
    <2> QED  BY <2>3, <2>4, <2>5, TypeParts
  <1>11. ASSUME NEW w \in Panels, CloseWindow(w) PROVE TypeOK'
    <2>1. UNCHANGED <<running, keyboard_active, show_password_prompt, pwd_enter_pressed,
          root_authorized, terminal_root_mode, taskmgr_root_mode, run_as_root,
          run_command_ready>>
      BY <1>11 DEF CloseWindow
    <2>2. FlagsOK'
      BY <1>1, <1>2, <2>1 DEF FlagsOK
    <2>3. ValuesOK'
      BY <1>1, <1>3, <1>11 DEF ValuesOK, CloseWindow
    <2>4. ShellsOK'
      BY <1>1, <1>11 DEF ShellsOK, CloseWindow
    <2> QED  BY <2>2, <2>3, <2>4, TypeParts
  <1>12. CASE NoWidget
    <2>1. UNCHANGED <<running, keyboard_active, show_password_prompt, pwd_enter_pressed,
          root_authorized, terminal_root_mode, taskmgr_root_mode, run_as_root,
          run_command_ready>>
      BY <1>12 DEF NoWidget
    <2>2. FlagsOK'
      BY <1>1, <1>2, <2>1 DEF FlagsOK
    <2>3. ValuesOK'
      BY <1>1, <1>3, <1>12 DEF ValuesOK, NoWidget
    <2>4. ShellsOK'
      BY <1>1, <1>12 DEF ShellsOK, NoWidget
    <2> QED  BY <2>2, <2>3, <2>4, TypeParts
  <1> QED
    BY <1>4, <1>5, <1>6, <1>7, <1>8, <1>9, <1>10, <1>11, <1>12 DEF Window

\* The dialog keeps the types.
LEMMA DialogType ==
  TypeOK /\ (NoDialog \/ \E c \in {"none", "close", "submit", "cancel"} : Dialog(c)) => TypeOK'
  <1> SUFFICES ASSUME TypeOK,
                      NoDialog \/ \E c \in {"none", "close", "submit", "cancel"} : Dialog(c)
               PROVE  TypeOK'
    OBVIOUS
  <1> USE DEF rightVars
  <1>1. FlagsOK /\ ShellsOK /\ ValuesOK
    BY TypeParts
  <1>2. /\ DialogStep /\ UNCHANGED <<running, keyboard_active, kbd, prev_show_terminal,
                                      snap_prompt, busybox_memfd, run_command_ready>>
        /\ click' \in BOOLEAN /\ commit' \in BOOLEAN /\ text' \in BOOLEAN
    <2>1. DialogStep
      BY DEF NoDialog, Dialog
    <2>2. click' \in BOOLEAN /\ commit' \in BOOLEAN /\ text' \in BOOLEAN
      BY <2>1, Zenon DEF DialogStep
    <2> QED  BY <2>1, <2>2 DEF DialogStep, runVars
  <1>3. phase' = "manual"
         /\ UNCHANGED <<keys, snap, trigger_action, shown, pwd_prompt_source, terminal_mode, ran>>
    BY <1>2 DEF DialogStep, runVars
  <1>4. CASE NoDialog
    <2>1. UNCHANGED <<show_password_prompt, pwd_enter_pressed, root_authorized,
          terminal_root_mode, taskmgr_root_mode, run_as_root>>
      BY <1>4 DEF NoDialog
    <2>2. FlagsOK'
      BY <1>1, <1>2, <2>1 DEF FlagsOK
    <2>3. ValuesOK'
      BY <1>1, <1>3, <1>4 DEF ValuesOK, NoDialog
    <2>4. ShellsOK'
      BY <1>1, <1>4 DEF ShellsOK, NoDialog
    <2> QED  BY <2>2, <2>3, <2>4, TypeParts
  <1>5. ASSUME NEW c \in {"none", "close", "submit", "cancel"}, Dialog(c) PROVE TypeOK'
    <2>1. show_password_prompt' \in BOOLEAN /\ pwd_enter_pressed' \in BOOLEAN /\
          root_authorized' \in BOOLEAN /\ terminal_root_mode' \in BOOLEAN /\
          taskmgr_root_mode' \in BOOLEAN /\ run_as_root' \in BOOLEAN
      BY <1>1, <1>5, Zenon DEF FlagsOK, Dialog, Granted
    <2>2. FlagsOK'
      BY <1>1, <1>2, <2>1 DEF FlagsOK
    <2>3. ValuesOK'
      BY <1>1, <1>3, <1>5 DEF ValuesOK, Dialog, ClearedPassword, Texts
    <2>4. ShellsOK'
      BY <1>1, <1>5, RelaunchType DEF Dialog, Granted, ShellsOK, ValuesOK
    <2> QED  BY <2>2, <2>3, <2>4, TypeParts
  <1> QED
    BY <1>4, <1>5 DEF NoDialog

\* The rest of the loop keeps the types.
LEMMA FrameType ==
  TypeOK /\ (FrameBegins \/ KeysEnd \/ FrameEnds \/ Leave \/ ShellExits) => TypeOK'
  <1> SUFFICES ASSUME TypeOK, (FrameBegins \/ KeysEnd \/ FrameEnds \/ Leave \/ ShellExits)
               PROVE  TypeOK'
    OBVIOUS
  <1> USE DEF localVars, promptVars, rightVars, runVars
  <1>1. FlagsOK /\ ShellsOK /\ ValuesOK
    BY TypeParts
  <1>2. UNCHANGED <<running, kbd, show_password_prompt, pwd_enter_pressed, root_authorized,
                    terminal_root_mode, taskmgr_root_mode, run_as_root, busybox_memfd,
                    run_command_ready>>
    BY DEF FrameBegins, KeysEnd, FrameEnds, FrameEnd, Leave, ShellExits, frameVars
  <1>3. UNCHANGED <<pwd_prompt_source, terminal_mode>> /\ 0 \in 0..MaxKeys
    BY WindowsAssumption
    DEF FrameBegins, KeysEnd, FrameEnds, FrameEnd, Leave, ShellExits, shellVars
  <1>4. CASE FrameBegins
    <2>0. prev_show_terminal' \in BOOLEAN
      BY <1>4 DEF FrameBegins
    <2>1. click' \in BOOLEAN /\ keyboard_active' \in BOOLEAN /\
          snap_prompt' \in BOOLEAN /\ commit' \in BOOLEAN /\ text' \in BOOLEAN
      BY <1>1, <1>4, Zenon DEF FlagsOK, FrameBegins, MouseInput
    <2>2. FlagsOK'
      BY <1>1, <1>2, <2>0, <2>1 DEF FlagsOK
    <2>3. ValuesOK'
      <3>1. shown' \subseteq Panels
        BY <1>1, <1>4 DEF ValuesOK, FrameBegins, AfterClick, PtyDispatch
      <3>2. trigger_action' \in ManualButtons \cup {"none"}
        BY <1>4, Zenon DEF FrameBegins, MouseInput
      <3>3. root_pwd_buffer' \in Texts
        BY <1>1, <1>4 DEF ValuesOK, FrameBegins, ClearedPassword, Texts
      <3>4. phase' = "keys" /\ keys' = 0 /\ snap' \subseteq Snapped /\ ran' = ran
        BY <1>4 DEF FrameBegins
      <3> QED  BY <1>1, <1>3, <3>1, <3>2, <3>3, <3>4 DEF ValuesOK
    <2>4. ShellsOK'
      BY <1>1, <1>4 DEF FrameBegins, PtyDispatch, ShellsOK
    <2> QED  BY <2>2, <2>3, <2>4, TypeParts
  <1>5. CASE KeysEnd
    <2>1. UNCHANGED <<click, keyboard_active, prev_show_terminal, snap_prompt, commit, text>>
      BY <1>5 DEF KeysEnd
    <2>2. FlagsOK'
      BY <1>1, <1>2, <2>1 DEF FlagsOK
    <2>3. ValuesOK'
      BY <1>1, <1>3, <1>5 DEF ValuesOK, KeysEnd
    <2>4. ShellsOK'
      BY <1>1, <1>5 DEF KeysEnd, ShellsOK, shellVars
    <2> QED  BY <2>2, <2>3, <2>4, TypeParts
  <1>6. CASE Leave
    <2>1. UNCHANGED <<click, keyboard_active, prev_show_terminal, snap_prompt, commit, text>>
      BY <1>6 DEF Leave
    <2>2. FlagsOK'
      BY <1>1, <1>2, <2>1 DEF FlagsOK
    <2>3. ValuesOK'
      BY <1>1, <1>3, <1>6 DEF ValuesOK, Leave, RunWith
    <2>4. ShellsOK'
      BY <1>1, <1>6, ClosedType DEF Leave, close_current_pty, ShellsOK
    <2> QED  BY <2>2, <2>3, <2>4, TypeParts
  <1>7. CASE ShellExits
    <2>1. UNCHANGED <<click, keyboard_active, prev_show_terminal, snap_prompt, commit, text>>
      BY <1>7 DEF ShellExits, frameVars
    <2>2. FlagsOK'
      BY <1>1, <1>2, <2>1 DEF FlagsOK
    <2>3. ValuesOK'
      BY <1>1, <1>3, <1>7 DEF ValuesOK, ShellExits, frameVars
    <2>4. ShellsOK'
      BY <1>1, <1>7 DEF ShellExits, ShellsOK
    <2> QED  BY <2>2, <2>3, <2>4, TypeParts
  <1>8. CASE FrameEnds
    <2>1. UNCHANGED <<click, keyboard_active, prev_show_terminal, snap_prompt, commit, text>>
      BY <1>8 DEF FrameEnds, FrameEnd
    <2>2. FlagsOK'
      BY <1>1, <1>2, <2>1 DEF FlagsOK
    <2>3. ValuesOK'
      BY <1>1, <1>3, <1>8 DEF ValuesOK, FrameEnds, FrameEnd
    <2>4. ShellsOK'
      BY <1>1, <1>8, ClosedType DEF FrameEnds, close_current_pty, ShellsOK
    <2> QED  BY <2>2, <2>3, <2>4, TypeParts
  <1> QED
    BY <1>4, <1>5, <1>6, <1>7, <1>8 DEF FrameBegins

\* The manual buttons keep the types.
LEMMA ManualType == TypeOK /\ (TerminalButton \/ PowerButton \/ NoManualButton) => TypeOK'
  <1> SUFFICES ASSUME TypeOK, (TerminalButton \/ PowerButton \/ NoManualButton) PROVE TypeOK'
    OBVIOUS
  <1> USE DEF promptVars, rightVars, runVars
  <1>1. FlagsOK /\ ShellsOK /\ ValuesOK
    BY TypeParts
  <1>2. /\ ManualStep
        /\ UNCHANGED <<running, click, keyboard_active, kbd, prev_show_terminal, commit, text,
                       show_password_prompt, pwd_enter_pressed, root_authorized,
                       terminal_root_mode, taskmgr_root_mode, run_as_root, busybox_memfd,
                       run_command_ready>>
    BY DEF TerminalButton, PowerButton, NoManualButton, ManualStep
  <1>3. /\ UNCHANGED <<keys, snap, pwd_prompt_source, root_pwd_buffer, terminal_mode, ran>>
        /\ phase' = "end" /\ trigger_action' = "none"
    BY <1>2 DEF ManualStep
  <1>4. CASE TerminalButton
    <2>1. snap_prompt' \in BOOLEAN
      BY <1>1, <1>4, Zenon DEF FlagsOK, TerminalButton, ManualStep
    <2>2. FlagsOK'
      BY <1>1, <1>2, <2>1 DEF FlagsOK
    <2>3. ValuesOK'
      BY <1>1, <1>3, <1>4 DEF ValuesOK, TerminalButton, Panels
    <2>4. ShellsOK'
      BY <1>1, <1>4, LaunchType DEF TerminalButton, ShellsOK, FlagsOK, ValuesOK
    <2> QED  BY <2>2, <2>3, <2>4, TypeParts
  <1>5. CASE PowerButton
    <2>1. snap_prompt' \in BOOLEAN
      BY <1>1, <1>5, Zenon DEF FlagsOK, PowerButton, ManualStep
    <2>2. FlagsOK'
      BY <1>1, <1>2, <2>1 DEF FlagsOK
    <2>3. ValuesOK'
      BY <1>1, <1>3, <1>5 DEF ValuesOK, PowerButton, Panels
    <2>4. ShellsOK'
      BY <1>1, <1>5 DEF ShellsOK, PowerButton
    <2> QED  BY <2>2, <2>3, <2>4, TypeParts
  <1>6. CASE NoManualButton
    <2>1. snap_prompt' \in BOOLEAN
      BY <1>1, <1>6, Zenon DEF FlagsOK, NoManualButton, ManualStep
    <2>2. FlagsOK'
      BY <1>1, <1>2, <2>1 DEF FlagsOK
    <2>3. ValuesOK'
      BY <1>1, <1>3, <1>6 DEF ValuesOK, NoManualButton
    <2>4. ShellsOK'
      BY <1>1, <1>6 DEF ShellsOK, NoManualButton
    <2> QED  BY <2>2, <2>3, <2>4, TypeParts
  <1> QED
    BY <1>4, <1>5, <1>6 DEF TerminalButton

\* Every step keeps the types.
LEMMA TypeStep == TypeOK /\ [Next]_vars => TypeOK'
  <1> SUFFICES ASSUME TypeOK, [Next]_vars PROVE TypeOK'
    OBVIOUS
  <1>1. CASE UNCHANGED vars
    BY <1>1 DEF vars, frameVars, localVars, promptVars, rightVars, shellVars, runVars, TypeOK
  <1> QED
    BY <1>1, KeyType, WindowType, DialogType, FrameType, ManualType DEF Next, Loop, Ended

\* Type correctness, whatever is typed and clicked and whenever a shell ends.
THEOREM TypeCorrect == Spec => []TypeOK
  BY InitType, TypeStep, PTL DEF Spec

-----------------------------------------------------------------------------
(* The shell.                                                               *)

\* When the shell is closed, none is left.
LEMMA ClosedEmpty ==
  ASSUME ShellsOK, IndicatorTruthful, NEW p \in Pids
  PROVE  Closed[p] = NoProc
  BY WindowsAssumption DEF ShellsOK, IndicatorTruthful, Closed

\* A shell that is launched where there is none is the only one.
LEMMA LaunchOne ==
  ASSUME NEW procs \in [Pids -> Shells \cup {NoProc}], \A p \in Pids : procs[p] = NoProc,
         NEW root, NEW mode, Launch(procs, root, mode)
  PROVE  \A p \in Pids : proc'[p] # NoProc
            => term_pty' = p /\ proc'[p] = [root |-> root, mode |-> mode]
  BY DEF Launch

\* A launch in the place of another shell too.
LEMMA RelaunchOne ==
  ASSUME ShellsOK, IndicatorTruthful, NEW root, NEW mode, Relaunch(root, mode)
  PROVE  \A p \in Pids : proc'[p] # NoProc
            => term_pty' = p /\ proc'[p] = [root |-> root, mode |-> mode]
  BY ClosedType, ClosedEmpty, LaunchOne DEF Relaunch

\* No step leaves a second shell, or one with other rights than the indicators say.
LEMMA ShellStep == TypeOK /\ IndicatorTruthful /\ [Next]_vars => IndicatorTruthful'
  <1> SUFFICES ASSUME TypeOK, IndicatorTruthful, [Next]_vars PROVE IndicatorTruthful'
    OBVIOUS
  <1> USE DEF shellVars, rightVars, promptVars, localVars, runVars
  <1>0. ShellsOK
    BY TypeParts
  <1> DEFINE Same == UNCHANGED <<term_pty, proc, terminal_root_mode, terminal_mode>>
  <1>1. ASSUME Same PROVE IndicatorTruthful'
    BY <1>1 DEF IndicatorTruthful, Indicated
  <1>2. CASE Key
    <2>1. UNCHANGED <<term_pty, proc, terminal_mode>>
      BY <1>2 DEF Key, KeyToShell, KeyEscape, KeyFocus, KeySubmit, KeyEnter, KeyText, KeyForm,
         KeyEnterLate, KeyEvent
    <2>2. UNCHANGED terminal_root_mode
      BY <1>2 DEF Key, KeyToShell, KeyEscape, KeyFocus, KeySubmit, KeyEnter, KeyText, KeyForm,
         KeyEnterLate
    <2> QED  BY <1>1, <2>1, <2>2
  <1>3. CASE FrameBegins
    BY <1>0, <1>3, WindowsAssumption
    DEF FrameBegins, PtyDispatch, ShellEnded, IndicatorTruthful, Indicated, ShellsOK
  <1>4. CASE Window
    <2>1. CASE TerminalRights
      <3>1. CASE Relaunch(terminal_root_mode', terminal_mode)
        BY <1>0, <2>1, <3>1, RelaunchOne DEF TerminalRights, IndicatorTruthful, Indicated
      <3>2. CASE Same
        BY <1>1, <3>2
      <3> QED  BY <2>1, <3>1, <3>2 DEF TerminalRights
    <2>2. ASSUME NEW m \in Modes, TerminalMode(m) PROVE IndicatorTruthful'
      <3>1. /\ terminal_mode' = m /\ UNCHANGED terminal_root_mode
            /\ Relaunch(terminal_root_mode, m)
        BY <2>2 DEF TerminalMode
      <3> QED  BY <1>0, <3>1, RelaunchOne DEF IndicatorTruthful, Indicated
    <2>3. CASE ~TerminalRights /\ ~\E m \in Modes : TerminalMode(m)
      <3>1. Same
        BY <1>4, <2>3 DEF Window, MenuButton, TaskManagerRights, RunRights, RunCommand,
           LeaveFrom, CloseWindow, NoWidget
      <3> QED  BY <1>1, <3>1
    <2> QED  BY <2>1, <2>2, <2>3
  <1>5. ASSUME NEW c \in {"none", "close", "submit", "cancel"}, Dialog(c) PROVE IndicatorTruthful'
    <2>1. \/ UNCHANGED <<term_pty, proc, terminal_root_mode>>
          \/ terminal_root_mode' = TRUE /\ Relaunch(TRUE, terminal_mode)
      BY <1>5 DEF Dialog, Granted
    <2>2. UNCHANGED terminal_mode
      BY <1>5 DEF Dialog, DialogStep
    <2> QED  BY <1>0, <1>1, <2>1, <2>2, RelaunchOne DEF IndicatorTruthful, Indicated
  <1>6. CASE TerminalButton
    <2>1. UNCHANGED <<terminal_root_mode, terminal_mode>>
      BY <1>6 DEF TerminalButton, ManualStep
    <2>2. CASE UNCHANGED <<term_pty, proc>>
      BY <1>1, <2>1, <2>2
    <2>3. CASE term_pty = NoShell /\ Launch(proc, terminal_root_mode, terminal_mode)
      <3>1. \A p \in Pids : proc[p] = NoProc
        BY <2>3, WindowsAssumption DEF IndicatorTruthful
      <3>2. proc \in [Pids -> Shells \cup {NoProc}]
        BY <1>0 DEF ShellsOK
      <3> QED  BY <2>1, <2>3, <3>1, <3>2, LaunchOne DEF IndicatorTruthful, Indicated
    <2> QED  BY <1>6, <2>2, <2>3 DEF TerminalButton
  <1>7. CASE Leave
    BY <1>0, <1>7, ClosedEmpty DEF Leave, close_current_pty, IndicatorTruthful
  <1>8. CASE ShellExits
    BY <1>0, <1>8 DEF ShellExits, IndicatorTruthful, Indicated, ShellsOK
  <1>9. CASE KeysEnd \/ NoDialog \/ PowerButton \/ NoManualButton \/ UNCHANGED vars
    <2>1. Same
      BY <1>9 DEF KeysEnd, NoDialog, DialogStep, PowerButton, NoManualButton, ManualStep, vars
    <2> QED  BY <1>1, <2>1
  <1>10. CASE FrameEnds
    <2>1. CASE UNCHANGED <<term_pty, proc>>
      BY <1>1, <1>10, <2>1 DEF FrameEnds, FrameEnd
    <2>2. CASE close_current_pty
      BY <1>0, <2>2, ClosedEmpty DEF close_current_pty, IndicatorTruthful
    <2> QED  BY <1>10, <2>1, <2>2 DEF FrameEnds
  <1> QED
    BY <1>2, <1>3, <1>4, <1>5, <1>6, <1>7, <1>8, <1>9, <1>10 DEF Next, Loop, Ended

\* The first shell is the user's bash.
LEMMA InitShell == Init => IndicatorTruthful
  BY WindowsAssumption DEF Init, IndicatorTruthful, Indicated

\* The shell's invariant in every state.
LEMMA ShellInvariance == Spec => [](TypeOK /\ IndicatorTruthful)
  <1>1. TypeOK /\ IndicatorTruthful /\ [Next]_vars => (TypeOK /\ IndicatorTruthful)'
    BY TypeStep, ShellStep
  <1> QED  BY InitType, InitShell, <1>1, PTL DEF Spec

\* No change of rights or mode, no submission and no exit leaves a shell behind, and the
\* indicators tell the truth about the one there is.
THEOREM IndicatorsTruthful == Spec => []IndicatorTruthful
  BY ShellInvariance, PTL

\* Only the end of a frame leads to the next one, and it ends the shell of a terminal that
\* was closed.
LEMMA ClosedStep ==
  TypeOK /\ IndicatorTruthful /\ ClosedTerminalGone /\ [Next]_vars => ClosedTerminalGone'
  <1> SUFFICES ASSUME TypeOK, IndicatorTruthful, ClosedTerminalGone, [Next]_vars
               PROVE  ClosedTerminalGone'
    OBVIOUS
  <1>0. ShellsOK
    BY TypeParts
  <1>1. CASE FrameEnds
    <2>1. CASE prev_show_terminal /\ "terminal" \notin shown
      BY <1>0, <1>1, <2>1, ClosedEmpty DEF FrameEnds, close_current_pty, ClosedTerminalGone
    <2>2. CASE ~(prev_show_terminal /\ "terminal" \notin shown)
      BY <1>1, <2>2 DEF FrameEnds, FrameEnd, ClosedTerminalGone
    <2> QED  BY <2>1, <2>2
  <1>2. CASE ShellExits
    BY <1>0, <1>2 DEF ShellExits, ClosedTerminalGone, ShellsOK, frameVars
  <1>3. CASE UNCHANGED vars
    BY <1>3 DEF ClosedTerminalGone, vars, frameVars, shellVars
  <1>4. CASE Key \/ KeysEnd \/ Window \/ NoDialog \/ FrameBegins \/ Leave
             \/ \E c \in {"none", "close", "submit", "cancel"} : Dialog(c)
             \/ TerminalButton \/ PowerButton \/ NoManualButton
    <2>1. phase' # "frame"
      BY <1>4 DEF Key, KeyToShell, KeyEscape, KeyFocus, KeySubmit, KeyEnter, KeyText, KeyForm,
         KeyEnterLate, KeyEvent, FrameBegins, KeysEnd, Window, MenuButton, TerminalRights,
         TerminalMode, TaskManagerRights, RunRights, RunCommand, LeaveFrom, CloseWindow,
         NoWidget, Behind, WindowStep, NoDialog, Dialog, DialogStep, TerminalButton,
         PowerButton, NoManualButton, ManualStep, Leave
    <2> QED  BY <2>1 DEF ClosedTerminalGone
  <1> QED
    BY <1>1, <1>2, <1>3, <1>4 DEF Next, Loop, Ended

\* However the terminal was closed, its shell does not see the next frame.
THEOREM ClosedTerminalsGone == Spec => []ClosedTerminalGone
  <1>1. Init => ClosedTerminalGone
    BY DEF Init, ClosedTerminalGone
  <1> QED  BY <1>1, ClosedStep, ShellInvariance, PTL DEF Spec

-----------------------------------------------------------------------------
(* The rights and the dialog.                                               *)

RightsInv ==
    terminal_root_mode \/ taskmgr_root_mode \/ run_as_root \/ ran = "root" => root_authorized

\* Rights are only set by an accepted password, or after one.
LEMMA RightsStep == TypeOK /\ RightsInv /\ [Next]_vars => RightsInv'
  <1> SUFFICES ASSUME TypeOK, RightsInv, [Next]_vars PROVE RightsInv'
    OBVIOUS
  <1> USE DEF shellVars, rightVars, promptVars, localVars, runVars, RightsInv
  <1>1. CASE Key
    <2>1. UNCHANGED <<terminal_root_mode, taskmgr_root_mode, root_authorized, ran>>
      BY <1>1 DEF Key, KeyToShell, KeyEscape, KeyFocus, KeySubmit, KeyEnter, KeyText, KeyForm,
         KeyEnterLate, KeyEvent
    <2>2. run_as_root' => run_as_root
      BY <1>1, Zenon DEF Key, KeyToShell, KeyEscape, KeyFocus, KeySubmit, KeyEnter, KeyText,
         KeyForm, KeyEnterLate, PromptCancelled
    <2> QED  BY <2>1, <2>2
  <1>2. CASE FrameBegins \/ KeysEnd \/ NoDialog \/ TerminalButton \/ PowerButton
             \/ NoManualButton \/ FrameEnds \/ ShellExits \/ UNCHANGED vars
    BY <1>2 DEF FrameBegins, KeysEnd, NoDialog, DialogStep, TerminalButton, PowerButton,
       NoManualButton, ManualStep, FrameEnds, FrameEnd, ShellExits, vars
  <1>3. CASE Window
    <2>1. UNCHANGED <<root_authorized, ran>>
      BY <1>3 DEF Window, MenuButton, TerminalRights, TerminalMode, TaskManagerRights,
         RunRights, RunCommand, LeaveFrom, CloseWindow, NoWidget, Behind, WindowStep
    <2>2. terminal_root_mode' => terminal_root_mode \/ root_authorized
      BY <1>3, Zenon DEF Window, MenuButton, TerminalRights, TerminalMode, TaskManagerRights,
         RunRights, RunCommand, LeaveFrom, CloseWindow, NoWidget
    <2>3. taskmgr_root_mode' => taskmgr_root_mode \/ root_authorized
      BY <1>3, Zenon DEF Window, MenuButton, TerminalRights, TerminalMode, TaskManagerRights,
         RunRights, RunCommand, LeaveFrom, CloseWindow, NoWidget
    <2>4. run_as_root' => run_as_root \/ root_authorized
      BY <1>3, Zenon DEF Window, MenuButton, TerminalRights, TerminalMode, TaskManagerRights,
         RunRights, RunCommand, LeaveFrom, CloseWindow, NoWidget
    <2> QED  BY <2>1, <2>2, <2>3, <2>4
  <1>4. ASSUME NEW c \in {"none", "close", "submit", "cancel"}, Dialog(c) PROVE RightsInv'
    <2>1. ran' = ran
      BY <1>4 DEF Dialog, DialogStep
    <2>2. PICK accepted \in BOOLEAN :
            /\ IF accepted THEN Granted
               ELSE UNCHANGED <<root_authorized, terminal_root_mode, taskmgr_root_mode,
                                term_pty, proc>>
            /\ run_as_root' = IF pwd_prompt_source # "run" THEN run_as_root
                              ELSE c # "cancel" /\ (accepted \/ (run_as_root /\ c # "close"))
      BY <1>4, Zenon DEF Dialog, Verdicts
    <2>3. CASE accepted
      BY <2>2, <2>3 DEF Granted
    <2>4. CASE ~accepted
      <3>1. UNCHANGED <<root_authorized, terminal_root_mode, taskmgr_root_mode>>
        BY <2>2, <2>4
      <3>2. run_as_root' => run_as_root
        BY <2>2, <2>4, Zenon
      <3> QED  BY <2>1, <3>1, <3>2
    <2> QED  BY <2>3, <2>4
  <1>5. CASE Leave
    BY <1>5 DEF Leave, RunWith
  <1> QED
    BY <1>1, <1>2, <1>3, <1>4, <1>5 DEF Next, Loop, Ended

\* Nothing gets root's rights without the password, whatever dialogs are opened, closed
\* and submitted in whichever frames.
THEOREM RootNeedsPassword == Spec => []RootOnlyAuthorized
  <1>1. Init => RightsInv
    BY DEF Init, RightsInv
  <1>2. TypeOK /\ IndicatorTruthful /\ RightsInv => RootOnlyAuthorized
    BY DEF RightsInv, RootOnlyAuthorized, IndicatorTruthful, Indicated, NoProc
  <1> QED
    BY <1>1, <1>2, RightsStep, ShellInvariance, PTL DEF Spec

\* A dialog that opens in this frame is empty, and one that was open when it began has
\* no manual button beside it.
DialogInv ==
    /\ phase \in {"keys", "windows", "dialog"} /\ ~snap_prompt => root_pwd_buffer = "empty"
    /\ phase \in {"end", "frame"} => ~snap_prompt
    /\ snap_prompt => trigger_action \notin ManualButtons

\* The dialog's invariant is kept by every step.
LEMMA DialogInvStep == TypeOK /\ DialogInv /\ [Next]_vars => DialogInv'
  <1> SUFFICES ASSUME TypeOK, DialogInv, [Next]_vars PROVE DialogInv'
    OBVIOUS
  <1> USE DEF shellVars, rightVars, promptVars, localVars, runVars, frameVars, DialogInv
  <1>1. CASE Key
    <2>1. UNCHANGED <<phase, snap_prompt, root_pwd_buffer>>
      BY <1>1 DEF Key, KeyToShell, KeyEscape, KeyFocus, KeySubmit, KeyEnter, KeyText, KeyForm,
         KeyEnterLate, KeyEvent
    <2>2. trigger_action' = trigger_action \/ ~snap_prompt
      BY <1>1 DEF Key, KeyToShell, KeyEscape, KeyFocus, KeySubmit, KeyEnter, KeyText, KeyForm,
         KeyEnterLate, is_modal
    <2> QED  BY <2>1, <2>2
  <1>2. CASE FrameBegins
    <2>1. phase' = "keys" /\ snap_prompt' = show_password_prompt
      BY <1>2 DEF FrameBegins
    <2>2. show_password_prompt \/ root_pwd_buffer' = "empty"
      BY <1>2 DEF FrameBegins, ClearedPassword
    <2>3. show_password_prompt => trigger_action' \notin ManualButtons
      BY <1>2 DEF FrameBegins, MouseInput, ManualButtons
    <2> QED  BY <2>1, <2>2, <2>3
  <1>3. CASE KeysEnd \/ ShellExits \/ FrameEnds \/ Leave \/ UNCHANGED vars
    BY <1>3 DEF KeysEnd, ShellExits, FrameEnds, FrameEnd, Leave, vars
  <1>4. CASE Window
    <2>1. WindowStep
      BY <1>4 DEF Window, MenuButton, TerminalRights, TerminalMode, TaskManagerRights,
         RunRights, RunCommand, LeaveFrom, CloseWindow, NoWidget, Behind
    <2>2. root_pwd_buffer' \in {root_pwd_buffer, "empty"}
      BY <1>4 DEF Window, MenuButton, TerminalRights, TerminalMode, TaskManagerRights,
         RunRights, RunCommand, LeaveFrom, CloseWindow, NoWidget, OpenPrompt, ClearedPassword
    <2> QED  BY <2>1, <2>2 DEF WindowStep, ManualButtons
  <1>5. CASE NoDialog \/ \E c \in {"none", "close", "submit", "cancel"} : Dialog(c)
    <2>1. DialogStep
      BY <1>5 DEF NoDialog, Dialog
    <2> QED  BY <2>1 DEF DialogStep
  <1>6. CASE TerminalButton \/ PowerButton \/ NoManualButton
    BY <1>6 DEF TerminalButton, PowerButton, NoManualButton, ManualStep
  <1> QED
    BY <1>1, <1>2, <1>3, <1>4, <1>5, <1>6 DEF Next, Loop, Ended

\* The dialog's invariant in every state.
LEMMA DialogInvariance == Spec => [](TypeOK /\ DialogInv)
  <1>1. Init => DialogInv
    BY DEF Init, DialogInv
  <1>2. TypeOK /\ DialogInv /\ [Next]_vars => (TypeOK /\ DialogInv)'
    BY TypeStep, DialogInvStep
  <1> QED  BY InitType, <1>1, <1>2, PTL DEF Spec

\* An Enter left over from an earlier dialog authorizes nothing.
THEOREM LeftOverEnterHarmless == Spec => StaleEnterHarmless
  <1>1. TypeOK /\ DialogInv /\ [Next]_vars
          => [NeedsPassword /\ phase = "dialog" /\ ~snap_prompt /\ ~text
                => root_authorized' = root_authorized]_vars
    <2> SUFFICES ASSUME TypeOK, DialogInv, [Next]_vars, NeedsPassword, phase = "dialog",
                        ~snap_prompt, ~text
                 PROVE  root_authorized' = root_authorized
      OBVIOUS
    <2> USE DEF rightVars
    <2>1. root_pwd_buffer = "empty"
      BY DEF DialogInv
    <2>2. ASSUME NEW c \in {"none", "close", "submit", "cancel"}, Dialog(c)
          PROVE  root_authorized' = root_authorized
      BY <2>1, <2>2 DEF Dialog, Verdicts
    <2>3. CASE NoDialog \/ ShellExits \/ UNCHANGED vars
      BY <2>3 DEF NoDialog, ShellExits, vars
    <2>4. CASE Key \/ FrameBegins \/ KeysEnd \/ Window \/ TerminalButton \/ PowerButton
               \/ NoManualButton \/ FrameEnds \/ Leave
      BY <2>4 DEF Key, KeyToShell, KeyEscape, KeyFocus, KeySubmit, KeyEnter, KeyText, KeyForm,
         KeyEnterLate, KeyEvent, FrameBegins, KeysEnd, Window, MenuButton, TerminalRights,
         TerminalMode, TaskManagerRights, RunRights, RunCommand, LeaveFrom, CloseWindow,
         NoWidget, Behind, WindowStep, TerminalButton, PowerButton, NoManualButton, ManualStep,
         FrameEnds, FrameEnd, Leave
    <2> QED  BY <2>2, <2>3, <2>4 DEF Next, Loop, Ended
  <1> QED
    BY <1>1, DialogInvariance, PTL DEF Spec, StaleEnterHarmless

\* Behind the dialog nothing is opened, closed or left.
THEOREM DialogModal == Spec => DialogIsModal
  <1>1. TypeOK /\ DialogInv /\ [Next]_vars
          => [show_password_prompt /\ snap_prompt /\ show_password_prompt'
                => running' = running /\ shown' \in {shown, shown \ {"terminal"}}]_vars
    <2> SUFFICES ASSUME TypeOK, DialogInv, [Next]_vars, show_password_prompt, snap_prompt,
                        show_password_prompt'
                 PROVE  running' = running /\ shown' \in {shown, shown \ {"terminal"}}
      OBVIOUS
    <2> USE DEF frameVars, promptVars
    <2>1. CASE Key
      BY <2>1 DEF Key, KeyToShell, KeyEscape, KeyFocus, KeySubmit, KeyEnter, KeyText, KeyForm,
         KeyEnterLate, PromptCancelled, ToShell, is_modal
    <2>2. CASE Window
      BY <2>2 DEF Window, MenuButton, MenuVisible, TerminalRights, TerminalMode,
         TaskManagerRights, RunRights, RunCommand, LeaveFrom, CloseWindow, NoWidget, Behind
    <2>3. CASE KeysEnd \/ ShellExits \/ FrameEnds \/ Leave \/ NoDialog \/ UNCHANGED vars
               \/ \E c \in {"none", "close", "submit", "cancel"} : Dialog(c)
      BY <2>3 DEF KeysEnd, ShellExits, FrameEnds, FrameEnd, Leave, NoDialog, Dialog,
         DialogStep, localVars, vars
    <2>4. CASE TerminalButton \/ PowerButton \/ NoManualButton
      BY <2>4 DEF TerminalButton, PowerButton, NoManualButton, ManualStep, DialogInv,
         ManualButtons
    <2>5. CASE FrameBegins
      BY <2>5 DEF FrameBegins, DialogInv
    <2> QED  BY <2>1, <2>2, <2>3, <2>4, <2>5 DEF Next, Loop, Ended
  <1> QED
    BY <1>1, DialogInvariance, PTL DEF Spec, DialogIsModal
=============================================================================
