--------------------------- MODULE TakeoverProofs ---------------------------
(***************************************************************************)
(* Theorems about Takeover, for any set of VTs, any number of backlight    *)
(* devices and any number of signals: the console is never dead, every     *)
(* setting is given back, and the process implements Console.              *)
(***************************************************************************)
EXTENDS Takeover, TLAPS

\* The level force_backlight enforces is one the device has.
LEMMA SafeLevelInRange == SafeLevel \in 0..MaxBrightness
  BY TakeoverAssumption, SMT DEF SafeLevel

\* Whatever level a device has, the one force_backlight leaves it at is in range.
LEMMA EnforcedInRange ==
  ASSUME NEW b \in 0..MaxBrightness
  PROVE  EnforcedLevel(b) \in 0..MaxBrightness
  BY SafeLevelInRange DEF EnforcedLevel

\* The process starts with an empty journal and a console of the right types.
LEMMA InitType == Init => TypeOK
  <1> SUFFICES ASSUME Init PROVE TypeOK
    OBVIOUS
  <1>1. NoVT = -1 /\ 0 \in 0..MaxBrightness /\ 0 \in 0..MaxSignals
    BY TakeoverAssumption, SMT DEF NoVT
  <1>2. brightness \in [Backlights -> 0..MaxBrightness] /\ sysrq \in Nat
    BY TakeoverAssumption DEF Init
  <1>3. kd \in [VTs -> {"text", "graphics"}]
    BY DEF Init
  <1>4. before \in [fg : VTs, inUse : SUBSET VTs,
                    kd : [VTs -> {"text", "graphics"}], sysrq : Nat,
                    brightness : [Backlights -> 0..MaxBrightness]]
    BY <1>2, <1>3 DEF Init
  <1>5. owner \in [VTs -> {"none", "live", "frozen", "dead"}]
    BY DEF Init
  <1>6. /\ saved \in [Backlights -> 0..MaxBrightness]
        /\ enforced \in [Backlights -> 0..MaxBrightness]
    BY <1>1 DEF Init
  <1> QED
    BY <1>1, <1>2, <1>3, <1>4, <1>5, <1>6
    DEF Init, TypeOK, Steps, Starting, FdStates

\* Every step of the process, of a signal handler and of the kernel keeps the
\* types.
LEMMA TypeStep == TypeOK /\ [Next]_vars => TypeOK'
  <1> SUFFICES ASSUME TypeOK, [Next]_vars PROVE TypeOK'
    OBVIOUS
  <1> USE DEF TypeOK, procVars, journalVars, savedVars, vtVars, hwVars, Goto
  <1> USE DEF Steps, Starting, TakingOver, Owning, Restoring, Emergency, FdStates
  <1>1. CASE Start
    <2>1. CASE MuteKernelLog  BY <2>1 DEF MuteKernelLog
    <2>2. CASE InstallHandlers  BY <2>2 DEF InstallHandlers
    <2>3. CASE ReadSysRq  BY <2>3 DEF ReadSysRq
    <2>4. CASE WriteSysRq  BY <2>4 DEF WriteSysRq
    <2>5. CASE force_backlight
      <3>1. PICK T \in SUBSET Backlights :
              /\ tracked' = T
              /\ saved' = brightness
              /\ enforced' = [d \in Backlights |->
                               IF d \in T THEN EnforcedLevel(brightness[d]) ELSE 0]
              /\ brightness' = [d \in Backlights |->
                               IF d \in T THEN EnforcedLevel(brightness[d])
                                          ELSE brightness[d]]
        BY <2>5 DEF force_backlight
      <3>2. \A d \in Backlights : EnforcedLevel(brightness[d]) \in 0..MaxBrightness
        BY EnforcedInRange
      <3>3. 0 \in 0..MaxBrightness
        BY TakeoverAssumption
      <3>4. /\ brightness' \in [Backlights -> 0..MaxBrightness]
            /\ enforced' \in [Backlights -> 0..MaxBrightness]
        BY <3>1, <3>2, <3>3
      <3> QED
        BY <2>5, <3>1, <3>4 DEF force_backlight
    <2> QED  BY <1>1, <2>1, <2>2, <2>3, <2>4, <2>5 DEF Start
  <1>2. CASE StealVT
    <2>1. CASE OpenTty0  BY <2>1 DEF OpenTty0, Fail
    <2>2. CASE GetState  BY <2>2 DEF GetState, Fail
    <2>3. CASE OpenQry  BY <2>3, TakeoverAssumption DEF OpenQry
    <2>4. CASE OpenRescueTty  BY <2>4 DEF OpenRescueTty
    <2>5. CASE ActivateRescue
      BY <2>5 DEF ActivateRescue, Fail, VT_ACTIVATE, Stale
    <2>6. CASE WaitRescue  BY <2>6 DEF WaitRescue
    <2>7. CASE GraphicsMode  BY <2>7 DEF GraphicsMode, KDSETMODE
    <2> QED
      BY <1>2, <2>1, <2>2, <2>3, <2>4, <2>5, <2>6, <2>7 DEF StealVT
  <1>3. CASE InitGUI
    BY <1>3 DEF InitGUI, ScanCards, SetupBuffers, InitRawfb, GrabInput, Fail
  <1>4. CASE Leave
    <2>1. CASE CloseInput \/ cleanup_drm \/ Return \/ restore_vt
      <3>1. vt_restored' \in BOOLEAN
        BY <2>1, Zenon DEF CloseInput, cleanup_drm, Return, restore_vt
      <3> QED
        BY <2>1, <3>1 DEF CloseInput, cleanup_drm, Return, restore_vt
    <2>2. CASE RestoreText  BY <2>2 DEF RestoreText, KDSETMODE
    <2>3. CASE CloseRescueTty \/ UnmuteKernelLog
      BY <2>3 DEF CloseRescueTty, UnmuteKernelLog
    <2>4. CASE ActivateOriginal  BY <2>4 DEF ActivateOriginal, VT_ACTIVATE
    <2>5. CASE WaitOriginal  BY <2>5 DEF WaitOriginal
    <2>6. CASE restore_backlight
      <3>1. brightness' \in [Backlights -> 0..MaxBrightness]
        BY <2>6 DEF restore_backlight
      <3> QED  BY <2>6, <3>1 DEF restore_backlight
    <2>7. CASE restore_sysrq  BY <2>7 DEF restore_sysrq
    <2>8. CASE CloseTty  BY <2>8 DEF CloseTty
    <2> QED
      BY <1>4, <2>1, <2>2, <2>3, <2>4, <2>5, <2>6, <2>7, <2>8 DEF Leave
  <1>5. CASE emergency_restore
    <2>1. CASE EmergencyRescueText  BY <2>1 DEF EmergencyRescueText, KDSETMODE
    <2>2. CASE EmergencyTtyText  BY <2>2 DEF EmergencyTtyText, KDSETMODE
    <2>3. CASE EmergencyActivate  BY <2>3 DEF EmergencyActivate, VT_ACTIVATE
    <2>4. CASE EmergencySysRq  BY <2>4 DEF EmergencySysRq
    <2> QED  BY <1>5, <2>1, <2>2, <2>3, <2>4 DEF emergency_restore
  <1>6. CASE maintain_backlight
    <2>1. brightness' \in [Backlights -> 0..MaxBrightness]
      BY <1>6 DEF maintain_backlight
    <2> QED  BY <1>6, <2>1 DEF maintain_backlight
  <1>7. CASE User
    BY <1>7 DEF User, LeaveLoop, SwitchUser
  <1>8. CASE Signal
    <2>1. sigInWait' \in BOOLEAN
      <3>1. CASE sigs = 0  BY <1>8, <3>1 DEF Signal
      <3>2. CASE sigs # 0  BY <1>8, <3>2 DEF Signal
      <3> QED  BY <3>1, <3>2
    <2> QED  BY <1>8, <2>1, TakeoverAssumption DEF Signal
  <1>9. CASE Killed  BY <1>9 DEF Killed
  <1>10. CASE Environment
    <2>1. CASE ConsoleWorker  BY <2>1 DEF ConsoleWorker, SwitchTo
    <2>2. CASE DesktopReleases  BY <2>2 DEF DesktopReleases, SwitchTo
    <2>3. ASSUME NEW v \in VTs, DesktopDies(v) PROVE TypeOK'
      BY <2>3 DEF DesktopDies
    <2>4. ASSUME NEW d \in Backlights, SomeoneDims(d) PROVE TypeOK'
      BY <2>4, TakeoverAssumption DEF SomeoneDims
    <2> QED  BY <1>10, <2>1, <2>2, <2>3, <2>4 DEF Environment
  <1>11. CASE UNCHANGED vars  BY <1>11 DEF vars
  <1> QED
    BY <1>1, <1>2, <1>3, <1>4, <1>5, <1>6, <1>7, <1>8, <1>9, <1>10, <1>11
    DEF Next, Process, Done

\* Type correctness: the journal, the saved state and the console keep their
\* types through every interleaving of the process, signals and the kernel.
THEOREM TypeCorrect == Spec => []TypeOK
  BY InitType, TypeStep, PTL DEF Spec
-----------------------------------------------------------------------------
(* The inductive invariant.                                                 *)

\* A VT the kernel would refuse to leave is the rescue VT, between KD_GRAPHICS
\* and the KD_TEXT of restore_vt or emergency_restore, and the descriptor that
\* resets it is still in the journal.
DeadConsole(v) == kd[v] = "graphics" /\ owner[v] = "none"

GraphicsHeld ==
    \A v \in VTs : DeadConsole(v) =>
        \/ exit = "killed"
        \/ /\ v = rescue_vt
           /\ rescue_tty_fd = "open"
           /\ pc \in {"scan", "buffers", "rawfb", "input", "running", "close_input",
                      "cleanup_drm", "restore", "r_text", "return", "e_rescue"}
           /\ pc \in {"restore", "return"} => ~vt_restored
           /\ pc = "return" => rc = 1

\* Every switch under way leads home.
InFlightHome == want \in {NoVT, Home} /\ release \in {NoVT, Home}

AtHome == fg = Home /\ InFlightHome

\* Home is known, and no switch is under way that could undo one to it.
Away ==
    /\ original_vt # NoVT
    /\ InFlightHome \/ (release = NoVT /\ want = fg)

\* The screen is home or a switch that is under way brings it there.
Heading == InFlightHome /\ (fg = Home \/ want = Home \/ release = Home)

CanReturn == AtHome \/ (tty_fd = "open" /\ Away)

BeforeSwitch == Starting \cup (TakingOver \ {"wait_rescue"})

\* Until VT_ACTIVATE the console is as it was found.
UntouchedInv ==
    pc \in BeforeSwitch =>
        /\ fg = before.fg /\ want = NoVT /\ release = NoVT
        /\ original_vt \in {NoVT, before.fg}
        /\ tty_fd = IF pc \in {"getstate", "openqry", "open_rescue", "activate"}
                    THEN "open" ELSE "none"
        /\ pc \in {"openqry", "open_rescue", "activate"} => original_vt # NoVT

\* During VT_WAITACTIVE the one switch under way leads to the rescue VT.
CrossingInv ==
    pc = "wait_rescue" =>
        /\ tty_fd = "open" /\ original_vt # NoVT
        /\ want \in {NoVT, rescue_vt} /\ release \in {NoVT, rescue_vt}
        /\ want = NoVT \/ release = NoVT
        /\ fg = rescue_vt => release = NoVT

\* While the GUI owns the screen no switch is under way.
Quiet == release = NoVT /\ want \in {NoVT, fg}

OwningInv == pc \in Owning => tty_fd = "open" /\ original_vt # NoVT /\ Quiet

RestoringInv ==
    /\ pc \in {"restore", "return", "r_text", "r_close", "r_klog", "r_activate"} =>
          IF tty_fd = "open" THEN Away ELSE AtHome
    /\ pc = "r_wait" =>
          IF tty_fd = "open" THEN original_vt # NoVT /\ InFlightHome ELSE AtHome
    /\ pc \in {"r_backlight", "r_sysrq", "r_tty"} => AtHome
    /\ pc = "return" /\ tty_fd = "open" => rc = 1 /\ ~vt_restored
    /\ pc = "restore" /\ vt_restored => tty_fd # "open"
    /\ pc \in BeforeSwitch \cup {"wait_rescue"} \cup Owning => ~vt_restored

EmergencyInv ==
    /\ pc \in Emergency /\ ~sigInWait => CanReturn
    /\ pc = "e_sysrq" /\ ~sigInWait => Heading
    /\ pc \notin Emergency \cup {"exited"} => sigs = 0
    /\ sigs = 0 => ~sigInWait

ExitInv ==
    /\ pc # "exited" => exit = "none"
    /\ exit \in {"normal", "failed"} => AtHome
    /\ exit = "emergency" /\ ~sigInWait => Heading

ConsoleInv ==
    /\ UntouchedInv
    /\ CrossingInv
    /\ OwningInv
    /\ RestoringInv
    /\ EmergencyInv
    /\ ExitInv

\* Nothing has been taken from the desktop before the first step.
LEMMA InitInv == Init => GraphicsHeld /\ ConsoleInv
  <1> SUFFICES ASSUME Init PROVE GraphicsHeld /\ ConsoleInv
    OBVIOUS
  <1>1. before.fg = fg
    BY DEF Init
  <1>2. GraphicsHeld
    BY DEF Init, GraphicsHeld, DeadConsole
  <1>3. pc = "klog" /\ pc \notin Owning /\ pc \notin Emergency
    BY DEF Init, Owning, Emergency
  <1>4. ConsoleInv
    BY <1>1, <1>3 DEF Init, ConsoleInv, UntouchedInv, CrossingInv, OwningInv,
       RestoringInv, EmergencyInv, ExitInv
  <1> QED  BY <1>2, <1>4

\* Only GraphicsMode makes a VT one the kernel refuses to leave, and no step
\* drops the means to reset it before it is reset.
LEMMA GraphicsStep ==
  TypeOK /\ ConsoleInv /\ GraphicsHeld /\ [Next]_vars => GraphicsHeld'
  <1> SUFFICES ASSUME TypeOK, ConsoleInv, GraphicsHeld, [Next]_vars,
                      NEW v \in VTs, DeadConsole(v)'
               PROVE  \/ exit' = "killed"
                      \/ /\ v = rescue_vt'
                         /\ rescue_tty_fd' = "open"
                         /\ pc' \in {"scan", "buffers", "rawfb", "input", "running",
                                     "close_input", "cleanup_drm", "restore",
                                     "r_text", "return", "e_rescue"}
                         /\ pc' \in {"restore", "return"} => ~vt_restored'
                         /\ pc' = "return" => rc' = 1
    BY DEF GraphicsHeld
  <1> USE DEF TypeOK, GraphicsHeld, DeadConsole, procVars, journalVars, savedVars,
          vtVars, hwVars, Goto, Starting, TakingOver, Owning, BeforeSwitch
  <1> USE DEF ConsoleInv, RestoringInv, ExitInv
  <1>1. CASE Start
    BY <1>1 DEF Start, MuteKernelLog, InstallHandlers, ReadSysRq, WriteSysRq,
       force_backlight
  <1>2. CASE StealVT
    <2>1. CASE OpenTty0 \/ GetState \/ OpenQry \/ OpenRescueTty
      BY <2>1 DEF OpenTty0, GetState, OpenQry, OpenRescueTty, Fail
    <2>2. CASE ActivateRescue  BY <2>2 DEF ActivateRescue, Fail
    <2>3. CASE WaitRescue  BY <2>3 DEF WaitRescue
    <2>4. CASE GraphicsMode  BY <2>4 DEF GraphicsMode, KDSETMODE
    <2> QED  BY <1>2, <2>1, <2>2, <2>3, <2>4 DEF StealVT
  <1>3. CASE InitGUI
    BY <1>3 DEF InitGUI, ScanCards, SetupBuffers, InitRawfb, GrabInput, Fail
  <1>4. CASE Leave
    <2>1. CASE CloseInput \/ cleanup_drm
      BY <2>1 DEF CloseInput, cleanup_drm
    <2>2. CASE Return  BY <2>2 DEF Return
    <2>3. CASE restore_vt  BY <2>3 DEF restore_vt
    <2>4. CASE RestoreText  BY <2>4 DEF RestoreText, KDSETMODE
    <2>5. CASE \/ CloseRescueTty \/ UnmuteKernelLog \/ ActivateOriginal
               \/ WaitOriginal \/ restore_backlight \/ restore_sysrq \/ CloseTty
      BY <2>5 DEF CloseRescueTty, UnmuteKernelLog, ActivateOriginal, WaitOriginal,
         restore_backlight, restore_sysrq, CloseTty
    <2> QED  BY <1>4, <2>1, <2>2, <2>3, <2>4, <2>5 DEF Leave
  <1>5. CASE emergency_restore
    <2>1. CASE EmergencyRescueText  BY <2>1 DEF EmergencyRescueText, KDSETMODE
    <2>2. CASE EmergencyTtyText  BY <2>2 DEF EmergencyTtyText, KDSETMODE
    <2>3. CASE EmergencyActivate \/ EmergencySysRq
      BY <2>3 DEF EmergencyActivate, EmergencySysRq
    <2> QED  BY <1>5, <2>1, <2>2, <2>3 DEF emergency_restore
  <1>6. CASE maintain_backlight \/ User
    BY <1>6 DEF maintain_backlight, User, LeaveLoop, SwitchUser
  <1>7. CASE Signal \/ Killed
    BY <1>7 DEF Signal, Handled, Killed
  <1>8. CASE Environment
    <2>1. CASE ConsoleWorker  BY <2>1 DEF ConsoleWorker, SwitchTo
    <2>2. CASE DesktopReleases  BY <2>2 DEF DesktopReleases, SwitchTo
    <2>3. ASSUME NEW u \in VTs, DesktopDies(u)
          PROVE  DeadConsole(v) /\ UNCHANGED <<procVars, journalVars>>
      BY <2>3 DEF DesktopDies
    <2>4. ASSUME NEW d \in Backlights, SomeoneDims(d)
          PROVE  DeadConsole(v) /\ UNCHANGED <<procVars, journalVars>>
      BY <2>4 DEF SomeoneDims
    <2> QED  BY <1>8, <2>1, <2>2, <2>3, <2>4 DEF Environment
  <1>9. CASE UNCHANGED vars  BY <1>9 DEF vars
  <1> QED
    BY <1>1, <1>2, <1>3, <1>4, <1>5, <1>6, <1>7, <1>8, <1>9 DEF Next, Process, Done

\* The VT that steal_vt found in the foreground is a real one.
LEMMA HomeType == TypeOK => Home \in VTs /\ Home # NoVT
  BY TakeoverAssumption DEF TypeOK, Home, NoVT

\* The kernel and the desktops only complete switches that are under way.
LEMMA EnvironmentStep == TypeOK /\ ConsoleInv /\ Environment => ConsoleInv'
  <1> SUFFICES ASSUME TypeOK, ConsoleInv, Environment PROVE ConsoleInv'
    OBVIOUS
  <1>1. UNCHANGED <<pc, rc, sigs, sigInWait, exit, original_vt, rescue_vt, tty_fd,
                    vt_restored, before>>
    BY DEF Environment, ConsoleWorker, DesktopReleases, DesktopDies, SomeoneDims,
       procVars, journalVars
  <1>2. Home' = Home /\ Home # NoVT
    BY <1>1, HomeType DEF Home
  <1>3. \/ UNCHANGED <<fg, want, release>>
        \/ want # NoVT /\ want' = NoVT /\ want = fg /\ UNCHANGED <<fg, release>>
        \/ want # NoVT /\ want' = NoVT /\ release' = want /\ want # fg /\ UNCHANGED fg
        \/ want # NoVT /\ want' = NoVT /\ fg' = want /\ want # fg /\ UNCHANGED release
        \/ release # NoVT /\ release' = NoVT /\ fg' = release /\ UNCHANGED want
    BY DEF Environment, ConsoleWorker, DesktopReleases, DesktopDies, SomeoneDims,
       SwitchTo, vtVars
  <1>4. /\ InFlightHome => InFlightHome'
        /\ AtHome => AtHome'
        /\ Away => Away'
        /\ Quiet => Quiet'
        /\ Heading => Heading'
    BY <1>1, <1>2, <1>3 DEF InFlightHome, AtHome, Away, Quiet, Heading
  <1>5. CanReturn => CanReturn'
    BY <1>1, <1>4 DEF CanReturn
  <1>6. UntouchedInv'
    BY <1>1, <1>3 DEF ConsoleInv, UntouchedInv
  <1>7. CrossingInv'
    BY <1>1, <1>3 DEF ConsoleInv, CrossingInv
  <1>8. OwningInv' /\ RestoringInv'
    BY <1>1, <1>4 DEF ConsoleInv, OwningInv, RestoringInv
  <1>9. EmergencyInv' /\ ExitInv'
    BY <1>1, <1>4, <1>5 DEF ConsoleInv, EmergencyInv, ExitInv
  <1> QED  BY <1>6, <1>7, <1>8, <1>9 DEF ConsoleInv

\* The process's own steps.
LEMMA ProcessStep ==
  /\ TypeOK /\ ConsoleInv /\ GraphicsHeld
  /\ Process \/ maintain_backlight \/ User \/ Signal \/ Killed
  => ConsoleInv'
  <1> SUFFICES ASSUME TypeOK, ConsoleInv, GraphicsHeld,
                      Process \/ maintain_backlight \/ User \/ Signal \/ Killed
               PROVE  ConsoleInv'
    OBVIOUS
  <1> USE DEF procVars, journalVars, savedVars, vtVars, hwVars, Goto, Fail
  <1> USE DEF Starting, TakingOver, Owning, Restoring, Emergency, BeforeSwitch
  <1> USE DEF ConsoleInv, UntouchedInv, CrossingInv, OwningInv, RestoringInv,
          EmergencyInv, ExitInv
  <1> DEFINE Same == UNCHANGED <<fg, want, release, original_vt, before>>
  <1>1. /\ fg \in VTs /\ before.fg \in VTs /\ NoVT \notin VTs
        /\ original_vt \in VTs \cup {NoVT}
        /\ Home \in VTs
        /\ rescue_vt \in VTs \cup {NoVT}
    BY HomeType, TakeoverAssumption DEF TypeOK, NoVT
  <1>2. ASSUME Same
        PROVE  /\ InFlightHome' = InFlightHome
               /\ AtHome' = AtHome
               /\ Away' = Away
               /\ Quiet' = Quiet
               /\ Heading' = Heading
    BY <1>2 DEF Home, InFlightHome, AtHome, Away, Quiet, Heading
  <1>12. Quiet /\ original_vt # NoVT => Away
    BY DEF Quiet, Away, InFlightHome
  <1>3. CASE Start
    <2>1. Same /\ UNCHANGED <<tty_fd, rescue_vt, vt_restored, sigs, sigInWait, exit>>
      BY <1>3 DEF Start, MuteKernelLog, InstallHandlers, ReadSysRq, WriteSysRq,
         force_backlight
    <2>2. pc \in BeforeSwitch /\ pc' \in BeforeSwitch
             /\ {pc, pc'} \cap {"getstate", "openqry", "open_rescue", "activate"} = {}
      BY <1>3 DEF Start, MuteKernelLog, InstallHandlers, ReadSysRq, WriteSysRq,
         force_backlight
    <2> QED  BY <2>1, <2>2
  <1>4. CASE StealVT
    <2>1. CASE OpenTty0
      <3>1. AtHome /\ Same
        BY <2>1 DEF OpenTty0, Home, InFlightHome, AtHome
      <3>2. CASE pc' = "getstate"
        BY <2>1, <3>2 DEF OpenTty0
      <3>3. CASE pc' = "return"
        <4>1. AtHome'
          BY <1>2, <3>1
        <4>2. tty_fd' # "open"
          BY <2>1, <3>3 DEF OpenTty0
        <4> QED  BY <2>1, <3>3, <4>1, <4>2 DEF OpenTty0
      <3> QED  BY <2>1, <3>2, <3>3 DEF OpenTty0
    <2>2. CASE GetState
      <3>1. CASE pc' = "openqry"
        BY <1>1, <2>2, <3>1 DEF GetState
      <3>2. CASE pc' = "return"
        <4>1. AtHome /\ Same
          BY <2>2, <3>2 DEF GetState, Home, InFlightHome, AtHome
        <4>2. AtHome' /\ tty_fd' # "open"
          BY <1>2, <2>2, <3>2, <4>1 DEF GetState
        <4> QED  BY <2>2, <3>2, <4>2 DEF GetState
      <3> QED  BY <2>2, <3>1, <3>2 DEF GetState
    <2>3. CASE OpenQry \/ OpenRescueTty
      BY <1>1, <2>3 DEF OpenQry, OpenRescueTty
    <2>4. CASE ActivateRescue
      <3>1. CASE pc' = "wait_rescue"
        BY <1>1, <2>4, <3>1 DEF ActivateRescue, VT_ACTIVATE
      <3>2. CASE pc' = "return"
        <4>1. AtHome /\ Same
          BY <2>4, <3>2 DEF ActivateRescue, Home, InFlightHome, AtHome
        <4>2. AtHome' /\ tty_fd' # "open"
          BY <1>2, <2>4, <3>2, <4>1 DEF ActivateRescue, Stale
        <4> QED
          BY <2>4, <3>2, <4>2 DEF ActivateRescue
      <3> QED  BY <2>4, <3>1, <3>2 DEF ActivateRescue
    <2>5. CASE WaitRescue
      <3>1. Quiet'
        BY <2>5 DEF WaitRescue, Quiet
      <3> QED
        BY <2>5, <3>1 DEF WaitRescue
    <2>6. CASE GraphicsMode
      BY <1>2, <2>6 DEF GraphicsMode
    <2> QED  BY <1>4, <2>1, <2>2, <2>3, <2>4, <2>5, <2>6 DEF StealVT
  <1>5. CASE InitGUI
    BY <1>2, <1>12, <1>5 DEF InitGUI, ScanCards, SetupBuffers, InitRawfb, GrabInput
  <1>6. CASE Leave
    <2>1. CASE CloseInput \/ cleanup_drm
      BY <1>2, <1>12, <2>1 DEF CloseInput, cleanup_drm
    <2>2. CASE Return
      BY <1>2, <2>2 DEF Return
    <2>3. CASE restore_vt
      BY <1>2, <2>3 DEF restore_vt
    <2>4. CASE RestoreText \/ CloseRescueTty \/ UnmuteKernelLog
      BY <1>2, <2>4 DEF RestoreText, CloseRescueTty, UnmuteKernelLog
    <2>5. CASE ActivateOriginal
      <3>1. ~DeadConsole(fg)
        BY <1>1, <2>5 DEF ActivateOriginal, GraphicsHeld
      <3> QED
        BY <1>1, <2>5, <3>1 DEF ActivateOriginal, VT_ACTIVATE, DeadConsole, Away,
           InFlightHome, AtHome, Home
    <2>6. CASE WaitOriginal
      BY <1>2, <2>6 DEF WaitOriginal, AtHome, Home
    <2>7. CASE restore_backlight \/ restore_sysrq \/ CloseTty
      BY <1>2, <2>7 DEF restore_backlight, restore_sysrq, CloseTty
    <2> QED  BY <1>6, <2>1, <2>2, <2>3, <2>4, <2>5, <2>6, <2>7 DEF Leave
  <1>7. CASE emergency_restore
    <2>1. CASE EmergencyRescueText \/ EmergencyTtyText
      BY <1>2, <2>1 DEF EmergencyRescueText, EmergencyTtyText, CanReturn
    <2>2. CASE EmergencyActivate
      <3>1. ~DeadConsole(fg)
        BY <1>1, <2>2 DEF EmergencyActivate, GraphicsHeld
      <3>2. CanReturn /\ ~sigInWait => (CanReturn /\ Heading)'
        BY <1>1, <2>2, <3>1 DEF EmergencyActivate, VT_ACTIVATE, DeadConsole, Away,
           InFlightHome, AtHome, Home, CanReturn, Heading
      <3> QED  BY <2>2, <3>2 DEF EmergencyActivate
    <2>3. CASE EmergencySysRq
      BY <1>2, <2>3 DEF EmergencySysRq
    <2> QED  BY <1>7, <2>1, <2>2, <2>3 DEF emergency_restore
  <1>8. CASE maintain_backlight \/ LeaveLoop
    BY <1>2, <1>8 DEF maintain_backlight, LeaveLoop
  <1>9. ASSUME NEW v \in before.inUse, SwitchUser(v) PROVE ConsoleInv'
    <2>1. v # NoVT
      BY <1>1 DEF TypeOK
    <2>2. Quiet'
      BY <1>9 DEF SwitchUser, Quiet
    <2> QED  BY <1>9, <2>1, <2>2 DEF SwitchUser
  <1>10. CASE Signal
    <2>1. Same /\ UNCHANGED <<tty_fd, exit>> /\ pc' = "e_rescue"
      BY <1>10 DEF Signal
    <2>2. ~sigInWait' => CanReturn
      <3>1. CASE pc \in BeforeSwitch
        BY <3>1 DEF CanReturn, AtHome, InFlightHome, Home
      <3>2. CASE pc = "wait_rescue"
        BY <1>10, <3>2 DEF Signal
      <3>3. CASE pc \in Owning
        BY <1>12, <3>3 DEF CanReturn
      <3>4. CASE pc \in Restoring
        BY <3>4 DEF CanReturn, Away
      <3>5. CASE pc \in Emergency
        BY <1>10, <3>5 DEF Signal
      <3> QED  BY <1>10, <3>1, <3>2, <3>3, <3>4, <3>5 DEF Signal, Handled, TypeOK, Steps
    <2>3. CanReturn => CanReturn'
      BY <1>2, <2>1 DEF CanReturn
    <2>4. sigs' # 0
      BY <1>10 DEF Signal, TypeOK
    <2> QED  BY <2>1, <2>2, <2>3, <2>4, <1>10 DEF Signal, Handled
  <1>11. CASE Killed
    BY <1>11 DEF Killed
  <1> QED
    BY <1>3, <1>4, <1>5, <1>6, <1>7, <1>8, <1>9, <1>10, <1>11 DEF Process, User

\* The invariant holds in every state of every behaviour.
LEMMA Invariance == Spec => [](TypeOK /\ GraphicsHeld /\ ConsoleInv)
  <1>1. TypeOK /\ GraphicsHeld /\ ConsoleInv /\ [Next]_vars
          => (TypeOK /\ GraphicsHeld /\ ConsoleInv)'
    <2> SUFFICES ASSUME TypeOK, GraphicsHeld, ConsoleInv, [Next]_vars
                 PROVE  TypeOK' /\ GraphicsHeld' /\ ConsoleInv'
      OBVIOUS
    <2>1. TypeOK' /\ GraphicsHeld'
      BY TypeStep, GraphicsStep
    <2>2. CASE Environment
      BY <2>1, <2>2, EnvironmentStep
    <2>3. CASE Process \/ maintain_backlight \/ User \/ Signal \/ Killed
      BY <2>1, <2>3, ProcessStep
    <2>4. CASE UNCHANGED vars
      <3>1. UNCHANGED <<pc, rc, sigs, sigInWait, exit, original_vt, rescue_vt, tty_fd,
                        vt_restored, fg, want, release, before>>
        BY <2>4 DEF vars, procVars, journalVars, vtVars
      <3>2. /\ CanReturn' = CanReturn /\ Heading' = Heading /\ Away' = Away
            /\ AtHome' = AtHome /\ Quiet' = Quiet /\ InFlightHome' = InFlightHome
        BY <3>1 DEF CanReturn, Heading, Away, AtHome, Quiet, InFlightHome, Home
      <3>3. UntouchedInv' /\ CrossingInv' /\ OwningInv'
        BY <3>1, <3>2 DEF ConsoleInv, UntouchedInv, CrossingInv, OwningInv
      <3>4. RestoringInv' /\ EmergencyInv' /\ ExitInv'
        BY <3>1, <3>2 DEF ConsoleInv, RestoringInv, EmergencyInv, ExitInv
      <3> QED  BY <2>1, <3>3, <3>4 DEF ConsoleInv
    <2> QED  BY <2>1, <2>2, <2>3, <2>4 DEF Next, Done
  <1> QED  BY InitType, InitInv, <1>1, PTL DEF Spec

-----------------------------------------------------------------------------
\* restore_vt gives the screen back whenever main returns, from a session or
\* from a start that failed at any point.
THEOREM ScreenReturned == Spec => []ConsoleReturned
  <1>1. ConsoleInv => ConsoleReturned
    BY DEF ConsoleInv, ExitInv, AtHome, InFlightHome, ConsoleReturned
  <1> QED  BY Invariance, <1>1, PTL

\* emergency_restore gives the screen back from every step of the process but
\* the wait for the rescue VT.
THEOREM EmergencyScreenReturned == Spec => []EmergencyReturns
  <1>1. TypeOK /\ ConsoleInv => EmergencyReturns
    BY HomeType DEF ConsoleInv, ExitInv, Heading, Settled, EmergencyReturns
  <1> QED  BY Invariance, <1>1, PTL

\* No handled exit leaves a VT in graphics mode without an owner.
THEOREM ConsoleAlive == Spec => []NoDeadConsole
  <1>1. GraphicsHeld /\ ConsoleInv => NoDeadConsole
    BY DEF GraphicsHeld, DeadConsole, ConsoleInv, ExitInv, NoDeadConsole
  <1> QED  BY Invariance, <1>1, PTL

-----------------------------------------------------------------------------
(* Every setting that was changed is given back.                           *)

RestoredAll ==
    /\ sysrq = before.sysrq
    /\ klog = "on"
    /\ \A d \in tracked : brightness[d] = before.brightness[d]

RestoreSteps == {"r_text", "r_close", "r_klog", "r_activate", "r_wait", "r_backlight",
                 "r_sysrq", "r_tty"}

\* What is saved is what was found, and what is not saved has not been changed.
SavedInv ==
    /\ saved_sysrq \in {-1, before.sysrq}
    /\ pc \in {"klog", "handlers", "sysrq_read"} => saved_sysrq = -1
    /\ pc \notin Emergency \cup {"exited"} /\ saved_sysrq = -1 => sysrq = before.sysrq
    /\ pc = "sysrq_write" => sysrq = before.sysrq /\ saved_sysrq # -1
    /\ pc \in {"klog", "handlers", "sysrq_read", "sysrq_write", "backlight"} =>
          tracked = {} /\ brightness = before.brightness
    /\ \A d \in tracked : saved[d] = before.brightness[d]

\* How far restore_vt is.
ProgressInv ==
    /\ pc \in {"r_activate", "r_wait", "r_backlight", "r_sysrq", "r_tty"} => klog = "on"
    /\ pc \in {"r_sysrq", "r_tty"} => \A d \in tracked : brightness[d] = before.brightness[d]
    /\ pc = "r_tty" => sysrq = before.sysrq
    /\ pc \in RestoreSteps => vt_restored
    /\ pc \in {"return", "restore"} /\ vt_restored /\ ttyVT # NoVT => RestoredAll
    /\ pc = "return" /\ rc = 0 => vt_restored

\* restore_vt can only skip its work when /dev/tty0 was never opened.
KnownInv ==
    /\ tty_fd # "none" \/ original_vt # NoVT => ttyVT # NoVT
    /\ pc \in Starting \cup {"sysrq_read", "sysrq_write", "backlight", "open_tty0"} =>
          ttyVT = NoVT
    /\ pc \in Starting \cup {"sysrq_read", "sysrq_write", "backlight", "open_tty0",
                             "getstate"} => original_vt = NoVT
    /\ (pc \in {"r_text", "r_close"} \/ (pc \in {"return", "restore"} /\ ~vt_restored))
          /\ tty_fd = "none" => ttyVT = NoVT
    /\ pc \in RestoreSteps \cup {"return", "restore"} /\ rc = 0 => original_vt # NoVT

EndInv ==
    /\ pc = "exited" => exit # "none"
    /\ exit = "normal" => original_vt # NoVT
    /\ exit \in {"normal", "failed"} /\ ttyVT # NoVT => RestoredAll

SettingsInv == SavedInv /\ ProgressInv /\ KnownInv /\ EndInv

\* Nothing has been saved or changed before the first step.
LEMMA InitSettings == Init => SettingsInv
  <1> SUFFICES ASSUME Init PROVE SettingsInv
    OBVIOUS
  <1>1. pc = "klog" /\ exit = "none" /\ before.sysrq = sysrq /\ before.brightness = brightness
    BY DEF Init
  <1> QED
    BY <1>1 DEF Init, SettingsInv, SavedInv, ProgressInv, KnownInv, EndInv, RestoreSteps,
       Emergency

\* The steps before the screen is asked for.
LEMMA StartSettings ==
  TypeOK /\ ConsoleInv /\ SettingsInv /\ (Start \/ StealVT) => SettingsInv'
  <1> SUFFICES ASSUME TypeOK, ConsoleInv, SettingsInv, Start \/ StealVT PROVE SettingsInv'
    OBVIOUS
  <1> USE DEF procVars, journalVars, savedVars, vtVars, hwVars, Goto, Fail
  <1> USE DEF SettingsInv, SavedInv, ProgressInv, KnownInv, EndInv
  <1>0. exit = "none" /\ (pc \in BeforeSwitch \cup {"wait_rescue"} \cup Owning => ~vt_restored)
    BY DEF Start, StealVT, ConsoleInv, ExitInv, RestoringInv, MuteKernelLog, InstallHandlers,
       ReadSysRq, WriteSysRq, force_backlight, OpenTty0, GetState, OpenQry, OpenRescueTty,
       ActivateRescue, WaitRescue, GraphicsMode
  <1>1. CASE MuteKernelLog \/ InstallHandlers
    BY <1>0, <1>1 DEF MuteKernelLog, InstallHandlers, RestoreSteps, Emergency, Starting
  <1>2. CASE ReadSysRq
    BY <1>0, <1>2 DEF ReadSysRq, RestoreSteps, Emergency, Starting, TypeOK
  <1>3. CASE WriteSysRq
    BY <1>0, <1>3 DEF WriteSysRq, RestoreSteps, Emergency, Starting
  <1>4. CASE force_backlight
    <2>1. PICK T \in SUBSET Backlights : tracked' = T /\ saved' = brightness
      BY <1>4 DEF force_backlight
    <2>2. \A d \in tracked' : saved'[d] = before'.brightness[d]
      BY <2>1, <1>4 DEF force_backlight
    <2> QED
      BY <1>0, <1>4, <2>2 DEF force_backlight, RestoreSteps, Emergency, Starting
  <1>5. CASE OpenTty0
    <2>1. fg # NoVT
      BY TakeoverAssumption DEF TypeOK, NoVT
    <2> QED
      BY <1>0, <1>5, <2>1 DEF OpenTty0, RestoreSteps, Emergency, Starting, BeforeSwitch,
         TakingOver, ConsoleInv, UntouchedInv
  <1>6. CASE GetState
    <2>1. tty_fd = "open"
      BY <1>6 DEF GetState, ConsoleInv, UntouchedInv, BeforeSwitch, TakingOver
    <2> QED
      BY <1>0, <1>6, <2>1 DEF GetState, RestoreSteps, Emergency, Starting, BeforeSwitch,
         TakingOver
  <1>7. CASE OpenQry \/ OpenRescueTty \/ WaitRescue \/ GraphicsMode
    BY <1>0, <1>7 DEF OpenQry, OpenRescueTty, WaitRescue, GraphicsMode, RestoreSteps,
       Emergency, Starting
  <1>8. CASE ActivateRescue
    <2>1. tty_fd = "open"
      BY <1>8 DEF ActivateRescue, ConsoleInv, UntouchedInv, BeforeSwitch, TakingOver
    <2> QED
      BY <1>0, <1>8, <2>1 DEF ActivateRescue, RestoreSteps, Emergency, Starting, BeforeSwitch,
         TakingOver, Stale
  <1> QED
    BY <1>1, <1>2, <1>3, <1>4, <1>5, <1>6, <1>7, <1>8 DEF Start, StealVT

\* The steps of the session and of restore_vt.
LEMMA LeaveSettings ==
  TypeOK /\ ConsoleInv /\ SettingsInv /\ (InitGUI \/ maintain_backlight \/ User \/ Leave)
    => SettingsInv'
  <1> SUFFICES ASSUME TypeOK, ConsoleInv, SettingsInv,
                      InitGUI \/ maintain_backlight \/ User \/ Leave
               PROVE  SettingsInv'
    OBVIOUS
  <1> USE DEF procVars, journalVars, savedVars, vtVars, hwVars, Goto, Fail
  <1> USE DEF SettingsInv, SavedInv, ProgressInv, KnownInv, EndInv, RestoredAll,
          RestoreSteps, Emergency, Starting
  <1>0. pc # "exited" => exit = "none"
    BY DEF ConsoleInv, ExitInv
  <1>1. CASE InitGUI
    <2>1. pc \in Owning /\ tty_fd = "open" /\ original_vt # NoVT /\ ~vt_restored
      BY <1>1 DEF InitGUI, ScanCards, SetupBuffers, InitRawfb, GrabInput, ConsoleInv,
         OwningInv, RestoringInv, Owning
    <2> QED
      BY <1>0, <1>1, <2>1 DEF InitGUI, ScanCards, SetupBuffers, InitRawfb, GrabInput
  <1>2. CASE maintain_backlight
    BY <1>0, <1>2 DEF maintain_backlight
  <1>3. CASE User
    <2>1. tty_fd = "open"
      BY <1>3 DEF User, LeaveLoop, SwitchUser, ConsoleInv, OwningInv, Owning
    <2> QED  BY <1>0, <1>3, <2>1 DEF User, LeaveLoop, SwitchUser
  <1>4. CASE CloseInput \/ cleanup_drm
    <2>1. pc \in Owning /\ tty_fd = "open" /\ original_vt # NoVT /\ ~vt_restored
      BY <1>4 DEF CloseInput, cleanup_drm, ConsoleInv, OwningInv, RestoringInv, Owning
    <2> QED  BY <1>0, <1>4, <2>1 DEF CloseInput, cleanup_drm
  <1>5. CASE Return
    BY <1>0, <1>5 DEF Return
  <1>6. CASE restore_vt
    BY <1>0, <1>6 DEF restore_vt
  <1>7. CASE RestoreText \/ CloseRescueTty \/ UnmuteKernelLog
    BY <1>0, <1>7 DEF RestoreText, CloseRescueTty, UnmuteKernelLog
  <1>8. CASE ActivateOriginal \/ WaitOriginal
    BY <1>0, <1>8 DEF ActivateOriginal, WaitOriginal
  <1>9. CASE restore_backlight
    <2>1. \A d \in tracked' : brightness'[d] = before'.brightness[d]
      BY <1>9 DEF restore_backlight, TypeOK
    <2> QED  BY <1>0, <1>9, <2>1 DEF restore_backlight
  <1>10. CASE restore_sysrq
    <2>1. sysrq' = before'.sysrq
      BY <1>10 DEF restore_sysrq, TypeOK
    <2> QED  BY <1>0, <1>10, <2>1 DEF restore_sysrq
  <1>11. CASE CloseTty
    BY <1>0, <1>11 DEF CloseTty
  <1> QED
    BY <1>1, <1>2, <1>3, <1>4, <1>5, <1>6, <1>7, <1>8, <1>9, <1>10, <1>11 DEF Leave

\* The steps of the handler, of a kill and of the rest of the machine.
LEMMA OtherSettings ==
  /\ TypeOK /\ ConsoleInv /\ SettingsInv
  /\ emergency_restore \/ Signal \/ Killed \/ Environment
  => SettingsInv'
  <1> SUFFICES ASSUME TypeOK, ConsoleInv, SettingsInv,
                      emergency_restore \/ Signal \/ Killed \/ Environment
               PROVE  SettingsInv'
    OBVIOUS
  <1> USE DEF procVars, journalVars, savedVars, vtVars, hwVars, Goto
  <1> USE DEF SettingsInv, SavedInv, ProgressInv, KnownInv, EndInv, RestoredAll,
          RestoreSteps, Emergency, Starting
  <1>0. pc # "exited" => exit = "none"
    BY DEF ConsoleInv, ExitInv
  <1>1. CASE emergency_restore
    BY <1>0, <1>1 DEF emergency_restore, EmergencyRescueText, EmergencyTtyText,
       EmergencyActivate, EmergencySysRq
  <1>2. CASE Signal \/ Killed
    BY <1>0, <1>2 DEF Signal, Handled, Killed
  <1>3. CASE ConsoleWorker \/ DesktopReleases \/ \E v \in VTs : DesktopDies(v)
    BY <1>3 DEF ConsoleWorker, DesktopReleases, DesktopDies
  <1>4. CASE \E d \in Backlights : SomeoneDims(d)
    BY <1>0, <1>4 DEF SomeoneDims
  <1> QED  BY <1>1, <1>2, <1>3, <1>4 DEF Environment

\* The invariant holds in every state of every behaviour.
LEMMA SettingsInvariance == Spec => [](TypeOK /\ ConsoleInv /\ SettingsInv)
  <1>1. TypeOK /\ ConsoleInv /\ SettingsInv /\ [Next]_vars => SettingsInv'
    <2> SUFFICES ASSUME TypeOK, ConsoleInv, SettingsInv, [Next]_vars PROVE SettingsInv'
      OBVIOUS
    <2>1. CASE UNCHANGED vars
      BY <2>1 DEF vars, procVars, journalVars, savedVars, hwVars, SettingsInv, SavedInv,
         ProgressInv, KnownInv, EndInv, RestoredAll
    <2> QED
      BY <2>1, StartSettings, LeaveSettings, OtherSettings DEF Next, Process, Done
  <1> QED  BY InitSettings, <1>1, Invariance, PTL DEF Spec

\* restore_vt gives back SysRq, the kernel log level and every backlight it changed,
\* for any number of devices, after a session and after a start that failed anywhere but
\* in the opening of /dev/tty0.  (That one leaves them changed: restore_vt has no tty_fd.)
THEOREM SettingsReturned == Spec => []FullRestoration
  <1>1. TypeOK /\ ConsoleInv /\ SettingsInv => FullRestoration
    BY DEF SettingsInv, KnownInv, EndInv, RestoredAll, FullRestoration
  <1> QED  BY SettingsInvariance, <1>1, PTL

-----------------------------------------------------------------------------
(* The refinement.                                                          *)

StageFacts ==
    /\ exit = "none" /\ pc \in Starting \cup TakingOver
                              \cup {"graphics", "scan", "buffers", "rawfb", "input"}
          => Stage = "taking"
    /\ exit = "none" /\ pc = "running" => Stage = "serving"
    /\ exit = "none" /\ pc \in Restoring \cup {"close_input", "cleanup_drm"}
          => Stage = IF original_vt = NoVT THEN "refusing" ELSE "giving"
    /\ pc \in Emergency \/ exit \in {"emergency", "killed"} => Stage = "abandoned"
    /\ pc = "exited" /\ exit \in {"normal", "failed"}
          => Stage = IF original_vt = NoVT THEN "refused" ELSE "returned"

\* The stage of the abstract console at each step of the process.
LEMMA StageValue == StageFacts /\ StageFacts'
  <1> USE DEF Starting, TakingOver, Restoring, Emergency
  <1>1. StageFacts  BY DEF StageFacts, Stage
  <1>2. StageFacts'  BY DEF StageFacts, Stage
  <1> QED  BY <1>1, <1>2

ChangedFacts ==
    /\ Changed \subseteq Settings
    /\ "sysrq" \in Changed <=> sysrq # before.sysrq
    /\ "klog" \in Changed <=> klog # "on"
    /\ "backlight" \in Changed <=> \E d \in tracked : brightness[d] # before.brightness[d]

\* What it means that a setting is changed.
LEMMA ChangedValue == ChangedFacts /\ ChangedFacts'
  <1>1. ChangedFacts  BY DEF ChangedFacts, Changed, Settings
  <1>2. ChangedFacts'  BY DEF ChangedFacts, Changed, Settings
  <1> QED  BY <1>1, <1>2

\* A step that leaves the settings alone leaves the changed ones alone.
LEMMA ChangedSame ==
  ASSUME UNCHANGED <<sysrq, klog, brightness, tracked, before>>
  PROVE  Changed' = Changed
  BY DEF Changed

\* A step that neither moves the screen nor the console to come home to.
LEMMA ScreenSame ==
  ASSUME UNCHANGED <<fg, original_vt, before>>
  PROVE  Screen' = Screen
  BY DEF Screen, Home

\* The initial states are ones of the abstract console.
LEMMA InitRefines == Init => C!Init
  <1> SUFFICES ASSUME Init PROVE C!Init
    OBVIOUS
  <1>1. Stage = "taking"
    BY StageValue DEF Init, StageFacts, Starting
  <1>2. Changed = {}
    BY DEF Init, Changed
  <1>3. Screen = "user"
    BY DEF Init, Screen, Home
  <1> QED  BY <1>1, <1>2, <1>3 DEF C!Init

\* The start takes, or refuses, or fails and begins to give back.
LEMMA TakingRefines ==
  TypeOK /\ ConsoleInv /\ SettingsInv /\ (Start \/ StealVT \/ InitGUI) => C!Next
  <1> SUFFICES ASSUME TypeOK, ConsoleInv, SettingsInv, Start \/ StealVT \/ InitGUI
               PROVE  C!Next
    OBVIOUS
  <1> USE DEF procVars, journalVars, savedVars, vtVars, hwVars, Goto, Fail
  <1> USE DEF Starting, TakingOver, Restoring
  <1>1. exit = "none" /\ exit' = "none" /\ Stage = "taking" /\ Screen' \in {"user", "gui"}
        /\ Changed' \subseteq Settings
    <2>1. exit = "none" /\ pc \in Starting \cup TakingOver
                              \cup {"graphics", "scan", "buffers", "rawfb", "input"}
      BY DEF ConsoleInv, ExitInv, Start, MuteKernelLog, InstallHandlers, ReadSysRq, WriteSysRq,
         force_backlight, StealVT, OpenTty0, GetState, OpenQry, OpenRescueTty, ActivateRescue,
         WaitRescue, GraphicsMode, InitGUI, ScanCards, SetupBuffers, InitRawfb, GrabInput
    <2>2. exit' = exit
      BY DEF Start, MuteKernelLog, InstallHandlers, ReadSysRq, WriteSysRq,
         force_backlight, StealVT, OpenTty0, GetState, OpenQry, OpenRescueTty, ActivateRescue,
         WaitRescue, GraphicsMode, InitGUI, ScanCards, SetupBuffers, InitRawfb, GrabInput
    <2> QED
      BY <2>1, <2>2, StageValue, ChangedValue DEF StageFacts, ChangedFacts, Screen
  <1>2. CASE Start
    <2>1. Stage' = "taking"
      BY <1>1, <1>2, StageValue DEF StageFacts, Start, MuteKernelLog, InstallHandlers,
         ReadSysRq, WriteSysRq, force_backlight
    <2>2. Changed \subseteq Changed'
      <3>1. sysrq # before.sysrq => sysrq' # before'.sysrq
        BY <1>2 DEF Start, MuteKernelLog, InstallHandlers, ReadSysRq, WriteSysRq,
           force_backlight, SettingsInv, SavedInv
      <3>2. klog # "on" => klog' # "on"
        BY <1>2 DEF Start, MuteKernelLog, InstallHandlers, ReadSysRq, WriteSysRq,
           force_backlight
      <3>3. tracked = {}
        BY <1>2 DEF Start, MuteKernelLog, InstallHandlers, ReadSysRq, WriteSysRq,
           force_backlight, SettingsInv, SavedInv
      <3> QED
        BY <3>1, <3>2, <3>3, ChangedValue DEF ChangedFacts, Settings
    <2> QED  BY <1>1, <2>1, <2>2 DEF C!Next, C!Take
  <1>3. CASE StealVT
    <2>1. Changed' = Changed
      BY <1>3, ChangedSame DEF StealVT, OpenTty0, GetState, OpenQry, OpenRescueTty,
         ActivateRescue, WaitRescue, GraphicsMode
    <2>2. CASE pc' \in TakingOver \cup {"graphics", "scan"}
      <3>1. Stage' = "taking"
        BY <1>1, <2>2, StageValue DEF StageFacts
      <3> QED  BY <1>1, <2>1, <3>1 DEF C!Next, C!Take
    <2>3. CASE pc' = "return"
      <3>1. OpenTty0 \/ GetState \/ ActivateRescue
        BY <1>3, <2>3 DEF StealVT, OpenQry, OpenRescueTty, WaitRescue, GraphicsMode
      <3>2. UNCHANGED <<fg, original_vt, before>>
        BY <2>3, <3>1 DEF OpenTty0, GetState, ActivateRescue
      <3>3. Screen = "user" /\ Screen' = Screen
        <4>1. fg = Home
          BY <3>1 DEF ConsoleInv, UntouchedInv, BeforeSwitch, OpenTty0, GetState,
             ActivateRescue, Home
        <4> QED  BY <4>1, <3>2, ScreenSame DEF Screen
      <3>4. Stage' \in {"refusing", "giving"}
        BY <1>1, <2>3, StageValue DEF StageFacts
      <3> QED  BY <1>1, <2>1, <3>3, <3>4 DEF C!Next, C!Refuse, C!Fail
    <2> QED
      BY <1>3, <2>2, <2>3 DEF StealVT, OpenTty0, GetState, OpenQry, OpenRescueTty,
         ActivateRescue, WaitRescue, GraphicsMode
  <1>4. CASE InitGUI
    <2>1. Changed' = Changed /\ Screen' = Screen /\ original_vt' # NoVT
      <3>1. UNCHANGED <<sysrq, klog, brightness, tracked, before, fg, original_vt>>
        BY <1>4 DEF InitGUI, ScanCards, SetupBuffers, InitRawfb, GrabInput
      <3>2. original_vt # NoVT
        BY <1>4 DEF InitGUI, ScanCards, SetupBuffers, InitRawfb, GrabInput, ConsoleInv,
           OwningInv, Owning
      <3> QED  BY <3>1, <3>2, ChangedSame, ScreenSame
    <2>2. Stage' \in {"taking", "serving", "giving"}
      BY <1>1, <1>4, <2>1, StageValue DEF StageFacts, InitGUI, ScanCards, SetupBuffers,
         InitRawfb, GrabInput
    <2> QED  BY <1>1, <2>1, <2>2 DEF C!Next, C!Take, C!Fail
  <1> QED  BY <1>2, <1>3, <1>4

\* The session serves; restore_vt gives back, one setting after another, and ends with
\* nothing changed.
LEMMA LeavingRefines ==
  TypeOK /\ ConsoleInv /\ SettingsInv /\ (maintain_backlight \/ User \/ Leave) => C!Next
  <1> SUFFICES ASSUME TypeOK, ConsoleInv, SettingsInv, maintain_backlight \/ User \/ Leave
               PROVE  C!Next
    OBVIOUS
  <1> USE DEF procVars, journalVars, savedVars, vtVars, hwVars, Goto
  <1>0. Changed \subseteq Settings /\ Changed' \subseteq Settings
        /\ Screen' \in {"user", "gui"} /\ (pc # "exited" => exit = "none")
    BY ChangedValue DEF ChangedFacts, Screen, ConsoleInv, ExitInv
  <1>1. CASE maintain_backlight \/ User
    <2>1. pc = "running" /\ exit = "none" /\ exit' = "none" /\ pc' \in {"running", "close_input"}
      BY <1>0, <1>1 DEF maintain_backlight, User, LeaveLoop, SwitchUser
    <2>2. original_vt' # NoVT
      <3>1. original_vt # NoVT
        BY <2>1 DEF ConsoleInv, OwningInv, Owning
      <3>2. \A v \in before.inUse : v # NoVT
        BY TakeoverAssumption DEF TypeOK, NoVT
      <3> QED  BY <1>1, <3>1, <3>2 DEF maintain_backlight, User, LeaveLoop, SwitchUser
    <2>3. Stage = "serving" /\ Stage' \in {"serving", "giving"}
      BY <2>1, <2>2, StageValue DEF StageFacts
    <2> QED  BY <1>0, <2>3 DEF C!Next, C!Serve
  <1>2. CASE Leave
    <2>1. pc \in Restoring \cup {"close_input", "cleanup_drm"} /\ exit = "none"
      BY <1>0, <1>2 DEF Leave, CloseInput, cleanup_drm, Return, restore_vt, RestoreText,
         CloseRescueTty, UnmuteKernelLog, ActivateOriginal, WaitOriginal, restore_backlight,
         restore_sysrq, CloseTty, Restoring
    <2>2. UNCHANGED <<fg, original_vt, before, tracked>>
      BY <1>2 DEF Leave, CloseInput, cleanup_drm, Return, restore_vt, RestoreText,
         CloseRescueTty, UnmuteKernelLog, ActivateOriginal, WaitOriginal, restore_backlight,
         restore_sysrq, CloseTty
    <2>3. Screen' = Screen
      BY <2>2, ScreenSame
    <2>4. Stage = IF original_vt = NoVT THEN "refusing" ELSE "giving"
      BY <2>1, StageValue DEF StageFacts
    <2>5. Changed' \subseteq Changed
      <3>1. sysrq' # before'.sysrq => sysrq # before.sysrq
        BY <1>2 DEF Leave, CloseInput, cleanup_drm, Return, restore_vt, RestoreText,
           CloseRescueTty, UnmuteKernelLog, ActivateOriginal, WaitOriginal, restore_backlight,
           restore_sysrq, CloseTty, SettingsInv, SavedInv, TypeOK
      <3>2. klog' # "on" => klog # "on"
        BY <1>2 DEF Leave, CloseInput, cleanup_drm, Return, restore_vt, RestoreText,
           CloseRescueTty, UnmuteKernelLog, ActivateOriginal, WaitOriginal, restore_backlight,
           restore_sysrq, CloseTty
      <3>3. \A d \in tracked' : brightness'[d] # before'.brightness[d]
                                  => brightness[d] # before.brightness[d]
        BY <1>2, <2>2 DEF Leave, CloseInput, cleanup_drm, Return, restore_vt, RestoreText,
           CloseRescueTty, UnmuteKernelLog, ActivateOriginal, WaitOriginal, restore_backlight,
           restore_sysrq, CloseTty, SettingsInv, SavedInv, TypeOK
      <3> QED
        BY <2>2, <3>1, <3>2, <3>3, ChangedValue DEF ChangedFacts, Settings
    <2>6. CASE pc' # "exited"
      <3>1. pc' \in Restoring \cup {"close_input", "cleanup_drm"} /\ exit' = "none"
        BY <2>1, <1>2, <2>6 DEF Leave, CloseInput, cleanup_drm, Return, restore_vt, RestoreText,
           CloseRescueTty, UnmuteKernelLog, ActivateOriginal, WaitOriginal, restore_backlight,
           restore_sysrq, CloseTty, Restoring
      <3>2. Stage' = Stage
        BY <2>2, <2>4, <3>1, StageValue DEF StageFacts
      <3> QED  BY <2>3, <2>4, <2>5, <3>2 DEF C!Next, C!GiveBack, C!Undo
    <2>7. CASE pc' = "exited"
      <3>1. (Return \/ restore_vt) /\ exit' \in {"normal", "failed"}
        BY <1>2, <2>7 DEF Leave, CloseInput, cleanup_drm, Return, restore_vt, RestoreText,
           CloseRescueTty, UnmuteKernelLog, ActivateOriginal, WaitOriginal, restore_backlight,
           restore_sysrq, CloseTty
      <3>2. Changed' = Changed
        BY <3>1, ChangedSame DEF Return, restore_vt
      <3>3. Stage' = IF original_vt = NoVT THEN "refused" ELSE "returned"
        BY <2>2, <2>7, <3>1, StageValue DEF StageFacts
      <3>4. pc \in {"return", "restore"} /\ vt_restored
        BY <2>7, <3>1 DEF Return, restore_vt, SettingsInv, ProgressInv
      <3>5. Screen = "user"
        BY <3>4 DEF ConsoleInv, RestoringInv, AtHome, Screen
      <3>6. original_vt # NoVT => Changed = {}
        BY <3>4, ChangedValue DEF SettingsInv, ProgressInv, KnownInv, RestoredAll, ChangedFacts,
           Settings
      <3> QED
        BY <2>3, <2>4, <3>2, <3>3, <3>5, <3>6 DEF C!Next, C!Undo, C!Return
    <2> QED  BY <2>6, <2>7
  <1> QED  BY <1>1, <1>2

\* A signal abandons the console.
LEMMA SignalRefines ==
  TypeOK /\ ConsoleInv /\ SettingsInv /\ (emergency_restore \/ Signal \/ Killed) => C!Next
  <1> SUFFICES ASSUME TypeOK, ConsoleInv, SettingsInv, emergency_restore \/ Signal \/ Killed
               PROVE  C!Next
    OBVIOUS
  <1> USE DEF procVars, Goto, Emergency
  <1>1. pc # "exited" /\ exit = "none"
    BY DEF ConsoleInv, ExitInv, emergency_restore, EmergencyRescueText, EmergencyTtyText,
       EmergencyActivate, EmergencySysRq, Signal, Handled, Killed
  <1>2. Stage \notin {"returned", "refused"}
    BY <1>1 DEF Stage
  <1>3. Stage' = "abandoned"
    <2>1. pc' \in Emergency \/ exit' \in {"emergency", "killed"}
      BY DEF emergency_restore, EmergencyRescueText, EmergencyTtyText, EmergencyActivate,
         EmergencySysRq, Signal, Killed
    <2> QED  BY <2>1, StageValue DEF StageFacts
  <1>4. Changed' \subseteq Settings /\ Screen' \in {"user", "gui"}
    BY ChangedValue DEF ChangedFacts, Screen
  <1> QED  BY <1>2, <1>3, <1>4 DEF C!Next, C!Abandon

\* The switches that end while the GUI gives the screen back, or after it has, lead home.
LEMMA EnvironmentRefines ==
  TypeOK /\ ConsoleInv /\ SettingsInv /\ Environment => C!Next \/ UNCHANGED C!vars
  <1> SUFFICES ASSUME TypeOK, ConsoleInv, SettingsInv, Environment
               PROVE  C!Next \/ UNCHANGED C!vars
    OBVIOUS
  <1> USE DEF procVars, journalVars, savedVars, vtVars, hwVars
  <1>0. UNCHANGED <<pc, exit, original_vt, before, tracked>>
    BY DEF Environment, ConsoleWorker, DesktopReleases, DesktopDies, SomeoneDims
  <1>1. Stage' = Stage
    BY <1>0 DEF Stage
  <1>2. Changed' \subseteq Settings /\ Screen' \in {"user", "gui"}
    BY ChangedValue DEF ChangedFacts, Screen
  <1>3. CASE \E d \in Backlights : SomeoneDims(d)
    <2>1. Stage = "serving"
      BY <1>3, StageValue DEF SomeoneDims, StageFacts, ConsoleInv, ExitInv
    <2> QED  BY <1>1, <1>2, <2>1 DEF C!Next, C!Serve
  <1>4. CASE ConsoleWorker \/ DesktopReleases \/ \E v \in VTs : DesktopDies(v)
    <2>1. Changed' = Changed
      BY <1>4, ChangedSame DEF ConsoleWorker, DesktopReleases, DesktopDies
    <2>2. fg' \in {fg, want, release} /\ (fg' # fg => fg' # NoVT)
      BY <1>4 DEF ConsoleWorker, DesktopReleases, DesktopDies, SwitchTo
    <2>3. Home' = Home
      BY <1>0 DEF Home
    <2>4. AtHome => Screen' = Screen
      BY <2>2, <2>3 DEF AtHome, InFlightHome, Screen
    <2>5. Away \/ Quiet \/ AtHome \/ InFlightHome => Screen' \in {Screen, "user"}
      BY <2>2, <2>3 DEF Away, Quiet, AtHome, InFlightHome, Screen
    <2>6. CASE Stage \in {"taking", "serving", "abandoned"}
      BY <1>1, <1>2, <2>1, <2>6 DEF C!Next, C!Take, C!Serve, C!Abandon
    <2>7. CASE Stage = "giving"
      <3>1. pc \in Restoring \cup {"close_input", "cleanup_drm"}
        BY <2>7 DEF Stage
      <3>2. Away \/ Quiet \/ AtHome \/ InFlightHome
        BY <3>1 DEF ConsoleInv, OwningInv, RestoringInv, Owning, Restoring
      <3> QED  BY <1>1, <2>1, <2>5, <2>7, <3>2 DEF C!Next, C!GiveBack
    <2>8. CASE Stage \in {"refusing", "returned", "refused"}
      <3>1. AtHome
        <4>1. CASE exit \in {"normal", "failed"}
          BY <4>1 DEF ConsoleInv, ExitInv
        <4>2. CASE exit \notin {"normal", "failed"}
          <5>1. pc \in Restoring \cup {"close_input", "cleanup_drm"} /\ original_vt = NoVT
            BY <2>8, <4>2 DEF Stage
          <5> QED
            BY <5>1 DEF ConsoleInv, OwningInv, RestoringInv, Owning, Restoring, Away
        <4> QED  BY <4>1, <4>2
      <3> QED  BY <1>1, <2>1, <2>4, <3>1 DEF C!vars
    <2>9. Stage \in {"taking", "serving", "abandoned", "giving", "refusing", "returned", "refused"}
      BY DEF Stage
    <2> QED  BY <2>6, <2>7, <2>8, <2>9
  <1> QED  BY <1>3, <1>4 DEF Environment

\* Takeover implements Console: whatever the order in which the process, its signals, the
\* kernel and the desktops take their steps, the console is borrowed and given back.
THEOREM TakeoverImplementsConsole == Spec => GivenBack
  <1>1. TypeOK /\ ConsoleInv /\ SettingsInv /\ [Next]_vars => [C!Next]_(C!vars)
    <2> SUFFICES ASSUME TypeOK, ConsoleInv, SettingsInv, [Next]_vars
                 PROVE  C!Next \/ UNCHANGED C!vars
      OBVIOUS
    <2>1. CASE UNCHANGED vars
      BY <2>1 DEF vars, procVars, journalVars, savedVars, vtVars, hwVars, C!vars, Stage,
         Changed, Screen, Home
    <2> QED
      BY <2>1, TakingRefines, LeavingRefines, SignalRefines, EnvironmentRefines
      DEF Next, Process, Done
  <1> QED
    BY InitRefines, SettingsInvariance, <1>1, PTL DEF Spec, GivenBack, C!Spec
=============================================================================
