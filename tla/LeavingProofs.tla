---------------------------- MODULE LeavingProofs ----------------------------
(* Proofs about Leaving, for any number of polling rounds and processes.     *)
EXTENDS Leaving, TLAPS

\* Closing the descriptors of a process keeps their sets and master typed.
LEMMA CloseAllType ==
    ASSUME NEW p, kbd \subseteq Holders, drm \subseteq Holders, master \in BOOLEAN,
           CloseAll(p)
    PROVE  kbd' \subseteq Holders /\ drm' \subseteq Holders /\ master' \in BOOLEAN
BY DEF CloseAll

\* A poll round of PollVT keeps the counter within its bound.
LEMMA PollVTType ==
    ASSUME NEW a, NEW b \in HelperSteps, helper \in HelperSteps, left \in 0..Polls,
           PollVT(a, b)
    PROVE  helper' \in HelperSteps /\ left' \in 0..Polls
BY LeavingAssumption DEF PollVT, HelperGoto

\* A poll round of WatchSession keeps the counter within its bound.
LEMMA WatchSessionType ==
    ASSUME NEW a, NEW n, NEW b \in HelperSteps, NEW c \in HelperSteps, TypeOK,
           WatchSession(a, n, b, c)
    PROVE  TypeOK'
<1>1. helper' \in HelperSteps /\ left' \in 0..Polls
  BY LeavingAssumption DEF TypeOK, WatchSession, HelperGoto
<1>2. blind' = (b = "done" \/ blind) \/ blind' = blind
  BY Zenon DEF WatchSession
<1>3. blind' \in BOOLEAN
  BY <1>2, Zenon DEF TypeOK
<1>4. UNCHANGED <<guiVars, sigterm, fileVars, syncVars, procs, asked, loginctl, killVars,
                  bootVars>>
  BY Zenon DEF WatchSession
<1> QED
  BY <1>1, <1>3, <1>4
  DEF TypeOK, guiVars, fileVars, syncVars, killVars, bootVars

\* Every step of the GUI keeps the types.
LEMMA GuiType == TypeOK /\ (Gui \/ User \/ Crash) => TypeOK'
<1> SUFFICES ASSUME TypeOK, Gui \/ User \/ Crash PROVE TypeOK'
  OBVIOUS
<1> USE DEF TypeOK, GuiGoto, guiVars, helpVars, fileVars, syncVars, sessVars, killVars, bootVars
<1>1. CASE SleepSync
  <2>1. sync' \in [{"gui", "helper"} -> {"none", "running", "ended", "reused"}]
    BY <1>1 DEF SleepSync, SyncFork
  <2>2. kbd' \subseteq Holders /\ drm' \subseteq Holders
    BY <1>1 DEF SleepSync, Inherit, Holders
  <2> QED BY <1>1, <2>1, <2>2 DEF SleepSync
<1>2. CASE SleepKill
  <2>1. /\ sync' \in [{"gui", "helper"} -> {"none", "running", "ended", "reused"}]
        /\ victim' \in BOOLEAN
    BY <1>2 DEF SleepKill, SyncKill
  <2>2. CloseAll("sync") \/ UNCHANGED fileVars
    BY <1>2 DEF SleepKill
  <2>3. kbd' \subseteq Holders /\ drm' \subseteq Holders /\ master' \in BOOLEAN
    BY <2>2, CloseAllType
  <2> QED BY <1>2, <2>1, <2>3 DEF SleepKill
<1>3. ASSUME NEW c \in Choices, Choose(c) PROVE TypeOK'
  <2>1. kbd' \subseteq Holders /\ drm' \subseteq Holders
    BY <1>3 DEF Choose, Inherit, Holders
  <2> QED BY <1>3, <2>1 DEF Choose
<1>4. CASE CloseInput \/ CleanupDrm \/ RestoreVt \/ Return
  BY <1>4 DEF CloseInput, CleanupDrm, RestoreVt, Return
<1>5. CASE Crash
  <2>1. kbd' \subseteq Holders /\ drm' \subseteq Holders /\ master' \in BOOLEAN
    BY <1>5, CloseAllType DEF Crash
  <2> QED BY <1>5, <2>1 DEF Crash
<1> QED BY <1>1, <1>2, <1>3, <1>4, <1>5 DEF Gui, User

\* Every step of the helper and of the child that forks it keeps the types.
LEMMA HelperType == TypeOK /\ Helper => TypeOK'
<1> SUFFICES ASSUME TypeOK, Helper PROVE TypeOK'
  OBVIOUS
<1> USE DEF TypeOK, HelperGoto, guiVars, helpVars, fileVars, syncVars, sessVars, killVars, bootVars
<1>0. Polls \in 0..Polls
  BY LeavingAssumption
<1>1. CASE ChildForks
  <2>1. CASE CloseAll("child") /\ UNCHANGED <<helper, left>>
    <3>1. kbd' \subseteq Holders /\ drm' \subseteq Holders /\ master' \in BOOLEAN
      BY <2>1, CloseAllType
    <3> QED BY <1>1, <2>1, <3>1 DEF ChildForks
  <2>2. CASE ~(CloseAll("child") /\ UNCHANGED <<helper, left>>)
    <3>1. kbd' \subseteq Holders /\ drm' \subseteq Holders
      BY <1>1, <2>2 DEF ChildForks, Holders
    <3>2. helper' \in HelperSteps /\ left' \in 0..Polls /\ master' = master
      BY <1>0, <1>1, <2>2 DEF ChildForks, HelperSteps
    <3> QED BY <1>1, <3>1, <3>2 DEF ChildForks
  <2> QED BY <2>1, <2>2
<1>2. CASE LockWait \/ SignOutWait
  <2>1. PollVT("lock", "lock_cmd") \/ PollVT("s_wait", "s_desktop")
    BY <1>2 DEF LockWait, SignOutWait
  <2>2. helper' \in HelperSteps /\ left' \in 0..Polls
    BY <2>1, PollVTType DEF HelperSteps
  <2> QED BY <1>2, <2>2 DEF LockWait, SignOutWait
<1>3. CASE LockCommand \/ KillEnds \/ PowerReboot
  <2>1. CloseAll("helper") /\ helper' = "done"
    BY <1>3 DEF LockCommand, KillEnds, PowerReboot, HelperExits
  <2>2. kbd' \subseteq Holders /\ drm' \subseteq Holders /\ master' \in BOOLEAN
    BY <2>1, CloseAllType
  <2>3. pos' \in 0..(MaxProcs + 1)
    BY <1>3, LeavingAssumption DEF LockCommand, KillEnds, PowerReboot
  <2> QED
    BY <1>3, <2>1, <2>2, <2>3 DEF LockCommand, KillEnds, PowerReboot, HelperSteps
<1>4. CASE SignOutStart \/ PowerStart
  BY <1>4 DEF SignOutStart, PowerStart, DropAndClose, HelperSteps
<1>5. CASE DesktopLogout \/ TermAll
  <2>1. asked' \in {TRUE, asked}
    BY <1>5 DEF DesktopLogout, TermAll
  <2>2. asked' \in BOOLEAN
    BY <2>1
  <2> QED BY <1>5, <2>2 DEF DesktopLogout, TermAll, HelperSteps
<1>6. CASE WatchDesktop \/ WatchLoginctl \/ WatchTerm
  BY <1>6, WatchSessionType DEF WatchDesktop, WatchLoginctl, WatchTerm, HelperSteps
<1>7. CASE Loginctl \/ WaitLoginctl
  BY <1>7 DEF Loginctl, WaitLoginctl, HelperSteps
<1>8. CASE PowerSync
  <2>1. sync' \in [{"gui", "helper"} -> {"none", "running", "ended", "reused"}]
    BY <1>8 DEF PowerSync, SyncFork
  <2> QED BY <1>8, <2>1 DEF PowerSync, HelperSteps
<1>9. CASE PowerKill
  <2>1. /\ sync' \in [{"gui", "helper"} -> {"none", "running", "ended", "reused"}]
        /\ victim' \in BOOLEAN
    BY <1>9 DEF PowerKill, SyncKill
  <2> QED BY <1>9, <2>1 DEF PowerKill, HelperSteps
<1>10. CASE PowerCommand \/ PowerRemount
  BY <1>10 DEF PowerCommand, PowerRemount, HelperSteps
<1>11. CASE KillOpens
  <2>1. helper' \in HelperSteps /\ pos' \in 0..(MaxProcs + 1)
    BY <1>11, LeavingAssumption DEF KillOpens, HelperExits, HelperSteps
  <2>2. CloseAll("helper") \/ UNCHANGED fileVars
    BY <1>11 DEF KillOpens, HelperExits
  <2>3. kbd' \subseteq Holders /\ drm' \subseteq Holders /\ master' \in BOOLEAN
    BY <2>2, CloseAllType
  <2>4. blind' \in {TRUE, blind}
    BY <1>11 DEF KillOpens
  <2>5. blind' \in BOOLEAN
    BY <2>4
  <2> QED BY <1>11, <2>1, <2>3, <2>5 DEF KillOpens
<1>12. CASE KillNext
  <2>1. pos' \in 0..(MaxProcs + 1) /\ procs' \subseteq Pids
    BY <1>12, LeavingAssumption DEF KillNext
  <2> QED BY <1>12, <2>1 DEF KillNext
<1> QED
  BY <1>1, <1>2, <1>3, <1>4, <1>5, <1>6, <1>7, <1>8, <1>9, <1>10, <1>11, <1>12
  DEF Helper, execute_sign_out, execute_power

\* Every step around the GUI and the helper keeps the types.
LEMMA WorldType ==
    ASSUME TypeOK,
           \/ SwitchBack \/ DiskFails \/ LoginctlEnds \/ ProcEnds \/ ProcForks
           \/ InitSystem \/ InitFreezes
           \/ \E o \in {"gui", "helper"} : SyncEnds(o) \/ PidReused(o)
    PROVE  TypeOK'
<1> USE DEF TypeOK, guiVars, helpVars, fileVars, syncVars, sessVars, killVars, bootVars
<1>1. ASSUME NEW o \in {"gui", "helper"}, SyncEnds(o) PROVE TypeOK'
  <2>1. CloseAll("sync") \/ UNCHANGED fileVars
    BY <1>1 DEF SyncEnds
  <2>2. kbd' \subseteq Holders /\ drm' \subseteq Holders /\ master' \in BOOLEAN
    BY <2>1, CloseAllType
  <2> QED BY <1>1, <2>2 DEF SyncEnds
<1>2. ASSUME NEW o \in {"gui", "helper"}, PidReused(o) PROVE TypeOK'
  BY <1>2 DEF PidReused
<1>3. CASE SwitchBack \/ DiskFails \/ InitFreezes \/ InitDown
  BY <1>3 DEF SwitchBack, DiskFails, InitFreezes, InitDown
<1>4. CASE LoginctlEnds
  <2>1. asked' \in {TRUE, asked}
    BY <1>4 DEF LoginctlEnds
  <2>2. asked' \in BOOLEAN
    BY <2>1
  <2> QED BY <1>4, <2>2 DEF LoginctlEnds
<1>5. CASE ProcEnds
  BY <1>5 DEF ProcEnds
<1>6. CASE InitTerm
  <2>1. kbd' \subseteq Holders /\ drm' \subseteq Holders
    BY <1>6 DEF InitTerm
  <2>2. master' \in BOOLEAN
    BY <1>6 DEF InitTerm
  <2>3. helper' \in HelperSteps /\ gui' \in {gui, "crashed"}
    BY <1>6 DEF InitTerm, HelperSteps
  <2> QED BY <1>6, <2>1, <2>2, <2>3 DEF InitTerm
<1>7. CASE ProcForks
  <2>1. PICK p \in Pids \ procs : procs' = procs \cup {p} /\ late' = (late \/ p < pos)
    BY <1>7 DEF ProcForks
  <2>2. late' \in BOOLEAN
    BY <2>1, Zenon
  <2> QED BY <1>7, <2>1, <2>2 DEF ProcForks
<1>8. CASE InitKill
  <2>1. kbd' \subseteq Holders /\ drm' \subseteq Holders
    BY <1>8 DEF InitKill
  <2>2. master' \in BOOLEAN
    BY <1>8 DEF InitKill
  <2>3. helper' \in HelperSteps /\ procs' \subseteq Pids /\ pos' \in 0..(MaxProcs + 1)
    BY <1>8, LeavingAssumption DEF InitKill, HelperSteps
  <2> QED BY <1>8, <2>1, <2>2, <2>3 DEF InitKill
<1> QED BY <1>1, <1>2, <1>3, <1>4, <1>5, <1>6, <1>7, <1>8 DEF InitSystem

\* Type correctness: whatever is inherited and closed in whatever order, only
\* the GUI, its children and the helper have the descriptors, and no polling
\* loop runs past its rounds.
THEOREM TypeCorrect == Spec => []TypeOK
<1>1. Init => TypeOK
  <2> SUFFICES ASSUME Init PROVE TypeOK
    OBVIOUS
  <2>1. 0 \in 0..Polls
    BY LeavingAssumption
  <2>2. sync \in [{"gui", "helper"} -> {"none", "running", "ended", "reused"}]
    BY DEF Init
  <2>3. kbd \subseteq Holders /\ drm \subseteq Holders /\ helper \in HelperSteps
    BY DEF Init, Holders, HelperSteps
  <2>4. master \in BOOLEAN /\ victim \in BOOLEAN /\ asked \in BOOLEAN /\ blind \in BOOLEAN
    BY DEF Init
  <2>5. 0 \in 0..(MaxProcs + 1)
    BY LeavingAssumption
  <2>6. pos = 0 /\ late \in BOOLEAN
    BY DEF Init
  <2> QED BY <2>1, <2>2, <2>3, <2>4, <2>5, <2>6 DEF Init, TypeOK
<1>2. TypeOK /\ [Next]_vars => TypeOK'
  <2> SUFFICES ASSUME TypeOK, [Next]_vars PROVE TypeOK'
    OBVIOUS
  <2>1. CASE UNCHANGED vars
    BY <2>1
    DEF vars, TypeOK, guiVars, helpVars, fileVars, syncVars, sessVars, killVars, bootVars
  <2> QED BY <2>1, GuiType, HelperType, WorldType DEF Next, Done
<1> QED BY <1>1, <1>2, PTL DEF Spec

-----------------------------------------------------------------------------
\* A helper that signs out, restarts or shuts down, past its first step.
Acting == HelperSteps \ (Choices \cup {"none", "lock_cmd", "done"})

\* The inductive form of MasterFree: from the first step of the helper on.
Released == helper \in Acting => ~master

\* Nothing makes a process of the GUI master again: mastership is only given up.
LEMMA MasterOnlyGivenUp == [Next]_vars => (master' => master)
<1> SUFFICES ASSUME [Next]_vars, master' PROVE master
  OBVIOUS
<1> USE DEF fileVars, CloseAll, DropAndClose
<1>1. CASE Gui \/ User \/ Crash
  BY <1>1 DEF Gui, User, Crash, SleepSync, SleepKill, Choose, CloseInput, CleanupDrm,
              RestoreVt, Return
<1>2. CASE ChildForks \/ LockWait \/ LockCommand
  BY <1>2 DEF ChildForks, LockWait, LockCommand, HelperExits
<1>3. CASE execute_sign_out
  BY <1>3 DEF execute_sign_out, SignOutStart, SignOutWait, DesktopLogout, WatchDesktop,
              Loginctl, WaitLoginctl, WatchLoginctl, TermAll, WatchTerm, KillOpens,
              KillNext, KillEnds, WatchSession, HelperExits
<1>4. CASE execute_power
  BY <1>4 DEF execute_power, PowerStart, PowerSync, PowerKill, PowerCommand,
              PowerRemount, PowerReboot, HelperExits
<1>5. CASE \/ SwitchBack \/ DiskFails \/ LoginctlEnds \/ ProcEnds \/ ProcForks
           \/ InitSystem \/ InitFreezes
           \/ \E o \in {"gui", "helper"} : SyncEnds(o) \/ PidReused(o)
  BY <1>5 DEF SwitchBack, DiskFails, LoginctlEnds, ProcEnds, ProcForks, InitSystem,
              InitTerm, InitKill, InitDown, InitFreezes, SyncEnds, PidReused
<1>6. CASE UNCHANGED vars
  BY <1>6 DEF vars
<1> QED BY <1>1, <1>2, <1>3, <1>4, <1>5, <1>6 DEF Next, Done, Helper

\* The helper only starts to act by a step that drops mastership.
LEMMA ActingStarts ==
    TypeOK /\ [Next]_vars /\ helper' \in Acting => helper \in Acting \/ ~master'
<1> SUFFICES ASSUME TypeOK, [Next]_vars, helper' \in Acting, helper \notin Acting
             PROVE  ~master'
  OBVIOUS
<1> USE DEF helpVars, HelperGoto, Acting, HelperSteps, Choices
<1>1. CASE Gui \/ User \/ Crash
  BY <1>1 DEF Gui, User, Crash, SleepSync, SleepKill, Choose, CloseInput, CleanupDrm,
              RestoreVt, Return
<1>2. CASE ChildForks \/ LockWait \/ LockCommand
  BY <1>2 DEF TypeOK, ChildForks, LockWait, PollVT, LockCommand, HelperExits
<1>3. CASE SignOutStart \/ PowerStart
  BY <1>3 DEF SignOutStart, PowerStart, DropAndClose
<1>4. CASE execute_sign_out /\ ~SignOutStart
  BY <1>4 DEF execute_sign_out, SignOutWait, PollVT, DesktopLogout, WatchDesktop,
              Loginctl, WaitLoginctl, WatchLoginctl, TermAll, WatchTerm, KillOpens,
              KillNext, KillEnds, WatchSession, HelperExits
<1>5. CASE execute_power /\ ~PowerStart
  BY <1>5 DEF execute_power, PowerSync, PowerKill, PowerCommand, PowerRemount,
              PowerReboot, HelperExits
<1>6. CASE \/ SwitchBack \/ DiskFails \/ LoginctlEnds \/ ProcEnds \/ ProcForks
           \/ InitSystem \/ InitFreezes
           \/ \E o \in {"gui", "helper"} : SyncEnds(o) \/ PidReused(o)
  BY <1>6 DEF SwitchBack, DiskFails, LoginctlEnds, ProcEnds, ProcForks, InitSystem,
              InitTerm, InitKill, InitDown, InitFreezes, SyncEnds, PidReused
<1>7. CASE UNCHANGED vars
  BY <1>7 DEF vars
<1> QED BY <1>1, <1>2, <1>3, <1>4, <1>5, <1>6, <1>7 DEF Next, Done, Helper

\* When the helper ends the session or asks for a reboot, nobody is DRM master:
\* for any interleaving with the GUI's own exit, its crash, a sync left behind.
THEOREM MasterReleased == Spec => []MasterFree
<1>1. Init => Released
  BY DEF Init, Released, Acting, Choices
<1>2. TypeOK /\ Released /\ [Next]_vars => Released'
  BY MasterOnlyGivenUp, ActingStarts DEF Released, Acting, HelperSteps, Choices
<1>3. Released => MasterFree
  BY DEF Released, Acting, HelperSteps, Choices, MasterFree
<1> QED BY <1>1, <1>2, <1>3, TypeCorrect, PTL DEF Spec
=============================================================================
