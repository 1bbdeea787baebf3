------------------------------ MODULE Watchdog ------------------------------
(***************************************************************************)
(* The daemon (cad_watchdog.c): it unpacks the rescue GUI into memory,     *)
(* finds a keyboard, follows its events until Ctrl, Alt and Delete are     *)
(* down together, refuses a locked screen, runs the GUI as a child and     *)
(* waits for it, and stops on SIGTERM.                                     *)
(*                                                                         *)
(* A system call that can block is two steps, its call and its wait, so    *)
(* that a signal can come between the test of terminate_requested and the  *)
(* wait.  External: the kernel's evdev queue, the keyboard and its user,   *)
(* the screen locker, and the child once it is the GUI.                    *)
(***************************************************************************)
EXTENDS Naturals, Sequences

CONSTANTS CtrlKeys,   \* KEY_LEFTCTRL, KEY_RIGHTCTRL: one flag for both
          Alt, Del,   \* KEY_LEFTALT, KEY_DELETE
          EvdevBuffer,\* events the kernel keeps for a reader
          force_path, \* a device was named on the command line
          Lockers     \* the ways a lock of this machine shows

Keys == CtrlKeys \cup {Alt, Del}

\* What is_screen_locked looks for: a process, Trinity's answer, LockedHint.
LockSigns == {"locker", "tde", "hint"}

ASSUME WatchdogAssumption ==
    /\ CtrlKeys # {}
    /\ "SYN_DROPPED" \notin Keys
    /\ Alt \notin CtrlKeys /\ Del \notin CtrlKeys /\ Alt # Del
    /\ EvdevBuffer \in Nat \ {0}
    /\ force_path \in BOOLEAN
    /\ Lockers \subseteq LockSigns

VARIABLES
    \* the daemon
    pc,             \* its next step
    term,           \* terminate_requested
    payload,        \* what gui_fd denotes: nothing, a memfd, a file
    file,           \* the file named by fallback_path exists
    fd,             \* the keyboard: closed, open, open and unplugged
    flags,          \* the keys whose flag (ctrl_, alt_, del_pressed) is 1
    fired,          \* the combination in hand was really down at its last event
    child,          \* the forked GUI
    \* the machine
    plugged, held, repeating,   \* the keyboard, its keys down, its repeat key
    queue,          \* events the kernel keeps for the daemon
    grab,           \* the GUI holds EVIOCGRAB on the keyboard
    lost,           \* the daemon missed an event since it opened the keyboard
    lock,           \* how the screen's lock shows, "none" when unlocked
    steady,         \* locked in one way ever since the combination in hand
    blind           \* why this check cannot see the lock: "probe", "proc" or "none"

daemonVars == <<pc, term, payload, file, fd, flags, fired>>
keyVars    == <<plugged, held, repeating, queue, grab, lost>>
lockVars   == <<lock, steady, blind>>
vars       == <<daemonVars, child, keyVars, lockVars>>

Ctrl == "ctrl"            \* ctrl_pressed, set by any key of CtrlKeys
Flags == {Ctrl, "alt", "del"}

\* An event says what the key did and whether the combination was really down
\* then.
Event == [key : Keys \cup {"SYN_DROPPED"}, down : BOOLEAN, real : BOOLEAN]
Dropped == [key |-> "SYN_DROPPED", down |-> FALSE, real |-> FALSE]
IsKey(e) == e.key \in Keys

Preparing == {"memfd", "fallback", "decompress", "write", "seal"}
Handling  == {"lock_procs", "lock_tde", "lock_logind", "fork", "wait_call",
              "waiting", "wait_eintr", "debounce"}
Steps     == Preparing \cup Handling \cup
             {"search", "open", "poll", "call", "blocked", "eintr", "close", "nap",
              "exited"}

Goto(a, b) == pc = a /\ pc' = b

-----------------------------------------------------------------------------
(* prepare_gui_memfd.                                                      *)

CreateMemfd ==
    /\ \/ Goto("memfd", "decompress") /\ payload' = "memfd"
       \/ Goto("memfd", "fallback") /\ UNCHANGED payload
    /\ UNCHANGED <<term, file, fd, flags, fired, child, keyVars, lockVars>>

\* /dev/shm, then /tmp; the descriptor stays open for writing.
CreateFallback ==
    /\ \/ /\ Goto("fallback", "decompress")
          /\ payload' = "file" /\ file' = TRUE
       \/ Goto("fallback", "exited") /\ UNCHANGED <<payload, file>>
    /\ UNCHANGED <<term, fd, flags, fired, child, keyVars, lockVars>>

\* malloc and the decompressor; on failure the file is unlinked.
Decompress ==
    /\ \/ Goto("decompress", "write") /\ UNCHANGED file
       \/ Goto("decompress", "exited") /\ file' = FALSE
    /\ UNCHANGED <<term, payload, fd, flags, fired, child, keyVars, lockVars>>

\* Mutant: a failed write leaves the file.
WritePayloadLeaves ==
    /\ \/ Goto("write", IF payload = "memfd" THEN "seal" ELSE "search")
       \/ Goto("write", "exited")
    /\ UNCHANGED <<term, payload, file, fd, flags, fired, child, keyVars, lockVars>>

\* The write loop goes on after EINTR.
WritePayload ==
    /\ \/ /\ Goto("write", IF payload = "memfd" THEN "seal" ELSE "search")
          /\ UNCHANGED file
       \/ Goto("write", "exited") /\ file' = FALSE
    /\ UNCHANGED <<term, payload, fd, flags, fired, child, keyVars, lockVars>>

SealMemfd ==
    /\ Goto("seal", "search") \/ Goto("seal", "exited")
    /\ UNCHANGED <<term, payload, file, fd, flags, fired, child, keyVars, lockVars>>

-----------------------------------------------------------------------------
(* The loop of main.                                                       *)

\* A stop is noticed here and runs the atexit handler, which unlinks the
\* file.  Otherwise find_keyboard, unless the device was named.
Search ==
    /\ \/ term /\ Goto("search", "exited") /\ file' = FALSE
       \/ ~term /\ (force_path \/ plugged) /\ Goto("search", "open") /\ UNCHANGED file
       \/ ~term /\ ~force_path /\ ~plugged /\ Goto("search", "nap") /\ UNCHANGED file
    /\ UNCHANGED <<term, payload, fd, flags, fired, child, keyVars, lockVars>>

\* Two seconds, cut short by a stop.
Nap ==
    /\ Goto("nap", "search")
    /\ UNCHANGED <<term, payload, file, fd, flags, fired, child, keyVars, lockVars>>

-----------------------------------------------------------------------------
(* listen_for_cad.                                                         *)

\* A new reader of the device starts with an empty queue and clear flags.
Open ==
    /\ \/ /\ plugged
          /\ Goto("open", "poll")
          /\ fd' = "open" /\ flags' = {} /\ queue' = <<>> /\ lost' = FALSE
       \/ /\ ~plugged
          /\ Goto("open", "nap")
          /\ UNCHANGED <<fd, flags, queue, lost>>
    /\ UNCHANGED <<term, payload, file, fired, child, plugged, held, repeating, grab,
                   lockVars>>

\* while (!terminate_requested)
Poll ==
    /\ Goto("poll", IF term THEN "close" ELSE "call")
    /\ UNCHANGED <<term, payload, file, fd, flags, fired, child, keyVars, lockVars>>

\* read sleeps when there is no event.
ReadBlocks ==
    /\ Goto("call", "blocked")
    /\ fd = "open" /\ queue = <<>>
    /\ UNCHANGED <<term, payload, file, fd, flags, fired, child, keyVars, lockVars>>

FlagOf(k) == CASE k \in CtrlKeys -> Ctrl
               [] k = Alt -> "alt"
               [] k = Del -> "del"

\* Mutant: a release leaves its flag set.
AfterEventSticky(e) ==
    IF IsKey(e) /\ e.down THEN flags \cup {FlagOf(e.key)} ELSE flags

AfterEvent(e) ==
    IF ~IsKey(e) THEN flags
    ELSE IF e.down THEN flags \cup {FlagOf(e.key)}
                   ELSE flags \ {FlagOf(e.key)}

\* Anything but a key event is skipped.  The combination starts the check.
ReadEvent ==
    /\ pc \in {"call", "blocked"}
    /\ fd = "open" /\ queue # <<>>
    /\ LET e == Head(queue)
           combo == IsKey(e) /\ AfterEvent(e) = Flags
       IN /\ flags' = AfterEvent(e)
          /\ pc' = IF combo THEN "lock_procs" ELSE "poll"
          /\ fired' = IF combo THEN e.real ELSE fired
          /\ steady' = (combo /\ lock # "none")
    /\ blind' = "none"
    /\ queue' = Tail(queue)
    /\ UNCHANGED <<term, payload, file, fd, child, plugged, held, repeating, grab, lost,
                   lock>>

\* ENODEV: the keyboard is gone.
ReadFails ==
    /\ pc \in {"call", "blocked"}
    /\ fd = "gone"
    /\ pc' = "close"
    /\ UNCHANGED <<term, payload, file, fd, flags, fired, child, keyVars, lockVars>>

\* Mutant: EINTR always reads again.
ReadInterruptedAgain ==
    /\ Goto("eintr", "call")
    /\ UNCHANGED <<term, payload, file, fd, flags, fired, child, keyVars, lockVars>>

\* EINTR: leave the loop if a stop was requested, read again otherwise.
ReadInterrupted ==
    /\ Goto("eintr", IF term THEN "close" ELSE "call")
    /\ UNCHANGED <<term, payload, file, fd, flags, fired, child, keyVars, lockVars>>

\* Mutant: the loss of the keyboard ends the daemon.
CloseGivesUp ==
    /\ Goto("close", "exited")
    /\ fd' = "none" /\ queue' = <<>> /\ file' = FALSE
    /\ UNCHANGED <<term, payload, flags, fired, child, plugged, held, repeating, grab,
                   lost, lockVars>>

Close ==
    /\ Goto("close", "nap")
    /\ fd' = "none"
    /\ queue' = <<>>
    /\ UNCHANGED <<term, payload, file, flags, fired, child, plugged, held, repeating,
                   grab, lost, lockVars>>

-----------------------------------------------------------------------------
(* is_screen_locked: three probes, each of which may be unable to tell.     *)

\* A probe passes to the next step or finds the lock.  One that cannot tell counts
\* as unlocked, which matters if the lock is of its own kind.
Probe(here, sign, next) ==
    /\ \/ lock # sign /\ Goto(here, next) /\ UNCHANGED blind
       \/ lock = sign /\ Goto(here, "debounce") /\ UNCHANGED blind
       \/ lock = sign /\ Goto(here, next) /\ blind' = "probe"
    /\ UNCHANGED <<term, payload, file, fd, flags, fired, child, keyVars, lock, steady>>

\* The processes of known lockers, each by its comm.
ProbeLockers == Probe("lock_procs", "locker", "lock_tde")

\* /proc cannot be opened: "unlocked", and neither dcop nor loginctl is asked.
NoProcDir ==
    /\ Goto("lock_procs", "fork")
    /\ blind' = "proc"
    /\ UNCHANGED <<term, payload, file, fd, flags, fired, child, keyVars, lock, steady>>

\* Mutant: Trinity's "false" is the final answer.
ProbeTrinityFinal == Probe("lock_tde", "tde", "fork")

\* Trinity's kdesktop_lock, asked through dcop.
ProbeTrinity == Probe("lock_tde", "tde", "lock_logind")

\* LockedHint of every logind session.
ProbeLogind == Probe("lock_logind", "hint", "fork")

-----------------------------------------------------------------------------
(* Launching the GUI and waiting for it.                                   *)

Fork ==
    /\ \/ Goto("fork", "wait_call") /\ child' = "forked"
       \/ Goto("fork", "debounce") /\ UNCHANGED child
    /\ steady' = FALSE /\ blind' = "none"
    /\ UNCHANGED <<term, payload, file, fd, flags, fired, keyVars, lock>>

\* waitpid returns at once for a dead child and sleeps for a live one.
WaitCall ==
    /\ child # "zombie"
    /\ Goto("wait_call", "waiting")
    /\ UNCHANGED <<term, payload, file, fd, flags, fired, child, keyVars, lockVars>>

Reap ==
    /\ child = "zombie"
    /\ pc \in {"wait_call", "waiting"}
    /\ pc' = "debounce"
    /\ child' = "none"
    /\ UNCHANGED <<term, payload, file, fd, flags, fired, keyVars, lockVars>>

\* Mutant: the wait is over once the stop was passed on.
WaitInterruptedLeaves ==
    /\ Goto("wait_eintr", "debounce")
    /\ child' = IF term /\ child = "gui" THEN "dying" ELSE child
    /\ UNCHANGED <<term, payload, file, fd, flags, fired, keyVars, lockVars>>

\* EINTR: the stop is passed on with kill, and waitpid is called again.  The
\* child still has the daemon's handler before it execs, and ignores it.
WaitInterrupted ==
    /\ Goto("wait_eintr", "wait_call")
    /\ child' = IF term /\ child = "gui" THEN "dying" ELSE child
    /\ UNCHANGED <<term, payload, file, fd, flags, fired, keyVars, lockVars>>

\* Up to two seconds, then all three flags are cleared.
Debounce ==
    /\ Goto("debounce", "poll")
    /\ flags' = {} /\ fired' = FALSE
    /\ steady' = FALSE /\ blind' = "none"
    /\ UNCHANGED <<term, payload, file, fd, child, keyVars, lock>>

\* The child executes the payload: fexecve, then /proc/self/fd, for a memfd.
\* The kernel refuses a file that is open for writing (ETXTBSY), and gui_fd still
\* is the descriptor through which the fallback file was written.
Exec ==
    /\ child = "forked"
    /\ child' \in IF payload = "file" THEN {"failed"} ELSE {"gui", "failed"}
    /\ UNCHANGED <<daemonVars, keyVars, lockVars>>

\* perror, _exit(127).
ExecFailed ==
    /\ child = "failed"
    /\ child' = "zombie"
    /\ UNCHANGED <<daemonVars, keyVars, lockVars>>

-----------------------------------------------------------------------------
(* The environment.                                                        *)

\* SIGTERM, SIGINT, SIGQUIT or SIGHUP: signal_handler, and EINTR in a sleep.
Signal ==
    /\ pc # "exited"
    /\ term' = TRUE
    /\ pc' = CASE pc = "blocked" -> "eintr"
               [] pc = "waiting" -> "wait_eintr"
               [] OTHER -> pc
    /\ UNCHANGED <<payload, file, fd, flags, fired, child, keyVars, lockVars>>

ComboDown(h) == {Alt, Del} \subseteq h /\ h \cap CtrlKeys # {}

\* An event goes to the GUI alone while it grabs the keyboard.  A full queue is
\* emptied: the reader gets SYN_DROPPED and the new event.
Deliver(k, down, h) ==
    LET e == [key |-> k, down |-> down, real |-> ComboDown(h)]
    IN IF fd # "open" THEN UNCHANGED <<queue, lost>>
       ELSE IF grab THEN lost' = TRUE /\ UNCHANGED queue
       ELSE IF Len(queue) >= EvdevBuffer THEN lost' = TRUE /\ queue' = <<Dropped, e>>
       ELSE queue' = Append(queue, e) /\ UNCHANGED lost

Press(k) ==
    /\ plugged /\ k \notin held
    /\ held' = held \cup {k}
    /\ repeating' = {k}
    /\ Deliver(k, TRUE, held \cup {k})
    /\ UNCHANGED <<daemonVars, child, plugged, grab, lockVars>>

Release(k) ==
    /\ plugged /\ k \in held
    /\ held' = held \ {k}
    /\ repeating' = {}
    /\ Deliver(k, FALSE, held \ {k})
    /\ UNCHANGED <<daemonVars, child, plugged, grab, lockVars>>

\* The kernel repeats the key pressed last until a key is released.
Repeat(k) ==
    /\ plugged /\ k \in repeating
    /\ Deliver(k, TRUE, held)
    /\ UNCHANGED <<daemonVars, child, plugged, held, repeating, grab, lockVars>>

Unplug ==
    /\ plugged
    /\ plugged' = FALSE
    /\ held' = {} /\ repeating' = {} /\ queue' = <<>> /\ grab' = FALSE
    /\ fd' = IF fd = "open" THEN "gone" ELSE fd
    /\ UNCHANGED <<pc, term, payload, file, flags, fired, child, lost, lockVars>>

Plug ==
    /\ ~plugged
    /\ plugged' = TRUE
    /\ UNCHANGED <<daemonVars, child, held, repeating, queue, grab, lost, lockVars>>

\* The screen is locked, unlocked, or its locker replaced.
LockChanges ==
    /\ lock' \in Lockers \cup {"none"}
    /\ lock' # lock
    /\ steady' = FALSE
    /\ UNCHANGED <<daemonVars, child, keyVars, blind>>

GuiGrabs ==
    /\ child = "gui" /\ plugged /\ ~grab
    /\ grab' = TRUE
    /\ UNCHANGED <<daemonVars, child, plugged, held, repeating, queue, lost, lockVars>>

GuiEnds ==
    /\ child' = "zombie"
    /\ grab' = FALSE
    /\ UNCHANGED <<daemonVars, plugged, held, repeating, queue, lost, lockVars>>

UserLeavesGui == child = "gui" /\ GuiEnds

\* emergency_restore, or the default action before it is installed.
GuiObeysTerm == child = "dying" /\ GuiEnds

-----------------------------------------------------------------------------
Init ==
    /\ pc = "memfd" /\ term = FALSE
    /\ payload = "none" /\ file = FALSE
    /\ fd = "none" /\ flags = {} /\ fired = FALSE
    /\ child = "none"
    /\ plugged \in BOOLEAN
    /\ held = {} /\ repeating = {} /\ queue = <<>> /\ grab = FALSE /\ lost = FALSE
    /\ lock \in Lockers \cup {"none"}
    /\ steady = FALSE /\ blind = "none"

prepare_gui_memfd ==
    CreateMemfd \/ CreateFallback \/ Decompress \/ WritePayload \/ SealMemfd

listen_for_cad ==
    \/ Open \/ Poll \/ ReadBlocks \/ ReadEvent \/ ReadFails \/ ReadInterrupted
    \/ Close \/ Fork \/ WaitCall \/ Reap \/ WaitInterrupted \/ Debounce

is_screen_locked == ProbeLockers \/ NoProcDir \/ ProbeTrinity \/ ProbeLogind

Daemon == prepare_gui_memfd \/ Search \/ Nap \/ listen_for_cad \/ is_screen_locked

Child == Exec \/ ExecFailed \/ GuiObeysTerm

Keyboard ==
    \/ \E k \in Keys : Press(k) \/ Release(k) \/ Repeat(k)
    \/ Unplug \/ Plug

Next ==
    \/ Daemon \/ Child
    \/ Signal \/ Keyboard \/ LockChanges \/ GuiGrabs \/ UserLeavesGui

Spec == Init /\ [][Next]_vars

\* The scheduler runs the daemon and its child, and a GUI that got SIGTERM
\* ends.  Keys, signals and the GUI's user owe nothing.
FairSpec == Spec /\ WF_vars(Daemon) /\ WF_vars(Child)

-----------------------------------------------------------------------------
\* The variables keep the types of the daemon's variables and of its world.
TypeOK ==
    /\ pc \in Steps
    /\ term \in BOOLEAN
    /\ payload \in {"none", "memfd", "file"}
    /\ file \in BOOLEAN
    /\ fd \in {"none", "open", "gone"}
    /\ flags \subseteq Flags
    /\ fired \in BOOLEAN
    /\ child \in {"none", "forked", "failed", "gui", "dying", "zombie"}
    /\ plugged \in BOOLEAN
    /\ held \subseteq Keys
    /\ repeating \subseteq Keys
    /\ queue \in Seq(Event)
    /\ grab \in BOOLEAN
    /\ lost \in BOOLEAN
    /\ lock \in LockSigns \cup {"none"}
    /\ steady \in BOOLEAN
    /\ blind \in {"none", "probe", "proc"}

\* The anti-bypass check: over a screen that was locked when the combination was
\* completed, and stayed locked in the same way, a GUI is forked only if the very
\* probe for that kind of lock could not tell, or if /proc could not be opened.  The
\* failure of another probe, an unlocked answer of an earlier one or a stop in
\* between never lets it through.
NoBypass == pc = "fork" /\ steady => blind # "none"

\* However it stops, the daemon has waited for its child: a GUI never outlives
\* it, and one GUI is over before the next combination is read.
NoOrphan == child # "none" => pc \in {"wait_call", "waiting", "wait_eintr"}

\* Every return of main has removed the fallback file: prepare_gui_memfd on its
\* own failures, the atexit handler on a stop.
FallbackRemoved == pc = "exited" => ~file

\* A combination the daemon acts on was really down when its last key went down,
\* as long as no event since the opening went to a grab or was dropped.
RealUnlessLost == pc \in Handling /\ ~lost => fired

\* A stop that interrupts the sleep of read or of waitpid, with the GUI running,
\* ends the daemon, through the reconnection loop and the debounce.
InterruptStops ==
    pc = "eintr" \/ (pc = "wait_eintr" /\ child = "gui") ~> pc = "exited"

\* A keyboard that is there while none is listened to, at the start, after an unplug
\* noticed by read or at any point of the two-second loop, is opened, unless the daemon
\* is stopped or the keyboard leaves again.  A daemon that waits for its GUI reads no
\* keyboard, and one that is still unpacking may give up.
Reconnects ==
    (plugged /\ fd # "open" /\ ~term /\ pc \notin Preparing \cup Handling \cup {"exited"})
        ~> (fd = "open" \/ ~plugged \/ term)

=============================================================================
