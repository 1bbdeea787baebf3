--------------------------- MODULE WatchdogProofs ---------------------------
(***************************************************************************)
(* Proofs about the daemon: for any set of Ctrl keys, any queue length and *)
(* any way a lock can show.  The inductive invariant adds to the           *)
(* properties what is known of the lock between two probes, where the      *)
(* fallback file can exist while prepare_gui_memfd runs, and what the      *)
(* events that are still queued will make of the flags.                    *)
(***************************************************************************)
EXTENDS Watchdog, TLAPS

\* What the probes made so far exclude.
LockInv ==
    /\ lock \in LockSigns \cup {"none"}
    /\ pc = "lock_procs" /\ steady => lock # "none"
    /\ pc = "lock_tde" /\ steady => lock \in {"tde", "hint"} \/ blind # "none"
    /\ pc = "lock_logind" /\ steady => lock = "hint" \/ blind # "none"
    /\ pc = "fork" /\ steady => blind # "none"

\* Only a payload that is a file has a name to unlink.
FileInv ==
    /\ file => payload = "file"
    /\ pc \in {"memfd", "fallback"} => payload = "none"
    /\ pc = "seal" => payload = "memfd"
    /\ pc = "exited" => ~file

\* The lock signs are names of their own.
LEMMA SignFacts ==
    /\ Lockers \subseteq LockSigns
    /\ \A l \in LockSigns \cup {"none"} :
           l = "locker" \/ l = "tde" \/ l = "hint" \/ l = "none"
  BY WatchdogAssumption DEF LockSigns

\* An answer of a probe leaves only the signs the later ones look for.
LEMMA LockStep == LockInv /\ [Next]_vars => LockInv'
<1> SUFFICES ASSUME LockInv, [Next]_vars PROVE LockInv'
  OBVIOUS
<1> USE SignFacts DEF LockInv, Goto
<1>1. CASE prepare_gui_memfd
  BY <1>1 DEF prepare_gui_memfd, CreateMemfd, CreateFallback, Decompress, WritePayload,
              SealMemfd, lockVars
<1>2. CASE Search \/ Nap
  BY <1>2 DEF Search, Nap, lockVars
<1>3. CASE listen_for_cad
  <2>1. CASE Open \/ Poll \/ ReadBlocks \/ ReadFails \/ ReadInterrupted \/ Close
    BY <2>1 DEF Open, Poll, ReadBlocks, ReadFails, ReadInterrupted, Close, lockVars
  <2>2. CASE ReadEvent
    BY <2>2 DEF ReadEvent
  <2>3. CASE Fork \/ WaitCall \/ Reap \/ WaitInterrupted \/ Debounce
    BY <2>3 DEF Fork, WaitCall, Reap, WaitInterrupted, Debounce, lockVars
  <2> QED BY <1>3, <2>1, <2>2, <2>3 DEF listen_for_cad
<1>4. CASE is_screen_locked
  <2>1. CASE ProbeLockers BY <2>1 DEF ProbeLockers, Probe
  <2>4. CASE NoProcDir BY <2>4 DEF NoProcDir
  <2>2. CASE ProbeTrinity BY <2>2 DEF ProbeTrinity, Probe
  <2>3. CASE ProbeLogind BY <2>3 DEF ProbeLogind, Probe
  <2> QED BY <1>4, <2>1, <2>2, <2>3, <2>4 DEF is_screen_locked
<1>5. CASE Child \/ GuiGrabs \/ UserLeavesGui
  BY <1>5 DEF Child, Exec, ExecFailed, GuiObeysTerm, GuiGrabs, UserLeavesGui, GuiEnds,
              daemonVars, lockVars
<1>6. CASE Signal
  BY <1>6 DEF Signal, lockVars
<1>7. CASE Keyboard
  <2>1. UNCHANGED <<pc, lock, steady, blind>>
    BY <1>7 DEF Keyboard, Press, Release, Repeat, Unplug, Plug, daemonVars, lockVars
  <2> QED BY <2>1
<1>8. CASE LockChanges
  BY <1>8 DEF LockChanges, daemonVars
<1>9. CASE UNCHANGED vars
  BY <1>9 DEF vars, daemonVars, lockVars
<1> QED BY <1>1, <1>2, <1>3, <1>4, <1>5, <1>6, <1>7, <1>8, <1>9 DEF Next, Daemon

\* The daemon forks only where it then waits, and stops waiting only for a child
\* it has reaped.
LEMMA ChildStep == NoOrphan /\ [Next]_vars => NoOrphan'
<1> SUFFICES ASSUME NoOrphan, [Next]_vars PROVE NoOrphan'
  OBVIOUS
<1> USE DEF NoOrphan, Goto
<1>1. CASE prepare_gui_memfd
  BY <1>1 DEF prepare_gui_memfd, CreateMemfd, CreateFallback, Decompress, WritePayload,
              SealMemfd
<1>2. CASE Search \/ Nap
  BY <1>2 DEF Search, Nap
<1>3. CASE listen_for_cad
  <2>1. CASE Open \/ Poll \/ ReadBlocks \/ ReadFails \/ ReadInterrupted \/ Close
    BY <2>1 DEF Open, Poll, ReadBlocks, ReadFails, ReadInterrupted, Close
  <2>2. CASE ReadEvent
    BY <2>2 DEF ReadEvent
  <2>3. CASE Fork \/ WaitCall \/ Reap \/ WaitInterrupted \/ Debounce
    BY <2>3 DEF Fork, WaitCall, Reap, WaitInterrupted, Debounce
  <2> QED BY <1>3, <2>1, <2>2, <2>3 DEF listen_for_cad
<1>4. CASE is_screen_locked
  BY <1>4 DEF is_screen_locked, ProbeLockers, NoProcDir, ProbeTrinity, ProbeLogind,
     Probe
<1>5. CASE Child \/ GuiGrabs \/ UserLeavesGui
  BY <1>5 DEF Child, Exec, ExecFailed, GuiObeysTerm, GuiGrabs, UserLeavesGui, GuiEnds,
              daemonVars
<1>6. CASE Signal
  BY <1>6 DEF Signal
<1>7. CASE Keyboard
  BY <1>7 DEF Keyboard, Press, Release, Repeat, Unplug, Plug, daemonVars
<1>8. CASE LockChanges
  BY <1>8 DEF LockChanges, daemonVars
<1>9. CASE UNCHANGED vars
  BY <1>9 DEF vars, daemonVars
<1> QED BY <1>1, <1>2, <1>3, <1>4, <1>5, <1>6, <1>7, <1>8, <1>9 DEF Next, Daemon

\* Every way to exited unlinks the file, or comes before it is made, or has a
\* memfd in its place.
LEMMA FileStep == FileInv /\ [Next]_vars => FileInv'
<1> SUFFICES ASSUME FileInv, [Next]_vars PROVE FileInv'
  OBVIOUS
<1> USE DEF FileInv, Goto
<1>1. CASE prepare_gui_memfd
  <2>1. CASE CreateMemfd BY <2>1 DEF CreateMemfd
  <2>2. CASE CreateFallback BY <2>2 DEF CreateFallback
  <2>3. CASE Decompress BY <2>3 DEF Decompress
  <2>4. CASE WritePayload BY <2>4 DEF WritePayload
  <2>5. CASE SealMemfd BY <2>5 DEF SealMemfd
  <2> QED BY <1>1, <2>1, <2>2, <2>3, <2>4, <2>5 DEF prepare_gui_memfd
<1>2. CASE Search \/ Nap
  BY <1>2 DEF Search, Nap
<1>3. CASE listen_for_cad
  <2>1. CASE Open \/ Poll \/ ReadBlocks \/ ReadFails \/ ReadInterrupted \/ Close
    BY <2>1 DEF Open, Poll, ReadBlocks, ReadFails, ReadInterrupted, Close
  <2>2. CASE ReadEvent
    BY <2>2 DEF ReadEvent
  <2>3. CASE Fork \/ WaitCall \/ Reap \/ WaitInterrupted \/ Debounce
    BY <2>3 DEF Fork, WaitCall, Reap, WaitInterrupted, Debounce
  <2> QED BY <1>3, <2>1, <2>2, <2>3 DEF listen_for_cad
<1>4. CASE is_screen_locked
  BY <1>4 DEF is_screen_locked, ProbeLockers, NoProcDir, ProbeTrinity, ProbeLogind,
     Probe
<1>5. CASE Child \/ GuiGrabs \/ UserLeavesGui
  BY <1>5 DEF Child, Exec, ExecFailed, GuiObeysTerm, GuiGrabs, UserLeavesGui, GuiEnds,
              daemonVars
<1>6. CASE Signal
  BY <1>6 DEF Signal
<1>7. CASE Keyboard
  <2>1. UNCHANGED <<pc, payload, file>>
    BY <1>7 DEF Keyboard, Press, Release, Repeat, Unplug, Plug, daemonVars
  <2> QED BY <2>1
<1>8. CASE LockChanges
  BY <1>8 DEF LockChanges, daemonVars
<1>9. CASE UNCHANGED vars
  BY <1>9 DEF vars, daemonVars
<1> QED BY <1>1, <1>2, <1>3, <1>4, <1>5, <1>6, <1>7, <1>8, <1>9 DEF Next, Daemon

\* The anti-bypass check never lets a fork happen over a lock that was there at
\* the combination and stayed, unless the probe for that kind of lock could not tell
\* or /proc could not be opened, whatever the other probes answered.
THEOREM NeverBypassed == Spec => []NoBypass
<1>1. Init => LockInv
  BY SignFacts DEF Init, LockInv
<1>2. LockInv => NoBypass
  BY DEF LockInv, NoBypass
<1> QED BY <1>1, LockStep, <1>2, PTL DEF Spec

\* No GUI outlives the daemon, and no second one is started beside the first.
THEOREM NeverOrphaned == Spec => []NoOrphan
<1>1. Init => NoOrphan
  BY DEF Init, NoOrphan
<1> QED BY <1>1, ChildStep, PTL DEF Spec

\* No return of main leaves the unpacked GUI in /dev/shm or /tmp.
THEOREM FileRemoved == Spec => []FallbackRemoved
<1>1. Init => FileInv
  BY DEF Init, FileInv
<1>2. FileInv => FallbackRemoved
  BY DEF FileInv, FallbackRemoved
<1> QED BY <1>1, FileStep, <1>2, PTL DEF Spec

\* Whatever is read, the flags stay among the three of listen_for_cad.
LEMMA FlagsType ==
  ASSUME NEW e \in Event, flags \subseteq Flags
  PROVE  AfterEvent(e) \subseteq Flags
<1>1. e.key \in Keys => FlagOf(e.key) \in Flags
  BY DEF FlagOf, Flags, Keys
<1> QED BY <1>1 DEF AfterEvent, IsKey

\* The kernel only queues events.
LEMMA DeliverType ==
  ASSUME NEW k \in Keys, NEW down \in BOOLEAN, NEW h, queue \in Seq(Event),
         lost \in BOOLEAN, Deliver(k, down, h)
  PROVE  queue' \in Seq(Event) /\ lost' \in BOOLEAN
<1> DEFINE e == [key |-> k, down |-> down, real |-> ComboDown(h)]
<1>1. ComboDown(h) \in BOOLEAN
  BY DEF ComboDown
<1>2. e \in Event
  BY <1>1 DEF Event
<1>3. Dropped \in Event
  BY DEF Dropped, Event
<1> HIDE DEF e
<1>4. Append(queue, e) \in Seq(Event) /\ <<Dropped, e>> \in Seq(Event)
  BY <1>2, <1>3
<1>5. \/ queue' = queue /\ lost' = lost
      \/ queue' = queue /\ lost' = TRUE
      \/ queue' = <<Dropped, e>> /\ lost' = TRUE
      \/ queue' = Append(queue, e) /\ lost' = lost
  BY DEF Deliver, e
<1> QED BY <1>4, <1>5

\* Every step of the daemon, its child and its world keeps the types.
LEMMA TypeStep == TypeOK /\ [Next]_vars => TypeOK'
<1> SUFFICES ASSUME TypeOK, [Next]_vars PROVE TypeOK'
  OBVIOUS
<1> USE DEF TypeOK, Goto, daemonVars, keyVars, lockVars
<1>0. Dropped \in Event /\ <<>> \in Seq(Event) /\ {} \subseteq Flags
  BY DEF Dropped, Event
<1>1. CASE prepare_gui_memfd
  <2> USE DEF prepare_gui_memfd, CreateMemfd, CreateFallback, Decompress, WritePayload,
              SealMemfd
  <2>1. pc' \in Steps /\ payload' \in {"none", "memfd", "file"}
    BY <1>1 DEF Steps, Preparing
  <2>2. file' = TRUE \/ file' = FALSE \/ file' = file
    BY <1>1, Zenon
  <2>3. file' \in BOOLEAN
    BY <2>2
  <2>4. UNCHANGED <<term, fd, flags, fired, child, keyVars, lockVars>>
    BY <1>1, Zenon
  <2> HIDE DEF prepare_gui_memfd
  <2> QED BY <2>1, <2>3, <2>4
<1>2. CASE Search \/ Nap
  <2>1. pc' \in Steps
    BY <1>2 DEF Search, Nap, Steps
  <2>2. file' = FALSE \/ file' = file
    BY <1>2, Zenon DEF Search, Nap
  <2>3. UNCHANGED <<term, payload, fd, flags, fired, child, keyVars, lockVars>>
    BY <1>2, Zenon DEF Search, Nap
  <2>4. file' \in BOOLEAN
    BY <2>2
  <2> QED BY <2>1, <2>3, <2>4
<1>3. CASE listen_for_cad
  <2>1. CASE Open \/ Close
    <3>1. /\ pc' \in Steps /\ fd' \in {"none", "open", "gone"} /\ flags' \subseteq Flags
          /\ queue' \in Seq(Event)
      BY <1>0, <2>1 DEF Open, Close, Steps
    <3>2. lost' = FALSE \/ lost' = lost
      BY <2>1, Zenon DEF Open, Close
    <3>3. UNCHANGED <<term, payload, file, fired, child, plugged, held, repeating, grab,
                      lockVars>>
      BY <2>1, Zenon DEF Open, Close
    <3>4. lost' \in BOOLEAN
      BY <3>2
    <3> QED BY <3>1, <3>3, <3>4
  <2>2. CASE Poll \/ ReadBlocks \/ ReadFails \/ ReadInterrupted
    BY <2>2 DEF Poll, ReadBlocks, ReadFails, ReadInterrupted, Steps
  <2>3. CASE ReadEvent
    <3>1. Head(queue) \in Event /\ Tail(queue) \in Seq(Event)
      BY <2>3 DEF ReadEvent
    <3>2. flags' \subseteq Flags
      BY <2>3, <3>1, FlagsType DEF ReadEvent
    <3>3. pc' \in Steps /\ steady' \in BOOLEAN
      BY <2>3, <3>1 DEF ReadEvent, Steps, Handling
    <3>4. fired' \in BOOLEAN
      BY <2>3, <3>1 DEF ReadEvent, Event
    <3> QED BY <2>3, <3>1, <3>2, <3>3, <3>4 DEF ReadEvent
  <2>4. CASE WaitCall \/ Reap \/ WaitInterrupted
    BY <2>4 DEF WaitCall, Reap, WaitInterrupted, Steps, Handling
  <2>6. CASE Fork
    <3>1. pc' \in Steps /\ child' \in {child, "forked"}
      BY <2>6 DEF Fork, Steps, Handling
    <3>2. steady' = FALSE /\ blind' = "none"
      BY <2>6, Zenon DEF Fork
    <3>3. UNCHANGED <<term, payload, file, fd, flags, fired, keyVars, lock>>
      BY <2>6, Zenon DEF Fork
    <3>4. steady' \in BOOLEAN
      BY <3>2
    <3> QED BY <3>1, <3>2, <3>3, <3>4
  <2>5. CASE Debounce
    <3>1. pc' \in Steps /\ flags' \subseteq Flags
      BY <1>0, <2>5 DEF Debounce, Steps
    <3>2. /\ fired' = FALSE /\ steady' = FALSE /\ blind' = "none"
          /\ UNCHANGED <<term, payload, file, fd, child, keyVars, lock>>
      BY <2>5, Zenon DEF Debounce
    <3>3. fired' \in BOOLEAN /\ steady' \in BOOLEAN
      BY <3>2
    <3> QED BY <3>1, <3>2, <3>3
  <2> QED BY <1>3, <2>1, <2>2, <2>3, <2>4, <2>5, <2>6 DEF listen_for_cad
<1>4. CASE is_screen_locked
  <2> USE DEF is_screen_locked, ProbeLockers, NoProcDir, ProbeTrinity, ProbeLogind,
     Probe
  <2>1. pc' \in Steps
    BY <1>4 DEF Steps, Handling
  <2>2. blind' \in {blind, "probe", "proc"}
    BY <1>4, Zenon
  <2>3. blind' \in {"none", "probe", "proc"}
    BY <2>2
  <2>4. UNCHANGED <<term, payload, file, fd, flags, fired, child, keyVars, lock, steady>>
    BY <1>4, Zenon
  <2> HIDE DEF is_screen_locked
  <2> QED BY <2>1, <2>3, <2>4
<1>5. CASE Child \/ GuiGrabs \/ UserLeavesGui
  BY <1>5 DEF Child, Exec, ExecFailed, GuiObeysTerm, GuiGrabs, UserLeavesGui, GuiEnds
<1>6. CASE Signal
  BY <1>6 DEF Signal, Steps, Handling
<1>7. CASE Keyboard
  <2>1. ASSUME NEW k \in Keys, Press(k) PROVE TypeOK'
    <3>1. queue' \in Seq(Event) /\ lost' \in BOOLEAN
      BY <2>1, DeliverType DEF Press
    <3> QED BY <2>1, <3>1 DEF Press
  <2>2. ASSUME NEW k \in Keys, Release(k) PROVE TypeOK'
    <3>1. queue' \in Seq(Event) /\ lost' \in BOOLEAN
      BY <2>2, DeliverType DEF Release
    <3> QED BY <2>2, <3>1 DEF Release
  <2>3. ASSUME NEW k \in Keys, Repeat(k) PROVE TypeOK'
    <3>1. queue' \in Seq(Event) /\ lost' \in BOOLEAN
      BY <2>3, DeliverType DEF Repeat
    <3> QED BY <2>3, <3>1 DEF Repeat
  <2>4. CASE Unplug
    <3>1. plugged' = FALSE /\ grab' = FALSE /\ queue' = <<>> /\ held' = {} /\ repeating' = {}
      BY <2>4, Zenon DEF Unplug
    <3>2. fd' \in {"none", "open", "gone"}
      BY <2>4 DEF Unplug
    <3>3. UNCHANGED <<pc, term, payload, file, flags, fired, child, lost, lockVars>>
      BY <2>4, Zenon DEF Unplug
    <3>4. plugged' \in BOOLEAN /\ grab' \in BOOLEAN
      BY <3>1
    <3> QED BY <1>0, <3>1, <3>2, <3>3, <3>4
  <2>5. CASE Plug
    <3>1. plugged' = TRUE
      BY <2>5, Zenon DEF Plug
    <3>2. UNCHANGED <<daemonVars, child, held, repeating, queue, grab, lost, lockVars>>
      BY <2>5, Zenon DEF Plug
    <3>3. plugged' \in BOOLEAN
      BY <3>1
    <3> QED BY <3>2, <3>3
  <2> QED BY <1>7, <2>1, <2>2, <2>3, <2>4, <2>5 DEF Keyboard
<1>8. CASE LockChanges
  <2>1. lock' \in LockSigns \cup {"none"}
    BY <1>8, SignFacts DEF LockChanges
  <2>2. steady' = FALSE /\ UNCHANGED <<daemonVars, child, keyVars, blind>>
    BY <1>8, Zenon DEF LockChanges
  <2>3. steady' \in BOOLEAN
    BY <2>2
  <2> QED BY <2>1, <2>2, <2>3
<1>9. CASE UNCHANGED vars
  BY <1>9 DEF vars
<1> QED BY <1>1, <1>2, <1>3, <1>4, <1>5, <1>6, <1>7, <1>8, <1>9 DEF Next, Daemon

\* Type correctness: in particular the queue only ever holds events of the keys
\* or SYN_DROPPED, and the flags are those of listen_for_cad.
THEOREM TypeCorrect == Spec => []TypeOK
<1>1. Init => TypeOK
  <2>1. <<>> \in Seq(Event)
    OBVIOUS
  <2> QED BY <2>1, SignFacts DEF Init, TypeOK, Steps, Preparing
<1> QED BY <1>1, TypeStep, PTL DEF Spec

-----------------------------------------------------------------------------
(* The combination the daemon acts on.  The flags run behind the keys by    *)
(* the events that are still queued, so the invariant speaks of every       *)
(* prefix of the queue: what the flags will be when it has been read.       *)

Sets(e, fl)   == IsKey(e) /\ e.down /\ FlagOf(e.key) = fl
Clears(e, fl) == IsKey(e) /\ ~e.down /\ FlagOf(e.key) = fl

\* After i events of q the flag fl is 0: it was 0 in f or cleared by the j-th
\* event, and not set since.
Off(q, f, fl, i) ==
    \E j \in 0..i :
        /\ j = 0 => fl \notin f
        /\ j > 0 => Clears(q[j], fl)
        /\ \A m \in (j + 1)..i : ~Sets(q[m], fl)

\* A key of this flag is held.
Down(fl, h) == \E k \in h : FlagOf(k) = fl

\* When all that is queued has been read, a flag is 0 unless a key of it is held.
FollowsKeys == \A fl \in Flags : ~Down(fl, held) => Off(queue, flags, fl, Len(queue))

\* An event at which the combination was not down leaves a flag 0.
FalseEndsOff ==
    \A i \in 1..Len(queue) :
        ~queue[i].real => \E fl \in Flags : Off(queue, flags, fl, i)

RealInv ==
    /\ repeating \subseteq held
    /\ fd = "open" /\ ~lost => FollowsKeys /\ FalseEndsOff
    /\ RealUnlessLost

\* Every key has one of the three flags.
LEMMA FlagFacts ==
  /\ \A k \in Keys : FlagOf(k) \in Flags
  /\ \A k \in CtrlKeys : FlagOf(k) = Ctrl
  /\ FlagOf(Alt) = "alt" /\ FlagOf(Del) = "del"
  BY WatchdogAssumption DEF FlagOf, Flags, Keys, Ctrl

\* A combination that is not down lacks the keys of a flag.
LEMMA MissingKey ==
  ASSUME NEW h, h \subseteq Keys, ~ComboDown(h)
  PROVE  \E fl \in Flags : ~Down(fl, h)
<1>1. CASE Alt \notin h
  <2>1. ~Down("alt", h)
    BY <1>1, FlagFacts, WatchdogAssumption DEF Down, Keys, FlagOf, Ctrl
  <2> QED BY <2>1 DEF Flags
<1>2. CASE Del \notin h
  <2>1. ~Down("del", h)
    BY <1>2, FlagFacts, WatchdogAssumption DEF Down, Keys, FlagOf, Ctrl
  <2> QED BY <2>1 DEF Flags
<1>3. CASE h \cap CtrlKeys = {}
  <2>1. ~Down(Ctrl, h)
    BY <1>3, FlagFacts, WatchdogAssumption DEF Down, Keys, FlagOf, Ctrl
  <2> QED BY <2>1 DEF Flags
<1> QED BY <1>1, <1>2, <1>3 DEF ComboDown

\* Reading an event moves the flags along the queue.
LEMMA OffRead ==
  ASSUME NEW q \in Seq(Event), q # <<>>, NEW i \in 1..Len(q), NEW fl,
         Off(q, flags, fl, i)
  PROVE  Off(Tail(q), AfterEvent(Head(q)), fl, i - 1)
<1> DEFINE t == Tail(q)
           f == AfterEvent(Head(q))
<1>1. PICK j \in 0..i : /\ j = 0 => fl \notin flags
                        /\ j > 0 => Clears(q[j], fl)
                        /\ \A m \in (j + 1)..i : ~Sets(q[m], fl)
  BY DEF Off
<1>2. /\ Len(q) \in Nat /\ i \in Nat /\ j \in Nat /\ i >= 1 /\ Head(q) = q[1]
      /\ Len(t) = Len(q) - 1
      /\ \A m \in 1..Len(t) : t[m] = q[m + 1]
  OBVIOUS
<1>3. CASE j >= 2
  <2>1. j - 1 \in 0..(i - 1) /\ Clears(t[j - 1], fl)
    BY <1>1, <1>2, <1>3
  <2>2. \A m \in j..(i - 1) : ~Sets(t[m], fl)
    BY <1>1, <1>2, <1>3
  <2> DEFINE b == j - 1
  <2>3. /\ b \in 0..(i - 1) /\ b # 0 /\ Clears(t[b], fl)
        /\ \A m \in (b + 1)..(i - 1) : ~Sets(t[m], fl)
    BY <1>2, <1>3, <2>1, <2>2
  <2> HIDE DEF b, t, f
  <2>4. Off(t, f, fl, i - 1)
    BY <2>3 DEF Off
  <2> QED BY <2>4 DEF t, f
<1>4. CASE j < 2
  <2>1. fl \notin f
    <3>1. CASE j = 0
      <4>1. fl \notin flags /\ ~Sets(q[1], fl)
        BY <1>1, <1>2, <3>1
      <4> QED BY <1>2, <4>1 DEF AfterEvent, Sets
    <3>2. CASE j = 1
      <4>1. Clears(q[1], fl)
        BY <1>1, <3>2
      <4> QED BY <1>2, <4>1 DEF AfterEvent, Clears
    <3> QED BY <1>2, <1>4, <3>1, <3>2
  <2>2. \A m \in 1..(i - 1) : ~Sets(t[m], fl)
    BY <1>1, <1>2, <1>4
  <2>3. 0 \in 0..(i - 1)
    BY <1>2
  <2> HIDE DEF t, f
  <2>4. Off(t, f, fl, i - 1)
    BY <2>1, <2>2, <2>3 DEF Off
  <2> QED BY <2>4 DEF t, f
<1> QED BY <1>2, <1>3, <1>4

\* An event behind the i-th changes nothing up to it.
LEMMA OffKept ==
  ASSUME NEW q \in Seq(Event), NEW e \in Event, NEW f, NEW fl, NEW i \in 0..Len(q),
         Off(q, f, fl, i)
  PROVE  Off(Append(q, e), f, fl, i)
<1>1. PICK j \in 0..i : /\ j = 0 => fl \notin f
                        /\ j > 0 => Clears(q[j], fl)
                        /\ \A m \in (j + 1)..i : ~Sets(q[m], fl)
  BY DEF Off
<1>2. \A m \in 1..i : Append(q, e)[m] = q[m]
  OBVIOUS
<1>3. j > 0 => Append(q, e)[j] = q[j]
  BY <1>2
<1>4. \A m \in (j + 1)..i : Append(q, e)[m] = q[m]
  BY <1>2
<1> QED BY <1>1, <1>3, <1>4 DEF Off

\* A flag stays 0 over an event that does not set it, and is 0 after one that
\* clears it.
LEMMA OffNext ==
  ASSUME NEW q \in Seq(Event), NEW e \in Event, NEW f, NEW fl,
         Clears(e, fl) \/ (Off(q, f, fl, Len(q)) /\ ~Sets(e, fl))
  PROVE  Off(Append(q, e), f, fl, Len(q) + 1)
<1> DEFINE n == Len(q)
           a == Append(q, e)
<1>1. n \in Nat /\ a[n + 1] = e
  OBVIOUS
<1>2. CASE Clears(e, fl)
  <2>1. n + 1 \in 0..(n + 1) /\ n + 1 > 0 /\ (n + 2)..(n + 1) = {}
    BY <1>1
  <2> HIDE DEF n, a
  <2> QED BY <1>1, <1>2, <2>1 DEF Off
<1>3. CASE Off(q, f, fl, n) /\ ~Sets(e, fl)
  <2>1. Off(a, f, fl, n)
    BY <1>1, <1>3, OffKept
  <2>2. PICK j \in 0..n : /\ j = 0 => fl \notin f
                          /\ j > 0 => Clears(a[j], fl)
                          /\ \A m \in (j + 1)..n : ~Sets(a[m], fl)
    BY <2>1 DEF Off
  <2> HIDE DEF n, a
  <2>3. \A m \in (j + 1)..(n + 1) : ~Sets(a[m], fl)
    BY <1>1, <1>3, <2>2
  <2>4. j \in 0..(n + 1)
    BY <1>1
  <2> QED BY <2>2, <2>3, <2>4 DEF Off
<1> QED BY <1>2, <1>3

\* An event that reaches the queue says what the keys have become.
LEMMA QueuedStep ==
  ASSUME TypeOK, RealInv, NEW k \in Keys, NEW down \in BOOLEAN,
         held' \subseteq Keys, Deliver(k, down, held'), UNCHANGED <<fd, flags>>,
         \/ down /\ held' = held \cup {k}
         \/ ~down /\ held' = held \ {k}
  PROVE  fd' = "open" /\ ~lost' => FollowsKeys' /\ FalseEndsOff'
<1> DEFINE e == [key |-> k, down |-> down, real |-> ComboDown(held')]
<1> SUFFICES ASSUME fd' = "open", ~lost'
             PROVE  FollowsKeys' /\ FalseEndsOff'
  OBVIOUS
<1>1. /\ fd = "open" /\ ~lost /\ flags' = flags /\ queue' = Append(queue, e)
  BY DEF Deliver
<1>2. /\ FollowsKeys /\ FalseEndsOff
  BY <1>1 DEF RealInv
<1>3. /\ queue \in Seq(Event) /\ e \in Event /\ held \subseteq Keys
  BY DEF TypeOK, Event, ComboDown
<1>4. /\ e.key = k /\ e.down = down /\ e.real = ComboDown(held') /\ IsKey(e)
  BY DEF IsKey
<1> HIDE DEF e
<1>5. /\ Len(queue) \in Nat /\ Len(queue') = Len(queue) + 1
      /\ queue'[Len(queue) + 1] = e
      /\ \A i \in 1..Len(queue) : queue'[i] = queue[i]
  BY <1>1, <1>3
<1>6. ASSUME NEW fl \in Flags, ~Down(fl, held')
      PROVE  Off(queue', flags', fl, Len(queue) + 1)
  <2>1. CASE down
    <3>1. FlagOf(k) # fl /\ ~Down(fl, held)
      BY <1>6, <2>1 DEF Down
    <3>2. ~Sets(e, fl)
      BY <1>4, <3>1 DEF Sets
    <3> QED BY <1>1, <1>2, <1>3, <3>1, <3>2, OffNext DEF FollowsKeys
  <2>2. CASE ~down /\ FlagOf(k) = fl
    <3>1. Clears(e, fl)
      BY <1>4, <2>2 DEF Clears
    <3> QED BY <1>1, <1>3, <3>1, OffNext
  <2>3. CASE ~down /\ FlagOf(k) # fl
    <3>1. ~Down(fl, held)
      BY <1>6, <2>3 DEF Down
    <3>2. ~Sets(e, fl)
      BY <1>4, <2>3 DEF Sets
    <3> QED BY <1>1, <1>2, <1>3, <3>1, <3>2, OffNext DEF FollowsKeys
  <2> QED BY <2>1, <2>2, <2>3
<1>7. FollowsKeys'
  BY <1>5, <1>6 DEF FollowsKeys
<1>8. ASSUME NEW i \in 1..Len(queue'), ~queue'[i].real
      PROVE  \E fl \in Flags : Off(queue', flags', fl, i)
  <2>1. CASE i = Len(queue) + 1
    <3>1. ~ComboDown(held')
      BY <1>4, <1>5, <1>8, <2>1
    <3>2. PICK fl \in Flags : ~Down(fl, held')
      BY <3>1, MissingKey
    <3> QED BY <1>6, <2>1, <3>2
  <2>2. CASE i # Len(queue) + 1
    <3>1. i \in 1..Len(queue) /\ i \in 0..Len(queue) /\ ~queue[i].real
      BY <1>5, <1>8, <2>2
    <3>2. PICK fl \in Flags : Off(queue, flags, fl, i)
      BY <1>2, <3>1 DEF FalseEndsOff
    <3>3. Off(queue', flags', fl, i)
      BY <1>1, <1>3, <3>1, <3>2, OffKept
    <3> QED BY <3>3
  <2> QED BY <2>1, <2>2
<1>9. FalseEndsOff'
  BY <1>8 DEF FalseEndsOff
<1> QED BY <1>7, <1>9

\* The read of an event keeps what is known of the rest of the queue, and finds
\* all flags 1 only at an event that was real.
LEMMA ReadStep == TypeOK /\ RealInv /\ ReadEvent => RealInv'
<1> SUFFICES ASSUME TypeOK, RealInv, ReadEvent PROVE RealInv'
  OBVIOUS
<1> DEFINE e == Head(queue)
<1>1. /\ queue \in Seq(Event) /\ queue # <<>> /\ e \in Event /\ e = queue[1]
      /\ Len(queue) \in Nat /\ Len(queue) >= 1
      /\ queue' = Tail(queue) /\ flags' = AfterEvent(e)
      /\ Len(queue') = Len(queue) - 1
      /\ \A i \in 1..Len(queue') : queue'[i] = queue[i + 1]
  BY DEF TypeOK, ReadEvent
<1>2. UNCHANGED <<fd, held, repeating, lost>> /\ fd = "open"
  BY DEF ReadEvent
<1>3. ASSUME ~lost PROVE FollowsKeys /\ FalseEndsOff
  BY <1>2, <1>3 DEF RealInv
<1>4. ASSUME NEW fl, NEW i \in 1..Len(queue), Off(queue, flags, fl, i)
      PROVE  Off(queue', flags', fl, i - 1)
  BY <1>1, <1>4, OffRead
<1>5. ASSUME ~lost PROVE FollowsKeys'
  <2>1. Len(queue) \in 1..Len(queue)
    BY <1>1
  <2> QED BY <1>1, <1>2, <1>3, <1>4, <1>5, <2>1 DEF FollowsKeys
<1>6. ASSUME ~lost PROVE FalseEndsOff'
  <2>1. ASSUME NEW i \in 1..Len(queue'), ~queue'[i].real
        PROVE  \E fl \in Flags : Off(queue', flags', fl, i)
    <3>1. i + 1 \in 1..Len(queue) /\ ~queue[i + 1].real /\ (i + 1) - 1 = i
      BY <1>1, <2>1
    <3>2. PICK fl \in Flags : Off(queue, flags, fl, i + 1)
      BY <1>3, <1>6, <3>1 DEF FalseEndsOff
    <3>3. Off(queue', flags', fl, (i + 1) - 1)
      BY <1>4, <3>1, <3>2
    <3> QED BY <3>1, <3>3
  <2> QED BY <2>1 DEF FalseEndsOff
<1>7. RealUnlessLost'
  <2> SUFFICES ASSUME pc' \in Handling, ~lost' PROVE fired'
    BY DEF RealUnlessLost
  <2>1. flags' = Flags /\ fired' = e.real
    BY <1>1 DEF ReadEvent, Handling
  <2>2. SUFFICES ASSUME ~e.real PROVE FALSE
    BY <1>1, <2>1 DEF Event
  <2>3. 1 \in 1..Len(queue)
    BY <1>1
  <2>4. PICK fl \in Flags : Off(queue, flags, fl, 1)
    BY <1>1, <1>2, <1>3, <2>2, <2>3 DEF FalseEndsOff
  <2>5. Off(queue', flags', fl, 0)
    BY <1>4, <2>3, <2>4
  <2>6. fl \notin flags'
    BY <2>5 DEF Off
  <2> QED BY <2>1, <2>6
<1> QED BY <1>2, <1>5, <1>6, <1>7 DEF RealInv

\* Keys, reads, the debounce and the reopened device keep the invariant.
LEMMA RealStep == TypeOK /\ RealInv /\ [Next]_vars => RealInv'
<1> SUFFICES ASSUME TypeOK, RealInv, [Next]_vars PROVE RealInv'
  OBVIOUS
<1> USE DEF Goto
<1>0. ASSUME UNCHANGED <<fd, flags, held, repeating, queue, lost, fired>>,
             pc' \in Handling => pc \in Handling
      PROVE  RealInv'
  BY <1>0 DEF RealInv, RealUnlessLost, FollowsKeys, FalseEndsOff
<1>1. CASE prepare_gui_memfd
  BY <1>0, <1>1 DEF prepare_gui_memfd, CreateMemfd, CreateFallback, Decompress,
                    WritePayload, SealMemfd, keyVars, Handling
<1>2. CASE Search \/ Nap
  BY <1>0, <1>2 DEF Search, Nap, keyVars, Handling
<1>3. CASE listen_for_cad
  <2>1. CASE Poll \/ ReadBlocks \/ ReadFails \/ ReadInterrupted
    BY <1>0, <2>1 DEF Poll, ReadBlocks, ReadFails, ReadInterrupted, keyVars, Handling
  <2>2. CASE Fork \/ WaitCall \/ Reap \/ WaitInterrupted
    BY <1>0, <2>2 DEF Fork, WaitCall, Reap, WaitInterrupted, keyVars, Handling
  <2>3. CASE ReadEvent
    BY <2>3, ReadStep
  <2>4. CASE Open
    <3>1. CASE plugged
      <4>1. /\ queue' = <<>> /\ flags' = {} /\ pc' \notin Handling
            /\ UNCHANGED <<held, repeating>>
        BY <2>4, <3>1 DEF Open, Handling
      <4>2. Len(queue') = 0
        BY <4>1
      <4>3. \A fl : Off(queue', flags', fl, 0)
        BY <4>1 DEF Off
      <4> QED BY <4>1, <4>2, <4>3 DEF RealInv, RealUnlessLost, FollowsKeys, FalseEndsOff
    <3>2. CASE ~plugged
      BY <1>0, <2>4, <3>2 DEF Open, Handling
    <3> QED BY <3>1, <3>2
  <2>5. CASE Close
    BY <2>5 DEF Close, RealInv, RealUnlessLost, Handling
  <2>6. CASE Debounce
    <3>1. /\ flags' = {} /\ pc' \notin Handling
          /\ UNCHANGED <<fd, held, repeating, queue, lost>>
      BY <2>6 DEF Debounce, keyVars, Handling
    <3>2. ASSUME NEW fl, NEW i, Off(queue, flags, fl, i)
          PROVE  Off(queue', flags', fl, i)
      BY <3>1, <3>2 DEF Off
    <3> QED BY <3>1, <3>2 DEF RealInv, RealUnlessLost, FollowsKeys, FalseEndsOff
  <2> QED BY <1>3, <2>1, <2>2, <2>3, <2>4, <2>5, <2>6 DEF listen_for_cad
<1>4. CASE is_screen_locked
  BY <1>0, <1>4 DEF is_screen_locked, ProbeLockers, NoProcDir, ProbeTrinity, ProbeLogind, Probe,
                    keyVars, Handling
<1>5. CASE Child \/ GuiGrabs \/ UserLeavesGui
  BY <1>0, <1>5 DEF Child, Exec, ExecFailed, GuiObeysTerm, GuiGrabs, UserLeavesGui,
                    GuiEnds, daemonVars, keyVars
<1>6. CASE Signal
  BY <1>0, <1>6 DEF Signal, keyVars, Handling
<1>7. CASE Keyboard
  <2>1. ASSUME NEW k \in Keys, Press(k) \/ Release(k) \/ Repeat(k)
        PROVE  RealInv'
    <3>1. UNCHANGED <<fd, flags, fired, pc>> /\ (lost => lost')
      BY <2>1 DEF Press, Release, Repeat, Deliver, daemonVars, TypeOK
    <3>2. /\ repeating' \subseteq held' /\ held' \subseteq Keys
      BY <2>1 DEF Press, Release, Repeat, RealInv, TypeOK
    <3>3. \/ Deliver(k, TRUE, held') /\ held' = held \cup {k}
          \/ Deliver(k, FALSE, held') /\ held' = held \ {k}
      BY <2>1 DEF Press, Release, Repeat, RealInv
    <3>4. fd' = "open" /\ ~lost' => FollowsKeys' /\ FalseEndsOff'
      BY <3>1, <3>2, <3>3, QueuedStep
    <3>5. RealUnlessLost'
      BY <3>1 DEF RealInv, RealUnlessLost
    <3> QED BY <3>2, <3>4, <3>5 DEF RealInv
  <2>2. CASE Unplug
    BY <2>2 DEF Unplug, RealInv, RealUnlessLost, TypeOK
  <2>3. CASE Plug
    BY <1>0, <2>3 DEF Plug, daemonVars
  <2> QED BY <1>7, <2>1, <2>2, <2>3 DEF Keyboard
<1>8. CASE LockChanges
  BY <1>0, <1>8 DEF LockChanges, daemonVars, keyVars
<1>9. CASE UNCHANGED vars
  BY <1>0, <1>9 DEF vars, daemonVars, keyVars
<1> QED BY <1>1, <1>2, <1>3, <1>4, <1>5, <1>6, <1>7, <1>8, <1>9 DEF Next, Daemon

\* The three flags of listen_for_cad are together 1 only when the keys are
\* together down, however many events are queued between the two, unless an event
\* went to a grab or was dropped.
THEOREM OnlyRealCombinations == Spec => []RealUnlessLost
<1>1. Init => RealInv
  BY DEF Init, RealInv, RealUnlessLost, Handling
<1>2. RealInv => RealUnlessLost
  BY DEF RealInv
<1> QED BY <1>1, <1>2, TypeCorrect, RealStep, PTL DEF Spec
=============================================================================
