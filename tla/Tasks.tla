-------------------------------- MODULE Tasks -------------------------------
(***************************************************************************)
(* The task manager of the rescue GUI (cad_rescue_gui.c): scan_processes,  *)
(* the table from which it tells how much CPU time a process has used, the *)
(* list of the busiest, when it is renewed, and the buttons of its rows,   *)
(* beside processes that start, work, end, and inherit each other's ids.   *)
(*                                                                         *)
(* A scan visits the ids one after the other, and the processes go on      *)
(* meanwhile; the files of one process are read in one step.  Between two  *)
(* scans there may be any number of frames: one in which no button is      *)
(* pressed changes nothing here, and which frame the next scan is due in   *)
(* (frame_count % 60) is left open.  The lists by memory and by name,      *)
(* which are filled by the same insertion with another key, are left out,  *)
(* and so are the columns that are only shown.                             *)
(***************************************************************************)
EXTENDS Integers, FiniteSets

CONSTANTS Pids,     \* the process ids, but that of the GUI
          HistSize, \* HIST_SIZE, 16384
          TopProcs, \* MAX_TOP_PROCS, 15
          PerTick,  \* what a tick is in thousandths of a percent: 1000
          Deltas,   \* bound: the milliseconds there may be between two scans
          Cores,    \* logical_cores, 0 if unknown
          MaxTicks, \* bound: the CPU time of a process
          MaxFresh  \* bound: the processes that started or changed since their last visit

ASSUME TasksAssumption ==
    /\ Pids \subseteq Nat \ {0} /\ IsFiniteSet(Pids)
    /\ HistSize \in Nat \ {0} /\ TopProcs \in Nat \ {0}
    /\ PerTick \in Nat /\ Deltas \subseteq Nat \ {0} /\ Cores \in Nat
    /\ MaxTicks \in Nat /\ MaxFresh \in Nat

NoProc == "none"
NoPid == 0                          \* a free slot of the table
Hidden == -1                        \* a row that is not drawn
Kinds == {"mine", "other", "system"}    \* the user's, another's, blacklisted
Visible == {"mine", "other"}
Slots == 0..(HistSize - 1)
EmptyHist == [s \in Slots |-> [pid |-> NoPid, cpu_time |-> 0]]
NoTicks == -1
NoSignal == [pid |-> NoPid, root |-> FALSE]
NoRow == [pid |-> NoPid, kind |-> "other", cpu |-> NoTicks]
Listed == 1..TopProcs

VARIABLES
    show_task_manager,
    scanning,           \* scan_processes runs
    current_hist,       \* the table of the last scan, or of the one that runs
    prev_hist,          \* the one before it, while a scan runs
    scanned,            \* prev_scan_ms != 0
    delta_ms,           \* the time since the last scan, 0 when none runs
    todo,               \* the ids that the scan has still to visit
    top_procs_cpu,      \* the rows; nobody looks at them while they are filled
    \* the processes
    kind, cpu_time,
    \* for the properties
    used,               \* ticks since the last visit, or since the process started
    fresh,              \* the processes that started after the last visit of their id
    changed,            \* those whose owner or name changed since then
    ticks,              \* what this scan has computed for its visible processes
    signalled           \* the id that this step has sent a signal to, and as whom

procVars == <<kind, cpu_time, used, fresh, changed>>
scanVars == <<current_hist, prev_hist, scanned, delta_ms, todo, top_procs_cpu, ticks>>
vars == <<show_task_manager, scanning, scanVars, procVars, signalled>>

Alive == {p \in Pids : kind[p] # NoProc}

-----------------------------------------------------------------------------
(* Processes, external.                                                    *)

\* The bound on what a scan does not know yet.
RoomForNews == Cardinality(fresh \cup changed) < MaxFresh

Starts(p) ==
    /\ kind[p] = NoProc /\ RoomForNews
    /\ \E k \in Kinds : kind' = [kind EXCEPT ![p] = k]
    /\ cpu_time' = [cpu_time EXCEPT ![p] = 0]
    /\ used' = [used EXCEPT ![p] = 0]
    /\ fresh' = fresh \cup {p}
    /\ signalled' = NoSignal
    /\ UNCHANGED <<show_task_manager, scanning, scanVars, changed>>

\* exec, setuid: another name or another owner, and the same id and time.
Execs(p) ==
    /\ p \in Alive /\ RoomForNews
    /\ \E k \in Kinds \ {kind[p]} : kind' = [kind EXCEPT ![p] = k]
    /\ changed' = changed \cup {p}
    /\ signalled' = NoSignal
    /\ UNCHANGED <<show_task_manager, scanning, scanVars, cpu_time, used, fresh>>

Works(p) ==
    /\ p \in Alive /\ cpu_time[p] < MaxTicks
    /\ cpu_time' = [cpu_time EXCEPT ![p] = @ + 1]
    /\ used' = [used EXCEPT ![p] = @ + 1]
    /\ signalled' = NoSignal
    /\ UNCHANGED <<show_task_manager, scanning, scanVars, kind, fresh, changed>>

\* What is left of the processes when those of P have ended.
Ended(P) ==
    /\ kind' = [p \in Pids |-> IF p \in P THEN NoProc ELSE kind[p]]
    /\ cpu_time' = [p \in Pids |-> IF p \in P THEN 0 ELSE cpu_time[p]]
    /\ used' = [p \in Pids |-> IF p \in P THEN 0 ELSE used[p]]
    /\ fresh' = fresh \ P
    /\ changed' = changed \ P

Ends(p) ==
    /\ p \in Alive
    /\ Ended({p})
    /\ signalled' = NoSignal
    /\ UNCHANGED <<show_task_manager, scanning, scanVars>>

-----------------------------------------------------------------------------
(* The table: open addressing, cleared before it is filled.                *)

\* The slot that a search for p visits after i others.
Probe(p, i) ==
    LET s == (p % HistSize) + i
    IN IF s < HistSize THEN s ELSE s - HistSize

\* The search for p stops at its nth slot, with an id of S, or a free one.
StopsAt(hist, p, n, S) ==
    /\ hist[Probe(p, n)].pid \in S
    /\ \A i \in 0..(n - 1) : hist[Probe(p, i)].pid \notin S \cup {NoPid}

\* Mutant: only the first slot is looked at.
FirstSlot(hist, p) ==
    IF hist[Probe(p, 0)].pid = p THEN hist[Probe(p, 0)].cpu_time ELSE 0

\* The time of p in a table, 0 if it is not found.
FindTime(hist, p) ==
    IF \E n \in Slots : StopsAt(hist, p, n, {p})
    THEN hist[Probe(p, CHOOSE n \in Slots : StopsAt(hist, p, n, {p}))].cpu_time
    ELSE 0

\* A full table takes nothing more.
InsertTime(hist, p) ==
    IF \E n \in Slots : StopsAt(hist, p, n, {NoPid})
    THEN [hist EXCEPT ![Probe(p, CHOOSE n \in Slots : StopsAt(hist, p, n, {NoPid}))]
                        = [pid |-> p, cpu_time |-> cpu_time[p]]]
    ELSE hist

\* The ticks that p has used since the last scan.
DeltaTicks(p) ==
    LET before == FindTime(prev_hist, p)
    IN IF scanned /\ cpu_time[p] >= before THEN cpu_time[p] - before ELSE 0

-----------------------------------------------------------------------------
(* The list.                                                               *)

\* cpu_percent: the share of all cores, rounded down twice.
Percent(t, ms) ==
    LET ofOne == (t * PerTick) \div ms
    IN IF Cores > 0 THEN ofOne \div Cores ELSE ofOne

Row(p) == [pid |-> p, kind |-> kind[p], cpu |-> Percent(DeltaTicks(p), delta_ms)]

\* Mutant: a row may go in front of a busier one.
PlaceAnywhere(rows, r) == 1

\* Where a row goes: before those that are less busy.
Place(rows, r) ==
    CHOOSE k \in Listed :
        /\ \A i \in k..TopProcs : rows[i].cpu < r.cpu
        /\ k > 1 => rows[k - 1].cpu >= r.cpu

\* Mutant: the last row is kept behind the end of the array.
InsertRowGrows(rows, r) ==
    LET k == Place(rows, r)
    IN IF r.cpu <= rows[TopProcs].cpu THEN rows
       ELSE [i \in 1..(TopProcs + 1) |-> IF i < k THEN rows[i] ELSE IF i = k THEN r ELSE rows[i - 1]]

\* The last row falls off; a row that is not busier than that one is not taken.
InsertRow(rows, r) ==
    LET k == Place(rows, r)
    IN IF r.cpu <= rows[TopProcs].cpu THEN rows
       ELSE [i \in Listed |-> IF i < k THEN rows[i] ELSE IF i = k THEN r ELSE rows[i - 1]]

-----------------------------------------------------------------------------
(* scan_processes.                                                         *)

\* The tables change their roles and the rows are cleared.  /proc lists the processes
\* that run all the time, and of those that start meanwhile some.
ScanBegins ==
    /\ ~scanning /\ scanning' = TRUE
    /\ prev_hist' = current_hist /\ current_hist' = EmptyHist
    /\ delta_ms' \in Deltas
    /\ top_procs_cpu' = [i \in Listed |-> NoRow]
    /\ todo' \in {T \in SUBSET Pids : Alive \subseteq T}
    /\ signalled' = NoSignal
    /\ UNCHANGED <<scanned, ticks, procVars>>

\* /proc cannot be opened: the tables and the rows stay as they are.
ScanFails ==
    /\ ~scanning
    /\ signalled' = NoSignal
    /\ UNCHANGED <<scanning, scanVars, procVars>>

\* /proc lists the ids in ascending order.
NextVisit(p) == p \in todo /\ \A q \in todo : p <= q

\* A process that has ended is passed over; a blacklisted name gets no row.
Visit(p) ==
    /\ scanning /\ NextVisit(p)
    /\ todo' = todo \ {p}
    /\ IF p \in Alive
       THEN /\ current_hist' = InsertTime(current_hist, p)
            /\ used' = [used EXCEPT ![p] = 0]
            /\ fresh' = fresh \ {p} /\ changed' = changed \ {p}
            /\ IF kind[p] \in Visible
               THEN /\ top_procs_cpu' = InsertRow(top_procs_cpu, Row(p))
                    /\ ticks' = [ticks EXCEPT ![p] = DeltaTicks(p)]
               ELSE UNCHANGED <<top_procs_cpu, ticks>>
       ELSE UNCHANGED <<current_hist, used, fresh, changed, top_procs_cpu, ticks>>
    /\ signalled' = NoSignal
    /\ UNCHANGED <<show_task_manager, scanning, prev_hist, scanned, delta_ms, kind, cpu_time>>

\* The old table is not read again, and is not kept.
ScanEnds ==
    /\ scanning /\ todo = {}
    /\ scanning' = FALSE /\ scanned' = TRUE /\ delta_ms' = 0
    /\ prev_hist' = EmptyHist /\ ticks' = [p \in Pids |-> NoTicks]
    /\ signalled' = NoSignal
    /\ UNCHANGED <<show_task_manager, current_hist, todo, top_procs_cpu, procVars>>

-----------------------------------------------------------------------------
(* The window.                                                             *)

\* A frame in which a scan is due, another tab, or another name to search for.
Refresh == show_task_manager /\ (ScanBegins \/ ScanFails) /\ UNCHANGED show_task_manager

\* The button of the menu: the window opens with a list of its own, if it gets one.
Open == ~show_task_manager /\ (ScanBegins \/ ScanFails) /\ show_task_manager' = TRUE

\* Nothing else happens in the frame of a button.
Button == ~scanning /\ show_task_manager /\ UNCHANGED scanning

Close ==
    /\ Button
    /\ show_task_manager' = FALSE
    /\ signalled' = NoSignal
    /\ UNCHANGED <<scanVars, procVars>>

\* A row past the last is not drawn, nor one whose process was killed.
Drawn(i) == top_procs_cpu[i].pid > 0

\* Mutant: every row can be managed.
ManagedAll(i, taskmgr_root_mode) == TRUE

\* can_manage: what the scan said of the owner, or the rights that module Windows governs.
Managed(i, taskmgr_root_mode) == taskmgr_root_mode \/ top_procs_cpu[i].kind = "mine"

\* kill(2) with an id of -1 reaches every process.
Reached(pid) == IF pid = Hidden THEN Alive ELSE Alive \cap {pid}

\* The button Kill of a row.
Kill(i, taskmgr_root_mode) ==
    /\ Button /\ Drawn(i) /\ Managed(i, taskmgr_root_mode)
    /\ signalled' = [pid |-> top_procs_cpu[i].pid, root |-> taskmgr_root_mode]
    /\ Ended(Reached(top_procs_cpu[i].pid))
    /\ top_procs_cpu' = [top_procs_cpu EXCEPT ![i].pid = Hidden]
    /\ UNCHANGED <<show_task_manager, current_hist, prev_hist, scanned, delta_ms, todo, ticks>>

\* The buttons Terminate and Pause of a row: what the process makes of it is Ends.
Signal(i, taskmgr_root_mode) ==
    /\ Button /\ Drawn(i) /\ Managed(i, taskmgr_root_mode)
    /\ signalled' = [pid |-> top_procs_cpu[i].pid, root |-> taskmgr_root_mode]
    /\ UNCHANGED <<show_task_manager, scanVars, procVars>>

-----------------------------------------------------------------------------
Init ==
    /\ show_task_manager = FALSE /\ scanning = FALSE
    /\ current_hist = EmptyHist /\ prev_hist = EmptyHist /\ scanned = FALSE /\ todo = {}
    /\ delta_ms = 0
    /\ top_procs_cpu = [i \in Listed |-> NoRow] /\ ticks = [p \in Pids |-> NoTicks]
    /\ kind \in [Pids -> Kinds \cup {NoProc}]
    /\ cpu_time \in [Pids -> 0..MaxTicks]
    /\ \A p \in Pids : kind[p] = NoProc => cpu_time[p] = 0
    /\ used = [p \in Pids |-> 0] /\ fresh = {} /\ changed = {}
    /\ signalled = NoSignal

Window ==
    \/ Refresh
    \/ Open
    \/ Close
    \/ \E i \in Listed, root \in BOOLEAN : Kill(i, root) \/ Signal(i, root)

Next ==
    \/ ScanEnds
    \/ Window
    \/ \E p \in Pids : Visit(p) \/ Starts(p) \/ Execs(p) \/ Works(p) \/ Ends(p)

Spec == Init /\ [][Next]_vars

-----------------------------------------------------------------------------
(* Properties.                                                             *)

Tables == [Slots -> [pid : Pids \cup {NoPid}, cpu_time : 0..MaxTicks]]
Rows == [pid : Pids \cup {Hidden}, kind : Visible, cpu : Nat] \cup {NoRow}

TypeOK ==
    /\ show_task_manager \in BOOLEAN /\ scanning \in BOOLEAN
    /\ current_hist \in Tables /\ prev_hist \in Tables /\ scanned \in BOOLEAN
    /\ delta_ms \in Nat /\ (scanning => delta_ms \in Deltas)
    /\ todo \subseteq Pids
    /\ top_procs_cpu \in [Listed -> Rows]
    /\ kind \in [Pids -> Kinds \cup {NoProc}]
    /\ cpu_time \in [Pids -> 0..MaxTicks] /\ used \in [Pids -> 0..MaxTicks]
    /\ fresh \subseteq Pids /\ changed \subseteq Pids
    /\ ticks \in [Pids -> 0..MaxTicks \cup {NoTicks}]
    /\ signalled \in [pid : Pids \cup {NoPid, Hidden}, root : BOOLEAN]

\* A signal reaches a process that the user may manage, and never one of those kept
\* from the list, unless since the last scan its id was given away or it became another
\* program; and never all of them: kill is not called with the -1 that marks the row of
\* a process already killed, however long that row stays in the list, a scan that fails
\* included, and whichever rows were killed before it.
OnlyManaged ==
    [][LET p == signalled'.pid
       IN /\ p # Hidden
          /\ p \in Alive \ (fresh \cup changed)
                => kind[p] = "mine" \/ (signalled'.root /\ kind[p] = "other")]_vars

InTable(hist, p) == \E s \in Slots : hist[s].pid = p
Full(hist) == \A s \in Slots : hist[s].pid # NoPid

\* The last table was full before it came to p.
NoRoomFor(p) == Full(prev_hist) /\ ~InTable(prev_hist, p)

\* This step computes the ticks of p, and not in the first scan.
Computes(p) == p \in todo \ todo' /\ scanned /\ ticks'[p] # NoTicks

\* The ticks that a scan computes for a process are those it has used since the scan
\* before visited it, or since it started if that was later, wherever the table put its
\* entry and whatever ended in between; but for an id that was reused.  It does not
\* speak of the processes that the table had no room for: see FullShowsNothing.
TicksExact ==
    [][\A p \in Pids : Computes(p) /\ ~NoRoomFor(p)
          => ticks'[p] = used[p] \/ (p \in fresh /\ InTable(prev_hist, p))]_vars

\* While a scan fills the list, it has the busiest of the processes visited, each once
\* and with its own percentage: nobody who was left out has a higher one than anyone in
\* it, the percentages being rounded down as they are compared.  And it stays in
\* descending order whatever is done to its rows.
ListsBusiest ==
    /\ \A i, j \in Listed : i < j => top_procs_cpu[i].cpu >= top_procs_cpu[j].cpu
    /\ scanning =>
         /\ \A i \in Listed : top_procs_cpu[i] # NoRow
                => /\ top_procs_cpu[i].cpu = Percent(ticks[top_procs_cpu[i].pid], delta_ms)
                   /\ \A j \in Listed \ {i} : top_procs_cpu[j].pid # top_procs_cpu[i].pid
         /\ \A p \in Pids : \/ ticks[p] = NoTicks
                            \/ Percent(ticks[p], delta_ms) <= top_procs_cpu[TopProcs].cpu
                            \/ \E i \in Listed : top_procs_cpu[i].pid = p

-----------------------------------------------------------------------------
(* What a comment says and the code does not do.                           *)

\* "Le CPU affiche sera de 0% pour les processus supplementaires": a process that the
\* table had no room for is shown with 0 %.
FullShowsNothing ==
    [][\A p \in Pids \ fresh : Computes(p) /\ NoRoomFor(p)
          => Percent(ticks'[p], delta_ms) = 0]_vars
=============================================================================
