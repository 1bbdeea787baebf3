---------------------------- MODULE TasksProofs -----------------------------
(***************************************************************************)
(* Theorems about Tasks, for any ids, size of the table, length of the     *)
(* list and CPU times: the types, the table, the list, and the buttons.    *)
(***************************************************************************)
EXTENDS Tasks, WellFoundedInduction, TLAPS

-----------------------------------------------------------------------------
(* The table.                                                              *)

\* Any set of numbers has a least one: the first slot, or row, of a kind.
LEMMA LeastNumber ==
  ASSUME NEW S \in SUBSET Nat, S # {}
  PROVE  \E n \in S : \A m \in S : n <= m
  <1>1. PICK n \in S : \A m \in S : ~(<<m, n>> \in OpToRel(<, Nat))
    BY WFMin, NatLessThanWellFounded
  <1>2. \A m \in S : ~(m < n)
    BY <1>1 DEF OpToRel
  <1> QED  BY <1>2

\* The slots that a search visits are slots of the table, each once and all of them.
LEMMA ProbeType ==
  ASSUME NEW p \in Pids, NEW n \in Slots
  PROVE  Probe(p, n) \in Slots
  <1>1. p \in Nat /\ HistSize \in Nat \ {0}
    BY TasksAssumption
  <1>2. p % HistSize \in 0..(HistSize - 1)
    BY <1>1
  <1> QED  BY <1>1, <1>2 DEF Probe, Slots

LEMMA ProbeInjective ==
  ASSUME NEW p \in Pids, NEW n \in Slots, NEW m \in Slots, Probe(p, n) = Probe(p, m)
  PROVE  n = m
  <1>1. p \in Nat /\ HistSize \in Nat \ {0}
    BY TasksAssumption
  <1>2. p % HistSize \in 0..(HistSize - 1)
    BY <1>1
  <1> QED  BY <1>1, <1>2 DEF Probe, Slots

LEMMA ProbeOnto ==
  ASSUME NEW p \in Pids, NEW s \in Slots
  PROVE  \E n \in Slots : Probe(p, n) = s
  <1> DEFINE m == p % HistSize
             n == IF s >= m THEN s - m ELSE (s - m) + HistSize
  <1>1. p \in Nat /\ HistSize \in Nat \ {0}
    BY TasksAssumption
  <1>2. m \in 0..(HistSize - 1)
    BY <1>1
  <1>3. n \in Slots
    BY <1>1, <1>2 DEF Slots
  <1>4. Probe(p, n) = s
    BY <1>1, <1>2 DEF Slots, Probe
  <1> QED  BY <1>3, <1>4

\* Every entry can be reached by the search for its id, through slots that are taken.
Placed(hist) ==
    \A s \in Slots : hist[s].pid # NoPid =>
        \E n \in Slots : /\ Probe(hist[s].pid, n) = s
                         /\ \A i \in 0..(n - 1) : hist[Probe(hist[s].pid, i)].pid # NoPid

\* No id has two entries.
Distinct(hist) ==
    \A s, t \in Slots : hist[s].pid # NoPid /\ hist[s].pid = hist[t].pid => s = t

\* The entry of an id is found wherever it was put.
LEMMA FindThere ==
  ASSUME NEW hist \in Tables, Placed(hist), Distinct(hist),
         NEW p \in Pids, NEW s \in Slots, hist[s].pid = p
  PROVE  FindTime(hist, p) = hist[s].cpu_time
  <1>0. p # NoPid /\ HistSize \in Nat \ {0}
    BY TasksAssumption DEF NoPid
  <1>1. PICK n \in Slots : /\ Probe(p, n) = s
                           /\ \A i \in 0..(n - 1) : hist[Probe(p, i)].pid # NoPid
    BY <1>0 DEF Placed
  <1>2. ASSUME NEW i \in 0..(n - 1) PROVE hist[Probe(p, i)].pid \notin {p} \cup {NoPid}
    <2>1. i \in Slots /\ i # n
      BY <1>0 DEF Slots
    <2>2. Probe(p, i) \in Slots /\ Probe(p, i) # s
      BY <1>1, <2>1, ProbeType, ProbeInjective
    <2> QED  BY <1>0, <1>1, <2>2 DEF Distinct
  <1>3. StopsAt(hist, p, n, {p})
    BY <1>1, <1>2 DEF StopsAt
  <1> DEFINE m == CHOOSE k \in Slots : StopsAt(hist, p, k, {p})
  <1>4. m \in Slots /\ StopsAt(hist, p, m, {p})
    BY <1>3
  <1>5. Probe(p, m) = s
    BY <1>0, <1>4, ProbeType DEF StopsAt, Distinct
  <1> QED  BY <1>3, <1>5 DEF FindTime

\* An id without an entry counts from 0.
LEMMA FindNot ==
  ASSUME NEW hist \in Tables, NEW p \in Pids, ~InTable(hist, p)
  PROVE  FindTime(hist, p) = 0
  <1>1. ~\E n \in Slots : StopsAt(hist, p, n, {p})
    BY ProbeType DEF StopsAt, InTable
  <1> QED  BY <1>1 DEF FindTime

LEMMA FindType ==
  ASSUME NEW hist \in Tables, NEW p \in Pids
  PROVE  FindTime(hist, p) \in 0..MaxTicks
  <1>0. MaxTicks \in Nat
    BY TasksAssumption
  <1> DEFINE m == CHOOSE k \in Slots : StopsAt(hist, p, k, {p})
  <1>1. CASE \E n \in Slots : StopsAt(hist, p, n, {p})
    <2>1. m \in Slots
      BY <1>1
    <2>2. Probe(p, m) \in Slots
      BY <2>1, ProbeType
    <2> QED  BY <1>1, <2>2 DEF FindTime, Tables
  <1>2. CASE ~\E n \in Slots : StopsAt(hist, p, n, {p})
    BY <1>0, <1>2 DEF FindTime
  <1> QED  BY <1>1, <1>2

\* A new entry goes into the first free slot of its search, if the table has any.
LEMMA InsertCases ==
  ASSUME NEW hist \in Tables, NEW p \in Pids
  PROVE  \/ Full(hist) /\ InsertTime(hist, p) = hist
         \/ \E n \in Slots :
               /\ StopsAt(hist, p, n, {NoPid})
               /\ InsertTime(hist, p)
                    = [hist EXCEPT ![Probe(p, n)] = [pid |-> p, cpu_time |-> cpu_time[p]]]
  <1>1. CASE \E n \in Slots : StopsAt(hist, p, n, {NoPid})
    <2> DEFINE n == CHOOSE k \in Slots : StopsAt(hist, p, k, {NoPid})
    <2>1. n \in Slots /\ StopsAt(hist, p, n, {NoPid})
      BY <1>1
    <2>2. InsertTime(hist, p)
            = [hist EXCEPT ![Probe(p, n)] = [pid |-> p, cpu_time |-> cpu_time[p]]]
      BY <1>1 DEF InsertTime
    <2> QED  BY <2>1, <2>2
  <1>2. CASE ~\E n \in Slots : StopsAt(hist, p, n, {NoPid})
    <2>1. InsertTime(hist, p) = hist
      BY <1>2 DEF InsertTime
    <2>2. ASSUME NEW s \in Slots, hist[s].pid = NoPid PROVE FALSE
      <3> DEFINE S == {n \in Slots : hist[Probe(p, n)].pid = NoPid}
      <3>1. S \in SUBSET Nat /\ S # {}
        BY <2>2, ProbeOnto, TasksAssumption DEF Slots
      <3>2. PICK n \in S : \A m \in S : n <= m
        BY <3>1, LeastNumber
      <3>3. ASSUME NEW i \in 0..(n - 1) PROVE hist[Probe(p, i)].pid \notin {NoPid} \cup {NoPid}
        <4>1. i \in Slots /\ ~(n <= i)
          BY TasksAssumption DEF Slots
        <4> QED  BY <3>2, <4>1
      <3>4. StopsAt(hist, p, n, {NoPid})
        BY <3>3 DEF StopsAt
      <3> QED  BY <1>2, <3>4
    <2> QED  BY <2>1, <2>2 DEF Full
  <1> QED  BY <1>1, <1>2

\* A table that gets an id it does not have: the type, and that every entry can still be
\* found, the others unchanged.
LEMMA InsertKeeps ==
  ASSUME NEW hist \in Tables, NEW p \in Pids, cpu_time \in [Pids -> 0..MaxTicks],
         NEW new, new = InsertTime(hist, p)
  PROVE  /\ new \in Tables
         /\ \A s \in Slots : hist[s].pid # NoPid => new[s] = hist[s]
         /\ \A s \in Slots : new[s].pid \in {hist[s].pid, p}
         /\ \/ \E s \in Slots : new[s] = [pid |-> p, cpu_time |-> cpu_time[p]]
            \/ Full(hist) /\ new = hist
         /\ Placed(hist) => Placed(new)
         /\ Distinct(hist) /\ ~InTable(hist, p) => Distinct(new)
  <1> DEFINE e == [pid |-> p, cpu_time |-> cpu_time[p]]
  <1>0. p # NoPid /\ HistSize \in Nat \ {0}
    BY TasksAssumption DEF NoPid
  <1>2. ASSUME NEW n \in Slots, StopsAt(hist, p, n, {NoPid}),
               new = [hist EXCEPT ![Probe(p, n)] = e]
        PROVE  /\ new \in Tables
               /\ \A s \in Slots : hist[s].pid # NoPid => new[s] = hist[s]
               /\ \A s \in Slots : new[s].pid \in {hist[s].pid, p}
               /\ \E s \in Slots : new[s] = e
               /\ Placed(hist) => Placed(new)
               /\ Distinct(hist) /\ ~InTable(hist, p) => Distinct(new)
    <2> DEFINE f == Probe(p, n)
    <2> HIDE DEF e
    <2>1. f \in Slots /\ hist[f].pid = NoPid
      BY <1>2, ProbeType DEF StopsAt
    <2>2. e \in [pid : Pids \cup {NoPid}, cpu_time : 0..MaxTicks] /\ e.pid = p
      BY DEF e
    <2>3. /\ new[f] = e
          /\ \A s \in Slots \ {f} : new[s] = hist[s]
      BY <1>2, <2>1 DEF Tables
    <2>4. new \in Tables
      BY <1>2, <2>1, <2>2 DEF Tables
    <2>5. ASSUME Placed(hist) PROVE Placed(new)
      <3> SUFFICES ASSUME NEW s \in Slots, new[s].pid # NoPid
                   PROVE  \E k \in Slots : /\ Probe(new[s].pid, k) = s
                             /\ \A i \in 0..(k - 1) : new[Probe(new[s].pid, i)].pid # NoPid
        BY DEF Placed
      <3>1. ASSUME NEW q \in Pids, NEW i \in Slots, hist[Probe(q, i)].pid # NoPid
            PROVE  new[Probe(q, i)].pid # NoPid
        BY <2>1, <2>3, <3>1, ProbeType
      <3>2. CASE s = f
        <4>1. \A i \in 0..(n - 1) : i \in Slots /\ hist[Probe(p, i)].pid # NoPid
          BY <1>0, <1>2 DEF StopsAt, Slots
        <4>2. \A i \in 0..(n - 1) : new[Probe(p, i)].pid # NoPid
          BY <3>1, <4>1
        <4> QED  BY <2>2, <2>3, <3>2, <4>2
      <3>3. CASE s # f
        <4>1. new[s] = hist[s] /\ new[s].pid \in Pids
          BY <2>3, <2>4, <3>3 DEF Tables
        <4>2. PICK k \in Slots :
                 /\ Probe(new[s].pid, k) = s
                 /\ \A i \in 0..(k - 1) : hist[Probe(new[s].pid, i)].pid # NoPid
          BY <2>5, <4>1 DEF Placed
        <4>3. \A i \in 0..(k - 1) : i \in Slots
          BY <1>0 DEF Slots
        <4>4. \A i \in 0..(k - 1) : new[Probe(new[s].pid, i)].pid # NoPid
          BY <3>1, <4>1, <4>2, <4>3
        <4> QED  BY <4>2, <4>4
      <3> QED  BY <3>2, <3>3
    <2>6. ASSUME Distinct(hist), ~InTable(hist, p) PROVE Distinct(new)
      BY <2>1, <2>2, <2>3, <2>6 DEF Distinct, InTable
    <2> QED  BY <2>1, <2>2, <2>3, <2>4, <2>5, <2>6
  <1>3. \/ Full(hist) /\ new = hist
        \/ \E n \in Slots : StopsAt(hist, p, n, {NoPid}) /\ new = [hist EXCEPT ![Probe(p, n)] = e]
    BY InsertCases
  <1> HIDE DEF e
  <1>4. /\ new \in Tables
        /\ \A s \in Slots : hist[s].pid # NoPid => new[s] = hist[s]
        /\ \A s \in Slots : new[s].pid \in {hist[s].pid, p}
        /\ (\E s \in Slots : new[s] = e) \/ (Full(hist) /\ new = hist)
        /\ Placed(hist) => Placed(new)
        /\ Distinct(hist) /\ ~InTable(hist, p) => Distinct(new)
    <2>1. CASE Full(hist) /\ new = hist
      BY <2>1
    <2>2. CASE \E n \in Slots : StopsAt(hist, p, n, {NoPid})
                                /\ new = [hist EXCEPT ![Probe(p, n)] = e]
      <3>1. PICK n \in Slots : StopsAt(hist, p, n, {NoPid}) /\ new = [hist EXCEPT ![Probe(p, n)] = e]
        BY <2>2
      <3> QED  BY <1>2, <3>1
    <2> QED  BY <1>3, <2>1, <2>2
  <1> QED  BY <1>4 DEF e

-----------------------------------------------------------------------------
(* The list.                                                               *)

LEMMA RowFacts ==
  ASSUME NEW r \in Rows
  PROVE  /\ r.cpu \in Int /\ r.cpu >= NoTicks
         /\ r # NoRow => r.cpu \in Nat /\ r.pid \in Pids \cup {Hidden}
         /\ r = NoRow => r.cpu = NoTicks /\ r.pid = NoPid
         /\ r.kind \in Visible /\ r.pid \in Pids \cup {Hidden, NoPid}
  <1>1. CASE r \in [pid : Pids \cup {Hidden}, kind : Visible, cpu : Nat]
    <2>1. r # NoRow
      BY <1>1, TasksAssumption DEF NoRow, NoTicks
    <2> QED  BY <1>1, <2>1, TasksAssumption DEF NoTicks
  <1>2. CASE r = NoRow
    BY <1>2 DEF NoRow, NoTicks, Visible
  <1> QED  BY <1>1, <1>2 DEF Rows

\* A row that is busier than the last one has a place.
LEMMA InsertRowCases ==
  ASSUME NEW rows \in [Listed -> Rows], NEW r \in Rows
  PROVE  \/ r.cpu <= rows[TopProcs].cpu /\ InsertRow(rows, r) = rows
         \/ \E k \in Listed :
               /\ \A i \in k..TopProcs : rows[i].cpu < r.cpu
               /\ k > 1 => rows[k - 1].cpu >= r.cpu
               /\ InsertRow(rows, r) = [i \in Listed |-> IF i < k THEN rows[i]
                                                        ELSE IF i = k THEN r ELSE rows[i - 1]]
  <1>0. TopProcs \in Nat \ {0} /\ TopProcs \in Listed
    BY TasksAssumption DEF Listed
  <1>1. CASE r.cpu <= rows[TopProcs].cpu
    BY <1>1 DEF InsertRow
  <1>2. CASE ~(r.cpu <= rows[TopProcs].cpu)
    <2> DEFINE S == {k \in Listed : \A i \in k..TopProcs : rows[i].cpu < r.cpu}
               Fits(k) == /\ \A i \in k..TopProcs : rows[i].cpu < r.cpu
                          /\ k > 1 => rows[k - 1].cpu >= r.cpu
    <2>1. TopProcs \in S
      BY <1>0, <1>2, RowFacts
    <2>2. S \in SUBSET Nat
      BY <1>0 DEF Listed
    <2>3. PICK k \in S : \A m \in S : k <= m
      BY <2>1, <2>2, LeastNumber
    <2>4. ASSUME k > 1 PROVE rows[k - 1].cpu >= r.cpu
      <3>1. k - 1 \in Listed /\ ~(k <= k - 1) /\ k \in Listed
        BY <1>0, <2>4 DEF Listed
      <3>2. PICK i \in (k - 1)..TopProcs : ~(rows[i].cpu < r.cpu)
        BY <2>3, <3>1
      <3>3. i = k - 1
        BY <1>0, <3>1, <3>2 DEF Listed
      <3> QED  BY <3>1, <3>2, <3>3, RowFacts
    <2>5. Fits(k)
      BY <2>3, <2>4
    <2>6. Place(rows, r) \in Listed /\ Fits(Place(rows, r))
      BY <2>5 DEF Place
    <2>7. InsertRow(rows, r) = [i \in Listed |-> IF i < Place(rows, r) THEN rows[i]
                                  ELSE IF i = Place(rows, r) THEN r ELSE rows[i - 1]]
      BY <1>2 DEF InsertRow
    <2> QED  BY <2>6, <2>7
  <1> QED  BY <1>1, <1>2

Descending(rows) == \A i, j \in Listed : i < j => rows[i].cpu >= rows[j].cpu

\* What has become of a list that got a row.
Inserted(rows, r, new) ==
    /\ new \in [Listed -> Rows]
    /\ Descending(rows) => Descending(new)
    /\ Descending(rows) => rows[TopProcs].cpu <= new[TopProcs].cpu
    /\ (\E i \in Listed : new[i] = r) \/ r.cpu <= new[TopProcs].cpu
    /\ Descending(rows) => \A i \in Listed : \/ \E j \in Listed : new[j] = rows[i]
                                             \/ rows[i].cpu <= new[TopProcs].cpu
    /\ \/ \A i \in Listed : new[i] = rows[i]
       \/ \E k \in Listed : \A i \in Listed :
             /\ i < k => new[i] = rows[i]
             /\ i = k => new[i] = r
             /\ i > k => i - 1 \in Listed /\ new[i] = rows[i - 1]

\* A list that gets a row: its order, and what is in it now.
LEMMA InsertRowKeeps ==
  ASSUME NEW rows \in [Listed -> Rows], NEW r \in Rows
  PROVE  Inserted(rows, r, InsertRow(rows, r))
  <1> DEFINE new == InsertRow(rows, r)
  <1>0. TopProcs \in Nat \ {0} /\ TopProcs \in Listed /\ Listed = 1..TopProcs
    BY TasksAssumption DEF Listed
  <1>1. \A i \in Listed : rows[i] \in Rows /\ rows[i].cpu \in Int
    BY RowFacts
  <1>2. r.cpu \in Int
    BY RowFacts
  <1>3. CASE r.cpu <= rows[TopProcs].cpu /\ new = rows
    BY <1>0, <1>1, <1>3 DEF Descending, Inserted
  <1>4. ASSUME NEW k \in Listed,
               \A i \in k..TopProcs : rows[i].cpu < r.cpu,
               k > 1 => rows[k - 1].cpu >= r.cpu,
               new = [i \in Listed |-> IF i < k THEN rows[i] ELSE IF i = k THEN r ELSE rows[i - 1]]
        PROVE  /\ new \in [Listed -> Rows]
               /\ Descending(rows) => Descending(new)
               /\ Descending(rows) => rows[TopProcs].cpu <= new[TopProcs].cpu
               /\ new[k] = r
               /\ Descending(rows) => \A i \in Listed : \/ \E j \in Listed : new[j] = rows[i]
                                                        \/ rows[i].cpu <= new[TopProcs].cpu
               /\ \A i \in Listed : /\ i < k => new[i] = rows[i]
                                    /\ i = k => new[i] = r
                                    /\ i > k => i - 1 \in Listed /\ new[i] = rows[i - 1]
    <2> HIDE DEF new
    <2>1. \A i \in Listed : /\ i < k => new[i] = rows[i]
                            /\ i = k => new[i] = r
                            /\ i > k => i - 1 \in Listed /\ new[i] = rows[i - 1]
      BY <1>0, <1>4
    <2>2. \A i \in Listed : new[i] \in Rows
      BY <1>0, <1>1, <2>1
    <2>3. new \in [Listed -> Rows]
      BY <1>4, <2>2
    <2>4. ASSUME Descending(rows) PROVE Descending(new)
      <3> SUFFICES ASSUME NEW i \in Listed, NEW j \in Listed, i < j
                   PROVE  new[i].cpu >= new[j].cpu
        BY DEF Descending
      <3>1. CASE j < k
        BY <1>0, <1>1, <2>1, <2>4, <3>1 DEF Descending
      <3>2. CASE j = k
        <4>1. k > 1 /\ k - 1 \in Listed /\ (i = k - 1 \/ i < k - 1) /\ i < k
          BY <1>0, <3>2
        <4>2. rows[i].cpu >= rows[k - 1].cpu
          BY <1>0, <1>1, <2>4, <4>1 DEF Descending
        <4>3. rows[k - 1].cpu >= r.cpu
          BY <1>4, <4>1
        <4> QED  BY <1>1, <1>2, <2>1, <3>2, <4>1, <4>2, <4>3
      <3>3. CASE j > k /\ i < k
        BY <1>0, <1>1, <2>1, <2>4, <3>3 DEF Descending
      <3>4. CASE j > k /\ i = k
        <4>1. j - 1 \in Listed /\ j - 1 \in k..TopProcs /\ new[j] = rows[j - 1] /\ new[i] = r
          BY <1>0, <2>1, <3>4
        <4> QED  BY <1>1, <1>2, <1>4, <4>1
      <3>5. CASE j > k /\ i > k
        <4>1. i - 1 \in Listed /\ j - 1 \in Listed /\ i - 1 < j - 1
              /\ new[i] = rows[i - 1] /\ new[j] = rows[j - 1]
          BY <1>0, <2>1, <3>5
        <4> QED  BY <1>1, <2>4, <4>1 DEF Descending
      <3> QED  BY <1>0, <3>1, <3>2, <3>3, <3>4, <3>5
    <2>5. ASSUME Descending(rows) PROVE rows[TopProcs].cpu <= new[TopProcs].cpu
      <3>1. CASE k = TopProcs
        BY <1>0, <1>1, <1>2, <1>4, <2>1, <3>1
      <3>2. CASE k # TopProcs
        <4>1. TopProcs > k /\ TopProcs - 1 \in Listed /\ TopProcs - 1 < TopProcs
              /\ new[TopProcs] = rows[TopProcs - 1]
          BY <1>0, <2>1, <3>2
        <4> QED  BY <1>0, <1>1, <2>5, <4>1 DEF Descending
      <3> QED  BY <3>1, <3>2
    <2>6. ASSUME Descending(rows), NEW i \in Listed
          PROVE  (\E j \in Listed : new[j] = rows[i]) \/ rows[i].cpu <= new[TopProcs].cpu
      <3>1. CASE i < k
        BY <2>1, <3>1
      <3>2. CASE i >= k /\ i < TopProcs
        <4>1. i + 1 \in Listed /\ i + 1 > k /\ (i + 1) - 1 = i
          BY <1>0, <3>2
        <4>2. new[i + 1] = rows[i]
          BY <2>1, <4>1
        <4> QED  BY <4>1, <4>2
      <3>3. CASE i = TopProcs
        BY <2>5, <2>6, <3>3
      <3> QED  BY <1>0, <3>1, <3>2, <3>3
    <2>7. new[k] = r
      BY <2>1
    <2> QED  BY <2>1, <2>3, <2>4, <2>5, <2>6, <2>7
  <1>5. \/ r.cpu <= rows[TopProcs].cpu /\ new = rows
        \/ \E k \in Listed :
              /\ \A i \in k..TopProcs : rows[i].cpu < r.cpu
              /\ k > 1 => rows[k - 1].cpu >= r.cpu
              /\ new = [i \in Listed |-> IF i < k THEN rows[i] ELSE IF i = k THEN r ELSE rows[i - 1]]
    BY InsertRowCases
  <1>6. CASE \E k \in Listed :
              /\ \A i \in k..TopProcs : rows[i].cpu < r.cpu
              /\ k > 1 => rows[k - 1].cpu >= r.cpu
              /\ new = [i \in Listed |-> IF i < k THEN rows[i] ELSE IF i = k THEN r ELSE rows[i - 1]]
    <2>1. PICK k \in Listed :
              /\ \A i \in k..TopProcs : rows[i].cpu < r.cpu
              /\ k > 1 => rows[k - 1].cpu >= r.cpu
              /\ new = [i \in Listed |-> IF i < k THEN rows[i] ELSE IF i = k THEN r ELSE rows[i - 1]]
      BY <1>6
    <2> HIDE DEF new
    <2>2. /\ new \in [Listed -> Rows]
          /\ Descending(rows) => Descending(new)
          /\ Descending(rows) => rows[TopProcs].cpu <= new[TopProcs].cpu
          /\ new[k] = r
          /\ Descending(rows) => \A i \in Listed : \/ \E j \in Listed : new[j] = rows[i]
                                                   \/ rows[i].cpu <= new[TopProcs].cpu
          /\ \A i \in Listed : /\ i < k => new[i] = rows[i]
                               /\ i = k => new[i] = r
                               /\ i > k => i - 1 \in Listed /\ new[i] = rows[i - 1]
      BY <1>4, <2>1
    <2> QED  BY <2>2 DEF Inserted, new
  <1> QED  BY <1>3, <1>5, <1>6

-----------------------------------------------------------------------------
(* Types.                                                                  *)

\* What the history variables mean: used is part of the time, and all of it for a
\* process that was not visited yet.
Times ==
    /\ \A p \in Pids : used[p] <= cpu_time[p]
    /\ \A p \in fresh : used[p] = cpu_time[p]

\* The ticks that are shown are never negative, and never more than the whole time.
LEMMA DeltaType ==
  ASSUME TypeOK, NEW p \in Pids
  PROVE  DeltaTicks(p) \in 0..MaxTicks
  <1>1. FindTime(prev_hist, p) \in 0..MaxTicks
    BY FindType DEF TypeOK
  <1>2. cpu_time[p] \in 0..MaxTicks /\ MaxTicks \in Nat
    BY TasksAssumption DEF TypeOK
  <1> QED  BY <1>1, <1>2 DEF DeltaTicks

\* A percentage is a number.
LEMMA PercentType ==
  ASSUME NEW t \in Nat, NEW ms \in Deltas
  PROVE  Percent(t, ms) \in Nat
  <1>1. PerTick \in Nat /\ ms \in Nat /\ ms > 0 /\ Cores \in Nat
    BY TasksAssumption
  <1> DEFINE n == t * PerTick
             ofOne == n \div ms
  <1>2. n \in Nat
    BY <1>1
  <1> HIDE DEF n
  <1>3. ofOne \in Nat
    BY <1>1, <1>2
  <1> HIDE DEF ofOne
  <1>4. Cores > 0 => ofOne \div Cores \in Nat
    BY <1>1, <1>3
  <1>5. Percent(t, ms) = IF Cores > 0 THEN ofOne \div Cores ELSE ofOne
    BY DEF Percent, n, ofOne
  <1> QED  BY <1>3, <1>4, <1>5

LEMMA RowType ==
  ASSUME TypeOK, scanning, NEW p \in Pids, kind[p] \in Visible
  PROVE  Row(p) \in Rows /\ Row(p) # NoRow
  <1>1. DeltaTicks(p) \in Nat /\ delta_ms \in Deltas
    BY DeltaType, TasksAssumption DEF TypeOK
  <1>2. Row(p) \in [pid : Pids \cup {Hidden}, kind : Visible, cpu : Nat]
    BY <1>1, PercentType DEF Row
  <1>3. Row(p).pid = p /\ p # NoPid
    BY TasksAssumption DEF Row, NoPid
  <1> QED  BY <1>2, <1>3 DEF Rows, NoRow

LEMMA EmptyTypes ==
  /\ EmptyHist \in Tables
  /\ \A s \in Slots : EmptyHist[s].pid = NoPid
  /\ [i \in Listed |-> NoRow] \in [Listed -> Rows]
  /\ [p \in Pids |-> NoTicks] \in [Pids -> 0..MaxTicks \cup {NoTicks}]
  BY TasksAssumption DEF EmptyHist, Tables, Rows

LEMMA InitType == Init => TypeOK /\ Times
  <1> SUFFICES ASSUME Init PROVE TypeOK /\ Times
    OBVIOUS
  <1>1. MaxTicks \in Nat
    BY TasksAssumption
  <1>2. signalled \in [pid : Pids \cup {NoPid, Hidden}, root : BOOLEAN]
    BY DEF Init, NoSignal
  <1>3. Times
    BY <1>1 DEF Init, Times
  <1>4. used \in [Pids -> 0..MaxTicks]
    BY <1>1 DEF Init
  <1>5. show_task_manager \in BOOLEAN /\ scanning \in BOOLEAN /\ scanned \in BOOLEAN
    BY DEF Init
  <1>6. todo \subseteq Pids /\ fresh \subseteq Pids /\ changed \subseteq Pids
        /\ delta_ms \in Nat /\ ~scanning
    BY DEF Init
  <1>7. current_hist \in Tables /\ prev_hist \in Tables /\ top_procs_cpu \in [Listed -> Rows]
        /\ ticks \in [Pids -> 0..MaxTicks \cup {NoTicks}]
    BY EmptyTypes DEF Init
  <1>8. kind \in [Pids -> Kinds \cup {NoProc}] /\ cpu_time \in [Pids -> 0..MaxTicks]
    BY DEF Init
  <1> QED  BY <1>2, <1>3, <1>4, <1>5, <1>6, <1>7, <1>8 DEF TypeOK

\* What a step does to the processes, whichever it is.
procTypes ==
    /\ kind \in [Pids -> Kinds \cup {NoProc}]
    /\ cpu_time \in [Pids -> 0..MaxTicks] /\ used \in [Pids -> 0..MaxTicks]
    /\ fresh \subseteq Pids /\ changed \subseteq Pids

LEMMA StartsType ==
  ASSUME procTypes, Times, NEW p \in Pids, Starts(p)
  PROVE  procTypes' /\ Times'
  <1>1. PICK k \in Kinds : kind' = [kind EXCEPT ![p] = k]
    BY DEF Starts
  <1>2. /\ cpu_time' = [cpu_time EXCEPT ![p] = 0] /\ used' = [used EXCEPT ![p] = 0]
        /\ fresh' = fresh \cup {p} /\ changed' = changed /\ MaxTicks \in Nat
    BY TasksAssumption DEF Starts
  <1>3. procTypes'
    BY <1>1, <1>2 DEF procTypes
  <1>4. Times'
    BY <1>2 DEF procTypes, Times
  <1> QED  BY <1>3, <1>4

LEMMA WorksType ==
  ASSUME procTypes, Times, NEW p \in Pids, Works(p)
  PROVE  procTypes' /\ Times'
  <1>1. /\ cpu_time' = [cpu_time EXCEPT ![p] = cpu_time[p] + 1]
        /\ used' = [used EXCEPT ![p] = used[p] + 1]
        /\ cpu_time[p] < MaxTicks /\ UNCHANGED <<kind, fresh, changed>> /\ MaxTicks \in Nat
    BY TasksAssumption DEF Works
  <1>2. cpu_time[p] \in 0..MaxTicks /\ used[p] \in 0..MaxTicks /\ used[p] <= cpu_time[p]
    BY DEF procTypes, Times
  <1>3. procTypes'
    BY <1>1, <1>2 DEF procTypes
  <1>4. Times'
    BY <1>1, <1>2 DEF procTypes, Times
  <1> QED  BY <1>3, <1>4

LEMMA ExecsType ==
  ASSUME procTypes, Times, NEW p \in Pids, Execs(p)
  PROVE  procTypes' /\ Times'
  <1>1. PICK k \in Kinds : kind' = [kind EXCEPT ![p] = k]
    BY DEF Execs
  <1>2. UNCHANGED <<cpu_time, used, fresh>> /\ changed' = changed \cup {p}
    BY DEF Execs
  <1> QED  BY <1>1, <1>2 DEF procTypes, Times

LEMMA EndedType ==
  ASSUME procTypes, Times, NEW P \in SUBSET Pids, Ended(P)
  PROVE  procTypes' /\ Times'
  <1>1. MaxTicks \in Nat
    BY TasksAssumption
  <1>2. procTypes'
    BY <1>1 DEF procTypes, Ended
  <1>3. Times'
    BY <1>1 DEF procTypes, Ended, Times
  <1> QED  BY <1>2, <1>3

\* Every step keeps the types, the bounds of the arrays included.
LEMMA TypeStep == TypeOK /\ Times /\ [Next]_vars => TypeOK' /\ Times'
  <1> SUFFICES ASSUME TypeOK, Times, [Next]_vars PROVE TypeOK' /\ Times'
    OBVIOUS
  <1>0. procTypes /\ MaxTicks \in Nat
    BY TasksAssumption DEF TypeOK, procTypes
  <1>s. NoSignal \in [pid : Pids \cup {NoPid, Hidden}, root : BOOLEAN]
    BY DEF NoSignal
  <1>1. ASSUME ScanBegins, show_task_manager' \in BOOLEAN PROVE TypeOK' /\ Times'
    <2>1. UNCHANGED procVars /\ UNCHANGED <<scanned, ticks>> /\ scanning' \in BOOLEAN
      BY <1>1 DEF ScanBegins
    <2>2. current_hist' \in Tables /\ prev_hist' \in Tables /\ top_procs_cpu' \in [Listed -> Rows]
      BY <1>1, EmptyTypes DEF ScanBegins, TypeOK
    <2>3. todo' \subseteq Pids /\ delta_ms' \in Nat /\ delta_ms' \in Deltas
      BY <1>1, TasksAssumption DEF ScanBegins
    <2>4. signalled' \in [pid : Pids \cup {NoPid, Hidden}, root : BOOLEAN]
      BY <1>1, <1>s DEF ScanBegins
    <2>5. Times'
      BY <2>1 DEF Times, procVars
    <2> QED  BY <1>1, <2>1, <2>2, <2>3, <2>4, <2>5 DEF TypeOK, procVars
  <1>2. CASE ScanEnds
    <2>1. /\ UNCHANGED procVars /\ UNCHANGED <<show_task_manager, current_hist, todo, top_procs_cpu>>
          /\ ~scanning' /\ scanning' \in BOOLEAN /\ scanned' \in BOOLEAN
          /\ prev_hist' \in Tables /\ delta_ms' = 0
          /\ ticks' \in [Pids -> 0..MaxTicks \cup {NoTicks}]
          /\ signalled' \in [pid : Pids \cup {NoPid, Hidden}, root : BOOLEAN]
      BY <1>2, <1>s, EmptyTypes DEF ScanEnds
    <2>2. Times'
      BY <2>1 DEF Times, procVars
    <2> QED  BY <2>1, <2>2 DEF TypeOK, procVars
  <1>3. CASE Close
    <2>1. UNCHANGED <<procVars, scanVars, scanning>> /\ show_task_manager' \in BOOLEAN
          /\ signalled' \in [pid : Pids \cup {NoPid, Hidden}, root : BOOLEAN]
      BY <1>3, <1>s DEF Close, Button
    <2>2. Times'
      BY <2>1 DEF Times, procVars
    <2> QED  BY <2>1, <2>2 DEF TypeOK, procVars, scanVars
  <1>4. ASSUME NEW i \in Listed, NEW root \in BOOLEAN, Kill(i, root) \/ Signal(i, root)
        PROVE  TypeOK' /\ Times'
    <2>1. top_procs_cpu[i] \in Rows
      BY DEF TypeOK
    <2>2. /\ signalled' \in [pid : Pids \cup {NoPid, Hidden}, root : BOOLEAN]
          /\ UNCHANGED <<show_task_manager, scanning, current_hist, prev_hist, scanned, delta_ms,
                         todo, ticks>>
      BY <1>4, <2>1, RowFacts DEF Kill, Signal, Button, scanVars
    <2>3. CASE Kill(i, root)
      <3>1. top_procs_cpu' = [top_procs_cpu EXCEPT ![i] = [top_procs_cpu[i] EXCEPT !.pid = Hidden]]
        BY <2>3 DEF Kill
      <3>2. top_procs_cpu[i] # NoRow
        BY <2>3 DEF Kill, Drawn, NoRow, NoPid
      <3>3. [top_procs_cpu[i] EXCEPT !.pid = Hidden] \in Rows
        BY <2>1, <3>2 DEF Rows
      <3>4. top_procs_cpu' \in [Listed -> Rows]
        BY <3>1, <3>3 DEF TypeOK
      <3>5. Reached(top_procs_cpu[i].pid) \in SUBSET Pids
        BY DEF Reached, Alive
      <3>6. procTypes' /\ Times'
        BY <1>0, <2>3, <3>5, EndedType DEF Kill
      <3> QED  BY <2>2, <3>4, <3>6 DEF TypeOK, procTypes
    <2>4. CASE Signal(i, root)
      <3>1. UNCHANGED <<scanVars, procVars>>
        BY <2>4 DEF Signal
      <3>2. Times'
        BY <3>1 DEF Times, procVars
      <3> QED  BY <2>2, <3>1, <3>2 DEF TypeOK, scanVars, procVars
    <2> QED  BY <1>4, <2>3, <2>4
  <1>5. ASSUME NEW p \in Pids, Visit(p)
        PROVE  TypeOK' /\ Times'
    <2>1. /\ UNCHANGED <<show_task_manager, scanning, prev_hist, scanned, delta_ms, kind,
                         cpu_time>>
          /\ scanning /\ todo' \subseteq Pids
          /\ signalled' \in [pid : Pids \cup {NoPid, Hidden}, root : BOOLEAN]
      BY <1>5, <1>s DEF Visit, TypeOK
    <2>2. CASE p \in Alive
      <3>1. current_hist' \in Tables
        <4>1. current_hist' = InsertTime(current_hist, p)
          BY <1>5, <2>2 DEF Visit
        <4>2. current_hist \in Tables /\ cpu_time \in [Pids -> 0..MaxTicks]
          BY DEF TypeOK
        <4>3. InsertTime(current_hist, p) \in Tables
          BY <4>2, InsertKeeps
        <4> QED  BY <4>1, <4>3
      <3>2. /\ used' = [used EXCEPT ![p] = 0]
            /\ fresh' = fresh \ {p} /\ changed' = changed \ {p}
        BY <1>5, <2>2 DEF Visit
      <3>3. Times' /\ used' \in [Pids -> 0..MaxTicks] /\ fresh' \subseteq Pids
            /\ changed' \subseteq Pids
        BY <1>0, <2>1, <3>2 DEF Times, procTypes
      <3>4. CASE kind[p] \in Visible
        <4>1. /\ top_procs_cpu' = InsertRow(top_procs_cpu, Row(p))
              /\ ticks' = [ticks EXCEPT ![p] = DeltaTicks(p)]
          BY <1>5, <2>2, <3>4 DEF Visit
        <4>2. top_procs_cpu' \in [Listed -> Rows]
          BY <2>1, <3>4, <4>1, RowType, InsertRowKeeps DEF TypeOK, Inserted
        <4>3. ticks' \in [Pids -> 0..MaxTicks \cup {NoTicks}]
          BY <4>1, DeltaType DEF TypeOK
        <4> QED  BY <2>1, <3>1, <3>3, <4>2, <4>3 DEF TypeOK
      <3>5. CASE kind[p] \notin Visible
        <4>1. UNCHANGED <<top_procs_cpu, ticks>>
          BY <1>5, <2>2, <3>5 DEF Visit
        <4> QED  BY <2>1, <3>1, <3>3, <4>1 DEF TypeOK
      <3> QED  BY <3>4, <3>5
    <2>3. CASE p \notin Alive
      <3>1. UNCHANGED <<current_hist, used, fresh, changed, top_procs_cpu, ticks>>
        BY <1>5, <2>3 DEF Visit
      <3>2. Times'
        BY <2>1, <3>1 DEF Times
      <3> QED  BY <2>1, <3>1, <3>2 DEF TypeOK
    <2> QED  BY <2>2, <2>3
  <1>6. ASSUME NEW p \in Pids, Starts(p) \/ Execs(p) \/ Works(p) \/ Ends(p)
        PROVE  TypeOK' /\ Times'
    <2>1. /\ UNCHANGED <<show_task_manager, scanning, scanVars>>
          /\ signalled' \in [pid : Pids \cup {NoPid, Hidden}, root : BOOLEAN]
      BY <1>6, <1>s DEF Starts, Execs, Works, Ends
    <2>2. procTypes' /\ Times'
      BY <1>0, <1>6, StartsType, ExecsType, WorksType, EndedType DEF Ends
    <2> QED  BY <2>1, <2>2 DEF TypeOK, procTypes, scanVars
  <1>7. CASE UNCHANGED vars
    BY <1>7 DEF vars, scanVars, procVars, TypeOK, Times
  <1>8. ASSUME ScanFails, show_task_manager' \in BOOLEAN PROVE TypeOK' /\ Times'
    <2>1. UNCHANGED <<scanning, scanVars, procVars>>
          /\ signalled' \in [pid : Pids \cup {NoPid, Hidden}, root : BOOLEAN]
      BY <1>8, <1>s DEF ScanFails
    <2>2. Times'
      BY <2>1 DEF Times, procVars
    <2> QED  BY <1>8, <2>1, <2>2 DEF TypeOK, procVars, scanVars
  <1>9. ASSUME Refresh \/ Open PROVE TypeOK' /\ Times'
    BY <1>1, <1>8, <1>9 DEF Refresh, Open, TypeOK
  <1> QED  BY <1>2, <1>3, <1>4, <1>5, <1>6, <1>7, <1>9 DEF Next, Window

\* For any number of processes, size of the table and length of the list, nothing is
\* written outside of the table or the list, and what is shown stays in its range.
THEOREM TypeCorrect == Spec => []TypeOK
  BY InitType, TypeStep, PTL DEF Spec

LEMMA TimesHold == Spec => [](TypeOK /\ Times)
  BY InitType, TypeStep, PTL DEF Spec

-----------------------------------------------------------------------------
(* The busiest.                                                            *)

\* Nothing is to be visited, nor remembered of a scan, unless one runs.
Phases ==
    /\ ~scanning => todo = {} /\ \A p \in Pids : ticks[p] = NoTicks
    /\ \A p \in todo : ticks[p] = NoTicks

\* The rows that a scan has filled so far belong to the processes it has visited.
ListInv ==
    /\ Phases
    /\ ListsBusiest
    /\ scanning => \A i \in Listed :
          /\ top_procs_cpu[i].pid # Hidden
          /\ top_procs_cpu[i] # NoRow => ticks[top_procs_cpu[i].pid] # NoTicks

LEMMA ListInit == Init => ListInv
  <1> SUFFICES ASSUME Init PROVE ListInv
    OBVIOUS
  <1>1. top_procs_cpu = [i \in Listed |-> NoRow] /\ ~scanning /\ todo = {}
        /\ ticks = [p \in Pids |-> NoTicks]
    BY DEF Init
  <1>2. NoRow.cpu = NoTicks /\ NoTicks \in Int
    BY DEF NoRow, NoTicks
  <1> QED  BY <1>1, <1>2 DEF ListInv, Phases, ListsBusiest

\* A visible process that runs gets its row, and whoever that pushes out is not busier
\* than those who stay.
LEMMA ListVisit ==
  ASSUME TypeOK, ListInv, NEW p \in Pids, Visit(p), p \in Alive, kind[p] \in Visible
  PROVE  /\ ListsBusiest'
         /\ \A i \in Listed :
              /\ top_procs_cpu'[i].pid # Hidden
              /\ top_procs_cpu'[i] # NoRow => ticks'[top_procs_cpu'[i].pid] # NoTicks
  <1> DEFINE old == top_procs_cpu
             now == top_procs_cpu'
             row == Row(p)
             pc(t) == Percent(t, delta_ms)
  <1>1. /\ scanning /\ scanning' = scanning /\ p \in todo /\ delta_ms' = delta_ms
        /\ now = InsertRow(old, row)
        /\ ticks' = [ticks EXCEPT ![p] = DeltaTicks(p)]
    BY DEF Visit, NextVisit
  <1>2. /\ old \in [Listed -> Rows] /\ row \in Rows /\ row # NoRow
        /\ TopProcs \in Nat \ {0} /\ TopProcs \in Listed /\ Listed = 1..TopProcs
        /\ ticks \in [Pids -> 0..MaxTicks \cup {NoTicks}]
    BY <1>1, RowType, TasksAssumption DEF TypeOK, Listed
  <1>3. /\ row.pid = p /\ row.cpu = pc(DeltaTicks(p)) /\ p # NoPid /\ p # Hidden
        /\ DeltaTicks(p) \in 0..MaxTicks /\ MaxTicks \in Nat
    BY DeltaType, TasksAssumption DEF Row, NoPid, Hidden
  <1>p. \A t \in Nat : pc(t) \in Nat
    BY <1>1, PercentType DEF TypeOK
  <1>4. ticks'[p] = DeltaTicks(p) /\ \A q \in Pids \ {p} : ticks'[q] = ticks[q]
    BY <1>1, <1>2
  <1>5. Descending(old)
    BY DEF ListInv, ListsBusiest, Descending
  <1>6. ASSUME NEW i \in Listed, old[i] # NoRow
        PROVE  /\ old[i].pid \in Pids \ {p} /\ old[i].cpu = pc(ticks[old[i].pid])
               /\ ticks[old[i].pid] # NoTicks
               /\ \A j \in Listed \ {i} : old[j].pid # old[i].pid
    <2>1. old[i] \in Rows
      BY <1>2
    <2>2. old[i].pid \in Pids /\ ticks[old[i].pid] # NoTicks
      BY <1>1, <1>6, <2>1, RowFacts DEF ListInv
    <2>3. /\ old[i].cpu = pc(ticks[old[i].pid])
          /\ \A j \in Listed \ {i} : old[j].pid # old[i].pid
      BY <1>1, <1>6 DEF ListInv, ListsBusiest
    <2>4. ticks[p] = NoTicks
      BY <1>1 DEF ListInv, Phases
    <2>5. old[i].pid # p
      BY <2>2, <2>4
    <2> QED  BY <2>2, <2>3, <2>5
  <1>7. /\ \A i \in Listed : old[i] = NoRow => old[i].pid = NoPid /\ old[i].cpu = NoTicks
        /\ \A i \in Listed : old[i].cpu \in Int
    BY <1>2, RowFacts
  <1> HIDE DEF old, now, row, pc
  <1>0. Inserted(old, row, now)
    BY <1>1, <1>2, InsertRowKeeps
  <1>8. /\ now \in [Listed -> Rows] /\ Descending(now) /\ old[TopProcs].cpu <= now[TopProcs].cpu
        /\ (\E i \in Listed : now[i] = row) \/ row.cpu <= now[TopProcs].cpu
        /\ \A i \in Listed : \/ \E j \in Listed : now[j] = old[i]
                             \/ old[i].cpu <= now[TopProcs].cpu
    BY <1>0, <1>5, Zenon DEF Inserted
  <1>9. \/ \A i \in Listed : now[i] = old[i]
        \/ \E k \in Listed : \A i \in Listed :
                     /\ i < k => now[i] = old[i]
                     /\ i = k => now[i] = row
                     /\ i > k => i - 1 \in Listed /\ now[i] = old[i - 1]
    BY <1>0, Zenon DEF Inserted
  <1>10. \A i \in Listed : now[i] = row \/ \E j \in Listed : now[i] = old[j]
    BY <1>2, <1>9
  <1>11. ASSUME NEW i \in Listed PROVE now[i].pid # Hidden
    <2>1. CASE now[i] = row
      BY <1>3, <2>1
    <2>2. ASSUME NEW j \in Listed, now[i] = old[j] PROVE now[i].pid # Hidden
      <3>1. Hidden \notin Pids \cup {NoPid}
        BY TasksAssumption DEF Hidden, NoPid
      <3> QED  BY <1>6, <1>7, <2>2, <3>1
    <2> QED  BY <1>10, <2>1, <2>2
  <1>12. ASSUME NEW i \in Listed, now[i] # NoRow
         PROVE  now[i].cpu = pc(ticks'[now[i].pid]) /\ ticks'[now[i].pid] # NoTicks
    <2>1. CASE now[i] = row
      <3>1. DeltaTicks(p) # NoTicks
        BY <1>3 DEF NoTicks
      <3> QED  BY <1>3, <1>4, <2>1, <3>1
    <2>2. ASSUME NEW j \in Listed, now[i] = old[j]
          PROVE  now[i].cpu = pc(ticks'[now[i].pid]) /\ ticks'[now[i].pid] # NoTicks
      BY <1>4, <1>6, <1>12, <2>2
    <2> QED  BY <1>10, <2>1, <2>2
  <1>13. ASSUME NEW i \in Listed, NEW j \in Listed, i # j, now[i] # NoRow
         PROVE  now[j].pid # now[i].pid
    <2>1. CASE \A m \in Listed : now[m] = old[m]
      BY <1>6, <1>13, <2>1
    <2>2. CASE \E k \in Listed : \A m \in Listed :
                     /\ m < k => now[m] = old[m]
                     /\ m = k => now[m] = row
                     /\ m > k => m - 1 \in Listed /\ now[m] = old[m - 1]
      <3>1. PICK k \in Listed : \A m \in Listed :
                     /\ m < k => now[m] = old[m]
                     /\ m = k => now[m] = row
                     /\ m > k => m - 1 \in Listed /\ now[m] = old[m - 1]
        BY <2>2
      <3> DEFINE src(m) == IF m < k THEN m ELSE m - 1
      <3>2. \A m \in Listed \ {k} : src(m) \in Listed /\ now[m] = old[src(m)]
        BY <1>2, <3>1
      <3>3. i # k /\ j # k => src(i) # src(j)
        BY <1>2, <1>13
      <3> HIDE DEF src
      <3>4. CASE i # k /\ j # k
        BY <1>6, <1>13, <3>2, <3>3, <3>4
      <3>5. CASE i = k
        <4>1. now[i] = row /\ now[j] = old[src(j)] /\ src(j) \in Listed
          BY <1>13, <3>1, <3>2, <3>5
        <4> QED  BY <1>3, <1>6, <1>7, <4>1
      <3>6. CASE j = k /\ i # k
        <4>1. now[j] = row /\ now[i] = old[src(i)] /\ src(i) \in Listed
          BY <1>13, <3>1, <3>2, <3>6
        <4> QED  BY <1>3, <1>6, <1>13, <4>1
      <3> QED  BY <3>4, <3>5, <3>6
    <2> QED  BY <1>9, <2>1, <2>2
  <1>14. ASSUME NEW q \in Pids
         PROVE  \/ ticks'[q] = NoTicks
                \/ pc(ticks'[q]) <= now[TopProcs].cpu
                \/ \E i \in Listed : now[i].pid = q
    <2>1. CASE q = p
      BY <1>3, <1>4, <1>8, <2>1
    <2>2. CASE q # p /\ ticks[q] = NoTicks
      BY <1>4, <2>2
    <2>3. CASE q # p /\ ticks[q] # NoTicks
      <3>0. now[TopProcs] \in Rows
        BY <1>2, <1>8
      <3>5. now[TopProcs].cpu \in Int
        BY <3>0, RowFacts
      <3>6. ticks[q] \in Nat /\ ticks'[q] = ticks[q]
        BY <1>2, <1>3, <1>4, <2>3
      <3>1. pc(ticks[q]) \in Int /\ pc(ticks'[q]) = pc(ticks[q])
        BY <1>p, <3>6
      <3>2. CASE pc(ticks[q]) <= old[TopProcs].cpu
        <4>1. old[TopProcs].cpu <= now[TopProcs].cpu /\ old[TopProcs].cpu \in Int
          BY <1>2, <1>7, <1>8
        <4> QED  BY <3>1, <3>2, <3>5, <4>1
      <3>3. ASSUME NEW i \in Listed, old[i].pid = q
            PROVE  pc(ticks'[q]) <= now[TopProcs].cpu \/ \E j \in Listed : now[j].pid = q
        <4>1. old[i] # NoRow
          BY <1>7, <3>3, TasksAssumption DEF NoPid
        <4>2. old[i].cpu = pc(ticks[q])
          BY <1>6, <3>3, <4>1
        <4> QED  BY <1>8, <3>1, <3>3, <4>2
      <3>4. pc(ticks[q]) <= old[TopProcs].cpu \/ \E i \in Listed : old[i].pid = q
        BY <1>1, <2>3 DEF ListInv, ListsBusiest, old, pc
      <3> QED  BY <3>2, <3>3, <3>4
    <2> QED  BY <2>1, <2>2, <2>3
  <1>15. ListsBusiest'
    <2>1. \A i, j \in Listed : i < j => now[i].cpu >= now[j].cpu
      BY <1>8 DEF Descending
    <2>2. \A i \in Listed : now[i] # NoRow =>
             /\ now[i].cpu = pc(ticks'[now[i].pid])
             /\ \A j \in Listed \ {i} : now[j].pid # now[i].pid
      BY <1>12, <1>13
    <2> QED  BY <1>1, <1>14, <2>1, <2>2 DEF ListsBusiest, now, pc
  <1> QED  BY <1>11, <1>12, <1>15 DEF now

LEMMA ListStep == TypeOK /\ ListInv /\ [Next]_vars => ListInv'
  <1> SUFFICES ASSUME TypeOK, ListInv, [Next]_vars PROVE ListInv'
    OBVIOUS
  <1>0. \A i \in Listed : top_procs_cpu[i] \in Rows
    BY DEF TypeOK
  <1>1. CASE ScanBegins
    <2>1. /\ ~scanning /\ scanning' /\ UNCHANGED ticks
          /\ top_procs_cpu' = [i \in Listed |-> NoRow] /\ todo' \subseteq Pids
      BY <1>1 DEF ScanBegins
    <2>2. \A p \in Pids : ticks'[p] = NoTicks
      BY <2>1 DEF ListInv, Phases
    <2>3. \A i \in Listed : top_procs_cpu'[i] = NoRow
      BY <2>1
    <2>4. NoRow.cpu = NoTicks /\ NoTicks \in Int /\ NoRow.pid # Hidden /\ TopProcs \in Listed
      BY TasksAssumption DEF NoRow, NoTicks, NoPid, Hidden, Listed
    <2>5. ListsBusiest'
      BY <2>2, <2>3, <2>4 DEF ListsBusiest
    <2> QED  BY <2>1, <2>2, <2>3, <2>4, <2>5 DEF ListInv, Phases
  <1>2. CASE ScanEnds
    <2>1. /\ ~scanning' /\ todo' = {} /\ ticks' = [p \in Pids |-> NoTicks] /\ UNCHANGED top_procs_cpu
      BY <1>2 DEF ScanEnds
    <2> QED  BY <2>1 DEF ListInv, Phases, ListsBusiest
  <1>3. ASSUME NEW i \in Listed, NEW root \in BOOLEAN, Kill(i, root)
        PROVE  ListInv'
    <2>1. /\ ~scanning /\ UNCHANGED <<scanning, todo, ticks>>
          /\ top_procs_cpu' = [top_procs_cpu EXCEPT ![i] = [top_procs_cpu[i] EXCEPT !.pid = Hidden]]
      BY <1>3 DEF Kill, Button
    <2>2. [top_procs_cpu[i] EXCEPT !.pid = Hidden].cpu = top_procs_cpu[i].cpu
      BY <1>0 DEF Rows, NoRow
    <2>3. \A j \in Listed : top_procs_cpu'[j].cpu = top_procs_cpu[j].cpu
      BY <2>1, <2>2 DEF TypeOK
    <2> QED  BY <2>1, <2>3 DEF ListInv, Phases, ListsBusiest
  <1>4. ASSUME NEW p \in Pids, Visit(p) PROVE ListInv'
    <2>1. scanning /\ scanning' /\ todo' = todo \ {p} /\ delta_ms' = delta_ms
      BY <1>4 DEF Visit
    <2>2. CASE p \in Alive /\ kind[p] \in Visible
      <3>1. ticks' = [ticks EXCEPT ![p] = DeltaTicks(p)]
        BY <1>4, <2>2 DEF Visit
      <3>2. \A q \in todo' : ticks'[q] = NoTicks
        BY <2>1, <3>1 DEF ListInv, Phases, TypeOK
      <3> QED  BY <1>4, <2>1, <2>2, <3>2, ListVisit DEF ListInv, Phases
    <2>3. CASE ~(p \in Alive /\ kind[p] \in Visible)
      <3>1. UNCHANGED <<top_procs_cpu, ticks>>
        BY <1>4, <2>3 DEF Visit
      <3> QED  BY <2>1, <3>1 DEF ListInv, Phases, ListsBusiest
    <2> QED  BY <2>2, <2>3
  <1>5. ASSUME UNCHANGED <<scanning, delta_ms, todo, ticks, top_procs_cpu>> PROVE ListInv'
    BY <1>5 DEF ListInv, Phases, ListsBusiest
  <1>6. CASE Close
    BY <1>5, <1>6 DEF Close, Button, scanVars
  <1>7. ASSUME NEW i \in Listed, NEW root \in BOOLEAN, Signal(i, root)
        PROVE  ListInv'
    BY <1>5, <1>7 DEF Signal, Button, scanVars
  <1>8. ASSUME NEW p \in Pids, Starts(p) \/ Execs(p) \/ Works(p) \/ Ends(p)
        PROVE  ListInv'
    BY <1>5, <1>8 DEF Starts, Execs, Works, Ends, scanVars
  <1>9. CASE UNCHANGED vars
    BY <1>5, <1>9 DEF vars, scanVars
  <1>10. CASE ScanFails
    BY <1>5, <1>10 DEF ScanFails, scanVars
  <1> QED
    BY <1>1, <1>2, <1>3, <1>4, <1>6, <1>7, <1>8, <1>9, <1>10 DEF Next, Window, Refresh, Open

LEMMA ListHolds == Spec => []ListInv
  BY ListInit, ListStep, TypeCorrect, PTL DEF Spec

\* For any number of processes and rows: while a scan goes on, with processes that start
\* and end meanwhile, the list has the busiest of those visited, each once and in order.
THEOREM BusiestListed == Spec => []ListsBusiest
  <1>1. ListInv => ListsBusiest
    BY DEF ListInv
  <1> QED  BY <1>1, ListHolds, PTL

-----------------------------------------------------------------------------
(* The accounts.                                                           *)

\* The table knows the time at which p was last visited, or had no room for it.
Accounted(hist, p) ==
    \/ \E s \in Slots : hist[s].pid = p /\ hist[s].cpu_time + used[p] = cpu_time[p]
    \/ Full(hist) /\ ~InTable(hist, p)

\* The entries can be found; a process that was visited before, and is the same one, is
\* accounted for in the table of that visit: the old one until the scan comes to it.
Books ==
    /\ Placed(current_hist) /\ Distinct(current_hist)
    /\ Placed(prev_hist) /\ Distinct(prev_hist)
    /\ \A p \in todo : ~InTable(current_hist, p)
    /\ \A p \in (Alive \ fresh) \cap todo : scanned => Accounted(prev_hist, p)
    /\ \A p \in (Alive \ fresh) \ todo : scanning \/ scanned => Accounted(current_hist, p)

LEMMA EmptySound == /\ Placed(EmptyHist) /\ Distinct(EmptyHist)
                    /\ \A p \in Pids : ~InTable(EmptyHist, p)
  <1>1. \A p \in Pids : p # NoPid
    BY TasksAssumption DEF NoPid
  <1> QED  BY <1>1, EmptyTypes DEF Placed, Distinct, InTable

LEMMA BooksInit == Init => Books
  BY EmptySound DEF Init, Books

\* Steps that leave the tables alone, and the ids that are to be visited.
LEMMA BooksProcesses ==
  ASSUME TypeOK, Books, UNCHANGED <<scanning, current_hist, prev_hist, scanned, todo>>,
         \A p \in (Alive \ fresh)' :
            /\ p \in Alive \ fresh
            /\ \/ used'[p] = used[p] /\ cpu_time'[p] = cpu_time[p]
               \/ used'[p] = used[p] + 1 /\ cpu_time'[p] = cpu_time[p] + 1
  PROVE  Books'
  <1>1. ASSUME NEW hist \in Tables, NEW p \in (Alive \ fresh)', Accounted(hist, p),
               NEW now, now = hist
        PROVE  \/ \E s \in Slots : now[s].pid = p /\ now[s].cpu_time + used'[p] = cpu_time'[p]
               \/ Full(now) /\ ~InTable(now, p)
    <2>1. CASE Full(hist) /\ ~InTable(hist, p)
      BY <1>1, <2>1
    <2>2. ASSUME NEW s \in Slots, hist[s].pid = p, hist[s].cpu_time + used[p] = cpu_time[p]
          PROVE  now[s].pid = p /\ now[s].cpu_time + used'[p] = cpu_time'[p]
      <3>1. p \in Pids /\ used[p] \in Int /\ cpu_time[p] \in Int /\ hist[s].cpu_time \in Int
        BY <1>1, TasksAssumption DEF TypeOK, Tables, Alive
      <3> QED  BY <1>1, <2>2, <3>1
    <2> QED  BY <1>1, <2>1, <2>2 DEF Accounted
  <1>2. current_hist \in Tables /\ prev_hist \in Tables
    BY DEF TypeOK
  <1>3. ASSUME NEW p \in (Alive \ fresh)', Accounted(current_hist, p)
        PROVE  Accounted(current_hist, p)'
    BY <1>1, <1>2, <1>3 DEF Accounted
  <1>4. ASSUME NEW p \in (Alive \ fresh)', Accounted(prev_hist, p)
        PROVE  Accounted(prev_hist, p)'
    BY <1>1, <1>2, <1>4 DEF Accounted
  <1>5. \A p \in ((Alive \ fresh) \cap todo)' : scanned' => Accounted(prev_hist, p)'
    BY <1>4 DEF Books
  <1>6. \A p \in ((Alive \ fresh) \ todo)' : scanning' \/ scanned' => Accounted(current_hist, p)'
    BY <1>3 DEF Books
  <1>7. /\ Placed(current_hist)' /\ Distinct(current_hist)'
        /\ Placed(prev_hist)' /\ Distinct(prev_hist)'
        /\ \A p \in todo' : ~InTable(current_hist, p)'
    BY DEF Books
  <1> QED  BY <1>5, <1>6, <1>7 DEF Books

\* The process that is visited gets its entry, if there is room, and nobody loses one.
LEMMA BooksVisit ==
  ASSUME TypeOK, Books, NEW p \in Pids, Visit(p)
  PROVE  Books'
  <1>1. /\ p \in todo /\ todo' = todo \ {p} /\ scanning /\ scanning'
        /\ UNCHANGED <<prev_hist, scanned, kind, cpu_time>>
    BY DEF Visit, NextVisit
  <1>2. CASE p \notin Alive
    <2>1. UNCHANGED <<current_hist, used, fresh>> /\ Alive' = Alive
      BY <1>1, <1>2 DEF Visit, Alive
    <2>2. \A q : Accounted(prev_hist, q)' = Accounted(prev_hist, q)
                 /\ Accounted(current_hist, q)' = Accounted(current_hist, q)
      BY <1>1, <2>1 DEF Accounted
    <2>3. /\ Placed(current_hist)' /\ Distinct(current_hist)'
          /\ Placed(prev_hist)' /\ Distinct(prev_hist)'
          /\ \A q \in todo' : ~InTable(current_hist, q)'
      BY <1>1, <2>1 DEF Books
    <2>4. \A q \in ((Alive \ fresh) \cap todo)' : scanned' => Accounted(prev_hist, q)'
      BY <1>1, <2>1, <2>2 DEF Books
    <2>5. \A q \in ((Alive \ fresh) \ todo)' : Accounted(current_hist, q)'
      BY <1>1, <1>2, <2>1, <2>2 DEF Books
    <2> QED  BY <2>3, <2>4, <2>5 DEF Books
  <1>3. CASE p \in Alive
    <2> DEFINE hist == current_hist
               new == current_hist'
    <2>1. /\ new = InsertTime(hist, p) /\ used' = [used EXCEPT ![p] = 0] /\ fresh' = fresh \ {p}
          /\ Alive' = Alive
      BY <1>1, <1>3 DEF Visit, Alive
    <2>2. /\ hist \in Tables /\ cpu_time \in [Pids -> 0..MaxTicks]
          /\ Placed(hist) /\ Distinct(hist) /\ ~InTable(hist, p)
      BY <1>1 DEF TypeOK, Books
    <2> HIDE DEF hist, new
    <2>3. /\ new \in Tables
          /\ \A s \in Slots : hist[s].pid # NoPid => new[s] = hist[s]
          /\ \A s \in Slots : new[s].pid \in {hist[s].pid, p}
          /\ \/ \E s \in Slots : new[s] = [pid |-> p, cpu_time |-> cpu_time[p]]
             \/ Full(hist) /\ new = hist
          /\ Placed(hist) => Placed(new)
          /\ Distinct(hist) /\ ~InTable(hist, p) => Distinct(new)
      BY <2>1, <2>2, InsertKeeps
    <2>4. \A q \in Pids \ {p} : used'[q] = used[q]
      BY <2>1 DEF TypeOK
    <2>5. used'[p] = 0 /\ cpu_time[p] \in Int
      BY <2>1, <2>2 DEF TypeOK
    <2>6. ASSUME NEW q \in Pids \ {p}, Accounted(hist, q)
          PROVE  \/ \E s \in Slots : new[s].pid = q /\ new[s].cpu_time + used'[q] = cpu_time'[q]
                 \/ Full(new) /\ ~InTable(new, q)
      <3>0. q # NoPid
        BY TasksAssumption DEF NoPid
      <3>1. CASE \E s \in Slots : hist[s].pid = q /\ hist[s].cpu_time + used[q] = cpu_time[q]
        BY <1>1, <2>3, <2>4, <3>0, <3>1
      <3>2. CASE Full(hist) /\ ~InTable(hist, q)
        <4>1. \A s \in Slots : new[s] = hist[s]
          BY <2>3, <3>2 DEF Full
        <4> QED  BY <3>2, <4>1 DEF Full, InTable
      <3> QED  BY <2>6, <3>1, <3>2 DEF Accounted
    <2>7. \/ \E s \in Slots : new[s].pid = p /\ new[s].cpu_time + used'[p] = cpu_time'[p]
          \/ Full(new) /\ ~InTable(new, p)
      <3>1. CASE \E s \in Slots : new[s] = [pid |-> p, cpu_time |-> cpu_time[p]]
        BY <1>1, <2>5, <3>1
      <3>2. CASE Full(hist) /\ new = hist
        BY <2>2, <3>2
      <3> QED  BY <2>3, <3>1, <3>2
    <2>8. \A q \in ((Alive \ fresh) \ todo)' : Accounted(current_hist, q)'
      <3>1. \A q \in Pids : q \in ((Alive \ fresh) \ todo)' /\ q # p
                 => Accounted(hist, q)
        BY <1>1, <2>1 DEF Books, hist
      <3> QED  BY <2>6, <2>7, <3>1 DEF Accounted, Alive, new
    <2>9. \A q \in ((Alive \ fresh) \cap todo)' : scanned' => Accounted(prev_hist, q)'
      <3>1. \A q \in ((Alive \ fresh) \cap todo)' :
               q \in Pids \ {p} /\ (scanned => Accounted(prev_hist, q))
        BY <1>1, <2>1 DEF Books, Alive
      <3> QED  BY <1>1, <2>4, <3>1 DEF Accounted
    <2>10. \A q \in todo' : ~InTable(new, q)
      BY <1>1, <2>3 DEF Books, InTable, hist
    <2>11. Placed(new) /\ Distinct(new) /\ Placed(prev_hist)' /\ Distinct(prev_hist)'
      BY <1>1, <2>2, <2>3 DEF Books
    <2> QED  BY <2>8, <2>9, <2>10, <2>11 DEF Books, new
  <1> QED  BY <1>2, <1>3

LEMMA BooksStep == TypeOK /\ Phases /\ Books /\ [Next]_vars => Books'
  <1> SUFFICES ASSUME TypeOK, Phases, Books, [Next]_vars PROVE Books'
    OBVIOUS
  <1>1. CASE ScanBegins
    <2>1. /\ ~scanning /\ prev_hist' = current_hist /\ current_hist' = EmptyHist
          /\ UNCHANGED <<scanned, kind, cpu_time, used, fresh>>
          /\ todo' \subseteq Pids /\ Alive \subseteq todo'
      BY <1>1 DEF ScanBegins, procVars
    <2>2. Alive' = Alive /\ todo = {}
      BY <2>1 DEF Alive, Phases
    <2>3. \A p : Accounted(prev_hist, p)' = Accounted(current_hist, p)
      BY <2>1 DEF Accounted
    <2>4. \A p \in ((Alive \ fresh) \cap todo)' : scanned' => Accounted(prev_hist, p)'
      BY <2>1, <2>2, <2>3 DEF Books
    <2>5. ((Alive \ fresh) \ todo)' = {}
      BY <2>1, <2>2
    <2>6. /\ Placed(current_hist)' /\ Distinct(current_hist)'
          /\ Placed(prev_hist)' /\ Distinct(prev_hist)'
          /\ \A p \in todo' : ~InTable(current_hist, p)'
      BY <2>1, EmptySound DEF Books
    <2> QED  BY <2>4, <2>5, <2>6 DEF Books
  <1>2. CASE ScanEnds
    <2>1. /\ scanning /\ todo = {} /\ todo' = {} /\ prev_hist' = EmptyHist
          /\ UNCHANGED <<current_hist, kind, cpu_time, used, fresh>>
      BY <1>2 DEF ScanEnds, procVars
    <2>2. Alive' = Alive
      BY <2>1 DEF Alive
    <2>3. \A p : Accounted(current_hist, p)' = Accounted(current_hist, p)
      BY <2>1 DEF Accounted
    <2>4. \A p \in ((Alive \ fresh) \ todo)' : Accounted(current_hist, p)'
      BY <2>1, <2>2, <2>3 DEF Books
    <2>5. /\ Placed(current_hist)' /\ Distinct(current_hist)'
          /\ Placed(prev_hist)' /\ Distinct(prev_hist)'
      BY <2>1, EmptySound DEF Books
    <2> QED  BY <2>1, <2>4, <2>5 DEF Books
  <1>3. ASSUME NEW P \in SUBSET Pids, Ended(P),
               UNCHANGED <<scanning, current_hist, prev_hist, scanned, todo>>
        PROVE  Books'
    <2>1. \A p \in (Alive \ fresh)' : p \notin P /\ p \in Alive \ fresh
                                     /\ used'[p] = used[p] /\ cpu_time'[p] = cpu_time[p]
      BY <1>3 DEF Ended, Alive, TypeOK
    <2> QED  BY <1>3, <2>1, BooksProcesses
  <1>4. ASSUME NEW p \in Pids, Starts(p) PROVE Books'
    <2>1. PICK k \in Kinds : kind' = [kind EXCEPT ![p] = k]
      BY <1>4 DEF Starts
    <2>2. \A q \in (Alive \ fresh)' : q # p /\ q \in Alive \ fresh
                                     /\ used'[q] = used[q] /\ cpu_time'[q] = cpu_time[q]
      BY <1>4, <2>1 DEF Starts, Alive, TypeOK
    <2> QED  BY <1>4, <2>2, BooksProcesses DEF Starts, scanVars
  <1>5. ASSUME NEW p \in Pids, Works(p) PROVE Books'
    <2>1. Alive' = Alive /\ fresh' = fresh
      BY <1>5 DEF Works, Alive
    <2>2. \A q \in Pids : \/ used'[q] = used[q] /\ cpu_time'[q] = cpu_time[q]
                          \/ used'[q] = used[q] + 1 /\ cpu_time'[q] = cpu_time[q] + 1
      BY <1>5 DEF Works, TypeOK
    <2>3. \A q \in Alive : q \in Pids
      BY DEF Alive
    <2> QED  BY <1>5, <2>1, <2>2, <2>3, BooksProcesses DEF Works, scanVars
  <1>6. ASSUME NEW p \in Pids, Ends(p) PROVE Books'
    BY <1>3, <1>6 DEF Ends, scanVars
  <1>7. ASSUME NEW i \in Listed, NEW root \in BOOLEAN, Kill(i, root)
        PROVE  Books'
    <2>1. Reached(top_procs_cpu[i].pid) \in SUBSET Pids
      BY DEF Reached, Alive
    <2> QED  BY <1>3, <1>7, <2>1 DEF Kill, Button
  <1>8. ASSUME UNCHANGED <<scanning, current_hist, prev_hist, scanned, todo, kind, cpu_time,
                           used, fresh>>
        PROVE  Books'
    <2>1. Alive' = Alive
      BY <1>8 DEF Alive
    <2> QED  BY <1>8, <2>1, BooksProcesses
  <1>9. ASSUME NEW i \in Listed, NEW root \in BOOLEAN, Signal(i, root)
        PROVE  Books'
    BY <1>8, <1>9 DEF Signal, Button, scanVars, procVars
  <1>10. CASE Close
    BY <1>8, <1>10 DEF Close, Button, scanVars, procVars
  <1>11. CASE UNCHANGED vars
    BY <1>8, <1>11 DEF vars, scanVars, procVars
  <1>12. ASSUME NEW p \in Pids, Visit(p) PROVE Books'
    BY <1>12, BooksVisit
  <1>13. CASE ScanFails
    BY <1>8, <1>13 DEF ScanFails, scanVars, procVars
  <1>14. ASSUME NEW p \in Pids, Execs(p) PROVE Books'
    <2>1. Alive' = Alive
      BY <1>14 DEF Execs, Alive, TypeOK, Kinds, NoProc
    <2> QED  BY <1>14, <2>1, BooksProcesses DEF Execs, scanVars
  <1> QED
    BY <1>1, <1>2, <1>4, <1>5, <1>6, <1>7, <1>9, <1>10, <1>11, <1>12, <1>13, <1>14
    DEF Next, Window, Refresh, Open

LEMMA BooksHold == Spec => []Books
  <1>1. ListInv => Phases
    BY DEF ListInv
  <1> QED  BY <1>1, BooksInit, BooksStep, TypeCorrect, ListHolds, PTL DEF Spec

\* What a visit computes, from the table that accounts for the process.
LEMMA VisitExact ==
  ASSUME TypeOK, Times, Phases, Books, NEW p \in Pids, Visit(p), scanned, ticks'[p] # NoTicks,
         ~NoRoomFor(p)
  PROVE  ticks'[p] = used[p] \/ (p \in fresh /\ InTable(prev_hist, p))
  <1>1. p \in todo /\ ticks[p] = NoTicks
    BY DEF Visit, NextVisit, Phases
  <1>2. p \in Alive /\ kind[p] \in Visible
    BY <1>1 DEF Visit
  <1>3. ticks'[p] = DeltaTicks(p)
    BY <1>2 DEF Visit, TypeOK
  <1>4. /\ prev_hist \in Tables /\ Placed(prev_hist) /\ Distinct(prev_hist)
        /\ cpu_time[p] \in 0..MaxTicks /\ used[p] \in 0..MaxTicks /\ MaxTicks \in Nat
    BY TasksAssumption DEF TypeOK, Books
  <1>5. ASSUME ~InTable(prev_hist, p) PROVE ticks'[p] = cpu_time[p]
    <2>1. FindTime(prev_hist, p) = 0
      BY <1>4, <1>5, FindNot
    <2> QED  BY <1>3, <1>4, <2>1 DEF DeltaTicks
  <1>6. CASE p \in fresh
    <2>1. used[p] = cpu_time[p]
      BY <1>6 DEF Times
    <2> QED  BY <1>5, <1>6, <2>1
  <1>7. CASE p \notin fresh
    <2>1. Accounted(prev_hist, p)
      BY <1>1, <1>2, <1>7 DEF Books
    <2>2. ASSUME NEW s \in Slots, prev_hist[s].pid = p,
                 prev_hist[s].cpu_time + used[p] = cpu_time[p]
          PROVE  ticks'[p] = used[p]
      <3>1. FindTime(prev_hist, p) = prev_hist[s].cpu_time
        BY <1>4, <2>2, FindThere
      <3>2. prev_hist[s].cpu_time \in 0..MaxTicks
        BY <1>4 DEF Tables
      <3> QED  BY <1>3, <1>4, <2>2, <3>1, <3>2 DEF DeltaTicks
    <2> QED  BY <2>1, <2>2 DEF Accounted, NoRoomFor
  <1> QED  BY <1>6, <1>7

\* For any ids and any size of the table, with collisions, wrapping and a full table: the
\* ticks of a process that had room are those since its last visit, unless its id was
\* reused.
THEOREM ExactTicks == Spec => TicksExact
  <1> DEFINE Exact(p) ==
                Computes(p) /\ ~NoRoomFor(p)
                  => ticks'[p] = used[p] \/ (p \in fresh /\ InTable(prev_hist, p))
  <1>1. ASSUME TypeOK, Times, ListInv, Books, [Next]_vars
        PROVE  [\A p \in Pids : Exact(p)]_vars
    <2>0. \A p \in Pids : p \notin todo \ todo' => Exact(p)
      BY DEF Computes
    <2>1. Phases
      BY <1>1 DEF ListInv
    <2>2. CASE \E p \in Pids : Visit(p)
      <3>1. PICK p \in Pids : Visit(p)
        BY <2>2
      <3>2. \A q \in todo \ todo' : q = p
        BY <3>1 DEF Visit
      <3>3. Exact(p)
        BY <1>1, <2>1, <3>1, VisitExact DEF Computes
      <3> HIDE DEF Exact
      <3> QED  BY <2>0, <3>2, <3>3
    <2>3. CASE Refresh \/ Open
      <3>1. todo = {}
        BY <2>1, <2>3 DEF Refresh, Open, ScanBegins, ScanFails, Phases
      <3> HIDE DEF Exact
      <3> QED  BY <2>0, <3>1
    <2>4. ASSUME todo' = todo PROVE [\A p \in Pids : Exact(p)]_vars
      <3> HIDE DEF Exact
      <3> QED  BY <2>0, <2>4
    <2>5. CASE UNCHANGED vars
      BY <2>5
    <2>6. CASE Close \/ ScanEnds
      BY <2>4, <2>6 DEF Close, ScanEnds, scanVars
    <2>7. CASE \E i \in Listed, root \in BOOLEAN : Kill(i, root) \/ Signal(i, root)
      BY <2>4, <2>7 DEF Kill, Signal, scanVars
    <2>8. CASE \E p \in Pids : Starts(p) \/ Execs(p) \/ Works(p) \/ Ends(p)
      BY <2>4, <2>8 DEF Starts, Execs, Works, Ends, scanVars
    <2> HIDE DEF Exact
    <2> QED  BY <1>1, <2>2, <2>3, <2>5, <2>6, <2>7, <2>8 DEF Next, Window
  <1> QED
    BY <1>1, TimesHold, ListHolds, BooksHold, PTL DEF Spec, TicksExact

-----------------------------------------------------------------------------
(* The buttons.                                                            *)

\* A row tells the truth about the process it was made for, as long as that one runs.
Known == Alive \ (fresh \cup changed)

RowsTrue ==
    \A i \in Listed : top_procs_cpu[i].pid \in Known
                        => top_procs_cpu[i].kind = kind[top_procs_cpu[i].pid]

LEMMA RowsInit == Init => RowsTrue
  <1>1. NoRow.pid \notin Pids
    BY TasksAssumption DEF NoRow, NoPid
  <1> QED  BY <1>1 DEF Init, RowsTrue, Known, Alive

LEMMA RowsStep == TypeOK /\ ListInv /\ RowsTrue /\ [Next]_vars => RowsTrue'
  <1> SUFFICES ASSUME TypeOK, ListInv, RowsTrue, [Next]_vars PROVE RowsTrue'
    OBVIOUS
  <1>1. CASE ScanBegins
    <2>1. top_procs_cpu' = [i \in Listed |-> NoRow]
      BY <1>1 DEF ScanBegins
    <2>2. NoRow.pid \notin Pids
      BY TasksAssumption DEF NoRow, NoPid
    <2> QED  BY <2>1, <2>2 DEF RowsTrue, Known, Alive
  <1>2. ASSUME UNCHANGED top_procs_cpu,
               \A p \in Known' : p \in Known /\ kind'[p] = kind[p]
        PROVE  RowsTrue'
    BY <1>2 DEF RowsTrue
  <1>3. ASSUME NEW P \in SUBSET Pids, Ended(P)
        PROVE  \A p \in Known' : p \in Known /\ kind'[p] = kind[p]
    BY <1>3 DEF Ended, Known, Alive, TypeOK
  <1>4. ASSUME NEW i \in Listed, NEW root \in BOOLEAN, Kill(i, root)
        PROVE  RowsTrue'
    <2>1. top_procs_cpu' = [top_procs_cpu EXCEPT ![i] = [top_procs_cpu[i] EXCEPT !.pid = Hidden]]
          /\ top_procs_cpu[i] \in Rows
      BY <1>4 DEF Kill, TypeOK
    <2>2. [top_procs_cpu[i] EXCEPT !.pid = Hidden].pid = Hidden /\ Hidden \notin Pids
      BY <2>1, TasksAssumption DEF Rows, NoRow, Hidden
    <2>3. \A j \in Listed : top_procs_cpu'[j] = top_procs_cpu[j] \/ top_procs_cpu'[j].pid \notin Pids
      BY <2>1, <2>2 DEF TypeOK
    <2>4. Reached(top_procs_cpu[i].pid) \in SUBSET Pids
      BY DEF Reached, Alive
    <2>5. \A p \in Known' : p \in Known /\ kind'[p] = kind[p]
      BY <1>3, <1>4, <2>4 DEF Kill
    <2>6. \A p \in Known' : p \in Pids
      BY DEF Known, Alive
    <2> QED  BY <2>3, <2>5, <2>6 DEF RowsTrue
  <1>5. ASSUME NEW p \in Pids, Visit(p) PROVE RowsTrue'
    <2>1. UNCHANGED kind /\ Alive' = Alive /\ scanning /\ p \in todo
      BY <1>5 DEF Visit, NextVisit, Alive
    <2>2. CASE p \notin Alive
      <3>1. UNCHANGED <<fresh, changed, top_procs_cpu>>
        BY <1>5, <2>2 DEF Visit
      <3> QED  BY <1>2, <2>1, <3>1 DEF Known
    <2>3. CASE p \in Alive
      <3>1. fresh' = fresh \ {p} /\ changed' = changed \ {p}
        BY <1>5, <2>3 DEF Visit
      <3>2. \A i \in Listed : top_procs_cpu[i].pid # p
        <4>1. SUFFICES ASSUME NEW i \in Listed, top_procs_cpu[i].pid = p PROVE FALSE
          OBVIOUS
        <4>2. top_procs_cpu[i] \in Rows /\ p # NoPid
          BY TasksAssumption DEF TypeOK, NoPid
        <4>3. top_procs_cpu[i] # NoRow
          BY <4>1, <4>2 DEF NoRow
        <4> QED  BY <2>1, <4>1, <4>3 DEF ListInv, Phases
      <3>3. \A i \in Listed : \/ top_procs_cpu'[i] = Row(p)
                              \/ \E j \in Listed : top_procs_cpu'[i] = top_procs_cpu[j]
        <4>1. CASE kind[p] \in Visible
          <5>1. top_procs_cpu' = InsertRow(top_procs_cpu, Row(p))
            BY <1>5, <2>3, <4>1 DEF Visit
          <5>2. Inserted(top_procs_cpu, Row(p), top_procs_cpu')
            BY <2>1, <4>1, <5>1, RowType, InsertRowKeeps DEF TypeOK
          <5>3. Listed \subseteq Int
            BY TasksAssumption DEF Listed
          <5> QED  BY <5>2, <5>3 DEF Inserted
        <4>2. CASE kind[p] \notin Visible
          BY <1>5, <2>3, <4>2 DEF Visit
        <4> QED  BY <4>1, <4>2
      <3>4. Row(p).pid = p /\ Row(p).kind = kind[p]
        BY DEF Row
      <3> QED  BY <2>1, <3>1, <3>2, <3>3, <3>4 DEF RowsTrue, Known
    <2> QED  BY <2>2, <2>3
  <1>6. ASSUME NEW p \in Pids, Starts(p) PROVE RowsTrue'
    <2>1. PICK k \in Kinds : kind' = [kind EXCEPT ![p] = k]
      BY <1>6 DEF Starts
    <2>2. \A q \in Known' : q \in Known /\ kind'[q] = kind[q]
      BY <1>6, <2>1 DEF Starts, Known, Alive, TypeOK
    <2> QED  BY <1>2, <1>6, <2>2 DEF Starts, scanVars
  <1>7. ASSUME NEW p \in Pids, Ends(p) PROVE RowsTrue'
    BY <1>2, <1>3, <1>7 DEF Ends, scanVars
  <1>8. ASSUME UNCHANGED <<top_procs_cpu, kind, fresh, changed>> PROVE RowsTrue'
    BY <1>2, <1>8 DEF Known, Alive
  <1>9. CASE \E p \in Pids : Works(p)
    BY <1>8, <1>9 DEF Works, scanVars
  <1>10. CASE ScanEnds \/ Close
    BY <1>8, <1>10 DEF ScanEnds, Close, scanVars, procVars
  <1>11. CASE \E i \in Listed, root \in BOOLEAN : Signal(i, root)
    BY <1>8, <1>11 DEF Signal, scanVars, procVars
  <1>12. CASE UNCHANGED vars
    BY <1>8, <1>12 DEF vars, scanVars, procVars
  <1>13. CASE ScanFails
    BY <1>8, <1>13 DEF ScanFails, scanVars, procVars
  <1>14. ASSUME NEW p \in Pids, Execs(p) PROVE RowsTrue'
    <2>1. PICK k \in Kinds : kind' = [kind EXCEPT ![p] = k]
      BY <1>14 DEF Execs
    <2>2. \A q \in Known' : q \in Known /\ kind'[q] = kind[q]
      BY <1>14, <2>1 DEF Execs, Known, Alive, TypeOK
    <2> QED  BY <1>2, <1>14, <2>2 DEF Execs, scanVars
  <1> QED
    BY <1>1, <1>4, <1>5, <1>6, <1>7, <1>9, <1>10, <1>11, <1>12, <1>13, <1>14
    DEF Next, Window, Refresh, Open

LEMMA RowsHold == Spec => []RowsTrue
  BY RowsInit, RowsStep, TypeCorrect, ListHolds, PTL DEF Spec

\* No button ever reaches a process that the user may not manage, however old the list
\* is and however often a scan fails, except through an id that was given away or a
\* program that became another; and none reaches all processes.
THEOREM ManagedOnly == Spec => OnlyManaged
  <1> DEFINE Mine == LET p == signalled'.pid
                     IN /\ p # Hidden
                        /\ p \in Alive \ (fresh \cup changed)
                              => kind[p] = "mine" \/ (signalled'.root /\ kind[p] = "other")
  <1>1. ASSUME TypeOK, RowsTrue, [Next]_vars
        PROVE  [Mine]_vars
    <2>1. ASSUME signalled' = NoSignal PROVE Mine
      <3>1. signalled'.pid = NoPid /\ NoPid # Hidden /\ NoPid \notin Pids
        BY <2>1, TasksAssumption DEF NoSignal, NoPid, Hidden
      <3> QED  BY <3>1 DEF Alive
    <2>2. ASSUME NEW i \in Listed, NEW root \in BOOLEAN, Kill(i, root) \/ Signal(i, root)
          PROVE  Mine
      <3>1. /\ signalled'.pid = top_procs_cpu[i].pid /\ signalled'.root = root
            /\ top_procs_cpu[i].pid > 0
            /\ root \/ top_procs_cpu[i].kind = "mine"
        BY <2>2 DEF Kill, Signal, Drawn, Managed
      <3>2. top_procs_cpu[i] \in Rows
        BY <1>1 DEF TypeOK
      <3>3. top_procs_cpu[i].kind \in {"mine", "other"}
        BY <3>2, RowFacts DEF Visible
      <3>4. signalled'.pid # Hidden
        <4>1. ~(Hidden > 0)
          BY DEF Hidden
        <4> QED  BY <3>1, <4>1
      <3> QED  BY <1>1, <3>1, <3>3, <3>4 DEF RowsTrue, Known
    <2>3. CASE \E p \in Pids : Visit(p) \/ Starts(p) \/ Execs(p) \/ Works(p) \/ Ends(p)
      BY <2>1, <2>3 DEF Visit, Starts, Execs, Works, Ends
    <2>4. CASE Refresh \/ Open \/ Close \/ ScanEnds
      BY <2>1, <2>4 DEF Refresh, Open, ScanBegins, ScanFails, Close, ScanEnds
    <2>5. CASE UNCHANGED vars
      BY <2>5
    <2> HIDE DEF Mine
    <2> QED  BY <1>1, <2>2, <2>3, <2>4, <2>5 DEF Next, Window
  <1> QED
    BY <1>1, TypeCorrect, RowsHold, PTL DEF Spec, OnlyManaged
=============================================================================
