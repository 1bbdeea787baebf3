---------------------------- MODULE InputProofs -----------------------------
(***************************************************************************)
(* Theorems about the input loop: about Mouse, for every length of the     *)
(* queue, number of reads in a frame and length of the filters; and about  *)
(* Typing, for every number of events in a frame, every size of nuklear's  *)
(* input and every length of a password.                                   *)
(***************************************************************************)
EXTENDS Mouse, Typing, SequenceTheorems, TLAPS

-----------------------------------------------------------------------------
(* The mouse.                                                              *)

\* The filters start idle.
LEMMA MouseTypeInit == MouseInit => MouseTypeOK
  <1> SUFFICES ASSUME MouseInit PROVE MouseTypeOK
    OBVIOUS
  <1>1. /\ mouse_btn_left \in BOOLEAN /\ keyboard_active \in BOOLEAN /\ held \in BOOLEAN
        /\ ignore_clicks \in BOOLEAN /\ undisturbed \in BOOLEAN
    BY Zenon DEF MouseInit
  <1>2. queue \in Seq(BOOLEAN) /\ Len(queue) <= QueueLen
    BY MouseAssumption DEF MouseInit
  <1> QED
    BY <1>1, <1>2, MouseAssumption DEF MouseInit, MouseTypeOK

\* The queue after a packet ends with it, and is no longer than the kernel allows.
LEMMA QueuedType ==
  ASSUME MouseTypeOK, NEW b \in BOOLEAN, NEW q \in Queued(b)
  PROVE  q \in Seq(BOOLEAN) /\ Len(q) <= QueueLen /\ q # <<>> /\ q[Len(q)] = b
  <1> DEFINE merged == [queue EXCEPT ![Len(queue)] = b]
  <1>1. queue \in Seq(BOOLEAN) /\ Len(queue) <= QueueLen /\ QueueLen \in Nat \ {0}
    BY MouseAssumption DEF MouseTypeOK
  <1>2. ASSUME queue # <<>>
        PROVE  /\ merged \in Seq(BOOLEAN) /\ Len(merged) = Len(queue)
               /\ merged[Len(merged)] = b /\ Len(queue) > 0
    BY <1>1, <1>2
  <1>3. CASE q = merged /\ queue # <<>>
    BY <1>1, <1>2, <1>3
  <1>4. CASE q = Append(queue, b) /\ Len(queue) # QueueLen
    BY <1>1, <1>4
  <1>5. Len(queue) = QueueLen => queue # <<>>
    BY <1>1
  <1> QED  BY <1>3, <1>4, <1>5 DEF Queued

\* What a frame leaves in the queue are its last packets.
LEMMA RemainingType ==
  ASSUME MouseTypeOK
  PROVE  /\ Remaining \in Seq(BOOLEAN) /\ Len(Remaining) <= QueueLen
         /\ Remaining # <<>> => queue # <<>> /\ Remaining[Len(Remaining)] = queue[Len(queue)]
         /\ ~Lost => Remaining = <<>>
  <1>1. queue \in Seq(BOOLEAN) /\ Len(queue) <= QueueLen /\ QueueLen \in Nat \ {0}
        /\ MaxReads \in Nat \ {0}
    BY MouseAssumption DEF MouseTypeOK
  <1>2. CASE ~Lost
    BY <1>1, <1>2 DEF Remaining
  <1>3. CASE Lost
    <2>1. Remaining = SubSeq(queue, MaxReads + 2, Len(queue)) /\ Len(queue) > MaxReads
      BY <1>3 DEF Remaining, Lost
    <2>2. MaxReads + 2 \in 1..Len(queue)+1 /\ Len(queue) \in (MaxReads + 2 - 1)..Len(queue)
      BY <1>1, <2>1
    <2>3. /\ Remaining \in Seq(BOOLEAN) /\ Len(Remaining) = Len(queue) - (MaxReads + 2) + 1
          /\ \A k \in 1..Len(queue) - (MaxReads + 2) + 1 :
                Remaining[k] = queue[MaxReads + 2 + k - 1]
      BY <1>1, <2>1, <2>2, SubSeqProperties
    <2>4. ASSUME Remaining # <<>>
          PROVE  queue # <<>> /\ Remaining[Len(Remaining)] = queue[Len(queue)]
      <3>1. Len(Remaining) \in 1..Len(queue) - (MaxReads + 2) + 1
        BY <1>1, <2>3, <2>4
      <3>2. MaxReads + 2 + Len(Remaining) - 1 = Len(queue)
        BY <1>1, <2>3
      <3>3. queue # <<>>
        BY <1>1, <2>1
      <3>4. Remaining[Len(Remaining)] = queue[MaxReads + 2 + Len(Remaining) - 1]
        BY <2>3, <3>1
      <3> QED  BY <3>2, <3>3, <3>4
    <2>5. Len(Remaining) <= QueueLen
      BY <1>1, <2>3
    <2> QED  BY <1>3, <2>3, <2>4, <2>5
  <1> QED  BY <1>2, <1>3

\* The packets of a frame tell whether the button is down.
LEMMA ReadType ==
  ASSUME MouseTypeOK
  PROVE  /\ ButtonRead \in BOOLEAN
         /\ ~Lost /\ queue # <<>> => ButtonRead = queue[Len(queue)]
  <1>1. queue \in Seq(BOOLEAN) /\ mouse_btn_left \in BOOLEAN /\ MaxReads \in Nat \ {0}
    BY MouseAssumption DEF MouseTypeOK
  <1>2. queue # <<>> => Reads \in 1..Len(queue)
    BY <1>1 DEF Reads
  <1>3. queue # <<>> => queue[Reads] \in BOOLEAN
    BY <1>1, <1>2
  <1>4. ~Lost => Reads = Len(queue)
    BY <1>1 DEF Lost, Reads
  <1>5. ButtonRead \in BOOLEAN
    BY <1>1, <1>3, Zenon DEF ButtonRead
  <1> QED  BY <1>4, <1>5 DEF ButtonRead

\* The device and the loop keep the types.
LEMMA MouseTypeStep == MouseTypeOK /\ [MouseNext]_mouseVars => MouseTypeOK'
  <1> SUFFICES ASSUME MouseTypeOK, [MouseNext]_mouseVars PROVE MouseTypeOK'
    OBVIOUS
  <1>1. CASE Button
    <2>1. held' \in BOOLEAN /\ undisturbed' \in BOOLEAN
      BY <1>1, Zenon DEF Button
    <2>2. queue' \in Seq(BOOLEAN) /\ Len(queue') <= QueueLen
      BY <1>1, <2>1, QueuedType DEF Button
    <2> QED  BY <1>1, <2>1, <2>2 DEF Button, MouseTypeOK
  <1>2. CASE Move
    <2>1. held \in BOOLEAN
      BY DEF MouseTypeOK
    <2>2. queue' \in Seq(BOOLEAN) /\ Len(queue') <= QueueLen
      BY <1>2, <2>1, QueuedType DEF Move
    <2> QED  BY <1>2, <2>2 DEF Move, MouseTypeOK
  <1>3. ASSUME NEW moved \in BOOLEAN, NEW key \in BOOLEAN, NEW opens \in BOOLEAN,
               MouseFrame(moved, key, opens)
        PROVE  MouseTypeOK'
    <2>1. /\ mouse_btn_left' \in BOOLEAN /\ keyboard_active' \in BOOLEAN
          /\ ignore_clicks' \in BOOLEAN /\ undisturbed' \in BOOLEAN
      BY <1>3, Zenon DEF MouseFrame
    <2>2. queue' \in Seq(BOOLEAN) /\ Len(queue') <= QueueLen
      BY <1>3, RemainingType DEF MouseFrame
    <2>3. mouse_idle_frames' \in 0..(IdleLimit + 1)
      BY <1>3, MouseAssumption DEF MouseFrame, MouseTypeOK
    <2>4. click_cooldown' \in 0..Cooldown
      BY <1>3, MouseAssumption DEF MouseFrame, Cooled, MouseTypeOK
    <2>5. clicks' \in 0..2
      BY <1>3 DEF MouseFrame, MouseTypeOK
    <2>6. frame_count' \in 0..1 /\ held' \in BOOLEAN
      BY <1>3 DEF MouseFrame, MouseTypeOK
    <2> QED  BY <2>1, <2>2, <2>3, <2>4, <2>5, <2>6 DEF MouseTypeOK
  <1>4. CASE UNCHANGED mouseVars
    BY <1>4 DEF mouseVars, MouseTypeOK
  <1> QED  BY <1>1, <1>2, <1>3, <1>4 DEF MouseNext, Draw

\* The counters of the filters stay in their ranges, and the queue in its length.
THEOREM MouseTypeCorrect == MouseSpec => []MouseTypeOK
  BY MouseTypeInit, MouseTypeStep, PTL DEF MouseSpec

-----------------------------------------------------------------------------
\* The last packet that waits tells the truth; a press that was undisturbed and has been
\* a click is still seen as down.
PressInv ==
    /\ queue # <<>> => queue[Len(queue)] = held
    /\ undisturbed => clicks <= 1
    /\ undisturbed /\ clicks = 1 /\ held => mouse_btn_left

\* Only a frame that reads the press makes a click of it.
LEMMA PressStep == MouseTypeOK /\ PressInv /\ [MouseNext]_mouseVars => PressInv'
  <1> SUFFICES ASSUME MouseTypeOK, PressInv, [MouseNext]_mouseVars PROVE PressInv'
    OBVIOUS
  <1>1. CASE Button
    <2>1. held' \in BOOLEAN
      BY <1>1, Zenon DEF Button
    <2>2. queue'[Len(queue')] = held'
      BY <1>1, <2>1, QueuedType DEF Button
    <2>3. held' => clicks' = 0
      BY <1>1 DEF Button
    <2>4. ~held' => clicks' = clicks /\ (undisturbed' => undisturbed)
      BY <1>1, Zenon DEF Button
    <2> QED  BY <2>1, <2>2, <2>3, <2>4 DEF PressInv
  <1>2. CASE Move
    <2>1. held \in BOOLEAN
      BY DEF MouseTypeOK
    <2>2. queue'[Len(queue')] = held' /\ UNCHANGED <<undisturbed, clicks, held, mouse_btn_left>>
      BY <1>2, <2>1, QueuedType DEF Move
    <2> QED  BY <2>2 DEF PressInv
  <1>3. ASSUME NEW moved \in BOOLEAN, NEW key \in BOOLEAN, NEW opens \in BOOLEAN,
               MouseFrame(moved, key, opens)
        PROVE  PressInv'
    <2>1. held' = held /\ queue' = Remaining
      BY <1>3 DEF MouseFrame
    <2>2. queue' # <<>> => queue'[Len(queue')] = held'
      BY <2>1, RemainingType DEF PressInv
    <2>3. ASSUME undisturbed'
          PROVE  clicks' <= 1 /\ (clicks' = 1 /\ held => mouse_btn_left')
      <3>1. undisturbed /\ ~Lost
        BY <1>3, <2>3, Zenon DEF MouseFrame
      <3>2. /\ mouse_btn_left' <=> ButtonRead
            /\ clicks' = IF ButtonRead /\ ~mouse_btn_left /\ clicks < 2
                         THEN clicks + 1 ELSE clicks
        BY <1>3, <2>3 DEF MouseFrame, Edge
      <3>3. queue # <<>> => ButtonRead = held
        BY <3>1, ReadType DEF PressInv
      <3>4. queue = <<>> => ButtonRead = mouse_btn_left
        BY DEF ButtonRead
      <3> QED  BY <3>1, <3>2, <3>3, <3>4 DEF PressInv, MouseTypeOK
    <2> QED  BY <2>1, <2>2, <2>3 DEF PressInv
  <1>4. CASE UNCHANGED mouseVars
    BY <1>4 DEF mouseVars, PressInv
  <1> QED  BY <1>1, <1>2, <1>3, <1>4 DEF MouseNext, Draw

\* One press is one click, however many packets it comes in and however they fall into
\* frames, unless a filter was at work or a packet was lost.
THEOREM OnePressOneClick == MouseSpec => []OneClickPerPress
  <1>1. MouseInit => PressInv
    BY DEF MouseInit, PressInv
  <1>2. PressInv => OneClickPerPress
    BY DEF PressInv, OneClickPerPress
  <1> QED
    BY <1>1, <1>2, MouseTypeCorrect, PressStep, PTL DEF MouseSpec

-----------------------------------------------------------------------------
(* The password fields.                                                    *)

\* A function over the numbers up to n is a sequence of that length.
LEMMA FunctionIsSeq ==
  ASSUME NEW S, NEW n \in Nat, NEW f \in [1..n -> S]
  PROVE  f \in Seq(S) /\ Len(f) = n /\ DOMAIN f = 1..n
  OBVIOUS

\* Two sequences of one length with the same elements are the same.
LEMMA SeqSame ==
  ASSUME NEW S, NEW s \in Seq(S), NEW t \in Seq(S), Len(s) = Len(t),
         \A i \in 1..Len(s) : s[i] = t[i]
  PROVE  s = t
  OBVIOUS

-----------------------------------------------------------------------------
(* nuklear's editor.                                                       *)

LEMMA ClampFacts ==
  ASSUME NEW S, NEW e \in [text : Seq(S), cur : Nat], Len(e.text) <= MaxLen
  PROVE  /\ Clamp(e) \in [text : Seq(S), cur : 0..MaxLen]
         /\ Clamp(e).text = e.text /\ Clamp(e).cur <= Len(e.text)
         /\ Clamp(e).cur = IF e.cur > Len(e.text) THEN Len(e.text) ELSE e.cur
  BY TypingAssumption DEF Clamp

LEMMA BackspaceFacts ==
  ASSUME NEW S, NEW e \in [text : Seq(S), cur : 0..MaxLen], Len(e.text) <= MaxLen
  PROVE  /\ BackspaceKey(e) \in [text : Seq(S), cur : 0..MaxLen]
         /\ Len(BackspaceKey(e).text) <= Len(e.text)
  <1> DEFINE c == Clamp(e)
             f == [i \in 1..(Len(c.text) - 1) |-> IF i < c.cur THEN c.text[i] ELSE c.text[i + 1]]
  <1>1. /\ c \in [text : Seq(S), cur : 0..MaxLen] /\ c.text = e.text
        /\ c.cur <= Len(e.text)
    BY ClampFacts, TypingAssumption
  <1>2. CASE c.cur = 0
    BY <1>1, <1>2 DEF BackspaceKey
  <1>3. CASE c.cur # 0
    <2>1. c.cur \in Nat /\ Len(c.text) \in Nat /\ Len(c.text) - 1 \in Nat
      BY <1>1, <1>3
    <2>2. f \in [1..(Len(c.text) - 1) -> S]
      BY <1>1, <2>1
    <2>3. BackspaceKey(e) = [text |-> f, cur |-> c.cur - 1]
      BY <1>3 DEF BackspaceKey
    <2> HIDE DEF f, c
    <2>4. f \in Seq(S) /\ Len(f) = Len(c.text) - 1
      BY <2>1, <2>2, FunctionIsSeq
    <2> QED  BY <1>1, <1>3, <2>1, <2>3, <2>4, TypingAssumption
  <1> QED  BY <1>2, <1>3

LEMMA ArrowFacts ==
  ASSUME NEW S, NEW e \in [text : Seq(S), cur : 0..MaxLen], Len(e.text) <= MaxLen
  PROVE  /\ LeftKey(e) \in [text : Seq(S), cur : 0..MaxLen] /\ LeftKey(e).text = e.text
         /\ RightKey(e) \in [text : Seq(S), cur : 0..MaxLen] /\ RightKey(e).text = e.text
  <1>1. LeftKey(e) \in [text : Seq(S), cur : 0..MaxLen] /\ LeftKey(e).text = e.text
    BY TypingAssumption DEF LeftKey
  <1> DEFINE d == [e EXCEPT !.cur = e.cur + 1]
  <1>2. d \in [text : Seq(S), cur : Nat] /\ d.text = e.text
    BY TypingAssumption
  <1>3. RightKey(e) = Clamp(d)
    BY DEF RightKey
  <1> HIDE DEF d
  <1>4. RightKey(e) \in [text : Seq(S), cur : 0..MaxLen] /\ RightKey(e).text = e.text
    BY <1>2, <1>3, ClampFacts
  <1> QED  BY <1>1, <1>4

LEMMA KeysFacts ==
  ASSUME NEW S, NEW e \in [text : Seq(S), cur : 0..MaxLen], Len(e.text) <= MaxLen, NEW keys
  PROVE  /\ KeysIn(e, keys) \in [text : Seq(S), cur : 0..MaxLen]
         /\ Len(KeysIn(e, keys).text) <= Len(e.text)
  <1> DEFINE e1 == IF "backspace" \in keys THEN BackspaceKey(e) ELSE e
             e2 == IF "left" \in keys THEN LeftKey(e1) ELSE e1
             e3 == IF "right" \in keys THEN RightKey(e2) ELSE e2
  <1>1. e1 \in [text : Seq(S), cur : 0..MaxLen] /\ Len(e1.text) <= Len(e.text)
    BY BackspaceFacts
  <1>2. Len(e1.text) <= MaxLen
    BY <1>1, TypingAssumption
  <1> HIDE DEF e1
  <1>3. e2 \in [text : Seq(S), cur : 0..MaxLen] /\ e2.text = e1.text
    BY <1>1, <1>2, ArrowFacts
  <1> HIDE DEF e2
  <1>4. e3 \in [text : Seq(S), cur : 0..MaxLen] /\ e3.text = e1.text
    BY <1>2, <1>3, ArrowFacts
  <1>5. KeysIn(e, keys) = e3
    BY DEF KeysIn, e1, e2
  <1> HIDE DEF e3
  <1> QED  BY <1>1, <1>4, <1>5

\* What is typed in, where it fits and where it goes.
LEMMA TypedFacts ==
  ASSUME NEW S, NEW e \in [text : Seq(S), cur : 0..MaxLen], Len(e.text) <= MaxLen,
         NEW chars \in Seq(S)
  PROVE  /\ TypedIn(e, chars) \in [text : Seq(S), cur : 0..MaxLen]
         /\ Len(TypedIn(e, chars).text) <= MaxLen
  <1> DEFINE c == Clamp(e).cur
             n == IF Len(chars) < Room(e.text) THEN Len(chars) ELSE Room(e.text)
             f == [i \in 1..(Len(e.text) + n) |-> IF i <= c THEN e.text[i]
                                                 ELSE IF i <= c + n THEN chars[i - c]
                                                 ELSE e.text[i - n]]
  <1>1. c \in Nat /\ c <= Len(e.text)
    BY ClampFacts, TypingAssumption
  <1>2. n \in Nat /\ n <= Len(chars) /\ Len(e.text) + n <= MaxLen
    BY TypingAssumption DEF Room
  <1>3. CASE chars = <<>>
    BY <1>3 DEF TypedIn
  <1>4. CASE chars # <<>>
    <2>1. TypedIn(e, chars) = [text |-> f, cur |-> c + n]
      BY <1>4 DEF TypedIn
    <2> HIDE DEF c, n
    <2>2. f \in [1..(Len(e.text) + n) -> S]
      BY <1>1, <1>2
    <2> HIDE DEF f
    <2>3. f \in Seq(S) /\ Len(f) = Len(e.text) + n
      BY <1>2, <2>2, FunctionIsSeq
    <2> QED  BY <1>1, <1>2, <2>1, <2>3, TypingAssumption
  <1> QED  BY <1>3, <1>4

LEMMA FittedFacts ==
  ASSUME NEW S, NEW text \in Seq(S), Len(text) <= MaxLen
  PROVE  /\ Fitted(text) \in Seq(S) /\ Len(Fitted(text)) <= MaxLen
         /\ Len(text) < MaxLen => Fitted(text) = text
  BY FunctionIsSeq, TypingAssumption DEF Fitted

-----------------------------------------------------------------------------
(* Types.                                                                  *)

Field == [text : Seq(Letters \cup {Star}), cur : 0..MaxLen]

\* What nuklear is given to edit, and what it makes of it.
Given == [text |-> Fitted(IF show_passwords THEN buffer ELSE Stars(Len(buffer))), cur |-> cursor]
Edited == TypedIn(KeysIn(Given, pressed), typed)

LEMMA EditedFacts ==
  ASSUME TypeOK
  PROVE  /\ Given \in Field /\ Len(Given.text) <= MaxLen
         /\ Edited \in Field /\ Len(Edited.text) <= MaxLen
  <1> DEFINE shown == IF show_passwords THEN buffer ELSE Stars(Len(buffer))
  <1>1. Stars(Len(buffer)) \in Seq(Letters \cup {Star}) /\ Len(Stars(Len(buffer))) = Len(buffer)
    BY FunctionIsSeq DEF TypeOK, Stars
  <1>2. shown \in Seq(Letters \cup {Star}) /\ Len(shown) <= MaxLen
    BY <1>1 DEF TypeOK
  <1>3. Given = [text |-> Fitted(shown), cur |-> cursor]
    BY DEF Given
  <1> HIDE DEF shown
  <1>4. Given \in Field /\ Len(Given.text) <= MaxLen
    BY <1>2, <1>3, FittedFacts DEF TypeOK, Field
  <1>5. KeysIn(Given, pressed) \in Field /\ Len(KeysIn(Given, pressed).text) <= MaxLen
    BY <1>4, KeysFacts, TypingAssumption DEF Field
  <1>6. typed \in Seq(Letters \cup {Star})
    BY DEF TypeOK
  <1>7. Edited \in Field /\ Len(Edited.text) <= MaxLen
    BY <1>5, <1>6, TypedFacts DEF Edited, Field
  <1> QED  BY <1>4, <1>7

LEMMA StoredFacts ==
  ASSUME TypeOK, NEW t \in Seq(Letters \cup {Star})
  PROVE  Stored(t) \in Seq(Letters \cup {Star}) /\ Len(Stored(t)) = Len(t)
  <1>1. Stored(t) \in [1..Len(t) -> Letters \cup {Star}]
    BY DEF TypeOK, Stored
  <1> QED  BY <1>1, FunctionIsSeq

\* What was meant is a text of letters whatever the key.
LEMMA IntendedFacts ==
  ASSUME NEW b \in BOOLEAN, NEW e \in [text : Seq(Letters), cur : 0..MaxLen],
         Len(e.text) <= MaxLen
  PROVE  /\ Intended(b, e) \in [text : Seq(Letters), cur : 0..MaxLen]
         /\ Len(Intended(b, e).text) <= MaxLen
  BY TypingAssumption DEF Intended

LEMMA TypeStep == TypeOK /\ [Next]_vars => TypeOK'
  <1> SUFFICES ASSUME TypeOK, [Next]_vars PROVE TypeOK'
    OBVIOUS
  <1>1. ASSUME NEW s \in Sides, Shift(s) PROVE TypeOK'
    <2>1. calm' \in BOOLEAN /\ shift_pressed' \in BOOLEAN
      BY <1>1 DEF Shift, Flag
    <2>2. meant' \in [text : Seq(Letters), cur : 0..MaxLen] /\ Len(meant'.text) <= MaxLen
      BY <1>1, <2>1, IntendedFacts DEF Shift, TypeOK
    <2>3. handled' \in 0..(MaxEvents + 1) /\ down' \subseteq Sides
      BY <1>1, TypingAssumption DEF Shift, TypeOK
    <2>4. lost' \in BOOLEAN /\ UNCHANGED <<typed, pressed, buffer, cursor, show_passwords>>
      BY <1>1 DEF Shift
    <2> QED  BY <2>1, <2>2, <2>3, <2>4 DEF TypeOK
  <1>2. CASE Char
    <2>1. calm' \in BOOLEAN
      BY <1>2 DEF Char
    <2>2. typed' \in Seq(Letters) /\ Len(typed') < InputMax
      BY <1>2, TypingAssumption DEF Char, TypeOK, Letter, Letters
    <2>3. <<Letter(down # {})>> \in Seq(Letters)
      BY DEF Letter, Letters
    <2>4. meant' \in [text : Seq(Letters), cur : 0..MaxLen] /\ Len(meant'.text) <= MaxLen
      BY <1>2, <2>1, <2>3, IntendedFacts, TypedFacts DEF Char, TypeOK
    <2>5. handled' \in 0..(MaxEvents + 1)
      BY <1>2, TypingAssumption DEF Char, TypeOK
    <2>6. UNCHANGED <<down, shift_pressed, pressed, buffer, cursor, show_passwords, lost>>
      BY <1>2 DEF Char
    <2> QED  BY <2>1, <2>2, <2>4, <2>5, <2>6 DEF TypeOK
  <1>3. ASSUME NEW k \in EditKeys, EditKey(k) PROVE TypeOK'
    <2>1. calm' \in BOOLEAN
      BY <1>3 DEF EditKey
    <2>2. KeysIn(meant, {k}) \in [text : Seq(Letters), cur : 0..MaxLen]
          /\ Len(KeysIn(meant, {k}).text) <= MaxLen
      BY KeysFacts, TypingAssumption DEF TypeOK
    <2>3. meant' \in [text : Seq(Letters), cur : 0..MaxLen] /\ Len(meant'.text) <= MaxLen
      BY <1>3, <2>1, <2>2, IntendedFacts DEF EditKey
    <2>4. handled' \in 0..(MaxEvents + 1) /\ pressed' \subseteq EditKeys
      BY <1>3, TypingAssumption DEF EditKey, TypeOK
    <2>5. UNCHANGED <<down, shift_pressed, typed, buffer, cursor, show_passwords, lost>>
      BY <1>3 DEF EditKey
    <2> QED  BY <2>1, <2>3, <2>4, <2>5 DEF TypeOK
  <1>4. CASE Other
    BY <1>4, TypingAssumption DEF Other, TypeOK
  <1>5. CASE Drop
    <2>1. meant' \in [text : Seq(Letters), cur : 0..MaxLen] /\ Len(meant'.text) <= MaxLen
      BY <1>5, IntendedFacts DEF Drop, TypeOK
    <2>2. handled' \in 0..(MaxEvents + 1)
      BY <1>5, TypingAssumption DEF Drop
    <2>3. down' \subseteq Sides /\ lost' \in BOOLEAN /\ calm' \in BOOLEAN
      BY <1>5 DEF Drop, TypeOK
    <2>4. UNCHANGED <<shift_pressed, typed, pressed, buffer, cursor, show_passwords>>
      BY <1>5 DEF Drop
    <2> QED  BY <2>1, <2>2, <2>3, <2>4 DEF TypeOK
  <1>6. CASE Frame
    <2>1. /\ buffer' = IF show_passwords THEN Edited.text ELSE Stored(Edited.text)
          /\ cursor' = Edited.cur
      BY <1>6 DEF Frame, Edited, Given
    <2>2. /\ buffer' \in Seq(Letters \cup {Star}) /\ Len(buffer') <= MaxLen
          /\ cursor' \in 0..MaxLen
      BY <2>1, EditedFacts, StoredFacts DEF Field
    <2>3. typed' \in Seq(Letters) /\ Len(typed') < InputMax /\ handled' \in 0..(MaxEvents + 1)
      BY <1>6, TypingAssumption DEF Frame
    <2> QED  BY <1>6, <2>2, <2>3 DEF Frame, TypeOK
  <1>7. CASE CursorMoved
    <2>1. [meant EXCEPT !.cur = cursor'] \in [text : Seq(Letters), cur : 0..MaxLen]
          /\ [meant EXCEPT !.cur = cursor'].text = meant.text
      BY <1>7 DEF CursorMoved, TypeOK
    <2>2. meant' \in [text : Seq(Letters), cur : 0..MaxLen] /\ Len(meant'.text) <= MaxLen
      BY <1>7, <2>1, IntendedFacts DEF CursorMoved, TypeOK
    <2> QED  BY <1>7, <2>2 DEF CursorMoved, Between, TypeOK
  <1>8. CASE ToggleShow
    BY <1>8 DEF ToggleShow, Between, TypeOK
  <1>9. CASE Cleared
    <2>1. cursor' \in 0..MaxLen /\ calm' \in BOOLEAN
      BY <1>9, TypingAssumption DEF Cleared, TypeOK
    <2>2. [text |-> <<>>, cur |-> cursor'] \in [text : Seq(Letters), cur : 0..MaxLen]
          /\ Len([text |-> <<>>, cur |-> cursor'].text) <= MaxLen
      BY <2>1, TypingAssumption
    <2>3. meant' \in [text : Seq(Letters), cur : 0..MaxLen] /\ Len(meant'.text) <= MaxLen
      BY <1>9, <2>1, <2>2, IntendedFacts DEF Cleared
    <2> QED  BY <1>9, <2>1, <2>3, TypingAssumption DEF Cleared, Between, TypeOK
  <1>10. CASE UNCHANGED vars
    BY <1>10 DEF vars, TypeOK
  <1> QED
    BY <1>1, <1>2, <1>3, <1>4, <1>5, <1>6, <1>7, <1>8, <1>9, <1>10 DEF Next, Event

LEMMA TypeInit == Init => TypeOK
  <1> SUFFICES ASSUME Init PROVE TypeOK
    OBVIOUS
  <1>1. /\ <<>> \in Seq(Letters) /\ <<>> \in Seq(Letters \cup {Star}) /\ Len(<<>>) = 0
        /\ 0 \in 0..MaxLen /\ 0 \in 0..(MaxEvents + 1) /\ 0 < InputMax /\ 0 <= MaxLen
    BY TypingAssumption
  <1>2. meant \in [text : Seq(Letters), cur : 0..MaxLen] /\ Len(meant.text) <= MaxLen
    BY <1>1 DEF Init
  <1>3. /\ down \subseteq Sides /\ pressed \subseteq EditKeys /\ calm \in BOOLEAN
        /\ shift_pressed \in BOOLEAN /\ show_passwords \in BOOLEAN /\ lost \in BOOLEAN
    BY DEF Init
  <1>4. handled = 0 /\ typed = <<>> /\ buffer = <<>> /\ cursor = 0
    BY DEF Init
  <1> QED  BY <1>1, <1>2, <1>3, <1>4 DEF TypeOK

\* The password never outgrows what nuklear was given, for any limits.
THEOREM TypeCorrect == Spec => []TypeOK
  BY TypeInit, TypeStep, PTL DEF Spec

-----------------------------------------------------------------------------
(* The shift flag.                                                         *)

\* A shift key is never stuck, but after an event of its own was dropped.
THEOREM ShiftReleased == Spec => []ShiftComesUp
  <1>1. Init => ShiftComesUp
    BY DEF Init, ShiftComesUp
  <1>2. ShiftComesUp /\ [Next]_vars => ShiftComesUp'
    <2> SUFFICES ASSUME ShiftComesUp, [Next]_vars PROVE ShiftComesUp'
      OBVIOUS
    <2>1. ASSUME NEW s \in Sides, Shift(s) PROVE ShiftComesUp'
      BY <2>1 DEF Shift, Flag, ShiftComesUp
    <2>2. CASE Drop
      BY <2>2 DEF Drop, ShiftComesUp
    <2>3. ASSUME UNCHANGED <<down, shift_pressed, lost>> PROVE ShiftComesUp'
      BY <2>3 DEF ShiftComesUp
    <2>4. CASE Char \/ Other \/ \E k \in EditKeys : EditKey(k)
      BY <2>3, <2>4 DEF Char, Other, EditKey
    <2>5. CASE Frame \/ CursorMoved \/ ToggleShow \/ Cleared
      BY <2>3, <2>5 DEF Frame, CursorMoved, ToggleShow, Cleared, Between
    <2>6. CASE UNCHANGED vars
      BY <2>3, <2>6 DEF vars
    <2> QED  BY <2>1, <2>2, <2>4, <2>5, <2>6 DEF Next, Event
  <1> QED  BY <1>1, <1>2, PTL DEF Spec

-----------------------------------------------------------------------------
(* What is stored.                                                         *)

\* The field before the edit of this frame.
Now == [text |-> buffer, cur |-> cursor]

\* While the field is used in safe ways, what was meant is the field with either the
\* characters of this frame or the one key of it.
Pending ==
    \/ pressed = {} /\ meant = TypedIn(Now, typed)
    \/ typed = <<>> /\ \E k \in EditKeys : pressed = {k} /\ meant = KeysIn(Now, {k})

StoredInv ==
    /\ handled = 0 => typed = <<>> /\ pressed = {}
    /\ calm => /\ shift_pressed = (down # {}) /\ down # Sides
               /\ Len(buffer) + Len(typed) < MaxLen
               /\ typed # <<>> \/ "backspace" \in pressed => AtEnd
               /\ Pending

\* With the characters in it at c, which push what is behind them.
Pushed(t, e, c, chars) ==
    /\ Len(t.text) = Len(e.text) + Len(chars) /\ t.cur = c + Len(chars)
    /\ \A i \in 1..(Len(e.text) + Len(chars)) :
          t.text[i] = IF i <= c THEN e.text[i]
                      ELSE IF i <= c + Len(chars) THEN chars[i - c] ELSE e.text[i - Len(chars)]

LEMMA TypedText ==
  ASSUME NEW S, NEW e \in [text : Seq(S), cur : 0..MaxLen], NEW chars \in Seq(S),
         chars # <<>>, Len(e.text) + Len(chars) <= MaxLen,
         NEW c \in Nat, c = IF e.cur > Len(e.text) THEN Len(e.text) ELSE e.cur
  PROVE  /\ TypedIn(e, chars) \in [text : Seq(S), cur : 0..MaxLen]
         /\ Pushed(TypedIn(e, chars), e, c, chars)
  <1> DEFINE n == Len(chars)
             f == [i \in 1..(Len(e.text) + n) |-> IF i <= c THEN e.text[i]
                                                 ELSE IF i <= c + n THEN chars[i - c]
                                                 ELSE e.text[i - n]]
  <1>1. Clamp(e).cur = c
    BY ClampFacts, TypingAssumption
  <1>2. n = IF Len(chars) < Room(e.text) THEN Len(chars) ELSE Room(e.text)
    BY TypingAssumption DEF Room
  <1>3. TypedIn(e, chars) = [text |-> f, cur |-> c + n]
    BY <1>1, <1>2 DEF TypedIn
  <1>4. c <= Len(e.text) /\ n \in Nat /\ Len(e.text) \in Nat /\ Len(e.text) + n <= MaxLen
    BY TypingAssumption
  <1> HIDE DEF n
  <1>5. f \in [1..(Len(e.text) + n) -> S]
    BY <1>4 DEF n
  <1>6. \A i \in 1..(Len(e.text) + n) :
           f[i] = IF i <= c THEN e.text[i] ELSE IF i <= c + n THEN chars[i - c] ELSE e.text[i - n]
    OBVIOUS
  <1> HIDE DEF f
  <1>7. f \in Seq(S) /\ Len(f) = Len(e.text) + n
    BY <1>4, <1>5, FunctionIsSeq
  <1>8. c + n \in 0..MaxLen
    BY <1>4, TypingAssumption
  <1>9. TypedIn(e, chars).text = f /\ TypedIn(e, chars).cur = c + n
    BY <1>3
  <1> QED  BY <1>3, <1>6, <1>7, <1>8, <1>9 DEF n, Pushed

\* Characters that come one by one are those that come together.
LEMMA TypedAppend ==
  ASSUME NEW S, NEW e \in [text : Seq(S), cur : 0..MaxLen], NEW chars \in Seq(S), NEW x \in S,
         Len(e.text) + Len(chars) + 1 <= MaxLen
  PROVE  TypedIn(TypedIn(e, chars), <<x>>) = TypedIn(e, Append(chars, x))
  <1>1. CASE chars = <<>>
    BY <1>1 DEF TypedIn
  <1>2. CASE chars # <<>>
    <2> DEFINE c == IF e.cur > Len(e.text) THEN Len(e.text) ELSE e.cur
               n == Len(chars)
               w == Append(chars, x)
               o == <<x>>
               t == TypedIn(e, chars)
               u == TypedIn(t, o)
               v == TypedIn(e, w)
    <2>1. /\ c \in Nat /\ c <= Len(e.text) /\ n \in Nat /\ Len(e.text) \in Nat
          /\ Len(e.text) + n + 1 <= MaxLen /\ n = Len(chars) /\ Len(e.text) + n <= MaxLen
          /\ c = IF e.cur > Len(e.text) THEN Len(e.text) ELSE e.cur
      BY TypingAssumption
    <2>2. w \in Seq(S) /\ Len(w) = n + 1
      OBVIOUS
    <2>3. w[n + 1] = x /\ \A i \in 1..n : w[i] = chars[i]
      OBVIOUS
    <2>4. o \in Seq(S) /\ o # <<>> /\ Len(o) = 1 /\ o[1] = x
      OBVIOUS
    <2> HIDE DEF c, n, w, o
    <2>5. w # <<>>
      BY <2>1, <2>2
    <2>6. t \in [text : Seq(S), cur : 0..MaxLen] /\ Pushed(t, e, c, chars)
      BY <1>2, <2>1, TypedText
    <2> HIDE DEF t
    <2>7. Len(t.text) = Len(e.text) + n /\ t.cur = c + n
      BY <2>1, <2>6 DEF Pushed
    <2>8. u \in [text : Seq(S), cur : 0..MaxLen] /\ Pushed(u, t, c + n, o)
      <3>1. c + n \in Nat /\ c + n = IF t.cur > Len(t.text) THEN Len(t.text) ELSE t.cur
        BY <2>1, <2>7
      <3>2. Len(t.text) + Len(o) <= MaxLen
        BY <2>1, <2>4, <2>7
      <3> QED  BY <2>4, <2>6, <3>1, <3>2, TypedText
    <2>9. v \in [text : Seq(S), cur : 0..MaxLen] /\ Pushed(v, e, c, w)
      <3>1. Len(e.text) + Len(w) <= MaxLen
        BY <2>1, <2>2
      <3> QED  BY <2>1, <2>2, <2>5, <3>1, TypedText
    <2> HIDE DEF u, v
    <2>10. /\ Len(u.text) = Len(e.text) + n + 1 /\ Len(v.text) = Len(e.text) + n + 1
           /\ u.cur = v.cur
      BY <2>1, <2>2, <2>4, <2>7, <2>8, <2>9 DEF Pushed
    <2>11. ASSUME NEW i \in 1..(Len(e.text) + n + 1) PROVE u.text[i] = v.text[i]
      <3>1. u.text[i] = IF i <= c + n THEN t.text[i] ELSE IF i <= c + n + 1 THEN x
                        ELSE t.text[i - 1]
        <4>1. i \in 1..(Len(t.text) + Len(o)) /\ Len(o) = 1 /\ c + n + Len(o) = c + n + 1
          BY <2>1, <2>4, <2>7
        <4>2. u.text[i] = IF i <= c + n THEN t.text[i] ELSE IF i <= c + n + Len(o) THEN o[i - (c + n)]
                          ELSE t.text[i - Len(o)]
          BY <2>8, <4>1 DEF Pushed
        <4>3. ~(i <= c + n) /\ i <= c + n + 1 => i - (c + n) = 1
          BY <2>1
        <4> QED  BY <2>4, <4>1, <4>2, <4>3
      <3>2. v.text[i] = IF i <= c THEN e.text[i] ELSE IF i <= c + n + 1 THEN w[i - c]
                        ELSE e.text[i - (n + 1)]
        <4>1. i \in 1..(Len(e.text) + Len(w)) /\ c + Len(w) = c + n + 1 /\ Len(w) = n + 1
          BY <2>1, <2>2
        <4>2. v.text[i] = IF i <= c THEN e.text[i] ELSE IF i <= c + Len(w) THEN w[i - c]
                          ELSE e.text[i - Len(w)]
          BY <2>9, <4>1 DEF Pushed
        <4> QED  BY <4>1, <4>2
      <3>3. \A j \in 1..(Len(e.text) + n) :
               t.text[j] = IF j <= c THEN e.text[j] ELSE IF j <= c + n THEN chars[j - c]
                           ELSE e.text[j - n]
        BY <2>1, <2>6 DEF Pushed
      <3>4. CASE i <= c
        <4>1. i \in 1..(Len(e.text) + n) /\ i <= c + n
          BY <2>1, <3>4
        <4> QED  BY <3>1, <3>2, <3>3, <3>4, <4>1
      <3>5. CASE i > c /\ i <= c + n
        <4>1. i \in 1..(Len(e.text) + n) /\ ~(i <= c) /\ i <= c + n + 1 /\ i - c \in 1..n
          BY <2>1, <3>5
        <4> QED  BY <2>3, <3>1, <3>2, <3>3, <3>5, <4>1
      <3>6. CASE i = c + n + 1
        BY <2>1, <2>3, <3>1, <3>2, <3>6
      <3>7. CASE i > c + n + 1
        <4>1. /\ i - 1 \in 1..(Len(e.text) + n) /\ ~(i - 1 <= c + n) /\ ~(i - 1 <= c)
              /\ ~(i <= c) /\ ~(i <= c + n) /\ ~(i <= c + n + 1) /\ (i - 1) - n = i - (n + 1)
          BY <2>1, <3>7
        <4>2. t.text[i - 1] = e.text[(i - 1) - n]
          BY <3>3, <4>1
        <4> QED  BY <3>1, <3>2, <4>1, <4>2
      <3>8. i <= c \/ (i > c /\ i <= c + n) \/ i = c + n + 1 \/ i > c + n + 1
        BY <2>1
      <3> QED  BY <3>4, <3>5, <3>6, <3>7, <3>8
    <2>12. u.text = v.text
      BY <2>8, <2>9, <2>10, <2>11, SeqSame
    <2>13. u = v
      BY <2>8, <2>9, <2>10, <2>12
    <2> QED  BY <2>13 DEF u, v, t, w, o
  <1> QED  BY <1>1, <1>2
\* A masked field takes characters at its end as one that shows its text.
LEMMA MaskedTyped ==
  ASSUME TypeOK, typed # <<>>, Len(buffer) + Len(typed) < MaxLen, cursor >= Len(buffer)
  PROVE  LET masked == [text |-> Stars(Len(buffer)), cur |-> cursor]
         IN /\ Stored(TypedIn(masked, typed).text) = TypedIn(Now, typed).text
            /\ TypedIn(masked, typed).cur = TypedIn(Now, typed).cur
  <1> DEFINE L == Len(buffer)
             S == Letters \cup {Star}
             m == [text |-> Stars(L), cur |-> cursor]
             u == TypedIn(m, typed)
             v == TypedIn(Now, typed)
  <1>1. /\ L \in Nat /\ L = Len(buffer) /\ typed \in Seq(S) /\ buffer \in Seq(S)
        /\ cursor \in 0..MaxLen
    BY DEF TypeOK
  <1>2. Stars(L) \in Seq(S) /\ Len(Stars(L)) = L
    BY <1>1, FunctionIsSeq DEF Stars
  <1>3. m \in [text : Seq(S), cur : 0..MaxLen] /\ m.text = Stars(L) /\ m.cur = cursor
    BY <1>1, <1>2
  <1>4. Now \in [text : Seq(S), cur : 0..MaxLen] /\ Now.text = buffer /\ Now.cur = cursor
    BY <1>1 DEF Now
  <1> HIDE DEF L, S, m
  <1>5. u \in [text : Seq(S), cur : 0..MaxLen] /\ Pushed(u, m, L, typed)
    <2>1. L = IF m.cur > Len(m.text) THEN Len(m.text) ELSE m.cur
      BY <1>1, <1>2, <1>3, TypingAssumption
    <2>2. Len(m.text) + Len(typed) <= MaxLen
      BY <1>1, <1>2, <1>3, TypingAssumption
    <2> QED  BY <1>1, <1>3, <2>1, <2>2, TypedText
  <1>6. v \in [text : Seq(S), cur : 0..MaxLen] /\ Pushed(v, Now, L, typed)
    <2>1. L = IF Now.cur > Len(Now.text) THEN Len(Now.text) ELSE Now.cur
      BY <1>1, <1>4, TypingAssumption
    <2>2. Len(Now.text) + Len(typed) <= MaxLen
      BY <1>1, <1>4, TypingAssumption
    <2> QED  BY <1>1, <1>4, <2>1, <2>2, TypedText
  <1> HIDE DEF u, v
  <1>7. /\ Len(u.text) = L + Len(typed) /\ Len(v.text) = L + Len(typed)
        /\ u.cur = v.cur
    BY <1>1, <1>2, <1>3, <1>4, <1>5, <1>6 DEF Pushed
  <1>8. Stored(u.text) \in Seq(S) /\ Len(Stored(u.text)) = L + Len(typed)
    BY <1>5, <1>7, StoredFacts DEF S
  <1>9. ASSUME NEW i \in 1..(L + Len(typed)) PROVE Stored(u.text)[i] = v.text[i]
    <2>1. Stored(u.text)[i] = IF i <= L THEN buffer[i] ELSE u.text[i]
      BY <1>1, <1>7 DEF Stored
    <2>2. u.text[i] = IF i <= L THEN m.text[i] ELSE IF i <= L + Len(typed) THEN typed[i - L]
                      ELSE m.text[i - Len(typed)]
      BY <1>2, <1>3, <1>5 DEF Pushed
    <2>3. v.text[i] = IF i <= L THEN buffer[i] ELSE IF i <= L + Len(typed) THEN typed[i - L]
                      ELSE buffer[i - Len(typed)]
      BY <1>1, <1>4, <1>6 DEF Pushed
    <2> QED  BY <1>1, <2>1, <2>2, <2>3
  <1>10. Stored(u.text) = v.text
    BY <1>6, <1>7, <1>8, <1>9, SeqSame
  <1> QED  BY <1>7, <1>10 DEF u, v, m, L

\* What is kept of a string of stars of the old length, or shorter.
LEMMA MaskedShort ==
  ASSUME TypeOK, NEW t \in Seq(Letters \cup {Star}), Len(t) <= Len(buffer)
  PROVE  /\ Stored(t) = [i \in 1..Len(t) |-> buffer[i]]
         /\ Len(t) = Len(buffer) => Stored(t) = buffer
  <1>1. Stored(t) = [i \in 1..Len(t) |-> buffer[i]]
    BY DEF Stored, TypeOK
  <1>2. ASSUME Len(t) = Len(buffer) PROVE Stored(t) = buffer
    <2>1. Stored(t) \in Seq(Letters \cup {Star}) /\ Len(Stored(t)) = Len(buffer)
      BY <1>2, StoredFacts
    <2>2. \A i \in 1..Len(buffer) : Stored(t)[i] = buffer[i]
      BY <1>1, <1>2
    <2> QED  BY <2>1, <2>2, SeqSame DEF TypeOK
  <1> QED  BY <1>1, <1>2

\* One key by itself does to a masked field what it does to one that shows its text.
LEMMA MaskedKey ==
  ASSUME TypeOK, NEW k \in EditKeys, k = "backspace" => cursor >= Len(buffer)
  PROVE  LET masked == [text |-> Stars(Len(buffer)), cur |-> cursor]
         IN /\ Stored(KeysIn(masked, {k}).text) = KeysIn(Now, {k}).text
            /\ KeysIn(masked, {k}).cur = KeysIn(Now, {k}).cur
  <1> DEFINE L == Len(buffer)
             S == Letters \cup {Star}
             m == [text |-> Stars(L), cur |-> cursor]
  <1> SUFFICES /\ Stored(KeysIn(m, {k}).text) = KeysIn(Now, {k}).text
               /\ KeysIn(m, {k}).cur = KeysIn(Now, {k}).cur
    OBVIOUS
  <1>1. L \in Nat /\ L = Len(buffer) /\ buffer \in Seq(S) /\ cursor \in 0..MaxLen /\ L <= MaxLen
    BY DEF TypeOK
  <1>2. Stars(L) \in Seq(S) /\ Len(Stars(L)) = L
    BY <1>1, FunctionIsSeq DEF Stars
  <1>3. m \in [text : Seq(S), cur : 0..MaxLen] /\ m.text = Stars(L) /\ m.cur = cursor
    BY <1>1, <1>2
  <1>4. Now \in [text : Seq(S), cur : 0..MaxLen] /\ Now.text = buffer /\ Now.cur = cursor
    BY <1>1 DEF Now
  <1>5. Stored(Stars(L)) = buffer
    BY <1>1, <1>2, MaskedShort
  <1> HIDE DEF L, S, m
  <1>6. CASE k = "left"
    <2>1. KeysIn(m, {k}) = LeftKey(m) /\ KeysIn(Now, {k}) = LeftKey(Now)
      BY <1>6 DEF KeysIn
    <2>2. LeftKey(m).text = Stars(L) /\ LeftKey(Now).text = buffer
      BY <1>1, <1>2, <1>3, <1>4, ArrowFacts
    <2>3. LeftKey(m).cur = LeftKey(Now).cur
      BY <1>3, <1>4 DEF LeftKey
    <2> QED  BY <1>5, <2>1, <2>2, <2>3
  <1>7. CASE k = "right"
    <2>1. KeysIn(m, {k}) = RightKey(m) /\ KeysIn(Now, {k}) = RightKey(Now)
      BY <1>7 DEF KeysIn
    <2>2. RightKey(m).text = Stars(L) /\ RightKey(Now).text = buffer
      BY <1>1, <1>2, <1>3, <1>4, ArrowFacts
    <2>3. RightKey(m).cur = RightKey(Now).cur
      BY <1>1, <1>2, <1>3, <1>4 DEF RightKey, Clamp
    <2> QED  BY <1>5, <2>1, <2>2, <2>3
  <1>8. CASE k = "backspace"
    <2>1. KeysIn(m, {k}) = BackspaceKey(m) /\ KeysIn(Now, {k}) = BackspaceKey(Now)
      BY <1>8 DEF KeysIn
    <2>2. /\ Clamp(m).cur = L /\ Clamp(m).text = Stars(L)
          /\ Clamp(Now).cur = L /\ Clamp(Now).text = buffer
      <3>1. cursor >= L
        BY <1>8 DEF L
      <3> QED  BY <1>1, <1>2, <1>3, <1>4, <3>1, ClampFacts, TypingAssumption
    <2>3. CASE L = 0
      <3>1. BackspaceKey(m) = Clamp(m) /\ BackspaceKey(Now) = Clamp(Now)
        BY <2>2, <2>3 DEF BackspaceKey
      <3> QED  BY <1>5, <2>1, <2>2, <3>1
    <2>4. CASE L # 0
      <3> DEFINE f == [i \in 1..(L - 1) |-> IF i < L THEN Stars(L)[i] ELSE Stars(L)[i + 1]]
      <3>1. /\ BackspaceKey(m) = [text |-> f, cur |-> L - 1]
            /\ BackspaceKey(Now) = [text |-> [i \in 1..(L - 1) |-> IF i < L THEN buffer[i]
                                                                  ELSE buffer[i + 1]],
                                    cur |-> L - 1]
        BY <1>1, <1>2, <2>2, <2>4 DEF BackspaceKey
      <3>2. BackspaceKey(Now).text = [i \in 1..(L - 1) |-> buffer[i]]
        BY <1>1, <3>1
      <3>3. f \in Seq(S) /\ Len(f) = L - 1
        <4>1. L - 1 \in Nat
          BY <1>1, <2>4
        <4>2. f \in [1..(L - 1) -> S]
          BY <1>1, <1>2, <4>1
        <4> HIDE DEF f
        <4> QED  BY <4>1, <4>2, FunctionIsSeq
      <3> HIDE DEF f
      <3>4. Stored(f) = [i \in 1..(L - 1) |-> buffer[i]]
        <4>1. Len(f) <= Len(buffer)
          BY <1>1, <3>3
        <4>2. Stored(f) = [i \in 1..Len(f) |-> buffer[i]]
          BY <3>3, <4>1, MaskedShort DEF S
        <4> QED  BY <3>3, <4>2
      <3>5. BackspaceKey(m).cur = BackspaceKey(Now).cur
        BY <3>1
      <3>6. BackspaceKey(m).text = f
        BY <3>1
      <3> QED  BY <2>1, <3>2, <3>4, <3>5, <3>6
    <2> QED  BY <2>3, <2>4
  <1> QED  BY <1>6, <1>7, <1>8 DEF EditKeys

\* A frame makes of the field what was meant.
LEMMA FrameStores ==
  ASSUME TypeOK, StoredInv, calm, Frame
  PROVE  buffer' = meant.text /\ cursor' = meant.cur /\ Len(buffer') < MaxLen
  <1> DEFINE shown == IF show_passwords THEN buffer ELSE Stars(Len(buffer))
             S == Letters \cup {Star}
             g == [text |-> shown, cur |-> cursor]
  <1>1. /\ buffer \in Seq(S) /\ Len(buffer) \in Nat /\ Len(buffer) < MaxLen /\ cursor \in 0..MaxLen
        /\ typed \in Seq(S) /\ Len(typed) \in Nat /\ Len(buffer) + Len(typed) < MaxLen
        /\ Len(buffer) <= MaxLen /\ Len(buffer) + Len(typed) <= MaxLen
    BY TypingAssumption DEF TypeOK, StoredInv
  <1>2. Stars(Len(buffer)) \in Seq(S) /\ Len(Stars(Len(buffer))) = Len(buffer)
    BY <1>1, FunctionIsSeq DEF Stars
  <1>3. Fitted(shown) = shown
    BY <1>1, <1>2, FittedFacts
  <1>4. LET edited == TypedIn(KeysIn(g, pressed), typed)
        IN /\ buffer' = IF show_passwords THEN edited.text ELSE Stored(edited.text)
           /\ cursor' = edited.cur
    BY <1>3 DEF Frame
  <1>5. Now \in [text : Seq(S), cur : 0..MaxLen] /\ Now.text = buffer /\ Now.cur = cursor
    BY <1>1 DEF Now
  <1>6. show_passwords => g = Now
    BY DEF Now
  <1>7. ~show_passwords => g = [text |-> Stars(Len(buffer)), cur |-> cursor]
    OBVIOUS
  <1> HIDE DEF g, S
  <1>8. CASE pressed = {} /\ meant = TypedIn(Now, typed)
    <2>1. KeysIn(g, pressed) = g
      BY <1>8 DEF KeysIn
    <2>2. Len(meant.text) < MaxLen
      <3>1. CASE typed = <<>>
        BY <1>1, <1>5, <1>8, <3>1 DEF TypedIn
      <3>2. CASE typed # <<>>
        <4> DEFINE c == IF Now.cur > Len(Now.text) THEN Len(Now.text) ELSE Now.cur
        <4>1. c \in Nat /\ c = IF Now.cur > Len(Now.text) THEN Len(Now.text) ELSE Now.cur
          BY <1>1, <1>5, TypingAssumption
        <4> HIDE DEF c
        <4>2. Len(Now.text) + Len(typed) <= MaxLen
          BY <1>1, <1>5
        <4>3. Pushed(TypedIn(Now, typed), Now, c, typed)
          BY <1>1, <1>5, <3>2, <4>1, <4>2, TypedText
        <4> QED  BY <1>1, <1>5, <1>8, <4>3 DEF Pushed
      <3> QED  BY <3>1, <3>2
    <2>3. CASE show_passwords
      BY <1>4, <1>6, <1>8, <2>1, <2>2, <2>3
    <2>4. CASE ~show_passwords /\ typed = <<>>
      <3>1. TypedIn(g, typed) = g /\ meant = Now
        BY <1>8, <2>4 DEF TypedIn
      <3>2. g.text = Stars(Len(buffer)) /\ g.cur = cursor
        BY <1>7, <2>4
      <3>3. Stored(Stars(Len(buffer))) = buffer
        BY <1>1, <1>2, MaskedShort DEF S
      <3> QED  BY <1>4, <1>5, <2>1, <2>2, <2>4, <3>1, <3>2, <3>3
    <2>5. CASE ~show_passwords /\ typed # <<>>
      <3>1. cursor >= Len(buffer)
        BY <2>5 DEF StoredInv, AtEnd
      <3>2. /\ Stored(TypedIn(g, typed).text) = TypedIn(Now, typed).text
            /\ TypedIn(g, typed).cur = TypedIn(Now, typed).cur
        BY <1>1, <1>7, <2>5, <3>1, MaskedTyped
      <3> QED  BY <1>4, <1>8, <2>1, <2>2, <2>5, <3>2
    <2> QED  BY <2>3, <2>4, <2>5
  <1>9. ASSUME NEW k \in EditKeys, typed = <<>>, pressed = {k}, meant = KeysIn(Now, {k})
        PROVE  buffer' = meant.text /\ cursor' = meant.cur /\ Len(buffer') < MaxLen
    <2>1. TypedIn(KeysIn(g, pressed), typed) = KeysIn(g, {k})
      BY <1>9 DEF TypedIn
    <2>2. Len(meant.text) < MaxLen
      <3>1. Len(KeysIn(Now, {k}).text) <= Len(Now.text) /\ KeysIn(Now, {k}).text \in Seq(S)
        BY <1>1, <1>5, KeysFacts
      <3> QED  BY <1>1, <1>5, <1>9, <3>1, TypingAssumption
    <2>3. CASE show_passwords
      BY <1>4, <1>6, <1>9, <2>1, <2>2, <2>3
    <2>4. CASE ~show_passwords
      <3>1. k = "backspace" => cursor >= Len(buffer)
        BY <1>9, <2>4 DEF StoredInv, AtEnd
      <3>2. /\ Stored(KeysIn(g, {k}).text) = KeysIn(Now, {k}).text
            /\ KeysIn(g, {k}).cur = KeysIn(Now, {k}).cur
        BY <1>7, <2>4, <3>1, MaskedKey
      <3> QED  BY <1>4, <1>9, <2>1, <2>2, <2>4, <3>2
    <2> QED  BY <2>3, <2>4
  <1> QED  BY <1>8, <1>9 DEF StoredInv, Pending

\* Nothing was typed in this frame: what was meant is what is there.
LEMMA NothingPending ==
  ASSUME typed = <<>>, pressed = {}
  PROVE  Pending <=> meant = Now
  BY DEF Pending, TypedIn

LEMMA StoredInit == Init => StoredInv
  <1> SUFFICES ASSUME Init PROVE StoredInv
    OBVIOUS
  <1>1. Pending
    BY NothingPending DEF Init, Now
  <1>2. Len(buffer) + Len(typed) < MaxLen
    BY TypingAssumption DEF Init
  <1>3. calm => shift_pressed = (down # {}) /\ down # Sides
    BY DEF Init, Sides
  <1> QED  BY <1>1, <1>2, <1>3 DEF Init, StoredInv

LEMMA StoredStep == TypeOK /\ StoredInv /\ [Next]_vars => StoredInv'
  <1> SUFFICES ASSUME TypeOK, StoredInv, [Next]_vars PROVE StoredInv'
    OBVIOUS
  <1>1. ASSUME NEW s \in Sides, Shift(s) PROVE StoredInv'
    <2>1. handled' # 0
      BY <1>1, TypingAssumption DEF Shift, TypeOK
    <2>2. ASSUME calm' PROVE calm /\ meant' = meant /\ down' # Sides
      BY <1>1, <2>2 DEF Shift, Intended
    <2>3. ASSUME calm' PROVE shift_pressed' = (down' # {})
      <3>1. /\ shift_pressed' = (s \in down') /\ down' \in {down \cup {s}, down \ {s}}
            /\ down' = down => s \in down
        BY <1>1 DEF Shift, Flag
      <3>2. down \subseteq Sides /\ down # Sides
        BY <2>2, <2>3 DEF StoredInv, TypeOK
      <3>3. CASE down' = down \cup {s}
        BY <3>1, <3>3
      <3>4. CASE down' = down \ {s}
        <4>1. s \in down
          BY <3>1, <3>4
        <4>2. down = {s}
          BY <3>2, <4>1 DEF Sides
        <4> QED  BY <3>1, <3>4, <4>2
      <3> QED  BY <3>1, <3>3, <3>4
    <2>4. Pending /\ calm' => Pending'
      BY <1>1, <2>2 DEF Shift, Pending, Now
    <2> QED  BY <1>1, <2>1, <2>2, <2>3, <2>4 DEF Shift, StoredInv, AtEnd
  <1>2. CASE Char
    <2>1. handled' # 0
      BY <1>2, TypingAssumption DEF Char, TypeOK
    <2>2. ASSUME calm'
          PROVE  /\ calm /\ AtEnd /\ pressed = {} /\ Len(typed) + 1 < InputMax
                 /\ Len(buffer) + Len(typed) + 1 < MaxLen
                 /\ typed' = Append(typed, Letter(down # {}))
                 /\ meant' = TypedIn(meant, <<Letter(down # {})>>)
      BY <1>2, <2>2 DEF Char, Intended, StoredInv
    <2>3. ASSUME calm' PROVE Pending'
      <3> DEFINE S == Letters \cup {Star}
                 x == Letter(down # {})
      <3>1. meant = TypedIn(Now, typed)
        BY <2>2, <2>3 DEF StoredInv, Pending
      <3>2. Now \in [text : Seq(S), cur : 0..MaxLen] /\ Len(Now.text) + Len(typed) + 1 <= MaxLen
        BY <2>2, <2>3, TypingAssumption DEF Now, TypeOK
      <3>3. typed \in Seq(S) /\ x \in S
        BY DEF TypeOK, Letter, Letters
      <3>4. typed' = Append(typed, x) /\ meant' = TypedIn(meant, <<x>>)
        BY <2>2, <2>3
      <3> HIDE DEF S, x
      <3>5. TypedIn(TypedIn(Now, typed), <<x>>) = TypedIn(Now, Append(typed, x))
        BY <3>2, <3>3, TypedAppend
      <3>6. Now' = Now /\ pressed' = {}
        BY <1>2, <2>2, <2>3 DEF Char, Now
      <3> QED  BY <3>1, <3>4, <3>5, <3>6 DEF Pending
    <2>4. ASSUME calm' PROVE Len(buffer') + Len(typed') < MaxLen
      <3>1. Len(typed') = Len(typed) + 1
        BY <2>2, <2>4 DEF TypeOK
      <3>2. Len(typed) \in Nat /\ Len(buffer) \in Nat /\ buffer' = buffer
        BY <1>2 DEF TypeOK, Char
      <3> QED  BY <2>2, <2>4, <3>1, <3>2, TypingAssumption
    <2> QED  BY <1>2, <2>1, <2>2, <2>3, <2>4 DEF Char, StoredInv, AtEnd
  <1>3. ASSUME NEW k \in EditKeys, EditKey(k) PROVE StoredInv'
    <2>1. handled' # 0
      BY <1>3, TypingAssumption DEF EditKey, TypeOK
    <2>2. ASSUME calm'
          PROVE  /\ calm /\ typed = <<>> /\ pressed = {} /\ pressed' = {k}
                 /\ k = "backspace" => AtEnd
                 /\ meant' = KeysIn(meant, {k})
      BY <1>3, <2>2 DEF EditKey, Intended
    <2>3. ASSUME calm' PROVE Pending'
      <3>1. meant = Now
        BY <2>2, <2>3, NothingPending DEF StoredInv
      <3>2. Now' = Now /\ typed' = <<>>
        BY <1>3, <2>2, <2>3 DEF EditKey, Now
      <3> QED  BY <2>2, <2>3, <3>1, <3>2 DEF Pending
    <2> QED  BY <1>3, <2>1, <2>2, <2>3 DEF EditKey, StoredInv, AtEnd
  <1>4. CASE Other
    <2>1. handled' # 0
      BY <1>4, TypingAssumption DEF Other, TypeOK
    <2> QED  BY <1>4, <2>1 DEF Other, StoredInv, Pending, Now, AtEnd
  <1>5. CASE Drop
    <2>1. handled' # 0
      BY <1>5, TypingAssumption DEF Drop
    <2> QED  BY <1>5, <2>1 DEF Drop, StoredInv
  <1>6. CASE Frame
    <2>1. typed' = <<>> /\ pressed' = {} /\ UNCHANGED <<down, shift_pressed, calm, meant>>
      BY <1>6 DEF Frame
    <2>2. ASSUME calm PROVE Pending' /\ Len(buffer') + Len(typed') < MaxLen
      <3>1. buffer' = meant.text /\ cursor' = meant.cur /\ Len(buffer') < MaxLen
        BY <1>6, <2>2, FrameStores
      <3>2. meant = [text |-> meant.text, cur |-> meant.cur]
        BY DEF TypeOK
      <3>3. meant' = Now'
        BY <2>1, <3>1, <3>2 DEF Now
      <3>4. Pending'
        BY <2>1, <3>3 DEF Pending, TypedIn
      <3>5. Len(meant.text) \in Nat
        BY DEF TypeOK
      <3> QED  BY <2>1, <3>1, <3>4, <3>5, TypingAssumption
    <2> QED  BY <2>1, <2>2 DEF StoredInv
  <1>7. ASSUME Between, typed = <<>>, pressed = {}, calm' => meant' = Now',
               calm' => shift_pressed = (down # {}) /\ down # Sides,
               calm' => Len(buffer') < MaxLen /\ Len(buffer') \in Nat
        PROVE  StoredInv'
    <2>1. typed' = <<>> /\ pressed' = {} /\ UNCHANGED <<down, shift_pressed>>
      BY <1>7 DEF Between
    <2>2. calm' => Pending'
      BY <1>7, <2>1 DEF Pending, TypedIn
    <2>3. calm' => Len(buffer') + Len(typed') < MaxLen
      BY <1>7, <2>1, TypingAssumption
    <2> QED  BY <1>7, <2>1, <2>2, <2>3 DEF StoredInv
  <1>8. ASSUME Between PROVE /\ typed = <<>> /\ pressed = {}
                             /\ calm => /\ meant = Now /\ Len(buffer) < MaxLen /\ Len(buffer) \in Nat
                                        /\ shift_pressed = (down # {}) /\ down # Sides
    <2>1. typed = <<>> /\ pressed = {}
      BY <1>8 DEF Between, StoredInv
    <2>2. calm => meant = Now
      BY <2>1, NothingPending DEF StoredInv
    <2>3. calm => Len(buffer) < MaxLen /\ Len(buffer) \in Nat
      BY <2>1, TypingAssumption DEF StoredInv, TypeOK
    <2> QED  BY <2>1, <2>2, <2>3 DEF StoredInv
  <1>9. CASE CursorMoved
    <2>1. /\ Between /\ UNCHANGED <<buffer, calm>>
          /\ meant' = Intended(calm, [meant EXCEPT !.cur = cursor'])
      BY <1>9 DEF CursorMoved
    <2>2. calm => meant' = Now'
      BY <1>8, <2>1 DEF Intended, Now
    <2> QED  BY <1>7, <1>8, <2>1, <2>2
  <1>10. CASE ToggleShow
    <2>1. Between /\ UNCHANGED <<buffer, cursor, meant, calm>>
      BY <1>10 DEF ToggleShow
    <2>2. calm => meant' = Now'
      BY <1>8, <2>1 DEF Now
    <2> QED  BY <1>7, <1>8, <2>1, <2>2
  <1>11. CASE Cleared
    <2>1. /\ Between /\ buffer' = <<>>
          /\ calm' = (shift_pressed = (down # {}) /\ down # Sides)
          /\ meant' = Intended(calm', [text |-> <<>>, cur |-> cursor'])
      BY <1>11 DEF Cleared
    <2>2. calm' => meant' = Now'
      BY <2>1 DEF Intended, Now
    <2>3. Len(buffer') < MaxLen /\ Len(buffer') \in Nat
      BY <2>1, TypingAssumption
    <2> QED  BY <1>7, <1>8, <2>1, <2>2, <2>3
  <1>12. CASE UNCHANGED vars
    BY <1>12 DEF vars, StoredInv, Pending, Now, AtEnd
  <1> QED
    BY <1>1, <1>2, <1>3, <1>4, <1>5, <1>6, <1>9, <1>10, <1>11, <1>12 DEF Next, Event

\* A field used in safe ways holds what was typed, for any limits of the frame, of
\* nuklear and of the field.
THEOREM TypedIsStored == Spec => []StoredAsTyped
  <1>1. TypeOK /\ StoredInv => StoredAsTyped
    <2> SUFFICES ASSUME TypeOK, StoredInv, calm, handled = 0
                 PROVE  buffer = meant.text /\ cursor = meant.cur
      BY DEF StoredAsTyped
    <2>1. meant = Now
      BY NothingPending DEF StoredInv
    <2> QED  BY <2>1 DEF Now
  <1> QED  BY <1>1, StoredInit, StoredStep, TypeCorrect, PTL DEF Spec
=============================================================================
