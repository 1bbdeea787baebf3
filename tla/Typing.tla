------------------------------- MODULE Typing -------------------------------
(***************************************************************************)
(* What becomes of the keys a user types into a password field of the      *)
(* rescue GUI (cad_rescue_gui.c): the events of a frame, the shift flag,   *)
(* nuklear's edit of the frame, and the field that shows stars.            *)
(*                                                                         *)
(* A frame reads events one by one, at most MaxEvents and one that it      *)
(* drops.  nuklear sees of them the keys that were pressed, each once, and *)
(* then the characters, fewer than NK_INPUT_MAX.  A masked field is edited *)
(* as a string of stars, of which only the part past the old length is     *)
(* copied to the password.                                                 *)
(*                                                                         *)
(* One field is followed.  The other fields of its window share the cursor *)
(* (win->edit.cursor).  Space never reaches a password.  A change of the   *)
(* focus between two characters of a frame, and a selection made by        *)
(* dragging the mouse, are left out.                                       *)
(***************************************************************************)
EXTENDS Naturals, Sequences

CONSTANTS MaxEvents,    \* 64: events a frame handles; it reads one more
          InputMax,     \* NK_INPUT_MAX, 16
          MaxLen        \* 255: the bytes nk_edit_string is given

ASSUME TypingAssumption ==
    MaxEvents \in Nat /\ InputMax \in Nat \ {0} /\ MaxLen \in Nat \ {0}

Sides == {"left", "right"}
EditKeys == {"backspace", "left", "right"}
Letters == {"lower", "upper"}
Star == "*"

VARIABLES
    down,           \* the shift keys that are down, as far as events were read
    shift_pressed,
    handled,        \* events of this frame; MaxEvents + 1 once one was dropped
    typed,          \* characters of this frame, in nuklear's hands
    pressed,        \* keys of nuklear's editor pressed in this frame
    buffer,         \* the password, with its length
    cursor,         \* win->edit.cursor
    show_passwords, \* the field shows its text
    \* for the properties
    meant,          \* text and cursor, if every key had its own effect in its turn
    calm,           \* the field was only used in the ways that are safe
    lost            \* the last shift event was read and dropped

vars == <<down, shift_pressed, handled, typed, pressed, buffer, cursor, show_passwords,
          meant, calm, lost>>

-----------------------------------------------------------------------------
(* The text editor of nuklear.h: a text and a cursor.                      *)

Clamp(e) == [e EXCEPT !.cur = IF e.cur > Len(e.text) THEN Len(e.text) ELSE e.cur]

BackspaceKey(e) ==
    LET c == Clamp(e)
    IN IF c.cur = 0 THEN c
       ELSE [text |-> [i \in 1..(Len(c.text) - 1) |-> IF i < c.cur THEN c.text[i]
                                                      ELSE c.text[i + 1]],
             cur |-> c.cur - 1]

LeftKey(e) == IF e.cur = 0 THEN e ELSE [e EXCEPT !.cur = e.cur - 1]
RightKey(e) == Clamp([e EXCEPT !.cur = e.cur + 1])

\* Each key once, in the order of enum nk_keys.
KeysIn(e, keys) ==
    LET e1 == IF "backspace" \in keys THEN BackspaceKey(e) ELSE e
        e2 == IF "left" \in keys THEN LeftKey(e1) ELSE e1
    IN IF "right" \in keys THEN RightKey(e2) ELSE e2

\* Mutant: the size of the buffer is given instead of the room in it.
RoomOver(text) == MaxLen + 1 - Len(text)

\* The field may hold as many bytes as nk_edit_string is given.
Room(text) == MaxLen - Len(text)

\* The characters that have room, at the cursor.
TypedIn(e, chars) ==
    LET c == Clamp(e)
        n == IF Len(chars) < Room(e.text) THEN Len(chars) ELSE Room(e.text)
    IN IF chars = <<>> THEN e
       ELSE [text |-> [i \in 1..(Len(e.text) + n) |-> IF i <= c.cur THEN e.text[i]
                                                      ELSE IF i <= c.cur + n THEN chars[i - c.cur]
                                                      ELSE e.text[i - n]],
             cur |-> c.cur + n]

\* nk_edit_string gives the last byte up before it edits.
Fitted(text) == IF Len(text) < MaxLen THEN text ELSE [i \in 1..(MaxLen - 1) |-> text[i]]

-----------------------------------------------------------------------------
(* The events of a frame.                                                  *)

\* What the user means, as long as that is followed.
Intended(followed, e) == IF followed THEN e ELSE [text |-> <<>>, cur |-> 0]

\* Mutant: only the left key is seen to go up.
FlagOfLeft(s, d) == s \in d \/ (s = "right" /\ shift_pressed)

\* Both shift keys write the one flag.
Flag(s, d) == s \in d

\* One of the shift keys goes down, repeats or goes up; calm while only one is used.
Shift(s) ==
    /\ handled < MaxEvents /\ handled' = handled + 1
    /\ down' \in {down \cup {s}, down \ {s}}
    /\ down' = down => s \in down
    /\ shift_pressed' = Flag(s, down')
    /\ lost' = FALSE
    /\ calm' = (calm /\ down' # Sides)
    /\ meant' = Intended(calm', meant)
    /\ UNCHANGED <<typed, pressed, buffer, cursor, show_passwords>>

\* A letter has the case of the flag.
Letter(shift) == IF shift THEN "upper" ELSE "lower"

\* The cursor is where a masked field can be edited.
AtEnd == show_passwords \/ cursor >= Len(buffer)

\* A character, calm if it has room everywhere and no key of the editor came before it.
Char ==
    /\ handled < MaxEvents /\ handled' = handled + 1
    /\ typed' = IF Len(typed) + 1 < InputMax THEN Append(typed, Letter(shift_pressed)) ELSE typed
    /\ calm' = (/\ calm /\ AtEnd /\ pressed = {}
                /\ Len(typed) + 1 < InputMax
                /\ Len(buffer) + Len(typed) + 1 < MaxLen)
    /\ meant' = Intended(calm', TypedIn(meant, <<Letter(down # {})>>))
    /\ UNCHANGED <<down, shift_pressed, pressed, buffer, cursor, show_passwords, lost>>

\* A key of the editor, calm if it is the only thing of its frame.
EditKey(k) ==
    /\ handled < MaxEvents /\ handled' = handled + 1
    /\ pressed' = pressed \cup {k}
    /\ calm' = (/\ calm /\ typed = <<>> /\ pressed = {}
                /\ k = "backspace" => AtEnd)
    /\ meant' = Intended(calm', KeysIn(meant, {k}))
    /\ UNCHANGED <<down, shift_pressed, typed, buffer, cursor, show_passwords, lost>>

\* Keys that go up, keys of no field, and events that are not of a key.
Other ==
    /\ handled < MaxEvents /\ handled' = handled + 1
    /\ UNCHANGED <<down, shift_pressed, typed, pressed, buffer, cursor, show_passwords,
                   meant, calm, lost>>

\* The read that finds the limit passed has taken its event from the queue: one of a
\* shift key, or another.
Drop ==
    /\ handled = MaxEvents /\ handled' = MaxEvents + 1
    /\ \/ \E s \in Sides : down' \in {down \cup {s}, down \ {s}} /\ lost' = TRUE
       \/ UNCHANGED <<down, lost>>
    /\ calm' = FALSE /\ meant' = Intended(FALSE, meant)
    /\ UNCHANGED <<shift_pressed, typed, pressed, buffer, cursor, show_passwords>>

-----------------------------------------------------------------------------
(* The field.                                                              *)

Stars(n) == [i \in 1..n |-> Star]

\* Mutant: all of what was edited is copied.
StoredAll(edited) == edited

\* What is kept of an edited string of stars.
Stored(edited) ==
    [i \in 1..Len(edited) |-> IF i <= Len(buffer) THEN buffer[i] ELSE edited[i]]

\* The rest of a frame whose focus is in the field.
Frame ==
    /\ LET shown == IF show_passwords THEN buffer ELSE Stars(Len(buffer))
           edited == TypedIn(KeysIn([text |-> Fitted(shown), cur |-> cursor], pressed), typed)
       IN /\ buffer' = IF show_passwords THEN edited.text ELSE Stored(edited.text)
          /\ cursor' = edited.cur
    /\ handled' = 0 /\ typed' = <<>> /\ pressed' = {}
    /\ UNCHANGED <<down, shift_pressed, show_passwords, meant, calm, lost>>

\* Between the frames that change the field.
Between == handled = 0 /\ UNCHANGED <<down, shift_pressed, handled, typed, pressed, lost>>

\* Tab to another field, some keys there, and back; or a click somewhere in the text.
CursorMoved ==
    /\ Between
    /\ cursor' \in 0..MaxLen
    /\ meant' = Intended(calm, [meant EXCEPT !.cur = cursor'])
    /\ UNCHANGED <<buffer, show_passwords, calm>>

\* The box of the window to change the password.
ToggleShow ==
    /\ Between
    /\ show_passwords' = ~show_passwords
    /\ UNCHANGED <<buffer, cursor, meant, calm>>

\* The window was closed, or its contents were sent: the buffer is cleared, and the
\* cursor stays where it is as long as the window does.
Cleared ==
    /\ Between
    /\ buffer' = <<>> /\ cursor' \in {0, cursor}
    /\ calm' = (shift_pressed = (down # {}) /\ down # Sides)
    /\ meant' = Intended(calm', [text |-> <<>>, cur |-> cursor'])
    /\ UNCHANGED show_passwords

-----------------------------------------------------------------------------
(* The user may hold keys as the GUI starts.                               *)
Init ==
    /\ down \in SUBSET Sides /\ shift_pressed = FALSE
    /\ handled = 0 /\ typed = <<>> /\ pressed = {}
    /\ buffer = <<>> /\ cursor = 0 /\ show_passwords = FALSE
    /\ calm = (down = {}) /\ meant = [text |-> <<>>, cur |-> 0] /\ lost = FALSE

Event ==
    \/ \E s \in Sides : Shift(s)
    \/ Char
    \/ \E k \in EditKeys : EditKey(k)
    \/ Other
    \/ Drop

Next == Event \/ Frame \/ CursorMoved \/ ToggleShow \/ Cleared

Spec == Init /\ [][Next]_vars

-----------------------------------------------------------------------------
(* Properties.                                                             *)

TypeOK ==
    /\ down \subseteq Sides /\ shift_pressed \in BOOLEAN
    /\ handled \in 0..(MaxEvents + 1)
    /\ typed \in Seq(Letters) /\ Len(typed) < InputMax
    /\ pressed \subseteq EditKeys
    /\ buffer \in Seq(Letters \cup {Star}) /\ Len(buffer) <= MaxLen
    /\ cursor \in 0..MaxLen
    /\ show_passwords \in BOOLEAN
    /\ meant \in [text : Seq(Letters), cur : 0..MaxLen] /\ Len(meant.text) <= MaxLen
    /\ calm \in BOOLEAN /\ lost \in BOOLEAN

\* With both shift keys up the flag is down, whatever the order in which they were
\* used, unless the very last shift event was the one too many of its frame: the next
\* use of a shift key repairs a modifier that was left pressed.
ShiftComesUp == down = {} /\ ~lost => ~shift_pressed

\* Between frames, a field that was only used in safe ways holds what was typed, letter
\* by letter, and the cursor is where the keys have put it, with the passwords shown and
\* hidden in turn, keys held and fields visited in between.
StoredAsTyped == calm /\ handled = 0 => buffer = meant.text /\ cursor = meant.cur
=============================================================================
