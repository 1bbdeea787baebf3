----------------------------- MODULE AuthProofs -----------------------------
(* Proofs about Auth.  The texts and lines on their way are sequences of any  *)
(* length; the programs behave as freely as in the model.                     *)
EXTENDS Auth, SequenceTheorems, TLAPS

\* What a read leaves in the terminal is again texts.
LEMMA RestType ==
    ASSUME out \in Seq(Texts), NEW r \in Reads
    PROVE  Rest(r[1], r[2]) \in Seq(Texts)
<1>1. r[1] \in 1..Len(out) /\ r[2] \in BOOLEAN
  BY DEF Reads
<1>2. SubSeq(out, r[1] + 1, Len(out)) \in Seq(Texts)
  BY <1>1
<1>3. <<"noise">> \in Seq(Texts)
  BY DEF Texts
<1>4. <<"noise">> \o SubSeq(out, r[1] + 1, Len(out)) \in Seq(Texts)
  BY <1>2, <1>3
<1> QED BY <1>2, <1>4 DEF Rest

\* Sending a line keeps the lines and the flags.
LEMMA SendType ==
    ASSUME NEW l \in Lines, NEW f \in {"pass", "old", "new", "confirm"},
           input \in Seq(Lines), sent \subseteq {"pass", "old", "new", "confirm"},
           Send(l, f)
    PROVE  input' \in Seq(Lines) /\ sent' \subseteq {"pass", "old", "new", "confirm"}
BY DEF Send

\* A text said by a program is a text in the terminal.
LEMMA SaysType ==
    ASSUME NEW t \in Texts, out \in Seq(Texts), Says(t)
    PROVE  out' \in Seq(Texts)
BY DEF Says

\* A program exists only during a conversation, and asks its own questions.
Apart == gui \in {"idle", "fork", "shadow"} => child = "none"
Asking ==
    /\ child \in {"ready", "asked", "right", "wrong"} =>
          ask \in (IF prog = "passwd" THEN {"current", "new", "retype"} ELSE {"password"})
    /\ child = "updating" => prog = "passwd"

\* During a conversation the disposition to return to is the one of the loop.
Reaping ==
    IF gui \in {"idle", "fork", "shadow"} THEN sigchld = "nocldwait" ELSE old_sa = "nocldwait"

TypeInv == TypeOK /\ Apart /\ Asking /\ Reaping

\* Every step of a program keeps the types, and its questions are its own.
LEMMA ProgType == TypeInv /\ Prog => TypeInv'
<1> SUFFICES ASSUME TypeInv, Prog PROVE TypeInv'
  OBVIOUS
<1> USE DEF TypeInv, TypeOK, Apart, Asking, Reaping, guiVars, progVars, ttyVars, hostVars, Ends
<1>1. CASE ProgStart
  <2>1. out' \in Seq(Texts)
    <3>1. out' = out \/ Says("noise") \/ Says("password") \/ Says("new")
      BY <1>1 DEF ProgStart
    <3> QED BY <3>1, SaysType DEF Texts
  <2> QED BY <1>1, <2>1 DEF ProgStart
<1>2. CASE ProgAsk
  <2>1. ask \in Texts
    BY <1>2 DEF ProgAsk, Texts
  <2>2. out' \in Seq(Texts)
    BY <1>2, <2>1, SaysType DEF ProgAsk
  <2> QED BY <1>2, <2>2 DEF ProgAsk
<1>3. CASE ProgRead
  BY <1>3 DEF ProgRead
<1>4. CASE ProgCheck
  <2>1. out' = out \/ Says("short") \/ Says("wrong") \/ Says("noise")
    BY <1>4 DEF ProgCheck
  <2>2. out' \in Seq(Texts)
    BY <2>1, SaysType DEF Texts
  <2> QED BY <1>4, <2>2 DEF ProgCheck
<1>5. CASE ProgUpdate
  <2>1. out' \in Seq(Texts)
    BY <1>5, SaysType DEF ProgUpdate, Texts
  <2> QED BY <1>5, <2>1 DEF ProgUpdate
<1>6. CASE ProgExits
  BY <1>6 DEF ProgExits
<1>7. CASE ProgHangup
  <2>1. status' \in {"killed", "refused"} /\ child' = "ended" /\ ask' = ask
    BY <1>7 DEF ProgHangup
  <2>2. gui' \notin {"idle", "fork", "shadow"}
    BY <1>7 DEF ProgHangup
  <2> QED BY <1>7, <2>1, <2>2 DEF ProgHangup
<1> QED BY <1>1, <1>2, <1>3, <1>4, <1>5, <1>6, <1>7 DEF Prog

\* Every step of a conversation keeps them.
LEMMA ConversationType == TypeInv /\ Conversation => TypeInv'
<1> SUFFICES ASSUME TypeInv, Conversation PROVE TypeInv'
  OBVIOUS
<1> USE DEF TypeInv, TypeOK, Apart, Asking, Reaping, guiVars, progVars, ttyVars, hostVars, Goto
<1>1. CASE Fork
  BY <1>1 DEF Fork, SaveDisposition
<1>2. CASE ForkFails
  BY <1>2 DEF ForkFails, NextCheck
<1>3. CASE ReadPrompt
  <2>1. PICK r \in Reads :
          /\ out' = Rest(r[1], r[2])
          /\ IF "password" \in Seen(r[1], r[2])
             THEN gui' = "drain" /\ Send("typed", "pass")
             ELSE UNCHANGED <<gui, sent, input>>
    BY <1>3 DEF ReadPrompt
  <2>2. out' \in Seq(Texts)
    BY <2>1, RestType
  <2>3. input' \in Seq(Lines) /\ sent' \subseteq {"pass", "old", "new", "confirm"}
    BY <2>1, SendType DEF Lines
  <2>4. gui = "prompt" /\ gui' \in {"prompt", "drain"}
    BY <1>3, <2>1 DEF ReadPrompt
  <2> QED BY <1>3, <2>2, <2>3, <2>4 DEF ReadPrompt
<1>4. CASE ReadDrain
  <2>1. out' \in Seq(Texts)
    BY <1>4, RestType DEF ReadDrain
  <2> QED BY <1>4, <2>1 DEF ReadDrain
<1>5. CASE ReadTalk
  <2>1. PICK r \in Reads : /\ out' = Rest(r[1], r[2])
                           /\ Reply(Seen(r[1], r[2]))
                           /\ msg' = Message(Seen(r[1], r[2]))
    BY <1>5 DEF ReadTalk
  <2>2. out' \in Seq(Texts)
    BY <2>1, RestType
  <2>3. input' \in Seq(Lines) /\ sent' \subseteq {"pass", "old", "new", "confirm"}
    <3>1. \/ Send("old", "old") \/ Send("new", "new") \/ Send("new", "confirm")
          \/ UNCHANGED <<input, sent>>
      BY <2>1 DEF Reply
    <3> QED BY <3>1, SendType DEF Lines
  <2>4. msg' \in {"none", "changing", "changed", "incorrect", "short", "failed"}
    BY <2>1 DEF Message
  <2> QED BY <1>5, <2>2, <2>3, <2>4 DEF ReadTalk
<1>6. CASE GiveUp
  BY <1>6 DEF GiveUp
<1>7. CASE CloseMaster
  BY <1>7 DEF CloseMaster
<1>8. CASE Wait
  BY <1>8 DEF Wait, Report, Verdict, NextCheck
<1>9. CASE verify_root_password_shadow
  <2>1. answer' \in {"yes", "no"}
    BY <1>9, Zenon DEF verify_root_password_shadow
  <2>2. /\ gui = "shadow" /\ gui' = "idle"
        /\ UNCHANGED <<prog, typed, sent, sigchld, old_sa, msg, progVars, ttyVars, hostVars,
                       shell, disk>>
    BY <1>9, Zenon DEF verify_root_password_shadow
  <2> QED BY <2>1, <2>2
<1> QED BY <1>1, <1>2, <1>3, <1>4, <1>5, <1>6, <1>7, <1>8, <1>9 DEF Conversation

\* The rest of the steps: the user's, the frames', the shell's, the disk's.
LEMMA OtherType ==
    ASSUME TypeInv,
           User \/ Frame \/ LaunchShell \/ ShellExits \/ DiskFails \/ UNCHANGED vars
    PROVE  TypeInv'
<1> USE DEF TypeInv, TypeOK, Apart, Asking, Reaping, guiVars, progVars, ttyVars, hostVars, Goto
<1>1. CASE User
  BY <1>1 DEF User, Submit, ChangePassword
<1>2. CASE Frame \/ LaunchShell \/ ShellExits
  <2>1. /\ shell' \in {"running", "zombie", "gone"}
        /\ UNCHANGED <<guiVars, progVars, ttyVars, hostVars, disk>>
    BY <1>2, Zenon DEF Frame, LaunchShell, ShellExits
  <2> QED BY <2>1
<1>4. CASE DiskFails
  BY <1>4 DEF DiskFails
<1>3. CASE UNCHANGED vars
  BY <1>3 DEF vars
<1> QED BY <1>1, <1>2, <1>3, <1>4

\* TypeOK holds in every state, with texts of any number on their way.
THEOREM TypeInvariant == Spec => []TypeInv
<1>1. ASSUME Init PROVE TypeInv
  <2>1. stored \in BOOLEAN /\ nopasswd \in BOOLEAN /\ shadow \in BOOLEAN
    BY <1>1 DEF Init
  <2>2. out \in Seq(Texts) /\ input \in Seq(Lines) /\ sent = {}
    BY <1>1 DEF Init
  <2> QED BY <1>1, <2>1, <2>2 DEF Init, TypeInv, TypeOK, Apart, Asking, Reaping, Typed
<1>2. TypeInv /\ [Next]_vars => TypeInv'
  BY ProgType, ConversationType, OtherType DEF Next, Frozen
<1> QED BY <1>1, <1>2, PTL DEF Spec

\* The variables of the conversations keep their types, and the disposition of
\* SIGCHLD that is put back is one that was saved.
THEOREM TypeCorrect == Spec => []TypeOK
<1>1. TypeInv => TypeOK
  BY DEF TypeInv
<1> QED BY <1>1, TypeInvariant, PTL

\* The loop never runs with SIGCHLD at its default: every way out of a
\* conversation, the failed forkpty included, has put SA_NOCLDWAIT back.
THEOREM DispositionRestored == Spec => []ReapingRestored
<1>1. TypeInv => ReapingRestored
  BY DEF TypeInv, Reaping, ReapingRestored
<1> QED BY <1>1, TypeInvariant, PTL

-----------------------------------------------------------------------------
\* What the steps of a check carry along: a right answer, an accepting program
\* and a status of 0 all mean that somebody entitled accepted what was typed.
Entitled == typed = "root" \/ typed = "user" \/ nopasswd
Grounds ==
    /\ prog # "passwd" => /\ child \in {"right", "accepted"} => Entitled
                          /\ child = "ended" /\ status = "ok" => Entitled
    /\ answer = "yes" => Entitled

\* Every step keeps the grounds of an acceptance.
LEMMA GroundsStep == TypeInv /\ Grounds /\ [Next]_vars => Grounds'
<1> SUFFICES ASSUME TypeInv, Grounds, [Next]_vars PROVE Grounds'
  OBVIOUS
<1>0. Apart /\ Asking
  BY DEF TypeInv
<1> USE DEF Grounds, Entitled, Apart, Asking, guiVars, progVars, ttyVars, hostVars, Goto, Ends
<1>1. CASE ProgStart
  BY <1>0, <1>1 DEF ProgStart
<1>2. CASE ProgAsk \/ ProgUpdate
  BY <1>0, <1>2 DEF ProgAsk, ProgUpdate
<1>3. CASE ProgRead
  <2>1. prog # "passwd" /\ child' = "right" => typed = "root" \/ typed = "user"
    BY <1>0, <1>3 DEF ProgRead, Right
  <2> QED BY <1>3, <2>1 DEF ProgRead
<1>4. CASE ProgCheck
  BY <1>0, <1>4 DEF ProgCheck
<1>5. CASE ProgExits
  BY <1>5 DEF ProgExits
<1>6. CASE ProgHangup
  BY <1>6 DEF ProgHangup
<1>7. CASE User
  BY <1>0, <1>7 DEF User, Submit, ChangePassword
<1>8. CASE Fork \/ ForkFails
  BY <1>0, <1>8 DEF Fork, ForkFails, NextCheck
<1>9. CASE ReadPrompt \/ ReadDrain \/ ReadTalk \/ GiveUp \/ CloseMaster
  <2>1. UNCHANGED <<prog, typed, answer, child, status, nopasswd>>
    BY <1>9 DEF ReadPrompt, ReadDrain, ReadTalk, GiveUp, CloseMaster
  <2> QED BY <2>1
<1>10. CASE Wait
  BY <1>0, <1>10 DEF Wait, Verdict, NextCheck, Accepted
<1>11. CASE verify_root_password_shadow
  <2>1. /\ UNCHANGED <<prog, typed, child, status, nopasswd>>
        /\ answer' = "yes" => typed = "root"
    BY <1>11, Zenon DEF verify_root_password_shadow
  <2> QED BY <2>1
<1>12. CASE Frame \/ LaunchShell \/ ShellExits \/ DiskFails \/ UNCHANGED vars
  <2>1. UNCHANGED <<prog, typed, answer, child, status, nopasswd>>
    BY <1>12 DEF Frame, LaunchShell, ShellExits, DiskFails, vars
  <2> QED BY <2>1
<1> QED
  BY <1>1, <1>2, <1>3, <1>4, <1>5, <1>6, <1>7, <1>8, <1>9, <1>10, <1>11, <1>12
  DEF Next, Prog, Conversation, Frozen

\* verify_root_password answers 1 only on the word of su, sudo or the hash,
\* whatever program was killed or cut short on the way.
THEOREM OnlyByAuthority == Spec => []AcceptedByAuthority
<1>1. Init => Grounds
  BY DEF Init, Grounds
<1>2. Grounds => AcceptedByAuthority
  BY DEF Grounds, Entitled, AcceptedByAuthority
<1> QED BY <1>1, <1>2, TypeInvariant, GroundsStep, PTL DEF Spec

-----------------------------------------------------------------------------
\* A right password is only refused by the last resort, and not by it.
THEOREM NeverRefused == Spec => []RightPasswordAccepted
<1>1. Init => RightPasswordAccepted
  BY DEF Init, RightPasswordAccepted
<1>2. ASSUME RightPasswordAccepted, [Next]_vars PROVE RightPasswordAccepted'
  <2> USE DEF RightPasswordAccepted, guiVars, progVars, ttyVars, hostVars, Goto
  <2>1. CASE User
    BY <2>1 DEF User, Submit, ChangePassword
  <2>2. CASE Wait
    BY <1>2, <2>2 DEF Wait, Verdict, NextCheck
  <2>3. CASE ForkFails
    BY <1>2, <2>3 DEF ForkFails, NextCheck
  <2>4. CASE verify_root_password_shadow
    BY <2>4, Zenon DEF verify_root_password_shadow
  <2>5. CASE Fork \/ ReadPrompt \/ ReadDrain \/ ReadTalk \/ GiveUp \/ CloseMaster
    BY <1>2, <2>5 DEF Fork, ReadPrompt, ReadDrain, ReadTalk, GiveUp, CloseMaster
  <2>6. CASE Prog
    BY <1>2, <2>6 DEF Prog, ProgStart, ProgAsk, ProgRead, ProgCheck, ProgUpdate, ProgExits,
                      ProgHangup
  <2>7. CASE Frame \/ LaunchShell \/ ShellExits \/ DiskFails \/ UNCHANGED vars
    BY <1>2, <2>7 DEF Frame, LaunchShell, ShellExits, DiskFails, vars
  <2> QED
    BY <1>2, <2>1, <2>2, <2>3, <2>4, <2>5, <2>6, <2>7 DEF Next, Conversation, Frozen
<1> QED BY <1>1, <1>2, PTL DEF Spec

-----------------------------------------------------------------------------
\* What the steps of a change carry along: a success on its way to the GUI, a
\* passwd that is done and its status of 0 all mean that the password is stored.
Evidence ==
    /\ \A i \in 1..Len(out) : out[i] = "success" => stored = TRUE
    /\ prog = "passwd" => /\ child = "accepted" => stored = TRUE
                          /\ child = "ended" /\ status = "ok" => stored = TRUE
    /\ msg = "changed" => stored = TRUE

\* What a read leaves holds a success only if it did before.
LEMMA RestSuccess ==
    ASSUME out \in Seq(Texts), NEW r \in Reads,
           NEW i \in 1..Len(Rest(r[1], r[2])), Rest(r[1], r[2])[i] = "success"
    PROVE  \E j \in 1..Len(out) : out[j] = "success"
<1>1. r[1] \in 1..Len(out)
  BY DEF Reads
<1> DEFINE s == SubSeq(out, r[1] + 1, Len(out))
<1>2. s \in Seq(Texts) /\ Len(s) = Len(out) - r[1]
  BY <1>1
<1>3. \A k \in 1..Len(s) : s[k] = out[r[1] + k]
  <2>1. r[1] + 1 \in Int /\ Len(out) \in Nat
    BY <1>1
  <2>2. \A k \in (r[1] + 1)..Len(out) : out[k] \in Texts
    BY <1>1
  <2>3. \A k \in 1..(Len(out) - (r[1] + 1) + 1) : s[k] = out[(r[1] + 1) + k - 1]
    BY <2>1, <2>2, SubSeqProperties
  <2> QED BY <1>1, <1>2, <2>3
<1>4. CASE ~r[2]
  BY <1>1, <1>2, <1>3, <1>4 DEF Rest
<1>5. CASE r[2]
  <2>1. Rest(r[1], r[2]) = <<"noise">> \o s
    BY <1>5 DEF Rest
  <2>2. <<"noise">> \in Seq(Texts) /\ Len(<<"noise">>) = 1 /\ <<"noise">>[1] = "noise"
    BY DEF Texts
  <2> HIDE DEF s
  <2>3. /\ Len(<<"noise">> \o s) = 1 + Len(s)
        /\ \A k \in 1..(1 + Len(s)) :
              (<<"noise">> \o s)[k] = IF k <= 1 THEN <<"noise">>[k] ELSE s[k - 1]
    BY <1>2, <2>2, ConcatProperties
  <2>4. i \in 1..(1 + Len(s)) /\ (<<"noise">> \o s)[i] = "success"
    BY <2>1, <2>3
  <2>5. Len(s) \in Nat /\ i # 1
    BY <1>2, <2>2, <2>3, <2>4
  <2>6. i - 1 \in 1..Len(s) /\ s[i - 1] = "success"
    BY <2>3, <2>4, <2>5
  <2>7. r[1] + (i - 1) \in 1..Len(out) /\ out[r[1] + (i - 1)] = "success"
    BY <1>1, <1>2, <1>3, <2>6
  <2> QED BY <2>7
<1> QED BY <1>4, <1>5

\* Saying anything but success adds none.
LEMMA SaysSuccess ==
    ASSUME NEW t \in Texts, t # "success", out \in Seq(Texts), Says(t),
           \A i \in 1..Len(out) : out[i] = "success" => stored = TRUE
    PROVE  \A i \in 1..Len(out') : out'[i] = "success" => stored = TRUE
BY DEF Says

\* Every step keeps the evidence of a change.
LEMMA EvidenceStep == TypeInv /\ Evidence /\ [Next]_vars => Evidence'
<1> SUFFICES ASSUME TypeInv, Evidence, [Next]_vars PROVE Evidence'
  OBVIOUS
<1>0. Apart /\ Asking /\ out \in Seq(Texts)
  BY DEF TypeInv, TypeOK
<1> DEFINE Told == \A i \in 1..Len(out) : out[i] = "success" => stored = TRUE
<1>t. Told
  BY DEF Evidence
<1> USE DEF Apart, Asking, guiVars, progVars, ttyVars, hostVars, Goto, Ends
<1>s. ASSUME NEW t \in Texts, t # "success", Says(t), UNCHANGED stored PROVE Told'
  BY <1>0, <1>t, <1>s, SaysSuccess
<1>r. ASSUME NEW r \in Reads, out' = Rest(r[1], r[2]), UNCHANGED stored PROVE Told'
  BY <1>0, <1>t, <1>r, RestSuccess
<1>1. CASE ProgStart
  <2>1. Told'
    <3>1. stored' = stored /\ (out' = out \/ Says("noise") \/ Says("password") \/ Says("new"))
      BY <1>1 DEF ProgStart
    <3> QED BY <3>1, <1>t, <1>s DEF Texts
  <2> QED BY <1>0, <1>1, <2>1 DEF ProgStart, Evidence
<1>2. CASE ProgAsk
  <2>1. Told'
    BY <1>0, <1>2, <1>s DEF ProgAsk, Texts
  <2> QED BY <1>2, <2>1 DEF ProgAsk, Evidence
<1>3. CASE ProgRead
  <2>1. Told'
    BY <1>3, <1>t DEF ProgRead
  <2> QED BY <1>3, <2>1 DEF ProgRead, Evidence
<1>4. CASE ProgCheck
  <2>1. Told'
    <3>1. stored' = stored /\ (out' = out \/ Says("short") \/ Says("wrong") \/ Says("noise"))
      BY <1>4 DEF ProgCheck
    <3> QED BY <3>1, <1>t, <1>s DEF Texts
  <2> QED BY <1>0, <1>4, <2>1 DEF ProgCheck, Evidence
<1>5. CASE ProgUpdate
  BY <1>5 DEF ProgUpdate, Evidence
<1>6. CASE ProgExits \/ ProgHangup
  <2>1. Told'
    BY <1>6, <1>t DEF ProgExits, ProgHangup
  <2> QED BY <1>6, <2>1 DEF ProgExits, ProgHangup, Evidence
<1>7. CASE User
  <2>1. Told'
    BY <1>7, <1>t DEF User, Submit, ChangePassword
  <2> QED BY <1>0, <1>7, <2>1 DEF User, Submit, ChangePassword, Evidence
<1>8. CASE Fork \/ CloseMaster
  <2>1. Told'
    BY <1>8 DEF Fork, CloseMaster
  <2> QED BY <1>0, <1>8, <2>1 DEF Fork, CloseMaster, Evidence
<1>9. CASE ForkFails \/ GiveUp
  <2>1. Told'
    BY <1>9, <1>t DEF ForkFails, GiveUp
  <2> QED BY <1>0, <1>9, <2>1 DEF ForkFails, NextCheck, GiveUp, Evidence
<1>10. CASE ReadPrompt \/ ReadDrain
  <2>1. Told'
    BY <1>10, <1>r DEF ReadPrompt, ReadDrain
  <2> QED BY <1>10, <2>1 DEF ReadPrompt, ReadDrain, Evidence
<1>11. CASE ReadTalk
  <2>1. PICK r \in Reads : out' = Rest(r[1], r[2]) /\ msg' = Message(Seen(r[1], r[2]))
    BY <1>11 DEF ReadTalk
  <2>2. Told'
    BY <1>11, <2>1, <1>r DEF ReadTalk
  <2>3. r[1] \in 1..Len(out)
    BY DEF Reads
  <2>4. "success" \in Seen(r[1], r[2]) => stored = TRUE
    <3>1. \A i \in 1..(IF r[2] THEN r[1] - 1 ELSE r[1]) : i \in 1..Len(out)
      BY <1>0, <2>3
    <3> QED BY <3>1, <1>t DEF Seen
  <2>5. msg' = "changed" => stored = TRUE
    BY <2>1, <2>4 DEF Message, Evidence
  <2> QED BY <1>11, <2>2, <2>5 DEF ReadTalk, Evidence
<1>12. CASE Wait
  <2>1. Told'
    BY <1>12, <1>t DEF Wait
  <2> QED BY <1>12, <2>1 DEF Wait, Report, Verdict, NextCheck, Evidence
<1>13. CASE \/ verify_root_password_shadow \/ Frame \/ LaunchShell \/ ShellExits
            \/ DiskFails \/ UNCHANGED vars
  <2>1. UNCHANGED <<prog, child, status, stored, msg, out>>
    BY <1>13 DEF verify_root_password_shadow, Frame, LaunchShell, ShellExits, DiskFails, vars
  <2> QED BY <2>1 DEF Evidence
<1> QED
  BY <1>1, <1>2, <1>3, <1>4, <1>5, <1>6, <1>7, <1>8, <1>9, <1>10, <1>11, <1>12, <1>13
  DEF Next, Prog, Conversation, Frozen

\* The GUI reports a change only when passwd has stored the new password, in
\* whatever pieces and however late its texts are read.
THEOREM NeverFalselyChanged == Spec => []ChangedMeansStored
<1>1. Init => Evidence
  BY DEF Init, Evidence
<1>2. Evidence => ChangedMeansStored
  BY DEF Evidence, ChangedMeansStored
<1> QED BY <1>1, <1>2, TypeInvariant, EvidenceStep, PTL DEF Spec
=============================================================================
