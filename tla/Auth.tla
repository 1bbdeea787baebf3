-------------------------------- MODULE Auth --------------------------------
(***************************************************************************)
(* The conversations of the rescue GUI (cad_rescue_gui.c) with su, sudo    *)
(* and passwd over a pseudo terminal: verify_root_password and             *)
(* change_own_password.  They run inside a frame: the GUI does nothing     *)
(* else until they answer.                                                 *)
(*                                                                         *)
(* The terminal carries texts one way and lines the other.  A read returns *)
(* what has arrived, and may cut a text in two, so that neither part is    *)
(* recognised.  A program drops what was typed ahead when it prompts.      *)
(* Closing the master sends it SIGHUP.  A session user is known            *)
(* (user_session.uid > 0): the programs run with that user's rights.       *)
(*                                                                         *)
(* External: the programs, the terminal, the disk.                         *)
(***************************************************************************)
EXTENDS Naturals, Sequences

VARIABLES
    \* the GUI
    gui,            \* its step in the conversation
    prog,           \* the program it talks to
    typed,          \* whose password was typed: root's, the user's, nobody's, or none
    sent,           \* lines sent: pass_sent, oldpass_sent, newpass_sent, confirm_sent
    sigchld,        \* the disposition of SIGCHLD
    old_sa,         \* the disposition saved
    answer,         \* the answer of verify_root_password
    msg,            \* pwd_msg_buffer
    shell,          \* the shell of the terminal window, another child
    \* the program and its terminal
    child, ask,     \* the program's step, and its next question
    master,         \* the GUI's end of the terminal
    out, input,     \* texts for the GUI, lines for the program
    status,         \* how it ended
    \* the machine
    nopasswd,       \* sudo asks this user for no password
    shadow,         \* verify_root_password_shadow can read the hash
    stored,         \* the user's password was changed
    disk

guiVars  == <<gui, prog, typed, sent, sigchld, old_sa, answer, msg>>
progVars == <<child, ask, status, stored>>
ttyVars  == <<master, out, input>>
hostVars == <<nopasswd, shadow>>
vars     == <<guiVars, progVars, ttyVars, hostVars, shell, disk>>

Texts == {"noise", "password", "current", "new", "retype", "short", "wrong", "success"}
Lines == {"typed", "old", "new"}

-----------------------------------------------------------------------------
(* The programs.                                                           *)

Says(t) == out' = IF master = "open" THEN Append(out, t) ELSE out

Ends(how) == child' = "ended" /\ status' = how /\ UNCHANGED ask

\* The child drops its privileges, or ends with 126; it executes the program,
\* or ends with 127.  sudo may lecture, with the word password in it, and passwd
\* names the user, with whatever the name contains.
ProgStart ==
    /\ child = "start"
    /\ \/ \E how \in {"missing", "refused"} : Ends(how) /\ UNCHANGED out
       \/ /\ child' = "ready"
          /\ ask' = IF prog = "passwd" THEN "current" ELSE "password"
          /\ UNCHANGED status
          /\ \/ UNCHANGED out
             \/ Says("noise")
             \/ prog = "sudo" /\ Says("password")
             \/ prog = "passwd" /\ Says("new")
       \/ prog = "sudo" /\ nopasswd /\ child' = "accepted" /\ UNCHANGED <<ask, status, out>>
    /\ UNCHANGED <<guiVars, master, input, stored, hostVars, shell, disk>>

\* No echo, typed ahead input is dropped, the prompt.
ProgAsk ==
    /\ child = "ready" /\ master = "open"
    /\ child' = "asked"
    /\ input' = <<>>
    /\ Says(ask)
    /\ UNCHANGED <<guiVars, ask, status, stored, master, hostVars, shell, disk>>

Right(line) ==
    CASE ask = "password" -> \/ prog = "su" /\ typed = "root"
                             \/ prog = "sudo" /\ typed = "user"
      [] ask = "current"  -> line = "old" /\ typed = "user"
      [] OTHER            -> line = "new"

ProgRead ==
    /\ child = "asked" /\ input # <<>>
    /\ child' = IF Right(Head(input)) THEN "right" ELSE "wrong"
    /\ input' = Tail(input)
    /\ UNCHANGED <<guiVars, ask, status, stored, master, out, hostVars, shell, disk>>

\* The verdict on the line that was read takes its time.  sudo may ask again, and
\* so does passwd for a new password it finds poor.
ProgCheck ==
    /\ \/ /\ child = "right"
          /\ \/ /\ UNCHANGED <<status, out>>
                /\ \/ ask = "password" /\ child' = "accepted" /\ UNCHANGED ask
                   \/ ask = "current" /\ child' = "ready" /\ ask' = "new"
                   \/ ask = "new" /\ child' = "ready" /\ ask' = "retype"
                   \/ ask = "retype" /\ child' = "updating" /\ UNCHANGED ask
             \/ ask = "new" /\ child' = "ready" /\ Says("short") /\ UNCHANGED <<ask, status>>
       \/ child = "wrong" /\ Says("wrong") /\ Ends("refused")
       \/ /\ child = "wrong" /\ prog = "sudo"
          /\ Says("noise") /\ child' = "ready" /\ UNCHANGED <<ask, status>>
    /\ UNCHANGED <<guiVars, master, input, stored, hostVars, shell, disk>>

ProgUpdate ==
    /\ child = "updating" /\ child' = "accepted"
    /\ stored' = TRUE
    /\ Says("success")
    /\ UNCHANGED <<guiVars, ask, status, master, input, hostVars, shell, disk>>

ProgExits ==
    /\ child = "accepted" /\ Ends("ok")
    /\ UNCHANGED <<guiVars, stored, ttyVars, hostVars, shell, disk>>

\* SIGHUP kills it, or its handler ends it.
ProgHangup ==
    /\ master = "closed" /\ child \notin {"none", "ended"}
    /\ \E how \in {"killed", "refused"} : Ends(how)
    /\ UNCHANGED <<guiVars, stored, ttyVars, hostVars, shell, disk>>

Prog ==
    /\ disk = "ok"
    /\ \/ ProgStart \/ ProgAsk \/ ProgRead \/ ProgCheck \/ ProgUpdate \/ ProgExits
       \/ ProgHangup

\* The program blocks on the disk, and no signal ends it.
DiskFails ==
    /\ disk = "ok" /\ disk' = "stuck"
    /\ UNCHANGED <<guiVars, progVars, ttyVars, hostVars, shell>>

\* The terminal's shell ends; with SA_NOCLDWAIT the kernel reaps it.
ShellExits ==
    /\ shell = "running"
    /\ shell' = IF sigchld = "nocldwait" THEN "gone" ELSE "zombie"
    /\ UNCHANGED <<guiVars, progVars, ttyVars, hostVars, disk>>

-----------------------------------------------------------------------------
(* The GUI.                                                                *)

Goto(a, b) == gui = a /\ gui' = b

\* Mutant: left to SA_NOCLDWAIT alone.
FrameNoReap ==
    /\ gui = "idle" /\ shell = "zombie"
    /\ UNCHANGED vars

\* Every 60 frames: waitpid(-1, WNOHANG) until there is no zombie left.
Frame ==
    /\ gui = "idle" /\ shell = "zombie"
    /\ shell' = "gone"
    /\ UNCHANGED <<guiVars, progVars, ttyVars, hostVars, disk>>

LaunchShell ==
    /\ gui = "idle" /\ shell = "gone"
    /\ shell' = "running"
    /\ UNCHANGED <<guiVars, progVars, ttyVars, hostVars, disk>>

\* Authenticate: verify_root_password starts with su.
Submit(t) ==
    /\ Goto("idle", "fork")
    /\ typed' = t /\ prog' = "su" /\ answer' = "none"
    /\ UNCHANGED <<sent, sigchld, old_sa, msg, progVars, ttyVars, hostVars, shell, disk>>

\* Apply: change_own_password, once per run of the model.
ChangePassword(t) ==
    /\ Goto("idle", "fork") /\ ~stored
    /\ typed' = t /\ prog' = "passwd" /\ answer' = "none" /\ msg' = "changing"
    /\ UNCHANGED <<sent, sigchld, old_sa, progVars, ttyVars, hostVars, shell, disk>>

\* SIGCHLD is put back to its default, so that waitpid gets the status.
SaveDisposition == old_sa' = sigchld /\ sigchld' = "default"

Fork ==
    /\ Goto("fork", IF prog = "passwd" THEN "talk" ELSE "prompt")
    /\ SaveDisposition
    /\ sent' = {} /\ child' = "start" /\ status' = "none"
    /\ master' = "open" /\ out' = <<>> /\ input' = <<>>
    /\ msg' = IF prog = "passwd" THEN "none" ELSE msg
    /\ UNCHANGED <<prog, typed, answer, ask, stored, hostVars, shell, disk>>

\* What the read of the next n texts recognises, and what it leaves: the last
\* of them may be cut.
Seen(n, cut) == {out[i] : i \in 1..(IF cut THEN n - 1 ELSE n)}
Rest(n, cut) ==
    LET r == SubSeq(out, n + 1, Len(out)) IN IF cut THEN <<"noise">> \o r ELSE r
Reads == {r \in (1..Len(out)) \X BOOLEAN : r[2] => out[r[1]] # "noise"}

Send(line, flag) == input' = Append(input, line) /\ sent' = sent \cup {flag}

\* The password is sent in reply to the first text that looks like a prompt.
ReadPrompt ==
    /\ gui = "prompt"
    /\ \E r \in Reads :
          /\ out' = Rest(r[1], r[2])
          /\ IF "password" \in Seen(r[1], r[2])
             THEN gui' = "drain" /\ Send("typed", "pass")
             ELSE UNCHANGED <<gui, sent, input>>
    /\ UNCHANGED <<prog, typed, sigchld, old_sa, answer, msg, progVars, master, hostVars,
                   shell, disk>>

ReadDrain ==
    /\ gui = "drain"
    /\ \E r \in Reads : out' = Rest(r[1], r[2])
    /\ UNCHANGED <<guiVars, progVars, master, input, hostVars, shell, disk>>

\* One answer per read, each line once; an empty old password is not sent.
Reply(seen) ==
    IF "current" \in seen /\ "old" \notin sent
    THEN IF typed # "empty" THEN Send("old", "old") ELSE UNCHANGED <<input, sent>>
    ELSE IF "new" \in seen /\ "retype" \notin seen /\ "new" \notin sent
    THEN Send("new", "new")
    ELSE IF "retype" \in seen /\ "confirm" \notin sent
    THEN Send("new", "confirm")
    ELSE UNCHANGED <<input, sent>>

\* A later test overrides an earlier one.
Message(seen) ==
    IF "success" \in seen THEN "changed"
    ELSE IF "wrong" \in seen THEN "incorrect"
    ELSE IF "short" \in seen THEN "short" ELSE msg

ReadTalk ==
    /\ gui = "talk"
    /\ \E r \in Reads :
          /\ out' = Rest(r[1], r[2])
          /\ Reply(Seen(r[1], r[2]))
          /\ msg' = Message(Seen(r[1], r[2]))
    /\ UNCHANGED <<gui, prog, typed, sigchld, old_sa, answer, progVars, master, hostVars,
                   shell, disk>>

\* select times out, or read fails because the program has ended.
GiveUp ==
    /\ out = <<>>
    /\ gui' = IF gui = "prompt" THEN "drain" ELSE "close"
    /\ gui \in {"prompt", "drain", "talk"}
    /\ UNCHANGED <<prog, typed, sent, sigchld, old_sa, answer, msg, progVars, ttyVars,
                   hostVars, shell, disk>>

\* Mutant: the terminal is closed after waitpid.
CloseMasterLater ==
    /\ Goto("close", "wait")
    /\ UNCHANGED <<prog, typed, sent, sigchld, old_sa, answer, msg, progVars, ttyVars,
                   hostVars, shell, disk>>

CloseMaster ==
    /\ Goto("close", "wait")
    /\ master' = "closed" /\ out' = <<>> /\ input' = <<>>
    /\ UNCHANGED <<prog, typed, sent, sigchld, old_sa, answer, msg, progVars, hostVars,
                   shell, disk>>

\* Mutant: WEXITSTATUS without WIFEXITED.
AcceptedUnlessStatus == status \in {"ok", "killed"}

\* WIFEXITED and WEXITSTATUS = 0.
Accepted == status = "ok"

\* su is followed by sudo, and sudo by the hash.
NextCheck ==
    /\ \/ prog = "su" /\ prog' = "sudo" /\ gui' = "fork"
       \/ prog = "sudo" /\ gui' = "shadow" /\ UNCHANGED prog
    /\ UNCHANGED answer

\* Mutant: a program that ran is believed, 1 or 0.
VerdictFirst ==
    IF status = "missing" THEN NextCheck
    ELSE answer' = (IF Accepted THEN "yes" ELSE "no") /\ gui' = "idle" /\ UNCHANGED prog

\* verify_root_password: only a 1 ends the search.
Verdict == IF Accepted THEN answer' = "yes" /\ gui' = "idle" /\ UNCHANGED prog
                       ELSE NextCheck

\* Mutant: a passwd that a signal ended counts as done.
ReportUnlessStatus ==
    msg' = IF status \in {"ok", "killed"} THEN "changed"
           ELSE IF msg = "none" THEN "failed" ELSE msg

\* The exit status has the last word, but leaves an error message that was seen.
Report == msg' = IF status = "ok" THEN "changed" ELSE IF msg = "none" THEN "failed" ELSE msg

\* Mutant: returns from the failed forkpty at once.
ForkFailsHot ==
    /\ gui = "fork"
    /\ SaveDisposition
    /\ IF prog = "passwd" THEN gui' = "idle" /\ UNCHANGED <<prog, answer>> ELSE NextCheck
    /\ UNCHANGED <<typed, sent, msg, progVars, ttyVars, hostVars, shell, disk>>

\* forkpty fails: the disposition is restored and -1 returned.  The message of
\* change_own_password stays what its caller wrote.
ForkFails ==
    /\ gui = "fork"
    /\ old_sa' = sigchld
    /\ IF prog = "passwd" THEN gui' = "idle" /\ UNCHANGED <<prog, answer>> ELSE NextCheck
    /\ UNCHANGED <<typed, sent, sigchld, msg, progVars, ttyVars, hostVars, shell, disk>>

\* waitpid without a time limit.
Wait ==
    /\ gui = "wait" /\ child = "ended"
    /\ child' = "none"
    /\ sigchld' = old_sa
    /\ IF prog = "passwd" THEN Report /\ gui' = "idle" /\ UNCHANGED <<prog, answer>>
                          ELSE Verdict /\ UNCHANGED msg
    /\ UNCHANGED <<typed, sent, old_sa, ask, status, stored, ttyVars, hostVars, shell, disk>>

\* crypt of what was typed against the hash of root, if it can be read.
verify_root_password_shadow ==
    /\ disk = "ok"
    /\ Goto("shadow", "idle")
    /\ answer' = IF shadow /\ typed = "root" THEN "yes" ELSE "no"
    /\ UNCHANGED <<prog, typed, sent, sigchld, old_sa, msg, progVars, ttyVars, hostVars,
                   shell, disk>>

-----------------------------------------------------------------------------
Init ==
    /\ gui = "idle" /\ prog = "none" /\ typed = "empty" /\ sent = {}
    /\ sigchld = "nocldwait" /\ old_sa = "unset"
    /\ answer = "none" /\ msg = "none"
    /\ shell = "running"
    /\ child = "none" /\ ask = "none" /\ status = "none" /\ stored = FALSE
    /\ master = "closed" /\ out = <<>> /\ input = <<>>
    /\ nopasswd \in BOOLEAN /\ shadow \in BOOLEAN
    /\ disk = "ok"

Typed == {"root", "user", "nobody", "empty"}

User == \E t \in Typed : Submit(t) \/ ChangePassword(t)

Conversation ==
    \/ Fork \/ ForkFails \/ ReadPrompt \/ ReadDrain \/ ReadTalk \/ GiveUp
    \/ CloseMaster \/ Wait \/ verify_root_password_shadow

\* The GUI hangs with the program or the disk it waits for.
Frozen == gui # "idle" /\ disk = "stuck" /\ UNCHANGED vars

Next ==
    \/ User \/ Conversation \/ Prog \/ Frame \/ LaunchShell \/ ShellExits \/ DiskFails
    \/ Frozen

Spec == Init /\ [][Next]_vars

\* The GUI and the program are scheduled; select times out.  Nothing is assumed
\* of the user and the shell, and a program that the disk blocks need not end.
\* Every 60th frame reaps, also when the user starts a conversation in each.
FairSpec == Spec /\ WF_vars(Conversation) /\ WF_vars(Prog) /\ SF_vars(Frame)

-----------------------------------------------------------------------------
\* The variables keep their types; a disposition that is put back was saved.
TypeOK ==
    /\ gui \in {"idle", "fork", "prompt", "drain", "talk", "close", "wait", "shadow"}
    /\ prog \in {"none", "su", "sudo", "passwd"}
    /\ typed \in Typed
    /\ sent \subseteq {"pass", "old", "new", "confirm"}
    /\ sigchld \in {"nocldwait", "default"}
    /\ old_sa \in {"unset", "nocldwait", "default"}
    /\ answer \in {"none", "yes", "no"}
    /\ msg \in {"none", "changing", "changed", "incorrect", "short", "failed"}
    /\ shell \in {"running", "zombie", "gone"}
    /\ child \in {"none", "start", "ready", "asked", "right", "wrong", "updating",
                  "accepted", "ended"}
    /\ ask \in {"none", "password", "current", "new", "retype"}
    /\ status \in {"none", "ok", "refused", "missing", "killed"}
    /\ stored \in BOOLEAN /\ nopasswd \in BOOLEAN /\ shadow \in BOOLEAN
    /\ master \in {"open", "closed"}
    /\ out \in Seq(Texts) /\ input \in Seq(Lines)
    /\ disk \in {"ok", "stuck"}

\* verify_root_password says 1 only when somebody entitled accepted what was
\* typed, whatever program was killed, hung up or cut short on the way.
AcceptedByAuthority ==
    answer = "yes" => typed = "root" \/ typed = "user" \/ nopasswd

\* The root password is not refused because su or sudo is missing, slow or
\* misunderstood, as long as the hash can be read.
RightPasswordAccepted == answer = "no" => ~(typed = "root" /\ shadow)

\* The message says that the password was changed only if it was.
ChangedMeansStored == msg = "changed" => stored

\* Whenever the loop runs, children are reaped by the kernel again, also after
\* a forkpty that failed.
ReapingRestored == gui = "idle" => sigchld = "nocldwait"

\* The GUI does not stay in a conversation: no program can keep it waiting by
\* asking, by being slow or by saying nothing, unless the disk blocks it.
AnswerComes == gui # "idle" ~> (gui = "idle" \/ disk = "stuck")

\* "belt-and-suspenders defense against zombie accumulation" (README): a shell
\* that ends during a conversation, when SA_NOCLDWAIT is off, is reaped later.
ZombieReaped == shell = "zombie" ~> (shell # "zombie" \/ disk = "stuck")
=============================================================================
