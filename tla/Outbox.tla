------------------------------ MODULE Outbox ------------------------------
(***************************************************************************)
(* The directory OUTBOX (NEWS.OUTBOX) and the programs that put messages   *)
(* into it: EMAIL.SYSTEM writes a header under a new number, EDIT.SYSTEM   *)
(* saves the text, ATTACHER.SYSTEM rewrites the file as a MIME message.    *)
(* The programs run one at a time; the machine may be reset in any of      *)
(* them.                                                                   *)
(*                                                                         *)
(* A file is a sequence of lines, and the lines are those the programs     *)
(* tell apart.                                                             *)
(***************************************************************************)
EXTENDS Integers, Sequences, FiniteSets, SequencesExt

CONSTANTS
  Msgs,    \* messages a user may write
  Addrs,   \* addresses
  Draft,   \* Draft[m]: header lines, quoted lines and typed lines of m
  None,    \* no file; no message
  MaxNum,  \* bound on the numbers n of OUTBOX/EMAIL.n
  MaxResets, \* bound on the number of resets
  Habits,  \* "tidy": no attaching while a TMPFILE is left from a reset
  Faults   \* what may go wrong

Other == <<"header">>
To(as) == <<"to", as>>        \* "To: " and "cc: ", comma-separated addresses
Mime == <<"mime">>
Blank == <<"blank">>
Text(x) == <<"text", x>>
IsTo(l) == l[1] = "to"

Lines == {Other, Mime, Blank} \cup {To(as) : as \in BoundedSeq(Addrs, 2)}
         \cup {Text(x) : x \in Msgs \cup {"part", "end"}}

ASSUME OutboxAssumption ==
  /\ None \notin Msgs /\ None \notin Seq(Lines)
  /\ MaxNum \in Nat \ {0} /\ MaxResets \in Nat
  /\ Habits \subseteq {"tidy"}
  /\ Msgs \cap {"part", "end"} = {}
  /\ \A m \in Msgs :
       /\ Draft[m].head \in Seq(Lines) /\ Draft[m].head # << >>
       /\ Blank \notin Range(Draft[m].head)
       /\ Draft[m].quoted \in Seq(Lines) /\ Draft[m].typed \in Seq(Lines)

VARIABLES
  app,      \* "mail" or "news"
  out,      \* out[n]: contents of OUTBOX/EMAIL.n; out[0]: of OUTBOX/TMPFILE
  next,     \* OUTBOX/NEXT.EMAIL
  pc,
  cur,      \* the number of the file a program works on
  msg,      \* history: the message being composed, or None
  written,  \* history: the messages whose text was saved
  resets    \* the number of resets so far

outboxVars == <<app, out, next, cur, msg, written, resets>>

Tmp == 0
Names == 0..MaxNum
Header(m) == Draft[m].head \o <<Blank>> \o Draft[m].quoted
Plain(m) == Header(m) \o Draft[m].typed

\* Text(m) marks what the user typed for m: no other draft has it.
ASSUME DraftAssumption ==
  \A m \in Msgs :
    /\ Text(m) \in Range(Draft[m].typed) /\ Text(m) \notin Range(Header(m))
    /\ \A n \in Msgs \ {m} : Text(m) \notin Range(Plain(n))

\* What attach() makes of a message: the blank line goes behind the new header
\* lines, the text becomes the first part.
BlankAt(c) ==
  IF Blank \in Range(c) THEN CHOOSE i \in DOMAIN c : c[i] = Blank /\ Blank \notin Range(SubSeq(c, 1, i - 1))
  ELSE Len(c) + 1
Mimed(c) ==
  SubSeq(c, 1, BlankAt(c) - 1) \o <<Mime, Blank, Text("part")>>
    \o SubSeq(c, BlankAt(c) + 1, Len(c)) \o <<Text("end")>>

Forms == [m \in Msgs |-> {Plain(m), Mimed(Plain(m))}]

\* The message that is in c in one piece, or None
Whole(c) == IF \E m \in Msgs : c \in Forms[m] THEN CHOOSE m \in Msgs : c \in Forms[m] ELSE None
InOutbox(m) == \E n \in Names : out[n] \in Forms[m]

-----------------------------------------------------------------------------
(* EMAIL.SYSTEM: create_blank_outgoing, create_blank_news, and             *)
(* copy_to_mailbox for a reply, a forward or a follow-up                   *)

\* The user presses ESC at a prompt: the file keeps what was written so far.
EscapeDraft(m) ==
  /\ pc = "email"
  /\ m \notin written
  /\ next <= MaxNum
  /\ \E k \in DOMAIN Draft[m].head : out' = [out EXCEPT ![next] = SubSeq(Draft[m].head, 1, k)]
  /\ UNCHANGED <<app, next, pc, cur, msg, written, resets>>

WriteDraft(m) ==
  /\ pc = "email"
  /\ m \notin written
  /\ next <= MaxNum
  /\ out' = [out EXCEPT ![next] = Header(m)]
  /\ cur' = next
  /\ msg' = m
  /\ pc' = "compose"
  /\ UNCHANGED <<app, next, written, resets>>

IsNew(m) == Draft[m].quoted = << >>

ComposeMail(m) == app = "mail" /\ IsNew(m) /\ WriteDraft(m)
ComposeNews(m) == app = "news" /\ IsNew(m) /\ WriteDraft(m)
ReplyOrForward(m) == app = "mail" /\ ~IsNew(m) /\ WriteDraft(m)
FollowUp(m) == app = "news" /\ ~IsNew(m) /\ WriteDraft(m)

ComposeNumber_Kept == \* NEXT.EMAIL is not updated
  /\ pc = "compose"
  /\ pc' = "edit"
  /\ UNCHANGED outboxVars

\* next_email_op(NEXT_EMAIL_UPD), load_editor
ComposeNumber ==
  /\ pc = "compose"
  /\ next' = cur + 1
  /\ pc' = "edit"
  /\ UNCHANGED <<app, out, cur, msg, written, resets>>

-----------------------------------------------------------------------------
(* EDIT.SYSTEM on the file, then EMAIL.SYSTEM or ATTACHER.SYSTEM           *)

SaveText ==
  /\ pc = "edit"
  /\ out' = [out EXCEPT ![cur] = Plain(msg)]
  /\ written' = written \cup {msg}
  /\ UNCHANGED <<app, next, pc, cur, msg, resets>>

\* "Return to EMAIL"
LoadEmail ==
  /\ pc = "edit"
  /\ pc' = "email"
  /\ cur' = Tmp
  /\ msg' = None
  /\ UNCHANGED <<app, out, next, written, resets>>

\* "Add attachments" is asked for mail only.
LoadAttacher ==
  /\ pc = "edit"
  /\ app = "mail"
  /\ "tidy" \in Habits => out[Tmp] = None
  /\ pc' = "attach"
  /\ out' = [out EXCEPT ![Tmp] = << >>]
  /\ UNCHANGED <<app, next, cur, msg, written, resets>>

\* attach: the message and the attachments go to TMPFILE, ...
AttachCopy ==
  /\ pc = "attach"
  /\ out' = [out EXCEPT ![Tmp] = Mimed(out[cur])]
  /\ pc' = "attach_unlink"
  /\ UNCHANGED <<app, next, cur, msg, written, resets>>

\* ... which then takes the place of the file.
AttachUnlink ==
  /\ pc = "attach_unlink"
  /\ out' = [out EXCEPT ![cur] = None]
  /\ pc' = "attach_rename"
  /\ UNCHANGED <<app, next, cur, msg, written, resets>>

AttachRename ==
  /\ pc = "attach_rename"
  /\ out' = [out EXCEPT ![cur] = out[Tmp], ![Tmp] = None]
  /\ pc' = "email"
  /\ cur' = Tmp
  /\ msg' = None
  /\ UNCHANGED <<app, next, written, resets>>

Attacher == AttachCopy \/ AttachUnlink \/ AttachRename

\* A reset leaves TMPFILE as far as it was written.
OutboxCrash ==
  /\ "crash" \in Faults
  /\ resets < MaxResets
  /\ resets' = resets + 1
  /\ pc \in {"compose", "edit", "attach", "attach_unlink", "attach_rename"}
  /\ \/ pc = "attach" /\ \E k \in 0..Len(Mimed(out[cur])) :
          out' = [out EXCEPT ![Tmp] = SubSeq(Mimed(out[cur]), 1, k)]
     \/ UNCHANGED out
  /\ pc' = "email"
  /\ cur' = Tmp
  /\ msg' = None
  /\ UNCHANGED <<app, next, written>>

OutboxInit ==
  /\ app \in {"mail", "news"}
  /\ out = [n \in Names |-> None]
  /\ next = 1
  /\ pc = "email"
  /\ cur = Tmp
  /\ msg = None
  /\ written = {}
  /\ resets = 0

OutboxNext ==
  \/ \E m \in Msgs : EscapeDraft(m) \/ ComposeMail(m) \/ ComposeNews(m)
                        \/ ReplyOrForward(m) \/ FollowUp(m)
  \/ ComposeNumber \/ SaveText \/ LoadEmail \/ LoadAttacher
  \/ Attacher \/ OutboxCrash

=============================================================================
