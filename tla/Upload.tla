------------------------------ MODULE Upload ------------------------------
(***************************************************************************)
(* SMTP65.SYSTEM and NNTP65UP.SYSTEM: a run offers each file of OUTBOX to  *)
(* the user, submits those the user wants to send, and moves them to SENT. *)
(* The two programs share their code but for the dialogue with the server; *)
(* app says which of them, and which outbox, an execution is about.        *)
(*                                                                         *)
(* Modelled with the programs that fill the outbox, the server, and resets *)
(* between any two steps.                                                  *)
(***************************************************************************)
EXTENDS Outbox

CONSTANTS
  ReadLines,  \* READSZ, the lines a get_line may read ahead
  HeadLines,  \* 20, the most lines the header scan looks at
  MaxSent     \* bound on the numbers n of SENT/EMAIL.n

ASSUME UploadAssumption ==
  /\ ReadLines \in Nat \ {0} /\ HeadLines \in Nat \ {0} /\ MaxSent \in Nat
  /\ Faults \subseteq {"refuse", "drop", "unsure", "crash"}

VARIABLES
  todo,      \* the directory entries readdir has not returned yet
  ahead,     \* lines get_line has read but not returned
  rcpts,     \* recipients the server has not been told yet
  connected, \* the program has logged in
  up,        \* the connection is established
  trans,     \* the server's transaction: the recipients, or None
  sent,      \* SENT/EMAIL.DB: the number and the message of each record
  sentFile,  \* sentFile[n]: the message in SENT/EMAIL.n, if it is in one piece
  sentNext,  \* SENT/NEXT.EMAIL
  submitted, \* history: the messages whose text the chip was given to the end
  accepted,  \* history: the messages a server took
  clean,     \* history: the scan of this header began at its first line
  discarded  \* history: the messages the user deleted

run == <<todo, ahead, rcpts, clean>>
link == <<connected, up, trans>>
sentBox == <<sent, sentFile, sentNext>>
history == <<submitted, accepted, discarded>>
vars == <<outboxVars, pc, run, link, sentBox, history>>

-----------------------------------------------------------------------------
(* The header scan                                                         *)

\* The lines the scan takes from s: up to the blank line, HeadLines and one
\* more, or the end of the file.
Scanned(s) ==
  LET stop == {i \in DOMAIN s : s[i] = Blank \/ i = HeadLines + 1}
  IN IF stop = {} THEN Len(s) ELSE CHOOSE i \in stop : \A j \in stop : i <= j

Addresses(s) == FlattenSeq([i \in DOMAIN s |-> IF IsTo(s[i]) THEN s[i][2] ELSE << >>])

Found(s) ==
  LET n == Scanned(s)
  IN Addresses(SubSeq(s, 1, IF n > 0 /\ (s[n] = Blank \/ n > HeadLines) THEN n - 1 ELSE n))

\* What get_line has read of a of file c, and not returned, after the scan.
Leftover(a, c) ==
  LET want == Scanned(a \o c) - Len(a)
      \* fread calls that were needed
      reads == IF want <= 0 THEN 0 ELSE (want + ReadLines - 1) \div ReadLines
      got == IF reads * ReadLines < Len(c) THEN reads * ReadLines ELSE Len(c)
  IN SubSeq(a \o c, Scanned(a \o c) + 1, Len(a) + got)

-----------------------------------------------------------------------------
(* Leaving the program, and going on to the next file                      *)

\* error_exit and confirm_exit: EMAIL.SYSTEM is loaded again.
Exit ==
  /\ pc' = "email"
  /\ cur' = Tmp
  /\ todo' = {} /\ ahead' = << >> /\ rcpts' = << >> /\ clean' = FALSE
  /\ connected' = FALSE /\ up' = FALSE /\ trans' = None
  /\ UNCHANGED <<app, out, next, msg, written>>

ErrorExit == Exit /\ UNCHANGED resets

SkipToNext ==
  /\ pc' = "next"
  /\ cur' = Tmp
  /\ rcpts' = << >>
  /\ clean' = FALSE
  /\ UNCHANGED <<app, out, next, msg, written, resets, todo>>

StartUpload ==
  /\ pc = "email"
  /\ todo' = {n \in Names : out[n] # None}
  /\ pc' = "next"
  /\ UNCHANGED <<outboxVars, ahead, rcpts, clean, link, sentBox, history>>

Open_Anyone(n) == \* does not ask whether there are recipients
  /\ app = "mail"
  /\ pc = "next"
  /\ n \in todo
  /\ todo' = todo \ {n}
  /\ ahead' = Leftover(ahead, out[n])
  /\ pc' = "ask"
  /\ cur' = n
  /\ rcpts' = Found(ahead \o out[n])
  /\ clean' = (ahead = << >>)
  /\ UNCHANGED <<app, out, next, msg, written, resets, link, sentBox, history>>

\* SMTP65: readdir and the header scan
Open(n) ==
  /\ app = "mail"
  /\ pc = "next"
  /\ n \in todo
  /\ todo' = todo \ {n}
  /\ ahead' = Leftover(ahead, out[n])
  /\ IF Found(ahead \o out[n]) = << >>
     THEN pc' = "next" /\ UNCHANGED <<cur, rcpts, clean>> \* "No recipients"
     ELSE /\ pc' = "ask"
          /\ cur' = n
          /\ rcpts' = Found(ahead \o out[n])
          /\ clean' = (ahead = << >>)
  /\ UNCHANGED <<app, out, next, msg, written, resets, link, sentBox, history>>

\* NNTP65UP: the scan only shows what it finds.
OpenNews(n) ==
  /\ app = "news"
  /\ pc = "next"
  /\ n \in todo
  /\ todo' = todo \ {n}
  /\ ahead' = Leftover(ahead, out[n])
  /\ pc' = "ask"
  /\ cur' = n
  /\ UNCHANGED <<app, out, next, msg, written, resets, rcpts, clean, link, sentBox, history>>

-----------------------------------------------------------------------------
(* S)end, H)old or D)elete                                                 *)

Hold ==
  /\ pc = "ask"
  /\ SkipToNext
  /\ UNCHANGED <<ahead, link, sentBox, history>>

Delete ==
  /\ pc = "ask"
  /\ out' = [out EXCEPT ![cur] = None]
  /\ discarded' = discarded \cup (written \cap {Whole(out[cur])})
  /\ pc' = "next"
  /\ cur' = Tmp
  /\ rcpts' = << >>
  /\ clean' = FALSE
  /\ UNCHANGED <<app, next, msg, written, resets, todo, ahead, link, sentBox, submitted, accepted>>

\* w5100_connect_addr, the greeting and HELO (AUTHINFO), once in a run
Send ==
  /\ pc = "ask"
  /\ \/ /\ pc' = IF app = "mail" THEN "mail" ELSE "post"
        /\ connected' = TRUE
        /\ up' = (connected => up)
        /\ UNCHANGED <<outboxVars, run, trans>>
     \/ ~connected /\ Faults \cap {"refuse", "drop"} # {} /\ ErrorExit
  /\ UNCHANGED <<sentBox, history>>

-----------------------------------------------------------------------------
(* SMTP65: the dialogue with the server                                    *)

\* The connection breaks: the command or the reply is lost.  The send fails,
\* or the reply is empty and not the one expected.
Lost ==
  /\ pc \in {"mail", "rcpt", "data"}
  /\ ~up \/ "drop" \in Faults
  /\ \/ ErrorExit
     \/ SkipToNext /\ up' = FALSE /\ UNCHANGED <<ahead, connected, trans>>
  /\ UNCHANGED <<sentBox, history>>

\* A reply that is not the one expected
Refused ==
  /\ pc \in {"mail", "rcpt", "data"}
  /\ up
  /\ "refuse" \in Faults \/ (pc = "mail" /\ trans # None)
  /\ SkipToNext
  /\ UNCHANGED <<ahead, link, sentBox, history>>

\* MAIL FROM.  A server has one transaction at a time.
Mail ==
  /\ pc = "mail"
  /\ up
  /\ trans = None
  /\ trans' = << >>
  /\ pc' = "rcpt"
  /\ UNCHANGED <<outboxVars, run, connected, up, sentBox, history>>

Rcpt_Refused == \* a recipient that is refused is left out
  /\ pc = "rcpt"
  /\ up
  /\ trans' \in {trans, Append(trans, Head(rcpts))}
  /\ rcpts' = Tail(rcpts)
  /\ pc' = IF Len(rcpts) = 1 THEN "data" ELSE "rcpt"
  /\ UNCHANGED <<outboxVars, todo, ahead, clean, connected, up, sentBox, history>>

Rcpt ==
  /\ pc = "rcpt"
  /\ up
  /\ trans' = Append(trans, Head(rcpts))
  /\ rcpts' = Tail(rcpts)
  /\ pc' = IF Len(rcpts) = 1 THEN "data" ELSE "rcpt"
  /\ UNCHANGED <<outboxVars, todo, ahead, clean, connected, up, sentBox, history>>

Data ==
  /\ pc = "data"
  /\ up
  /\ pc' = "body"
  /\ UNCHANGED <<outboxVars, run, link, sentBox, history>>

-----------------------------------------------------------------------------
(* NNTP65UP: POST, and any trouble with it ends the program                *)

Post ==
  /\ pc = "post"
  /\ up
  /\ trans' = << >>
  /\ pc' = "body"
  /\ UNCHANGED <<outboxVars, run, connected, up, sentBox, history>>

PostFailed ==
  /\ pc = "post"
  /\ Faults \cap {"refuse", "drop"} # {}
  /\ ErrorExit
  /\ UNCHANGED <<sentBox, history>>

-----------------------------------------------------------------------------
(* Both: the file, the end of data and the reply, which is not looked at   *)

Offered == written \cap {Whole(out[cur])}

GoOn == \* the program takes the message for sent
  /\ ahead' = << >>
  /\ trans' = None
  /\ pc' = "copy"
  /\ submitted' = submitted \cup Offered
  /\ UNCHANGED <<outboxVars, todo, rcpts, clean, connected>>

Body ==
  /\ pc = "body"
  /\ GoOn
  /\ \/ accepted' = accepted \cup Offered
     \/ "unsure" \in Faults /\ UNCHANGED accepted
  /\ UNCHANGED <<up, sentBox, discarded>>

\* The connection breaks behind the text, or while what is left of it fits
\* the chip's memory: the empty reply passes for any other.
ReplyLost ==
  /\ pc = "body"
  /\ "drop" \in Faults
  /\ GoOn
  /\ up' = FALSE
  /\ accepted' \in {accepted, accepted \cup Offered}
  /\ UNCHANGED <<sentBox, discarded>>

\* The chip has no room for more of the text and the connection is gone, or
\* the user aborts.
BodyLost ==
  /\ pc = "body"
  /\ "drop" \in Faults
  /\ ErrorExit
  /\ accepted' \in {accepted, accepted \cup Offered}
  /\ UNCHANGED <<sentBox, submitted, discarded>>

-----------------------------------------------------------------------------
(* update_sent_mbox, and removing the file                                 *)

CopySent ==
  /\ pc = "copy"
  /\ sentNext <= MaxSent
  /\ sentFile' = [sentFile EXCEPT ![sentNext] = Whole(out[cur])]
  /\ pc' = "record"
  /\ UNCHANGED <<outboxVars, run, link, sent, sentNext, history>>

RecordSent ==
  /\ pc = "record"
  /\ sent' = sent \cup {[num |-> sentNext, of |-> Whole(out[cur])]}
  /\ pc' = "number"
  /\ UNCHANGED <<outboxVars, run, link, sentFile, sentNext, history>>

NumberSent_Kept == \* NEXT.EMAIL is not written
  /\ pc = "number"
  /\ pc' = "remove"
  /\ UNCHANGED <<outboxVars, run, link, sentBox, history>>

NumberSent ==
  /\ pc = "number"
  /\ sentNext' = sentNext + 1
  /\ pc' = "remove"
  /\ UNCHANGED <<outboxVars, run, link, sent, sentFile, history>>

RemoveSent ==
  /\ pc = "remove"
  /\ out' = [out EXCEPT ![cur] = None]
  /\ pc' = "next"
  /\ cur' = Tmp
  /\ clean' = FALSE
  /\ UNCHANGED <<app, next, msg, written, resets, todo, ahead, rcpts, link, sentBox, history>>

\* QUIT and the end of the program
Finish ==
  /\ pc = "next"
  /\ todo = {}
  /\ ErrorExit
  /\ UNCHANGED <<sentBox, history>>

UploadCrash ==
  /\ "crash" \in Faults
  /\ pc \in {"next", "ask", "mail", "rcpt", "data", "post", "body", "copy", "record",
             "number", "remove"}
  /\ resets < MaxResets
  /\ resets' = resets + 1
  /\ Exit
  /\ UNCHANGED <<sentBox, history>>

-----------------------------------------------------------------------------
(* The specification                                                       *)

Init ==
  /\ OutboxInit
  /\ todo = {} /\ ahead = << >> /\ rcpts = << >> /\ clean = FALSE
  /\ connected = FALSE /\ up = FALSE /\ trans = None
  /\ sent = {}
  /\ sentFile = [n \in 1..MaxSent |-> None]
  /\ sentNext = 1
  /\ submitted = {} /\ accepted = {} /\ discarded = {}

Dialogue == Mail \/ Rcpt \/ Data \/ Refused \/ Lost \/ Post \/ PostFailed
            \/ Body \/ ReplyLost \/ BodyLost
UpdateSent == CopySent \/ RecordSent \/ NumberSent \/ RemoveSent

Next ==
  \/ OutboxNext /\ UNCHANGED <<run, link, sentBox, history>>
  \/ StartUpload \/ (\E n \in Names : Open(n) \/ OpenNews(n))
  \/ Hold \/ Delete \/ Send
  \/ Dialogue \/ UpdateSent \/ Finish \/ UploadCrash

Spec == Init /\ [][Next]_vars

-----------------------------------------------------------------------------
(* Properties                                                              *)

\* Every variable has its type.
TypeOK ==
  /\ app \in {"mail", "news"}
  /\ \A n \in Names : out[n] = None \/ Range(out[n]) \subseteq Lines
  /\ next \in 1..(MaxNum + 1) /\ cur \in Names
  /\ msg \in Msgs \cup {None} /\ written \subseteq Msgs
  /\ todo \subseteq Names /\ Range(ahead) \subseteq Lines
  /\ rcpts \in Seq(Addrs) /\ (pc = "rcpt" => rcpts # << >>)
  /\ {connected, up} \subseteq BOOLEAN
  /\ trans = None \/ trans \in Seq(Addrs)
  /\ sentNext \in 1..(MaxSent + 1)
  /\ \A r \in sent : r.num \in 1..MaxSent
  /\ clean \in BOOLEAN /\ discarded \subseteq written

\* The message about to be submitted goes to all the addresses of its header,
\* and to no others.
RightRecipients ==
  LET m == Whole(out[cur])
  IN pc = "body" /\ app = "mail" /\ m # None => trans = Addresses(Draft[m].head)

\* True when get_line reads the header from its first line, whatever the user
\* and the server did with the messages before.
OwnRecipients == clean => RightRecipients

\* The manual says so of every message.  Not so after a message was held,
\* deleted or refused (smtp65.c:121).
OnlyOwnRecipients == RightRecipients

\* The records of SENT whose file is the message they list.
InSent(m) == \E r \in sent : r.of = m /\ sentFile[r.num] = m

\* A message the user wrote and did not delete is in OUTBOX or listed in SENT,
\* in one piece: it leaves OUTBOX only once SENT has it, whatever becomes of the
\* connection and wherever a reset comes, and no later message takes its place.
NothingLost == \A m \in written \ discarded : InOutbox(m) \/ InSent(m)

\* "Rejected messages are left in OUTBOX" (README-smtp65.md:37): mail leaves it
\* only when a server took it.  Not so (smtp65.c:721).
RejectedStay ==
  app = "mail" => \A m \in written \ discarded : InOutbox(m) \/ m \in accepted

Abstract == INSTANCE Outgoing WITH
  outbox <- {m \in written : InOutbox(m)},
  sent <- {m \in written : InSent(m)}

\* The programs together handle outgoing messages the way Outgoing says: from
\* the first save to its entry in SENT no message is lost or damaged, and none
\* is listed or removed before its text was submitted, whichever program runs,
\* whatever the server and the connection do, and wherever a reset comes.
Submits == Abstract!Spec

=============================================================================
