------------------------------- MODULE Pop65 -------------------------------
(***************************************************************************)
(* POP65.SYSTEM (apps/pop65.c): a run of the program fetches every message *)
(* of a POP3 server into the SPOOL directory, then copies them into INBOX. *)
(*                                                                         *)
(* Modelled are the session with its server, the receive loop that looks   *)
(* for the end of a message in whatever pieces the network delivers, and   *)
(* the file updates of update_inbox.  The network may close the connection *)
(* at any time, the disk may be full and the machine may be reset.         *)
(*                                                                         *)
(* Bytes are the three the program looks for and letters for the rest.     *)
(***************************************************************************)
EXTENDS Integers, Sequences, FiniteSets, SequencesExt

CONSTANTS
  Mails,     \* messages
  Body,      \* Body[x]: the bytes of message x as a server sends them
  None,      \* no file; no message yet
  BufSize,   \* NETBUFSZ, the most one pass of the receive loop takes
  MaxNum,    \* bound on the numbers n of INBOX/EMAIL.n
  Modes,     \* the settings of cfg_pop_delete; TRUE is DELETE
  Faults     \* "drop" connection, "refused" RETR, "full" disk, "crash"

CR == "\r"
LF == "\n"
Dot == "."
Bytes == {CR, LF, Dot, "+OK", "-ERR", "a", "b"}
EndOfMail == <<CR, LF, Dot, CR, LF>>

ASSUME PopAssumption ==
  /\ IsFiniteSet(Mails)
  /\ Body \in [Mails -> Seq(Bytes)]
  /\ None \notin Mails \cup Seq(Bytes)
  /\ BufSize \in Nat \ {0}
  /\ MaxNum \in Nat
  /\ Modes \subseteq BOOLEAN
  /\ Faults \subseteq {"drop", "refused", "full", "crash"}

VARIABLES
  \* The server and the network
  box,       \* the messages the server holds, in order
  arrived,   \* every message that ever arrived
  up,        \* the connection is established
  session,   \* the messages of the session, numbered from 1
  marked,    \* the numbers DELE marked in it
  quit,      \* "none", "sent" (on its way) or "done"
  leaving,   \* the messages the server removes when it gets that QUIT
  stream,    \* bytes sent by the server and not read yet
  \* The program
  pc,
  delete,    \* cfg_pop_delete
  msg,       \* loop counter
  nummsgs,
  overlap,   \* the four bytes kept between passes of the receive loop
  nextemail, \* local of update_inbox
  \* The disk
  spool,     \* spool[i]: contents of SPOOL/EMAIL.i
  files,     \* files[n]: contents of INBOX/EMAIL.n
  db,        \* the numbers in the records of INBOX/EMAIL.DB
  next       \* INBOX/NEXT.EMAIL

server == <<box, arrived>>
net == <<up, session, marked, quit, leaving, stream>>
prog == <<pc, delete, msg, nummsgs, overlap, nextemail>>
inbox == <<files, db, next>>
vars == <<server, net, prog, spool, inbox>>

Slots == 1..Cardinality(Mails)
Zero == <<"0", "0", "0", "0">>

\* The replies to RETR.
Wire(x) == <<"+OK", CR, LF>> \o Body[x] \o <<Dot, CR, LF>>
ErrReply == <<"-ERR", CR, LF>>

\* A server doubles the dot of a line that begins with one (RFC 1939): a line
\* that is a dot ends the reply, and only its end.
ASSUME WireAssumption ==
  \A x \in Mails : \A i \in 1..(Len(Wire(x)) - 4) :
    SubSeq(Wire(x), i, i + 4) = EndOfMail <=> i = Len(Wire(x)) - 4

\* get_line and fputs: CRLF line ends become CR (no line fills LINEBUFSZ).
Text(s) ==
  LET f[i \in 0..Len(s)] ==
        IF i = 0 THEN << >>
        ELSE IF s[i] = LF /\ i > 1 /\ s[i - 1] = CR THEN f[i - 1]
        ELSE Append(f[i - 1], s[i])
  IN f[Len(s)]

\* What is kept of a message tells it from any other, also from one that was
\* cut short: its line ends are CRLF, and it has a Message-Id of its own.
ASSUME CopyAssumption ==
  \A x, y \in Mails : \A k \in 0..Len(Wire(x)) :
    Text(SubSeq(Wire(x), 1, k)) = Text(Wire(y)) => x = y

-----------------------------------------------------------------------------
(* The server and the network                                              *)

Arrive(x) ==
  /\ x \notin arrived
  /\ arrived' = arrived \cup {x}
  /\ box' = Append(box, x)
  /\ UNCHANGED <<net, prog, spool, inbox>>

\* The messages of s that are not in S
Without(s, S) ==
  LET f[i \in 0..Len(s)] ==
        IF i = 0 THEN << >>
        ELSE IF s[i] \in S THEN f[i - 1] ELSE Append(f[i - 1], s[i])
  IN f[Len(s)]

\* QUIT reaches the server: it removes the marked messages and closes.
ServerQuit ==
  /\ quit = "sent"
  /\ quit' = "done"
  /\ box' = Without(box, leaving)
  /\ leaving' = {}
  /\ UNCHANGED <<arrived, up, session, marked, stream, prog, spool, inbox>>

\* The connection breaks; part of what was on its way may still be read, and
\* a QUIT may still be delivered.
Drop ==
  /\ "drop" \in Faults
  /\ up
  /\ up' = FALSE
  /\ \E k \in 0..Len(stream) : stream' = SubSeq(stream, 1, k)
  /\ quit' \in {quit, IF quit = "sent" THEN "none" ELSE quit}
  /\ UNCHANGED <<server, session, marked, leaving, prog, spool, inbox>>

\* A server closes a session when its client waits for something it has sent
\* already.
Autologout ==
  /\ pc = "data"
  /\ up
  /\ stream = << >>
  /\ up' = FALSE
  /\ UNCHANGED <<server, session, marked, quit, leaving, stream, prog, spool, inbox>>

-----------------------------------------------------------------------------
(* Leaving the program: error_exit, confirm_exit                           *)

Off ==
  /\ pc' = "off"
  /\ delete' = FALSE
  /\ msg' = 0
  /\ nummsgs' = 0
  /\ overlap' = Zero
  /\ nextemail' = 0
  /\ up' = FALSE
  /\ stream' = << >>
  /\ session' = << >>
  /\ marked' = {}

ErrorExit == Off /\ UNCHANGED <<server, quit, leaving, inbox>>

-----------------------------------------------------------------------------
(* main: the session                                                       *)

\* The next message, or the end of the loop over them
ForMsg(i) ==
  /\ msg' = i
  /\ pc' = IF i > nummsgs' THEN "send_quit" ELSE "retr"

\* The bound: there are numbers and records for the messages of the session.
HasRoom(n) == next + n <= MaxNum + 1 /\ Len(db) + n <= MaxNum

\* Connect, log in and STAT.  The server serves one session at a time.  When
\* the connection breaks before the reply to STAT, sscanf leaves nummsgs, a
\* local that was never set, alone.
Start ==
  /\ pc = "off"
  /\ quit # "sent"
  /\ HasRoom(Len(box))
  /\ delete' \in Modes
  /\ session' = box
  /\ marked' = {}
  /\ quit' = "none"
  /\ \/ /\ up' = TRUE
        /\ nummsgs' = Len(box)
     \/ /\ "drop" \in Faults
        /\ up' = FALSE
        /\ nummsgs' \in 0..Cardinality(Mails)
  /\ ForMsg(1)
  /\ UNCHANGED <<server, leaving, stream, overlap, nextemail, spool, inbox>>

\* RETR: the spool file is emptied before the request is sent.
Retr ==
  /\ pc = "retr"
  /\ spool' = [spool EXCEPT ![msg] = << >>]
  /\ IF up
     THEN /\ \/ stream' = stream \o Wire(session[msg])
             \/ "refused" \in Faults /\ stream' = stream \o ErrReply
          /\ pc' = "data"
          /\ overlap' = Zero
          /\ UNCHANGED <<server, up, session, marked, quit, leaving,
                         delete, msg, nummsgs, nextemail, inbox>>
     ELSE ErrorExit

\* The five bytes end with one of the bytes of piece s.
SawEnd_ThreeBytes(o, s) == \* looks for ".\r\n" only
  LET seen == o \o s
  IN \E i \in 1..Len(s) : SubSeq(seen, i + 2, i + 4) = <<Dot, CR, LF>>

SawEnd(o, s) ==
  LET seen == o \o s
  IN \E i \in 1..Len(s) : SubSeq(seen, i, i + 4) = EndOfMail

Last4(s) == SubSeq(s, Len(s) - 3, Len(s))

AfterData ==
  IF delete THEN pc' = "dele" /\ UNCHANGED <<msg, nummsgs>>
  ELSE UNCHANGED nummsgs /\ ForMsg(msg + 1)

\* One pass of the receive loop
Receive ==
  /\ pc = "data"
  /\ \E k \in 1..(IF Len(stream) < BufSize THEN Len(stream) ELSE BufSize) :
       LET s == SubSeq(stream, 1, k) IN
       /\ spool' = [spool EXCEPT ![msg] = @ \o s]
       /\ stream' = SubSeq(stream, k + 1, Len(stream))
       /\ overlap' = Last4(overlap \o s)
       /\ IF SawEnd(overlap, s) THEN AfterData ELSE UNCHANGED <<pc, msg, nummsgs>>
  /\ UNCHANGED <<server, up, session, marked, quit, leaving, delete, nextemail, inbox>>

ReceiveFull_Ignored == \* goes on when fwrite wrote nothing
  /\ "full" \in Faults
  /\ pc = "data"
  /\ stream # << >>
  /\ stream' = << >>
  /\ overlap' = Last4(overlap \o stream)
  /\ IF SawEnd(overlap, stream) THEN AfterData ELSE UNCHANGED <<pc, msg, nummsgs>>
  /\ UNCHANGED <<server, up, session, marked, quit, leaving, delete, nextemail, spool, inbox>>

\* "Write error": the piece is lost and the program ends.
ReceiveFull ==
  /\ "full" \in Faults
  /\ pc = "data"
  /\ stream # << >>
  /\ UNCHANGED spool
  /\ ErrorExit

DataClosed_Waits == \* the connection is not looked at
  /\ pc = "data"
  /\ stream = << >>
  /\ ~up
  /\ UNCHANGED vars

\* Nothing to read and no connection: the loop ends and returns true.
DataClosed ==
  /\ pc = "data"
  /\ stream = << >>
  /\ ~up
  /\ AfterData
  /\ UNCHANGED <<server, net, delete, overlap, nextemail, spool, inbox>>

Dele_Next == \* numbers messages from 0
  /\ pc = "dele"
  /\ up /\ stream = << >>
  /\ marked' = marked \cup {msg + 1}
  /\ UNCHANGED nummsgs
  /\ ForMsg(msg + 1)
  /\ UNCHANGED <<server, up, session, quit, leaving, stream,
                 delete, overlap, nextemail, spool, inbox>>

\* DELE, and expect(buf, "+OK"), which sees any byte left unread
Dele ==
  /\ pc = "dele"
  /\ UNCHANGED spool
  /\ IF up /\ stream = << >>
     THEN /\ marked' = marked \cup {msg}
          /\ UNCHANGED nummsgs
          /\ ForMsg(msg + 1)
          /\ UNCHANGED <<server, up, session, quit, leaving, stream,
                         delete, overlap, nextemail, inbox>>
     ELSE ErrorExit

\* QUIT; a send that fails is ignored.
SendQuit ==
  /\ pc = "send_quit"
  /\ pc' = "quit"
  /\ msg' = 1
  /\ quit' = IF up THEN "sent" ELSE quit
  /\ leaving' = IF up THEN {session[i] : i \in marked} ELSE {}
  /\ session' = << >>
  /\ marked' = {}
  /\ UNCHANGED <<server, up, stream, delete, nummsgs, overlap, nextemail, spool, inbox>>

\* The reply, or the end of the connection; then w5100_disconnect, and
\* update_inbox reads NEXT.EMAIL.
Disconnect ==
  /\ pc = "quit"
  /\ quit = "done" \/ ~up
  /\ up' = FALSE
  /\ stream' = << >>
  /\ pc' = "import"
  /\ nextemail' = next
  /\ UNCHANGED <<server, session, marked, quit, leaving, delete, msg, nummsgs, overlap,
                 spool, inbox>>

-----------------------------------------------------------------------------
(* update_inbox                                                            *)

Importing == pc = "import" /\ msg <= nummsgs

\* SPOOL/EMAIL.msg is copied to INBOX/EMAIL.nextemail.  The error exit for a
\* file that cannot be opened is never taken: see ImportFindsSpool.
ImportCopy ==
  /\ Importing
  /\ files' = [files EXCEPT ![nextemail] = Text(spool[msg])]
  /\ nextemail' = nextemail + 1
  /\ pc' = "record"
  /\ UNCHANGED <<server, net, delete, msg, nummsgs, overlap, spool, db, next>>

\* fputs is not looked at: the file ends where the disk did.
ImportCopyFull ==
  /\ "full" \in Faults
  /\ Importing
  /\ files' = [files EXCEPT ![nextemail] = << >>]
  /\ nextemail' = nextemail + 1
  /\ pc' = "record"
  /\ UNCHANGED <<server, net, delete, msg, nummsgs, overlap, spool, db, next>>

\* update_email_db; nor is its fwrite
ImportRecord ==
  /\ pc = "record"
  /\ \/ db' = Append(db, nextemail - 1)
     \/ "full" \in Faults /\ UNCHANGED db
  /\ pc' = "unlink"
  /\ UNCHANGED <<server, net, delete, msg, nummsgs, overlap, nextemail, spool, files, next>>

ImportUnlink_Last == \* unlinks the file with the highest number
  /\ pc = "unlink"
  /\ spool' = [spool EXCEPT ![nummsgs] = None]
  /\ msg' = msg + 1
  /\ pc' = "import"
  /\ UNCHANGED <<server, net, delete, nummsgs, overlap, nextemail, inbox>>

ImportUnlink ==
  /\ pc = "unlink"
  /\ spool' = [spool EXCEPT ![msg] = None]
  /\ msg' = msg + 1
  /\ pc' = "import"
  /\ UNCHANGED <<server, net, delete, nummsgs, overlap, nextemail, inbox>>

ImportDone_NoNumber == \* NEXT.EMAIL is not written
  /\ pc = "import"
  /\ msg > nummsgs
  /\ Off
  /\ UNCHANGED <<server, quit, leaving, spool, inbox>>

\* write_next_email, once for all messages
ImportDone ==
  /\ pc = "import"
  /\ msg > nummsgs
  /\ next' = nextemail
  /\ Off
  /\ UNCHANGED <<server, quit, leaving, spool, files, db>>

\* A reset, or the user aborts the program (which only looks while it waits
\* for the network; a reset then has the same effect).
Crash ==
  /\ "crash" \in Faults
  /\ pc # "off"
  /\ UNCHANGED spool
  /\ ErrorExit

-----------------------------------------------------------------------------
(* The specification                                                       *)

Init ==
  /\ box = << >> /\ arrived = {}
  /\ up = FALSE /\ session = << >> /\ marked = {}
  /\ quit = "none" /\ leaving = {} /\ stream = << >>
  /\ pc = "off" /\ delete = FALSE /\ msg = 0 /\ nummsgs = 0
  /\ overlap = Zero /\ nextemail = 0
  /\ spool = [i \in Slots |-> None]
  /\ files = [n \in 1..MaxNum |-> None]
  /\ db = << >>
  /\ next = 1

Session == Retr \/ Receive \/ ReceiveFull \/ DataClosed \/ Dele \/ SendQuit \/ Disconnect
UpdateInbox == ImportCopy \/ ImportCopyFull \/ ImportRecord \/ ImportUnlink
               \/ ImportDone
Network == ServerQuit \/ Drop \/ Autologout

Next ==
  \/ \E x \in Mails : Arrive(x)
  \/ Start \/ Session \/ UpdateInbox \/ Network \/ Crash

Spec == Init /\ [][Next]_vars

\* The program runs on its own; a server answers QUIT and closes a session
\* that has gone idle.
LiveSpec == /\ Spec
            /\ WF_vars(Session \/ UpdateInbox)
            /\ WF_vars(ServerQuit)
            /\ WF_vars(Autologout)

-----------------------------------------------------------------------------
(* Properties                                                              *)

\* Every variable has its type.
TypeOK ==
  /\ arrived \subseteq Mails /\ box \in Seq(arrived)
  /\ up \in BOOLEAN /\ session \in Seq(Mails) /\ marked \subseteq DOMAIN session
  /\ quit \in {"none", "sent", "done"} /\ leaving \subseteq Mails
  /\ stream \in Seq(Bytes)
  /\ pc \in {"off", "retr", "data", "dele", "send_quit", "quit",
             "import", "record", "unlink"}
  /\ delete \in BOOLEAN
  /\ msg \in 0..(Cardinality(Mails) + 1) /\ nummsgs \in 0..Cardinality(Mails)
  /\ overlap \in Seq(Bytes \cup {"0"}) /\ Len(overlap) = 4
  /\ nextemail \in 0..(MaxNum + 1) /\ next \in 1..(MaxNum + 1)
  /\ \A i \in Slots : spool[i] = None \/ spool[i] \in Seq(Bytes)
  /\ \A n \in 1..MaxNum : files[n] = None \/ files[n] \in Seq(Bytes)
  /\ db \in Seq(1..MaxNum)

\* The receive loop reads exactly one reply, however the network cuts it:
\* it never stops with bytes of the message unread, which the next command
\* would take for its own reply, and never waits for more than was sent.
ReadsWholeReply ==
  /\ pc \in {"retr", "dele", "send_quit"} => stream = << >>
  /\ pc = "data" => spool[msg] # Wire(session[msg])

\* update_inbox gives up ("Can't open") when a spool file is missing, and would
\* leave what it imported unnumbered: every file it comes to is there.
ImportFindsSpool == Importing => spool[msg] # None

\* Once the server has got QUIT it removes messages, and what update_inbox then
\* reads is the only copy: QUIT is sent only when each of them is whole in SPOOL,
\* whatever the network and the disk did.
QuitsWhenSpooled ==
  [][\A x \in leaving' \ leaving : \E i \in 1..nummsgs : spool'[i] = Wire(x)]_vars

WholeCopy == [x \in Mails |-> Text(Wire(x))]
InInbox(x) == \E i \in DOMAIN db : files[db[i]] = WholeCopy[x]
InSpool(x) == pc # "off" /\ \E i \in Slots : spool[i] = Wire(x)

\* "The software should never modify or discard information": a message that
\* arrived is at the server, in the inbox, or about to get there.  Not so when
\* the disk is full (pop65.c:486).
NothingLost ==
  \A x \in arrived : x \in Range(box) \/ InInbox(x) \/ InSpool(x)

\* The refinement: a run commits to what it has spooled when it sends QUIT.
Entry(c) == IF c \in Range(WholeCopy) THEN CHOOSE x \in Mails : c = WholeCopy[x] ELSE None
Pending ==
  CASE pc = "quit"               -> 1..nummsgs
    [] pc \in {"import", "record"} -> msg..nummsgs
    [] pc = "unlink"             -> (msg + 1)..nummsgs
    [] OTHER                     -> {}
Fetched ==
  [i \in DOMAIN db |-> Entry(files[db[i]])]
    \o [k \in 1..Cardinality(Pending) |->
          Entry(Text(spool[nummsgs - Cardinality(Pending) + k]))]

Abstract == INSTANCE Delivery WITH
  server <- Range(box), inbox <- Fetched, Damaged <- None

\* POP65 moves mail the way Delivery says: nothing leaves the server that the
\* inbox does not get, in order, in one piece.
Delivers == Abstract!Spec

\* A run comes to its end, whatever the network does.
RunEnds == (pc # "off") ~> (pc = "off")

=============================================================================
