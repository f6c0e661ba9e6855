# A verification of the ][ mail suite

The repository is an Internet mail and news suite for the Apple // (`apps/`,
C for cc65), on top of the ip65 network stack (`ip65/`, `drivers/`, 6502
assembly). This directory holds TLA+ models of its parts, the TLC
configurations that check them, and TLAPS proofs.

## The system

The programs of the suite run one at a time and hand over by leaving files on
disk and loading the next program. There are no threads and no interrupts that
touch program state. What is hard is the disk between two programs (and between
two file operations when the machine is reset or the disk is full), the network
peer, long sequences of commands over state that is cached in memory or kept in
fixed-width integers, and the one thing that does run at the same time as a
program: the network chip, whose registers and memory it shares.

| part | state | operations | interacts with |
| --- | --- | --- | --- |
| EMAIL.SYSTEM (`apps/email.c`) | per mailbox `EMAIL.DB`, `EMAIL.n`, `NEXT.EMAIL`; `EMAIL.PREFS`; in memory one page of headers, selection, counters, order | the keys of the summary screen, purge, copy/move/archive, new and switch mailbox, compose, reply, forward, pager | writes OUTBOX for SMTP65 and NEWS.OUTBOX for NNTP65UP, starts the other programs, reads INBOX |
| POP65.SYSTEM (`apps/pop65.c`) | SPOOL files, INBOX, a POP3 session | RETR and DELE of every message, `update_inbox` | POP3 server, INBOX |
| SMTP65.SYSTEM (`apps/smtp65.c`) | OUTBOX, SENT, an SMTP session | one transaction per OUTBOX file, move to SENT | SMTP server, mailboxes |
| NNTP65, NNTP65UP (`apps/nntp65.c`, `apps/nntp65.up.c`) | NEWSGROUPS.CFG with the last article per group, kill list, news mailboxes | fetch new articles, post | NNTP server, mailboxes |
| EDIT.SYSTEM (`apps/edit.c`) | gap buffer, selection, clipboard banks | insert, delete, move, block operations, load and save | files of the mail programs |
| ATTACHER.SYSTEM (`apps/attacher.c`) | one OUTBOX file, TMPFILE | rewrite the message as MIME, add files | OUTBOX |
| REBUILD, DATE65, PRINT65 | files | EMAIL.DB from EMAIL.n; NTP date; printing | mailboxes |
| `apps/w5100.c` | socket registers, ring pointers | connect, send and receive requests and commits, disconnect | the W5100 chip, all network programs |
| WGET65 (`apps/wget65.c`, `apps/w5100_http.c`) | buffers for a header and a body, a file | one HTTP fetch into a file | `w5100.c`, a web server |
| ip65 | one TCP connection, ARP cache, DHCP, DNS, UDP listeners, timers | polling loops and packet handlers | Ethernet drivers |

What makes each of them correct: a mailbox's records and files agree and
commands act on the message the user sees (EMAIL); nothing is lost between
server, SPOOL and INBOX (POP65), or between the keyboard, OUTBOX and SENT
(EMAIL, ATTACHER, SMTP65, NNTP65UP); a message goes to its own recipients and to
no others; every article is fetched once and no subscription is lost (NNTP65);
the two halves of the gap buffer are the text, and the parts of a long file are
saved together and in order (EDIT); the bytes handed to the program are the
bytes the peer sent (TCP, W5100); waiting loops end.

`PROJECT.json` lists every part with its status, and under `hazards` the places
where this code is hard to test.

## Modules

| module | models |
| --- | --- |
| `Mailbox` | the mailboxes and the summary screen of EMAIL.SYSTEM |
| `MCMailbox` | instances of it for TLC |
| `MailboxInv` | the invariants of the proofs, in two layers |
| `MailboxProofs` | types, the index of the highlighted record and the counters, proved |
| `MailboxSafety` | records and files agree, no message is lost, a move keeps its message, tagged messages are reached, proved |
| `Delivery` | what fetching mail promises, abstractly |
| `Pop65` | a run of POP65.SYSTEM with its server, the network and the disk |
| `MCPop65` | instances of it for TLC |
| `Pop65Proofs` | every reply is read whole, QUIT comes after SPOOL, it implements `Delivery`, proved |
| `Text` | a text with a cursor, abstractly |
| `Edit` | one buffer of EDIT.SYSTEM |
| `MCEdit` | instances of it for TLC |
| `EditProofs` | the gap stays sound, it implements `Text`, proved |
| `Documents` | several documents and their files, abstractly |
| `Buffers` | the buffers of EDIT.SYSTEM: files over several of them |
| `MCBuffers` | instances of it for TLC |
| `BuffersProofs` | the parts of a file stay in order, it implements `Documents`, proved |
| `Outgoing` | what sending promises, abstractly |
| `Outbox` | OUTBOX and the programs that fill it: EMAIL, EDIT, ATTACHER |
| `Upload` | a run of SMTP65 or NNTP65UP with its server, on top of `Outbox` |
| `MCUpload` | instances of it for TLC |
| `UploadProofs` | no message is lost, recipients are the message's own, it implements `Outgoing`, proved |
| `Nntp65` | a run of NNTP65.SYSTEM with its server, the disk and the user |
| `MCNntp65` | instances of it for TLC |
| `Nntp65Proofs` | no subscription is lost, which articles may come twice or be passed over, and that no other does and none strays, proved |
| `W5100` | the TCP driver of the network programs and the chip |
| `Wget65` | WGET65 over `W5100`, with the web server |
| `MCWget65` | instances of it for TLC |
| `Wget65Proofs` | the driver grants what is there, no byte is lost, a complete file is whole, proved |

### Mailbox

State. `files[m][n]` is the content of `m/EMAIL.n` (the message, or `None`),
`db[m]` the records of `m/EMAIL.DB`, `listed` the mailboxes whose EMAIL.DB
exists, `next[m]` the number in `m/NEXT.EMAIL` (0: the mailbox was never
created), `prefs` the file EMAIL.PREFS. In memory: `curr`, `rev`, `first`,
`sel` are `curr_mbox`, `reverse`, `first_msg`, `selection`; `page` is the list
rooted at `headers`; `tot` the three counters; `pc` and `job` say which command
is running and with which locals.

Actions. One per key of `keyboard_hdlr`, each with all the code it runs: `Read`
rewrites the record and reloads the page, `Tag`, `Delete` and `Undelete` rewrite it
and run `go_to_next_message`, `Reply` and `Leave` write EMAIL.PREFS and leave the
program. Copy, move and archive (`copy_to_mailbox_tagged`, `copy_to_mailbox`) and
purge (`purge_deleted`) update several files and are cut into one step per file
update, so that a machine may stop in between: `CopyFile` (EMAIL.n written),
`CopyDb` (record appended), `CopyNext` (NEXT.EMAIL written), `CopyMark` (source
record rewritten); `PurgeRecord`, `PurgeUnlink`, `PurgeRename`. The walk over the
tagged messages is `ScanRecord`, `ScanEnd` and `ScanStraddle`: the seek to record
`count` is by a product of 16 bits, which from some record on wraps, so that the
reads straddle two records and go on for as long as the offset stays within
EMAIL.DB. `Import` is one message arriving through POP65 while EMAIL.SYSTEM is not
running.

Abstractions. A message is a model value; a header record keeps its number, status,
tag and the identity of the message whose headers it shows. `Width` is 65536 in the
code and a smaller number in the instances, larger than every index that does not
wrap; `RecSize` is 366, the bytes of a record, by which the walk seeks. What a
straddling read shows is taken for a record without a tag: where the byte at the
place of the tag happens to be a T, the number beside it is made of two pieces of
the records, and `copy_to_mailbox` is taken to refuse it, as it does when there is
no such file. (366 being even, the offsets of the code meet the beginnings of
records again after 32768 reads; the walk does not end any sooner for it, and what
is tagged there was dealt with before.) `CopyDbFull` leaves out that the return
behind it (email.c:2027) does not close EMAIL.DB, which ProDOS then refuses to open
again until the program is left. A failing `fwrite` writes nothing. A seek past the
end of EMAIL.DB is the fatal error the program makes of it, and the user then starts
again (and deletes EMAIL.PREFS if even the start fails). Creating a mailbox is one
step. The files written into OUTBOX by reply and forward are not in this model, and
neither are prompts the user declines, because they change nothing. `MaxNum` bounds
the numbers of EMAIL.n and the length of EMAIL.DB.

Operators named `X_Suffix` stand beside the definition they vary; they are
plausible bugs, used to confirm that the properties can fail.

### Pop65

State. `box` is what the POP3 server holds, `session` the messages it numbered
at login, `marked` those DELE marked, `quit` and `leaving` a QUIT on its way,
`up` and `stream` the connection. `pc`, `msg`, `nummsgs`, `nextemail` are where
the program is and its locals; `overlap` is the four bytes kept in `recvbuf`
between two passes of the receive loop. On disk: `spool[i]` (`SPOOL/EMAIL.i`),
`files[n]` (`INBOX/EMAIL.n`), `db` (the numbers in `EMAIL.DB`), `next`.

Actions. `Start` is connect, login and STAT; `Retr`, `Dele`, `SendQuit` and
`Disconnect` the rest of the dialogue in `main`; `Receive` one pass of the
receive loop, which takes any number of the bytes that wait and looks for the
five-byte end across the overlap; `ReceiveFull` and `DataClosed` its other two
exits. `update_inbox` is one step per file update: `ImportCopy` (with `Text`,
what `get_line` makes of the line ends), `ImportRecord`, `ImportUnlink`,
`ImportDone` (NEXT.EMAIL, once for all messages). The server and the network are
`Arrive`, `ServerQuit`, `Drop`, `Autologout`; `Crash` is a reset.

Abstractions. A command and its one-line reply are one step, because the program
waits for the reply, and a reply that does not come has the same effect as a
reset. QUIT alone is cut in two, since its reply is not looked at. Bytes are
those the code looks for, the first tokens of replies and letters. A record of
EMAIL.DB is its number. A write to a full disk writes nothing. The server serves
one session at a time and forgets the marks of a session without QUIT. `Start`
is only taken while there are numbers (`MaxNum`) for the messages.

Two assumptions say what the bytes stand for. `WireAssumption`: the five bytes
that end a reply to RETR are nowhere else in it, which is what RFC 1939 has
servers double dots for. `CopyAssumption`: a beginning of one message's reply is
not stored as another message, since every message ends with a line of its own.
`Text` is a recursive function and `Without` a list without some of its entries,
in a form that can be reasoned about; `Without` is what the server does to its
maildrop at QUIT.

Delivery. `Pop65` is shown to implement it with `server` mapped to the messages
in `box` and `inbox` to the messages whose records are in EMAIL.DB, followed by
those the run has committed to by sending QUIT. An entry that is not the whole
message is `Damaged`. So a message leaves the server only when the inbox gets
it, whole, and at most once in a session; a truncated message may be listed, and
the server then still holds it.

### Edit

State. `buf` is the memory of the buffer, `gapbegin`, `gapend`, `oldgapbegin`,
`oldgapend`, `canundo`, `startsel`, `endsel` and `mode` as in the code (`mode`
without the values it has only while a search is running). `cut` is the part of
`iobuf` that `cutbuflen` says is a clipboard, `clipfile` the file CLIPBOARD,
`modified` is `status[0]`, `disk` the file of the buffer. `before` and `moved`
are history variables.

Actions. One per key of `edit()`. `Jumped` is `jump_pos` with `move_in_gapbuf`,
which when it copies downwards takes one byte more than asked (`dl1` stores before
it compares `y` with 0); `Left` and `Right` move one character, and the keys that go
by words, lines and pages repeat them. `CanGoRight` is the comparison the code
makes, which in a full buffer with the cursor at the beginning fails, because
`gapend` is then 65535 (here -1): the key beeps (`RightBeeps`). `Taken` is what
`load_file` takes of a file before it finds the buffer full; `Saved` the way there
and back that `save_file` makes, which also ends the short clipboard, since `iobuf`
is used for other things.

Habits. The code checks neither that a short clipboard fits (edit.c:2490) nor
that a selection still lies within the text (edit.c:2463), a file is loaded and a
zero byte for a search is written without a look at the first free byte
(edit.c:808, 1683), and undo is only right while the gap has not been moved.
`Habits` says which of these the user of an instance avoids: "room", "range",
"undo". Without "room" or "range", TLC finds `GapSound` violated in four steps.
`Margin`, how many bytes "room" leaves free, is at least 1: `gapbegin` must not
pass `gapend` for the key that comes next.

Text. `Edit` implements it with `text` mapped to the bytes before and after the
gap and `cursor` to `gapbegin`: every command inserts, removes or moves in one
place, and undo returns the text from before the last change.

Not here: replace, wrap and unwrap, the screen.

### Buffers

State. For each bank of auxiliary memory `b` its `filename` (`name[b]`), its
`status[2]` (`part[b]`, 0 for a file in one buffer) and its text, as a sequence
of lines; `cur` is `l_auxbank`, `disk` the files.

Actions. `Jump` is the keys that change the bank. `Open` is CA-O with the way
`load_file` goes on in the next bank, for as long as that one is empty;
`OpenMissing` a file that does not exist, `NameFile` CA-N, which names all parts,
`Save` `save_multibank_file` and the single `save_file`, `Extend` CA-E, which
gives the next buffer, if it is empty, the next part number, `Truncate` CA-T, which
removes the text and the name of all later parts. `Type` and `Erase` stand for
what `Edit` models.

Habits. With "fresh" the user opens and extends only where no part of another
file lies; without it OA-O leaves the part number of the old file (edit.c:785)
and extending makes two buffers the same part. With "own" the user does not
truncate in the last part: CA-T there empties the next buffer, whose file is
another one, and in the last bank there is none (edit.c:2775). `LoadMax` and
`Capacity` are in lines what edit.c:833 and BUFSZ are in bytes; `MaxLines` and
`MaxFiles` bound the instance. A file of `Contents` is a list of lines or does not
exist.

Documents. `Buffers` implements it with a document at every buffer that has
part 0 or 1, whose text is that of its parts joined. A command changes at most
one document, and a save writes all of one document to the file of its name.

Not here: the status bytes that decide which prompts appear, the list of
buffers, and finding out how many banks the machine has.

### Outbox and Upload

State. `out[n]` is the file `EMAIL.n` of OUTBOX or NEWS.OUTBOX as a sequence of
the lines the programs tell apart (header lines with addresses, other header
lines, MIME header lines, the blank line, text); `out[0]` is TMPFILE. `next` is
NEXT.EMAIL. In an upload `todo` is what `readdir` has not returned, `ahead` the
lines the static buffer of `get_line` holds, `rcpts` the recipients still to be
told, `connected` the static variable of that name, `trans` the transaction of
the server. `sent`, `sentFile`, `sentNext` are the mailbox SENT.

Actions. The programs one after the other: `EscapeDraft`, `ComposeMail`,
`ComposeNews`, `ReplyOrForward`, `FollowUp`, `ComposeNumber` (EMAIL.SYSTEM writes
the header, then NEXT.EMAIL), `SaveText`, `LoadEmail`, `LoadAttacher` (EDIT),
`AttachCopy`, `AttachUnlink`, `AttachRename` (ATTACHER), then SMTP65 or NNTP65UP:
`Open` and `OpenNews` scan the header, `Hold`, `Delete` and `Send` are the user,
`Mail`, `Rcpt`, `Data`, `Post`, `Body` the dialogue, and `CopySent`, `RecordSent`,
`NumberSent`, `RemoveSent` the file updates of `update_sent_mbox`. `Refused` and
`Lost` skip to the next file; where the code calls `error_exit` the program ends
(`BodyLost`, `PostFailed`). A connection that is lost during the text ends the
program only if the chip has no room for more of it (`BodyLost`); else the empty
reply ends the receive loop with success (smtp65.c:302), is not looked at, and the
program goes on as after any other reply (`ReplyLost`). `OutboxCrash` and
`UploadCrash` are resets.

The header scan is modelled with the read-ahead of `get_line`: `Leftover` says
what stays in its buffer after the scan, and the next scan begins with it.
`clean` records that a scan began with nothing left over.

Faults and habits. "refuse": replies other than the one expected; "drop": a
connection that breaks at any place; "unsure": a server that refuses a message
after its text, a reply the code prints and does not act on; "crash": resets, at
most `MaxResets`. "tidy": the user does not attach while a TMPFILE is left from a
reset (SMTP65 shows it like a message). `ReadLines` and `HeadLines` are READSZ in
lines and the 20 lines of the scan; `MaxNum` and `MaxSent` bound the numbers.
`DraftAssumption` says that messages can be told apart: each has a line of text
that is not in its header and not in another message.

Outgoing. The whole implements it with `outbox` mapped to the saved messages that
are in OUTBOX in one piece and `sent` to those with a record in SENT whose file
is that message. So a message the user wrote leaves the outbox only after its text
was given to the chip to the end (`submitted`) and SENT has it, or when the user
deleted it. That a server took it is not promised: the programs do not ask.

Not here: quoting, the wording of headers, MIME and base64 text, the login.

### Nntp65

State. `low`, `high`, `cancelled`, `gone` are the server's groups: the first and
last number it reports, the numbers between that name no article, the groups it no
longer has; `at` is the current group and article of the session. `line`, `lownum`,
`highnum`, `msgnum`, `msg` are the locals of `main` under their names. On disk:
`cfg` and `new` (NEWSGROUPS.CFG and NEWSGROUPS.NEW), `spool[n]`
(`NEWS.SPOOL/NEWS.n`), `files[g]` and `db[g]` (the mailbox of group `g`). `lost`,
`refused` and `skipped` are history: groups for which a reply was not received,
groups in which a STAT was refused, and new articles that a run began behind.

Actions. `Start` opens the two files; `SelectGroup` is GROUP with the number to
start behind, `NoSuchGroup` reply 411; `Stat`, `NextArticle`, `GetArticle` and
`NoMore` the loop over NEXT; `SaveMark` the `fprintf` of the line; `ImportOpen` to
`ImportDone` are `update_mailbox`, which takes the files in the order of the
directory; `Replace` unlinks NEWSGROUPS.CFG and `Finish` renames. `ErrorExit` ends a
run early, with what is on disk left there. A reply that is not received because the
server has closed leaves the variables of the `sscanf` as they were (`GroupLost`). A
STAT that is refused leaves the current article where GROUP has put it, at the first
one (`Stat`). `Post`, `Expire`, `Cancel`, `RemoveGroup`, `Drop` are the server,
`ClearSpool` and `RenameByHand` the user between runs, `Crash` a reset.

Habits. "clears": the user empties NEWS.SPOOL after a run that was cut short.
Without it the next run imports what is left there into the mailbox of its first
group, and `OwnMailbox` fails. Nothing is assumed of what the server expires or
cancels between runs. `FirstFetch` is 100, `Wrap` 2^32, `EmailWrap` 2^16; `MaxNum`
bounds the article numbers, `MaxVanished` the articles that expire or are cancelled,
`MaxLost` the groups that may have lost a reply before the connection drops again,
and `MaxCuts` the runs that are cut short.

Not here: the login, the header fields shown in the summary, the log, and
commands that name a mailbox by the group (each group has one of its own).

### W5100 and Wget65

State. The chip: `status` and `command`, the registers of the socket; `mem[d]`,
the two rings; `reg[d]`, the pointer register the program writes, `own[d]`, that
pointer as of the last command the chip executed, `far[d]`, the chip's end of the
ring. `step`, `high`, `size` are where `w5100_data_request` is in reading the
size, a byte at a time. WGET65: `pos` bytes of the request sent, `header` and
`buffer` what was received, `file`; the server: `request`, `reply`. The last
element of `Header` stands for the blank line the program looks for, so it is in
the header once (`WgetAssumption`).

Actions. The chip runs by itself: `Execute` takes the pending command at any
later time, `Arrive` and `Transmit` move bytes at its ends of the rings. `Ask`,
`ReadHigh`, `ReadLow` are the reads of the size until two agree; `Commit` writes
the pointer and the command and waits for nothing. `Granted` and `Cell` differ
by `single`: with SINGLE_SOCKET the address wraps in hardware, otherwise a
request is cut at the end of the ring. `SendSome`, `ReceiveHeader`, `ReceiveFile`
and `EndOfFile` are the three loops of WGET65.

Faults. "drop": the connection is lost; "early": the server closes as soon as
everything is on its way; "stop": the abort key; "full": a write fails. `dropped`
and `hurried` record the first two. `BufLen` is the buffer of WGET65; the header
of the instance fits into it.

Not here: that the chip's own update of a size register can be seen half done
(the double read is there for it; the model lets the size change between the
two halves, which has the same effect), the addresses and memory sizes, DNS
offloading, and writing to a disk drive instead of a file.

## Runs

| run | bounds | shows |
| --- | --- | --- |
| `mailbox` | 2 mailboxes, 2 messages, numbers to 2, pages of 2, all commands, both orders | `TypeOK`, `RecordsOwnFiles`, `UniqueNumbers`, `IndexNamesSelection`, `TotalsCountMailbox`, `NeverLost` |
| `mailbox_crash` | the same with pages of 1, copying into the viewed mailbox, a reset at any step of a copy | `IndexNamesSelection`, `MoveKeepsMessage`, `AllTaggedCopied` |
| `mailbox_ends` | 1 mailbox, 3 numbers, 4 records within reach of the seek, full disk, a reset in a purge, both orders | `CommandEnds` |
| `mailbox_reverse` | 1 mailbox of up to 3 messages, pages of 1, both orders | a violation of `DeleteKeepsRecords` |
| `pop` | 2 messages of 9 and 10 bytes with dots in awkward places, passes of up to 6 bytes, 3 numbers, both settings of DELETE, RETR refused, connection dropped | `ReadsWholeReply`, `Delivers`, `RunEnds` |
| `pop_faults` | 2 messages of 9 bytes, passes of up to 4, 2 numbers, every fault | `TypeOK`, `ImportFindsSpool`, `QuitsWhenSpooled` |
| `edit` | a buffer of 3 bytes, 2 characters, a tab of 2, short clipboard of 1, a file of 2, all habits, full disk | `TypeOK`, `GapSound`, `EditsText` |
| `buffers` | 3 buffers of 2 lines, a file of 2 parts and a new one, 3 lines in all | `TypeOK`, `PartsInOrder`, `KeepsDocuments` |
| `upload` | 2 messages, one with two recipients and one a forward that quotes a To: line, numbers to 2, one reset, every fault, mail and news, a header scan of 6 lines | `TypeOK`, `OwnRecipients`, `NothingLost`, `Submits` |
| `upload_refused` | the same with "unsure" only | a violation of `RejectedStay` |
| `news` | 2 groups with numbers in common, one new to the reader, a kill list, numbers to 3, one article expired or cancelled, replies lost in one drop, one run cut short | `TypeOK`, `SubscriptionsKept`, `NothingSkipped`, `OwnMailbox`, `NoRepeats`, `RunEnds` |
| `wget` | rings of 4 bytes, pointers of 8 values, registers of two halves, a request of 5, a header of 4, a body of 6 bytes, pointers that start at 4 places, both builds | `TypeOK`, `GrantHolds`, `StreamsInOrder`, `WholeFile`, `FetchEnds` |

Why the bounds are enough. Two mailboxes and two messages let a message exist
twice, in two mailboxes or in one, with one copy deleted. Numbers to 2 with
purges between let a mailbox be emptied and filled again. `mailbox` has
mailboxes that fit on one page, so that every command is checked in both orders
without the reload defect below; `mailbox_crash` has one message per page, so
every move crosses a page.

In the runs of `Pop65` a pass of up to 6 bytes holds the five-byte end or cuts it
at any place, and shorter passes spread it over several; two messages let a
session have one that is whole and one that is not, and a number given by one
run be used by the next.

A buffer of 3 bytes is enough for `Edit` because what is hard are the overlaps of
`move_in_gapbuf`, which need a gap shorter than the distance moved, and the full
and the empty buffer; the view of that run drops what is never read (the file
and its mark, and once the gap was moved the bytes of the gap and what undo would
go back to).

Three buffers are the least in which a file of two parts can lie before, behind
or beside another one. In `upload` the scan of 6 lines and the read-ahead cover
messages with less and with more than they read; two messages let one be sent
after another was held, deleted, refused or lost, and one reset can come
at every step. In `news` a number is in use in two groups, the new group has more
articles than the first fetch takes, one group was read up to its oldest article, so
that the one article that may vanish is the last read one, one in the middle or a
new one, and one cut run is followed by a whole one. The theorems are for any number
of each.
In `wget` request and answer are longer than the rings, so rings, pointers and
the buffer for the body all wrap, from each of the places to start.

Symmetry permutes messages, which are only compared. The view of `mailbox`
drops the contents of EMAIL.PREFS while the program runs: they are read only at
a start, and every way to leave, in an instance without resets and where no
seek fails, rewrites them.

Fairness. `LiveSpec` has weak fairness of `CopyStep \/ PurgeStep` only: once the
user has confirmed a command the program runs on its own and waits for nobody.
Nothing is assumed of the user, of POP65 or of the machine. `Pop65!LiveSpec`
has weak fairness of the program's own steps, which wait for nobody but the
peer, of `ServerQuit` (a QUIT that was sent and not lost is answered) and of
`Autologout` (RFC 1939 has servers close a session that has been idle; the
program itself has no timeout, the user would press the abort key).
`Nntp65!FairSpec` has weak fairness of the steps that wait for nobody (`Own`). Those
that wait for a reply (`Replied`) have none: the receive loops (nntp65.c:206, 265)
spin as long as the connection is up and have no timeout, so `RunEnds` says that a
run ends if the server behaves (`ServerAnswers`: when a run waits, it sends its
reply or closes in the end). It also needs that articles do not come in for ever
while the run reads, which here follows from `MaxNum`.
`Wget65!FairSpec` has weak fairness of the program, of the
chip (it executes a command, it sends what it was given) and of a server that
answers a whole request and in the end closes.

Deadlock is not checked for `Pop65`, `Edit`, `Upload` and `Wget65`: there may be
nothing left to do when the numbers are used up, a text is full and saved, all
messages are sent, or the fetch is over.

### Where the code and its documentation disagree

Checked by a run:

* `mailbox_reverse`: `main` (email.c:2475) and `copy_to_mailbox_tagged`
  (email.c:2101) reload with `initialize` set while `first_msg` may be greater than
  1, so `total_msgs` counts only the messages from `first_msg` on, and in
  newest-first order `get_db_index` subtracts from it. With two messages on pages of
  one line: after leaving on the second page and starting again the count is 1; back
  on the first page, where the second message is highlighted, the index is 1 and not
  2, and D writes the header of the second message over the record of the first
  (README-email.md:57). A D on the second page itself has index 0 and ends in the
  fatal "Can't seek".
* `upload_refused`: SMTP65 reads the reply to the end of DATA into a buffer and does
  not act on it (smtp65.c:721), and the message goes to SENT and leaves OUTBOX,
  where README-smtp65.md:37 has rejected messages left in OUTBOX. A connection lost
  behind the text has the same effect. NNTP65UP does the same (nntp65.up.c:680), and
  its README does not say otherwise.

Seen while modelling, without a run of their own. Where a property is named, it is
stated in the module and TLC finds it violated in the setting given:

* `Mailbox!WalkEnds` with `Width` 16 and `RecSize` 9, tagging and copying: the seek
  offset of `copy_to_mailbox_tagged` is a 16-bit product (email.c:2092; every other
  seek casts). From 180 messages on it wraps before the end of EMAIL.DB, and the walk
  over the tagged messages does not end; README-email.md:17 shows a mailbox of 185.
  `CommandEnds` is the same property up to that length, and holds;
* `Pop65!NothingLost` with "full": `update_inbox` checks neither `fputs`
  (pop65.c:486) nor the `fwrite` of the record (pop65.c:382) and then deletes the
  spool file; with DELETE configured that was the last whole copy, where
  README.md:50 promises that the software never discards information;
* `Edit!BlockUndoable` without the habit "undo": a cut of a long selection and a
  deletion mark undo before the gap is moved to the selection (edit.c:2476,
  2676); with less free space than the distance the move overwrites what undo
  goes back to;
* `Edit!MarkedIfUnsaved`: inserting, pasting and undoing do not set `status[0]`
  (edit.c:2542, 2485, 2620), and copying a long selection clears it;
* `Buffers!KeepsDocuments` without "own" or "fresh": see the module; README-edit.md:149
  describes truncation as about the parts of the file;
* `Upload!OnlyOwnRecipients`: after a message that was held, deleted or refused,
  `get_line` still holds lines of it (smtp65.c:121, 581), and addresses among them
  become recipients of the next message, against README-smtp65.md:33;
* `Nntp65!AllNewRetrieved` in the setting of `news`: `msgnum` is raised to the first
  article of the group (nntp65.c:709), and the articles fetched are those behind
  `msgnum`. So when the article read last has expired, or a new group has 100
  articles or fewer, the oldest new article is never fetched, against
  README-usenet-setup.md:62;
* `Nntp65!RetrievedOnce` in the setting of `news`: the loop over STAT is left after
  its first reply (nntp65.c:717). When the article read last was cancelled, NEXT goes
  on from the first article of the group, and all of it is fetched again, where
  README-nntp65.md:29-30 has the number incremented until an article exists;
* `Wget65!OkMeansWhole` with "early": the socket is asked whether it is connected
  after a request has returned 0 (wget65.c:265), and what arrived in between,
  before the close, is left in the ring; the file is reported as complete;
* `Wget65!InvalidMeansFull`: the check for a header that does not fit compares with
  the size of a pointer, 2 (w5100_http.c:142), so a longer header than the buffer
  makes the loop ask for no bytes for ever;
* `w5100_connect` waits for the states "established" and "closed" (w5100.c:208);
  a peer that closes at once leaves the socket in a third one, and only the
  abort key ends the wait;
* `encode_base64` reads `ii` before setting it when fewer than three bytes are
  left (attacher.c:217);
* the receive loop for an article that expired between NEXT and ARTICLE
  (nntp65.c:226) waits for an end that does not come, until the abort key or the
  end of the connection;
* the walk over the kill list begins with its empty head, whose address is NULL, and
  stops before the last entry (nntp65.c:471);
* the short count of `mailbox_reverse` also puts the later pages out of reach of
  `go_to_next_message`, and lets C)opy ignore messages tagged on earlier pages
  (email.c:2070 asks `total_tag`);
* D)elete on a new message does not decrement `total_new` (email.c:2336);
* a machine stopped between EMAIL.DB and NEXT.EMAIL (email.c:2036) reuses the
  number, and the next copy or download overwrites a listed message.
  `mailbox_crash` therefore checks `MoveKeepsMessage`, which holds even then;
  `NeverLost` is claimed, and the proofs are made, only without resets;
* POP65 has the same gap for a whole session: NEXT.EMAIL is written after the
  last message (pop65.c:496), where README-pop65.md:35 has it updated per
  message, so a reset in `update_inbox` makes the next run overwrite what was
  imported;
* the "+OK" line and the final "." line of a POP3 reply are stored with the
  message, and doubled dots stay doubled (pop65.c:177-239), against
  "saved to disk verbatim" (README.md:50);
* `hdrs` in `update_inbox` is static and not cleared (pop65.c:421): a message
  without a Cc or Subject line gets that of the message before it;
* EDIT's short clipboard is lost by saving, help and the file chooser, and a paste
  then inserts an older CLIPBOARD file (edit.c:881, 2205);
* with a full disk `copy_to_mailbox` returns with the new number left in the
  header of the page (email.c:2024), so a later command writes it to EMAIL.DB.

## Proofs

`MailboxProofs` proves `Spec => []TypeOK` in general: both orders, every fault,
any constants that satisfy `MailboxAssumption`.

The other proofs about the mailboxes have two layers.

The lower layer, in `MailboxProofs`, is about the record of EMAIL.DB a command
works on: `IndexOK` says that the index of the highlighted line is that of its
record, and that a copy, between any two of its file updates, still works on the
record it was started for (`CopyFollows`). There are two arguments for it, because
there are two reasons why the code finds its record:

* `Forward`: messages are listed oldest first and the disk does not fill up.
  Mailboxes have any number of pages, copies go into any mailbox, and the machine
  may be reset at every step of a copy or a purge. `ForwardInv` says that the
  page shows the records it was read from (`Mirrors`), while a copy runs as well,
  since `CopyMark` writes both; the index needs no counter.
* `OnePage`: either order, for mailboxes that fit on one page (`MaxNum <=
  PageSize`), copies into another mailbox, and resets in a purge only.
  Newest first the index is taken from `total_msgs`. `OneInv` says that the screen
  shows the whole mailbox and the counters count it (`WholeShown`), which is
  `TotalsCountMailbox` (`TotalsCorrect`). It needs that a mailbox has fewer
  records than its next number (`Numbered`), so that it stays on one page and the
  counters do not wrap, and for `total_tag` that a command over the tagged
  messages counts again at its end.

Each restriction is one the findings above need: newest first on several pages
the reload counts too little (`mailbox_reverse`), with a full disk a copy leaves
the wrong number in the page. What `OnePage` asks beyond that: a copy into the
viewed mailbox adds a record that the counters do not count, and a reset in a copy
adds one without using up a number, so that mailboxes may outgrow a page.

The upper layer, in `MailboxSafety`, is about records and files, and uses nothing
of the page and its order but `IndexOK`. So each theorem holds under `Forward` as
well as under `OnePage`.

* `Inv` gives `RecordsOwnFiles` and `UniqueNumbers`, which are not inductive, for a
  machine without faults. Numbers of records are below NEXT.EMAIL (except while a
  copy has appended its record and not yet written NEXT.EMAIL), which is what makes
  the next number free; the files of deleted records hold their message too, because
  an undelete makes them live again; and during a purge the files of the records
  already read and kept are still there and EMAIL.DB.NEW holds nothing else. The
  step proof has one lemma per group of actions (`KeyBoxes`, `OutsideBoxes`,
  `CopyStepBoxes`, `PurgeStepBoxes`), on lemmas about a mailbox (`BoxWrite`,
  `BoxFile`, `BoxAppend`) and on `KeyWrites`, which says that a key writes no
  mailbox, makes a new one, or rewrites the highlighted record.
* `SafeInv` adds what `NeverLost` rests on: when a move marks its source, the copy
  is a record of its own in a mailbox that is listed (`CopyListed`), and a purge has
  put every record it went past and kept into EMAIL.DB.NEW (`KeptSoFar`), which is
  all there is of the mailbox between the unlink and the rename. `NoMessageLost`
  then looks at a readable copy: a step leaves it in its place (`InPlaceReadable`),
  or is a move with another copy, or the unlink.
* `MoveInv` is what is left of this after a reset, when numbers are given twice and
  `Inv` does not hold: `CopyListed`, and that the new file holds what its source
  holds (`CopiedWhole`), whichever message that is by now. `MoveKeepsMessageCorrect`
  follows: `CopyMark` is the only step of a copy that marks a record
  (`MarkingSteps`), the record it marks has its copy, and all others stay
  (`MarkKeepsReadable`).
* `WalkDone`, also with resets: the walk over the tagged records has left no tag
  behind it, as far as it reads whole records, but on records without a file of
  their own (`Orphan`). The proof shows that an orphan stays one through the three
  writes of a copy (`FileOrphans`, `ListOrphans`, `NumberOrphans`): a new file can
  only take the place of the missing one under a number that is not used up, and
  when it is used up the record shares it with the copy. `TaggedReached` proves
  `AllTaggedCopied` from it, for walks that end: over an EMAIL.DB beyond the reach
  of the seek they do not (`WalkEnds`).

`BuffersProofs` is about any number of buffers, any files and any sizes, for a user
with the habits "fresh" and "own". `PartsInOrder` speaks of all parts before a part
at once, which makes it inductive together with the types: a load, an extension and
a truncation each change a run of consecutive buffers, and the proofs look at a
buffer before, in and behind that run. The types of the texts (`TextTypes`) and the
refinement of `Documents` stand on it (`BuffersAreDocuments`): because parts are in
order, each buffer belongs to one document (`OwnDocument`), and a command that
changes some buffers leaves the joined text of all other documents as it was
(`OthersKept`). `Joined` is a recursive function; `JoinSteps` gives its values bank
by bank, from which follow that banks without lines do not count (`JoinSame`), what
a single bank makes (`JoinOne`), and that the pieces `load_file` puts into
consecutive buffers join to the beginning of the file (`PiecesJoin`). Of the
constants it assumes only `BuffersAssumption`.

`EditProofs` is about a user with the three habits. Its invariant has the types, the
soundness of the gap, and for undo: as long as the gap has not been moved since the
mark, the text around the old gap is the text from before the change (the last line
of `GapInv`). The proof follows single characters: `Place` is where a character of
the text is in the memory, `Jumping` shows that moving the gap, which copies
overlapping pieces in one direction or the other, leaves each character where
`Place` finds it afterwards, and `Inserting` that writing into the gap leaves them
alone. `GapStaysSound` (the gap, and the one undo would bring back, lie within the
buffer; either may be empty) and the refinement of `Text` (`Implementation`) follow
for a buffer of any size, any text and any commands. The proof found two cases of
`Jumped` in the model that overlapped at one gap position; they are disjoint now.
Each habit is needed, as the findings above show.

`Nntp65Proofs` has one invariant per question, all on the first one.

* `SubscriptionsKept`, with every fault and without any habit. The property says
  nothing of NEWSGROUPS.NEW while NEWSGROUPS.CFG is there, and needs it complete the
  moment `Replace` removes the other file. `IInv` therefore adds `Copied`:
  NEWSGROUPS.NEW has one line for each line dealt with whose group the server has,
  in a run that is at line `line`, and no other; and a reset may shorten it only
  where NEWSGROUPS.CFG is still there. The cardinality in the property follows from
  distinct groups (`CountLines`). `TypeOK` also for any constants.
* `OwnMailbox`, with "clears": what is in NEWS.SPOOL was fetched from the group at
  hand. `NoRepeats`: what a mailbox has is not after the number saved for its group,
  and what a run fetches is, unless STAT was refused in that group (the finding on
  `RetrievedOnce` is why). Both assume article numbers below 2^16 (`MaxNum <
  EmailWrap`), because EMAIL.n is named by a 16-bit number and from there on a
  killed article removes the file of another one.
* `NothingSkipped`, with "clears" and numbers below 2^16, whatever expires, is
  cancelled or comes in, and wherever runs are cut short: every article that was
  promised and is still there, up to the number in the line of its group, is in the
  mailbox or was killed, but for the one article a run began behind (`skipped`; the
  finding on `AllNewRetrieved` is why), and but for groups for which a reply was
  lost. The invariant `SkipInv` follows the numbers of one run. Up to the number of
  its line a group is dealt with (`Stored`; `Known` says that the number is one the
  server has reached). In a run, what was promised up to the current article is not
  after the number the run began with, or is in NEWS.SPOOL, or was begun behind
  (`Passed`), and what NEXT is still to give is not in the mailbox yet (`Ahead`); in
  the import it is in the mailbox or still in NEWS.SPOOL (`Arrived`). One lemma for
  each group of actions (`SelectGroupSkip`, `SessionSkip`, `SaveMarkSkip`,
  `ImportSkip`), from which `NothingPassedOver` follows.

`UploadProofs` is about servers that reply what they like, connections that break
anywhere, resets at every step, and a user who does not attach while a TMPFILE is
left ("tidy"). `IInv` follows a message from the first save: `Kept` has it in OUTBOX
in one of the forms it may take there, or in SENT in one piece; `PrepareInv` says
what TMPFILE and the file being composed are between the steps of ATTACHER, where
for one step the message is in TMPFILE alone; `SentInv` that a submitted message
stays in OUTBOX until its record and its file in SENT agree, and that a record left
by a reset before NEXT.EMAIL names a file that will be written for the same message,
or for one that still waits. `NothingLost` and the refinement of `Outgoing` follow.
`OwnRecipients` has a second invariant, `RunInv`: what the server was told of the
message in hand and what it will be told are together the addresses found in its
file (`Told`), if the scan of it began with nothing left over. It assumes what the
code relies on, that the header EMAIL.SYSTEM writes fits into the lines the scan
looks at.

`Pop65Proofs` proves `ReadsWholeReply`, `ImportFindsSpool` and `QuitsWhenSpooled`
with every fault, any messages, any pieces they arrive in and any size of a pass.
The invariant says that the spool file and the stream are together a beginning of
the reply and that the four bytes of `overlap` are the last ones of the file
(`Follows`); by `WireAssumption` seeing the end across the overlap is then the same
as having it all (`SeesEnd`), and what DELE marks is whole in SPOOL (`MarkedWhole`).
The refinement of `Delivery` is proved for a network that drops and a server that
refuses, and a disk with room and no reset: with "full" and "crash" the findings
above lose mail, so there it does not hold. It needs that a spool file copies one
message or none (`BeginningEntry`), that the k-th spool file of a run copies the
k-th message of its session or none (`Loot`), and that `update_inbox` turns one
entry after the other into a record without changing what is fetched in all
(`FetchedStays`).

`Wget65Proofs` proves `TypeOK`, `GrantHolds`, `StreamsInOrder` and `WholeFile` with
every fault, for rings and pointers of any size of which one divides the other,
and both builds. The invariant follows the bytes: what the program has taken, what
the ring holds from its pointer on and what the server still has are together the
response (`RxSound`), and likewise the request (`TxSound`). That a place in the ring
keeps its byte while the pointers wrap at another modulus comes from lemmas about
remainders (`Remainder`, `Rounds`, `Nested`). What a request has found when two
reads of the size agree stays there until the program commits, because the chip
only adds to it (`Granting`).

Out of the prover's reach, and left to TLC: liveness and ENABLED, and with them
`RunEnds`, `CommandEnds` and `FetchEnds`. The library's induction theorems take a
property as a parameter and cannot be used; where a proof needs induction it goes
by the least number of the set of counterexamples (`LeastNumber`), which works for
recursive functions such as `Text` and `Without`.

Every invariant, action property and refinement that a passing run checks is also
proved, each under the hypotheses given above; `mailbox` is an instance of `OnePage`
and `mailbox_crash` one of `Forward`. No theorem says anything of mailboxes of more
than one page newest first, where the program is wrong, or of records and files
after a reset in the middle of a copy beyond `MoveKeepsMessage` and
`AllTaggedCopied`.

## Plan

Done: the mailboxes, fetching and sending mail, reading and posting news, one
buffer and several buffers of the editor, the W5100 driver with a program on it.
Next, in order of importance:

1. `Pop65` composed with `Mailbox`, whose `Import` it implements, and likewise
   `Upload` and `Nntp65`, which import into SENT and into news mailboxes.
2. `Tcp` of ip65 against a network that loses, repeats and reorders segments, as
   an implementation of a stream; then `Arp`, `Dhcp` and `Dns` with their retries.
3. The decoders of the pager (base64, quoted-printable), DATE65 and REBUILD, as
   functions checked against a reference.

Theorems wanted: those of the modules to come, and for newest-first order the
pages after the first as soon as `main` counts all of a mailbox when it reloads.

## Not modelled

The parts with status "not_modelled" in `PROJECT.json`, each with its reason. In
short: the ip65 stack and its drivers are planned as above (the programs of the
suite use `apps/w5100.c` instead of it); the pager, PRINT65, the terminal
emulators and the screen are display and sequential output; HFS65, TWEET65,
IFTTT and TELNET65 each are one exchange over one connection of the kind
`Wget65` models; linenoise is vendored code.
