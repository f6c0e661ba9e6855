------------------------------ MODULE Mailbox ------------------------------
(***************************************************************************)
(* The mailboxes of EMAIL.SYSTEM (apps/email.c): the files on disk, the    *)
(* page of headers held in memory, and the keyboard commands that change   *)
(* either.                                                                 *)
(*                                                                         *)
(* On disk a mailbox m is a directory with one file EMAIL.n per message    *)
(* (files[m][n]), a database EMAIL.DB of fixed-size header records (db[m]) *)
(* and NEXT.EMAIL, the number the next message gets (next[m]).  In memory  *)
(* the program keeps one page of header records and four counters, and     *)
(* writes each changed record back at an index it computes from them.      *)
(*                                                                         *)
(* The program is single threaded, so the commands that write several      *)
(* files are broken into steps only where the machine may stop in between. *)
(***************************************************************************)
EXTENDS Integers, Sequences, FiniteSets

CONSTANTS
  Mailboxes, \* names of mailbox directories
  Inbox,     \* "INBOX", the one POP65.SYSTEM fills
  Msgs,      \* messages, told apart by their headers
  None,      \* no file, no command in progress
  PageSize,  \* MSGS_PER_PAGE
  RecSize,   \* EMAILHDRS_SZ_ON_DISK, 366
  Width,     \* 65536, the values of a uint16_t
  MaxNum,    \* bound on the numbers n of EMAIL.n and on the records of an EMAIL.DB
  Keys,      \* the commands the user gives
  Orders,    \* the sort orders the user picks; TRUE is '<', newest first
  SelfCopy,  \* whether the user copies into the mailbox being viewed
  Faults     \* "crash" in a copy, "crash_purge" in a purge, "full" disk

Commands == {"read", "tag", "delete", "undelete", "reply", "copy", "move",
             "purge", "new", "switch", "leave"}

ASSUME MailboxAssumption ==
  /\ Inbox \in Mailboxes
  /\ PageSize \in Nat \ {0}
  /\ MaxNum \in Nat
  /\ RecSize \in Nat \ {0, 1}
  /\ Width \in Nat /\ Width > 2 * (MaxNum + PageSize)
  /\ Keys \subseteq Commands
  /\ Orders \subseteq BOOLEAN
  /\ SelfCopy \in BOOLEAN
  /\ None \notin Msgs
  /\ Faults \subseteq {"crash", "crash_purge", "full"}

VARIABLES
  db,      \* [Mailboxes -> Seq(Rec)]: the records of EMAIL.DB
  listed,  \* the mailboxes whose EMAIL.DB exists
  files,   \* files[m][n]: the message in m/EMAIL.n, or None
  next,    \* next[m]: contents of NEXT.EMAIL; 0 if m was never created
  prefs,   \* EMAIL.PREFS
  pc,      \* what the program is doing; "off" when it is not running
  curr,    \* curr_mbox
  rev,     \* reverse
  first,   \* first_msg
  sel,     \* selection
  page,    \* the list rooted at headers; its length is num_msgs
  tot,     \* total_msgs, total_new and total_tag
  job      \* locals of the copy or purge in progress

disk == <<db, listed, files, next, prefs>>
view == <<curr, rev, first, sel, page, tot>>
vars == <<disk, pc, view, job>>

Status == {"N", "R", "D"}
Nums == 1..MaxNum
Rec == [num : Nums, status : Status, tag : BOOLEAN, hdr : Msgs]
Prefs == [mbox : Mailboxes, rev : BOOLEAN, first : Nat \ {0}, sel : Nat]
DefaultPrefs == [mbox |-> Inbox, rev |-> FALSE, first |-> 1, sel |-> 1]

Min2(a, b) == IF a < b THEN a ELSE b

-----------------------------------------------------------------------------
(* read_email_db: one page of records from message f on, in either order,  *)
(* and the counters.  The counters only see records from f on.             *)

Shown(d, f) == Len(d) - f + 1
Window(d, f, r) ==
  [i \in 1..Min2(PageSize, Shown(d, f)) |->
     IF r THEN d[Len(d) - f - i + 2] ELSE d[f + i - 1]]

Visited(d, f, r) == IF r THEN 1..Shown(d, f) ELSE f..Len(d)

Totals(d, f, r) ==
  LET seen == Visited(d, f, r)
  IN [msgs |-> Cardinality(seen),
      new  |-> Cardinality({i \in seen : d[i].status = "N"}),
      tag  |-> Cardinality({i \in seen : d[i].tag})]

NoTotals == [msgs |-> 0, new |-> 0, tag |-> 0]

\* The two seeks of read_email_db: forward they may reach the end of the
\* file, backward a page that starts before the file leaves an empty page.
CanSeek(d, f, r) == r \/ f <= Len(d) + 1

Load_SkipsOne(d, f, r, t) == \* the page starts at startnum, not startnum - 1
  /\ page' = Window(d, f + 1, r)
  /\ tot' = IF r /\ f > Len(d) THEN NoTotals ELSE t

\* Loads the page; t is what the counters were, or Totals when initialize is set
Load(d, f, r, t) ==
  /\ page' = Window(d, f, r)
  /\ tot' = IF r /\ f > Len(d) THEN NoTotals ELSE t

-----------------------------------------------------------------------------
(* get_db_index and write_updated_headers                                  *)

DbIndex_NoReverse == first + sel - 1 \* the order is not looked at

DbIndex == IF ~rev THEN first + sel - 1
           ELSE (tot.msgs - (first + sel - 1) + 1) % Width

CanWrite(i) == i \in 1..(Len(db[curr]) + 1)

Put(d, i, r) == IF i = Len(d) + 1 THEN Append(d, r) ELSE [d EXCEPT ![i] = r]

Selected == page[sel]
HasSelection == sel \in 1..Len(page)

\* The program is left, and its memory with it.
Off ==
  /\ pc' = "off"
  /\ curr' = Inbox
  /\ rev' = FALSE
  /\ first' = 1
  /\ sel' = 1
  /\ page' = << >>
  /\ tot' = NoTotals
  /\ job' = None

\* A command of the summary screen that needs a selected message and writes
\* its record back.
Command == pc = "menu" /\ HasSelection
WriteUpdated(i, r) ==
  /\ CanWrite(i)
  /\ db' = [db EXCEPT ![curr] = Put(@, i, r)]
WriteBack(r) == WriteUpdated(DbIndex, r)

\* "Can't seek": the program exits with a fatal error.
SeekFatal ==
  /\ Command
  /\ ~CanWrite(DbIndex)
  /\ Off
  /\ UNCHANGED disk

\* go_to_next_message, from page p and counters t over database d
GoToNext(p, t, d) ==
  \/ /\ sel < Len(p)
     /\ sel' = sel + 1
     /\ page' = p
     /\ tot' = t
     /\ UNCHANGED <<first, pc, curr, rev, job>>
  \/ /\ sel >= Len(p)
     /\ first + sel - 1 < t.msgs
     /\ IF CanSeek(d, first + PageSize, rev)
        THEN /\ first' = first + PageSize
             /\ Load(d, first', rev, t)
             /\ sel' = 1
             /\ UNCHANGED <<pc, curr, rev, job>>
        ELSE Off
  \/ /\ sel >= Len(p)
     /\ first + sel - 1 >= t.msgs
     /\ page' = p
     /\ tot' = t
     /\ UNCHANGED <<first, sel, pc, curr, rev, job>>

-----------------------------------------------------------------------------
(* Starting and leaving the program: main, save_prefs, load_prefs          *)

Save == [mbox |-> curr, rev |-> rev, first |-> first, sel |-> sel]

Boot ==
  /\ pc = "off"
  /\ prefs.mbox \in listed
  /\ CanSeek(db[prefs.mbox], prefs.first, prefs.rev)
  /\ pc' = "menu"
  /\ curr' = prefs.mbox
  /\ rev' = prefs.rev
  /\ first' = prefs.first
  /\ sel' = prefs.sel
  /\ Load(db[curr'], first', rev', Totals(db[curr'], first', rev'))
  /\ job' = None
  /\ UNCHANGED disk

\* A start that fails is a fatal error; the user deletes EMAIL.PREFS.
DeletePrefs ==
  /\ pc = "off"
  /\ \/ prefs.mbox \notin listed
     \/ ~CanSeek(db[prefs.mbox], prefs.first, prefs.rev)
  /\ prefs' = DefaultPrefs
  /\ UNCHANGED <<db, listed, files, next, pc, view, job>>

\* Q)uit, and the commands that run another program of the suite
Leave ==
  /\ pc = "menu"
  /\ prefs' = Save
  /\ Off
  /\ UNCHANGED <<db, listed, files, next>>

\* R)eply, F)orward, follow-up: copy_to_mailbox into OUTBOX writes the
\* record back untagged, then load_editor leaves for EDIT.SYSTEM.
Reply ==
  /\ Command
  /\ files[curr][Selected.num] # None
  /\ WriteBack([Selected EXCEPT !.tag = FALSE])
  /\ prefs' = Save
  /\ Off
  /\ UNCHANGED <<listed, files, next>>

\* POP65.SYSTEM, run meanwhile, imports one message (update_inbox), one the
\* mailboxes do not hold yet.
Import(x) ==
  /\ pc = "off"
  /\ \A m \in Mailboxes, n \in Nums : files[m][n] # x
  /\ Inbox \in listed
  /\ next[Inbox] \in Nums
  /\ files' = [files EXCEPT ![Inbox][next[Inbox]] = x]
  /\ db' = [db EXCEPT ![Inbox] = Append(@,
              [num |-> next[Inbox], status |-> "N", tag |-> FALSE, hdr |-> x])]
  /\ next' = [next EXCEPT ![Inbox] = @ + 1]
  /\ UNCHANGED <<listed, prefs, pc, view, job>>

-----------------------------------------------------------------------------
(* keyboard_hdlr: moving the selection                                     *)

Up_NoTop == \* keeps moving up at the first message
  /\ pc = "menu"
  /\ sel' = sel - 1
  /\ UNCHANGED <<disk, pc, curr, rev, first, page, tot, job>>

Up ==
  /\ pc = "menu"
  /\ \/ /\ sel > 1
        /\ sel' = sel - 1
        /\ UNCHANGED <<first, page, tot>>
     \/ /\ sel <= 1
        /\ first > PageSize
        /\ first' = first - PageSize
        /\ Load(db[curr], first', rev, tot)
        /\ sel' = Len(page')
  /\ UNCHANGED <<disk, pc, curr, rev, job>>

Down ==
  /\ pc = "menu"
  /\ GoToNext(page, tot, db[curr])
  /\ UNCHANGED disk

-----------------------------------------------------------------------------
(* keyboard_hdlr: commands on the selected message                         *)

\* RETURN: mark read, show the message, rebuild the page
Read ==
  /\ Command
  /\ LET r == [Selected EXCEPT !.status = "R"] IN
     /\ WriteBack(r)
     /\ Load(db'[curr], first, rev,
             IF Selected.status = "N" THEN [tot EXCEPT !.new = (@ - 1) % Width]
                                      ELSE tot)
  /\ UNCHANGED <<listed, files, next, prefs, pc, curr, rev, first, sel, job>>

Tag ==
  /\ Command
  /\ LET r == [Selected EXCEPT !.tag = ~@]
         t == IF r.tag THEN 1 ELSE -1
     IN
     /\ WriteBack(r)
     /\ GoToNext([page EXCEPT ![sel] = r],
                 [tot EXCEPT !.tag = (@ + t) % Width], db'[curr])
  /\ UNCHANGED <<listed, files, next, prefs>>

\* D)elete and U)ndelete
SetStatus(s) ==
  /\ Command
  /\ LET r == [Selected EXCEPT !.status = s] IN
     /\ WriteBack(r)
     /\ GoToNext([page EXCEPT ![sel] = r], tot, db'[curr])
  /\ UNCHANGED <<listed, files, next, prefs>>

Delete == SetStatus("D")
Undelete == SetStatus("R")

-----------------------------------------------------------------------------
(* new_mailbox, switch_mailbox                                             *)

NewMailbox(m) ==
  /\ pc = "menu"
  /\ next[m] = 0
  /\ next' = [next EXCEPT ![m] = 1]
  /\ db' = [db EXCEPT ![m] = << >>]
  /\ listed' = listed \cup {m}
  /\ UNCHANGED <<files, prefs, pc, view, job>>

\* Switching to a mailbox without EMAIL.DB falls back to the current one.
SwitchMailbox(m) ==
  /\ pc = "menu"
  /\ curr' = IF m \in listed THEN m ELSE curr
  /\ first' = 1
  /\ sel' = 1
  /\ Load(db[curr'], 1, rev, Totals(db[curr'], 1, rev))
  /\ UNCHANGED <<disk, pc, rev, job>>

\* The keys '<' and '>'
SetOrder(r) ==
  /\ pc = "menu"
  /\ rev' = r
  /\ first' = 1
  /\ sel' = 1
  /\ Load(db[curr], 1, r, Totals(db[curr], 1, r))
  /\ UNCHANGED <<disk, pc, curr, job>>

-----------------------------------------------------------------------------
(* C)opy, M)ove and A)rchive: copy_to_mailbox_tagged and copy_to_mailbox.  *)
(* job.rec is the record h, job.idx its index in EMAIL.DB and job.num the  *)
(* number read from the destination's NEXT.EMAIL.  With tagged messages    *)
(* the program walks EMAIL.DB, job.count records done.                     *)

CopyJob(r, i, m, del, many) ==
  [rec |-> r, idx |-> i, dest |-> m, num |-> 0, del |-> del,
   tagged |-> many, count |-> 0]

Records == db[curr]
TaggedRecords == {i \in DOMAIN Records : Records[i].tag}

\* The bound: a copy only starts when it can finish with numbers up to MaxNum
\* and with no more records than that (a crash can append one without a number).
HasRoom(m) ==
  LET n == IF tot.tag = 0 THEN 1 ELSE Cardinality(TaggedRecords)
  IN next[m] + n <= MaxNum + 1 /\ Len(db[m]) + n <= MaxNum

StartCopy(m, del) ==
  /\ Command
  /\ SelfCopy \/ m # curr
  /\ HasRoom(m)
  /\ IF tot.tag = 0
     THEN /\ pc' = "copy_file"
          /\ job' = CopyJob(Selected, DbIndex, m, del, FALSE)
     ELSE /\ pc' = "scan"
          /\ job' = CopyJob(None, 0, m, del, TRUE)
  /\ UNCHANGED <<disk, view>>

\* The seek to record c is by a product of 16 bits.  From the first c on for
\* which it wraps the reads straddle records.
Wraps(c) == c * RecSize >= Width
PastEnd(c) == ((c * RecSize) % Width) + RecSize > Len(Records) * RecSize

ScanEnd_OldTotals == \* reloads the page without initialize
  /\ pc = "scan"
  /\ PastEnd(job.count)
  /\ Load(Records, first, rev, tot)
  /\ pc' = "menu"
  /\ job' = None
  /\ UNCHANGED <<disk, curr, rev, first, sel>>

ScanEnd ==
  /\ pc = "scan"
  /\ PastEnd(job.count)
  /\ Load(Records, first, rev, Totals(Records, first, rev))
  /\ pc' = "menu"
  /\ job' = None
  /\ UNCHANGED <<disk, curr, rev, first, sel>>

ScanRecord_KeepTag == \* the copy stays tagged in the destination
  /\ pc = "scan"
  /\ ~Wraps(job.count) /\ ~PastEnd(job.count)
  /\ job' = [job EXCEPT !.count = @ + 1, !.idx = job.count + 1,
                       !.rec = Records[job.count + 1]]
  /\ pc' = IF job'.rec.tag THEN "copy_file" ELSE "scan"
  /\ UNCHANGED <<disk, view>>

ScanRecord ==
  /\ pc = "scan"
  /\ ~Wraps(job.count) /\ ~PastEnd(job.count)
  /\ LET i == job.count + 1 IN
     IF Records[i].tag
     THEN /\ job' = [job EXCEPT !.count = i, !.idx = i,
                               !.rec = [Records[i] EXCEPT !.tag = FALSE]]
          /\ pc' = "copy_file"
     ELSE /\ job' = [job EXCEPT !.count = i]
          /\ UNCHANGED pc
  /\ UNCHANGED <<disk, view>>

\* A straddling read fills h with the end of one record and the start of the
\* next: it shows no tag, or has a number no file has, which copy_to_mailbox
\* refuses.
ScanStraddle ==
  /\ pc = "scan"
  /\ Wraps(job.count) /\ ~PastEnd(job.count)
  /\ job' = [job EXCEPT !.count = (@ + 1) % Width]
  /\ UNCHANGED <<disk, pc, view>>

\* copy_to_mailbox returns: to the scan, or to the summary screen
Return ==
  /\ pc' = IF job.tagged THEN "scan" ELSE "menu"
  /\ job' = IF job.tagged THEN job ELSE None

Source == files[curr][job.rec.num]

\* After a crash a number can be given twice: the new file is the source,
\* and ProDOS does not open a file for writing that is open.
SameFile == job.dest = curr /\ next[curr] = job.rec.num

\* The destination was never created, or one of the files cannot be opened
CopyRefused ==
  /\ pc = "copy_file"
  /\ next[job.dest] = 0 \/ Source = None \/ SameFile
  /\ Return
  /\ UNCHANGED <<disk, view>>

CopyOpens == pc = "copy_file" /\ next[job.dest] \in Nums /\ Source # None /\ ~SameFile

\* "Write error during copy": the new file is left incomplete, under a number
\* that is not used up.
CopyFileFull ==
  /\ "full" \in Faults
  /\ CopyOpens
  /\ files' = [files EXCEPT ![job.dest][next[job.dest]] = None]
  /\ Return
  /\ UNCHANGED <<db, listed, next, prefs, view>>

CopyFile_MarkFirst == \* a move marks its source before the copy is listed
  /\ CopyOpens
  /\ files' = [files EXCEPT ![job.dest][next[job.dest]] = Source]
  /\ db' = [db EXCEPT ![curr][job.idx].status = IF job.del THEN "D" ELSE @]
  /\ pc' = "copy_db"
  /\ job' = [job EXCEPT !.num = next[job.dest]]
  /\ UNCHANGED <<listed, next, prefs, view>>

CopyFile ==
  /\ CopyOpens
  /\ files' = [files EXCEPT ![job.dest][next[job.dest]] = Source]
  /\ pc' = "copy_db"
  /\ job' = [job EXCEPT !.num = next[job.dest]]
  /\ UNCHANGED <<db, listed, next, prefs, view>>

CopyDb ==
  /\ pc = "copy_db"
  /\ db' = [db EXCEPT ![job.dest] =
                    Append(@, [job.rec EXCEPT !.num = job.num])]
  /\ listed' = listed \cup {job.dest}
  /\ pc' = "copy_next"
  /\ UNCHANGED <<files, next, prefs, view, job>>

\* "Can't write to EMAIL.DB": the return leaves the new number in h, which
\* for an untagged copy is the record of the page.
CopyDbFull ==
  /\ "full" \in Faults
  /\ pc = "copy_db"
  /\ page' = IF job.tagged THEN page ELSE [page EXCEPT ![sel].num = job.num]
  /\ Return
  /\ UNCHANGED <<disk, curr, rev, first, sel, tot>>

CopyNext_Same == \* NEXT.EMAIL is written back as it was read
  /\ pc = "copy_next"
  /\ next' = [next EXCEPT ![job.dest] = job.num]
  /\ pc' = "copy_mark"
  /\ UNCHANGED <<db, listed, files, prefs, view, job>>

CopyNext ==
  /\ pc = "copy_next"
  /\ next' = [next EXCEPT ![job.dest] = job.num + 1]
  /\ pc' = "copy_mark"
  /\ UNCHANGED <<db, listed, files, prefs, view, job>>

CopyMark_KeepTag == \* messages stay tagged after a copy
  /\ pc = "copy_mark"
  /\ CanWrite(job.idx)
  /\ WriteUpdated(job.idx, [Records[job.idx] EXCEPT
                              !.status = IF job.del THEN "D" ELSE @])
  /\ Return
  /\ UNCHANGED <<listed, files, next, prefs, view>>

CopyMark ==
  /\ pc = "copy_mark"
  /\ CanWrite(job.idx)
  /\ LET r == [job.rec EXCEPT !.tag = FALSE,
                             !.status = IF job.del THEN "D" ELSE @]
     IN
     /\ WriteUpdated(job.idx, r)
     /\ page' = IF job.tagged THEN page ELSE [page EXCEPT ![sel] = r]
  /\ Return
  /\ UNCHANGED <<listed, files, next, prefs, curr, rev, first, sel, tot>>

CopyMarkFatal ==
  /\ pc = "copy_mark"
  /\ ~CanWrite(job.idx)
  /\ Off
  /\ UNCHANGED disk

CopyStep == \/ ScanEnd \/ ScanRecord \/ ScanStraddle
            \/ CopyRefused \/ CopyFile \/ CopyFileFull \/ CopyDb \/ CopyDbFull \/ CopyNext
            \/ CopyMark \/ CopyMarkFatal

-----------------------------------------------------------------------------
(* P)urge: purge_deleted and the reload in keyboard_hdlr.  job.kept is     *)
(* what EMAIL.DB.NEW holds, job.i the next record to read.                 *)

StartPurge ==
  /\ Command
  /\ pc' = "purge"
  /\ job' = [kept |-> << >>, i |-> 1]
  /\ UNCHANGED <<disk, view>>

PurgeRecord_OffByOne == \* unlinks the file before the one of the record
  /\ pc = "purge"
  /\ job.i <= Len(Records)
  /\ IF Records[job.i].status = "D"
     THEN /\ files' = [files EXCEPT ![curr][Records[job.i].num - 1] = None]
          /\ job' = [job EXCEPT !.i = @ + 1]
     ELSE /\ job' = [job EXCEPT !.i = @ + 1, !.kept = Append(@, Records[job.i])]
          /\ UNCHANGED files
  /\ UNCHANGED <<db, listed, next, prefs, pc, view>>

PurgeRecord ==
  /\ pc = "purge"
  /\ job.i <= Len(Records)
  /\ LET h == Records[job.i] IN
     IF h.status = "D"
     THEN /\ files' = [files EXCEPT ![curr][h.num] = None]
          /\ job' = [job EXCEPT !.i = @ + 1]
     ELSE /\ job' = [job EXCEPT !.i = @ + 1, !.kept = Append(@, h)]
          /\ UNCHANGED files
  /\ UNCHANGED <<db, listed, next, prefs, pc, view>>

PurgeUnlink ==
  /\ pc = "purge"
  /\ job.i > Len(Records)
  /\ listed' = listed \ {curr}
  /\ db' = [db EXCEPT ![curr] = << >>]
  /\ pc' = "purge_rename"
  /\ UNCHANGED <<files, next, prefs, view, job>>

\* Back in keyboard_hdlr, with records d in EMAIL.DB
AfterPurge(d) ==
  /\ first' = 1
  /\ sel' = 1
  /\ Load(d, 1, rev, Totals(d, 1, rev))
  /\ pc' = "menu"
  /\ job' = None
  /\ UNCHANGED <<files, next, prefs, curr, rev>>

PurgeRename ==
  /\ pc = "purge_rename"
  /\ db' = [db EXCEPT ![curr] = job.kept]
  /\ listed' = listed \cup {curr}
  /\ AfterPurge(job.kept)

\* EMAIL.DB.NEW cannot be written: EMAIL.DB stays as it was
PurgeFull ==
  /\ "full" \in Faults
  /\ pc = "purge"
  /\ job.i <= Len(Records)
  /\ Records[job.i].status # "D"
  /\ AfterPurge(Records)
  /\ UNCHANGED <<db, listed>>

PurgeStep == PurgeRecord \/ PurgeUnlink \/ PurgeRename \/ PurgeFull

\* The machine is reset or loses power in the middle of a command
Crash ==
  /\ \/ /\ "crash" \in Faults
        /\ pc \in {"scan", "copy_file", "copy_db", "copy_next", "copy_mark"}
     \/ /\ "crash_purge" \in Faults
        /\ pc \in {"purge", "purge_rename"}
  /\ Off
  /\ UNCHANGED disk

-----------------------------------------------------------------------------
(* The specification                                                       *)

Init ==
  /\ db = [m \in Mailboxes |-> << >>]
  /\ listed = {Inbox}
  /\ files = [m \in Mailboxes |-> [n \in Nums |-> None]]
  /\ next = [m \in Mailboxes |-> IF m = Inbox THEN 1 ELSE 0]
  /\ prefs = DefaultPrefs
  /\ pc = "off"
  /\ curr = Inbox
  /\ rev = FALSE
  /\ first = 1
  /\ sel = 1
  /\ page = << >>
  /\ tot = NoTotals
  /\ job = None

Press(k) ==
  \/ k = "read" /\ Read
  \/ k = "tag" /\ Tag
  \/ k = "delete" /\ Delete
  \/ k = "undelete" /\ Undelete
  \/ k = "reply" /\ Reply
  \/ k = "copy" /\ \E m \in Mailboxes : StartCopy(m, FALSE)
  \/ k = "move" /\ \E m \in Mailboxes : StartCopy(m, TRUE)
  \/ k = "purge" /\ StartPurge
  \/ k = "new" /\ \E m \in Mailboxes : NewMailbox(m)
  \/ k = "switch" /\ \E m \in Mailboxes : SwitchMailbox(m)
  \/ k = "leave" /\ Leave

Key ==
  \/ Up \/ Down \/ SeekFatal
  \/ \E k \in Keys : Press(k)
  \/ \E r \in Orders : SetOrder(r)

Outside == Boot \/ DeletePrefs \/ \E x \in Msgs : Import(x)

Next == Key \/ Outside \/ CopyStep \/ PurgeStep \/ Crash

Spec == Init /\ [][Next]_vars

\* A command the user has started runs to its end on its own.
LiveSpec == Spec /\ WF_vars(CopyStep \/ PurgeStep)

-----------------------------------------------------------------------------
(* Properties                                                              *)

CopyJobs == [rec : Rec \cup {None}, idx : Nat, dest : Mailboxes,
             num : 0..MaxNum, del : BOOLEAN, tagged : BOOLEAN, count : Nat]
PurgeJobs == [kept : Seq(Rec), i : Nat \ {0}]

CopyPc == {"copy_file", "copy_db", "copy_next", "copy_mark"}
PurgePc == {"purge", "purge_rename"}

Counters == [msgs : Nat, new : Nat, tag : Nat]

\* Each command has its locals while it runs.
JobOK ==
  /\ pc \in {"off", "menu"} => job = None
  /\ pc \in CopyPc \cup {"scan"} => job \in CopyJobs
  /\ pc \in CopyPc => job.rec \in Rec
  /\ pc \in CopyPc \ {"copy_file"} => job.num \in Nums
  /\ pc \in PurgePc => job \in PurgeJobs

DiskOK ==
  /\ db \in [Mailboxes -> Seq(Rec)]
  /\ listed \subseteq Mailboxes
  /\ files \in [Mailboxes -> [Nums -> Msgs \cup {None}]]
  /\ next \in [Mailboxes -> 0..(MaxNum + 1)]
  /\ prefs \in Prefs

ViewOK ==
  /\ pc \in {"off", "menu", "scan"} \cup CopyPc \cup PurgePc
  /\ curr \in Mailboxes
  /\ rev \in BOOLEAN
  /\ first \in Nat \ {0}
  /\ sel \in Nat
  /\ page \in Seq(Rec)
  /\ tot \in Counters

\* Every variable has its type, and a command its locals.
TypeOK == DiskOK /\ ViewOK /\ JobOK

Live(m, i) == m \in listed /\ i \in DOMAIN db[m] /\ db[m][i].status # "D"

\* A message stays what its summary line says it is: the file every record
\* that is not marked deleted names exists and holds that message, whatever
\* was copied, moved, purged or imported in any mailbox before.
RecordsOwnFiles ==
  \A m \in Mailboxes : \A i \in DOMAIN db[m] :
    Live(m, i) => files[m][db[m][i].num] = db[m][i].hdr

\* Two records of a mailbox never name the same file, so that purging one
\* message cannot remove another.
UniqueNumbers ==
  \A m \in Mailboxes : \A i, j \in DOMAIN db[m] :
    db[m][i].num = db[m][j].num => i = j

\* "Return index into EMAIL.DB for current selection": the record a command
\* is about to overwrite is the one the highlighted line was read from.
IndexNamesSelection ==
  (pc = "menu" /\ HasSelection) =>
    DbIndex \in DOMAIN db[curr] /\ db[curr][DbIndex] = Selected

\* The status bar counts the whole mailbox: total_msgs is its number of
\* messages and total_tag how many of them are tagged.
TotalsCountMailbox ==
  pc = "menu" =>
    /\ tot.msgs = Len(db[curr])
    /\ tot.tag = Cardinality(TaggedRecords)

\* What mailbox m holds: between the unlink and the rename of a purge that
\* is still running, the records are those of EMAIL.DB.NEW.
Held(m) ==
  IF pc = "purge_rename" /\ m = curr THEN job.kept
  ELSE IF m \in listed THEN db[m] ELSE << >>

\* Some mailbox shows message x, not deleted, with its file intact.
Readable(x) ==
  \E m \in Mailboxes : \E i \in DOMAIN Held(m) :
    LET r == Held(m)[i]
    IN r.status # "D" /\ r.hdr = x /\ files[m][r.num] = x

\* No step but the D key on it takes the last readable copy of a message
\* away: a move marks its source only when the copy can be read, and a purge
\* removes only what is marked.
NeverLost ==
  [][\A x \in Msgs :
       Readable(x) => Readable(x)' \/ (Command /\ Selected.hdr = x /\ Delete)]_vars

\* A move never marks the only readable copy of its message as deleted,
\* wherever the machine stopped before and whatever number it gave twice.
MoveKeepsMessage ==
  [][\A x \in Msgs :
       /\ pc \in CopyPc
       /\ Readable(x)
       /\ \E i \in DOMAIN Records :
            Records[i].hdr = x /\ Records[i].status # "D" /\ db'[curr][i].status = "D"
       => Readable(x)']_vars

\* Record i has no file of its own left, because its number was given twice.
Orphan(i) ==
  \/ files[curr][Records[i].num] = None
  \/ Records[i].num >= next[curr]
  \/ \E j \in DOMAIN Records \ {i} : Records[j].num = Records[i].num

\* A command over the tagged messages reaches all of them: when it is done
\* no message that has its file is tagged, unless the destination refused all.
AllTaggedCopied ==
  [][(pc = "scan" /\ pc' = "menu") =>
       \/ next[job.dest] = 0
       \/ \A i \in DOMAIN Records : Records[i].tag => Orphan(i)]_vars

\* EMAIL.DB ends behind the records the 16-bit offsets reach.
Long == Wraps(Len(Records))
Over == pc \in {"menu", "off"} \/ Long

\* A command the user confirmed returns to the summary screen as long as its
\* EMAIL.DB is not longer than the 16-bit offsets reach; copying into the
\* mailbox being walked does not keep the walk going for ever.
CommandEnds == (pc \notin {"menu", "off"}) ~> Over

\* "Collective operations may be performed on the tagged messages", in a
\* mailbox of any length: a command the user confirmed returns to the summary
\* screen.
WalkEnds == (pc \notin {"menu", "off"}) ~> (pc \in {"menu", "off"})

\* "Mark current message as deleted": the D key leaves every record of the
\* mailbox the message it names; none is overwritten with another.
DeleteKeepsRecords ==
  [][Delete => \A i \in DOMAIN Records : db'[curr][i].num = Records[i].num]_vars

=============================================================================
