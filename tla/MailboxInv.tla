----------------------------- MODULE MailboxInv -----------------------------
(***************************************************************************)
(* The inductive invariants behind the properties of Mailbox.  They come   *)
(* in two layers.  The lower one says which record of EMAIL.DB a command   *)
(* works on (IndexOK); it is kept by two different arguments:              *)
(*                                                                         *)
(*   ForwardInv  messages listed oldest first, mailboxes of any number of  *)
(*               pages, copies into any mailbox, resets at any moment;     *)
(*   OneInv      either order, mailboxes of one page, copies into other    *)
(*               mailboxes only, no resets.                                *)
(*                                                                         *)
(* The upper layer is about records and files, and asks of the lower one   *)
(* only IndexOK: Inv (RecordsOwnFiles, UniqueNumbers), SafeInv (NeverLost),*)
(* MoveInv (MoveKeepsMessage) and WalkDone (AllTaggedCopied).              *)
(***************************************************************************)
EXTENDS Mailbox

-----------------------------------------------------------------------------
(* The record a command works on                                           *)

\* Page p shows the records of d from first_msg on.
Mirrors(p, f, d) ==
  \A i \in DOMAIN p : f + i - 1 \in DOMAIN d /\ p[i] = d[f + i - 1]

\* A copy works on the record it was started for, and writes its copy under
\* the number it read from NEXT.EMAIL.
CopyFollows ==
  /\ job.idx \in DOMAIN Records
  /\ Records[job.idx].num = job.rec.num
  /\ Records[job.idx].hdr = job.rec.hdr
  /\ Records[job.idx].status = job.rec.status
  /\ pc \in {"copy_db", "copy_next"} => job.num = next[job.dest]

\* The record a command is about to write back is the one the user picked.
IndexOK ==
  /\ TypeOK
  /\ IndexNamesSelection
  /\ pc = "scan" => job.tagged
  /\ pc \in CopyPc => CopyFollows

\* A mailbox that was never created has no records.
NewEmpty == \A m \in Mailboxes : next[m] = 0 => db[m] = << >>

ForwardInv ==
  /\ TypeOK
  /\ rev = FALSE /\ prefs.rev = FALSE
  /\ NewEmpty
  /\ pc = "menu" => Mirrors(page, first, Records)
  /\ pc = "scan" => job.tagged
  /\ pc \in CopyPc =>
       /\ CopyFollows
       /\ ~job.tagged => /\ Mirrors(page, first, Records)
                         /\ sel \in DOMAIN page
                         /\ job.idx = first + sel - 1
  /\ pc \in PurgePc => next[curr] # 0

\* The number of records d of a mailbox stays below the number n it gives next.
Numbered(d, n) == Len(d) < n \/ Len(d) = 0

\* The first number no record of m has; while a copy has listed its message
\* but not written NEXT.EMAIL yet it is one more than that file says.
FreeFrom(m) == IF pc = "copy_next" /\ m = job.dest THEN next[m] + 1 ELSE next[m]

\* The summary screen shows the whole mailbox, and its counters count it.
WholeShown ==
  /\ page = Window(Records, 1, rev)
  /\ tot.msgs = Len(Records)
  /\ tot.tag = Cardinality(TaggedRecords)

OneInv ==
  /\ TypeOK
  /\ first = 1 /\ prefs.first = 1
  /\ \A m \in Mailboxes : Numbered(db[m], FreeFrom(m))
  /\ pc = "menu" => WholeShown
  /\ pc = "scan" => job.tagged /\ job.dest # curr
  /\ pc \in CopyPc =>
       /\ CopyFollows
       /\ job.dest # curr
       /\ ~job.tagged => /\ WholeShown
                         /\ tot.tag = 0
                         /\ sel \in DOMAIN page
                         /\ job.idx = DbIndex
  /\ pc = "purge" => Len(job.kept) < job.i /\ job.i <= Len(Records) + 1
  /\ pc = "purge_rename" => Numbered(job.kept, next[curr])

-----------------------------------------------------------------------------
(* Records and files                                                       *)

\* The records of a mailbox, its next number and its files agree: numbers
\* are below the next one and name different files, each holding the message
\* of its record, deleted or not (an undelete must find the file there).
BoxOK(d, n, f) ==
  \A i \in DOMAIN d :
    /\ d[i].num < n
    /\ f[d[i].num] = d[i].hdr
    /\ \A j \in DOMAIN d : d[i].num = d[j].num => i = j

\* A running purge has unlinked the files of the deleted records before job.i
\* and kept the others.
PurgingOK ==
  /\ \A i \in DOMAIN Records :
       /\ Records[i].num < next[curr]
       /\ (i >= job.i \/ Records[i].status # "D") =>
            files[curr][Records[i].num] = Records[i].hdr
       /\ \A j \in DOMAIN Records : Records[i].num = Records[j].num => i = j
  /\ \A k \in DOMAIN job.kept :
       /\ \E i \in DOMAIN Records :
            i < job.i /\ job.kept[k] = Records[i] /\ Records[i].status # "D"
       /\ \A l \in DOMAIN job.kept : job.kept[k].num = job.kept[l].num => k = l

BoxesOK ==
  \A m \in Mailboxes :
    IF pc = "purge" /\ m = curr THEN PurgingOK
    ELSE BoxOK(db[m], FreeFrom(m), files[m])

Inv ==
  /\ IndexOK
  /\ BoxesOK
  /\ pc = "copy_db" => files[job.dest][job.num] = job.rec.hdr
  /\ pc = "purge_rename" => BoxOK(job.kept, next[curr], files[curr])

\* When a move marks its source the copy is listed and is another record.
CopyListed ==
  pc \in {"copy_next", "copy_mark"} =>
    /\ job.dest \in listed
    /\ \E j \in DOMAIN db[job.dest] :
         /\ db[job.dest][j] = [job.rec EXCEPT !.num = job.num]
         /\ job.dest = curr => j # job.idx

\* What a running purge keeps of the records before job.i is in EMAIL.DB.NEW.
KeptSoFar ==
  pc = "purge" =>
    \A i \in DOMAIN Records : i < job.i /\ Records[i].status # "D" =>
      \E k \in DOMAIN job.kept : job.kept[k] = Records[i]

\* The same with what NeverLost rests on
SafeInv == Inv /\ CopyListed /\ KeptSoFar

\* The new file holds what the file it was copied from holds, whichever
\* message that is after a number was given twice.
CopiedWhole ==
  pc \in {"copy_db", "copy_next", "copy_mark"} =>
    files[job.dest][job.num] = files[curr][job.rec.num]

\* What a move rests on after a reset
MoveInv == CopyListed /\ CopiedWhole

\* A walk over the tagged records has left no tag behind it on the records its
\* offsets reach, but on the one it is copying and on records without a file of
\* their own; it copies the last one it read.
WalkDone ==
  pc \in CopyPc \cup {"scan"} /\ job.tagged =>
    /\ pc \in CopyPc => job.idx = job.count
    /\ pc = "copy_next" /\ job.dest = curr =>
         \E j \in DOMAIN Records : j > job.count /\ Records[j].num = job.num
    /\ \/ next[job.dest] = 0
       \/ \A i \in DOMAIN Records :
            i <= job.count /\ ~Wraps(i - 1) /\ Records[i].tag =>
              (pc \in CopyPc /\ i = job.idx) \/ Orphan(i)

=============================================================================
