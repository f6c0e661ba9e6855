--------------------------- MODULE MailboxProofs ---------------------------
(***************************************************************************)
(* What the runs of Mailbox.tla check on two mailboxes and a few messages, *)
(* proved for every number of them, every page size and every bound: the   *)
(* types, and which record of EMAIL.DB a command works on.  The latter has *)
(* two proofs, one oldest first for mailboxes of any number of pages and   *)
(* after resets (Forward), one in either order for mailboxes of one page,  *)
(* whose counters are right (OnePage).                                     *)
(***************************************************************************)
EXTENDS MailboxInv, FiniteSetTheorems, SequenceTheorems,
        TLAPS

-----------------------------------------------------------------------------
(* The operators of read_email_db and write_updated_headers                *)

\* A page is a list of records, in either order and from any first message.
LEMMA WindowType ==
  ASSUME NEW d \in Seq(Rec), NEW f \in Nat \ {0}, NEW r \in BOOLEAN
  PROVE  Window(d, f, r) \in Seq(Rec)
<1> DEFINE n == Min2(PageSize, Shown(d, f))
<1>1. /\ n \in Int
      /\ \A i \in 1..n : d[Len(d) - f - i + 2] \in Rec /\ d[f + i - 1] \in Rec
  BY MailboxAssumption DEF Min2, Shown
<1>2. CASE n >= 0
  BY <1>1, <1>2 DEF Window
<1>3. CASE n < 0
  <2>1. 1..n = 1..0
    BY <1>1, <1>3
  <2>2. Window(d, f, r) \in [1..0 -> Rec]
    BY <2>1 DEF Window
  <2> QED
    BY <2>2, SeqDef
<1> QED
  BY <1>1, <1>2, <1>3

\* The counters are natural numbers.
LEMMA TotalsType ==
  ASSUME NEW d \in Seq(Rec), NEW f \in Nat \ {0}, NEW r \in BOOLEAN
  PROVE  Totals(d, f, r) \in Counters
<1> DEFINE seen == Visited(d, f, r)
<1>1. IsFiniteSet(seen)
  BY FS_Interval DEF Visited, Shown
<1>2. \A S \in SUBSET seen : Cardinality(S) \in Nat
  BY <1>1, FS_Subset, FS_CardinalityType
<1> QED
  BY <1>2 DEF Totals, Counters

\* Writing a record inside the database or right after it keeps it a database.
LEMMA PutType ==
  ASSUME NEW d \in Seq(Rec), NEW r \in Rec, NEW i \in 1..(Len(d) + 1)
  PROVE  Put(d, i, r) \in Seq(Rec)
BY DEF Put

\* A uint16_t is a natural number.
LEMMA WrapType ==
  ASSUME NEW n \in Int
  PROVE  n % Width \in Nat
BY MailboxAssumption

\* Loading a page leaves records in it and numbers in the counters.
LEMMA LoadType ==
  ASSUME NEW d \in Seq(Rec), NEW f \in Nat \ {0}, NEW r \in BOOLEAN,
         NEW t \in Counters, Load(d, f, r, t)
  PROVE  page' \in Seq(Rec) /\ tot' \in Counters
BY WindowType DEF Load, NoTotals, Counters

-----------------------------------------------------------------------------
(* Types                                                                   *)

USE DEF Status, CopyPc, PurgePc

\* A program that is left keeps nothing of the wrong type.
LEMMA OffType ==
  ASSUME Off
  PROVE  ViewOK' /\ JobOK'
<1>1. page' \in Seq(Rec) /\ tot' \in Counters
  BY EmptySeq DEF Off, NoTotals, Counters
<1>2. pc' = "off" /\ curr' \in Mailboxes /\ rev' \in BOOLEAN /\ first' = 1 /\ sel' = 1
  BY MailboxAssumption, Zenon DEF Off
<1>3. ViewOK'
  BY <1>1, <1>2 DEF ViewOK
<1>4. JobOK'
  BY DEF Off, JobOK
<1> QED
  BY <1>3, <1>4

\* go_to_next_message, from a page and counters of the right type.
LEMMA GoToNextType ==
  ASSUME TypeOK, pc = "menu",
         NEW p \in Seq(Rec), NEW t \in Counters, NEW d \in Seq(Rec),
         GoToNext(p, t, d)
  PROVE  ViewOK' /\ JobOK'
<1>1. CASE Off
  BY <1>1, OffType
<1>2. CASE page' = p /\ tot' = t /\ first' = first /\ sel' \in {sel, sel + 1}
           /\ UNCHANGED <<pc, curr, rev, job>>
  BY <1>2 DEF TypeOK, ViewOK, JobOK
<1>3. CASE /\ first' = first + PageSize
           /\ Load(d, first', rev, t)
           /\ sel' = 1
           /\ UNCHANGED <<pc, curr, rev, job>>
  <2>1. first' \in Nat \ {0}
    BY <1>3, MailboxAssumption DEF TypeOK, ViewOK
  <2>2. page' \in Seq(Rec) /\ tot' \in Counters
    BY <1>3, <2>1, LoadType DEF TypeOK, ViewOK
  <2> QED
    BY <1>3, <2>1, <2>2 DEF TypeOK, ViewOK, JobOK
<1> QED
  BY <1>1, <1>2, <1>3 DEF GoToNext

\* The highlighted line is a header record.
LEMMA SelectedType ==
  ASSUME TypeOK, Command
  PROVE  Selected \in Rec
BY ElementOfSeq DEF TypeOK, ViewOK, Command, HasSelection, Selected

\* write_updated_headers leaves every EMAIL.DB a sequence of records.
LEMMA WriteType ==
  ASSUME TypeOK, NEW i, NEW r \in Rec, WriteUpdated(i, r)
  PROVE  db' \in [Mailboxes -> Seq(Rec)] /\ db'[curr] \in Seq(Rec)
<1>1. db[curr] \in Seq(Rec) /\ curr \in Mailboxes
  BY DEF TypeOK, ViewOK, DiskOK
<1>2. Put(db[curr], i, r) \in Seq(Rec)
  BY <1>1, PutType DEF WriteUpdated, CanWrite
<1> QED
  BY <1>1, <1>2 DEF WriteUpdated, TypeOK, DiskOK

\* The fields of a record, and the updates the commands make to it.
LEMMA RecUpdate ==
  ASSUME NEW r \in Rec
  PROVE  /\ \A s \in Status : [r EXCEPT !.status = s] \in Rec
         /\ \A b \in BOOLEAN : [r EXCEPT !.tag = b] \in Rec
         /\ \A n \in Nums : [r EXCEPT !.num = n] \in Rec
         /\ r.tag \in BOOLEAN /\ r.status \in Status /\ r.num \in Nums
         /\ r.hdr \in Msgs
BY DEF Rec

\* What save_prefs writes is what load_prefs can read.
LEMMA SaveType ==
  ASSUME TypeOK
  PROVE  Save \in Prefs /\ DefaultPrefs \in Prefs
<1>1. Save \in Prefs
  BY DEF TypeOK, ViewOK, Save, Prefs
<1>2. FALSE \in BOOLEAN /\ Inbox \in Mailboxes
  BY MailboxAssumption
<1>3. DefaultPrefs \in Prefs
  BY <1>2 DEF DefaultPrefs, Prefs
<1> QED
  BY <1>1, <1>3

\* A command changes one line of the page.
LEMMA PageUpdate ==
  ASSUME NEW p \in Seq(Rec), NEW i \in 1..Len(p), NEW r \in Rec
  PROVE  [p EXCEPT ![i] = r] \in Seq(Rec)
BY ExceptSeq

\* Assigning outside the page leaves it alone.
LEMMA PageUpdateAny ==
  ASSUME NEW p \in Seq(Rec), NEW i \in Nat, NEW r \in Rec
  PROVE  [p EXCEPT ![i] = r] \in Seq(Rec)
<1>1. p \in [1..Len(p) -> Rec]
  BY LenProperties
<1>2. [p EXCEPT ![i] = r] \in [1..Len(p) -> Rec]
  BY <1>1
<1> QED
  BY <1>2, SeqDef

\* Without a highlighted line no line changes.
LEMMA PageUpdateOutside ==
  ASSUME NEW p \in Seq(Rec), NEW i, i \notin 1..Len(p), NEW r
  PROVE  [p EXCEPT ![i] = r] \in Seq(Rec)
<1>1. p \in [1..Len(p) -> Rec]
  BY LenProperties
<1>2. [p EXCEPT ![i] = r] \in [1..Len(p) -> Rec]
  BY <1>1
<1> QED
  BY <1>2, SeqDef

\* The locals of copy_to_mailbox when a copy starts.
LEMMA CopyJobType ==
  ASSUME NEW r \in Rec \cup {None}, NEW i \in Nat, NEW m \in Mailboxes,
         NEW del \in BOOLEAN, NEW many \in BOOLEAN
  PROVE  CopyJob(r, i, m, del, many) \in CopyJobs /\ CopyJob(r, i, m, del, many).rec = r
<1>1. 0 \in 0..MaxNum
  BY MailboxAssumption
<1> QED
  BY <1>1 DEF CopyJob, CopyJobs

\* The keys that change the selection, the selected record or the mailbox.
LEMMA KeyType ==
  ASSUME TypeOK, Key
  PROVE  TypeOK'
<1> USE DEF TypeOK
<1> DEFINE here == DiskOK' /\ ViewOK' /\ JobOK'
<1>0. /\ db[curr] \in Seq(Rec) /\ curr \in Mailboxes /\ page \in Seq(Rec)
      /\ tot \in Counters /\ first \in Nat \ {0} /\ sel \in Nat /\ rev \in BOOLEAN
  BY DEF DiskOK, ViewOK
<1>1. CASE Up
  <2>1. UNCHANGED <<disk, pc, curr, rev, job>>
    BY <1>1 DEF Up
  <2>2. CASE sel > 1 /\ sel' = sel - 1 /\ UNCHANGED <<first, page, tot>>
    BY <2>1, <2>2 DEF DiskOK, ViewOK, JobOK, disk
  <2>3. CASE /\ first > PageSize
             /\ first' = first - PageSize
             /\ Load(db[curr], first', rev, tot)
             /\ sel' = Len(page')
    <3>1. first' \in Nat \ {0}
      BY <2>3, <1>0, MailboxAssumption
    <3>2. page' \in Seq(Rec) /\ tot' \in Counters
      BY <3>1, <2>3, <1>0, LoadType
    <3>3. sel' \in Nat
      BY <3>2, <2>3
    <3> QED
      BY <3>1, <3>2, <3>3, <2>1 DEF DiskOK, ViewOK, JobOK, disk
  <2> QED
    BY <1>1, <2>2, <2>3 DEF Up
<1>2. CASE Down
  BY <1>2, <1>0, GoToNextType DEF Down, DiskOK, disk
<1>3. CASE SeekFatal
  BY <1>3, OffType DEF SeekFatal, DiskOK, disk
<1>4. CASE Read
  <2>1. [Selected EXCEPT !.status = "R"] \in Rec
    BY <1>4, SelectedType, RecUpdate DEF Read
  <2>2. db' \in [Mailboxes -> Seq(Rec)] /\ db'[curr] \in Seq(Rec)
    BY <1>4, <2>1, WriteType DEF Read, WriteBack
  <2> DEFINE t == IF Selected.status = "N"
                  THEN [tot EXCEPT !.new = (@ - 1) % Width] ELSE tot
  <2>3. t \in Counters
    BY <1>0, WrapType DEF Counters
  <2>4. page' \in Seq(Rec) /\ tot' \in Counters
    <3>1. Load(db'[curr], first, rev, t)
      BY <1>4 DEF Read
    <3> HIDE DEF t
    <3> QED
      BY <3>1, <2>2, <2>3, <1>0, LoadType
  <2>5. UNCHANGED <<listed, files, next, prefs, pc, curr, rev, first, sel, job>>
    BY <1>4 DEF Read
  <2> QED
    BY <2>2, <2>4, <2>5 DEF DiskOK, ViewOK, JobOK
<1>5. CASE Tag
  <2> DEFINE r == [Selected EXCEPT !.tag = ~@]
             t == [tot EXCEPT !.tag = (@ + (IF r.tag THEN 1 ELSE -1)) % Width]
  <2>1. r \in Rec
    BY <1>5, SelectedType DEF Tag, Rec
  <2>2. db' \in [Mailboxes -> Seq(Rec)] /\ db'[curr] \in Seq(Rec)
    BY <1>5, <2>1, WriteType DEF Tag, WriteBack
  <2>3. t \in Counters
    <3>1. tot \in Counters /\ tot.tag + (IF r.tag THEN 1 ELSE -1) \in Int
      BY <1>0 DEF Counters
    <3>2. (tot.tag + (IF r.tag THEN 1 ELSE -1)) % Width \in Nat
      BY <3>1, WrapType
    <3> QED
      BY <3>1, <3>2 DEF Counters
  <2>4. [page EXCEPT ![sel] = r] \in Seq(Rec)
    BY <1>5, <1>0, <2>1, PageUpdate DEF Tag, Command, HasSelection
  <2>5. ViewOK' /\ JobOK'
    <3>1. GoToNext([page EXCEPT ![sel] = r], t, db'[curr]) /\ pc = "menu"
      BY <1>5 DEF Tag, Command
    <3> HIDE DEF r, t
    <3> QED
      BY <3>1, <2>2, <2>3, <2>4, GoToNextType
  <2>6. UNCHANGED <<listed, files, next, prefs>>
    BY <1>5 DEF Tag
  <2> QED
    BY <2>2, <2>5, <2>6 DEF DiskOK
<1>6. ASSUME NEW s \in {"D", "R"}, SetStatus(s)
      PROVE  here
  <2> DEFINE r == [Selected EXCEPT !.status = s]
  <2>1. r \in Rec
    BY <1>6, SelectedType, RecUpdate DEF SetStatus
  <2>2. db' \in [Mailboxes -> Seq(Rec)] /\ db'[curr] \in Seq(Rec)
    BY <1>6, <2>1, WriteType DEF SetStatus, WriteBack
  <2>4. [page EXCEPT ![sel] = r] \in Seq(Rec)
    BY <1>6, <1>0, <2>1, PageUpdate DEF SetStatus, Command, HasSelection
  <2>5. ViewOK' /\ JobOK'
    <3>1. GoToNext([page EXCEPT ![sel] = r], tot, db'[curr]) /\ pc = "menu"
      BY <1>6 DEF SetStatus, Command
    <3> HIDE DEF r
    <3> QED
      BY <3>1, <1>0, <2>2, <2>4, GoToNextType
  <2>6. UNCHANGED <<listed, files, next, prefs>>
    BY <1>6 DEF SetStatus
  <2> QED
    BY <2>2, <2>5, <2>6 DEF DiskOK
<1>7. CASE Reply
  <2>1. [Selected EXCEPT !.tag = FALSE] \in Rec
    BY <1>7, SelectedType, RecUpdate DEF Reply
  <2>2. db' \in [Mailboxes -> Seq(Rec)]
    BY <1>7, <2>1, WriteType DEF Reply, WriteBack
  <2> QED
    BY <1>7, <2>2, OffType, SaveType DEF Reply, DiskOK
<1>8. ASSUME NEW m \in Mailboxes, NEW del \in BOOLEAN, StartCopy(m, del)
      PROVE  here
  <2>1. Selected \in Rec /\ sel >= 1
    BY <1>8, SelectedType DEF StartCopy, Command, HasSelection
  <2>2. DbIndex \in Nat
    <3>1. tot.msgs \in Int /\ sel \in Int /\ first \in Int
      BY <1>0 DEF Counters
    <3>2. (tot.msgs - (first + sel - 1) + 1) % Width \in Nat
      BY <3>1, WrapType
    <3> QED
      BY <2>1, <3>2, <1>0 DEF DbIndex
  <2>3. \/ pc' = "copy_file" /\ job' = CopyJob(Selected, DbIndex, m, del, FALSE)
        \/ pc' = "scan" /\ job' = CopyJob(None, 0, m, del, TRUE)
    BY <1>8 DEF StartCopy
  <2>5. job' \in CopyJobs /\ (pc' = "copy_file" => job'.rec \in Rec)
    <3>1. /\ CopyJob(Selected, DbIndex, m, del, FALSE) \in CopyJobs
          /\ CopyJob(Selected, DbIndex, m, del, FALSE).rec = Selected
          /\ CopyJob(None, 0, m, del, TRUE) \in CopyJobs
      BY <2>1, <2>2, CopyJobType, Zenon
    <3> QED
      BY <2>1, <2>3, <3>1
  <2>4. pc' \in {"copy_file", "scan"} /\ UNCHANGED <<disk, view>>
    BY <1>8 DEF StartCopy
  <2> QED
    BY <2>5, <2>4 DEF DiskOK, ViewOK, JobOK, disk, view
<1>9. CASE StartPurge
  <2>1. job' \in PurgeJobs
    BY <1>9, EmptySeq DEF StartPurge, PurgeJobs
  <2> QED
    BY <1>9, <2>1 DEF StartPurge, DiskOK, ViewOK, JobOK, disk, view
<1>10. ASSUME NEW m \in Mailboxes, NewMailbox(m)
       PROVE  here
  <2>1. 1 \in 0..(MaxNum + 1)
    BY MailboxAssumption
  <2> QED
    BY <1>10, <2>1, EmptySeq DEF NewMailbox, DiskOK, ViewOK, JobOK, view
<1>11. ASSUME NEW m \in Mailboxes, SwitchMailbox(m)
       PROVE  here
  <2>1. curr' \in Mailboxes /\ db[curr'] \in Seq(Rec)
    BY <1>11, <1>0 DEF SwitchMailbox, DiskOK
  <2>2. Totals(db[curr'], 1, rev) \in Counters
    BY <2>1, <1>0, TotalsType
  <2>3. page' \in Seq(Rec) /\ tot' \in Counters
    BY <1>11, <2>1, <2>2, <1>0, LoadType DEF SwitchMailbox
  <2> QED
    BY <1>11, <2>1, <2>3 DEF SwitchMailbox, DiskOK, ViewOK, JobOK, disk
<1>12. ASSUME NEW r \in Orders, SetOrder(r)
       PROVE  here
  <2>1. r \in BOOLEAN
    BY MailboxAssumption
  <2>2. Totals(db[curr], 1, r) \in Counters
    BY <2>1, <1>0, TotalsType
  <2>3. page' \in Seq(Rec) /\ tot' \in Counters
    BY <1>12, <2>1, <2>2, <1>0, LoadType DEF SetOrder
  <2> QED
    BY <1>12, <2>1, <2>3 DEF SetOrder, DiskOK, ViewOK, JobOK, disk
<1>13. CASE Leave
  BY <1>13, OffType, SaveType DEF Leave, DiskOK
<1>14. ASSUME NEW k \in Keys, Press(k)
       PROVE  here
  <2>1. CASE Read \/ Tag \/ Reply \/ StartPurge \/ Leave
    BY <2>1, <1>4, <1>5, <1>7, <1>9, <1>13
  <2>2. CASE Delete \/ Undelete
    BY <2>2, <1>6 DEF Delete, Undelete
  <2>3. CASE \E m \in Mailboxes : \E del \in BOOLEAN : StartCopy(m, del)
    BY <2>3, <1>8
  <2>4. CASE \E m \in Mailboxes : NewMailbox(m) \/ SwitchMailbox(m)
    BY <2>4, <1>10, <1>11
  <2> QED
    BY <1>14, <2>1, <2>2, <2>3, <2>4 DEF Press
<1> QED
  BY <1>1, <1>2, <1>3, <1>12, <1>14 DEF Key

\* Starts, imports and what else happens while the program is not running.
LEMMA OutsideType ==
  ASSUME TypeOK, Outside
  PROVE  TypeOK'
<1> USE DEF TypeOK
<1>1. CASE Boot
  <2>1. /\ curr' \in Mailboxes /\ rev' \in BOOLEAN /\ first' \in Nat \ {0} /\ sel' \in Nat
        /\ db[curr'] \in Seq(Rec)
    BY <1>1 DEF Boot, DiskOK, Prefs
  <2>2. Totals(db[curr'], first', rev') \in Counters
    BY <2>1, TotalsType
  <2>3. page' \in Seq(Rec) /\ tot' \in Counters
    BY <1>1, <2>1, <2>2, LoadType DEF Boot
  <2> QED
    BY <1>1, <2>1, <2>3 DEF Boot, DiskOK, ViewOK, JobOK, disk
<1>2. CASE DeletePrefs
  BY <1>2, SaveType DEF DeletePrefs, DiskOK, ViewOK, JobOK, view
<1>3. ASSUME NEW x \in Msgs, Import(x)
      PROVE  TypeOK'
  <2> DEFINE n == next[Inbox]
             r == [num |-> n, status |-> "N", tag |-> FALSE, hdr |-> x]
  <2>1. n \in Nums /\ n + 1 \in 0..(MaxNum + 1) /\ Inbox \in Mailboxes
    BY <1>3, MailboxAssumption DEF Import, Nums
  <2>2. r \in Rec
    <3>1. FALSE \in BOOLEAN
      OBVIOUS
    <3> QED
      BY <2>1, <3>1 DEF Rec
  <2>3. Append(db[Inbox], r) \in Seq(Rec)
    BY <2>1, <2>2, AppendProperties DEF DiskOK
  <2>4. DiskOK'
    <3> HIDE DEF r
    <3>1. /\ db' = [db EXCEPT ![Inbox] = Append(db[Inbox], r)]
          /\ files' = [files EXCEPT ![Inbox][n] = x]
          /\ next' = [next EXCEPT ![Inbox] = n + 1]
          /\ UNCHANGED <<listed, prefs>>
      BY <1>3 DEF Import, r
    <3> QED
      BY <3>1, <2>1, <2>3 DEF DiskOK
  <2> QED
    BY <1>3, <2>4 DEF Import, ViewOK, JobOK, view
<1> QED
  BY <1>1, <1>2, <1>3 DEF Outside

-----------------------------------------------------------------------------
(* The offsets of the walk over EMAIL.DB                                   *)

\* Multiplication does not turn an order round.
LEMMA Multiplies ==
  ASSUME NEW r \in Nat, NEW a \in Nat, NEW b \in Nat, a <= b
  PROVE  a * r <= b * r
<1>1. PICK d \in Nat : b = a + d
  <2>1. b - a \in Nat /\ b = a + (b - a)
    OBVIOUS
  <2> QED
    BY <2>1
<1>2. b * r = a * r + d * r
  BY <1>1
<1>3. a * r \in Nat /\ d * r \in Nat
  BY <1>1
<1> QED
  BY <1>2, <1>3

\* What a read at an offset taken modulo w tells of the records of a file.
LEMMA Offsets ==
  ASSUME NEW r \in Nat, r > 0, NEW w \in Nat, w > 0, NEW n \in Nat, NEW c \in Nat
  PROVE  /\ c * r < w /\ ~(((c * r) % w) + r > n * r) => c < n
         /\ ((c * r) % w) + r > n * r => \A i \in 1..n : i <= c /\ (i - 1) * r < w
<1>1. \A a, b \in Nat : a <= b => a * r <= b * r
  BY Multiplies
<1>2. c * r \in Nat /\ n * r \in Nat /\ (c * r) % w \in 0..(w - 1)
  OBVIOUS
<1>3. (c + 1) * r = c * r + r /\ c + 1 \in Nat
  OBVIOUS
<1>4. ASSUME c * r < w, ~(((c * r) % w) + r > n * r) PROVE c < n
  <2>1. (c * r) % w = c * r
    BY <1>2, <1>4
  <2>2. c * r + r <= n * r
    BY <1>2, <1>4, <2>1
  <2>3. n <= c => n * r <= c * r
    BY <1>1
  <2> QED
    BY <1>2, <2>2, <2>3
<1>5. ASSUME ((c * r) % w) + r > n * r, NEW i \in 1..n PROVE i <= c /\ (i - 1) * r < w
  <2>1. n - 1 \in Nat /\ i - 1 \in Nat /\ n * r = (n - 1) * r + r
    BY <1>5
  <2>2. (c * r) % w <= c * r
    BY <1>2
  <2>3. (n - 1) * r \in Nat /\ (n - 1) * r < w /\ (n - 1) * r < c * r
    BY <1>2, <1>5, <2>1, <2>2
  <2>4. ~(c <= n - 1)
    BY <1>1, <1>2, <2>1, <2>3
  <2>5. (i - 1) * r <= (n - 1) * r /\ (i - 1) * r \in Nat
    BY <1>1, <1>5, <2>1
  <2> QED
    BY <1>5, <2>3, <2>4, <2>5
<1> QED
  BY <1>4, <1>5

\* While the offset does not wrap the walk reads the next record; a short
\* read comes behind all the records, none of them out of its reach.
LEMMA ScanRange ==
  ASSUME NEW c \in Nat, Records \in Seq(Rec)
  PROVE  /\ ~Wraps(c) /\ ~PastEnd(c) => c + 1 \in 1..Len(Records)
         /\ PastEnd(c) => \A i \in 1..Len(Records) : i <= c /\ ~Wraps(i - 1)
<1>1. /\ Len(Records) \in Nat /\ RecSize \in Nat /\ RecSize > 0
      /\ Width \in Nat /\ Width > 0
  BY MailboxAssumption
<1>2. c * RecSize \in Nat /\ \A i \in 1..Len(Records) : (i - 1) * RecSize \in Nat
  BY <1>1
<1>3. ~Wraps(c) => c * RecSize < Width
  BY <1>1, <1>2 DEF Wraps
<1>4. \A i \in 1..Len(Records) : (i - 1) * RecSize < Width => ~Wraps(i - 1)
  BY <1>1, <1>2 DEF Wraps
<1>5. PastEnd(c) <=> ((c * RecSize) % Width) + RecSize > Len(Records) * RecSize
  BY DEF PastEnd
<1>6. /\ c * RecSize < Width /\ ~PastEnd(c) => c < Len(Records)
      /\ PastEnd(c) => \A i \in 1..Len(Records) : i <= c /\ (i - 1) * RecSize < Width
  BY <1>1, <1>5, Offsets
<1>7. c < Len(Records) => c + 1 \in 1..Len(Records)
  BY <1>1
<1> QED
  BY <1>3, <1>4, <1>6, <1>7
\* The steps of a copy.
LEMMA CopyStepType ==
  ASSUME TypeOK, CopyStep
  PROVE  TypeOK'
<1> USE DEF TypeOK
<1>0. /\ db[curr] \in Seq(Rec) /\ curr \in Mailboxes /\ page \in Seq(Rec)
      /\ first \in Nat \ {0} /\ rev \in BOOLEAN /\ sel \in Nat
  BY DEF DiskOK, ViewOK
<1>1. CASE ScanEnd
  <2>1. Totals(Records, first, rev) \in Counters
    BY <1>0, TotalsType DEF Records
  <2>2. page' \in Seq(Rec) /\ tot' \in Counters
    BY <1>0, <1>1, <2>1, LoadType DEF ScanEnd, Records
  <2> QED
    BY <1>1, <2>2 DEF ScanEnd, DiskOK, ViewOK, JobOK, disk
<1>2. CASE ScanRecord
  <2> DEFINE i == job.count + 1
  <2>1. job \in CopyJobs /\ i \in 1..Len(Records)
    <3>1. job \in CopyJobs /\ ~Wraps(job.count) /\ ~PastEnd(job.count)
      BY <1>2 DEF ScanRecord, JobOK
    <3>2. job.count \in Nat
      BY <3>1 DEF CopyJobs
    <3> QED
      BY <1>0, <3>1, <3>2, ScanRange DEF Records
  <2>2. Records[i] \in Rec
    BY <1>0, <2>1 DEF Records
  <2>3. [Records[i] EXCEPT !.tag = FALSE] \in Rec
    BY <2>2, RecUpdate
  <2>4. CASE ~Records[i].tag
    <3>1. job' = [job EXCEPT !.count = i] /\ pc = "scan" /\ UNCHANGED <<pc, disk, view>>
      BY <1>2, <2>4 DEF ScanRecord
    <3>2. job' \in CopyJobs
      BY <2>1, <3>1 DEF CopyJobs
    <3> QED
      BY <3>1, <3>2 DEF DiskOK, ViewOK, JobOK, disk, view
  <2>5. CASE Records[i].tag
    <3> DEFINE r == [Records[i] EXCEPT !.tag = FALSE]
    <3>1. job' = [job EXCEPT !.count = i, !.idx = i, !.rec = r] /\ pc' = "copy_file"
          /\ UNCHANGED <<disk, view>>
      BY <1>2, <2>5 DEF ScanRecord
    <3>2. r \in Rec
      BY <2>3
    <3> HIDE DEF r
    <3>3. job' \in CopyJobs /\ job'.rec = r
      <4>1. i \in Nat /\ r \in Rec \cup {None}
        BY <2>1, <3>2
      <4> HIDE DEF i
      <4> QED
        BY <3>1, <4>1, <2>1 DEF CopyJobs
    <3> QED
      BY <3>1, <3>2, <3>3 DEF DiskOK, ViewOK, JobOK, disk, view
  <2> QED
    BY <2>4, <2>5
<1>s. CASE ScanStraddle
  <2>1. /\ pc = "scan" /\ job \in CopyJobs /\ UNCHANGED <<disk, pc, view>>
        /\ job' = [job EXCEPT !.count = (job.count + 1) % Width]
    BY <1>s DEF ScanStraddle, JobOK
  <2>2. (job.count + 1) % Width \in Nat
    BY <2>1, MailboxAssumption DEF CopyJobs
  <2>3. job' \in CopyJobs
    BY <2>1, <2>2 DEF CopyJobs
  <2> QED
    BY <2>1, <2>3 DEF DiskOK, ViewOK, JobOK, disk, view
<1>3. ASSUME pc \in CopyPc, Return PROVE JobOK' /\ pc' \in {"menu", "scan"}
  BY <1>3 DEF Return, JobOK
<1>4. CASE CopyRefused
  BY <1>3, <1>4 DEF CopyRefused, DiskOK, ViewOK, disk, view
<1>5. CASE CopyFile
  <2>1. job \in CopyJobs /\ job.rec \in Rec /\ job.dest \in Mailboxes
    BY <1>5 DEF CopyFile, CopyOpens, JobOK, CopyJobs
  <2>2. next[job.dest] \in Nums /\ next[job.dest] \in 0..MaxNum
    BY <1>5, MailboxAssumption DEF CopyFile, CopyOpens, Nums
  <2>3. Source \in Msgs \cup {None}
    BY <1>0, <2>1, RecUpdate DEF Source, DiskOK
  <2>4. DiskOK'
    BY <1>5, <2>1, <2>2, <2>3 DEF CopyFile, DiskOK
  <2>5. JobOK'
    BY <1>5, <2>1, <2>2 DEF CopyFile, CopyOpens, JobOK, CopyJobs
  <2> QED
    BY <1>5, <2>4, <2>5 DEF CopyFile, CopyOpens, ViewOK, view
<1>6. CASE CopyDb
  <2>1. job \in CopyJobs /\ job.rec \in Rec /\ job.dest \in Mailboxes /\ job.num \in Nums
    BY <1>6 DEF CopyDb, JobOK, CopyJobs
  <2>2. Append(db[job.dest], [job.rec EXCEPT !.num = job.num]) \in Seq(Rec)
    BY <2>1, RecUpdate, AppendProperties DEF DiskOK
  <2>3. DiskOK'
    BY <1>6, <2>1, <2>2 DEF CopyDb, DiskOK
  <2> QED
    BY <1>6, <2>3 DEF CopyDb, ViewOK, JobOK, view
<1>7. CASE CopyDbFull
  <2>1. job.num \in Nums
    BY <1>7 DEF CopyDbFull, JobOK
  <2>2. page' \in Seq(Rec)
    <3>1. [page EXCEPT ![sel].num = job.num] \in Seq(Rec)
      <4>1. CASE sel \in 1..Len(page)
        <5>1. [page[sel] EXCEPT !.num = job.num] \in Rec
          BY <1>0, <2>1, <4>1, RecUpdate, ElementOfSeq
        <5> QED
          BY <1>0, <4>1, <5>1, PageUpdate
      <4>2. CASE sel \notin 1..Len(page)
        <5> DEFINE r == [page[sel] EXCEPT !.num = job.num]
        <5>1. [page EXCEPT ![sel] = r] \in Seq(Rec)
          <6> HIDE DEF r
          <6> QED
            BY <1>0, <4>2, PageUpdateOutside
        <5> QED
          BY <5>1
      <4> QED
        BY <4>1, <4>2
    <3> QED
      BY <1>0, <1>7, <3>1 DEF CopyDbFull
  <2>3. pc \in CopyPc /\ Return /\ UNCHANGED <<disk, curr, rev, first, sel, tot>>
    BY <1>7 DEF CopyDbFull
  <2> QED
    BY <1>3, <2>2, <2>3 DEF DiskOK, ViewOK, disk
<1>8. CASE CopyNext
  <2>1. job.num + 1 \in 0..(MaxNum + 1)
    BY <1>8, MailboxAssumption DEF CopyNext, JobOK, Nums
  <2> QED
    BY <1>8, <2>1 DEF CopyNext, DiskOK, ViewOK, JobOK, view
<1>9. CASE CopyMark
  <2> DEFINE r == [job.rec EXCEPT !.tag = FALSE,
                                !.status = IF job.del THEN "D" ELSE @]
  <2>1. r \in Rec
    <3>1. job.rec \in Rec
      BY <1>9 DEF CopyMark, JobOK
    <3>2. FALSE \in BOOLEAN
      OBVIOUS
    <3> QED
      BY <3>1, <3>2 DEF Rec
  <2>2. /\ WriteUpdated(job.idx, r)
        /\ page' = IF job.tagged THEN page ELSE [page EXCEPT ![sel] = r]
        /\ pc \in CopyPc /\ Return
        /\ UNCHANGED <<listed, files, next, prefs, curr, rev, first, sel, tot>>
    BY <1>9 DEF CopyMark
  <2> HIDE DEF r
  <2>3. db' \in [Mailboxes -> Seq(Rec)]
    BY <2>1, <2>2, WriteType
  <2>4. [page EXCEPT ![sel] = r] \in Seq(Rec)
    BY <1>0, <2>1, PageUpdateAny
  <2>5. page' \in Seq(Rec)
    BY <1>0, <2>2, <2>4
  <2> QED
    BY <1>3, <2>2, <2>3, <2>5 DEF DiskOK, ViewOK
<1>10. CASE CopyMarkFatal
  BY <1>10, OffType DEF CopyMarkFatal, DiskOK, disk
<1>11. CASE CopyFileFull
  <2>1. files' \in [Mailboxes -> [Nums -> Msgs \cup {None}]]
    BY <1>11 DEF CopyFileFull, DiskOK
  <2>2. /\ pc \in CopyPc /\ Return
        /\ UNCHANGED <<db, listed, next, prefs, view>>
    BY <1>11 DEF CopyFileFull, CopyOpens
  <2> QED
    BY <1>3, <2>1, <2>2 DEF DiskOK, ViewOK, view
<1> QED
  BY <1>1, <1>2, <1>s, <1>4, <1>5, <1>6, <1>7, <1>8, <1>9, <1>10, <1>11 DEF CopyStep

\* The steps of a purge.
LEMMA PurgeStepType ==
  ASSUME TypeOK, PurgeStep
  PROVE  TypeOK'
<1> USE DEF TypeOK
<1>0. /\ db[curr] \in Seq(Rec) /\ curr \in Mailboxes /\ rev \in BOOLEAN
      /\ job \in PurgeJobs
  BY DEF DiskOK, ViewOK, JobOK, PurgeStep, PurgeRecord, PurgeUnlink, PurgeRename,
         PurgeFull
<1>1. ASSUME NEW d \in Seq(Rec), AfterPurge(d) PROVE ViewOK' /\ JobOK'
  <2>1. Totals(d, 1, rev) \in Counters
    BY <1>0, TotalsType
  <2>2. page' \in Seq(Rec) /\ tot' \in Counters
    BY <1>0, <1>1, <2>1, LoadType DEF AfterPurge
  <2> QED
    BY <1>0, <1>1, <2>2 DEF AfterPurge, ViewOK, JobOK
<1>2. CASE PurgeRecord
  <2> DEFINE h == Records[job.i]
  <2>0. job.i \in 1..Len(Records) /\ job.kept \in Seq(Rec) /\ Records \in Seq(Rec)
    BY <1>0, <1>2 DEF PurgeRecord, PurgeJobs, Records
  <2>1. h \in Rec
    BY <2>0
  <2>2. h.num \in Nums
    BY <2>1, RecUpdate
  <2>3. job' \in PurgeJobs
    <3>1. Append(job.kept, h) \in Seq(Rec)
      BY <2>0, <2>1, AppendProperties
    <3>2. \/ job' = [job EXCEPT !.i = @ + 1]
          \/ job' = [job EXCEPT !.i = @ + 1, !.kept = Append(job.kept, h)]
      BY <1>2 DEF PurgeRecord
    <3>3. job.i + 1 \in Nat \ {0}
      BY <2>0
    <3> HIDE DEF h
    <3> QED
      BY <1>0, <2>0, <3>1, <3>2, <3>3 DEF PurgeJobs
  <2>4. files' \in [Mailboxes -> [Nums -> Msgs \cup {None}]]
    <3> DEFINE n == h.num
    <3>1. files' = files \/ files' = [files EXCEPT ![curr][n] = None]
      BY <1>2 DEF PurgeRecord
    <3>2. n \in Nums
      BY <2>2
    <3> HIDE DEF n
    <3>3. [files EXCEPT ![curr][n] = None] \in [Mailboxes -> [Nums -> Msgs \cup {None}]]
      BY <1>0, <3>2 DEF DiskOK
    <3> QED
      BY <3>1, <3>3 DEF DiskOK
  <2>5. UNCHANGED <<db, listed, next, prefs, pc, view>> /\ pc = "purge"
    BY <1>2 DEF PurgeRecord
  <2> QED
    BY <2>3, <2>4, <2>5 DEF DiskOK, ViewOK, JobOK, view
<1>3. CASE PurgeUnlink
  BY <1>0, <1>3, EmptySeq DEF PurgeUnlink, DiskOK, ViewOK, JobOK, view
<1>4. CASE PurgeRename
  <2>1. job.kept \in Seq(Rec)
    BY <1>0 DEF PurgeJobs
  <2> QED
    BY <1>0, <1>1, <1>4, <2>1 DEF PurgeRename, AfterPurge, DiskOK
<1>5. CASE PurgeFull
  BY <1>0, <1>1, <1>5 DEF PurgeFull, AfterPurge, DiskOK, Records
<1> QED
  BY <1>2, <1>3, <1>4, <1>5 DEF PurgeStep

\* The disk before the first mail is fetched.
LEMMA InitType ==
  ASSUME Init
  PROVE  TypeOK
<1>1. 0 \in 0..(MaxNum + 1) /\ 1 \in 0..(MaxNum + 1) /\ Inbox \in Mailboxes
  BY MailboxAssumption
<1>2. FALSE \in BOOLEAN
  OBVIOUS
<1>3. DiskOK
  BY <1>1, <1>2, EmptySeq DEF Init, DiskOK, Prefs, DefaultPrefs
<1>4. page \in Seq(Rec) /\ tot \in Counters /\ first \in Nat \ {0} /\ sel \in Nat
  BY EmptySeq DEF Init, NoTotals, Counters
<1>5. ViewOK
  BY <1>1, <1>2, <1>4, Zenon DEF Init, ViewOK
<1>6. JobOK
  BY DEF Init, JobOK
<1> QED
  BY <1>3, <1>5, <1>6 DEF TypeOK

\* Every step keeps the types.
LEMMA TypeStep ==
  ASSUME TypeOK, [Next]_vars
  PROVE  TypeOK'
<1>1. CASE Crash
  BY <1>1, OffType DEF Crash, TypeOK, DiskOK, disk
<1>2. CASE UNCHANGED vars
  BY <1>2 DEF vars, disk, view, TypeOK, DiskOK, ViewOK, JobOK
<1> QED
  BY <1>1, <1>2, KeyType, OutsideType, CopyStepType, PurgeStepType DEF Next

\* Every variable of the mailboxes has its type, whatever the user does, in
\* either order and with every fault.
THEOREM TypeCorrect == Spec => []TypeOK
<1>1. Init => TypeOK
  BY InitType
<1>2. TypeOK /\ [Next]_vars => TypeOK'
  BY TypeStep
<1> QED
  BY <1>1, <1>2, PTL DEF Spec
-----------------------------------------------------------------------------
(* Pages                                                                   *)

\* read_email_db shows the records from startnum on.
LEMMA WindowMirrors ==
  ASSUME NEW d \in Seq(Rec), NEW f \in Nat \ {0}
  PROVE  Mirrors(Window(d, f, FALSE), f, d)
<1> DEFINE n == Min2(PageSize, Shown(d, f))
<1>1. n \in Int /\ n <= Shown(d, f) /\ Shown(d, f) = Len(d) - f + 1
  BY MailboxAssumption DEF Min2, Shown
<1>2. DOMAIN Window(d, f, FALSE) = 1..n
  BY DEF Window
<1>3. \A i \in 1..n : Window(d, f, FALSE)[i] = d[f + i - 1]
  BY DEF Window
<1>4. \A i \in 1..n : f + i - 1 \in DOMAIN d
  <2> HIDE DEF n
  <2> QED
    BY <1>1
<1> HIDE DEF n
<1> QED
  BY <1>2, <1>3, <1>4 DEF Mirrors

\* So does the page after any of its calls.
LEMMA LoadMirrors ==
  ASSUME NEW d \in Seq(Rec), NEW f \in Nat \ {0}, NEW t, Load(d, f, FALSE, t)
  PROVE  Mirrors(page', f, d)
BY WindowMirrors DEF Load

\* A message appended to the mailbox changes no line of the page.
LEMMA MirrorsAppend ==
  ASSUME NEW p \in Seq(Rec), NEW f \in Nat \ {0}, NEW d \in Seq(Rec), NEW r \in Rec,
         Mirrors(p, f, d)
  PROVE  Mirrors(p, f, Append(d, r))
BY AppendProperties DEF Mirrors

\* Line s and the record it was read from change together.
LEMMA MirrorsWrite ==
  ASSUME NEW p \in Seq(Rec), NEW f \in Nat \ {0}, NEW d \in Seq(Rec), NEW r \in Rec,
         NEW s \in DOMAIN p, Mirrors(p, f, d)
  PROVE  /\ f + s - 1 \in DOMAIN d
         /\ Mirrors([p EXCEPT ![s] = r], f, [d EXCEPT ![f + s - 1] = r])
BY DEF Mirrors

\* The records of a database.
LEMMA RecOfSeq ==
  ASSUME NEW d \in Seq(Rec), NEW i \in DOMAIN d
  PROVE  d[i] \in Rec /\ d[i].num \in 1..MaxNum
<1>1. d[i] \in Rec
  OBVIOUS
<1> QED
  BY <1>1 DEF Rec, Nums

\* Changing a record's status or tag leaves its number and its message alone.
LEMMA RecKeeps ==
  ASSUME NEW r \in Rec, NEW s \in Status, NEW b \in BOOLEAN
  PROVE  /\ [r EXCEPT !.status = s] \in Rec
         /\ [r EXCEPT !.status = s].num = r.num /\ [r EXCEPT !.status = s].hdr = r.hdr
         /\ [r EXCEPT !.status = s].status = s /\ [r EXCEPT !.status = s].tag = r.tag
         /\ [r EXCEPT !.tag = b] \in Rec
         /\ [r EXCEPT !.tag = b].num = r.num /\ [r EXCEPT !.tag = b].hdr = r.hdr
         /\ [r EXCEPT !.tag = b].status = r.status /\ [r EXCEPT !.tag = b].tag = b
         /\ [r EXCEPT !.tag = b, !.status = s] \in Rec
         /\ [r EXCEPT !.tag = b, !.status = s].num = r.num
         /\ [r EXCEPT !.tag = b, !.status = s].hdr = r.hdr
         /\ [r EXCEPT !.tag = b, !.status = s].status = s
         /\ [r EXCEPT !.tag = b, !.status = s].tag = b
BY DEF Rec

\* The parts of TypeOK every argument uses.
LEMMA Types ==
  ASSUME TypeOK
  PROVE  /\ db \in [Mailboxes -> Seq(Rec)]
         /\ files \in [Mailboxes -> [Nums -> Msgs \cup {None}]]
         /\ next \in [Mailboxes -> 0..(MaxNum + 1)]
         /\ \A m \in Mailboxes : next[m] \in Nat
         /\ curr \in Mailboxes /\ Inbox \in Mailboxes
         /\ Records \in Seq(Rec) /\ page \in Seq(Rec) /\ first \in Nat \ {0}
         /\ rev \in BOOLEAN /\ sel \in Nat
         /\ pc \in CopyPc \cup {"scan"} => job \in CopyJobs /\ job.dest \in Mailboxes
         /\ pc \in CopyPc \cup {"scan"} => job.count \in Nat
         /\ pc \in CopyPc => job.rec \in Rec
         /\ pc \in CopyPc \ {"copy_file"} => job.num \in Nums
         /\ pc \in PurgePc => job \in PurgeJobs /\ job.kept \in Seq(Rec)
                              /\ job.i \in Nat \ {0}
BY MailboxAssumption DEF TypeOK, DiskOK, ViewOK, JobOK, CopyJobs, PurgeJobs, Records

-----------------------------------------------------------------------------
(* What the steps of a copy and a purge do to the record they work on      *)

\* A command writes back the record it was given for.
LEMMA WriteBackRecord ==
  ASSUME TypeOK, IndexNamesSelection, Command, NEW r, WriteBack(r)
  PROVE  /\ DbIndex \in DOMAIN Records
         /\ Records[DbIndex] = Selected
         /\ db' = [db EXCEPT ![curr] = [@ EXCEPT ![DbIndex] = r]]
<1>1. DbIndex \in DOMAIN Records /\ Records[DbIndex] = Selected
  BY DEF IndexNamesSelection, Command, Records
<1>2. DbIndex # Len(db[curr]) + 1
  BY <1>1, Types DEF Records
<1> QED
  BY <1>1, <1>2 DEF WriteBack, WriteUpdated, Put

\* The number a copy lists its message under is the next one.
LEMMA CopyFileFollows ==
  ASSUME TypeOK, pc = "copy_file", CopyFollows, CopyFile
  PROVE  CopyFollows' /\ job' = [job EXCEPT !.num = next[job.dest]]
<1>1. /\ pc' = "copy_db" /\ job' = [job EXCEPT !.num = next[job.dest]]
      /\ UNCHANGED <<db, next, view>>
  BY DEF CopyFile
<1>2. /\ job'.num = next[job.dest] /\ job'.rec = job.rec /\ job'.idx = job.idx
      /\ job'.dest = job.dest
  BY <1>1, Types DEF CopyJobs
<1> QED
  BY <1>1, <1>2 DEF CopyFollows, Records, view

\* Listing the copy leaves the record it was made from in its place, also when
\* it is listed in the same mailbox.
LEMMA CopyDbFollows ==
  ASSUME TypeOK, CopyFollows, CopyDb
  PROVE  /\ CopyFollows'
         /\ Records' = IF job.dest = curr
                       THEN Append(Records, [job.rec EXCEPT !.num = job.num]) ELSE Records
         /\ [job.rec EXCEPT !.num = job.num] \in Rec
<1> DEFINE r == [job.rec EXCEPT !.num = job.num]
<1>1. /\ pc = "copy_db" /\ pc' = "copy_next"
      /\ db' = [db EXCEPT ![job.dest] = Append(@, r)]
      /\ UNCHANGED <<next, curr, job>>
  BY DEF CopyDb, view
<1>2. r \in Rec
  BY <1>1, Types DEF Rec
<1> HIDE DEF r
<1>3. Records' = IF job.dest = curr THEN Append(Records, r) ELSE Records
  BY <1>1, Types DEF Records
<1>4. \A i \in DOMAIN Records : i \in DOMAIN Records' /\ Records'[i] = Records[i]
  BY <1>2, <1>3, Types, AppendProperties
<1>5. CopyFollows'
  BY <1>1, <1>4 DEF CopyFollows
<1> QED
  BY <1>2, <1>3, <1>5 DEF r

\* The last write of a copy is to the record it was made from, which keeps its
\* number and its message.
LEMMA CopyMarkRecord ==
  ASSUME TypeOK, CopyFollows, CopyMark
  PROVE  \E r \in Rec :
           /\ r.num = Records[job.idx].num /\ r.hdr = Records[job.idx].hdr
           /\ r.status = IF job.del THEN "D" ELSE Records[job.idx].status
           /\ r.tag = FALSE
           /\ db' = [db EXCEPT ![curr] = [@ EXCEPT ![job.idx] = r]]
           /\ Records' = [Records EXCEPT ![job.idx] = r]
           /\ page' = IF job.tagged THEN page ELSE [page EXCEPT ![sel] = r]
<1> DEFINE s == IF job.del THEN "D" ELSE job.rec.status
           r == [job.rec EXCEPT !.tag = FALSE, !.status = s]
<1>1. /\ pc = "copy_mark" /\ Return /\ WriteUpdated(job.idx, r)
      /\ page' = IF job.tagged THEN page ELSE [page EXCEPT ![sel] = r]
      /\ curr' = curr
  BY DEF CopyMark
<1>2. job.rec \in Rec /\ s \in Status
  BY <1>1, Types DEF Rec
<1> HIDE DEF s
<1>3. /\ r \in Rec /\ r.num = job.rec.num /\ r.hdr = job.rec.hdr
      /\ r.status = s /\ r.tag = FALSE
  BY <1>2 DEF Rec
<1> HIDE DEF r
<1>4. db' = [db EXCEPT ![curr] = [@ EXCEPT ![job.idx] = r]]
  <2>1. job.idx # Len(db[curr]) + 1
    BY Types DEF CopyFollows, Records
  <2> QED
    BY <1>1, <2>1 DEF WriteUpdated, Put
<1>5. Records' = [Records EXCEPT ![job.idx] = r]
  BY <1>1, <1>4, Types DEF Records
<1>6. s = IF job.del THEN "D" ELSE Records[job.idx].status
  BY DEF CopyFollows, s
<1> QED
  BY <1>1, <1>3, <1>4, <1>5, <1>6 DEF CopyFollows

\* A scan takes up a tagged record.
LEMMA ScanFollows ==
  ASSUME TypeOK, ScanRecord
  PROVE  /\ pc = "scan" /\ UNCHANGED <<disk, view>>
         /\ job.count + 1 \in DOMAIN Records
         /\ job'.count = job.count + 1 /\ job'.dest = job.dest
         /\ job'.tagged = job.tagged
         /\ IF Records[job.count + 1].tag
            THEN pc' = "copy_file" /\ CopyFollows' /\ job'.idx = job.count + 1
            ELSE pc' = "scan"
<1> DEFINE i == job.count + 1
<1>1. /\ pc = "scan" /\ UNCHANGED <<disk, view>> /\ job \in CopyJobs
      /\ i \in DOMAIN Records /\ Records[i] \in Rec
  <2>1. /\ pc = "scan" /\ UNCHANGED <<disk, view>> /\ job \in CopyJobs /\ job.count \in Nat
        /\ ~Wraps(job.count) /\ ~PastEnd(job.count) /\ Records \in Seq(Rec)
    BY Types DEF ScanRecord
  <2>2. i \in DOMAIN Records
    BY <2>1, ScanRange
  <2> QED
    BY <2>1, <2>2, RecOfSeq
<1>2. CASE Records[i].tag
  <2>1. /\ job'.count = i /\ job'.idx = i /\ job'.dest = job.dest
        /\ job'.tagged = job.tagged /\ pc' = "copy_file"
        /\ job'.rec = [Records[i] EXCEPT !.tag = FALSE]
    BY <1>1, <1>2 DEF ScanRecord, CopyJobs
  <2> HIDE DEF i
  <2>2. /\ job'.rec.num = Records[i].num /\ job'.rec.hdr = Records[i].hdr
        /\ job'.rec.status = Records[i].status
    BY <1>1, <2>1 DEF Rec
  <2>3. CopyFollows'
    BY <1>1, <2>1, <2>2 DEF CopyFollows, Records, disk, view
  <2> QED
    BY <1>1, <1>2, <2>1, <2>3 DEF i
<1>3. CASE ~Records[i].tag
  <2>1. /\ job'.count = i /\ job'.dest = job.dest
        /\ job'.tagged = job.tagged /\ pc' = "scan"
    BY <1>1, <1>3 DEF ScanRecord, CopyJobs
  <2> QED
    BY <1>1, <1>3, <2>1
<1> QED
  BY <1>2, <1>3
-----------------------------------------------------------------------------
(* Oldest message first: mailboxes of any number of pages, and resets      *)

\* A read that straddles two records only counts on.
LEMMA StraddleFollows ==
  ASSUME TypeOK, ScanStraddle
  PROVE  /\ pc = "scan" /\ pc' = "scan" /\ UNCHANGED <<disk, view>>
         /\ job'.dest = job.dest /\ job'.tagged = job.tagged
         /\ Wraps(job.count) /\ job.count \in Nat
         /\ job'.count \in Nat /\ job'.count <= job.count + 1
<1>1. /\ pc = "scan" /\ UNCHANGED <<disk, pc, view>> /\ job \in CopyJobs
      /\ Wraps(job.count) /\ job' = [job EXCEPT !.count = (job.count + 1) % Width]
  BY Types DEF ScanStraddle
<1>2. /\ job'.dest = job.dest /\ job'.tagged = job.tagged /\ job.count \in Nat
      /\ job'.count = (job.count + 1) % Width
  BY <1>1 DEF CopyJobs
<1>3. /\ (job.count + 1) % Width \in Nat
      /\ (job.count + 1) % Width <= job.count + 1
  BY <1>2, MailboxAssumption
<1> QED
  BY <1>1, <1>2, <1>3

\* Messages are listed oldest first, and no write fails for a full disk.
Forward == Orders = {FALSE} /\ "full" \notin Faults

\* The page shows the records it was read from, so the index of the highlighted
\* line is that of its record.
LEMMA ForwardIndex ==
  ASSUME ForwardInv
  PROVE  /\ IndexOK
         /\ Command => sel \in DOMAIN page /\ DbIndex = first + sel - 1
<1>1. TypeOK /\ rev = FALSE
  BY DEF ForwardInv
<1>2. ASSUME pc = "menu", HasSelection
      PROVE  /\ sel \in DOMAIN page /\ DbIndex = first + sel - 1
             /\ DbIndex \in DOMAIN Records /\ Records[DbIndex] = Selected
  <2>1. page \in Seq(Rec) /\ sel \in 1..Len(page)
    BY <1>1, <1>2, Types DEF HasSelection
  <2>2. sel \in DOMAIN page /\ DbIndex = first + sel - 1
    BY <1>1, <2>1 DEF DbIndex
  <2>3. Mirrors(page, first, Records)
    BY <1>2 DEF ForwardInv
  <2> QED
    BY <2>2, <2>3 DEF Mirrors, Selected
<1>3. IndexNamesSelection
  BY <1>2 DEF IndexNamesSelection, Records
<1>4. (pc = "scan" => job.tagged) /\ (pc \in CopyPc => CopyFollows)
  BY DEF ForwardInv
<1> QED
  BY <1>1, <1>2, <1>3, <1>4 DEF IndexOK, Command

\* go_to_next_message leaves a page that shows the mailbox it was given.
LEMMA GoToNextSafe ==
  ASSUME TypeOK, pc = "menu", rev = FALSE,
         NEW p \in Seq(Rec), NEW t, NEW d \in Seq(Rec),
         Mirrors(p, first, d), GoToNext(p, t, d)
  PROVE  /\ pc' \in {"menu", "off"}
         /\ rev' = FALSE
         /\ pc' = "menu" => curr' = curr /\ Mirrors(page', first', d)
<1>1. CASE Off
  BY <1>1 DEF Off
<1>2. CASE page' = p /\ first' = first /\ UNCHANGED <<pc, curr, rev, job>>
  BY <1>2
<1>3. CASE /\ first' = first + PageSize
           /\ Load(d, first', rev, t)
           /\ UNCHANGED <<pc, curr, rev, job>>
  <2>1. first' \in Nat \ {0}
    BY <1>3, MailboxAssumption DEF TypeOK, ViewOK
  <2> QED
    BY <1>3, <2>1, LoadMirrors
<1> QED
  BY <1>1, <1>2, <1>3 DEF GoToNext

\* A command writes the record of the highlighted line, and the page with its
\* line changed shows the mailbox with its record changed.
LEMMA CommandForward ==
  ASSUME ForwardInv, Command, NEW r \in Rec, WriteBack(r)
  PROVE  /\ db'[curr] \in Seq(Rec)
         /\ [page EXCEPT ![sel] = r] \in Seq(Rec)
         /\ Mirrors([page EXCEPT ![sel] = r], first, db'[curr])
         /\ \A m \in Mailboxes : db[m] = << >> => db'[m] = << >>
<1>0. TypeOK
  BY DEF ForwardInv
<1>1. /\ curr \in Mailboxes /\ db \in [Mailboxes -> Seq(Rec)] /\ Records \in Seq(Rec)
      /\ page \in Seq(Rec) /\ first \in Nat \ {0}
  BY <1>0, Types
<1>2. /\ sel \in DOMAIN page /\ DbIndex = first + sel - 1
      /\ DbIndex \in DOMAIN Records
      /\ db' = [db EXCEPT ![curr] = [@ EXCEPT ![DbIndex] = r]]
  BY <1>0, ForwardIndex, WriteBackRecord DEF IndexOK
<1>3. db'[curr] = [Records EXCEPT ![first + sel - 1] = r]
  BY <1>1, <1>2 DEF Records
<1>4. Mirrors(page, first, Records)
  BY DEF ForwardInv, Command
<1>5. Mirrors([page EXCEPT ![sel] = r], first, db'[curr])
  <2>1. Mirrors([page EXCEPT ![sel] = r], first, [Records EXCEPT ![first + sel - 1] = r])
    BY <1>1, <1>2, <1>4, MirrorsWrite, Zenon
  <2> QED
    BY <2>1, <1>3, Zenon
<1>6. db'[curr] \in Seq(Rec)
  <2>1. [Records EXCEPT ![DbIndex] = r] \in Seq(Rec)
    BY <1>1, <1>2, ExceptSeq
  <2> QED
    BY <1>2, <1>3, <2>1
<1>7. [page EXCEPT ![sel] = r] \in Seq(Rec)
  BY <1>1, <1>2, ExceptSeq
<1>8. \A m \in Mailboxes : db[m] = << >> => m # curr
  <2>1. DOMAIN << >> = {}
    OBVIOUS
  <2> QED
    BY <1>2, <2>1 DEF Records
<1>9. \A m \in Mailboxes : m # curr => db'[m] = db[m]
  BY <1>1, <1>2
<1> QED
  BY <1>5, <1>6, <1>7, <1>8, <1>9

\* Every key of the summary screen.
LEMMA KeyForward ==
  ASSUME ForwardInv, Key, Orders = {FALSE}
  PROVE  ForwardInv'
<1>0. /\ TypeOK /\ rev = FALSE /\ prefs.rev = FALSE /\ NewEmpty
      /\ pc = "menu" => Mirrors(page, first, Records)
  BY DEF ForwardInv
<1>d. /\ curr \in Mailboxes /\ db \in [Mailboxes -> Seq(Rec)] /\ Records \in Seq(Rec)
      /\ page \in Seq(Rec) /\ first \in Nat \ {0}
      /\ \A m \in Mailboxes : next[m] \in Nat
  BY <1>0, Types
<1>t. TypeOK'
  BY <1>0, KeyType
\* Most keys leave the program in the summary screen or leave it altogether.
<1>q. ASSUME pc' \in {"menu", "off"}, rev' = FALSE, prefs'.rev = FALSE,
             \A m \in Mailboxes : db[m] = << >> => db'[m] = << >>, next' = next,
             pc' = "menu" => Mirrors(page', first', Records')
      PROVE  ForwardInv'
  <2>1. pc' \notin CopyPc /\ pc' \notin PurgePc /\ pc' # "scan"
    BY <1>q
  <2>2. (rev = FALSE /\ prefs.rev = FALSE)'
    BY <1>q
  <2>3. NewEmpty'
    BY <1>0, <1>q DEF NewEmpty
  <2> QED
    BY <1>t, <1>q, <2>1, <2>2, <2>3 DEF ForwardInv
<1>1. CASE Up
  <2>1. pc = "menu" /\ UNCHANGED <<disk, pc, curr, rev, job>>
    BY <1>1 DEF Up
  <2>2. Mirrors(page', first', Records)
    <3>1. CASE UNCHANGED <<first, page>>
      BY <3>1, <2>1, <1>0
    <3>2. CASE first > PageSize /\ first' = first - PageSize
               /\ Load(Records, first', rev, tot)
      <4>1. first' \in Nat \ {0}
        BY <3>2, <1>d, MailboxAssumption
      <4> QED
        BY <3>2, <4>1, <1>0, <1>d, LoadMirrors
    <3> QED
      BY <1>1, <3>1, <3>2 DEF Up, Records
  <2> QED
    BY <1>0, <2>1, <2>2, <1>q DEF disk, Records
<1>2. CASE Down
  <2>1. pc = "menu" /\ UNCHANGED disk /\ GoToNext(page, tot, Records)
    BY <1>2 DEF Down, Records
  <2>2. /\ pc' \in {"menu", "off"} /\ rev' = FALSE
        /\ pc' = "menu" => curr' = curr /\ Mirrors(page', first', Records)
    BY <2>1, <1>0, <1>d, GoToNextSafe
  <2> QED
    BY <1>0, <2>1, <2>2, <1>q DEF disk, Records
<1>3. CASE SeekFatal
  BY <1>0, <1>3, <1>q DEF SeekFatal, Off, disk
<1>4. CASE Read
  <2> DEFINE r == [Selected EXCEPT !.status = "R"]
  <2>1. r \in Rec
    BY <1>0, <1>d, <1>4, SelectedType, RecKeeps, "R" \in Status DEF Read
  <2>2. /\ Command /\ WriteBack(r) /\ pc' = "menu"
        /\ UNCHANGED <<listed, files, next, prefs, pc, curr, rev, first, sel, job>>
    BY <1>4 DEF Read, Command
  <2>3. \E t : Load(db'[curr], first, rev, t)
    BY <1>4 DEF Read
  <2> HIDE DEF r
  <2>4. /\ db'[curr] \in Seq(Rec)
        /\ \A m \in Mailboxes : db[m] = << >> => db'[m] = << >>
    BY <2>1, <2>2, CommandForward
  <2>5. Mirrors(page', first, db'[curr])
    BY <1>0, <1>d, <2>3, <2>4, LoadMirrors
  <2> QED
    BY <1>0, <2>2, <2>4, <2>5, <1>q DEF Records
<1>5. ASSUME NEW r \in Rec, NEW t, Command, WriteBack(r),
             GoToNext([page EXCEPT ![sel] = r], t, db'[curr]),
             UNCHANGED <<listed, files, next, prefs>>
      PROVE  ForwardInv'
  <2>1. pc = "menu"
    BY <1>5 DEF Command
  <2>2. /\ db'[curr] \in Seq(Rec)
        /\ [page EXCEPT ![sel] = r] \in Seq(Rec)
        /\ Mirrors([page EXCEPT ![sel] = r], first, db'[curr])
        /\ \A m \in Mailboxes : db[m] = << >> => db'[m] = << >>
    BY <1>5, CommandForward
  <2>3. /\ pc' \in {"menu", "off"} /\ rev' = FALSE
        /\ pc' = "menu" => curr' = curr /\ Mirrors(page', first', db'[curr])
    BY <1>0, <1>5, <2>1, <2>2, GoToNextSafe
  <2> QED
    BY <1>0, <1>5, <2>2, <2>3, <1>q DEF Records
<1>6. CASE Tag
  <2> DEFINE r == [Selected EXCEPT !.tag = ~@]
  <2>0. Selected \in Rec
    BY <1>0, <1>d, <1>6, SelectedType DEF Tag
  <2>1. r \in Rec
    BY <2>0 DEF Rec
  <2>2. /\ Command /\ WriteBack(r) /\ UNCHANGED <<listed, files, next, prefs>>
        /\ \E t : GoToNext([page EXCEPT ![sel] = r], t, db'[curr])
    BY <1>6 DEF Tag
  <2> HIDE DEF r
  <2> QED
    BY <2>1, <2>2, <1>5
<1>7. ASSUME NEW s \in {"D", "R"}, SetStatus(s) PROVE ForwardInv'
  <2> DEFINE r == [Selected EXCEPT !.status = s]
  <2>1. r \in Rec
    BY <1>0, <1>d, <1>7, SelectedType, RecKeeps, s \in Status DEF SetStatus
  <2>2. /\ Command /\ WriteBack(r) /\ UNCHANGED <<listed, files, next, prefs>>
        /\ GoToNext([page EXCEPT ![sel] = r], tot, db'[curr])
    BY <1>7 DEF SetStatus
  <2> HIDE DEF r
  <2> QED
    BY <2>1, <2>2, <1>5
<1>8. CASE Reply
  <2> DEFINE r == [Selected EXCEPT !.tag = FALSE]
  <2>1. r \in Rec
    BY <1>0, <1>d, <1>8, SelectedType, RecKeeps, "R" \in Status DEF Reply
  <2>2. /\ Command /\ WriteBack(r) /\ pc' = "off" /\ rev' = FALSE /\ prefs' = Save
        /\ UNCHANGED <<listed, files, next>>
    BY <1>8 DEF Reply, Off
  <2> HIDE DEF r
  <2>3. \A m \in Mailboxes : db[m] = << >> => db'[m] = << >>
    BY <2>1, <2>2, CommandForward
  <2> QED
    BY <1>0, <2>2, <2>3, <1>q DEF Save
<1>9. CASE Leave
  BY <1>0, <1>9, <1>q DEF Leave, Off, Save
<1>10. ASSUME NEW m \in Mailboxes, SwitchMailbox(m) PROVE ForwardInv'
  <2>1. /\ pc = "menu" /\ curr' \in Mailboxes /\ first' = 1 /\ rev' = FALSE
        /\ UNCHANGED <<disk, pc>>
        /\ \E t : Load(db[curr'], 1, FALSE, t)
    BY <1>0, <1>d, <1>10 DEF SwitchMailbox
  <2>2. Mirrors(page', 1, db[curr'])
    BY <1>d, <2>1, LoadMirrors, 1 \in Nat \ {0}
  <2> QED
    BY <1>0, <2>1, <2>2, <1>q DEF disk, Records
<1>11. ASSUME NEW r \in Orders, SetOrder(r) PROVE ForwardInv'
  <2>1. /\ pc = "menu" /\ curr' = curr /\ first' = 1 /\ rev' = FALSE
        /\ UNCHANGED <<disk, pc>>
        /\ \E t : Load(Records, 1, FALSE, t)
    BY <1>11 DEF SetOrder, Records
  <2>2. Mirrors(page', 1, Records)
    BY <1>d, <2>1, LoadMirrors, 1 \in Nat \ {0}
  <2> QED
    BY <1>0, <2>1, <2>2, <1>q DEF disk, Records
\* A mailbox that was never created has no records to show.
<1>12. ASSUME NEW m \in Mailboxes, NewMailbox(m) PROVE ForwardInv'
  <2>1. /\ pc = "menu" /\ pc' = "menu" /\ next[m] = 0
        /\ next' = [next EXCEPT ![m] = 1]
        /\ db' = [db EXCEPT ![m] = << >>]
        /\ UNCHANGED <<files, prefs, view>>
    BY <1>12 DEF NewMailbox
  <2>2. db' = db
    BY <1>0, <1>d, <2>1 DEF NewEmpty
  <2>3. NewEmpty'
    BY <1>0, <1>d, <2>1, <2>2 DEF NewEmpty, TypeOK, DiskOK
  <2> QED
    BY <1>0, <1>t, <2>1, <2>2, <2>3 DEF ForwardInv, view, Records
<1>13. ASSUME NEW m \in Mailboxes, NEW del \in BOOLEAN, StartCopy(m, del)
       PROVE  ForwardInv'
  <2>1. /\ Command /\ pc = "menu"
        /\ pc' \in {"copy_file", "scan"}
        /\ UNCHANGED <<disk, view>>
        /\ pc' = "copy_file" => job' = CopyJob(Selected, DbIndex, m, del, FALSE)
        /\ pc' = "scan" => job'.tagged
    BY <1>13 DEF StartCopy, Command, CopyJob
  <2>2. /\ sel \in DOMAIN page /\ DbIndex = first + sel - 1
        /\ DbIndex \in DOMAIN Records /\ Records[DbIndex] = Selected
    BY <2>1, ForwardIndex DEF IndexOK, IndexNamesSelection, Command, Records
  <2>3. pc' = "copy_file" => CopyFollows'
    BY <2>1, <2>2 DEF CopyFollows, CopyJob, Records, disk, view
  <2>4. pc' = "copy_file" /\ ~job'.tagged =>
          /\ Mirrors(page', first', Records')
          /\ sel' \in DOMAIN page' /\ job'.idx = first' + sel' - 1
    BY <1>0, <2>1, <2>2 DEF CopyJob, Records, disk, view
  <2>5. (rev = FALSE /\ prefs.rev = FALSE /\ NewEmpty)'
    BY <1>0, <2>1 DEF NewEmpty, disk, view
  <2> QED
    BY <1>t, <2>1, <2>3, <2>4, <2>5 DEF ForwardInv
<1>14. CASE StartPurge
  <2>1. Command /\ pc' = "purge" /\ UNCHANGED <<disk, view>>
    BY <1>14 DEF StartPurge
  <2>2. DbIndex \in DOMAIN Records
    BY <2>1, ForwardIndex DEF IndexOK, IndexNamesSelection, Command, Records
  <2>3. next[curr] # 0
    BY <1>0, <1>d, <2>2 DEF NewEmpty, Records
  <2> QED
    BY <1>0, <1>t, <2>1, <2>3 DEF ForwardInv, NewEmpty, disk, view
<1>15. ASSUME NEW k \in Keys, Press(k) PROVE ForwardInv'
  <2>1. CASE Read \/ Tag \/ Reply \/ StartPurge \/ Leave
    BY <2>1, <1>4, <1>6, <1>8, <1>9, <1>14
  <2>2. CASE Delete \/ Undelete
    BY <2>2, <1>7 DEF Delete, Undelete
  <2>3. CASE \E m \in Mailboxes : \E del \in BOOLEAN : StartCopy(m, del)
    BY <2>3, <1>13
  <2>4. CASE \E m \in Mailboxes : NewMailbox(m) \/ SwitchMailbox(m)
    BY <2>4, <1>10, <1>12
  <2> QED
    BY <1>15, <2>1, <2>2, <2>3, <2>4 DEF Press
<1> QED
  BY <1>1, <1>2, <1>3, <1>11, <1>15 DEF Key
\* Starting the program, and what happens to the mailboxes while it is left.
LEMMA OutsideForward ==
  ASSUME ForwardInv, Outside
  PROVE  ForwardInv'
<1>0. /\ TypeOK /\ rev = FALSE /\ prefs.rev = FALSE /\ NewEmpty
  BY DEF ForwardInv
<1>d. /\ db \in [Mailboxes -> Seq(Rec)] /\ Inbox \in Mailboxes
      /\ next \in [Mailboxes -> 0..(MaxNum + 1)]
  BY <1>0, Types
<1>t. TypeOK'
  BY <1>0, OutsideType
<1>1. CASE Boot
  <2>1. /\ pc = "off" /\ pc' = "menu" /\ rev' = FALSE /\ UNCHANGED disk
        /\ \E t : Load(db[curr'], first', FALSE, t)
    BY <1>0, <1>1 DEF Boot
  <2>2. first' \in Nat \ {0} /\ curr' \in Mailboxes
    BY <1>t DEF TypeOK, ViewOK
  <2>3. Mirrors(page', first', db[curr'])
    BY <1>d, <2>1, <2>2, LoadMirrors
  <2> QED
    BY <1>0, <1>t, <2>1, <2>3 DEF ForwardInv, NewEmpty, Records, disk
<1>2. CASE DeletePrefs
  BY <1>0, <1>t, <1>2 DEF DeletePrefs, DefaultPrefs, ForwardInv, NewEmpty, view
<1>3. ASSUME NEW x \in Msgs, Import(x) PROVE ForwardInv'
  <2>1. /\ pc = "off" /\ pc' = "off" /\ next[Inbox] \in Nums
        /\ next' = [next EXCEPT ![Inbox] = next[Inbox] + 1]
        /\ UNCHANGED <<prefs, rev>>
        /\ \A m \in Mailboxes : m # Inbox => db'[m] = db[m]
    BY <1>d, <1>3 DEF Import, view
  <2>2. next'[Inbox] # 0 /\ \A m \in Mailboxes : m # Inbox => next'[m] = next[m]
    BY <1>d, <2>1 DEF Nums
  <2>3. NewEmpty'
    BY <1>0, <2>1, <2>2 DEF NewEmpty
  <2> QED
    BY <1>0, <1>t, <2>1, <2>3 DEF ForwardInv
<1> QED
  BY <1>1, <1>2, <1>3 DEF Outside

\* A copy or a move, tagged messages or one, into any mailbox.
LEMMA CopyStepForward ==
  ASSUME ForwardInv, CopyStep, "full" \notin Faults
  PROVE  ForwardInv'
<1>0. /\ TypeOK /\ rev = FALSE /\ prefs.rev = FALSE /\ NewEmpty
      /\ pc = "scan" => job.tagged
      /\ pc \in CopyPc =>
           /\ CopyFollows
           /\ ~job.tagged => /\ Mirrors(page, first, Records) /\ sel \in DOMAIN page
                             /\ job.idx = first + sel - 1
  BY DEF ForwardInv
<1>d. /\ curr \in Mailboxes /\ db \in [Mailboxes -> Seq(Rec)] /\ Records \in Seq(Rec)
      /\ next \in [Mailboxes -> 0..(MaxNum + 1)]
      /\ page \in Seq(Rec) /\ first \in Nat \ {0}
      /\ pc \in CopyPc \cup {"scan"} => job \in CopyJobs /\ job.dest \in Mailboxes
      /\ pc \in CopyPc => job.rec \in Rec
      /\ pc \in CopyPc \ {"copy_file"} => job.num \in Nums
  BY <1>0, Types
<1>t. TypeOK'
  BY <1>0, CopyStepType
\* Back to the scan, or to a page that still shows the mailbox.
<1>r. ASSUME Return, pc \in CopyPc, NewEmpty',
             UNCHANGED <<prefs, curr, rev, first>>,
             ~job.tagged => Mirrors(page', first, Records')
      PROVE  ForwardInv'
  <2>1. /\ pc' \in {"scan", "menu"}
        /\ pc' = "menu" => ~job.tagged
        /\ pc' = "scan" => job.tagged /\ job' = job
    BY <1>r DEF Return
  <2>2. (rev = FALSE /\ prefs.rev = FALSE)'
    BY <1>0, <1>r
  <2>3. pc' \notin CopyPc /\ pc' \notin PurgePc
    BY <2>1
  <2> QED
    BY <1>t, <1>r, <2>1, <2>2, <2>3 DEF ForwardInv
<1>1. CASE ScanEnd
  <2>1. /\ pc = "scan" /\ pc' = "menu" /\ UNCHANGED <<disk, curr, rev, first>>
        /\ \E t : Load(Records, first, FALSE, t)
    BY <1>0, <1>1 DEF ScanEnd
  <2>2. Mirrors(page', first, Records)
    BY <1>d, <2>1, LoadMirrors
  <2> QED
    BY <1>0, <1>t, <2>1, <2>2 DEF ForwardInv, NewEmpty, Records, disk
<1>2. CASE ScanRecord
  <2>1. /\ pc = "scan" /\ UNCHANGED <<disk, view>> /\ job'.tagged = job.tagged
        /\ pc' \in {"scan", "copy_file"}
        /\ pc' = "copy_file" => CopyFollows'
    BY <1>0, <1>2, ScanFollows
  <2>2. (rev = FALSE /\ prefs.rev = FALSE /\ NewEmpty)'
    BY <1>0, <2>1 DEF NewEmpty, disk, view
  <2>3. job'.tagged
    BY <1>0, <2>1
  <2> QED
    BY <1>t, <2>1, <2>2, <2>3 DEF ForwardInv
<1>s. CASE ScanStraddle
  <2>1. /\ pc = "scan" /\ pc' = "scan" /\ UNCHANGED <<disk, view>>
        /\ job'.tagged = job.tagged
    BY <1>0, <1>s, StraddleFollows
  <2> QED
    BY <1>0, <1>t, <2>1 DEF ForwardInv, NewEmpty, disk, view
<1>3. CASE CopyRefused
  <2>1. pc = "copy_file" /\ Return /\ UNCHANGED <<disk, view>>
    BY <1>3 DEF CopyRefused
  <2>2. NewEmpty'
    BY <1>0, <2>1 DEF NewEmpty, disk
  <2> QED
    BY <1>0, <2>1, <2>2, <1>r DEF disk, view, Records
<1>4. CASE CopyFile
  <2>1. /\ pc = "copy_file" /\ pc' = "copy_db" /\ UNCHANGED <<db, next, prefs, view>>
    BY <1>4 DEF CopyFile, CopyOpens
  <2>2. CopyFollows' /\ job' = [job EXCEPT !.num = next[job.dest]]
    BY <1>0, <1>4, <2>1, CopyFileFollows
  <2>3. job'.idx = job.idx /\ job'.tagged = job.tagged
    BY <1>d, <2>1, <2>2 DEF CopyJobs
  <2> QED
    BY <1>0, <1>t, <2>1, <2>2, <2>3 DEF ForwardInv, NewEmpty, Records, view
<1>5. CASE CopyDb
  <2> DEFINE r == [job.rec EXCEPT !.num = job.num]
  <2>1. /\ pc = "copy_db" /\ pc' = "copy_next" /\ UNCHANGED <<next, prefs, view, job>>
        /\ db' = [db EXCEPT ![job.dest] = Append(@, r)]
    BY <1>5 DEF CopyDb
  <2>2. /\ CopyFollows' /\ r \in Rec
        /\ Records' = IF job.dest = curr THEN Append(Records, r) ELSE Records
    BY <1>0, <1>5, <2>1, CopyDbFollows
  <2> HIDE DEF r
  <2>3. Mirrors(page, first, Records) => Mirrors(page, first, Records')
    BY <1>d, <2>2, MirrorsAppend
  <2>4. NewEmpty'
    <3>1. next[job.dest] # 0
      BY <1>0, <1>d, <2>1 DEF CopyFollows, Nums
    <3>2. \A m \in Mailboxes : m # job.dest => db'[m] = db[m]
      BY <1>d, <2>1
    <3> QED
      BY <1>0, <2>1, <3>1, <3>2 DEF NewEmpty
  <2> QED
    BY <1>0, <1>t, <2>1, <2>2, <2>3, <2>4 DEF ForwardInv, view
<1>6. CASE CopyNext
  <2>1. /\ pc = "copy_next" /\ pc' = "copy_mark"
        /\ next' = [next EXCEPT ![job.dest] = job.num + 1]
        /\ UNCHANGED <<db, files, prefs, view, job>>
    BY <1>6 DEF CopyNext
  <2>2. CopyFollows'
    BY <1>0, <2>1 DEF CopyFollows, Records, view
  <2>3. NewEmpty'
    <3>1. \A m \in Mailboxes : next'[m] = 0 => next[m] = 0
      BY <1>d, <2>1 DEF Nums
    <3> QED
      BY <1>0, <2>1, <3>1 DEF NewEmpty
  <2> QED
    BY <1>0, <1>t, <2>1, <2>2, <2>3 DEF ForwardInv, Records, view
<1>7. CASE CopyMark
  <2>1. /\ pc = "copy_mark" /\ Return
        /\ UNCHANGED <<files, next, prefs, curr, rev, first>>
    BY <1>7 DEF CopyMark
  <2>2. PICK r \in Rec :
          /\ db' = [db EXCEPT ![curr] = [@ EXCEPT ![job.idx] = r]]
          /\ Records' = [Records EXCEPT ![job.idx] = r]
          /\ page' = IF job.tagged THEN page ELSE [page EXCEPT ![sel] = r]
    BY <1>0, <1>7, <2>1, CopyMarkRecord
  <2>3. ASSUME ~job.tagged PROVE Mirrors(page', first, Records')
    <3>1. Mirrors(page, first, Records) /\ sel \in DOMAIN page /\ job.idx = first + sel - 1
      BY <1>0, <2>1, <2>3
    <3>2. /\ Records' = [Records EXCEPT ![first + sel - 1] = r]
          /\ page' = [page EXCEPT ![sel] = r]
      BY <2>2, <2>3, <3>1
    <3>3. Mirrors([page EXCEPT ![sel] = r], first, [Records EXCEPT ![first + sel - 1] = r])
      BY <1>d, <3>1, MirrorsWrite, Zenon
    <3> QED
      BY <3>2, <3>3, Zenon
  <2>4. NewEmpty'
    <3>1. job.idx \in DOMAIN Records
      BY <1>0, <2>1 DEF CopyFollows
    <3>2. \A m \in Mailboxes : db[m] = << >> => m # curr
      BY <3>1 DEF Records
    <3>3. \A m \in Mailboxes : m # curr => db'[m] = db[m]
      BY <1>d, <2>2
    <3> QED
      BY <1>0, <2>1, <3>2, <3>3 DEF NewEmpty
  <2> QED
    BY <2>1, <2>3, <2>4, <1>r
<1>8. CASE CopyMarkFatal
  BY <1>0, <1>t, <1>8 DEF CopyMarkFatal, Off, ForwardInv, NewEmpty, disk
<1> QED
  BY <1>1, <1>2, <1>s, <1>3, <1>4, <1>5, <1>6, <1>7, <1>8 DEF CopyStep, CopyDbFull, CopyFileFull

\* A purge, which shows the mailbox again from its first message.
LEMMA PurgeStepForward ==
  ASSUME ForwardInv, PurgeStep, "full" \notin Faults
  PROVE  ForwardInv'
<1>0. /\ TypeOK /\ rev = FALSE /\ prefs.rev = FALSE /\ NewEmpty
  BY DEF ForwardInv
<1>d. /\ curr \in Mailboxes /\ db \in [Mailboxes -> Seq(Rec)]
      /\ pc \in PurgePc => job.kept \in Seq(Rec)
  BY <1>0, Types
<1>t. TypeOK'
  BY <1>0, PurgeStepType
<1>c. next[curr] # 0
  BY DEF ForwardInv, PurgeStep, PurgeRecord, PurgeUnlink, PurgeRename, PurgeFull
<1>1. CASE PurgeRecord
  BY <1>0, <1>c, <1>t, <1>1 DEF PurgeRecord, ForwardInv, NewEmpty, view
<1>2. CASE PurgeUnlink
  <2>1. /\ pc' = "purge_rename" /\ UNCHANGED <<next, prefs, view>>
        /\ db' = [db EXCEPT ![curr] = << >>]
    BY <1>2 DEF PurgeUnlink
  <2>2. NewEmpty'
    BY <1>0, <1>d, <2>1 DEF NewEmpty
  <2> QED
    BY <1>0, <1>c, <1>t, <2>1, <2>2 DEF ForwardInv, view
<1>3. CASE PurgeRename
  <2>1. /\ pc = "purge_rename" /\ pc' = "menu" /\ first' = 1 /\ rev' = FALSE
        /\ db' = [db EXCEPT ![curr] = job.kept]
        /\ UNCHANGED <<files, next, prefs, curr>>
        /\ \E t : Load(job.kept, 1, FALSE, t)
    BY <1>0, <1>3 DEF PurgeRename, AfterPurge
  <2>2. Mirrors(page', 1, job.kept)
    BY <1>d, <2>1, LoadMirrors, 1 \in Nat \ {0}
  <2>3. Records' = job.kept
    BY <1>d, <2>1 DEF Records
  <2>4. NewEmpty'
    <3>1. \A m \in Mailboxes : m # curr => db'[m] = db[m]
      BY <1>d, <2>1
    <3> QED
      BY <1>0, <1>c, <2>1, <3>1 DEF NewEmpty
  <2> QED
    BY <1>0, <1>t, <2>1, <2>2, <2>3, <2>4 DEF ForwardInv
<1> QED
  BY <1>1, <1>2, <1>3 DEF PurgeStep, PurgeFull

\* Every step, and a reset at any moment, keeps it.
LEMMA ForwardStep ==
  ASSUME Forward, ForwardInv, [Next]_vars
  PROVE  ForwardInv'
<1>1. CASE Key
  BY <1>1, KeyForward DEF Forward
<1>2. CASE Outside
  BY <1>2, OutsideForward
<1>3. CASE CopyStep
  BY <1>3, CopyStepForward DEF Forward
<1>4. CASE PurgeStep
  BY <1>4, PurgeStepForward DEF Forward
<1>5. CASE Crash
  <2>1. TypeOK'
    BY TypeStep DEF ForwardInv
  <2> QED
    BY <1>5, <2>1 DEF Crash, Off, ForwardInv, NewEmpty, disk
<1>6. CASE UNCHANGED vars
  <2>1. TypeOK'
    BY TypeStep DEF ForwardInv
  <2> QED
    BY <1>6, <2>1 DEF vars, disk, view, ForwardInv, NewEmpty, CopyFollows, Mirrors, Records
<1> QED
  BY <1>1, <1>2, <1>3, <1>4, <1>5, <1>6 DEF Next
-----------------------------------------------------------------------------
(* Mailboxes of one page, in either order                                  *)

\* The bound on the records of a mailbox is the length of the page; no copy
\* goes to the mailbox being viewed, whose counters it would leave behind.
OnePage == MaxNum <= PageSize /\ ~SelfCopy /\ Faults \subseteq {"crash_purge"}

Tagged(d) == {i \in DOMAIN d : d[i].tag}

\* A uint16_t holds every index and every count.
LEMMA FitsWidth ==
  ASSUME NEW n \in 0..MaxNum
  PROVE  n % Width = n
<1>1. Width \in Nat /\ n \in Nat /\ n < Width
  BY MailboxAssumption
<1> QED
  BY <1>1

\* The page is the whole mailbox, from the top or from the bottom.
LEMMA OneWindow ==
  ASSUME NEW d \in Seq(Rec), Len(d) <= PageSize, NEW r \in BOOLEAN
  PROVE  /\ Window(d, 1, r) \in Seq(Rec) /\ Len(Window(d, 1, r)) = Len(d)
         /\ \A i \in 1..Len(d) : Window(d, 1, r)[i] = d[IF r THEN Len(d) - i + 1 ELSE i]
<1>1. Shown(d, 1) = Len(d) /\ Len(d) \in Nat
  BY DEF Shown
<1>2. Min2(PageSize, Shown(d, 1)) = Len(d)
  BY <1>1, MailboxAssumption DEF Min2
<1>3. /\ DOMAIN Window(d, 1, r) = 1..Len(d)
      /\ \A i \in 1..Len(d) :
           Window(d, 1, r)[i] = IF r THEN d[Len(d) - 1 - i + 2] ELSE d[1 + i - 1]
  BY <1>2 DEF Window
<1>4. Window(d, 1, r) \in Seq(Rec)
  BY WindowType, 1 \in Nat \ {0}
<1>5. Len(Window(d, 1, r)) = Len(d)
  BY <1>1, <1>3, <1>4, LenProperties
<1>6. \A i \in 1..Len(d) : Len(d) - 1 - i + 2 = Len(d) - i + 1 /\ 1 + i - 1 = i
  BY <1>1
<1> QED
  BY <1>3, <1>4, <1>5, <1>6

\* Line s and its record change together.
LEMMA OneWrite ==
  ASSUME NEW d \in Seq(Rec), Len(d) <= PageSize, NEW r \in BOOLEAN,
         NEW s \in 1..Len(d), NEW x \in Rec, NEW k, k = IF r THEN Len(d) - s + 1 ELSE s
  PROVE  /\ k \in DOMAIN d
         /\ [d EXCEPT ![k] = x] \in Seq(Rec) /\ Len([d EXCEPT ![k] = x]) = Len(d)
         /\ [Window(d, 1, r) EXCEPT ![s] = x] = Window([d EXCEPT ![k] = x], 1, r)
<1> DEFINE e == [d EXCEPT ![k] = x]
           p == Window(d, 1, r)
           q == Window(e, 1, r)
<1>1. Len(d) \in Nat /\ DOMAIN d = 1..Len(d) /\ k \in 1..Len(d)
  BY LenProperties
<1>2. e \in Seq(Rec) /\ Len(e) = Len(d)
  BY <1>1, ExceptSeq
<1>3. /\ p \in Seq(Rec) /\ Len(p) = Len(d) /\ q \in Seq(Rec) /\ Len(q) = Len(d)
      /\ \A i \in 1..Len(d) : p[i] = d[IF r THEN Len(d) - i + 1 ELSE i]
      /\ \A i \in 1..Len(d) : q[i] = e[IF r THEN Len(d) - i + 1 ELSE i]
  <2> HIDE DEF e
  <2>1. /\ p \in Seq(Rec) /\ Len(p) = Len(d)
        /\ \A i \in 1..Len(d) : p[i] = d[IF r THEN Len(d) - i + 1 ELSE i]
    BY OneWindow, Zenon
  <2>2. /\ q \in Seq(Rec) /\ Len(q) = Len(e)
        /\ \A i \in 1..Len(e) : q[i] = e[IF r THEN Len(e) - i + 1 ELSE i]
    <3>1. Len(e) <= PageSize
      BY <1>2
    <3> QED
      BY <1>2, <3>1, OneWindow, Zenon
  <2> QED
    BY <1>2, <2>1, <2>2, Zenon
<1>4. /\ e[k] = x /\ \A j \in 1..Len(d) : j # k => e[j] = d[j]
  BY <1>1
<1> HIDE DEF e, p, q
<1>5. [p EXCEPT ![s] = x] \in Seq(Rec) /\ Len([p EXCEPT ![s] = x]) = Len(d)
  BY <1>3, ExceptSeq
<1>6. ASSUME NEW i \in 1..Len(d) PROVE [p EXCEPT ![s] = x][i] = q[i]
  <2> DEFINE l == IF r THEN Len(d) - i + 1 ELSE i
  <2>1. l \in 1..Len(d) /\ (l = k <=> i = s)
    BY <1>1
  <2>2. i \in DOMAIN p
    BY <1>3, LenProperties
  <2>3. [p EXCEPT ![s] = x][i] = IF i = s THEN x ELSE p[i]
    BY <2>2
  <2>4. p[i] = d[l] /\ q[i] = e[l]
    BY <1>3
  <2> HIDE DEF l
  <2> QED
    BY <1>4, <2>1, <2>3, <2>4
<1>7. [p EXCEPT ![s] = x] = q
  BY <1>3, <1>5, <1>6, SeqEqual
<1> QED
  BY <1>1, <1>2, <1>7 DEF e, p, q

LEMMA FirstNumbers ==
  ASSUME NEW n \in Nat
  PROVE  IsFiniteSet(1..n) /\ Cardinality(1..n) = n
BY FS_Interval

\* There are at most as many tags as records.
LEMMA TagRange ==
  ASSUME NEW d \in Seq(Rec)
  PROVE  IsFiniteSet(Tagged(d)) /\ Cardinality(Tagged(d)) \in 0..Len(d)
<1>1. DOMAIN d = 1..Len(d) /\ Len(d) \in Nat
  BY LenProperties
<1>2. IsFiniteSet(1..Len(d)) /\ Cardinality(1..Len(d)) = Len(d)
  BY <1>1, FirstNumbers
<1>3. Tagged(d) \subseteq 1..Len(d)
  BY <1>1 DEF Tagged
<1>4. IsFiniteSet(Tagged(d)) /\ Cardinality(Tagged(d)) <= Len(d)
  BY <1>2, <1>3, FS_Subset
<1> QED
  BY <1>1, <1>4, FS_CardinalityType

\* Changing a record changes the number of tags by at most its own.
LEMMA TagCount ==
  ASSUME NEW d \in Seq(Rec), NEW k \in DOMAIN d, NEW x \in Rec
  PROVE  LET n == Cardinality(Tagged(d))
             m == Cardinality(Tagged([d EXCEPT ![k] = x]))
         IN /\ x.tag = d[k].tag => m = n
            /\ x.tag /\ ~d[k].tag => m = n + 1
            /\ ~x.tag /\ d[k].tag => n = m + 1
<1> DEFINE e == [d EXCEPT ![k] = x]
<1>1. /\ DOMAIN e = DOMAIN d /\ e[k] = x /\ \A i \in DOMAIN d : i # k => e[i] = d[i]
  OBVIOUS
<1>2. IsFiniteSet(Tagged(d)) /\ IsFiniteSet(Tagged(e))
  BY TagRange, ExceptSeq
<1> HIDE DEF e
<1>3. x.tag = d[k].tag => Tagged(e) = Tagged(d)
  BY <1>1 DEF Tagged
<1>4. x.tag /\ ~d[k].tag => k \notin Tagged(d) /\ Tagged(e) = Tagged(d) \cup {k}
  BY <1>1 DEF Tagged
<1>5. ~x.tag /\ d[k].tag => k \notin Tagged(e) /\ Tagged(d) = Tagged(e) \cup {k}
  BY <1>1 DEF Tagged
<1>6. \A S : IsFiniteSet(S) /\ k \notin S => Cardinality(S \cup {k}) = Cardinality(S) + 1
  BY FS_AddElement
<1>7. /\ x.tag = d[k].tag => Cardinality(Tagged(e)) = Cardinality(Tagged(d))
      /\ x.tag /\ ~d[k].tag => Cardinality(Tagged(e)) = Cardinality(Tagged(d)) + 1
      /\ ~x.tag /\ d[k].tag => Cardinality(Tagged(d)) = Cardinality(Tagged(e)) + 1
  BY <1>2, <1>3, <1>4, <1>5, <1>6
<1> QED
  BY <1>7 DEF e

\* read_email_db with initialize set shows a mailbox from its first message
\* and counts it.
LEMMA OneLoad ==
  ASSUME NEW d \in Seq(Rec), NEW r \in BOOLEAN, Load(d, 1, r, Totals(d, 1, r))
  PROVE  /\ page' = Window(d, 1, r)
         /\ tot'.msgs = Len(d)
         /\ tot'.tag = Cardinality(Tagged(d))
<1>1. Len(d) \in Nat /\ DOMAIN d = 1..Len(d)
  BY LenProperties
<1>2. Visited(d, 1, r) = 1..Len(d)
  BY <1>1 DEF Visited, Shown
<1>3. Totals(d, 1, r).msgs = Len(d) /\ Totals(d, 1, r).tag = Cardinality(Tagged(d))
  <2>1. Cardinality(1..Len(d)) = Len(d)
    BY <1>1, FirstNumbers
  <2> QED
    BY <1>1, <1>2, <2>1, Zenon DEF Totals, Tagged
<1>4. CASE r /\ 1 > Len(d)
  <2>1. Len(d) = 0 /\ tot' = NoTotals
    BY <1>1, <1>4 DEF Load
  <2>2. Tagged(d) = {}
    BY <1>1, <2>1 DEF Tagged
  <2>3. Cardinality(Tagged(d)) = 0
    BY <2>2, FS_EmptySet
  <2> QED
    BY <2>1, <2>3 DEF NoTotals, Load
<1> QED
  BY <1>3, <1>4 DEF Load
\* A mailbox has no more records than the page has lines.
LEMMA OneLength ==
  ASSUME OneInv, OnePage
  PROVE  /\ \A m \in Mailboxes : Len(db[m]) \in 0..MaxNum
         /\ Len(Records) \in 0..MaxNum /\ Len(Records) <= PageSize
<1>1. TypeOK
  BY DEF OneInv
<1>2. /\ next \in [Mailboxes -> 0..(MaxNum + 1)] /\ db \in [Mailboxes -> Seq(Rec)]
      /\ curr \in Mailboxes
  BY <1>1, Types
<1>3. ASSUME NEW m \in Mailboxes PROVE Len(db[m]) \in 0..MaxNum
  <2>1. FreeFrom(m) \in 0..(MaxNum + 1)
    <3>1. CASE pc = "copy_next" /\ m = job.dest
      <4>1. next[m] = job.num /\ job.num \in 1..MaxNum
        BY <1>1, <3>1, Types DEF OneInv, CopyFollows, Nums
      <4> QED
        BY <3>1, <4>1, MailboxAssumption DEF FreeFrom
    <3>2. CASE ~(pc = "copy_next" /\ m = job.dest)
      BY <1>2, <3>2 DEF FreeFrom
    <3> QED
      BY <3>1, <3>2
  <2>2. Len(db[m]) \in Nat /\ (Len(db[m]) < FreeFrom(m) \/ Len(db[m]) = 0)
    BY <1>2 DEF OneInv, Numbered
  <2> QED
    BY <2>1, <2>2, MailboxAssumption
<1> QED
  BY <1>2, <1>3, MailboxAssumption DEF OnePage, Records

\* In either order the index of line s of the whole mailbox is that of its record.
LEMMA OneDbIndex ==
  ASSUME OneInv, OnePage, WholeShown, NEW s \in DOMAIN page, sel = s
  PROVE  /\ s \in 1..Len(Records)
         /\ DbIndex = IF rev THEN Len(Records) - s + 1 ELSE s
         /\ DbIndex \in DOMAIN Records
         /\ page[s] = Records[DbIndex]
<1>1. TypeOK /\ first = 1
  BY DEF OneInv
<1>2. Records \in Seq(Rec) /\ rev \in BOOLEAN
  BY <1>1, Types
<1>3. Len(Records) \in 0..MaxNum /\ Len(Records) <= PageSize
  BY OneLength
<1>4. /\ page \in Seq(Rec) /\ Len(page) = Len(Records)
      /\ \A i \in 1..Len(Records) :
           page[i] = Records[IF rev THEN Len(Records) - i + 1 ELSE i]
  BY <1>2, <1>3, OneWindow DEF WholeShown
<1>5. s \in 1..Len(Records)
  BY <1>4, LenProperties
<1>6. DbIndex = IF rev THEN Len(Records) - s + 1 ELSE s
  <2>1. CASE rev
    <3>0. tot.msgs = Len(Records)
      BY DEF WholeShown
    <3>1. /\ tot.msgs - (first + sel - 1) + 1 = Len(Records) - s + 1
          /\ Len(Records) - s + 1 \in 0..MaxNum
      BY <1>1, <1>3, <1>5, <3>0, MailboxAssumption
    <3> QED
      BY <2>1, <3>1, FitsWidth DEF DbIndex
  <2>2. CASE ~rev
    BY <1>1, <1>5, <2>2 DEF DbIndex
  <2> QED
    BY <2>1, <2>2
<1>7. DbIndex \in DOMAIN Records
  BY <1>2, <1>3, <1>5, <1>6
<1> QED
  BY <1>4, <1>5, <1>6, <1>7

\* So the record a command works on is the highlighted one.
LEMMA OneIndex ==
  ASSUME OneInv, OnePage
  PROVE  IndexOK /\ (Command => sel \in DOMAIN page)
<1>1. TypeOK
  BY DEF OneInv
<1>2. ASSUME pc = "menu", HasSelection
      PROVE  sel \in DOMAIN page /\ DbIndex \in DOMAIN Records /\ Records[DbIndex] = Selected
  <2>1. page \in Seq(Rec) /\ sel \in 1..Len(page)
    BY <1>1, <1>2, Types DEF HasSelection
  <2>2. sel \in DOMAIN page /\ WholeShown
    BY <1>2, <2>1 DEF OneInv
  <2> QED
    BY <2>2, OneDbIndex DEF Selected
<1>3. IndexNamesSelection
  BY <1>2 DEF IndexNamesSelection, Records
<1>4. (pc = "scan" => job.tagged) /\ (pc \in CopyPc => CopyFollows)
  BY DEF OneInv
<1> QED
  BY <1>1, <1>2, <1>3, <1>4 DEF IndexOK, Command

\* Writing the highlighted record back keeps the page the whole mailbox.
LEMMA OneRewrite ==
  ASSUME OneInv, OnePage, WholeShown, sel \in DOMAIN page, NEW r \in Rec,
         db' = [db EXCEPT ![curr] = [@ EXCEPT ![DbIndex] = r]]
  PROVE  /\ db'[curr] = [Records EXCEPT ![DbIndex] = r]
         /\ [page EXCEPT ![sel] = r] = Window(db'[curr], 1, rev)
         /\ db'[curr] \in Seq(Rec) /\ Len(db'[curr]) = Len(Records)
         /\ Len([page EXCEPT ![sel] = r]) = Len(Records)
         /\ \A m \in Mailboxes : Len(db'[m]) = Len(db[m])
<1>0. TypeOK
  BY DEF OneInv
<1>1. /\ db \in [Mailboxes -> Seq(Rec)] /\ curr \in Mailboxes
      /\ Records \in Seq(Rec) /\ rev \in BOOLEAN /\ Len(Records) <= PageSize
  BY <1>0, Types, OneLength
<1>2. /\ sel \in 1..Len(Records)
      /\ DbIndex = IF rev THEN Len(Records) - sel + 1 ELSE sel
  BY OneDbIndex
<1>3. db'[curr] = [Records EXCEPT ![DbIndex] = r]
  BY <1>1 DEF Records
<1>4. /\ [Records EXCEPT ![DbIndex] = r] \in Seq(Rec)
      /\ Len([Records EXCEPT ![DbIndex] = r]) = Len(Records)
      /\ [Window(Records, 1, rev) EXCEPT ![sel] = r]
           = Window([Records EXCEPT ![DbIndex] = r], 1, rev)
  BY <1>1, <1>2, OneWrite
<1>5. [page EXCEPT ![sel] = r] = Window(db'[curr], 1, rev)
  BY <1>3, <1>4, Zenon DEF WholeShown
<1>6. Len(Window(db'[curr], 1, rev)) = Len(Records)
  BY <1>1, <1>3, <1>4, OneWindow
<1>7. \A m \in Mailboxes : Len(db'[m]) = Len(db[m])
  BY <1>1, <1>3, <1>4 DEF Records
<1> QED
  BY <1>3, <1>4, <1>5, <1>6, <1>7

\* go_to_next_message has no other page to go to.
LEMMA GoToNextOne ==
  ASSUME TypeOK, first = 1, NEW p \in Seq(Rec), NEW t, NEW d,
         GoToNext(p, t, d), t.msgs = Len(p)
  PROVE  page' = p /\ tot' = t /\ UNCHANGED <<first, pc, curr, rev, job>>
<1>1. sel \in Nat /\ Len(p) \in Nat /\ first + sel - 1 = sel
  BY Types, LenProperties
<1>2. ~(sel >= Len(p) /\ first + sel - 1 < t.msgs)
  BY <1>1
<1> QED
  BY <1>2 DEF GoToNext
\* Every key of the summary screen, in either order.
LEMMA KeyOne ==
  ASSUME OneInv, Key, OnePage
  PROVE  OneInv'
<1>0. /\ TypeOK /\ first = 1 /\ prefs.first = 1
      /\ \A m \in Mailboxes : Numbered(db[m], FreeFrom(m))
      /\ pc = "menu" => WholeShown
  BY DEF OneInv
<1>d. /\ curr \in Mailboxes /\ db \in [Mailboxes -> Seq(Rec)] /\ Records \in Seq(Rec)
      /\ next \in [Mailboxes -> 0..(MaxNum + 1)]
      /\ page \in Seq(Rec) /\ rev \in BOOLEAN /\ sel \in Nat
      /\ tot \in Counters
  BY <1>0, Types DEF TypeOK, ViewOK
<1>t. TypeOK'
  BY <1>0, KeyType
<1>n. pc = "menu" => \A m \in Mailboxes : Numbered(db[m], next[m])
  BY <1>0 DEF FreeFrom
<1>l. Len(Records) \in 0..MaxNum /\ Len(Records) <= PageSize
  BY OneLength
\* Most keys leave the program in the summary screen or leave it altogether,
\* and no mailbox longer or shorter.
<1>q. ASSUME pc' \in {"menu", "off"}, first' = 1, prefs'.first = 1,
             \A m \in Mailboxes : Numbered(db'[m], next'[m]),
             pc' = "menu" => WholeShown'
      PROVE  OneInv'
  <2>1. pc' \notin CopyPc /\ pc' \notin PurgePc /\ pc' # "scan"
    BY <1>q
  <2>2. (\A m \in Mailboxes : Numbered(db[m], FreeFrom(m)))'
    BY <1>q DEF FreeFrom
  <2>3. (first = 1 /\ prefs.first = 1)'
    BY <1>q
  <2> QED
    BY <1>t, <1>q, <2>1, <2>2, <2>3 DEF OneInv
<1>1. CASE Up
  <2>1. pc = "menu" /\ UNCHANGED <<disk, pc, curr, rev, job>>
    BY <1>1 DEF Up
  <2>2. UNCHANGED <<first, page, tot>>
    <3>1. ~(first > PageSize)
      BY <1>0, MailboxAssumption
    <3> QED
      BY <1>1, <3>1 DEF Up
  <2>3. WholeShown'
    BY <1>0, <2>1, <2>2 DEF WholeShown, Records, TaggedRecords, disk
  <2> QED
    BY <1>0, <1>n, <2>1, <2>2, <2>3, <1>q DEF disk
<1>2. CASE Down
  <2>1. pc = "menu" /\ UNCHANGED disk /\ GoToNext(page, tot, Records)
    BY <1>2 DEF Down, Records
  <2>2. tot.msgs = Len(page)
    BY <1>0, <1>d, <1>l, <2>1, OneWindow DEF WholeShown
  <2>3. page' = page /\ tot' = tot /\ UNCHANGED <<first, pc, curr, rev, job>>
    BY <1>0, <1>d, <2>1, <2>2, GoToNextOne
  <2>4. WholeShown'
    BY <1>0, <2>1, <2>3 DEF WholeShown, Records, TaggedRecords, disk
  <2> QED
    BY <1>0, <1>n, <2>1, <2>3, <2>4, <1>q DEF disk
<1>3. CASE SeekFatal
  BY <1>0, <1>n, <1>3, <1>q DEF SeekFatal, Command, Off, disk
\* A command writes back the highlighted record with status or tag changed.
<1>w. ASSUME NEW r \in Rec, Command, WriteBack(r), UNCHANGED next
      PROVE  /\ \A m \in Mailboxes : Numbered(db'[m], next'[m])
             /\ db'[curr] \in Seq(Rec) /\ Len(db'[curr]) = Len(Records)
             /\ [page EXCEPT ![sel] = r] = Window(db'[curr], 1, rev)
             /\ [page EXCEPT ![sel] = r] \in Seq(Rec)
             /\ Len([page EXCEPT ![sel] = r]) = Len(Records)
             /\ Selected \in Rec /\ Len(Records) # 0
             /\ r.tag = Selected.tag =>
                  Cardinality(Tagged(db'[curr])) = tot.tag
             /\ r.tag /\ ~Selected.tag =>
                  Cardinality(Tagged(db'[curr])) = tot.tag + 1
             /\ ~r.tag /\ Selected.tag =>
                  Cardinality(Tagged(db'[curr])) = tot.tag - 1
             /\ Cardinality(Tagged(db'[curr])) \in 0..MaxNum
             /\ WholeShown
  <2>1. WholeShown /\ pc = "menu" /\ sel \in DOMAIN page /\ IndexNamesSelection
    BY <1>0, <1>w, OneIndex DEF Command, IndexOK
  <2>2. /\ DbIndex \in DOMAIN Records /\ Records[DbIndex] = Selected
        /\ db' = [db EXCEPT ![curr] = [@ EXCEPT ![DbIndex] = r]]
    BY <1>0, <1>w, <2>1, WriteBackRecord
  <2>3. /\ db'[curr] = [Records EXCEPT ![DbIndex] = r]
        /\ [page EXCEPT ![sel] = r] = Window(db'[curr], 1, rev)
        /\ db'[curr] \in Seq(Rec) /\ Len(db'[curr]) = Len(Records)
        /\ Len([page EXCEPT ![sel] = r]) = Len(Records)
        /\ \A m \in Mailboxes : Len(db'[m]) = Len(db[m])
    BY <1>w, <2>1, <2>2, OneRewrite
  <2>4. \A m \in Mailboxes : Numbered(db'[m], next'[m])
    BY <1>n, <1>w, <2>1, <2>3 DEF Numbered
  <2>5. [page EXCEPT ![sel] = r] \in Seq(Rec)
    BY <1>d, <2>1, ExceptSeq
  <2>6. Selected \in Rec /\ Len(Records) # 0
    BY <1>d, <2>2, RecOfSeq
  <2>7. tot.tag = Cardinality(Tagged(Records))
    BY <2>1 DEF WholeShown, TaggedRecords, Tagged
  <2>8. Cardinality(Tagged(Records)) \in Nat /\ Cardinality(Tagged(db'[curr])) \in 0..Len(Records)
    <3>1. Cardinality(Tagged(db'[curr])) \in 0..Len(db'[curr])
      BY <2>3, TagRange
    <3> QED
      BY <1>d, <2>3, <3>1, TagRange
  <2>9. LET n == Cardinality(Tagged(Records))
            k == Cardinality(Tagged(db'[curr]))
        IN /\ r.tag = Selected.tag => k = n
           /\ r.tag /\ ~Selected.tag => k = n + 1
           /\ ~r.tag /\ Selected.tag => n = k + 1
    <3>1. LET n == Cardinality(Tagged(Records))
              k == Cardinality(Tagged([Records EXCEPT ![DbIndex] = r]))
          IN /\ r.tag = Records[DbIndex].tag => k = n
             /\ r.tag /\ ~Records[DbIndex].tag => k = n + 1
             /\ ~r.tag /\ Records[DbIndex].tag => n = k + 1
      BY <1>d, <1>w, <2>2, TagCount, Zenon
    <3> QED
      BY <2>2, <2>3, <3>1
  <2>a. /\ r.tag = Selected.tag => Cardinality(Tagged(db'[curr])) = tot.tag
        /\ r.tag /\ ~Selected.tag => Cardinality(Tagged(db'[curr])) = tot.tag + 1
        /\ ~r.tag /\ Selected.tag => Cardinality(Tagged(db'[curr])) = tot.tag - 1
    BY <2>7, <2>8, <2>9
  <2>b. Cardinality(Tagged(db'[curr])) \in 0..MaxNum
    BY <1>l, <2>8, MailboxAssumption
  <2> QED
    BY <2>1, <2>3, <2>4, <2>5, <2>6, <2>a, <2>b
<1>4. CASE Read
  <2> DEFINE r == [Selected EXCEPT !.status = "R"]
  <2>0. Selected \in Rec
    BY <1>0, <1>4, SelectedType DEF Read
  <2>1. r \in Rec /\ r.tag = Selected.tag
    BY <2>0 DEF Rec
  <2>2. /\ Command /\ WriteBack(r) /\ pc' = "menu"
        /\ UNCHANGED <<listed, files, next, prefs, pc, curr, rev, first, sel, job>>
    BY <1>4 DEF Read, Command
  <2>3. PICK t \in {tot, [tot EXCEPT !.new = (@ - 1) % Width]} : Load(db'[curr], 1, rev, t)
    BY <1>0, <1>4 DEF Read
  <2>4. t.msgs = tot.msgs /\ t.tag = tot.tag
    BY <1>d, <2>3 DEF Counters
  <2> HIDE DEF r
  <2>5. /\ \A m \in Mailboxes : Numbered(db'[m], next'[m])
        /\ Len(db'[curr]) = Len(Records) /\ Len(Records) # 0
        /\ Cardinality(Tagged(db'[curr])) = tot.tag
        /\ WholeShown
    BY <2>1, <2>2, <1>w
  <2>6. page' = Window(db'[curr], 1, rev) /\ tot' = t
    <3>1. ~(1 > Len(db'[curr]))
      BY <1>l, <2>5
    <3> QED
      BY <2>3, <3>1 DEF Load
  <2>7. WholeShown'
    BY <2>2, <2>4, <2>5, <2>6 DEF WholeShown, Records, TaggedRecords, Tagged
  <2> QED
    BY <1>0, <2>2, <2>5, <2>7, <1>q
<1>5. ASSUME NEW r \in Rec, NEW t, Command, WriteBack(r),
             GoToNext([page EXCEPT ![sel] = r], t, db'[curr]),
             t.msgs = tot.msgs, t.tag = Cardinality(Tagged(db'[curr])),
             UNCHANGED <<listed, files, next, prefs>>
      PROVE  OneInv'
  <2>1. pc = "menu"
    BY <1>5 DEF Command
  <2>2. /\ \A m \in Mailboxes : Numbered(db'[m], next'[m])
        /\ Len(db'[curr]) = Len(Records)
        /\ [page EXCEPT ![sel] = r] = Window(db'[curr], 1, rev)
        /\ [page EXCEPT ![sel] = r] \in Seq(Rec)
        /\ Len([page EXCEPT ![sel] = r]) = Len(Records)
        /\ WholeShown
    BY <1>5, <1>w
  <2>3. t.msgs = Len([page EXCEPT ![sel] = r])
    BY <1>5, <2>2 DEF WholeShown
  <2>4. /\ page' = [page EXCEPT ![sel] = r] /\ tot' = t
        /\ UNCHANGED <<first, pc, curr, rev, job>>
    BY <1>0, <1>5, <2>2, <2>3, GoToNextOne
  <2>5. WholeShown'
    BY <1>5, <2>2, <2>3, <2>4 DEF WholeShown, Records, TaggedRecords, Tagged
  <2> QED
    BY <1>0, <1>5, <2>1, <2>2, <2>4, <2>5, <1>q
<1>6. CASE Tag
  <2> DEFINE r == [Selected EXCEPT !.tag = ~@]
             v == (tot.tag + (IF r.tag THEN 1 ELSE -1)) % Width
             t == [tot EXCEPT !.tag = v]
  <2>0. Selected \in Rec
    BY <1>0, <1>6, SelectedType DEF Tag
  <2>1. r \in Rec /\ r.tag = ~Selected.tag /\ Selected.tag \in BOOLEAN
    BY <2>0 DEF Rec
  <2>2. /\ Command /\ WriteBack(r) /\ UNCHANGED <<listed, files, next, prefs>>
        /\ GoToNext([page EXCEPT ![sel] = r], t, db'[curr])
    BY <1>6 DEF Tag
  <2>3. t.msgs = tot.msgs /\ t.tag = v
    <3> HIDE DEF v
    <3> QED
      BY <1>d DEF Counters
  <2> HIDE DEF r, t
  <2>4. v = Cardinality(Tagged(db'[curr]))
    <3> DEFINE k == Cardinality(Tagged(db'[curr]))
    <3>1. /\ r.tag /\ ~Selected.tag => k = tot.tag + 1
          /\ ~r.tag /\ Selected.tag => k = tot.tag - 1
          /\ k \in 0..MaxNum
      BY <2>1, <2>2, <1>w
    <3>2. tot.tag \in Int
      BY <1>d DEF Counters
    <3> HIDE DEF k
    <3>3. CASE r.tag
      <4>1. k = tot.tag + (IF r.tag THEN 1 ELSE -1)
        BY <2>1, <3>1, <3>2, <3>3
      <4> QED
        BY <3>1, <4>1, FitsWidth DEF k
    <3>4. CASE ~r.tag
      <4>1. k = tot.tag + (IF r.tag THEN 1 ELSE -1)
        BY <2>1, <3>1, <3>2, <3>4
      <4> QED
        BY <3>1, <4>1, FitsWidth DEF k
    <3> QED
      BY <3>3, <3>4
  <2> HIDE DEF v
  <2> QED
    BY <2>1, <2>2, <2>3, <2>4, <1>5
<1>7. ASSUME NEW s \in {"D", "R"}, SetStatus(s) PROVE OneInv'
  <2> DEFINE r == [Selected EXCEPT !.status = s]
  <2>0. Selected \in Rec
    BY <1>0, <1>7, SelectedType DEF SetStatus
  <2>1. r \in Rec /\ r.tag = Selected.tag
    BY <2>0 DEF Rec
  <2>2. /\ Command /\ WriteBack(r) /\ UNCHANGED <<listed, files, next, prefs>>
        /\ GoToNext([page EXCEPT ![sel] = r], tot, db'[curr])
    BY <1>7 DEF SetStatus
  <2> HIDE DEF r
  <2>3. Cardinality(Tagged(db'[curr])) = tot.tag
    BY <2>1, <2>2, <1>w
  <2> QED
    BY <2>1, <2>2, <2>3, <1>5
<1>8. CASE Reply
  <2> DEFINE r == [Selected EXCEPT !.tag = FALSE]
  <2>1. r \in Rec
    BY <1>0, <1>8, SelectedType, RecKeeps, "R" \in Status DEF Reply
  <2>2. /\ Command /\ WriteBack(r) /\ pc' = "off" /\ first' = 1 /\ prefs' = Save
        /\ UNCHANGED <<listed, files, next>>
    BY <1>8 DEF Reply, Off
  <2> HIDE DEF r
  <2>3. \A m \in Mailboxes : Numbered(db'[m], next'[m])
    BY <2>1, <2>2, <1>w
  <2> QED
    BY <1>0, <2>2, <2>3, <1>q DEF Save
<1>9. CASE Leave
  BY <1>0, <1>n, <1>9, <1>q DEF Leave, Off, Save
<1>10. ASSUME NEW m \in Mailboxes, SwitchMailbox(m) PROVE OneInv'
  <2>1. /\ pc = "menu" /\ curr' \in Mailboxes /\ first' = 1 /\ rev' = rev
        /\ UNCHANGED <<disk, pc>>
        /\ Load(db[curr'], 1, rev, Totals(db[curr'], 1, rev))
    BY <1>d, <1>10 DEF SwitchMailbox
  <2>2. /\ page' = Window(db[curr'], 1, rev) /\ tot'.msgs = Len(db[curr'])
        /\ tot'.tag = Cardinality(Tagged(db[curr']))
    BY <1>d, <2>1, OneLoad
  <2>3. WholeShown'
    BY <2>1, <2>2 DEF WholeShown, Records, TaggedRecords, Tagged, disk
  <2> QED
    BY <1>0, <1>n, <2>1, <2>3, <1>q DEF disk
<1>11. ASSUME NEW r \in Orders, SetOrder(r) PROVE OneInv'
  <2>1. /\ pc = "menu" /\ curr' = curr /\ first' = 1 /\ rev' = r /\ r \in BOOLEAN
        /\ UNCHANGED <<disk, pc>>
        /\ Load(Records, 1, r, Totals(Records, 1, r))
    BY <1>11, MailboxAssumption DEF SetOrder, Records
  <2>2. /\ page' = Window(Records, 1, r) /\ tot'.msgs = Len(Records)
        /\ tot'.tag = Cardinality(Tagged(Records))
    BY <1>d, <2>1, OneLoad
  <2>3. WholeShown'
    BY <2>1, <2>2 DEF WholeShown, Records, TaggedRecords, Tagged, disk
  <2> QED
    BY <1>0, <1>n, <2>1, <2>3, <1>q DEF disk
\* A mailbox that was never created has no records.
<1>12. ASSUME NEW m \in Mailboxes, NewMailbox(m) PROVE OneInv'
  <2>1. /\ pc = "menu" /\ pc' = "menu" /\ next[m] = 0
        /\ next' = [next EXCEPT ![m] = 1]
        /\ db' = [db EXCEPT ![m] = << >>]
        /\ UNCHANGED <<files, prefs, view>>
    BY <1>12 DEF NewMailbox
  <2>2. db[m] = << >>
    <3>1. Len(db[m]) = 0
      BY <1>d, <1>n, <2>1 DEF Numbered
    <3> QED
      BY <1>d, <3>1, EmptySeq
  <2>3. db' = db
    BY <1>d, <2>1, <2>2
  <2>4. \A k \in Mailboxes : Numbered(db'[k], next'[k])
    <3>1. \A k \in Mailboxes : k # m => next'[k] = next[k]
      BY <1>d, <2>1
    <3>2. Len(db[m]) = 0
      BY <2>2
    <3> QED
      BY <1>n, <2>1, <2>3, <3>1, <3>2 DEF Numbered
  <2>5. WholeShown'
    BY <1>0, <2>1, <2>3 DEF WholeShown, Records, TaggedRecords, view
  <2> QED
    BY <1>0, <2>1, <2>4, <2>5, <1>q DEF view
<1>13. ASSUME NEW m \in Mailboxes, NEW del \in BOOLEAN, StartCopy(m, del)
       PROVE  OneInv'
  <2>1. /\ Command /\ pc = "menu" /\ m # curr
        /\ UNCHANGED <<disk, view>>
    BY <1>13 DEF StartCopy, Command, OnePage
  <2>2. WholeShown /\ sel \in DOMAIN page /\ DbIndex \in DOMAIN Records
        /\ Records[DbIndex] = Selected
    BY <1>0, <2>1, OneIndex DEF IndexOK, IndexNamesSelection, Command, Records
  <2>3. (\A k \in Mailboxes : Numbered(db[k], FreeFrom(k)))'
    <3>1. pc' # "copy_next"
      BY <1>13 DEF StartCopy
    <3> QED
      BY <1>n, <2>1, <3>1 DEF FreeFrom, disk
  <2>4. (first = 1 /\ prefs.first = 1)'
    BY <1>0, <2>1 DEF disk, view
  <2>5. CASE tot.tag = 0
    <3>1. pc' = "copy_file" /\ job' = CopyJob(Selected, DbIndex, m, del, FALSE)
      BY <1>13, <2>5 DEF StartCopy
    <3>2. /\ job'.dest = m /\ job'.idx = DbIndex /\ job'.rec = Selected
      BY <3>1 DEF CopyJob
    <3>3. CopyFollows'
      BY <2>1, <2>2, <3>1, <3>2 DEF CopyFollows, Records, disk, view
    <3>4. (WholeShown /\ tot.tag = 0 /\ sel \in DOMAIN page)' /\ DbIndex' = DbIndex
      BY <2>1, <2>2, <2>5 DEF WholeShown, Records, TaggedRecords, DbIndex, disk, view
    <3>5. (job.dest # curr)'
      BY <2>1, <3>2 DEF view
    <3> QED
      BY <1>t, <2>3, <2>4, <3>1, <3>2, <3>3, <3>4, <3>5 DEF OneInv
  <2>6. CASE tot.tag # 0
    <3>1. pc' = "scan" /\ job' = CopyJob(None, 0, m, del, TRUE)
      BY <1>13, <2>6 DEF StartCopy
    <3>2. (job.tagged /\ job.dest # curr)'
      BY <2>1, <3>1 DEF CopyJob, view
    <3> QED
      BY <1>t, <2>3, <2>4, <3>1, <3>2 DEF OneInv
  <2> QED
    BY <2>5, <2>6
<1>14. CASE StartPurge
  <2>1. /\ pc = "menu" /\ pc' = "purge" /\ job' = [kept |-> << >>, i |-> 1]
        /\ UNCHANGED <<disk, view>>
    BY <1>14 DEF StartPurge, Command
  <2>2. (\A k \in Mailboxes : Numbered(db[k], FreeFrom(k)))'
    BY <1>n, <2>1 DEF FreeFrom, disk
  <2>3. (Len(job.kept) < job.i /\ job.i <= Len(Records) + 1)'
    BY <1>d, <1>l, <2>1 DEF Records, disk, view
  <2> QED
    BY <1>0, <1>t, <2>1, <2>2, <2>3 DEF OneInv, disk, view
<1>15. ASSUME NEW k \in Keys, Press(k) PROVE OneInv'
  <2>1. CASE Read \/ Tag \/ Reply \/ StartPurge \/ Leave
    BY <2>1, <1>4, <1>6, <1>8, <1>9, <1>14
  <2>2. CASE Delete \/ Undelete
    BY <2>2, <1>7 DEF Delete, Undelete
  <2>3. CASE \E m \in Mailboxes : \E del \in BOOLEAN : StartCopy(m, del)
    BY <2>3, <1>13
  <2>4. CASE \E m \in Mailboxes : NewMailbox(m) \/ SwitchMailbox(m)
    BY <2>4, <1>10, <1>12
  <2> QED
    BY <1>15, <2>1, <2>2, <2>3, <2>4 DEF Press
<1> QED
  BY <1>1, <1>2, <1>3, <1>11, <1>15 DEF Key

\* Starting the program, and what happens to the mailboxes while it is left.
LEMMA OutsideOne ==
  ASSUME OneInv, Outside
  PROVE  OneInv'
<1>0. /\ TypeOK /\ first = 1 /\ prefs.first = 1
      /\ \A m \in Mailboxes : Numbered(db[m], FreeFrom(m))
  BY DEF OneInv
<1>d. /\ db \in [Mailboxes -> Seq(Rec)] /\ Inbox \in Mailboxes
      /\ next \in [Mailboxes -> 0..(MaxNum + 1)] /\ prefs.rev \in BOOLEAN
      /\ prefs.mbox \in Mailboxes
  BY <1>0, Types DEF TypeOK, DiskOK, Prefs
<1>t. TypeOK'
  BY <1>0, OutsideType
<1>n. pc = "off" => \A m \in Mailboxes : Numbered(db[m], next[m])
  BY <1>0 DEF FreeFrom
<1>1. CASE Boot
  <2>1. /\ pc = "off" /\ pc' = "menu" /\ first' = 1 /\ UNCHANGED disk
        /\ rev' \in BOOLEAN /\ curr' \in Mailboxes
        /\ Load(db[curr'], 1, rev', Totals(db[curr'], 1, rev'))
    BY <1>0, <1>d, <1>1 DEF Boot
  <2>2. /\ page' = Window(db[curr'], 1, rev') /\ tot'.msgs = Len(db[curr'])
        /\ tot'.tag = Cardinality(Tagged(db[curr']))
    BY <1>d, <2>1, OneLoad
  <2>3. WholeShown'
    BY <2>1, <2>2 DEF WholeShown, Records, TaggedRecords, Tagged, disk
  <2> QED
    BY <1>0, <1>n, <1>t, <2>1, <2>3 DEF OneInv, FreeFrom, disk
<1>2. CASE DeletePrefs
  BY <1>0, <1>n, <1>t, <1>2 DEF DeletePrefs, DefaultPrefs, OneInv, FreeFrom, view
<1>3. ASSUME NEW x \in Msgs, Import(x) PROVE OneInv'
  <2> DEFINE r == [num |-> next[Inbox], status |-> "N", tag |-> FALSE, hdr |-> x]
  <2>1. /\ pc = "off" /\ pc' = "off" /\ next[Inbox] \in Nums
        /\ db' = [db EXCEPT ![Inbox] = Append(@, r)]
        /\ next' = [next EXCEPT ![Inbox] = next[Inbox] + 1]
        /\ UNCHANGED <<prefs, first>>
    BY <1>3 DEF Import, view
  <2> HIDE DEF r
  <2>2. Len(db'[Inbox]) = Len(db[Inbox]) + 1 /\ Len(db[Inbox]) \in Nat
    <3>1. r \in Rec
      BY <2>1 DEF r, Rec
    <3> QED
      BY <1>d, <2>1, <3>1, AppendProperties
  <2>3. next'[Inbox] = next[Inbox] + 1 /\ next[Inbox] \in Nat \ {0}
    BY <1>d, <2>1 DEF Nums
  <2>4. Numbered(db'[Inbox], next'[Inbox])
    BY <1>d, <1>n, <2>1, <2>2, <2>3 DEF Numbered
  <2>5. \A m \in Mailboxes : Numbered(db'[m], next'[m])
    BY <1>d, <1>n, <2>1, <2>4
  <2> QED
    BY <1>0, <1>t, <2>1, <2>5 DEF OneInv, FreeFrom
<1> QED
  BY <1>1, <1>2, <1>3 DEF Outside

\* A copy or a move to another mailbox.
LEMMA CopyStepOne ==
  ASSUME OneInv, CopyStep, OnePage
  PROVE  OneInv'
<1>0. /\ TypeOK /\ first = 1 /\ prefs.first = 1
      /\ \A m \in Mailboxes : Numbered(db[m], FreeFrom(m))
      /\ pc = "scan" => job.tagged /\ job.dest # curr
      /\ pc \in CopyPc =>
           /\ CopyFollows
           /\ job.dest # curr
           /\ ~job.tagged => /\ WholeShown /\ tot.tag = 0
                             /\ sel \in DOMAIN page /\ job.idx = DbIndex
  BY DEF OneInv
<1>d. /\ curr \in Mailboxes /\ db \in [Mailboxes -> Seq(Rec)] /\ Records \in Seq(Rec)
      /\ next \in [Mailboxes -> 0..(MaxNum + 1)]
      /\ rev \in BOOLEAN
      /\ pc \in CopyPc \cup {"scan"} => job \in CopyJobs /\ job.dest \in Mailboxes
      /\ pc \in CopyPc => job.rec \in Rec
      /\ pc \in CopyPc \ {"copy_file"} => job.num \in Nums
  BY <1>0, Types
<1>t. TypeOK'
  BY <1>0, CopyStepType
<1>n. pc # "copy_next" => \A m \in Mailboxes : Numbered(db[m], next[m])
  BY <1>0 DEF FreeFrom
\* Back to the scan, or to a page that still shows the mailbox.
<1>r. ASSUME Return, pc \in CopyPc, \A m \in Mailboxes : Numbered(db'[m], next'[m]),
             UNCHANGED <<prefs, curr, first>>,
             ~job.tagged => WholeShown'
      PROVE  OneInv'
  <2>1. /\ pc' \in {"scan", "menu"}
        /\ pc' = "menu" => ~job.tagged
        /\ pc' = "scan" => job.tagged /\ job' = job
    BY <1>r DEF Return
  <2>2. (first = 1 /\ prefs.first = 1)'
    BY <1>0, <1>r
  <2>3. pc' \notin CopyPc /\ pc' \notin PurgePc
    BY <2>1
  <2>4. (\A m \in Mailboxes : Numbered(db[m], FreeFrom(m)))'
    BY <1>r, <2>1 DEF FreeFrom
  <2>5. pc' = "scan" => job'.tagged /\ job'.dest # curr'
    BY <1>0, <1>r, <2>1
  <2> QED
    BY <1>t, <1>r, <2>1, <2>2, <2>3, <2>4, <2>5 DEF OneInv
<1>1. CASE ScanEnd
  <2>1. /\ pc = "scan" /\ pc' = "menu" /\ UNCHANGED <<disk, curr, rev, first>>
        /\ Load(Records, 1, rev, Totals(Records, 1, rev))
    BY <1>0, <1>1 DEF ScanEnd
  <2>2. /\ page' = Window(Records, 1, rev) /\ tot'.msgs = Len(Records)
        /\ tot'.tag = Cardinality(Tagged(Records))
    BY <1>d, <2>1, OneLoad
  <2>3. WholeShown'
    BY <2>1, <2>2 DEF WholeShown, Records, TaggedRecords, Tagged, disk
  <2> QED
    BY <1>0, <1>n, <1>t, <2>1, <2>3 DEF OneInv, FreeFrom, disk
<1>2. CASE ScanRecord
  <2>1. /\ pc = "scan" /\ UNCHANGED <<disk, view>> /\ job'.tagged = job.tagged
        /\ job'.dest = job.dest
        /\ pc' \in {"scan", "copy_file"}
        /\ pc' = "copy_file" => CopyFollows'
    BY <1>0, <1>2, ScanFollows
  <2>2. (first = 1 /\ prefs.first = 1 /\ job.tagged /\ job.dest # curr)'
    BY <1>0, <2>1 DEF disk, view
  <2>3. (\A m \in Mailboxes : Numbered(db[m], FreeFrom(m)))'
    BY <1>n, <2>1 DEF FreeFrom, disk
  <2> QED
    BY <1>t, <2>1, <2>2, <2>3 DEF OneInv
<1>s. CASE ScanStraddle
  <2>1. /\ pc = "scan" /\ pc' = "scan" /\ UNCHANGED <<disk, view>>
        /\ job'.tagged = job.tagged /\ job'.dest = job.dest
    BY <1>0, <1>s, StraddleFollows
  <2>2. (first = 1 /\ prefs.first = 1 /\ job.tagged /\ job.dest # curr)'
    BY <1>0, <2>1 DEF disk, view
  <2>3. (\A m \in Mailboxes : Numbered(db[m], FreeFrom(m)))'
    BY <1>n, <2>1 DEF FreeFrom, disk
  <2> QED
    BY <1>t, <2>1, <2>2, <2>3 DEF OneInv
<1>3. CASE CopyRefused
  <2>1. pc = "copy_file" /\ Return /\ UNCHANGED <<disk, view>>
    BY <1>3 DEF CopyRefused
  <2>2. WholeShown => WholeShown'
    BY <2>1 DEF WholeShown, Records, TaggedRecords, disk, view
  <2> QED
    BY <1>0, <1>n, <2>1, <2>2, <1>r DEF disk, view
<1>4. CASE CopyFile
  <2>1. /\ pc = "copy_file" /\ pc' = "copy_db" /\ UNCHANGED <<db, next, prefs, view>>
    BY <1>4 DEF CopyFile, CopyOpens
  <2>2. CopyFollows' /\ job' = [job EXCEPT !.num = next[job.dest]]
    BY <1>0, <1>4, <2>1, CopyFileFollows
  <2>3. job'.idx = job.idx /\ job'.tagged = job.tagged /\ job'.dest = job.dest
    BY <1>d, <2>1, <2>2 DEF CopyJobs
  <2>4. (WholeShown => WholeShown') /\ DbIndex' = DbIndex
    BY <2>1 DEF WholeShown, Records, TaggedRecords, DbIndex, view
  <2>5. (\A m \in Mailboxes : Numbered(db[m], FreeFrom(m)))'
    BY <1>n, <2>1 DEF FreeFrom
  <2> QED
    BY <1>0, <1>t, <2>1, <2>2, <2>3, <2>4, <2>5 DEF OneInv, view
<1>5. CASE CopyDb
  <2> DEFINE r == [job.rec EXCEPT !.num = job.num]
  <2>1. /\ pc = "copy_db" /\ pc' = "copy_next" /\ UNCHANGED <<next, prefs, view, job>>
        /\ db' = [db EXCEPT ![job.dest] = Append(@, r)]
    BY <1>5 DEF CopyDb
  <2>2. CopyFollows' /\ Records' = Records /\ r \in Rec
    BY <1>0, <1>5, <2>1, CopyDbFollows
  <2> HIDE DEF r
  <2>3. (WholeShown => WholeShown') /\ DbIndex' = DbIndex
    BY <2>1, <2>2 DEF WholeShown, TaggedRecords, DbIndex, view
  <2>4. (\A m \in Mailboxes : Numbered(db[m], FreeFrom(m)))'
    <3>1. Numbered(db'[job.dest], next[job.dest] + 1)
      <4>1. Len(db'[job.dest]) = Len(db[job.dest]) + 1 /\ Len(db[job.dest]) \in Nat
        BY <1>d, <2>1, <2>2, AppendProperties
      <4>2. next[job.dest] \in Nat \ {0}
        BY <1>0, <1>d, <2>1 DEF CopyFollows, Nums
      <4>3. Len(db[job.dest]) < next[job.dest] \/ Len(db[job.dest]) = 0
        BY <1>d, <1>n, <2>1 DEF Numbered
      <4> QED
        BY <4>1, <4>2, <4>3 DEF Numbered
    <3>2. \A m \in Mailboxes : m # job.dest => db'[m] = db[m]
      BY <1>d, <2>1
    <3> QED
      BY <1>n, <2>1, <3>1, <3>2 DEF FreeFrom
  <2> QED
    BY <1>0, <1>t, <2>1, <2>2, <2>3, <2>4 DEF OneInv, view
<1>6. CASE CopyNext
  <2>1. /\ pc = "copy_next" /\ pc' = "copy_mark"
        /\ next' = [next EXCEPT ![job.dest] = job.num + 1]
        /\ UNCHANGED <<db, files, prefs, view, job>>
    BY <1>6 DEF CopyNext
  <2>2. CopyFollows'
    BY <1>0, <2>1 DEF CopyFollows, Records, view
  <2>3. (WholeShown => WholeShown') /\ DbIndex' = DbIndex
    BY <2>1 DEF WholeShown, Records, TaggedRecords, DbIndex, view
  <2>4. \A m \in Mailboxes : next'[m] = FreeFrom(m)
    BY <1>0, <1>d, <2>1 DEF FreeFrom, CopyFollows
  <2>5. (\A m \in Mailboxes : Numbered(db[m], FreeFrom(m)))'
    BY <1>0, <2>1, <2>4 DEF FreeFrom
  <2> QED
    BY <1>0, <1>t, <2>1, <2>2, <2>3, <2>5 DEF OneInv, view
<1>7. CASE CopyMark
  <2>1. /\ pc = "copy_mark" /\ Return
        /\ UNCHANGED <<files, next, prefs, curr, rev, first, sel, tot>>
    BY <1>7 DEF CopyMark
  <2>2. CopyFollows
    BY <1>0, <2>1
  <2>3. PICK r \in Rec :
          /\ r.tag = FALSE
          /\ db' = [db EXCEPT ![curr] = [@ EXCEPT ![job.idx] = r]]
          /\ Records' = [Records EXCEPT ![job.idx] = r]
          /\ page' = IF job.tagged THEN page ELSE [page EXCEPT ![sel] = r]
    BY <1>0, <1>7, <2>2, CopyMarkRecord
  <2>4. \A m \in Mailboxes : Numbered(db'[m], next'[m])
    <3>1. \A m \in Mailboxes : Len(db'[m]) = Len(db[m])
      <4>1. job.idx \in DOMAIN Records
        BY <2>2 DEF CopyFollows
      <4>2. Len([Records EXCEPT ![job.idx] = r]) = Len(Records)
        BY <1>d, <4>1, ExceptSeq
      <4>3. db'[curr] = [Records EXCEPT ![job.idx] = r]
        BY <1>d, <2>3 DEF Records
      <4> QED
        BY <1>d, <2>3, <4>2, <4>3 DEF Records
    <3> QED
      BY <1>n, <2>1, <3>1 DEF Numbered
  \* No record is tagged, and none gets a tag.
  <2>5. ASSUME ~job.tagged PROVE WholeShown'
    <3>1. WholeShown /\ tot.tag = 0 /\ sel \in DOMAIN page /\ job.idx = DbIndex
      BY <1>0, <2>1, <2>5
    <3>2. /\ [page EXCEPT ![sel] = r] = Window(db'[curr], 1, rev)
          /\ Len(db'[curr]) = Len(Records)
      BY <2>3, <3>1, OneRewrite
    <3>3. Tagged(Records) = {}
      <4>1. IsFiniteSet(Tagged(Records)) /\ Cardinality(Tagged(Records)) = 0
        BY <1>d, <3>1, TagRange DEF WholeShown, TaggedRecords, Tagged
      <4> QED
        BY <4>1, FS_EmptySet
    <3>4. Tagged(Records') = {}
      BY <2>3, <3>3 DEF Tagged
    <3>5. tot'.tag = Cardinality(TaggedRecords')
      BY <2>1, <3>1, <3>4, FS_EmptySet DEF TaggedRecords, Tagged
    <3>6. page' = Window(Records', 1, rev') /\ tot'.msgs = Len(Records')
      BY <2>1, <2>3, <2>5, <3>1, <3>2 DEF Records, WholeShown
    <3> QED
      BY <3>5, <3>6 DEF WholeShown
  <2> QED
    BY <2>1, <2>4, <2>5, <1>r
<1>8. CASE CopyMarkFatal
  BY <1>0, <1>n, <1>t, <1>8 DEF CopyMarkFatal, Off, OneInv, FreeFrom, disk
<1> QED
  BY <1>1, <1>2, <1>s, <1>3, <1>4, <1>5, <1>6, <1>7, <1>8
     DEF CopyStep, CopyDbFull, CopyFileFull, OnePage

\* A purge keeps no more records than it has read.
LEMMA PurgeStepOne ==
  ASSUME OneInv, PurgeStep, OnePage
  PROVE  OneInv'
<1>0. /\ TypeOK /\ first = 1 /\ prefs.first = 1
      /\ \A m \in Mailboxes : Numbered(db[m], FreeFrom(m))
      /\ pc = "purge" => Len(job.kept) < job.i /\ job.i <= Len(Records) + 1
      /\ pc = "purge_rename" => Numbered(job.kept, next[curr])
  BY DEF OneInv
<1>d. /\ curr \in Mailboxes /\ db \in [Mailboxes -> Seq(Rec)] /\ Records \in Seq(Rec)
      /\ next \in [Mailboxes -> 0..(MaxNum + 1)] /\ rev \in BOOLEAN
      /\ pc \in PurgePc => job \in PurgeJobs /\ job.kept \in Seq(Rec) /\ job.i \in Nat \ {0}
  BY <1>0, Types
<1>t. TypeOK'
  BY <1>0, PurgeStepType
<1>n. pc # "copy_next" => \A m \in Mailboxes : Numbered(db[m], next[m])
  BY <1>0 DEF FreeFrom
<1>1. CASE PurgeRecord
  <2> DEFINE h == Records[job.i]
  <2>1. /\ pc = "purge" /\ pc' = "purge" /\ job.i \in DOMAIN Records
        /\ UNCHANGED <<db, next, prefs, view>>
    BY <1>d, <1>1 DEF PurgeRecord
  <2>2. /\ job'.i = job.i + 1 /\ job'.kept \in {job.kept, Append(job.kept, h)}
    BY <1>d, <1>1, <2>1 DEF PurgeRecord, PurgeJobs
  <2>3. h \in Rec
    BY <1>d, <2>1, RecOfSeq
  <2> HIDE DEF h
  <2>4. Len(job'.kept) <= Len(job.kept) + 1 /\ Len(job.kept) \in Nat /\ Len(job'.kept) \in Nat
    <3>1. job.kept \in Seq(Rec) /\ Len(job.kept) \in Nat
      BY <1>d, <2>1
    <3>2. Len(Append(job.kept, h)) = Len(job.kept) + 1
      BY <2>3, <3>1, AppendProperties
    <3> QED
      BY <2>2, <3>1, <3>2
  <2>5. (Len(job.kept) < job.i /\ job.i <= Len(Records) + 1)'
    <3>1. Records' = Records
      BY <2>1 DEF Records, view
    <3>2. Len(job.kept) < job.i /\ job.i <= Len(Records) /\ job.i \in Nat
      BY <1>0, <1>d, <2>1
    <3>3. Len(Records) \in Nat
      BY <1>d
    <3>4. Len(job'.kept) < job.i + 1 /\ job.i + 1 <= Len(Records) + 1
      BY <2>4, <3>2, <3>3
    <3> QED
      BY <2>2, <3>1, <3>4
  <2>6. (\A m \in Mailboxes : Numbered(db[m], FreeFrom(m)))'
    BY <1>n, <2>1 DEF FreeFrom
  <2> QED
    BY <1>0, <1>t, <2>1, <2>5, <2>6 DEF OneInv, view
<1>2. CASE PurgeUnlink
  <2>1. /\ pc = "purge" /\ pc' = "purge_rename" /\ job.i > Len(Records)
        /\ db' = [db EXCEPT ![curr] = << >>]
        /\ UNCHANGED <<files, next, prefs, view, job>>
    BY <1>2 DEF PurgeUnlink
  <2>2. Len(job.kept) \in Nat /\ Len(job.kept) <= Len(Records) /\ Len(Records) \in Nat
    BY <1>0, <1>d, <2>1
  <2>3. Numbered(job.kept, next[curr])
    <3>1. Len(Records) < next[curr] \/ Len(Records) = 0
      BY <1>d, <1>n, <2>1 DEF Numbered, Records
    <3> QED
      BY <1>d, <2>2, <3>1 DEF Numbered
  <2>4. (\A m \in Mailboxes : Numbered(db[m], FreeFrom(m)))'
    <3>1. Len(<< >>) = 0
      OBVIOUS
    <3> QED
      BY <1>d, <1>n, <2>1, <3>1 DEF FreeFrom, Numbered
  <2> QED
    BY <1>0, <1>t, <2>1, <2>3, <2>4 DEF OneInv, view
<1>3. CASE PurgeRename
  <2>1. /\ pc = "purge_rename" /\ pc' = "menu" /\ first' = 1
        /\ db' = [db EXCEPT ![curr] = job.kept]
        /\ UNCHANGED <<files, next, prefs, curr, rev>>
        /\ Load(job.kept, 1, rev, Totals(job.kept, 1, rev))
    BY <1>3 DEF PurgeRename, AfterPurge
  <2>2. Records' = job.kept
    BY <1>d, <2>1 DEF Records
  <2>3. /\ page' = Window(job.kept, 1, rev) /\ tot'.msgs = Len(job.kept)
        /\ tot'.tag = Cardinality(Tagged(job.kept))
    BY <1>d, <2>1, OneLoad
  <2>4. WholeShown'
    BY <2>1, <2>2, <2>3 DEF WholeShown, TaggedRecords, Tagged
  <2>5. (\A m \in Mailboxes : Numbered(db[m], FreeFrom(m)))'
    BY <1>0, <1>d, <1>n, <2>1 DEF FreeFrom
  <2> QED
    BY <1>0, <1>t, <2>1, <2>4, <2>5 DEF OneInv
<1> QED
  BY <1>1, <1>2, <1>3 DEF PurgeStep, PurgeFull, OnePage

\* Every step, and a reset in a purge, keeps it.
LEMMA OneStep ==
  ASSUME OnePage, OneInv, [Next]_vars
  PROVE  OneInv'
<1>t. TypeOK'
  BY TypeStep DEF OneInv
<1>1. CASE Crash
  <2>1. /\ pc \in PurgePc /\ pc' = "off" /\ first' = 1 /\ UNCHANGED disk
    BY <1>1 DEF Crash, OnePage, Off
  <2> QED
    BY <1>t, <2>1 DEF OneInv, FreeFrom, disk
<1>2. CASE UNCHANGED vars
  BY <1>t, <1>2 DEF vars, disk, view, OneInv, FreeFrom, CopyFollows, WholeShown, DbIndex,
     TaggedRecords, Records
<1> QED
  BY <1>1, <1>2, KeyOne, OutsideOne, CopyStepOne, PurgeStepOne DEF Next

-----------------------------------------------------------------------------
(* Theorems                                                                *)

\* Both arguments hold when nothing was ever run.
LEMMA IndexInit == Init => ForwardInv /\ OneInv
<1> SUFFICES ASSUME Init PROVE ForwardInv /\ OneInv
  OBVIOUS
<1>1. TypeOK
  BY InitType
<1>2. \A m \in Mailboxes : db[m] = << >>
  BY DEF Init
<1>3. \A m \in Mailboxes : Numbered(db[m], FreeFrom(m))
  <2>1. Len(<< >>) = 0
    OBVIOUS
  <2> QED
    BY <1>2, <2>1 DEF Numbered
<1> QED
  BY <1>1, <1>2, <1>3 DEF Init, ForwardInv, OneInv, NewEmpty, DefaultPrefs

\* In the circumstances of either argument a command works on the record it
\* was given for.
LEMMA IndexHolds ==
  ASSUME Forward \/ OnePage
  PROVE  Spec => []IndexOK
<1>1. CASE Forward
  <2>1. ForwardInv /\ [Next]_vars => ForwardInv'
    BY <1>1, ForwardStep
  <2>2. Init => ForwardInv
    BY IndexInit
  <2>3. ForwardInv => IndexOK
    BY ForwardIndex
  <2> QED
    BY <2>1, <2>2, <2>3, PTL DEF Spec
<1>2. CASE OnePage
  <2>1. OneInv /\ [Next]_vars => OneInv'
    BY <1>2, OneStep
  <2>2. Init => OneInv
    BY IndexInit
  <2>3. OneInv => IndexOK
    BY <1>2, OneIndex
  <2> QED
    BY <2>1, <2>2, <2>3, PTL DEF Spec
<1> QED
  BY <1>1, <1>2

\* get_db_index returns the record of the highlighted line (IndexNamesSelection):
\* oldest first for mailboxes of any size, and after resets; on one page in
\* either order.
THEOREM IndexNamesSelectionCorrect ==
  ASSUME Forward \/ OnePage
  PROVE  Spec => []IndexNamesSelection
<1>1. IndexOK => IndexNamesSelection
  BY DEF IndexOK
<1> QED
  BY <1>1, IndexHolds, PTL

\* The status bar counts every message and every tag of a mailbox that fits on
\* the page (TotalsCountMailbox).
THEOREM TotalsCorrect ==
  ASSUME OnePage
  PROVE  Spec => []TotalsCountMailbox
<1>1. OneInv => TotalsCountMailbox
  BY DEF OneInv, WholeShown, TotalsCountMailbox, Records
<1>2. OneInv /\ [Next]_vars => OneInv'
  BY OneStep
<1>3. Init => OneInv
  BY IndexInit
<1> QED
  BY <1>1, <1>2, <1>3, PTL DEF Spec

=============================================================================
