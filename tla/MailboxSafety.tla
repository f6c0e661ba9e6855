--------------------------- MODULE MailboxSafety ---------------------------
(***************************************************************************)
(* The safety of the records and files of the mailboxes, for any number of *)
(* mailboxes and messages and any bound.  What MailboxProofs shows of the  *)
(* record a command works on (IndexOK) is all these proofs use of the page *)
(* and its order: each theorem holds oldest first on any number of pages   *)
(* (Forward) and in either order on one page (OnePage).                    *)
(***************************************************************************)
EXTENDS MailboxProofs

USE DEF Status, CopyPc, PurgePc

-----------------------------------------------------------------------------
(* Mailboxes                                                               *)

\* Changing the status or the tag of a record keeps the mailbox in order.
LEMMA BoxWrite ==
  ASSUME NEW d \in Seq(Rec), NEW n \in Nat, NEW f, BoxOK(d, n, f),
         NEW i \in DOMAIN d, NEW r \in Rec, r.num = d[i].num, r.hdr = d[i].hdr
  PROVE  BoxOK([d EXCEPT ![i] = r], n, f)
BY DEF BoxOK

\* So does writing the file no record names yet.
LEMMA BoxFile ==
  ASSUME NEW d \in Seq(Rec), NEW n \in Nums, NEW f \in [Nums -> Msgs \cup {None}],
         BoxOK(d, n, f), NEW x
  PROVE  BoxOK(d, n, [f EXCEPT ![n] = x])
<1>1. \A i \in DOMAIN d : d[i].num \in Nums /\ d[i].num # n
  BY RecOfSeq, MailboxAssumption DEF BoxOK, Nums
<1> QED
  BY <1>1 DEF BoxOK

\* And listing the message that file holds.
LEMMA BoxAppend ==
  ASSUME NEW d \in Seq(Rec), NEW n \in Nums, NEW f, BoxOK(d, n, f),
         NEW r \in Rec, r.num = n, f[n] = r.hdr
  PROVE  BoxOK(Append(d, r), n + 1, f)
<1>1. /\ DOMAIN Append(d, r) = 1..(Len(d) + 1)
      /\ Append(d, r)[Len(d) + 1] = r
      /\ \A i \in 1..Len(d) : Append(d, r)[i] = d[i]
  BY AppendProperties
<1>2. \A i \in 1..Len(d) : d[i].num < n /\ d[i].num \in Int
  BY RecOfSeq, MailboxAssumption DEF BoxOK, Nums
<1>3. DOMAIN d = 1..Len(d)
  OBVIOUS
<1>4. n \in Int
  BY DEF Nums
<1>5. ASSUME NEW i \in 1..(Len(d) + 1)
      PROVE  /\ Append(d, r)[i].num < n + 1
             /\ f[Append(d, r)[i].num] = Append(d, r)[i].hdr
             /\ \A j \in 1..(Len(d) + 1) :
                  Append(d, r)[i].num = Append(d, r)[j].num => i = j
  <2>1. CASE i = Len(d) + 1
    BY <1>1, <1>2, <1>4, <2>1
  <2>2. CASE i \in 1..Len(d)
    <3>1. /\ d[i].num < n
          /\ f[d[i].num] = d[i].hdr
          /\ \A j \in 1..Len(d) : d[i].num = d[j].num => i = j
      BY <1>3, <2>2 DEF BoxOK
    <3>2. Append(d, r)[i] = d[i] /\ d[i].num # n /\ d[i].num < n + 1
      BY <1>1, <1>2, <1>4, <2>2
    <3>3. \A j \in 1..(Len(d) + 1) : d[i].num = Append(d, r)[j].num => i = j
      BY <1>1, <3>1, <3>2
    <3> QED
      BY <3>1, <3>2, <3>3
  <2> QED
    BY <2>1, <2>2
<1> QED
  BY <1>1, <1>5 DEF BoxOK

\* Steps that leave the mailboxes alone, or rewrite one record of the current.
Quiet == {"off", "menu", "scan", "copy_file", "copy_db", "copy_mark"}

\* A step that writes no file keeps every mailbox in order.
LEMMA BoxesSame ==
  ASSUME BoxesOK, pc \in Quiet, pc' \in Quiet, UNCHANGED <<db, files, next>>
  PROVE  BoxesOK'
BY DEF BoxesOK, FreeFrom, Quiet

\* So does one that rewrites a record under its own number and message.
LEMMA BoxesWrite ==
  ASSUME TypeOK, BoxesOK, pc \in Quiet, pc' \in Quiet, UNCHANGED <<files, next>>,
         NEW i \in DOMAIN Records, NEW r \in Rec,
         r.num = Records[i].num, r.hdr = Records[i].hdr,
         db' = [db EXCEPT ![curr] = [@ EXCEPT ![i] = r]]
  PROVE  BoxesOK'
<1>1. /\ curr \in Mailboxes /\ db \in [Mailboxes -> Seq(Rec)] /\ Records \in Seq(Rec)
      /\ \A m \in Mailboxes : next[m] \in Nat
  BY Types
<1>2. \A m \in Mailboxes : BoxOK(db[m], next[m], files[m])
  BY DEF BoxesOK, FreeFrom, Quiet
<1>3. BoxOK([Records EXCEPT ![i] = r], next[curr], files[curr])
  BY <1>1, <1>2, BoxWrite DEF Records
<1>4. \A m \in Mailboxes : BoxOK(db'[m], next[m], files[m])
  BY <1>1, <1>2, <1>3 DEF Records
<1> QED
  BY <1>4 DEF BoxesOK, FreeFrom, Quiet

-----------------------------------------------------------------------------
(* What a key does to the mailboxes                                        *)

\* A key rewrites the selected record with another status or tag, and marks it
\* deleted only when it is D.
Rewrites(r) ==
  /\ Command
  /\ DbIndex \in DOMAIN Records
  /\ Records[DbIndex] = Selected
  /\ db' = [db EXCEPT ![curr] = [@ EXCEPT ![DbIndex] = r]]
  /\ r.num = Selected.num /\ r.hdr = Selected.hdr
  /\ r.status = "D" => r.status = Selected.status \/ Delete
  /\ UNCHANGED <<listed, files, next>>

\* Where a key leaves the program.
LEMMA KeyPc ==
  ASSUME Key
  PROVE  /\ pc = "menu"
         /\ \/ pc' \in {"menu", "off"}
            \/ pc' = "purge" /\ StartPurge
            \/ pc' \in {"copy_file", "scan"}
               /\ \E m \in Mailboxes : \E del \in BOOLEAN : StartCopy(m, del)
<1>1. CASE Up \/ Down \/ SeekFatal \/ \E r \in Orders : SetOrder(r)
  BY <1>1 DEF Up, Down, GoToNext, SeekFatal, Command, Off, SetOrder
<1>2. CASE Read \/ Tag \/ Delete \/ Undelete \/ Reply \/ Leave
  BY <1>2 DEF Read, Tag, Delete, Undelete, SetStatus, GoToNext, Reply, Leave, Command, Off
<1>3. CASE \E m \in Mailboxes : NewMailbox(m) \/ SwitchMailbox(m)
  BY <1>3 DEF NewMailbox, SwitchMailbox
<1>4. CASE \E m \in Mailboxes : \E del \in BOOLEAN : StartCopy(m, del)
  BY <1>4 DEF StartCopy, Command
<1>5. CASE StartPurge
  BY <1>5 DEF StartPurge, Command
<1> QED
  BY <1>1, <1>2, <1>3, <1>4, <1>5 DEF Key, Press

\* What it writes.
LEMMA KeyWrites ==
  ASSUME TypeOK, IndexNamesSelection, Key
  PROVE  \/ UNCHANGED <<db, listed, files, next>>
         \/ \E m \in Mailboxes : NewMailbox(m)
         \/ \E r \in Rec : Rewrites(r)
<1>1. CASE Up \/ Down \/ SeekFatal \/ Leave \/ StartPurge \/ \E r \in Orders : SetOrder(r)
  BY <1>1 DEF Up, Down, SeekFatal, Leave, StartPurge, SetOrder, disk
<1>2. CASE \E m \in Mailboxes : SwitchMailbox(m) \/ \E del \in BOOLEAN : StartCopy(m, del)
  BY <1>2 DEF SwitchMailbox, StartCopy, disk
<1>3. ASSUME NEW r \in Rec, Command, WriteBack(r), r.num = Selected.num,
             r.hdr = Selected.hdr, r.status = "D" => r.status = Selected.status \/ Delete,
             UNCHANGED <<listed, files, next>>
      PROVE  \E x \in Rec : Rewrites(x)
  <2>1. /\ DbIndex \in DOMAIN Records /\ Records[DbIndex] = Selected
        /\ db' = [db EXCEPT ![curr] = [@ EXCEPT ![DbIndex] = r]]
    BY <1>3, WriteBackRecord
  <2> QED
    BY <1>3, <2>1 DEF Rewrites
<1>4. Command => Selected \in Rec
  BY SelectedType
<1>5. CASE Read
  <2> DEFINE r == [Selected EXCEPT !.status = "R"]
  <2>1. /\ r \in Rec /\ r.num = Selected.num /\ r.hdr = Selected.hdr /\ r.status = "R"
    BY <1>4, <1>5 DEF Read, Rec
  <2>2. Command /\ WriteBack(r) /\ UNCHANGED <<listed, files, next>>
    BY <1>5 DEF Read
  <2> HIDE DEF r
  <2> QED
    BY <2>1, <2>2, <1>3
<1>6. CASE Tag
  <2> DEFINE r == [Selected EXCEPT !.tag = ~@]
  <2>1. /\ r \in Rec /\ r.num = Selected.num /\ r.hdr = Selected.hdr
        /\ r.status = Selected.status
    BY <1>4, <1>6 DEF Tag, Rec
  <2>2. Command /\ WriteBack(r) /\ UNCHANGED <<listed, files, next>>
    BY <1>6 DEF Tag
  <2> HIDE DEF r
  <2> QED
    BY <2>1, <2>2, <1>3
<1>7. CASE Reply
  <2> DEFINE r == [Selected EXCEPT !.tag = FALSE]
  <2>1. /\ r \in Rec /\ r.num = Selected.num /\ r.hdr = Selected.hdr
        /\ r.status = Selected.status
    BY <1>4, <1>7 DEF Reply, Rec
  <2>2. Command /\ WriteBack(r) /\ UNCHANGED <<listed, files, next>>
    BY <1>7 DEF Reply
  <2> HIDE DEF r
  <2> QED
    BY <2>1, <2>2, <1>3
<1>8. ASSUME NEW s \in {"D", "R"}, SetStatus(s), s = "D" => Delete
      PROVE  \E x \in Rec : Rewrites(x)
  <2> DEFINE r == [Selected EXCEPT !.status = s]
  <2>1. /\ r \in Rec /\ r.num = Selected.num /\ r.hdr = Selected.hdr /\ r.status = s
    BY <1>4, <1>8 DEF SetStatus, Rec
  <2>2. Command /\ WriteBack(r) /\ UNCHANGED <<listed, files, next>>
    BY <1>8 DEF SetStatus
  <2> HIDE DEF r
  <2> QED
    BY <2>1, <2>2, <1>3, <1>8
<1>9. CASE Delete \/ Undelete
  BY <1>8, <1>9 DEF Delete, Undelete
<1>10. CASE \E k \in Keys : Press(k)
  BY <1>10, <1>1, <1>2, <1>5, <1>6, <1>7, <1>9 DEF Press
<1> QED
  BY <1>1, <1>10 DEF Key

-----------------------------------------------------------------------------
(* Records and files agree                                                 *)

\* Every key of the summary screen.
LEMMA KeyBoxes ==
  ASSUME Inv, Key
  PROVE  BoxesOK'
<1>0. TypeOK /\ IndexNamesSelection /\ BoxesOK
  BY DEF Inv, IndexOK
<1>d. /\ curr \in Mailboxes /\ db \in [Mailboxes -> Seq(Rec)] /\ Records \in Seq(Rec)
      /\ next \in [Mailboxes -> 0..(MaxNum + 1)]
  BY <1>0, Types
<1>1. pc = "menu"
  BY KeyPc
<1>2. \A k \in Mailboxes : BoxOK(db[k], next[k], files[k])
  BY <1>0, <1>1 DEF BoxesOK, FreeFrom
<1>3. CASE StartPurge
  <2>1. pc' = "purge" /\ job' = [kept |-> << >>, i |-> 1] /\ UNCHANGED <<disk, view>>
    BY <1>3 DEF StartPurge
  <2>2. PurgingOK'
    BY <1>d, <1>2, <2>1 DEF PurgingOK, BoxOK, Records, disk, view
  <2> QED
    BY <1>2, <2>1, <2>2 DEF BoxesOK, FreeFrom, disk, view
<1>4. CASE pc' \in {"menu", "off", "copy_file", "scan"}
  <2>1. CASE UNCHANGED <<db, listed, files, next>>
    BY <1>0, <1>1, <1>4, <2>1, BoxesSame DEF Quiet
  <2>2. ASSUME NEW m \in Mailboxes, NewMailbox(m) PROVE BoxesOK'
    <3>1. /\ next' = [next EXCEPT ![m] = 1] /\ db' = [db EXCEPT ![m] = << >>]
          /\ UNCHANGED files
      BY <2>2 DEF NewMailbox
    <3>2. \A k \in Mailboxes : BoxOK(db'[k], next'[k], files'[k])
      BY <1>d, <1>2, <3>1 DEF BoxOK
    <3> QED
      BY <1>4, <3>2 DEF BoxesOK, FreeFrom
  <2>3. ASSUME NEW r \in Rec, Rewrites(r) PROVE BoxesOK'
    BY <1>0, <1>1, <1>4, <2>3, BoxesWrite DEF Quiet, Rewrites
  <2> QED
    BY <1>0, <2>1, <2>2, <2>3, KeyWrites
<1> QED
  BY <1>3, <1>4, KeyPc

\* What happens to the mailboxes while the program is left.
LEMMA OutsideBoxes ==
  ASSUME Inv, Outside
  PROVE  BoxesOK'
<1>0. TypeOK /\ BoxesOK
  BY DEF Inv, IndexOK
<1>d. /\ db \in [Mailboxes -> Seq(Rec)] /\ Inbox \in Mailboxes
      /\ files \in [Mailboxes -> [Nums -> Msgs \cup {None}]]
      /\ next \in [Mailboxes -> 0..(MaxNum + 1)]
  BY <1>0, Types
<1>1. CASE Boot
  BY <1>0, <1>1, BoxesSame DEF Boot, Quiet, disk
<1>2. CASE DeletePrefs
  BY <1>0, <1>2, BoxesSame DEF DeletePrefs, Quiet
<1>3. ASSUME NEW x \in Msgs, Import(x) PROVE BoxesOK'
  <2> DEFINE n == next[Inbox]
             r == [num |-> n, status |-> "N", tag |-> FALSE, hdr |-> x]
  <2>1. /\ pc = "off" /\ pc' = "off" /\ n \in Nums
        /\ files' = [files EXCEPT ![Inbox] = [@ EXCEPT ![n] = x]]
        /\ db' = [db EXCEPT ![Inbox] = Append(@, r)]
        /\ next' = [next EXCEPT ![Inbox] = n + 1]
    BY <1>3 DEF Import
  <2>2. r \in Rec /\ r.num = n /\ r.hdr = x
    BY <2>1 DEF Rec
  <2> HIDE DEF r
  <2>3. \A m \in Mailboxes : BoxOK(db[m], next[m], files[m])
    BY <1>0, <2>1 DEF BoxesOK, FreeFrom
  <2>4. BoxOK(Append(db[Inbox], r), n + 1, [files[Inbox] EXCEPT ![n] = x])
    <3>1. BoxOK(db[Inbox], n, [files[Inbox] EXCEPT ![n] = x])
      BY <1>d, <2>1, <2>3, BoxFile
    <3>2. [files[Inbox] EXCEPT ![n] = x][n] = x
      BY <1>d, <2>1
    <3> HIDE DEF n
    <3>3. db[Inbox] \in Seq(Rec)
      BY <1>d
    <3> QED
      BY <2>1, <2>2, <3>1, <3>2, <3>3, BoxAppend
  <2>5. \A m \in Mailboxes : BoxOK(db'[m], next'[m], files'[m])
    BY <1>d, <2>1, <2>3, <2>4
  <2> QED
    BY <2>1, <2>5 DEF BoxesOK, FreeFrom
<1> QED
  BY <1>1, <1>2, <1>3 DEF Outside

\* A copy or a move, tagged messages or one: its three writes keep the two
\* mailboxes in order, whether or not they are the same.
LEMMA CopyStepBoxes ==
  ASSUME Inv, CopyStep, Faults = {}
  PROVE  /\ BoxesOK'
         /\ pc' = "copy_db" => files'[job'.dest][job'.num] = job'.rec.hdr
         /\ pc' # "purge_rename"
<1>0. /\ TypeOK /\ BoxesOK
      /\ pc \in CopyPc => CopyFollows
      /\ pc = "copy_db" => files[job.dest][job.num] = job.rec.hdr
  BY DEF Inv, IndexOK
<1>d. /\ curr \in Mailboxes /\ db \in [Mailboxes -> Seq(Rec)] /\ Records \in Seq(Rec)
      /\ files \in [Mailboxes -> [Nums -> Msgs \cup {None}]]
      /\ next \in [Mailboxes -> 0..(MaxNum + 1)]
      /\ pc \in CopyPc \cup {"scan"} => job \in CopyJobs /\ job.dest \in Mailboxes
      /\ pc \in CopyPc => job.rec \in Rec
      /\ pc \in CopyPc \ {"copy_file"} => job.num \in Nums
  BY <1>0, Types
<1>b. pc \in {"scan", "copy_file", "copy_db", "copy_mark"} =>
        \A m \in Mailboxes : BoxOK(db[m], next[m], files[m])
  BY <1>0 DEF BoxesOK, FreeFrom
<1>1. CASE ScanEnd \/ ScanRecord \/ ScanStraddle \/ CopyRefused \/ CopyMarkFatal
  <2>1. /\ pc \in {"scan", "copy_file", "copy_mark"}
        /\ pc' \in {"menu", "scan", "copy_file", "off"}
        /\ UNCHANGED <<db, files, next>>
    BY <1>1 DEF ScanEnd, ScanRecord, ScanStraddle, CopyRefused, CopyMarkFatal, Return, Off, disk
  <2> QED
    BY <1>0, <2>1, BoxesSame DEF Quiet
<1>2. CASE CopyFile
  <2> DEFINE m == job.dest
             n == next[m]
  <2>1. /\ pc = "copy_file" /\ pc' = "copy_db" /\ n \in Nums
        /\ files' = [files EXCEPT ![m] = [@ EXCEPT ![n] = Source]]
        /\ job' = [job EXCEPT !.num = n]
        /\ UNCHANGED <<db, next, curr>>
    BY <1>2 DEF CopyFile, CopyOpens, view
  <2>2. job \in CopyJobs /\ m \in Mailboxes /\ CopyFollows
    BY <1>0, <1>d, <2>1
  <2>3. Source = job.rec.hdr
    BY <1>d, <1>b, <2>1, <2>2 DEF Source, CopyFollows, BoxOK, Records
  <2>4. job'.num = n /\ job'.rec = job.rec /\ job'.dest = m
    BY <2>1, <2>2 DEF CopyJobs
  <2>5. files'[m][n] = Source
    BY <1>d, <2>1, <2>2
  <2>6. BoxOK(db[m], n, [files[m] EXCEPT ![n] = Source])
    BY <1>d, <1>b, <2>1, <2>2, BoxFile
  <2>7. \A k \in Mailboxes : BoxOK(db[k], next[k], files'[k])
    BY <1>d, <1>b, <2>1, <2>2, <2>6
  <2>8. BoxesOK'
    BY <2>1, <2>7 DEF BoxesOK, FreeFrom
  <2> QED
    BY <2>1, <2>3, <2>4, <2>5, <2>8
<1>3. CASE CopyDb
  <2> DEFINE m == job.dest
             r == [job.rec EXCEPT !.num = job.num]
  <2>1. /\ pc = "copy_db" /\ pc' = "copy_next"
        /\ db' = [db EXCEPT ![m] = Append(@, r)]
        /\ UNCHANGED <<files, next, curr, job>>
    BY <1>3 DEF CopyDb, view
  <2>2. /\ m \in Mailboxes /\ job.num = next[m] /\ job.num \in Nums
        /\ files[m][job.num] = job.rec.hdr
    BY <1>0, <1>d, <2>1 DEF CopyFollows
  <2>3. r \in Rec /\ r.num = job.num /\ r.hdr = job.rec.hdr
    BY <1>d, <2>1, <2>2 DEF Rec
  <2> HIDE DEF r
  <2>4. BoxOK(Append(db[m], r), next[m] + 1, files[m])
    <3>1. BoxOK(db[m], next[m], files[m]) /\ db[m] \in Seq(Rec)
      BY <1>d, <1>b, <2>1, <2>2
    <3> QED
      BY <2>2, <2>3, <3>1, BoxAppend
  <2>5. \A k \in Mailboxes :
          BoxOK(db'[k], IF k = m THEN next[k] + 1 ELSE next[k], files[k])
    BY <1>d, <1>b, <2>1, <2>2, <2>4
  <2>6. BoxesOK'
    BY <2>1, <2>5 DEF BoxesOK, FreeFrom
  <2> QED
    BY <2>1, <2>6
<1>4. CASE CopyNext
  <2>1. /\ pc = "copy_next" /\ pc' = "copy_mark"
        /\ next' = [next EXCEPT ![job.dest] = job.num + 1]
        /\ UNCHANGED <<db, files, job>>
    BY <1>4 DEF CopyNext
  <2>2. job.dest \in Mailboxes /\ job.num = next[job.dest]
    BY <1>0, <1>d, <2>1 DEF CopyFollows
  <2>3. \A k \in Mailboxes : BoxOK(db[k], FreeFrom(k), files[k])
    BY <1>0, <2>1 DEF BoxesOK
  <2>4. \A k \in Mailboxes : BoxOK(db[k], next'[k], files[k])
    BY <1>d, <2>1, <2>2, <2>3 DEF FreeFrom
  <2>5. BoxesOK'
    BY <2>1, <2>4 DEF BoxesOK, FreeFrom
  <2> QED
    BY <2>1, <2>5
<1>5. CASE CopyMark
  <2>1. /\ pc = "copy_mark" /\ pc' \in {"scan", "menu"} /\ UNCHANGED <<files, next>>
    BY <1>5 DEF CopyMark, Return
  <2>2. CopyFollows /\ job.idx \in DOMAIN Records
    BY <1>0, <2>1 DEF CopyFollows
  <2>3. PICK r \in Rec :
          /\ r.num = Records[job.idx].num /\ r.hdr = Records[job.idx].hdr
          /\ db' = [db EXCEPT ![curr] = [@ EXCEPT ![job.idx] = r]]
    BY <1>0, <1>5, <2>2, CopyMarkRecord
  <2>4. BoxesOK'
    BY <1>0, <2>1, <2>2, <2>3, BoxesWrite DEF Quiet
  <2> QED
    BY <2>1, <2>4
<1> QED
  BY <1>1, <1>2, <1>3, <1>4, <1>5 DEF CopyStep, CopyDbFull, CopyFileFull

\* A purge: while it runs the files of the kept records stay, and EMAIL.DB.NEW
\* holds the kept records only.
LEMMA PurgeStepBoxes ==
  ASSUME Inv, PurgeStep, Faults = {}
  PROVE  /\ BoxesOK'
         /\ pc' = "purge_rename" => BoxOK(job'.kept, next'[curr'], files'[curr'])
         /\ pc' # "copy_db"
<1>0. /\ TypeOK /\ BoxesOK
      /\ pc = "purge_rename" => BoxOK(job.kept, next[curr], files[curr])
      /\ pc \in PurgePc
  BY DEF Inv, IndexOK, PurgeStep, PurgeRecord, PurgeUnlink, PurgeRename, PurgeFull
<1>d. /\ curr \in Mailboxes /\ db \in [Mailboxes -> Seq(Rec)] /\ Records \in Seq(Rec)
      /\ files \in [Mailboxes -> [Nums -> Msgs \cup {None}]]
      /\ \A m \in Mailboxes : next[m] \in Nat
  BY <1>0, Types
<1>j. job \in PurgeJobs /\ job.kept \in Seq(Rec) /\ job.i \in Nat \ {0}
  BY <1>0, Types
<1>1. CASE PurgeRecord
  <2> DEFINE h == Records[job.i]
  <2>1. /\ pc = "purge" /\ pc' = "purge" /\ job.i \in DOMAIN Records
        /\ UNCHANGED <<db, next, curr>>
    BY <1>d, <1>1, <1>j DEF PurgeRecord, view
  <2>2. PurgingOK
    BY <1>0, <1>d, <2>1 DEF BoxesOK
  <2>3. /\ h \in Rec
        /\ h.num \in Nums
        /\ \A i \in DOMAIN Records : Records[i] \in Rec /\ Records[i].num \in Nums
    BY <1>d, <2>1, RecOfSeq DEF Nums
  <2>4. Records' = Records /\ curr' = curr /\ next' = next
    BY <2>1 DEF Records
  <2>5. \A m \in Mailboxes : m # curr => BoxOK(db[m], next[m], files[m])
    BY <1>0, <2>1 DEF BoxesOK, FreeFrom
  <2>6. CASE h.status = "D"
    <3>1. /\ files' = [files EXCEPT ![curr] = [@ EXCEPT ![h.num] = None]]
          /\ job'.i = job.i + 1 /\ job'.kept = job.kept
      BY <1>1, <1>j, <2>6 DEF PurgeRecord, PurgeJobs
    <3>2. \A n \in Nums : n # h.num => files'[curr][n] = files[curr][n]
      BY <1>d, <3>1
    <3>3. \A i \in DOMAIN Records :
            i >= job'.i \/ Records[i].status # "D" =>
              /\ i # job.i
              /\ i >= job.i \/ Records[i].status # "D"
      BY <1>d, <1>j, <2>6, <3>1
    <3> HIDE DEF h
    <3>4. \A i \in DOMAIN Records : i # job.i => Records[i].num # h.num
      BY <2>1, <2>2 DEF PurgingOK, h
    <3>5. PurgingOK'
      <4>1. \A i \in DOMAIN Records :
              /\ Records[i].num < next[curr]
              /\ (i >= job'.i \/ Records[i].status # "D") =>
                   files'[curr][Records[i].num] = Records[i].hdr
              /\ \A j \in DOMAIN Records : Records[i].num = Records[j].num => i = j
        BY <2>2, <2>3, <3>2, <3>3, <3>4 DEF PurgingOK
      <4>2. \A k \in DOMAIN job.kept :
              /\ \E i \in DOMAIN Records :
                   i < job'.i /\ job.kept[k] = Records[i] /\ Records[i].status # "D"
              /\ \A l \in DOMAIN job.kept : job.kept[k].num = job.kept[l].num => k = l
        <5>1. \A i \in DOMAIN Records : i < job.i => i < job'.i
          BY <1>d, <1>j, <3>1
        <5> QED
          BY <2>2, <5>1 DEF PurgingOK
      <4> QED
        BY <2>4, <3>1, <4>1, <4>2 DEF PurgingOK
    <3>6. \A m \in Mailboxes : m # curr => files'[m] = files[m]
      BY <1>d, <3>1
    <3>7. BoxesOK'
      BY <2>1, <2>4, <2>5, <3>5, <3>6 DEF BoxesOK, FreeFrom
    <3> QED
      BY <2>1, <3>7
  <2>7. CASE h.status # "D"
    <3>1. /\ files' = files
          /\ job'.i = job.i + 1 /\ job'.kept = Append(job.kept, h)
      BY <1>1, <1>j, <2>7 DEF PurgeRecord, PurgeJobs
    <3>2. /\ DOMAIN job'.kept = 1..(Len(job.kept) + 1)
          /\ DOMAIN job.kept = 1..Len(job.kept) /\ Len(job.kept) \in Nat
          /\ job'.kept[Len(job.kept) + 1] = h
          /\ \A k \in 1..Len(job.kept) : job'.kept[k] = job.kept[k]
      BY <1>j, <2>3, <3>1, AppendProperties
    <3> HIDE DEF h
    \* EMAIL.DB.NEW does not hold the record yet, nor another with its number.
    <3>3. \A k \in DOMAIN job.kept : job.kept[k].num # h.num
      BY <1>d, <1>j, <2>1, <2>2 DEF PurgingOK, h
    <3>4. PurgingOK'
      <4>1. \A i \in DOMAIN Records :
              /\ Records[i].num < next[curr]
              /\ (i >= job'.i \/ Records[i].status # "D") =>
                   files'[curr][Records[i].num] = Records[i].hdr
              /\ \A j \in DOMAIN Records : Records[i].num = Records[j].num => i = j
        BY <1>d, <1>j, <2>2, <3>1 DEF PurgingOK
      <4>2. \A k \in DOMAIN job'.kept :
              \E i \in DOMAIN Records :
                i < job'.i /\ job'.kept[k] = Records[i] /\ Records[i].status # "D"
        <5>1. ASSUME NEW k \in 1..Len(job.kept)
              PROVE  \E i \in DOMAIN Records :
                       i < job'.i /\ job'.kept[k] = Records[i] /\ Records[i].status # "D"
          <6>1. k \in DOMAIN job.kept /\ job'.kept[k] = job.kept[k]
            BY <3>2
          <6>2. \A i \in DOMAIN Records : i < job.i => i < job'.i
            BY <1>d, <1>j, <3>1
          <6> QED
            BY <2>2, <6>1, <6>2 DEF PurgingOK
        <5>2. job.i < job'.i /\ h = Records[job.i]
          BY <1>j, <3>1 DEF h
        <5> QED
          BY <2>1, <2>7, <3>2, <5>1, <5>2
      <4>3. \A k, l \in DOMAIN job'.kept : job'.kept[k].num = job'.kept[l].num => k = l
        <5>1. \A k, l \in 1..Len(job.kept) : job'.kept[k].num = job'.kept[l].num => k = l
          BY <2>2, <3>2, ZenonT(40) DEF PurgingOK
        <5>2. \A k \in 1..Len(job.kept) :
                job'.kept[k].num # job'.kept[Len(job.kept) + 1].num
          BY <3>2, <3>3
        <5> QED
          BY <3>2, <5>1, <5>2, SMTT(30)
      <4> QED
        BY <2>4, <3>1, <4>1, <4>2, <4>3 DEF PurgingOK
    <3>5. BoxesOK'
      BY <2>1, <2>4, <2>5, <3>1, <3>4 DEF BoxesOK, FreeFrom
    <3> QED
      BY <2>1, <3>5
  <2> QED
    BY <2>6, <2>7
<1>2. CASE PurgeUnlink
  <2>1. /\ pc = "purge" /\ pc' = "purge_rename" /\ job.i > Len(Records)
        /\ db' = [db EXCEPT ![curr] = << >>]
        /\ UNCHANGED <<files, next, curr, job>>
    BY <1>2 DEF PurgeUnlink, view
  <2>2. PurgingOK /\ \A m \in Mailboxes : m # curr => BoxOK(db[m], next[m], files[m])
    BY <1>0, <1>d, <2>1 DEF BoxesOK, FreeFrom
  <2>3. BoxOK(job.kept, next[curr], files[curr])
    BY <2>2 DEF PurgingOK, BoxOK
  <2>4. BoxOK(<< >>, next[curr], files[curr])
    BY DEF BoxOK
  <2>5. \A m \in Mailboxes : BoxOK(db'[m], next[m], files[m])
    BY <1>d, <2>1, <2>2, <2>4
  <2>6. BoxesOK'
    BY <2>1, <2>5 DEF BoxesOK, FreeFrom
  <2> QED
    BY <2>1, <2>3, <2>6
<1>3. CASE PurgeRename
  <2>1. /\ pc = "purge_rename" /\ pc' = "menu"
        /\ db' = [db EXCEPT ![curr] = job.kept]
        /\ UNCHANGED <<files, next>>
    BY <1>3 DEF PurgeRename, AfterPurge
  <2>2. \A m \in Mailboxes : BoxOK(db'[m], next[m], files[m])
    BY <1>0, <1>d, <2>1 DEF BoxesOK, FreeFrom
  <2>3. BoxesOK'
    BY <2>1, <2>2 DEF BoxesOK, FreeFrom
  <2> QED
    BY <2>1, <2>3
<1> QED
  BY <1>1, <1>2, <1>3 DEF PurgeStep, PurgeFull

LEMMA InvInit == Init => Inv
<1> SUFFICES ASSUME Init PROVE Inv
  OBVIOUS
<1>1. TypeOK /\ \A m \in Mailboxes : db[m] = << >>
  BY InitType DEF Init
<1>2. BoxesOK
  BY <1>1 DEF Init, BoxesOK, BoxOK
<1> QED
  BY <1>1, <1>2 DEF Init, Inv, IndexOK, IndexNamesSelection

\* Every step keeps records and files in agreement, as long as a command works
\* on the record it was given for.
LEMMA InvStep ==
  ASSUME Inv, IndexOK', [Next]_vars, Faults = {}
  PROVE  Inv'
<1>1. CASE Key
  <2>1. pc' \notin {"copy_db", "purge_rename"}
    BY <1>1, KeyPc
  <2> QED
    BY <1>1, <2>1, KeyBoxes DEF Inv
<1>2. CASE Outside
  <2>1. pc' \notin {"copy_db", "purge_rename"}
    BY <1>2 DEF Outside, Boot, DeletePrefs, Import
  <2> QED
    BY <1>2, <2>1, OutsideBoxes DEF Inv
<1>3. CASE CopyStep
  BY <1>3, CopyStepBoxes DEF Inv
<1>4. CASE PurgeStep
  BY <1>4, PurgeStepBoxes DEF Inv
<1>5. CASE Crash
  BY <1>5 DEF Crash
<1>6. CASE UNCHANGED vars
  BY <1>6 DEF vars, disk, view, Inv, BoxesOK, BoxOK, FreeFrom, PurgingOK, Records
<1> QED
  BY <1>1, <1>2, <1>3, <1>4, <1>5, <1>6 DEF Next

\* Without a fault, the records and the files of every mailbox agree whatever
\* the user does.
LEMMA InvHolds ==
  ASSUME Faults = {}, Forward \/ OnePage
  PROVE  Spec => []Inv
<1>1. Inv /\ IndexOK' /\ [Next]_vars => Inv'
  BY InvStep
<1> QED
  BY InvInit, <1>1, IndexHolds, PTL DEF Spec

\* Every message not marked deleted keeps its own file (RecordsOwnFiles).
THEOREM RecordsOwnFilesCorrect ==
  ASSUME Faults = {}, Forward \/ OnePage
  PROVE  Spec => []RecordsOwnFiles
<1>1. Inv => RecordsOwnFiles
  BY DEF Inv, BoxesOK, PurgingOK, BoxOK, RecordsOwnFiles, Live, Records
<1> QED
  BY <1>1, InvHolds, PTL

\* No two records of a mailbox name the same file (UniqueNumbers).
THEOREM UniqueNumbersCorrect ==
  ASSUME Faults = {}, Forward \/ OnePage
  PROVE  Spec => []UniqueNumbers
<1>1. Inv => UniqueNumbers
  BY DEF Inv, BoxesOK, PurgingOK, BoxOK, UniqueNumbers, Records
<1> QED
  BY <1>1, InvHolds, PTL

-----------------------------------------------------------------------------
(* No message is lost                                                      *)

\* Record r of mailbox m shows message x, not deleted, with its file intact.
Shows(m, r, x) == r.status # "D" /\ r.hdr = x /\ files[m][r.num] = x

\* Steps that change no mailbox
LEMMA SameReadable ==
  ASSUME NEW x, UNCHANGED <<db, listed, files>>, pc # "purge_rename", pc' # "purge_rename"
  PROVE  Readable(x) => Readable(x)'
BY DEF Readable, Held

\* Steps that leave every record of a message that can be read in its place
LEMMA InPlaceReadable ==
  ASSUME NEW x, pc # "purge_rename", pc' # "purge_rename",
         \A m \in Mailboxes : m \in listed => m \in listed',
         \A m \in Mailboxes : \A i \in DOMAIN db[m] :
           m \in listed /\ Shows(m, db[m][i], x) =>
             /\ i \in DOMAIN db'[m] /\ db'[m][i].status # "D" /\ db'[m][i].hdr = x
             /\ files'[m][db'[m][i].num] = x
  PROVE  Readable(x) => Readable(x)'
<1> SUFFICES ASSUME Readable(x) PROVE Readable(x)'
  OBVIOUS
<1>1. PICK m \in Mailboxes : \E i \in DOMAIN Held(m) : Shows(m, Held(m)[i], x)
  BY DEF Readable, Shows
<1>2. m \in listed /\ Held(m) = db[m]
  BY <1>1 DEF Held
<1>3. PICK i \in DOMAIN db[m] : Shows(m, db[m][i], x)
  BY <1>1, <1>2
<1>4. Held(m)' = db'[m]
  BY <1>2 DEF Held
<1>5. /\ i \in DOMAIN db'[m] /\ db'[m][i].status # "D" /\ db'[m][i].hdr = x
      /\ files'[m][db'[m][i].num] = x
  BY <1>2, <1>3
<1> QED
  BY <1>4, <1>5 DEF Readable

\* Writing record i back under its number, unless it marks message x deleted
LEMMA WriteReadable ==
  ASSUME TypeOK, NEW x, NEW i \in DOMAIN Records, NEW r,
         pc # "purge_rename", pc' # "purge_rename", UNCHANGED <<listed, files>>,
         db' = [db EXCEPT ![curr] = [@ EXCEPT ![i] = r]],
         r.num = Records[i].num, r.hdr = Records[i].hdr,
         x = Records[i].hdr /\ Records[i].status # "D" => r.status # "D"
  PROVE  Readable(x) => Readable(x)'
<1>1. curr \in Mailboxes /\ db \in [Mailboxes -> Seq(Rec)]
  BY Types
<1>2. \A m \in Mailboxes : m # curr => db'[m] = db[m]
  BY <1>1
<1>3. db'[curr] = [Records EXCEPT ![i] = r]
  BY <1>1 DEF Records
<1>4. /\ DOMAIN db'[curr] = DOMAIN db[curr] /\ db'[curr][i] = r
      /\ \A j \in DOMAIN db[curr] : j # i => db'[curr][j] = db[curr][j]
  BY <1>3 DEF Records
<1>5. ASSUME NEW m \in Mailboxes, NEW j \in DOMAIN db[m], Shows(m, db[m][j], x)
      PROVE  /\ j \in DOMAIN db'[m] /\ db'[m][j].status # "D" /\ db'[m][j].hdr = x
             /\ files'[m][db'[m][j].num] = x
  <2>1. CASE m = curr /\ j = i
    BY <1>4, <1>5, <2>1 DEF Shows, Records
  <2>2. CASE m # curr \/ j # i
    <3>1. j \in DOMAIN db'[m] /\ db'[m][j] = db[m][j]
      BY <1>2, <1>4, <2>2
    <3> QED
      BY <1>5, <3>1 DEF Shows
  <2> QED
    BY <2>1, <2>2
<1> QED
  BY <1>5, InPlaceReadable

\* A key, but D on the message
LEMMA KeyKeepsReadable ==
  ASSUME Inv, Key, NEW x, ~(Command /\ Selected.hdr = x /\ Delete)
  PROVE  Readable(x) => Readable(x)'
<1>0. TypeOK /\ IndexNamesSelection /\ BoxesOK
  BY DEF Inv, IndexOK
<1>d. db \in [Mailboxes -> Seq(Rec)]
  BY <1>0, Types
<1>1. pc = "menu" /\ pc' # "purge_rename"
  BY KeyPc
<1>2. CASE UNCHANGED <<db, listed, files, next>>
  BY <1>1, <1>2, SameReadable
\* A mailbox that was never created has no records.
<1>3. ASSUME NEW m \in Mailboxes, NewMailbox(m) PROVE Readable(x) => Readable(x)'
  <2>1. /\ next[m] = 0 /\ db' = [db EXCEPT ![m] = << >>]
        /\ listed' = listed \cup {m} /\ UNCHANGED files
    BY <1>3 DEF NewMailbox
  <2>2. BoxOK(db[m], 0, files[m])
    BY <1>0, <1>1, <2>1 DEF BoxesOK, FreeFrom
  <2>3. DOMAIN db[m] = {}
    <3>1. \A i \in DOMAIN db[m] : db[m][i].num < 0 /\ db[m][i].num \in 1..MaxNum
      BY <1>d, <2>2, RecOfSeq DEF BoxOK
    <3> QED
      BY <3>1, MailboxAssumption
  <2>4. \A k \in Mailboxes : \A i \in DOMAIN db[k] : db'[k] = db[k]
    BY <1>d, <2>1, <2>3
  <2>5. \A k \in Mailboxes : \A i \in DOMAIN db[k] :
          k \in listed /\ Shows(k, db[k][i], x) =>
            /\ i \in DOMAIN db'[k] /\ db'[k][i].status # "D" /\ db'[k][i].hdr = x
            /\ files'[k][db'[k][i].num] = x
    BY <2>1, <2>4 DEF Shows
  <2> QED
    BY <1>1, <2>1, <2>5, InPlaceReadable
<1>4. ASSUME NEW r \in Rec, Rewrites(r) PROVE Readable(x) => Readable(x)'
  <2>1. x = Selected.hdr /\ Selected.status # "D" => r.status # "D"
    BY <1>4 DEF Rewrites
  <2> QED
    BY <1>0, <1>1, <1>4, <2>1, WriteReadable DEF Rewrites
<1> QED
  BY <1>0, <1>2, <1>3, <1>4, KeyWrites

\* What runs while the program does not: its start, and an import
LEMMA OutsideKeepsReadable ==
  ASSUME Inv, Outside, NEW x
  PROVE  Readable(x) => Readable(x)'
<1>0. /\ db \in [Mailboxes -> Seq(Rec)] /\ Inbox \in Mailboxes
      /\ files \in [Mailboxes -> [Nums -> Msgs \cup {None}]]
  BY Types DEF Inv, IndexOK
<1>1. CASE Boot
  BY <1>1, SameReadable DEF Boot, disk
<1>2. CASE DeletePrefs
  BY <1>2, SameReadable DEF DeletePrefs
<1>3. ASSUME NEW y \in Msgs, Import(y) PROVE Readable(x) => Readable(x)'
  <2> DEFINE n == next[Inbox]
             r == [num |-> n, status |-> "N", tag |-> FALSE, hdr |-> y]
  <2>1. /\ pc = "off" /\ pc' = "off" /\ n \in Nums
        /\ files' = [files EXCEPT ![Inbox] = [@ EXCEPT ![n] = y]]
        /\ db' = [db EXCEPT ![Inbox] = Append(@, r)]
        /\ listed' = listed
    BY <1>3 DEF Import
  <2>2. r \in Rec
    BY <2>1 DEF Rec
  <2> HIDE DEF r
  <2>3. BoxOK(db[Inbox], n, files[Inbox])
    BY <1>0, <2>1 DEF Inv, BoxesOK, FreeFrom
  <2>4. \A i \in DOMAIN db[Inbox] : i \in DOMAIN db'[Inbox] /\ db'[Inbox][i] = db[Inbox][i]
    <3>1. db'[Inbox] = Append(db[Inbox], r) /\ db[Inbox] \in Seq(Rec)
      BY <1>0, <2>1
    <3> QED
      BY <2>2, <3>1, AppendProperties
  <2>5. \A i \in DOMAIN db[Inbox] : files'[Inbox][db[Inbox][i].num] = files[Inbox][db[Inbox][i].num]
    <3>1. \A i \in DOMAIN db[Inbox] : db[Inbox][i].num \in Nums /\ db[Inbox][i].num # n
      BY <1>0, <2>1, <2>3, RecOfSeq, MailboxAssumption DEF BoxOK, Nums
    <3> QED
      BY <1>0, <2>1, <3>1
  <2>6. \A m \in Mailboxes : m # Inbox => db'[m] = db[m] /\ files'[m] = files[m]
    BY <1>0, <2>1
  <2>7. \A m \in Mailboxes : \A i \in DOMAIN db[m] : Shows(m, db[m][i], x) =>
          /\ i \in DOMAIN db'[m] /\ db'[m][i].status # "D" /\ db'[m][i].hdr = x
          /\ files'[m][db'[m][i].num] = x
    BY <2>4, <2>5, <2>6 DEF Shows
  <2> QED
    BY <2>1, <2>7, InPlaceReadable
<1> QED
  BY <1>1, <1>2, <1>3 DEF Outside

\* A copy or a move: the copy is on disk and listed when a move marks its source.
LEMMA CopyKeepsReadable ==
  ASSUME SafeInv, CopyStep, Faults = {}, NEW x
  PROVE  Readable(x) => Readable(x)'
<1>0. /\ TypeOK /\ BoxesOK /\ CopyListed
      /\ pc \in CopyPc => CopyFollows
  BY DEF SafeInv, Inv, IndexOK
<1>d. /\ curr \in Mailboxes /\ db \in [Mailboxes -> Seq(Rec)] /\ Records \in Seq(Rec)
      /\ files \in [Mailboxes -> [Nums -> Msgs \cup {None}]]
      /\ pc \in CopyPc => job.rec \in Rec /\ job.dest \in Mailboxes
      /\ pc \in CopyPc \ {"copy_file"} => job.num \in Nums
  BY <1>0, Types
<1>b. pc \in {"copy_file", "copy_db", "copy_mark"} =>
        \A m \in Mailboxes : BoxOK(db[m], next[m], files[m])
  BY <1>0 DEF BoxesOK, FreeFrom
<1>1. CASE ScanEnd \/ ScanRecord \/ ScanStraddle \/ CopyRefused \/ CopyNext \/ CopyMarkFatal
  <2>1. pc # "purge_rename" /\ pc' # "purge_rename" /\ UNCHANGED <<db, listed, files>>
    BY <1>1 DEF ScanEnd, ScanRecord, ScanStraddle, CopyRefused, CopyNext, CopyMarkFatal, Return,
       Off, disk
  <2> QED
    BY <2>1, SameReadable
\* The new file has a number that no record of its mailbox has.
<1>2. CASE CopyFile
  <2> DEFINE n == next[job.dest]
  <2>1. /\ pc = "copy_file" /\ pc' = "copy_db" /\ n \in Nums
        /\ files' = [files EXCEPT ![job.dest] = [@ EXCEPT ![n] = Source]]
        /\ UNCHANGED <<db, listed>>
    BY <1>2 DEF CopyFile, CopyOpens
  <2>2. job.dest \in Mailboxes /\ BoxOK(db[job.dest], n, files[job.dest])
    BY <1>d, <1>b, <2>1
  <2>3. \A i \in DOMAIN db[job.dest] :
          files'[job.dest][db[job.dest][i].num] = files[job.dest][db[job.dest][i].num]
    <3>1. \A i \in DOMAIN db[job.dest] :
            db[job.dest][i].num \in Nums /\ db[job.dest][i].num # n
      BY <1>d, <2>1, <2>2, RecOfSeq, MailboxAssumption DEF BoxOK, Nums
    <3> QED
      BY <1>d, <2>1, <2>2, <3>1
  <2>4. \A m \in Mailboxes : m # job.dest => files'[m] = files[m]
    BY <1>d, <2>1
  <2>5. \A m \in Mailboxes : \A i \in DOMAIN db[m] : Shows(m, db[m][i], x) =>
          /\ i \in DOMAIN db'[m] /\ db'[m][i].status # "D" /\ db'[m][i].hdr = x
          /\ files'[m][db'[m][i].num] = x
    BY <2>1, <2>3, <2>4 DEF Shows
  <2> QED
    BY <2>1, <2>5, InPlaceReadable
<1>3. CASE CopyDb
  <2> DEFINE r == [job.rec EXCEPT !.num = job.num]
  <2>1. /\ pc = "copy_db" /\ pc' = "copy_next"
        /\ db' = [db EXCEPT ![job.dest] = Append(@, r)]
        /\ listed' = listed \cup {job.dest} /\ UNCHANGED files
    BY <1>3 DEF CopyDb
  <2>2. job.dest \in Mailboxes /\ r \in Rec
    BY <1>d, <2>1 DEF Rec
  <2> HIDE DEF r
  <2>3. \A m \in Mailboxes : \A i \in DOMAIN db[m] :
          i \in DOMAIN db'[m] /\ db'[m][i] = db[m][i]
    BY <1>d, <2>1, <2>2, AppendProperties
  <2>4. \A m \in Mailboxes : \A i \in DOMAIN db[m] : Shows(m, db[m][i], x) =>
          /\ i \in DOMAIN db'[m] /\ db'[m][i].status # "D" /\ db'[m][i].hdr = x
          /\ files'[m][db'[m][i].num] = x
    BY <2>1, <2>3 DEF Shows
  <2> QED
    BY <2>1, <2>4, InPlaceReadable
<1>4. CASE CopyMark
  <2>1. /\ pc = "copy_mark" /\ Return /\ UNCHANGED <<listed, files>>
    BY <1>4 DEF CopyMark
  <2>2. /\ job.rec \in Rec /\ job.dest \in Mailboxes /\ job.num \in Nums
        /\ CopyFollows /\ job.idx \in DOMAIN Records
        /\ Records[job.idx].num = job.rec.num /\ Records[job.idx].hdr = job.rec.hdr
        /\ Records[job.idx].status = job.rec.status
    BY <1>0, <1>d, <2>1 DEF CopyFollows
  <2>3. PICK r \in Rec :
          /\ r.num = Records[job.idx].num /\ r.hdr = Records[job.idx].hdr
          /\ r.status = IF job.del THEN "D" ELSE Records[job.idx].status
          /\ db' = [db EXCEPT ![curr] = [@ EXCEPT ![job.idx] = r]]
    BY <1>0, <1>4, <2>2, CopyMarkRecord
  <2>5. pc # "purge_rename" /\ pc' # "purge_rename"
    BY <2>1 DEF Return
<2>6. CASE x = Records[job.idx].hdr /\ Records[job.idx].status # "D"
    <3>1. PICK j \in DOMAIN db[job.dest] :
            /\ db[job.dest][j] = [job.rec EXCEPT !.num = job.num]
            /\ job.dest = curr => j # job.idx
      BY <1>0, <2>1 DEF CopyListed
    <3>2. job.dest \in listed
      BY <1>0, <2>1 DEF CopyListed
    <3>3. db'[job.dest][j] = db[job.dest][j] /\ j \in DOMAIN db'[job.dest]
      BY <1>d, <2>2, <2>3, <3>1
    <3>4. Shows(job.dest, db[job.dest][j], x)
      <4>1. /\ db[job.dest][j].num = job.num /\ db[job.dest][j].hdr = x
            /\ db[job.dest][j].status # "D"
        BY <2>2, <2>6, <3>1 DEF Rec
      <4> QED
        BY <1>b, <2>1, <2>2, <3>1, <4>1 DEF BoxOK, Shows
    <3>5. PICK m \in Mailboxes : m = job.dest
      BY <2>2
    <3>6. Held(m)' = db'[m]
      BY <2>1, <2>5, <3>2, <3>5 DEF Held
    <3>7. /\ j \in DOMAIN db'[m] /\ db'[m][j].status # "D" /\ db'[m][j].hdr = x
          /\ files'[m][db'[m][j].num] = x
      BY <2>1, <3>3, <3>4, <3>5 DEF Shows
    <3> QED
      BY <3>6, <3>7 DEF Readable
  <2>7. CASE ~(x = Records[job.idx].hdr /\ Records[job.idx].status # "D")
    BY <1>0, <2>1, <2>2, <2>3, <2>5, <2>7, WriteReadable
  <2> QED
    BY <2>6, <2>7
<1> QED
  BY <1>1, <1>2, <1>3, <1>4 DEF CopyStep, CopyFileFull, CopyDbFull

\* A purge: only the files of deleted records go, and EMAIL.DB.NEW has the rest.
LEMMA PurgeKeepsReadable ==
  ASSUME SafeInv, PurgeStep, Faults = {}, NEW x
  PROVE  Readable(x) => Readable(x)'
<1>0. TypeOK /\ BoxesOK /\ KeptSoFar
  BY DEF SafeInv, Inv, IndexOK
<1>d. /\ curr \in Mailboxes /\ db \in [Mailboxes -> Seq(Rec)] /\ Records \in Seq(Rec)
      /\ files \in [Mailboxes -> [Nums -> Msgs \cup {None}]]
  BY <1>0, Types
<1>j. job.kept \in Seq(Rec) /\ job.i \in Nat \ {0}
  BY <1>0, Types DEF PurgeStep, PurgeRecord, PurgeUnlink, PurgeRename, PurgeFull
<1>1. CASE PurgeRecord
  <2>1. /\ pc = "purge" /\ pc' = "purge" /\ job.i \in DOMAIN Records
        /\ UNCHANGED <<db, listed>>
    BY <1>0, <1>d, <1>1, <1>j DEF PurgeRecord
  <2>2. PurgingOK
    BY <1>0, <1>d, <2>1 DEF BoxesOK
  <2>3. CASE files' = files
    BY <2>1, <2>3, SameReadable
  <2>4. CASE /\ Records[job.i].status = "D"
             /\ files' = [files EXCEPT ![curr] = [@ EXCEPT ![Records[job.i].num] = None]]
    <3>1. \A i \in DOMAIN Records : Records[i].status # "D" =>
            Records[i].num \in Nums /\ Records[i].num # Records[job.i].num
      BY <1>0, <1>d, <2>1, <2>2, <2>4, RecOfSeq DEF PurgingOK, Nums
    <3>2. \A i \in DOMAIN Records : Records[i].status # "D" =>
            files'[curr][Records[i].num] = files[curr][Records[i].num]
      BY <1>0, <1>d, <2>4, <3>1
    <3>3. \A m \in Mailboxes : m # curr => files'[m] = files[m]
      BY <1>0, <1>d, <2>4
    <3>4. \A m \in Mailboxes : \A i \in DOMAIN db[m] : Shows(m, db[m][i], x) =>
            /\ i \in DOMAIN db'[m] /\ db'[m][i].status # "D" /\ db'[m][i].hdr = x
            /\ files'[m][db'[m][i].num] = x
      BY <2>1, <3>2, <3>3 DEF Shows, Records
    <3> QED
      BY <2>1, <3>4, InPlaceReadable
  <2> QED
    BY <1>1, <2>3, <2>4 DEF PurgeRecord
\* From here on the records shown are those of EMAIL.DB.NEW.
<1>2. CASE PurgeUnlink
  <2>1. /\ pc = "purge" /\ pc' = "purge_rename" /\ job.i > Len(Records)
        /\ db' = [db EXCEPT ![curr] = << >>] /\ listed' = listed \ {curr}
        /\ curr' = curr /\ UNCHANGED <<files, job>>
    BY <1>2 DEF PurgeUnlink, view
  <2> SUFFICES ASSUME Readable(x) PROVE Readable(x)'
    OBVIOUS
  <2>2. PICK m \in Mailboxes : \E i \in DOMAIN Held(m) : Shows(m, Held(m)[i], x)
    BY DEF Readable, Shows
  <2>3. m \in listed /\ Held(m) = db[m]
    BY <2>1, <2>2 DEF Held
  <2>4. PICK i \in DOMAIN db[m] : Shows(m, db[m][i], x)
    BY <2>2, <2>3
  <2>5. CASE m # curr
    <3>1. Held(m)' = db[m]
      BY <1>0, <1>d, <2>1, <2>3, <2>5 DEF Held
    <3> QED
      BY <2>1, <2>4, <3>1 DEF Readable, Shows
  <2>6. CASE m = curr
    <3>1. i \in DOMAIN Records /\ i < job.i /\ Records[i].status # "D"
      BY <1>0, <1>d, <1>j, <2>1, <2>4, <2>6 DEF Shows, Records
    <3>2. PICK k \in DOMAIN job.kept : job.kept[k] = Records[i]
      BY <1>0, <1>d, <2>1, <3>1 DEF KeptSoFar
    <3>3. Held(m)' = job.kept
      BY <2>1, <2>6 DEF Held
    <3> QED
      BY <2>1, <2>4, <2>6, <3>2, <3>3 DEF Readable, Shows, Records
  <2> QED
    BY <2>5, <2>6
<1>3. CASE PurgeRename
  <2>1. /\ pc = "purge_rename" /\ pc' = "menu" /\ curr' = curr
        /\ db' = [db EXCEPT ![curr] = job.kept] /\ listed' = listed \cup {curr}
        /\ UNCHANGED files
    BY <1>3 DEF PurgeRename, AfterPurge
  <2> SUFFICES ASSUME Readable(x) PROVE Readable(x)'
    OBVIOUS
  <2>2. PICK m \in Mailboxes : \E i \in DOMAIN Held(m) : Shows(m, Held(m)[i], x)
    BY DEF Readable, Shows
  <2>3. Held(m)' = Held(m)
    <3>1. CASE m = curr
      BY <1>0, <1>d, <2>1, <3>1 DEF Held
    <3>2. CASE m # curr
      BY <1>0, <1>d, <2>1, <3>2 DEF Held
    <3> QED
      BY <3>1, <3>2
  <2> QED
    BY <2>1, <2>2, <2>3 DEF Readable, Shows
<1> QED
  BY <1>1, <1>2, <1>3 DEF PurgeStep, PurgeFull

\* Where the steps between the writes of a copy come from.
LEMMA CopyingSteps ==
  ASSUME Next, pc' \in {"copy_db", "copy_next", "copy_mark"}
  PROVE  CopyFile \/ CopyDb \/ CopyNext
<1>1. ~Key
  BY KeyPc
<1>2. ~Outside
  BY DEF Outside, Boot, DeletePrefs, Import
<1>3. ~PurgeStep /\ ~Crash
  BY DEF PurgeStep, PurgeRecord, PurgeUnlink, PurgeRename, PurgeFull, AfterPurge, Crash, Off
<1>4. CASE CopyStep
  <2>1. ~ScanEnd /\ ~ScanRecord /\ ~ScanStraddle
    BY DEF ScanEnd, ScanRecord, ScanStraddle
  <2>2. ~Return
    BY DEF Return
  <2>3. ~CopyRefused /\ ~CopyFileFull /\ ~CopyDbFull /\ ~CopyMark /\ ~CopyMarkFatal
    BY <2>2 DEF CopyRefused, CopyFileFull, CopyDbFull, CopyMark, CopyMarkFatal, Off
  <2> QED
    BY <1>4, <2>1, <2>3 DEF CopyStep
<1> QED
  BY <1>1, <1>2, <1>3, <1>4 DEF Next

\* A copy is listed, as another record, before a move marks its source: also
\* when a reset before has left a number to be given twice.
LEMMA CopyListedStep ==
  ASSUME IndexOK, CopyListed, [Next]_vars
  PROVE  CopyListed'
<1>0. TypeOK /\ (pc \in CopyPc => CopyFollows)
  BY DEF IndexOK
<1>d. /\ curr \in Mailboxes /\ db \in [Mailboxes -> Seq(Rec)] /\ Records \in Seq(Rec)
      /\ pc \in CopyPc => job \in CopyJobs /\ job.rec \in Rec /\ job.dest \in Mailboxes
  BY <1>0, Types
<1>1. CASE CopyDb
  <2> DEFINE r == [job.rec EXCEPT !.num = job.num]
             j == Len(db[job.dest]) + 1
  <2>1. /\ pc = "copy_db" /\ pc' = "copy_next"
        /\ db' = [db EXCEPT ![job.dest] = Append(@, r)]
        /\ listed' = listed \cup {job.dest} /\ UNCHANGED <<job, curr>>
    BY <1>1 DEF CopyDb, view
  <2>2. job.dest \in Mailboxes /\ job.idx \in DOMAIN Records /\ r \in Rec
    BY <1>0, <1>1, <1>d, <2>1, CopyDbFollows DEF CopyFollows
  <2>3. db'[job.dest] = Append(db[job.dest], r) /\ db[job.dest] \in Seq(Rec)
    BY <1>d, <2>1, <2>2
  <2>4. job.dest = curr => j # job.idx
    BY <1>d, <2>2 DEF Records
  <2> HIDE DEF r
  <2>5. j \in DOMAIN db'[job.dest] /\ db'[job.dest][j] = r
    BY <2>2, <2>3, AppendProperties
  <2> HIDE DEF j
  <2>6. \E l \in DOMAIN db'[job.dest] :
          /\ db'[job.dest][l] = [job.rec EXCEPT !.num = job.num]
          /\ job.dest = curr => l # job.idx
    BY <2>4, <2>5 DEF r
  <2> QED
    BY <2>1, <2>6 DEF CopyListed
<1>2. CASE CopyNext
  BY <1>2 DEF CopyNext, view, CopyListed
<1>3. CASE UNCHANGED vars
  BY <1>3 DEF vars, disk, view, CopyListed
<1>4. CASE pc' \notin {"copy_next", "copy_mark"}
  BY <1>4 DEF CopyListed
<1>5. CASE CopyFile
  BY <1>5 DEF CopyFile, CopyListed
<1> QED
  BY <1>1, <1>2, <1>3, <1>4, <1>5, CopyingSteps

\* A purge keeps what is not marked as it goes.
LEMMA KeptSoFarStep ==
  ASSUME TypeOK, KeptSoFar, [Next]_vars
  PROVE  KeptSoFar'
<1>d. Records \in Seq(Rec)
  BY Types
<1>q. ASSUME pc' # "purge" PROVE KeptSoFar'
  BY <1>q DEF KeptSoFar
<1>1. CASE Key
  <2>1. CASE StartPurge
    <3>1. pc' = "purge" /\ job'.i = 1 /\ Records' = Records
      BY <2>1 DEF StartPurge, disk, view, Records
    <3>2. \A i \in DOMAIN Records : ~(i < 1)
      BY <1>d
    <3> QED
      BY <3>1, <3>2 DEF KeptSoFar
  <2> QED
    BY <1>1, <1>q, <2>1, KeyPc
<1>2. CASE Outside
  BY <1>2, <1>q DEF Outside, Boot, DeletePrefs, Import
<1>3. CASE CopyStep
  <2>1. Return => pc' # "purge"
    BY DEF Return
  <2> QED
    BY <1>3, <1>q, <2>1 DEF CopyStep, ScanEnd, ScanRecord, ScanStraddle, CopyRefused, CopyFile,
       CopyFileFull,        CopyDb, CopyDbFull, CopyNext, CopyMark, CopyMarkFatal, CopyOpens, Off
<1>4. CASE PurgeUnlink \/ PurgeRename \/ PurgeFull
  BY <1>4, <1>q DEF PurgeUnlink, PurgeRename, PurgeFull, AfterPurge
<1>5. CASE PurgeRecord
  <2> DEFINE h == Records[job.i]
  <2>0. pc = "purge" /\ pc' = "purge" /\ Records' = Records /\ job.i <= Len(Records)
    BY <1>5 DEF PurgeRecord, view, Records
  <2>1. job \in PurgeJobs /\ job.kept \in Seq(Rec) /\ job.i \in Nat \ {0}
    BY <2>0, Types
  <2>2. job.i \in DOMAIN Records /\ h \in Rec
    BY <1>d, <2>0, <2>1, RecOfSeq
  <2>3. /\ job'.i = job.i + 1
        /\ job'.kept = IF h.status = "D" THEN job.kept ELSE Append(job.kept, h)
    BY <1>5, <2>1 DEF PurgeRecord, PurgeJobs
  <2>4. \A i \in DOMAIN Records : i < job'.i => i < job.i \/ i = job.i
    BY <1>d, <2>1, <2>3
  <2> HIDE DEF h
  <2>5. /\ \A k \in DOMAIN job.kept : k \in DOMAIN job'.kept /\ job'.kept[k] = job.kept[k]
        /\ h.status # "D" => \E k \in DOMAIN job'.kept : job'.kept[k] = h
    BY <2>1, <2>2, <2>3, AppendProperties
  <2>6. ASSUME NEW i \in DOMAIN Records, i < job'.i, Records[i].status # "D"
        PROVE  \E k \in DOMAIN job'.kept : job'.kept[k] = Records[i]
    <3>1. CASE i < job.i
      BY <2>0, <2>5, <2>6, <3>1 DEF KeptSoFar
    <3>2. CASE i = job.i
      BY <2>5, <2>6, <3>2 DEF h
    <3> QED
      BY <2>4, <2>6, <3>1, <3>2
  <2> QED
    BY <2>0, <2>6 DEF KeptSoFar
<1>6. CASE Crash
  BY <1>6, <1>q DEF Crash, Off
<1>7. CASE UNCHANGED vars
  BY <1>7 DEF vars, disk, view, KeptSoFar, Records
<1> QED
  BY <1>1, <1>2, <1>3, <1>4, <1>5, <1>6, <1>7 DEF Next, PurgeStep

\* No step but the D key on it takes the last readable copy of a message away
\* (NeverLost): not a move, a purge, an import or a change of mailbox.
THEOREM NoMessageLost ==
  ASSUME Faults = {}, Forward \/ OnePage
  PROVE  Spec => NeverLost
<1>1. Init => SafeInv
  BY InvInit DEF SafeInv, CopyListed, KeptSoFar, Init
<1>2. SafeInv /\ IndexOK' /\ [Next]_vars => SafeInv'
  <2> SUFFICES ASSUME SafeInv, IndexOK', [Next]_vars PROVE SafeInv'
    OBVIOUS
  <2>1. Inv /\ IndexOK /\ TypeOK /\ CopyListed /\ KeptSoFar
    BY DEF SafeInv, Inv, IndexOK
  <2>2. Inv'
    BY <2>1, InvStep
  <2>3. CopyListed'
    BY <2>1, CopyListedStep
  <2>4. KeptSoFar'
    BY <2>1, KeptSoFarStep
  <2> QED
    BY <2>2, <2>3, <2>4 DEF SafeInv
<1>3. SafeInv /\ [Next]_vars =>
        [\A x \in Msgs : Readable(x) =>
           Readable(x)' \/ (Command /\ Selected.hdr = x /\ Delete)]_vars
  <2> SUFFICES ASSUME SafeInv, Next, NEW x \in Msgs, Readable(x),
                      ~(Command /\ Selected.hdr = x /\ Delete)
               PROVE  Readable(x)'
    OBVIOUS
  <2>0. Inv
    BY DEF SafeInv
  <2>1. CASE Key
    BY <2>0, <2>1, KeyKeepsReadable
  <2>2. CASE Outside
    BY <2>0, <2>2, OutsideKeepsReadable
  <2>3. CASE CopyStep
    BY <2>3, CopyKeepsReadable
  <2>4. CASE PurgeStep
    BY <2>4, PurgeKeepsReadable
  <2>5. CASE Crash
    BY <2>5 DEF Crash
  <2> QED
    BY <2>1, <2>2, <2>3, <2>4, <2>5 DEF Next
<1> QED
  BY <1>1, <1>2, <1>3, IndexHolds, PTL DEF Spec, NeverLost

-----------------------------------------------------------------------------
(* A move after a reset                                                    *)

\* The new file holds what its source holds until the copy is done.
LEMMA CopiedWholeStep ==
  ASSUME IndexOK, CopiedWhole, [Next]_vars
  PROVE  CopiedWhole'
<1>0. TypeOK
  BY DEF IndexOK
<1>d. /\ curr \in Mailboxes
      /\ files \in [Mailboxes -> [Nums -> Msgs \cup {None}]]
      /\ pc \in CopyPc => job \in CopyJobs /\ job.rec \in Rec /\ job.dest \in Mailboxes
  BY <1>0, Types
<1>1. CASE CopyFile
  <2> DEFINE n == next[job.dest]
  <2>1. /\ pc = "copy_file" /\ n \in Nums /\ curr' = curr
        /\ files' = [files EXCEPT ![job.dest] = [@ EXCEPT ![n] = Source]]
        /\ job' = [job EXCEPT !.num = n]
    BY <1>1 DEF CopyFile, CopyOpens, view
  <2>2. /\ job.rec.num \in Nums /\ job.dest \in Mailboxes
        /\ job'.rec = job.rec /\ job'.dest = job.dest /\ job'.num = n
    BY <1>d, <2>1 DEF CopyJobs, Rec
  <2> HIDE DEF n
  <2>3. files'[job.dest][n] = Source
    BY <1>d, <2>1, <2>2
  <2>4. files'[curr][job.rec.num] = Source
    BY <1>d, <2>1, <2>2 DEF Source
  <2> QED
    BY <2>1, <2>2, <2>3, <2>4 DEF CopiedWhole
<1>2. CASE CopyDb \/ CopyNext
  BY <1>2 DEF CopyDb, CopyNext, view, CopiedWhole
<1>3. CASE UNCHANGED vars
  BY <1>3 DEF vars, disk, view, CopiedWhole
<1>4. CASE pc' \notin {"copy_db", "copy_next", "copy_mark"}
  BY <1>4 DEF CopiedWhole
<1> QED
  BY <1>1, <1>2, <1>3, <1>4, CopyingSteps

\* Of the steps of a copy only its last one marks a record.
LEMMA MarkingSteps ==
  ASSUME TypeOK, pc \in CopyPc, CopyFollows, Next, NEW i \in DOMAIN Records,
         Records[i].status # "D", db'[curr][i].status = "D"
  PROVE  CopyMark
<1>d. curr \in Mailboxes /\ db \in [Mailboxes -> Seq(Rec)] /\ Records \in Seq(Rec)
  BY Types
<1>1. db'[curr] # Records
  OBVIOUS
<1>2. ~Key
  BY KeyPc
<1>3. ~Outside
  BY DEF Outside, Boot, DeletePrefs, Import
<1>4. ~PurgeStep
  BY DEF PurgeStep, PurgeRecord, PurgeUnlink, PurgeRename, PurgeFull
<1>5. ~Crash
  BY <1>1 DEF Crash, disk, Records
<1>6. ASSUME CopyDb PROVE FALSE
  <2> DEFINE r == [job.rec EXCEPT !.num = job.num]
  <2>1. /\ db' = [db EXCEPT ![job.dest] = Append(@, r)]
        /\ r \in Rec
    BY <1>6, CopyDbFollows DEF CopyDb
  <2> HIDE DEF r
  <2>2. db'[curr] = IF job.dest = curr THEN Append(Records, r) ELSE Records
    BY <1>d, <2>1 DEF Records
  <2>3. Append(Records, r)[i] = Records[i]
    BY <1>d, <2>1, AppendProperties
  <2> QED
    BY <2>2, <2>3
<1>7. CASE CopyStep
  <2>1. ~ScanEnd /\ ~ScanRecord /\ ~ScanStraddle
    BY DEF ScanEnd, ScanRecord, ScanStraddle
  <2>2. ~CopyRefused /\ ~CopyFile /\ ~CopyFileFull /\ ~CopyDbFull /\ ~CopyNext /\ ~CopyMarkFatal
    BY <1>1 DEF CopyRefused, CopyFile, CopyFileFull, CopyDbFull, CopyNext, CopyMarkFatal,
       disk, Records
  <2> QED
    BY <1>6, <1>7, <2>1, <2>2 DEF CopyStep
<1> QED
  BY <1>2, <1>3, <1>4, <1>5, <1>7 DEF Next

\* The record a move marks has its copy; every other record stays as it is.
LEMMA MarkKeepsReadable ==
  ASSUME TypeOK, CopyFollows, MoveInv, CopyMark, NEW x, Readable(x)
  PROVE  Readable(x)'
<1>0. pc = "copy_mark" /\ pc' # "purge_rename" /\ UNCHANGED <<listed, files>>
  BY DEF CopyMark, Return
<1>1. /\ curr \in Mailboxes /\ db \in [Mailboxes -> Seq(Rec)] /\ Records \in Seq(Rec)
      /\ job.rec \in Rec /\ job.dest \in Mailboxes /\ job.num \in Nums
  BY <1>0, Types
<1>2. /\ job.idx \in DOMAIN Records
      /\ Records[job.idx].num = job.rec.num /\ Records[job.idx].hdr = job.rec.hdr
      /\ Records[job.idx].status = job.rec.status
  BY DEF CopyFollows
<1>3. PICK r \in Rec : db' = [db EXCEPT ![curr] = [@ EXCEPT ![job.idx] = r]]
  BY CopyMarkRecord
<1>4. \A m \in Mailboxes : \A i \in DOMAIN db[m] :
        m # curr \/ i # job.idx => i \in DOMAIN db'[m] /\ db'[m][i] = db[m][i]
  BY <1>1, <1>2, <1>3 DEF Records
<1>5. ASSUME NEW m \in Mailboxes, m \in listed, NEW i \in DOMAIN db[m],
             Shows(m, db[m][i], x), m # curr \/ i # job.idx
      PROVE  Readable(x)'
  <2>1. i \in DOMAIN db'[m] /\ db'[m][i] = db[m][i]
    BY <1>4, <1>5
  <2>2. Held(m)' = db'[m]
    BY <1>0, <1>5 DEF Held
  <2> QED
    BY <1>0, <1>5, <2>1, <2>2 DEF Readable, Shows
<1>6. PICK m \in Mailboxes : \E i \in DOMAIN Held(m) : Shows(m, Held(m)[i], x)
  BY DEF Readable, Shows
<1>7. m \in listed /\ Held(m) = db[m]
  BY <1>0, <1>6 DEF Held
<1>8. PICK i \in DOMAIN db[m] : Shows(m, db[m][i], x)
  BY <1>6, <1>7
<1>9. CASE m = curr /\ i = job.idx
  <2>1. job.rec.status # "D" /\ job.rec.hdr = x /\ files[curr][job.rec.num] = x
    BY <1>2, <1>8, <1>9 DEF Shows, Records
  <2>2. PICK j \in DOMAIN db[job.dest] :
          /\ db[job.dest][j] = [job.rec EXCEPT !.num = job.num]
          /\ job.dest = curr => j # job.idx
    BY <1>0 DEF MoveInv, CopyListed
  <2>3. job.dest \in listed /\ files[job.dest][job.num] = files[curr][job.rec.num]
    BY <1>0 DEF MoveInv, CopyListed, CopiedWhole
  <2>4. /\ db[job.dest][j].num = job.num /\ db[job.dest][j].hdr = job.rec.hdr
        /\ db[job.dest][j].status = job.rec.status
    BY <1>1, <2>2 DEF Rec
  <2>5. Shows(job.dest, db[job.dest][j], x)
    BY <2>1, <2>3, <2>4 DEF Shows
  <2> QED
    BY <1>1, <1>5, <2>2, <2>3, <2>5
<1>10. CASE m # curr \/ i # job.idx
  BY <1>5, <1>7, <1>8, <1>10
<1> QED
  BY <1>9, <1>10

\* A move never marks the only readable copy of its message as deleted, also
\* after resets that made NEXT.EMAIL give a number twice (MoveKeepsMessage).
THEOREM MoveKeepsMessageCorrect ==
  ASSUME Forward \/ OnePage
  PROVE  Spec => MoveKeepsMessage
<1>1. Init => MoveInv
  BY DEF MoveInv, CopyListed, CopiedWhole, Init
<1>2. IndexOK /\ MoveInv /\ [Next]_vars => MoveInv'
  BY CopyListedStep, CopiedWholeStep DEF MoveInv
<1>3. IndexOK /\ MoveInv /\ [Next]_vars =>
        [\A x \in Msgs :
           /\ pc \in CopyPc
           /\ Readable(x)
           /\ \E i \in DOMAIN Records :
                Records[i].hdr = x /\ Records[i].status # "D" /\ db'[curr][i].status = "D"
           => Readable(x)']_vars
  <2> SUFFICES ASSUME IndexOK, MoveInv, Next, NEW x \in Msgs, pc \in CopyPc, Readable(x),
                      NEW i \in DOMAIN Records, Records[i].status # "D",
                      db'[curr][i].status = "D"
               PROVE  Readable(x)'
    OBVIOUS
  <2>1. TypeOK /\ CopyFollows
    BY DEF IndexOK
  <2>2. CopyMark
    BY <2>1, MarkingSteps
  <2> QED
    BY <2>1, <2>2, MarkKeepsReadable
<1> QED
  BY <1>1, <1>2, <1>3, IndexHolds, PTL DEF Spec, MoveKeepsMessage

-----------------------------------------------------------------------------
(* A command over the tagged messages reaches all of them                  *)

\* A record without a file of its own stays one while numbers and files stay.
LEMMA OrphanStays ==
  ASSUME NEW i \in DOMAIN Records, Orphan(i), UNCHANGED <<files, next, curr>>,
         \A j \in DOMAIN Records : j \in DOMAIN Records' /\ Records'[j].num = Records[j].num
  PROVE  Orphan(i)'
BY DEF Orphan

\* The walk, and the start of a copy: no tag is left behind.
LEMMA WalkReads ==
  ASSUME IndexOK, WalkDone, ScanRecord
  PROVE  WalkDone'
<1>0. TypeOK
  BY DEF IndexOK
<1>1. /\ pc = "scan" /\ job.count + 1 \in DOMAIN Records
      /\ job'.count = job.count + 1 /\ job'.dest = job.dest /\ job'.tagged = job.tagged
      /\ IF Records[job.count + 1].tag
         THEN pc' = "copy_file" /\ job'.idx = job.count + 1 ELSE pc' = "scan"
      /\ UNCHANGED <<db, files, next, curr>>
  BY <1>0, ScanFollows DEF disk, view
<1>2. Records' = Records
  BY <1>1 DEF Records
<1>3. \A i \in DOMAIN Records : Orphan(i) => Orphan(i)'
  BY <1>1, <1>2, OrphanStays
<1>4. job.count \in Nat /\ Records \in Seq(Rec)
  BY <1>0, <1>1, Types
<1>5. \A i \in DOMAIN Records : i <= job'.count => i <= job.count \/ i = job.count + 1
  BY <1>1, <1>4
<1>6. ASSUME job.tagged, next[job.dest] # 0, NEW i \in DOMAIN Records, i <= job'.count,
             ~Wraps(i - 1), Records[i].tag
      PROVE  (pc' \in CopyPc /\ i = job'.idx) \/ Orphan(i)'
  <2>1. CASE i = job.count + 1
    BY <1>1, <1>6, <2>1
  <2>2. CASE i <= job.count
    BY <1>1, <1>3, <1>6, <2>2 DEF WalkDone
  <2> QED
    BY <1>5, <1>6, <2>1, <2>2
<1> QED
  BY <1>1, <1>2, <1>6 DEF WalkDone

\* A read that straddles two records passes none that is within reach.
LEMMA WalkStraddles ==
  ASSUME IndexOK, WalkDone, ScanStraddle
  PROVE  WalkDone'
<1>0. TypeOK
  BY DEF IndexOK
<1>1. /\ pc = "scan" /\ pc' = "scan" /\ UNCHANGED <<db, files, next, curr>>
      /\ job'.dest = job.dest /\ job'.tagged = job.tagged
      /\ Wraps(job.count) /\ job.count \in Nat
      /\ job'.count \in Nat /\ job'.count <= job.count + 1
  BY <1>0, StraddleFollows DEF disk, view
<1>2. Records' = Records /\ Records \in Seq(Rec)
  BY <1>0, <1>1, Types DEF Records
<1>3. \A i \in DOMAIN Records : Orphan(i) => Orphan(i)'
  BY <1>1, <1>2, OrphanStays
<1>4. ASSUME NEW i \in DOMAIN Records, i <= job'.count, ~Wraps(i - 1)
      PROVE  i <= job.count
  <2>1. i \in Nat
    BY <1>2
  <2>2. i = job.count + 1 => i - 1 = job.count
    BY <1>1, <2>1
  <2> QED
    BY <1>1, <1>4, <2>1, <2>2
<1> QED
  BY <1>1, <1>2, <1>3, <1>4 DEF WalkDone, CopyPc

\* A message whose copy is refused has no file of its own, or its destination
\* was never created.
LEMMA RefusedOrphan ==
  ASSUME IndexOK, WalkDone, CopyRefused
  PROVE  WalkDone'
<1>1. /\ pc = "copy_file" /\ Return /\ UNCHANGED <<db, files, next, curr>>
      /\ next[job.dest] = 0 \/ Source = None \/ SameFile
  BY DEF CopyRefused, disk, view
<1>0. TypeOK /\ CopyFollows
  BY <1>1 DEF IndexOK
<1>2. /\ job.idx \in DOMAIN Records /\ Records[job.idx].num = job.rec.num
      /\ Records' = Records
  BY <1>0, <1>1 DEF CopyFollows, Records
<1>3. CASE job.tagged
  <2>1. pc' = "scan" /\ job' = job
    BY <1>1, <1>3 DEF Return
  <2>2. \A i \in DOMAIN Records : Orphan(i) => Orphan(i)'
    BY <1>1, <1>2, OrphanStays
  <2>3. next[job.dest] # 0 => Orphan(job.idx)
    <3>1. CASE Source = None
      BY <1>2, <3>1 DEF Source, Orphan
    <3>2. CASE SameFile
      <4>1. next[curr] \in Nat /\ Records[job.idx].num = next[curr]
        BY <1>0, <1>2, <3>2, Types DEF SameFile
      <4> QED
        BY <4>1 DEF Orphan
    <3> QED
      BY <1>1, <3>1, <3>2
  <2> QED
    BY <1>1, <1>2, <1>3, <2>1, <2>2, <2>3 DEF WalkDone
<1>4. CASE ~job.tagged
  <2>1. pc' = "menu"
    BY <1>1, <1>4 DEF Return
  <2> QED
    BY <2>1 DEF WalkDone
<1> QED
  BY <1>3, <1>4

\* A new file gives none of the orphans its own: its number is not used up yet.
LEMMA FileOrphans ==
  ASSUME IndexOK, WalkDone, CopyFile
  PROVE  WalkDone'
<1> DEFINE n == next[job.dest]
<1>1. /\ pc = "copy_file" /\ pc' = "copy_db" /\ n \in Nums
      /\ files' = [files EXCEPT ![job.dest] = [@ EXCEPT ![n] = Source]]
      /\ UNCHANGED <<db, next, curr>>
  BY DEF CopyFile, CopyOpens, view
<1>0. TypeOK /\ CopyFollows
  BY <1>1 DEF IndexOK
<1>2. job' = [job EXCEPT !.num = n]
  BY <1>0, <1>1, CopyFileFollows
<1>d. /\ job \in CopyJobs /\ job.dest \in Mailboxes /\ curr \in Mailboxes
      /\ files \in [Mailboxes -> [Nums -> Msgs \cup {None}]]
      /\ Records \in Seq(Rec)
  BY <1>0, <1>1, Types
<1>3. /\ job'.idx = job.idx /\ job'.dest = job.dest /\ job'.tagged = job.tagged
      /\ job'.count = job.count /\ Records' = Records
  BY <1>1, <1>2, <1>d DEF CopyJobs, Records
<1>4. ASSUME NEW i \in DOMAIN Records, Orphan(i) PROVE Orphan(i)'
  <2> DEFINE k == Records[i].num
  <2>1. k \in Nums /\ k \in Int
    BY <1>d, RecOfSeq, MailboxAssumption DEF Nums
  <2>2. CASE job.dest = curr /\ k = n
    <3>1. Records'[i].num >= next'[curr']
      BY <1>1, <1>3, <2>1, <2>2
    <3> QED
      BY <3>1 DEF Orphan
  <2>3. CASE job.dest # curr \/ k # n
    <3>1. files'[curr][k] = files[curr][k]
      BY <1>1, <1>d, <2>1, <2>3
    <3> QED
      BY <1>1, <1>3, <1>4, <3>1 DEF Orphan
  <2> QED
    BY <2>2, <2>3
<1> QED
  BY <1>1, <1>3, <1>4 DEF WalkDone

\* The copy is listed behind the record it was made from.
LEMMA ListOrphans ==
  ASSUME IndexOK, WalkDone, CopyDb
  PROVE  WalkDone'
<1> DEFINE r == [job.rec EXCEPT !.num = job.num]
<1>1. /\ pc = "copy_db" /\ pc' = "copy_next" /\ UNCHANGED <<files, next, curr, job>>
  BY DEF CopyDb, view
<1>0. TypeOK /\ CopyFollows
  BY <1>1 DEF IndexOK
<1>d. Records \in Seq(Rec) /\ job.idx \in DOMAIN Records /\ job.rec \in Rec
  BY <1>0, <1>1, Types DEF CopyFollows
<1>2. /\ Records' = IF job.dest = curr THEN Append(Records, r) ELSE Records
      /\ r \in Rec
  BY <1>0, CopyDbFollows
<1>3. r.num = job.num
  BY <1>d DEF Rec
<1> HIDE DEF r
<1>4. \A i \in DOMAIN Records : i \in DOMAIN Records' /\ Records'[i] = Records[i]
  <2>1. \A i \in DOMAIN Records :
          i \in DOMAIN Append(Records, r) /\ Append(Records, r)[i] = Records[i]
    BY <1>d, <1>2, AppendProperties
  <2> QED
    BY <1>2, <2>1
<1>5. ASSUME job.dest = curr, job.count = job.idx
      PROVE  \E j \in DOMAIN Records' : j > job.count /\ Records'[j].num = job.num
  <2> DEFINE j == Len(Records) + 1
  <2>1. j \in DOMAIN Append(Records, r) /\ Append(Records, r)[j] = r
    BY <1>d, <1>2, AppendProperties
  <2>2. j > job.count
    BY <1>d, <1>5
  <2> HIDE DEF j
  <2> QED
    BY <1>2, <1>3, <1>5, <2>1, <2>2
<1>6. ASSUME job.count = job.idx, NEW i \in DOMAIN Records', i <= job.count
      PROVE  i \in DOMAIN Records
  <2>1. DOMAIN Records = 1..Len(Records) /\ Len(Records) \in Nat
    BY <1>d
  <2>2. DOMAIN Append(Records, r) = 1..(Len(Records) + 1)
    BY <1>d, <1>2, AppendProperties
  <2> QED
    BY <1>d, <1>2, <1>6, <2>1, <2>2
<1>7. \A i \in DOMAIN Records : Orphan(i) => Orphan(i)'
  BY <1>1, <1>4, OrphanStays
<1>8. CASE job.tagged
  <2>1. job.idx = job.count
    BY <1>1, <1>8 DEF WalkDone, CopyPc
  <2>2. ASSUME next[job.dest] # 0, NEW i \in DOMAIN Records', i <= job.count, ~Wraps(i - 1),
               Records'[i].tag
        PROVE  i = job.idx \/ Orphan(i)'
    <3>1. i \in DOMAIN Records /\ Records[i].tag
      BY <1>4, <1>6, <2>1, <2>2
    <3> QED
      BY <1>1, <1>7, <1>8, <2>2, <3>1 DEF WalkDone, CopyPc
  <2> QED
    BY <1>1, <1>5, <2>1, <2>2 DEF WalkDone, CopyPc
<1>9. CASE ~job.tagged
  BY <1>1, <1>9 DEF WalkDone
<1> QED
  BY <1>8, <1>9

\* The number that is used up now is that of the copy as well.
LEMMA NumberOrphans ==
  ASSUME IndexOK, WalkDone, CopyNext
  PROVE  WalkDone'
<1>1. /\ pc = "copy_next" /\ pc' = "copy_mark"
      /\ next' = [next EXCEPT ![job.dest] = job.num + 1]
      /\ UNCHANGED <<db, files, curr, job>>
  BY DEF CopyNext, view
<1>0. TypeOK /\ CopyFollows
  BY <1>1 DEF IndexOK
<1>d. /\ job.dest \in Mailboxes /\ curr \in Mailboxes /\ job.num \in Nums
      /\ next \in [Mailboxes -> 0..(MaxNum + 1)] /\ Records \in Seq(Rec)
      /\ job.count \in Nat /\ job.num = next[job.dest]
  BY <1>0, <1>1, Types DEF CopyFollows
<1>n. job.num \in Int /\ job.num # 0
  BY <1>d, MailboxAssumption DEF Nums
<1>2. Records' = Records
  BY <1>1 DEF Records
<1>3. CASE job.tagged
  <2>1. job.idx = job.count
    BY <1>1, <1>3 DEF WalkDone, CopyPc
  <2>2. ASSUME NEW i \in DOMAIN Records, i <= job.count, Orphan(i) PROVE Orphan(i)'
    <3>1. CASE job.dest # curr
      <4>1. next'[curr] = next[curr]
        BY <1>1, <1>d, <3>1
      <4> QED
        BY <1>1, <1>2, <2>2, <4>1 DEF Orphan
    <3>2. CASE job.dest = curr
      <4>1. PICK j \in DOMAIN Records : j > job.count /\ Records[j].num = job.num
        BY <1>1, <1>3, <3>2 DEF WalkDone, CopyPc
      <4>2. next'[curr] = job.num + 1 /\ next[curr] = job.num
        BY <1>1, <1>d, <3>2
      <4>3. j # i
        BY <1>d, <2>2, <4>1
      <4>4. Records[i].num \in Int
        BY <1>d, RecOfSeq, MailboxAssumption
      <4>5. CASE Records[i].num = job.num
        BY <1>1, <1>2, <4>1, <4>3, <4>5 DEF Orphan
      <4>6. CASE Records[i].num # job.num
        <5>1. Records[i].num >= job.num => Records[i].num >= job.num + 1
          BY <1>n, <4>4, <4>6
        <5> QED
          BY <1>1, <1>2, <2>2, <4>2, <5>1 DEF Orphan
      <4> QED
        BY <4>5, <4>6
    <3> QED
      BY <3>1, <3>2
  <2> QED
    BY <1>1, <1>2, <1>3, <1>d, <1>n, <2>1, <2>2 DEF WalkDone, CopyPc
<1>4. CASE ~job.tagged
  BY <1>1, <1>4 DEF WalkDone
<1> QED
  BY <1>3, <1>4

\* The record that was copied loses its tag.
LEMMA MarkOrphans ==
  ASSUME IndexOK, WalkDone, CopyMark
  PROVE  WalkDone'
<1>1. /\ pc = "copy_mark" /\ Return /\ UNCHANGED <<files, next, curr>>
  BY DEF CopyMark
<1>0. TypeOK /\ CopyFollows
  BY <1>1 DEF IndexOK
<1>d. Records \in Seq(Rec) /\ job.idx \in DOMAIN Records
  BY <1>0, Types DEF CopyFollows
<1>2. PICK r \in Rec :
        /\ r.num = Records[job.idx].num /\ r.tag = FALSE
        /\ Records' = [Records EXCEPT ![job.idx] = r]
  BY <1>0, CopyMarkRecord
<1>3. /\ DOMAIN Records' = DOMAIN Records
      /\ \A i \in DOMAIN Records : Records'[i].num = Records[i].num
      /\ \A i \in DOMAIN Records : Records'[i].tag => i # job.idx /\ Records[i].tag
  BY <1>d, <1>2
<1>4. \A i \in DOMAIN Records : Orphan(i) => Orphan(i)'
  BY <1>1, <1>3, OrphanStays
<1>5. CASE job.tagged
  <2>1. pc' = "scan" /\ job' = job
    BY <1>1, <1>5 DEF Return
  <2> QED
    BY <1>1, <1>3, <1>4, <1>5, <2>1 DEF WalkDone
<1>6. CASE ~job.tagged
  <2>1. pc' = "menu"
    BY <1>1, <1>6 DEF Return
  <2> QED
    BY <2>1 DEF WalkDone
<1> QED
  BY <1>5, <1>6

\* Neither the walk nor a copy leaves a tag behind.
LEMMA WalkDoneStep ==
  ASSUME IndexOK, WalkDone, [Next]_vars, "full" \notin Faults
  PROVE  WalkDone'
\* Most steps leave no copy in progress.
<1>q. ASSUME pc' \notin CopyPc \cup {"scan"} PROVE WalkDone'
  BY <1>q DEF WalkDone
<1>1. CASE Key
  <2>1. ASSUME NEW m \in Mailboxes, NEW del \in BOOLEAN, StartCopy(m, del) PROVE WalkDone'
    <3>1. CASE job' = CopyJob(Selected, DbIndex, m, del, FALSE)
      BY <3>1 DEF CopyJob, WalkDone
    <3>2. CASE pc' = "scan" /\ job' = CopyJob(None, 0, m, del, TRUE)
      <4>1. job'.count = 0 /\ Records' = Records
        BY <2>1, <3>2 DEF CopyJob, StartCopy, disk, view, Records
      <4>2. \A i \in DOMAIN Records : ~(i <= 0)
        <5>1. Records \in Seq(Rec)
          BY Types DEF IndexOK
        <5> QED
          BY <5>1
      <4> QED
        BY <3>2, <4>1, <4>2 DEF WalkDone
    <3> QED
      BY <2>1, <3>1, <3>2 DEF StartCopy
  <2> QED
    BY <1>1, <1>q, <2>1, KeyPc
<1>2. CASE Outside
  BY <1>2, <1>q DEF Outside, Boot, DeletePrefs, Import
<1>3. CASE CopyStep
  <2>1. CASE ScanEnd \/ CopyMarkFatal
    BY <2>1, <1>q DEF ScanEnd, CopyMarkFatal, Off
  <2>2. ~CopyFileFull /\ ~CopyDbFull
    BY DEF CopyFileFull, CopyDbFull
  <2> QED
    BY <1>3, <2>1, <2>2, WalkReads, WalkStraddles, RefusedOrphan, FileOrphans, ListOrphans, NumberOrphans,
       MarkOrphans DEF CopyStep
<1>4. CASE PurgeStep
  BY <1>4, <1>q DEF PurgeStep, PurgeRecord, PurgeUnlink, PurgeRename, PurgeFull, AfterPurge
<1>5. CASE Crash
  BY <1>5, <1>q DEF Crash, Off
<1>6. CASE UNCHANGED vars
  BY <1>6 DEF vars, disk, view, WalkDone, Orphan, Records
<1> QED
  BY <1>1, <1>2, <1>3, <1>4, <1>5, <1>6 DEF Next

\* A copy or a move of the tagged messages leaves none of them tagged that has
\* its file, unless its destination was never created (AllTaggedCopied): also
\* when resets before have left records whose number was given twice.
THEOREM TaggedReached ==
  ASSUME Forward \/ OnePage
  PROVE  Spec => AllTaggedCopied
<1>0. "full" \notin Faults
  BY DEF Forward, OnePage
<1>1. Init => WalkDone
  BY DEF WalkDone, Init
<1>2. IndexOK /\ WalkDone /\ [Next]_vars => WalkDone'
  BY <1>0, WalkDoneStep
<1>3. IndexOK /\ WalkDone /\ [Next]_vars =>
        [(pc = "scan" /\ pc' = "menu") =>
           \/ next[job.dest] = 0
           \/ \A i \in DOMAIN Records : Records[i].tag => Orphan(i)]_vars
  <2> SUFFICES ASSUME IndexOK, WalkDone, Next, pc = "scan", pc' = "menu"
               PROVE  \/ next[job.dest] = 0
                      \/ \A i \in DOMAIN Records : Records[i].tag => Orphan(i)
    OBVIOUS
  <2>1. ScanEnd
    <3>1. ~Key
      BY KeyPc
    <3>2. ~Outside /\ ~PurgeStep /\ ~Crash
      BY DEF Outside, Boot, DeletePrefs, Import, PurgeStep, PurgeRecord, PurgeUnlink,
         PurgeRename, PurgeFull, Crash, Off
    <3> QED
      BY <3>1, <3>2 DEF Next, CopyStep, ScanRecord, ScanStraddle, CopyRefused, CopyFile, CopyFileFull,
         CopyOpens, CopyDb, CopyDbFull, CopyNext, CopyMark, CopyMarkFatal
  <2>2. TypeOK /\ job.tagged
    BY DEF IndexOK
  <2>3. Records \in Seq(Rec) /\ job.count \in Nat
    BY <2>2, Types
  <2>4. \A i \in DOMAIN Records : i <= job.count /\ ~Wraps(i - 1)
    BY <2>1, <2>3, ScanRange DEF ScanEnd
  <2> QED
    BY <2>2, <2>4 DEF WalkDone
<1> QED
  BY <1>1, <1>2, <1>3, IndexHolds, PTL DEF Spec, AllTaggedCopied

=============================================================================
