---------------------------- MODULE UploadProofs ----------------------------
(***************************************************************************)
(* No message is lost between the keyboard and SENT, for any messages,     *)
(* headers and addresses, any server, and any number of files and resets:  *)
(* the programs implement Outgoing.                                        *)
(***************************************************************************)
EXTENDS Upload, FiniteSetTheorems, SequenceTheorems, TLAPS

\* The program's place in each part of the system
Preparing == {"compose", "edit", "attach", "attach_unlink", "attach_rename"}
Sending == {"mail", "rcpt", "data", "post", "body"}
Moving == {"copy", "record", "number", "remove"}

Files == Seq(Lines) \cup {None}
IsMessage(c) == \E m \in Msgs : c \in Forms[m]

Types ==
  /\ app \in {"mail", "news"}
  /\ out \in [Names -> Files]
  /\ next \in 1..(MaxNum + 1) /\ cur \in Names
  /\ msg \in Msgs \cup {None} /\ written \subseteq Msgs
  /\ pc \in {"email", "next", "ask"} \cup Preparing \cup Sending \cup Moving
  /\ sentFile \in [1..MaxSent -> Msgs \cup {None}]
  /\ sentNext \in 1..(MaxSent + 1)
  /\ \A r \in sent : r \in [num : 1..MaxSent, of : Msgs \cup {None}]
  /\ discarded \subseteq written /\ submitted \subseteq written

\* A message is in a file only once its text was saved, and the numbers not
\* given out yet hold none.
FilesInv ==
  /\ \A n \in Names, m \in Msgs : out[n] \in Forms[m] => m \in written
  /\ \A n \in next..MaxNum : ~IsMessage(out[n])

\* What the file being composed holds.
Saved == IF msg \in written THEN Plain(msg) ELSE Header(msg)

PrepareInv ==
  /\ pc \in Preparing => msg \in Msgs /\ cur >= 1
  /\ pc = "compose" => cur = next /\ msg \notin written
  /\ pc \in Preparing \ {"compose"} => cur < next
  /\ pc \in Preparing \ {"attach_rename"} => out[cur] = Saved
  /\ pc = "attach" => out[Tmp] = << >>
  /\ pc \in {"attach_unlink", "attach_rename"} => out[Tmp] = Mimed(Saved)
  /\ pc = "attach_rename" => out[cur] = None

Kept ==
  \A m \in written \ discarded : InOutbox(m) \/ InSent(m)

\* SENT
SentInv ==
  /\ pc \in Moving => Whole(out[cur]) \in submitted \cup {None}
  /\ pc \in {"record", "number"} => sentNext <= MaxSent /\ sentFile[sentNext] = Whole(out[cur])
  /\ pc = "number" => [num |-> sentNext, of |-> Whole(out[cur])] \in sent
  /\ pc = "remove" => \A r \in sent : r.num < sentNext
  /\ pc = "remove" /\ Whole(out[cur]) # None => InSent(Whole(out[cur]))
  /\ \A r \in sent : r.num <= sentNext /\ r.of \in written \cup {None}
  /\ \A r \in sent : r.num = sentNext /\ r.of # None => InOutbox(r.of) \/ r.of \in discarded

IInv == Types /\ FilesInv /\ PrepareInv /\ Kept /\ SentInv

-----------------------------------------------------------------------------
(* Induction over the natural numbers, with a set for the property         *)

LEMMA LeastNumber ==
  ASSUME NEW S \in SUBSET Nat, S # {}
  PROVE  \E m \in S : \A k \in S : m <= k
<1> DEFINE U == {1..n : n \in S}
<1> DEFINE R == StrictSubsetOrdering(Nat)
<1>1. IsWellFoundedOn(R, FiniteSubsetsOf(Nat))
  BY FS_StrictSubsetOrderingWellFounded
<1>2. U \subseteq FiniteSubsetsOf(Nat) /\ U # {}
  <2>1. \A n \in S : IsFiniteSet(1..n) /\ 1..n \subseteq Nat
    BY FS_Interval
  <2> QED BY <2>1 DEF FiniteSubsetsOf
<1>3. PICK x \in U : \A y \in U : <<y, x>> \notin R
  <2> HIDE DEF U, R
  <2> QED BY <1>1, <1>2, WFMin
<1>4. PICK m \in S : x = 1..m
  OBVIOUS
<1>5. ASSUME NEW k \in S, k < m PROVE FALSE
  <2>1. 1..k \subseteq 1..m /\ m \in 1..m /\ m \notin 1..k
    BY <1>5
  <2>2. 1..k \in U /\ 1..m \subseteq Nat /\ 1..k # 1..m
    BY <2>1
  <2>3. <<1..k, x>> \in R
    BY <2>1, <2>2, <1>4 DEF StrictSubsetOrdering
  <2> QED BY <2>2, <2>3, <1>3
<1> QED BY <1>5

-----------------------------------------------------------------------------
(* What a file holds                                                       *)

LEMMA LinesDistinct ==
  /\ Mime \in Lines /\ Blank \in Lines /\ Text("part") \in Lines /\ Text("end") \in Lines
  /\ \A m \in Msgs :
       /\ Text(m) \in Lines
       /\ Text(m) \notin {Mime, Blank, Text("part"), Text("end")}
       /\ \A n \in Msgs : Text(m) = Text(n) => m = n
<1>1. /\ Mime \in Lines /\ Blank \in Lines /\ Text("part") \in Lines /\ Text("end") \in Lines
      /\ \A m \in Msgs : Text(m) \in Lines
  BY DEF Lines
<1>2. ASSUME NEW m \in Msgs PROVE Text(m) \notin {Mime, Blank, Text("part"), Text("end")}
  BY OutboxAssumption DEF Mime, Blank, Text
<1>3. ASSUME NEW m \in Msgs, NEW n \in Msgs, Text(m) = Text(n) PROVE m = n
  BY <1>3 DEF Text
<1> QED BY <1>1, <1>2, <1>3

LEMMA SubSeqRange ==
  ASSUME NEW c \in Seq(Lines), NEW i \in 1..(Len(c) + 1), NEW j \in 0..Len(c)
  PROVE  /\ SubSeq(c, i, j) \in Seq(Lines)
         /\ Range(SubSeq(c, i, j)) = {c[k] : k \in i..j}
<1>1. Len(c) \in Nat /\ \A k \in i..j : c[k] \in Lines
  BY ElementOfSeq, LenProperties
<1>2. /\ SubSeq(c, i, j) \in Seq(Lines)
      /\ Len(SubSeq(c, i, j)) = IF i <= j THEN j - i + 1 ELSE 0
      /\ \A k \in 1..(j - i + 1) : SubSeq(c, i, j)[k] = c[i + k - 1]
  BY <1>1, SubSeqProperties
<1> DEFINE s == SubSeq(c, i, j)
<1>3. Range(s) = {s[k] : k \in 1..Len(s)}
  BY <1>2, RangeEquality
<1>4. \A k \in i..j : k - i + 1 \in 1..(j - i + 1) /\ i + (k - i + 1) - 1 = k
  BY <1>1
<1>5. \A k \in 1..(j - i + 1) : i + k - 1 \in i..j
  BY <1>1
<1>6. 1..Len(s) = 1..(j - i + 1)
  BY <1>1, <1>2
<1>7. ASSUME NEW k \in i..j PROVE c[k] \in Range(s)
  <2>1. s[k - i + 1] = c[k] /\ k - i + 1 \in 1..Len(s)
    BY <1>2, <1>4, <1>6
  <2> HIDE DEF s
  <2> QED BY <2>1, <1>3
<1>8. ASSUME NEW k \in 1..Len(s) PROVE s[k] \in {c[l] : l \in i..j}
  BY <1>2, <1>5, <1>6
<1>9. Range(s) = {c[k] : k \in i..j}
  <2> HIDE DEF s
  <2> QED BY <1>3, <1>7, <1>8
<1> QED BY <1>2, <1>9

LEMMA BlankAtType ==
  ASSUME NEW c \in Seq(Lines)
  PROVE  /\ BlankAt(c) \in 1..(Len(c) + 1)
         /\ BlankAt(c) <= Len(c) => c[BlankAt(c)] = Blank
         /\ \A i \in 1..(BlankAt(c) - 1) : c[i] # Blank
<1>1. CASE Blank \notin Range(c)
  BY <1>1, RangeEquality, LenProperties DEF BlankAt
<1>2. CASE Blank \in Range(c)
  <2> DEFINE P(i) == c[i] = Blank /\ Blank \notin Range(SubSeq(c, 1, i - 1))
  <2> DEFINE S == {i \in 1..Len(c) : c[i] = Blank}
  <2>1. S # {} /\ S \subseteq Nat
    BY <1>2, RangeEquality, LenProperties
  <2>2. PICK m \in S : \A k \in S : m <= k
    BY <2>1, LeastNumber
  <2>3. ASSUME NEW i \in DOMAIN c
        PROVE  Range(SubSeq(c, 1, i - 1)) = {c[j] : j \in 1..(i - 1)}
    <3>1. i \in 1..Len(c) /\ Len(c) \in Nat
      BY LenProperties
    <3>2. 1 \in 1..(Len(c) + 1) /\ i - 1 \in 0..Len(c)
      BY <3>1
    <3> QED BY <3>2, SubSeqRange
  <2>4. m \in DOMAIN c /\ P(m)
    <3>1. m \in 1..Len(c) /\ c[m] = Blank /\ m \in DOMAIN c
      BY <2>2, LenProperties
    <3>2. ASSUME NEW j \in 1..(m - 1) PROVE c[j] # Blank
      BY <2>2, <3>1, j \in 1..Len(c), ~(m <= j), LenProperties
    <3> QED BY <3>1, <3>2, <2>3
  <2>5. BlankAt(c) \in DOMAIN c /\ P(BlankAt(c))
    BY <1>2, <2>4 DEF BlankAt
  <2> QED BY <2>3, <2>5, LenProperties
<1> QED BY <1>1, <1>2

LEMMA MimedRange ==
  ASSUME NEW c \in Seq(Lines)
  PROVE  /\ Mimed(c) \in Seq(Lines)
         /\ Range(Mimed(c)) \cup {Blank} = Range(c) \cup {Mime, Blank, Text("part"), Text("end")}
<1> DEFINE b == BlankAt(c)
<1> DEFINE head == SubSeq(c, 1, b - 1)
<1> DEFINE tail == SubSeq(c, b + 1, Len(c))
<1>1. b \in 1..(Len(c) + 1) /\ Len(c) \in Nat /\ (b <= Len(c) => c[b] = Blank)
  BY BlankAtType, LenProperties
<1>2. head \in Seq(Lines) /\ Range(head) = {c[k] : k \in 1..(b - 1)}
  BY <1>1, SubSeqRange, SMTT(30)
<1>3. tail \in Seq(Lines) /\ Range(tail) = {c[k] : k \in (b + 1)..Len(c)}
  <2>1. CASE b <= Len(c)
    BY <1>1, <2>1, SubSeqRange
  <2>2. CASE b = Len(c) + 1
    <3>1. tail = << >>
      BY <1>1, <2>2, SubSeqEmpty
    <3>2. (b + 1)..Len(c) = {}
      BY <1>1, <2>2
    <3>3. << >> \in Seq(Lines) /\ Range(<< >>) = {}
      BY DEF Range
    <3> QED BY <3>1, <3>2, <3>3
  <2> QED BY <1>1, <2>1, <2>2
<1>4. Range(c) = {c[k] : k \in 1..Len(c)}
  BY RangeEquality
<1>5. Range(c) \cup {Blank} = Range(head) \cup Range(tail) \cup {Blank}
  <2>1. \A k \in 1..Len(c) : k \in 1..(b - 1) \/ k = b \/ k \in (b + 1)..Len(c)
    BY <1>1
  <2>2. \A k \in 1..(b - 1) : k \in 1..Len(c)
    BY <1>1
  <2>3. \A k \in (b + 1)..Len(c) : k \in 1..Len(c)
    BY <1>1
  <2>4. b \in 1..Len(c) => c[b] = Blank
    BY <1>1
  <2> HIDE DEF b, head, tail
  <2> QED BY <2>1, <2>2, <2>3, <2>4, <1>2, <1>3, <1>4
<1> DEFINE new == <<Mime, Blank, Text("part")>>
<1> DEFINE end == <<Text("end")>>
<1>6. new \in Seq(Lines) /\ end \in Seq(Lines)
  BY LinesDistinct
<1>7. Range(new) = {Mime, Blank, Text("part")} /\ Range(end) = {Text("end")}
  <2>1. Range(new) = {new[1], new[2], new[3]} /\ Range(end) = {end[1]}
    BY DEF Range
  <2> QED BY <2>1
<1> DEFINE first == head \o new
<1> DEFINE most == first \o tail
<1>8. Mimed(c) = most \o end
  BY DEF Mimed
<1> HIDE DEF b, head, tail, new, end
<1>9. first \in Seq(Lines) /\ Range(first) = Range(head) \cup Range(new)
  BY <1>2, <1>6, ConcatProperties, RangeConcatenation
<1> HIDE DEF first
<1>10. most \in Seq(Lines) /\ Range(most) = Range(first) \cup Range(tail)
  BY <1>3, <1>9, ConcatProperties, RangeConcatenation
<1> HIDE DEF most
<1>11. most \o end \in Seq(Lines) /\ Range(most \o end) = Range(most) \cup Range(end)
  BY <1>6, <1>10, ConcatProperties, RangeConcatenation
<1> QED BY <1>5, <1>7, <1>8, <1>9, <1>10, <1>11

LEMMA DraftLines ==
  ASSUME NEW m \in Msgs
  PROVE  /\ Draft[m].head \in Seq(Lines) /\ Header(m) \in Seq(Lines) /\ Plain(m) \in Seq(Lines)
         /\ Range(Plain(m)) = Range(Header(m)) \cup Range(Draft[m].typed)
         /\ Range(Draft[m].head) \subseteq Range(Header(m))
<1> DEFINE d == Draft[m]
<1> DEFINE blank == <<Blank>>
<1> DEFINE first == d.head \o blank
<1>1. d.head \in Seq(Lines) /\ d.quoted \in Seq(Lines) /\ d.typed \in Seq(Lines) /\ blank \in Seq(Lines)
  BY OutboxAssumption, LinesDistinct
<1> HIDE DEF blank
<1>2. first \in Seq(Lines) /\ Range(d.head) \subseteq Range(first)
  BY <1>1, ConcatProperties, RangeConcatenation
<1>3. Header(m) = first \o d.quoted
  BY DEF Header, blank
<1> HIDE DEF first
<1>4. Header(m) \in Seq(Lines) /\ Range(first) \subseteq Range(Header(m))
  BY <1>1, <1>2, <1>3, ConcatProperties, RangeConcatenation
<1>5. Plain(m) \in Seq(Lines) /\ Range(Plain(m)) = Range(Header(m)) \cup Range(d.typed)
  BY <1>1, <1>4, ConcatProperties, RangeConcatenation DEF Plain
<1> QED BY <1>1, <1>2, <1>4, <1>5

\* The drafts whose text is in c
Marks(c) == {m \in Msgs : Text(m) \in Range(c)}

LEMMA MarksOf ==
  ASSUME NEW m \in Msgs
  PROVE  /\ Marks(Draft[m].head) = {} /\ Marks(Header(m)) = {} /\ Marks(Plain(m)) = {m}
         /\ Header(m) \in Seq(Lines) /\ Plain(m) \in Seq(Lines)
<1>1. \A n \in Msgs : Text(n) \notin Range(Header(m))
  BY DraftAssumption, DraftLines
<1> QED BY <1>1, DraftLines, DraftAssumption DEF Marks

LEMMA MarksOfMimed ==
  ASSUME NEW c \in Seq(Lines)
  PROVE  Mimed(c) \in Seq(Lines) /\ Marks(Mimed(c)) = Marks(c)
BY MimedRange, LinesDistinct DEF Marks

LEMMA MarksOfPrefix ==
  ASSUME NEW c \in Seq(Lines), NEW k \in 0..Len(c)
  PROVE  SubSeq(c, 1, k) \in Seq(Lines) /\ Marks(SubSeq(c, 1, k)) \subseteq Marks(c)
<1>1. Len(c) \in Nat /\ 1 \in 1..(Len(c) + 1)
  BY LenProperties
<1>2. /\ SubSeq(c, 1, k) \in Seq(Lines)
      /\ Range(SubSeq(c, 1, k)) = {c[i] : i \in 1..k}
  BY <1>1, SubSeqRange
<1>3. {c[i] : i \in 1..k} \subseteq Range(c)
  BY <1>1, RangeEquality
<1> QED BY <1>2, <1>3 DEF Marks

LEMMA MarksOfMessage ==
  ASSUME NEW m \in Msgs, NEW c \in Forms[m]
  PROVE  c \in Seq(Lines) /\ Marks(c) = {m}
BY MarksOf, MarksOfMimed DEF Forms

LEMMA FormsOf ==
  ASSUME NEW m \in Msgs
  PROVE  Plain(m) \in Forms[m] /\ Mimed(Plain(m)) \in Forms[m]
BY DEF Forms

\* What is in no file in one piece
LEMMA NoMessage ==
  /\ ~IsMessage(None)
  /\ \A c : Marks(c) = {} => ~IsMessage(c)
<1>1. ASSUME NEW m \in Msgs, None \in Forms[m] PROVE FALSE
  BY <1>1, MarksOfMessage, OutboxAssumption
<1>2. ASSUME NEW c, NEW m \in Msgs, c \in Forms[m], Marks(c) = {} PROVE FALSE
  BY <1>2, MarksOfMessage
<1> QED BY <1>1, <1>2 DEF IsMessage

LEMMA WholeType ==
  ASSUME NEW c
  PROVE  /\ Whole(c) \in Msgs \cup {None}
         /\ \A m \in Msgs : Whole(c) = m <=> c \in Forms[m]
         /\ Whole(c) = None <=> ~IsMessage(c)
BY MarksOfMessage, OutboxAssumption DEF Whole, IsMessage

-----------------------------------------------------------------------------
(* The steps of EMAIL.SYSTEM, EDIT.SYSTEM and ATTACHER.SYSTEM              *)

sentVars == <<sent, sentFile, sentNext, submitted, discarded>>

\* A file that was no message may be written, a message may be written over
\* with the same message.
LEMMA Rewritten ==
  ASSUME Types, NEW n \in Names, NEW c \in Files,
         out' = [out EXCEPT ![n] = c],
         \A m \in Msgs : out[n] \in Forms[m] => c \in Forms[m]
  PROVE  /\ out' \in [Names -> Files] /\ out'[n] = c
         /\ \A i \in Names \ {n} : out'[i] = out[i]
         /\ \A m \in Msgs : InOutbox(m) => InOutbox(m)'
BY DEF Types, InOutbox

LEMMA KeptStep ==
  ASSUME Types, Kept, SentInv, pc' \notin Moving, UNCHANGED <<written, sentVars>>,
         \A m \in Msgs : InOutbox(m) => InOutbox(m)'
  PROVE  Kept' /\ SentInv'
<1>1. Kept'
  BY DEF Types, Kept, sentVars, InSent
<1>2. \A r \in sent : r.num <= sentNext /\ r.of \in written \cup {None}
  BY DEF SentInv
<1>3. \A r \in sent : r.num = sentNext /\ r.of # None => InOutbox(r.of)' \/ r.of \in discarded
  BY <1>2 DEF Types, SentInv
<1> QED BY <1>1, <1>2, <1>3 DEF SentInv, sentVars, Moving

\* The step puts no message into OUTBOX and takes none out.
SameMessages == \A m \in Msgs : InOutbox(m)' <=> InOutbox(m)

LEMMA EmptyFile == << >> \in Seq(Lines) /\ ~IsMessage(<< >>)
<1>1. << >> \in Seq(Lines) /\ Range(<< >>) = {}
  BY DEF Range
<1>2. Marks(<< >>) = {}
  BY <1>1 DEF Marks
<1> QED BY <1>1, <1>2, NoMessage

LEMMA SavedForm ==
  ASSUME Types, FilesInv, PrepareInv, pc \in Preparing
  PROVE  /\ msg \in Msgs /\ cur \in Names \ {Tmp}
         /\ Saved \in Seq(Lines) /\ Mimed(Saved) \in Seq(Lines)
         /\ msg \in written => Saved \in Forms[msg] /\ Mimed(Saved) \in Forms[msg]
         /\ msg \notin written => ~IsMessage(Saved) /\ ~IsMessage(Mimed(Saved))
         /\ \A m \in Msgs : Saved \in Forms[m] <=> Mimed(Saved) \in Forms[m]
<1>1. msg \in Msgs /\ cur \in Names \ {Tmp}
  BY DEF Types, PrepareInv, Names, Tmp
<1>2. Marks(Saved) = IF msg \in written THEN {msg} ELSE {}
  BY <1>1, MarksOf DEF Saved
<1>3. Saved \in Seq(Lines)
  BY <1>1, MarksOf DEF Saved
<1>4. Mimed(Saved) \in Seq(Lines) /\ Marks(Mimed(Saved)) = Marks(Saved)
  BY <1>3, MarksOfMimed
<1>5. msg \in written => Saved \in Forms[msg] /\ Mimed(Saved) \in Forms[msg]
  BY <1>1, FormsOf DEF Saved
<1>6. msg \notin written => ~IsMessage(Saved) /\ ~IsMessage(Mimed(Saved))
  BY <1>2, <1>4, NoMessage
<1>7. ASSUME NEW m \in Msgs PROVE Saved \in Forms[m] <=> Mimed(Saved) \in Forms[m]
  <2>1. CASE msg \in written
    <3>1. Saved \in Forms[m] => Marks(Saved) = {m}
      BY MarksOfMessage
    <3>2. Mimed(Saved) \in Forms[m] => Marks(Mimed(Saved)) = {m}
      BY MarksOfMessage
    <3>3. m # msg => Saved \notin Forms[m] /\ Mimed(Saved) \notin Forms[m]
      BY <1>2, <1>4, <2>1, <3>1, <3>2
    <3> QED BY <1>5, <2>1, <3>3
  <2>2. CASE msg \notin written
    BY <1>6, <2>2 DEF IsMessage
  <2> QED BY <2>1, <2>2
<1> QED BY <1>1, <1>3, <1>4, <1>5, <1>6, <1>7

LEMMA EscapeDraftStep ==
  ASSUME IInv, NEW m \in Msgs, EscapeDraft(m), UNCHANGED sentVars
  PROVE  IInv' /\ SameMessages
<1>1. PICK k \in DOMAIN Draft[m].head : out' = [out EXCEPT ![next] = SubSeq(Draft[m].head, 1, k)]
  BY DEF EscapeDraft
<1> DEFINE c == SubSeq(Draft[m].head, 1, k)
<1>2. c \in Seq(Lines) /\ ~IsMessage(c)
  <2>1. Draft[m].head \in Seq(Lines) /\ k \in 0..Len(Draft[m].head)
    BY OutboxAssumption, LenProperties
  <2>2. c \in Seq(Lines) /\ Marks(c) = {}
    BY <2>1, MarksOfPrefix, MarksOf
  <2> QED BY <2>2, NoMessage
<1> HIDE DEF c
<1>3. next \in Names /\ ~IsMessage(out[next]) /\ next <= MaxNum
  <2>1. next \in 1..(MaxNum + 1) /\ MaxNum \in Nat /\ next <= MaxNum
    BY OutboxAssumption DEF IInv, Types, EscapeDraft
  <2>2. \A n \in next..MaxNum : ~IsMessage(out[n])
    BY DEF IInv, FilesInv
  <2>3. next \in Names /\ next \in next..MaxNum
    BY <2>1 DEF Names
  <2> QED
    BY <2>1, <2>2, <2>3
<1>4. /\ out' \in [Names -> Files] /\ out'[next] = c
      /\ \A i \in Names \ {next} : out'[i] = out[i]
      /\ \A n \in Msgs : InOutbox(n) => InOutbox(n)'
  BY <1>1, <1>2, <1>3, Rewritten DEF IInv, c, Files, IsMessage
<1>5. ASSUME NEW i \in Names, NEW n \in Msgs, out'[i] \in Forms[n] PROVE out[i] \in Forms[n]
  <2>1. \A l \in Msgs : c \notin Forms[l]
    BY <1>2 DEF IsMessage
  <2> QED BY <1>4, <1>5, <2>1
<1>6. SameMessages
  BY <1>4, <1>5 DEF SameMessages, InOutbox
<1>7. Types'
  BY <1>4 DEF IInv, Types, EscapeDraft, sentVars
<1>8. FilesInv'
  <2>1. UNCHANGED <<written, next>> /\ next..MaxNum \subseteq Names
    BY OutboxAssumption DEF EscapeDraft, Names, IInv, Types
  <2> QED BY <1>5, <2>1 DEF IInv, FilesInv, IsMessage
<1>9. PrepareInv'
  BY DEF IInv, PrepareInv, Preparing, EscapeDraft
<1>10. Kept' /\ SentInv'
  BY <1>4, KeptStep DEF IInv, EscapeDraft, sentVars, Moving
<1> QED BY <1>7, <1>8, <1>9, <1>10, <1>6 DEF IInv

LEMMA WriteDraftStep ==
  ASSUME IInv, NEW m \in Msgs, WriteDraft(m), UNCHANGED sentVars
  PROVE  IInv' /\ SameMessages
<1> DEFINE c == Header(m)
<1>1. c \in Seq(Lines) /\ ~IsMessage(c)
  BY MarksOf, NoMessage
<1> HIDE DEF c
<1>2. next \in Names /\ ~IsMessage(out[next]) /\ next <= MaxNum /\ next >= 1
  BY OutboxAssumption DEF IInv, Types, FilesInv, WriteDraft, Names
<1>3. out' = [out EXCEPT ![next] = c]
  BY DEF WriteDraft, c
<1>4. /\ out' \in [Names -> Files] /\ out'[next] = c
      /\ \A i \in Names \ {next} : out'[i] = out[i]
      /\ \A n \in Msgs : InOutbox(n) => InOutbox(n)'
  BY <1>1, <1>2, <1>3, Rewritten DEF IInv, Files, IsMessage
<1>5. SameMessages
  <2>1. \A l \in Msgs : c \notin Forms[l]
    BY <1>1 DEF IsMessage
  <2>2. ASSUME NEW i \in Names, NEW n \in Msgs, out'[i] \in Forms[n] PROVE out[i] \in Forms[n]
    BY <1>4, <2>1, <2>2
  <2> QED BY <1>4, <2>2 DEF SameMessages, InOutbox
<1>6. Types'
  BY <1>2, <1>4 DEF IInv, Types, WriteDraft, sentVars, Preparing
<1>7. FilesInv'
  BY <1>1, <1>2, <1>4 DEF IInv, FilesInv, WriteDraft, IsMessage, Names
<1>8. PrepareInv'
  BY <1>2, <1>4 DEF IInv, PrepareInv, Preparing, WriteDraft, Saved, c
<1>9. Kept' /\ SentInv'
  BY <1>4, KeptStep DEF IInv, WriteDraft, sentVars, Moving
<1> QED BY <1>6, <1>7, <1>8, <1>9, <1>5 DEF IInv

LEMMA ComposeNumberStep ==
  ASSUME IInv, ComposeNumber, UNCHANGED sentVars
  PROVE  IInv' /\ SameMessages
<1>1. cur = next /\ cur \in 1..MaxNum /\ next' = next + 1 /\ UNCHANGED out
  BY OutboxAssumption DEF IInv, Types, PrepareInv, Preparing, ComposeNumber, Names
<1>2. Types' /\ FilesInv'
  BY <1>1, OutboxAssumption DEF IInv, Types, FilesInv, ComposeNumber, sentVars, Preparing, IsMessage
<1>3. PrepareInv'
  BY <1>1, OutboxAssumption DEF IInv, PrepareInv, Preparing, ComposeNumber, Saved
<1>4. Kept' /\ SentInv'
  BY <1>1 DEF IInv, Kept, SentInv, ComposeNumber, sentVars, Moving, InOutbox, InSent
<1>5. SameMessages
  BY <1>1 DEF SameMessages, InOutbox
<1> QED BY <1>2, <1>3, <1>4, <1>5 DEF IInv

LEMMA SaveTextStep ==
  ASSUME IInv, SaveText, UNCHANGED sentVars
  PROVE  /\ IInv' /\ msg \in Msgs /\ InOutbox(msg)'
         /\ \A m \in Msgs \ {msg} : InOutbox(m)' <=> InOutbox(m)
<1> DEFINE c == Plain(msg)
<1>1. /\ msg \in Msgs /\ cur \in Names \ {Tmp} /\ cur < next
      /\ msg \in written => Saved \in Forms[msg]
      /\ msg \notin written => ~IsMessage(Saved)
      /\ out[cur] = Saved
  BY SavedForm DEF IInv, SaveText, PrepareInv, Preparing
<1>2. c \in Seq(Lines) /\ c \in Forms[msg] /\ \A m \in Msgs : c \in Forms[m] => m = msg
  <2>1. c \in Seq(Lines) /\ c \in Forms[msg] /\ Marks(c) = {msg}
    BY <1>1, MarksOf, FormsOf
  <2>2. ASSUME NEW m \in Msgs, c \in Forms[m] PROVE m = msg
    <3>1. Marks(c) = {m}
      BY <2>2, MarksOfMessage
    <3> QED BY <2>1, <3>1
  <2> QED BY <2>1, <2>2
<1>3. \A m \in Msgs : out[cur] \in Forms[m] => c \in Forms[m]
  BY <1>1 DEF Saved, IsMessage
<1>4. out' = [out EXCEPT ![cur] = c]
  BY DEF SaveText
<1> HIDE DEF c
<1>5. /\ out' \in [Names -> Files] /\ out'[cur] = c
      /\ \A i \in Names \ {cur} : out'[i] = out[i]
      /\ \A n \in Msgs : InOutbox(n) => InOutbox(n)'
  BY <1>1, <1>2, <1>3, <1>4, Rewritten DEF IInv, Files
<1>6. Types'
  BY <1>1, <1>5 DEF IInv, Types, SaveText, sentVars, Preparing
<1>7. FilesInv'
  <2>1. ASSUME NEW n \in Names, NEW m \in Msgs, out'[n] \in Forms[m] PROVE m \in written'
    BY <1>2, <1>5, <2>1 DEF IInv, FilesInv, SaveText
  <2>2. ASSUME NEW n \in next..MaxNum PROVE out'[n] = out[n]
    BY <1>1, <1>5, OutboxAssumption DEF IInv, Types, Names
  <2> QED BY <2>1, <2>2 DEF IInv, FilesInv, SaveText, IsMessage
<1>8. PrepareInv'
  BY <1>1, <1>5 DEF IInv, PrepareInv, Preparing, SaveText, Saved, c
<1>9. \E n \in Names : out'[n] \in Forms[msg]
  BY <1>1, <1>2, <1>5
<1>10. ASSUME NEW m \in Msgs \ {msg} PROVE InOutbox(m)' <=> InOutbox(m)
  <2>1. ASSUME NEW i \in Names, out'[i] \in Forms[m] PROVE out[i] \in Forms[m]
    BY <1>2, <1>5, <2>1
  <2> QED BY <1>5, <2>1 DEF InOutbox
<1>11. InOutbox(msg)'
  BY <1>9 DEF InOutbox, SaveText
<1>12. Kept'
  BY <1>1, <1>5, <1>9 DEF IInv, Types, Kept, SaveText, sentVars, InOutbox, InSent
<1>13. SentInv'
  <2>1. \A r \in sent : r.num <= sentNext /\ r.of \in written \cup {None}
    BY DEF IInv, SentInv
  <2>2. \A r \in sent : r.num = sentNext /\ r.of # None => InOutbox(r.of)' \/ r.of \in discarded
    BY <1>5, <2>1 DEF IInv, Types, SentInv
  <2> QED BY <2>1, <2>2 DEF SentInv, sentVars, Moving, SaveText
<1> QED BY <1>6, <1>7, <1>8, <1>12, <1>13, <1>1, <1>10, <1>11 DEF IInv

\* Steps that leave every file and every mailbox alone, and may end in any
\* place but those where a file is written
Settled == {"email", "next", "ask"} \cup Sending

LEMMA SettledStep ==
  ASSUME IInv, pc' \in Settled, cur' \in Names, msg' \in Msgs \cup {None},
         UNCHANGED <<app, out, next, written, sentVars>>
  PROVE  IInv'
<1>1. Types' /\ FilesInv'
  BY DEF IInv, Types, FilesInv, Settled, sentVars, IsMessage
<1>2. PrepareInv'
  BY DEF PrepareInv, Settled, Preparing, Sending
<1>3. pc' \notin Moving /\ pc' \notin {"record", "number", "remove"}
  BY DEF Settled, Sending, Moving
<1>4. Kept' /\ SentInv'
  BY <1>3 DEF IInv, Kept, SentInv, InOutbox, sentVars, InSent
<1> QED BY <1>1, <1>2, <1>4 DEF IInv

LEMMA LoadAttacherStep ==
  ASSUME IInv, LoadAttacher, UNCHANGED sentVars, "tidy" \in Habits
  PROVE  IInv' /\ SameMessages
<1>1. out[Tmp] = None /\ out' = [out EXCEPT ![Tmp] = << >>] /\ pc = "edit" /\ Tmp \in Names
  BY OutboxAssumption DEF LoadAttacher, Tmp, Names
<1>2. cur \in Names \ {Tmp} /\ out[cur] = Saved
  BY <1>1, SavedForm DEF IInv, PrepareInv, Preparing
<1>3. /\ out' \in [Names -> Files] /\ out'[Tmp] = << >>
      /\ \A i \in Names \ {Tmp} : out'[i] = out[i]
      /\ \A n \in Msgs : InOutbox(n) => InOutbox(n)'
  BY <1>1, EmptyFile, NoMessage, Rewritten DEF IInv, Files, IsMessage
<1>4. ASSUME NEW i \in Names, NEW n \in Msgs, out'[i] \in Forms[n] PROVE out[i] \in Forms[n]
  BY <1>3, <1>4, EmptyFile DEF IsMessage
<1>5. SameMessages
  BY <1>3, <1>4 DEF SameMessages, InOutbox
<1>6. Types'
  BY <1>3 DEF IInv, Types, LoadAttacher, sentVars, Preparing
<1>7. FilesInv'
  <2>1. next..MaxNum \subseteq Names
    BY OutboxAssumption DEF IInv, Types, Names
  <2> QED BY <1>4, <2>1 DEF IInv, FilesInv, IsMessage, LoadAttacher
<1>8. PrepareInv'
  BY <1>1, <1>2, <1>3 DEF IInv, PrepareInv, Preparing, LoadAttacher, Saved
<1>9. Kept' /\ SentInv'
  BY <1>3, KeptStep DEF IInv, LoadAttacher, sentVars, Moving
<1> QED BY <1>6, <1>7, <1>8, <1>9, <1>5 DEF IInv

LEMMA AttachCopyStep ==
  ASSUME IInv, AttachCopy, UNCHANGED sentVars
  PROVE  IInv' /\ SameMessages
<1> DEFINE c == Mimed(Saved)
<1>1. out[Tmp] = << >> /\ pc = "attach" /\ Tmp \in Names
  BY OutboxAssumption DEF AttachCopy, IInv, PrepareInv, Tmp, Names
<1>2. /\ msg \in Msgs /\ cur \in Names \ {Tmp} /\ out[cur] = Saved /\ c \in Files
      /\ \A m \in Msgs : c \in Forms[m] => out[cur] \in Forms[m]
  BY <1>1, SavedForm DEF IInv, PrepareInv, Preparing, Files
<1>3. out' = [out EXCEPT ![Tmp] = c]
  BY <1>2 DEF AttachCopy
<1> HIDE DEF c
<1>4. /\ out' \in [Names -> Files] /\ out'[Tmp] = c
      /\ \A i \in Names \ {Tmp} : out'[i] = out[i]
      /\ \A n \in Msgs : InOutbox(n) => InOutbox(n)'
  <2>1. \A m \in Msgs : out[Tmp] \notin Forms[m]
    BY <1>1, EmptyFile DEF IsMessage
  <2> QED BY <1>1, <1>2, <1>3, <2>1, Rewritten DEF IInv
<1>5. ASSUME NEW i \in Names, NEW n \in Msgs, out'[i] \in Forms[n] PROVE \E j \in Names : out[j] \in Forms[n]
  BY <1>2, <1>4, <1>5
<1>6. SameMessages
  BY <1>4, <1>5 DEF SameMessages, InOutbox
<1>7. Types'
  BY <1>4 DEF IInv, Types, AttachCopy, sentVars, Preparing
<1>8. FilesInv'
  <2>1. ASSUME NEW i \in next..MaxNum PROVE i \in Names /\ out'[i] = out[i]
    BY <1>4, OutboxAssumption DEF IInv, Types, Names, Tmp
  <2> QED BY <1>5, <2>1 DEF IInv, FilesInv, IsMessage, AttachCopy
<1>9. PrepareInv'
  BY <1>1, <1>2, <1>4 DEF IInv, PrepareInv, Preparing, AttachCopy, Saved, c
<1>10. Kept' /\ SentInv'
  BY <1>4, KeptStep DEF IInv, AttachCopy, sentVars, Moving
<1> QED BY <1>7, <1>8, <1>9, <1>10, <1>6 DEF IInv

LEMMA AttachUnlinkStep ==
  ASSUME IInv, AttachUnlink, UNCHANGED sentVars
  PROVE  IInv' /\ SameMessages
<1>1. pc = "attach_unlink" /\ out' = [out EXCEPT ![cur] = None]
  BY DEF AttachUnlink
<1>2. /\ msg \in Msgs /\ cur \in Names \ {Tmp} /\ cur < next /\ out[cur] = Saved /\ out[Tmp] = Mimed(Saved)
      /\ \A m \in Msgs : out[cur] \in Forms[m] => out[Tmp] \in Forms[m]
  BY <1>1, SavedForm DEF IInv, PrepareInv, Preparing
<1>3. /\ out' \in [Names -> Files] /\ out'[cur] = None
      /\ \A i \in Names \ {cur} : out'[i] = out[i]
  BY <1>1, <1>2 DEF IInv, Types, Files
<1>4. ASSUME NEW m \in Msgs, InOutbox(m) PROVE InOutbox(m)'
  <2>1. PICK n \in Names : out[n] \in Forms[m]
    BY <1>4 DEF InOutbox
  <2>2. Tmp \in Names
    BY OutboxAssumption DEF Tmp, Names
  <2>3. out'[IF n = cur THEN Tmp ELSE n] \in Forms[m]
    BY <1>2, <1>3, <2>1, <2>2
  <2> QED BY <2>1, <2>2, <2>3 DEF InOutbox
<1>5. ASSUME NEW i \in Names, NEW n \in Msgs, out'[i] \in Forms[n] PROVE out[i] \in Forms[n]
  BY <1>3, <1>5, NoMessage DEF IsMessage
<1>6. SameMessages
  BY <1>4, <1>5 DEF SameMessages, InOutbox
<1>7. Types'
  BY <1>3 DEF IInv, Types, AttachUnlink, sentVars, Preparing
<1>8. FilesInv'
  <2>1. next..MaxNum \subseteq Names
    BY OutboxAssumption DEF IInv, Types, Names
  <2> QED BY <1>5, <2>1 DEF IInv, FilesInv, IsMessage, AttachUnlink
<1>9. PrepareInv'
  BY <1>1, <1>2, <1>3, OutboxAssumption DEF IInv, PrepareInv, Preparing, AttachUnlink, Saved, Tmp, Names
<1>10. Kept' /\ SentInv'
  BY <1>4, KeptStep DEF IInv, AttachUnlink, sentVars, Moving
<1> QED BY <1>7, <1>8, <1>9, <1>10, <1>6 DEF IInv

LEMMA AttachRenameStep ==
  ASSUME IInv, AttachRename, UNCHANGED sentVars
  PROVE  IInv' /\ SameMessages
<1>1. pc = "attach_rename" /\ out' = [out EXCEPT ![cur] = out[Tmp], ![Tmp] = None] /\ Tmp \in Names
  BY OutboxAssumption DEF AttachRename, Tmp, Names
<1>2. msg \in Msgs /\ cur \in Names \ {Tmp} /\ cur < next /\ out[cur] = None
  BY <1>1, SavedForm DEF IInv, PrepareInv, Preparing
<1>3. /\ out' \in [Names -> Files] /\ out'[cur] = out[Tmp] /\ out'[Tmp] = None
      /\ \A i \in Names \ {cur, Tmp} : out'[i] = out[i]
  BY <1>1, <1>2 DEF IInv, Types, Files
<1>4. ASSUME NEW m \in Msgs, InOutbox(m) PROVE InOutbox(m)'
  <2>1. PICK n \in Names : out[n] \in Forms[m]
    BY <1>4 DEF InOutbox
  <2>2. n # cur
    BY <1>2, <2>1, NoMessage DEF IsMessage
  <2>3. out'[IF n = Tmp THEN cur ELSE n] \in Forms[m]
    BY <1>2, <1>3, <2>1, <2>2
  <2> QED BY <1>2, <2>1, <2>3 DEF InOutbox
<1>5. ASSUME NEW i \in Names, NEW n \in Msgs, out'[i] \in Forms[n] PROVE \E j \in Names : out[j] \in Forms[n]
  BY <1>1, <1>2, <1>3, <1>5, NoMessage DEF IsMessage
<1>6. SameMessages
  BY <1>4, <1>5 DEF SameMessages, InOutbox
<1>7. Types'
  BY <1>1, <1>3 DEF IInv, Types, AttachRename, sentVars, Preparing
<1>8. FilesInv'
  <2>1. ASSUME NEW i \in next..MaxNum PROVE i \in Names /\ out'[i] = out[i]
    BY <1>2, <1>3, OutboxAssumption DEF IInv, Types, Names, Tmp
  <2> QED BY <1>5, <2>1 DEF IInv, FilesInv, IsMessage, AttachRename
<1>9. PrepareInv'
  BY DEF AttachRename, PrepareInv, Preparing
<1>10. Kept' /\ SentInv'
  BY <1>4, KeptStep DEF IInv, AttachRename, sentVars, Moving
<1> QED BY <1>7, <1>8, <1>9, <1>10, <1>6 DEF IInv

LEMMA OutboxCrashStep ==
  ASSUME IInv, OutboxCrash, UNCHANGED sentVars
  PROVE  IInv' /\ SameMessages
<1>1. Tmp \in Names
  BY OutboxAssumption DEF Tmp, Names
<1>2. CASE UNCHANGED out
  BY <1>1, <1>2, SettledStep DEF OutboxCrash, Settled, SameMessages, InOutbox
<1>3. ASSUME NEW k \in 0..Len(Mimed(out[cur])), pc = "attach",
             out' = [out EXCEPT ![Tmp] = SubSeq(Mimed(out[cur]), 1, k)]
      PROVE  IInv' /\ SameMessages
  <2> DEFINE c == SubSeq(Mimed(out[cur]), 1, k)
  <2>1. /\ msg \in Msgs /\ cur \in Names \ {Tmp} /\ out[Tmp] = << >>
        /\ out[cur] = Saved /\ Saved \in Seq(Lines)
    BY <1>3, SavedForm DEF IInv, PrepareInv, Preparing
  <2>2. c \in Seq(Lines) /\ Marks(c) \subseteq Marks(Saved)
    BY <1>3, <2>1, MarksOfMimed, MarksOfPrefix
  <2>3. Marks(Saved) = IF msg \in written THEN {msg} ELSE {}
    BY <2>1, MarksOf DEF Saved
  <2>4. ASSUME NEW m \in Msgs, c \in Forms[m] PROVE m \in written
    BY <2>2, <2>3, <2>4, MarksOfMessage
  <2> HIDE DEF c
  <2>5. /\ out' \in [Names -> Files] /\ out'[Tmp] = c
        /\ \A i \in Names \ {Tmp} : out'[i] = out[i]
        /\ \A n \in Msgs : InOutbox(n) => InOutbox(n)'
    <3>1. \A m \in Msgs : out[Tmp] \notin Forms[m]
      BY <2>1, EmptyFile DEF IsMessage
    <3> QED BY <1>1, <1>3, <2>2, <3>1, Rewritten DEF IInv, Files, c
  <2>6. SameMessages
    <3>1. ASSUME NEW m \in Msgs, c \in Forms[m] PROVE out[cur] \in Forms[m]
      <4>1. Marks(c) = {m}
        BY <3>1, MarksOfMessage
      <4>2. msg \in written /\ m = msg
        BY <2>2, <2>3, <4>1 DEF c
      <4> QED BY <1>3, <2>1, <4>2, SavedForm DEF IInv, Preparing
    <3>2. ASSUME NEW i \in Names, NEW m \in Msgs, out'[i] \in Forms[m] PROVE \E j \in Names : out[j] \in Forms[m]
      BY <2>1, <2>5, <3>1, <3>2
    <3> QED BY <2>5, <3>2 DEF SameMessages, InOutbox
  <2>7. Types'
    BY <1>1, <2>5 DEF IInv, Types, OutboxCrash, sentVars
  <2>8. FilesInv'
    <3>1. ASSUME NEW i \in Names, NEW n \in Msgs, out'[i] \in Forms[n] PROVE n \in written
      BY <2>4, <2>5, <3>1 DEF IInv, FilesInv
    <3>2. ASSUME NEW i \in next..MaxNum PROVE i \in Names /\ out'[i] = out[i]
      BY <2>5, OutboxAssumption DEF IInv, Types, Names, Tmp
    <3> QED BY <3>1, <3>2 DEF IInv, FilesInv, IsMessage, OutboxCrash
  <2>9. PrepareInv'
    BY DEF OutboxCrash, PrepareInv, Preparing
  <2>10. Kept' /\ SentInv'
    BY <2>5, KeptStep DEF IInv, OutboxCrash, sentVars, Moving
  <2> QED BY <2>7, <2>8, <2>9, <2>10, <2>6 DEF IInv
<1> QED BY <1>2, <1>3 DEF OutboxCrash

LEMMA OutboxStep ==
  ASSUME IInv, OutboxNext, UNCHANGED sentVars, "tidy" \in Habits
  PROVE  IInv' /\ (SaveText \/ SameMessages)
<1>1. ASSUME NEW m \in Msgs, EscapeDraft(m) PROVE IInv' /\ SameMessages
  BY <1>1, EscapeDraftStep
<1>2. ASSUME NEW m \in Msgs, ComposeMail(m) \/ ComposeNews(m) \/ ReplyOrForward(m) \/ FollowUp(m)
      PROVE IInv' /\ SameMessages
  BY <1>2, WriteDraftStep DEF ComposeMail, ComposeNews, ReplyOrForward, FollowUp
<1>3. ASSUME LoadEmail PROVE IInv' /\ SameMessages
  BY <1>3, SettledStep, OutboxAssumption DEF LoadEmail, Settled, Tmp, Names, SameMessages, InOutbox
<1> QED BY <1>1, <1>2, <1>3, ComposeNumberStep, SaveTextStep, LoadAttacherStep, AttachCopyStep,
           AttachUnlinkStep, AttachRenameStep, OutboxCrashStep DEF OutboxNext, Attacher

-----------------------------------------------------------------------------
(* The steps of SMTP65.SYSTEM and NNTP65UP.SYSTEM                          *)

LEMMA TmpIsName == Tmp \in Names
BY OutboxAssumption DEF Tmp, Names

LEMMA ExitStep ==
  ASSUME IInv, Exit, UNCHANGED sentVars
  PROVE  IInv'
BY SettledStep, TmpIsName DEF Exit, Settled, IInv, Types

LEMMA SkipStep ==
  ASSUME IInv, SkipToNext, UNCHANGED sentVars
  PROVE  IInv'
BY SettledStep, TmpIsName DEF SkipToNext, Settled, IInv, Types

\* Between two files, and while the server is told about one
AskOrTalk ==
  \/ StartUpload \/ (\E n \in Names : Open(n) \/ OpenNews(n)) \/ Hold \/ Send
  \/ Mail \/ Rcpt \/ Data \/ Refused \/ Lost \/ Post \/ PostFailed \/ BodyLost
  \/ Finish \/ UploadCrash

LEMMA AskOrTalkUnchanged ==
  ASSUME AskOrTalk
  PROVE  UNCHANGED <<app, out, next, msg, written, sentVars>>
BY DEF AskOrTalk, StartUpload, Open, OpenNews, Hold, Send, Mail, Rcpt, Data, Refused, Lost, Post,
       PostFailed, BodyLost, Finish, UploadCrash, ErrorExit, Exit, SkipToNext, outboxVars,
       sentVars, sentBox, history

LEMMA AskOrTalkStep ==
  ASSUME IInv, AskOrTalk
  PROVE  IInv'
<1>1. UNCHANGED sentVars
  BY AskOrTalkUnchanged
<1>2. CASE StartUpload \/ Mail \/ Rcpt \/ Data \/ Post
  BY <1>1, <1>2, SettledStep DEF StartUpload, Mail, Rcpt, Data, Post, outboxVars, Settled, Sending, IInv, Types
<1>3. CASE \E n \in Names : Open(n) \/ OpenNews(n)
  BY <1>1, <1>3, SettledStep DEF Open, OpenNews, Settled, IInv, Types
<1>4. CASE Hold \/ Refused
  BY <1>1, <1>4, SkipStep DEF Hold, Refused
<1>5. CASE Send
  <2>1. CASE ErrorExit
    BY <1>1, <2>1, ExitStep DEF ErrorExit
  <2>2. CASE ~ErrorExit
    BY <1>1, <1>5, <2>2, SettledStep DEF Send, outboxVars, Settled, Sending, IInv, Types
  <2> QED BY <2>1, <2>2
<1>6. CASE Lost \/ PostFailed \/ BodyLost \/ Finish \/ UploadCrash
  BY <1>1, <1>6, ExitStep, SkipStep DEF Lost, PostFailed, BodyLost, Finish, UploadCrash, ErrorExit
<1> QED BY <1>2, <1>3, <1>4, <1>5, <1>6 DEF AskOrTalk

LEMMA FileRemoved ==
  ASSUME Types, out' = [out EXCEPT ![cur] = None]
  PROVE  /\ out' \in [Names -> Files] /\ out'[cur] = None
         /\ \A n \in Names, m \in Msgs : out'[n] \in Forms[m] => out[n] \in Forms[m]
         /\ \A m \in Msgs : InOutbox(m)' => InOutbox(m)
         /\ \A m \in Msgs : InOutbox(m) => InOutbox(m)' \/ m = Whole(out[cur])
<1>1. /\ out' \in [Names -> Files] /\ out'[cur] = None
      /\ \A i \in Names \ {cur} : out'[i] = out[i]
  BY DEF Types, Files
<1>2. ASSUME NEW m \in Msgs, InOutbox(m) PROVE InOutbox(m)' \/ m = Whole(out[cur])
  <2>1. PICK n \in Names : out[n] \in Forms[m]
    BY <1>2 DEF InOutbox
  <2>2. CASE n = cur
    BY <2>1, <2>2, WholeType
  <2>3. CASE n # cur
    BY <1>1, <2>1, <2>3 DEF InOutbox
  <2> QED BY <2>2, <2>3
<1>3. ASSUME NEW n \in Names, NEW m \in Msgs, out'[n] \in Forms[m] PROVE out[n] \in Forms[m]
  BY <1>1, <1>3, NoMessage DEF IsMessage
<1>4. \A m \in Msgs : InOutbox(m)' => InOutbox(m)
  BY <1>3 DEF InOutbox
<1> QED BY <1>1, <1>2, <1>3, <1>4

LEMMA DeleteStep ==
  ASSUME IInv, Delete
  PROVE  IInv'
<1>1. out' = [out EXCEPT ![cur] = None] /\ cur \in Names
  BY DEF Delete, IInv, Types
<1>2. out' \in [Names -> Files] /\ \A n \in Names, m \in Msgs : out'[n] \in Forms[m] => out[n] \in Forms[m]
  BY <1>1, FileRemoved DEF IInv
<1>3. \A m \in Msgs : InOutbox(m) => InOutbox(m)' \/ m = Whole(out[cur])
  BY <1>1, FileRemoved DEF IInv
<1>4. discarded' = discarded \cup (written \cap {Whole(out[cur])})
  BY DEF Delete
<1>5. Types'
  BY <1>2, <1>4, TmpIsName DEF IInv, Types, Delete, sentBox
<1>6. FilesInv'
  <2>1. next..MaxNum \subseteq Names
    BY OutboxAssumption DEF IInv, Types, Names
  <2> QED BY <1>2, <2>1 DEF IInv, FilesInv, IsMessage, Delete
<1>7. PrepareInv'
  BY DEF Delete, PrepareInv, Preparing
<1>8. Kept'
  BY <1>3, <1>4 DEF IInv, Types, Kept, Delete, sentBox, InSent
<1>9. SentInv'
  <2>1. \A r \in sent : r.num <= sentNext /\ r.of \in written \cup {None}
    BY DEF IInv, SentInv
  <2>2. \A r \in sent : r.num = sentNext /\ r.of # None => InOutbox(r.of)' \/ r.of \in discarded'
    BY <1>3, <1>4, <2>1 DEF IInv, Types, SentInv
  <2> QED BY <2>1, <2>2 DEF SentInv, sentBox, Moving, Delete
<1> QED BY <1>5, <1>6, <1>7, <1>8, <1>9 DEF IInv

\* The message in a file that is being sent was written.
LEMMA SentIsWritten ==
  ASSUME Types, FilesInv
  PROVE  Whole(out[cur]) \in written \cup {None}
BY WholeType DEF Types, FilesInv

LEMMA BodyStep ==
  ASSUME IInv, Body \/ ReplyLost
  PROVE  IInv'
<1>1. /\ submitted' = submitted \cup (written \cap {Whole(out[cur])})
      /\ Whole(out[cur]) \in written \cup {None}
      /\ pc' = "copy" /\ UNCHANGED <<outboxVars, sentBox, discarded>>
  BY SentIsWritten DEF Body, ReplyLost, GoOn, Offered, IInv
<1>2. Types' /\ FilesInv'
  BY <1>1 DEF IInv, Types, FilesInv, outboxVars, sentBox, Moving, IsMessage
<1>3. PrepareInv'
  BY <1>1 DEF PrepareInv, Preparing
<1>4. Kept' /\ SentInv'
  BY <1>1 DEF IInv, Kept, SentInv, outboxVars, sentBox, Moving, InOutbox, InSent
<1> QED BY <1>2, <1>3, <1>4 DEF IInv

LEMMA CopySentStep ==
  ASSUME IInv, CopySent
  PROVE  IInv'
<1>1. /\ Whole(out[cur]) \in Msgs \cup {None} /\ sentNext \in 1..MaxSent
      /\ sentFile' = [sentFile EXCEPT ![sentNext] = Whole(out[cur])]
  BY WholeType, UploadAssumption DEF CopySent, IInv, Types
<1>2. Types' /\ FilesInv'
  BY <1>1 DEF IInv, Types, FilesInv, CopySent, outboxVars, history, Moving, IsMessage
<1>3. PrepareInv'
  BY DEF CopySent, PrepareInv, Preparing
<1>4. Kept'
  <2>1. /\ \A r \in sent : r.num # sentNext => sentFile'[r.num] = sentFile[r.num]
        /\ UNCHANGED <<written, out, sent, discarded>>
    BY <1>1 DEF IInv, Types, CopySent, outboxVars, history
  <2>2. ASSUME NEW m \in written \ discarded PROVE InOutbox(m)' \/ InSent(m)'
    <3>1. InOutbox(m) => InOutbox(m)'
      BY <2>1 DEF InOutbox
    <3>2. ASSUME NEW r \in sent, r.of = m, sentFile[r.num] = m PROVE InOutbox(m) \/ InSent(m)'
      BY <2>1, <2>2, <3>2, OutboxAssumption DEF IInv, Types, SentInv, InSent
    <3> QED BY <3>1, <3>2 DEF IInv, Kept, InSent
  <2> QED BY <2>1, <2>2 DEF Kept
<1>5. SentInv'
  BY <1>1 DEF IInv, Types, SentInv, CopySent, outboxVars, history, Moving, InOutbox
<1> QED BY <1>2, <1>3, <1>4, <1>5 DEF IInv

LEMMA RecordSentStep ==
  ASSUME IInv, RecordSent
  PROVE  IInv'
<1> DEFINE w == Whole(out[cur])
<1> DEFINE r == [num |-> sentNext, of |-> w]
<1>1. /\ w \in written \cup {None} /\ sentNext \in 1..MaxSent /\ sentFile[sentNext] = w
      /\ w \in submitted \cup {None} /\ cur \in Names
  BY SentIsWritten, UploadAssumption DEF RecordSent, IInv, Types, SentInv, Moving
<1>2. sent' = sent \cup {r} /\ r.num = sentNext /\ r.of = w
  BY DEF RecordSent
<1>3. w # None => InOutbox(w)
  BY <1>1, WholeType DEF InOutbox, IInv, Types
<1>4. UNCHANGED <<outboxVars, sentFile, sentNext, history>> /\ pc' = "number"
  BY DEF RecordSent
<1> HIDE DEF w
<1>5. Types' /\ FilesInv'
  BY <1>1, <1>2, <1>4 DEF IInv, Types, FilesInv, outboxVars, history, Moving, IsMessage
<1>6. PrepareInv'
  BY <1>4 DEF PrepareInv, Preparing
<1>7. Kept'
  BY <1>2, <1>4 DEF IInv, Kept, outboxVars, history, InOutbox, InSent
<1>8. SentInv'
  <2>1. /\ Whole(out'[cur']) = w /\ sentNext' <= MaxSent /\ sentFile'[sentNext'] = w
        /\ r \in sent' /\ r = [num |-> sentNext', of |-> w]
    BY <1>1, <1>2, <1>4 DEF outboxVars, w
  <2>2. \A q \in sent' : q.num <= sentNext' /\ q.of \in written' \cup {None}
    BY <1>1, <1>2, <1>4 DEF IInv, SentInv, outboxVars
  <2>3. \A q \in sent' : q.num = sentNext' /\ q.of # None => InOutbox(q.of)' \/ q.of \in discarded'
    BY <1>2, <1>3, <1>4 DEF IInv, SentInv, outboxVars, history, InOutbox
  <2> QED BY <1>1, <1>4, <2>1, <2>2, <2>3 DEF SentInv, history
<1> QED BY <1>5, <1>6, <1>7, <1>8 DEF IInv

LEMMA NumberSentStep ==
  ASSUME IInv, NumberSent
  PROVE  IInv'
<1> DEFINE w == Whole(out[cur])
<1>1. /\ pc = "number" /\ pc' = "remove" /\ sentNext' = sentNext + 1 /\ sentNext \in 1..MaxSent
      /\ UNCHANGED <<outboxVars, sent, sentFile, history>>
  BY UploadAssumption DEF NumberSent, IInv, Types, SentInv
<1>2. Types' /\ FilesInv'
  BY <1>1, UploadAssumption DEF IInv, Types, FilesInv, outboxVars, history, Moving, IsMessage
<1>3. PrepareInv'
  BY <1>1 DEF PrepareInv, Preparing
<1>4. Kept'
  BY <1>1 DEF IInv, Kept, outboxVars, history, InOutbox, InSent
<1>5. SentInv'
  <2>1. /\ w \in submitted \cup {None} /\ sentFile[sentNext] = w
        /\ [num |-> sentNext, of |-> w] \in sent
    BY <1>1 DEF IInv, SentInv, Moving
  <2>2. w # None => InSent(w)
    BY <2>1 DEF InSent
  <2>3. \A q \in sent : q.num \in 1..MaxSent /\ q.num < sentNext' /\ q.of \in written \cup {None}
    BY <1>1 DEF IInv, Types, SentInv
  <2>4. Whole(out'[cur']) = w /\ (InSent(w) => \E q \in sent' : q.of = w /\ sentFile'[q.num] = w)
    BY <1>1 DEF outboxVars, InSent
  <2>5. InSent(Whole(out[cur]))' <=> \E q \in sent' : q.of = Whole(out'[cur']) /\ sentFile'[q.num] = Whole(out'[cur'])
    BY DEF InSent
  <2>6. \A q \in sent' : q.num < sentNext' /\ q.num <= sentNext' /\ q.num # sentNext' /\ q.of \in written' \cup {None}
    BY <1>1, <2>3, UploadAssumption DEF outboxVars
  <2> HIDE DEF w
  <2> QED BY <1>1, <2>1, <2>2, <2>4, <2>5, <2>6 DEF SentInv, history
<1> QED BY <1>2, <1>3, <1>4, <1>5 DEF IInv

LEMMA RemoveSentStep ==
  ASSUME IInv, RemoveSent
  PROVE  IInv'
<1>1. out' = [out EXCEPT ![cur] = None] /\ cur \in Names /\ pc = "remove"
  BY DEF RemoveSent, IInv, Types
<1>2. out' \in [Names -> Files] /\ \A n \in Names, m \in Msgs : out'[n] \in Forms[m] => out[n] \in Forms[m]
  BY <1>1, FileRemoved DEF IInv
<1>3. ASSUME NEW m \in Msgs, InOutbox(m) PROVE InOutbox(m)' \/ InSent(m)
  <2>1. InOutbox(m)' \/ m = Whole(out[cur])
    BY <1>1, <1>3, FileRemoved DEF IInv
  <2> QED BY <1>1, <2>1, OutboxAssumption DEF IInv, SentInv, Moving
<1>4. Types'
  BY <1>2, TmpIsName DEF IInv, Types, RemoveSent, sentBox, history
<1>5. FilesInv'
  <2>1. next..MaxNum \subseteq Names
    BY OutboxAssumption DEF IInv, Types, Names
  <2> QED BY <1>2, <2>1 DEF IInv, FilesInv, IsMessage, RemoveSent
<1>6. PrepareInv'
  BY DEF RemoveSent, PrepareInv, Preparing
<1>7. Kept'
  BY <1>3 DEF IInv, Types, Kept, RemoveSent, sentBox, history, InSent
<1>8. SentInv'
  <2>1. \A r \in sent : r.num < sentNext /\ r.num <= sentNext /\ r.of \in written \cup {None}
    BY <1>1 DEF IInv, SentInv
  <2>2. \A r \in sent : r.num # sentNext
    BY <2>1 DEF IInv, Types
  <2> QED BY <2>1, <2>2 DEF SentInv, sentBox, history, Moving, RemoveSent
<1> QED BY <1>4, <1>5, <1>6, <1>7, <1>8 DEF IInv

-----------------------------------------------------------------------------
(* The invariant                                                           *)

LEMMA InitIInv == Init => IInv
<1> SUFFICES ASSUME Init PROVE IInv
  OBVIOUS
<1>1. Types
  BY TmpIsName, OutboxAssumption, UploadAssumption DEF Init, OutboxInit, Types, Files
<1>2. FilesInv
  <2>1. \A n \in Names : out[n] = None
    BY DEF Init, OutboxInit
  <2>2. next..MaxNum \subseteq Names
    BY <1>1, OutboxAssumption DEF Types, Names
  <2> QED BY <2>1, <2>2, NoMessage DEF FilesInv, IsMessage
<1>3. PrepareInv /\ Kept /\ SentInv
  BY DEF Init, OutboxInit, PrepareInv, Preparing, Kept, SentInv, Moving
<1> QED BY <1>1, <1>2, <1>3 DEF IInv

LEMMA NextIInv ==
  ASSUME "tidy" \in Habits, IInv, [Next]_vars
  PROVE  IInv'
<1>1. CASE OutboxNext /\ UNCHANGED <<run, link, sentBox, history>>
  BY <1>1, OutboxStep DEF sentVars, sentBox, history
<1>2. CASE AskOrTalk
  BY <1>2, AskOrTalkStep
<1>3. CASE Delete \/ Body \/ ReplyLost
  BY <1>3, DeleteStep, BodyStep
<1>4. CASE UpdateSent
  BY <1>4, CopySentStep, RecordSentStep, NumberSentStep, RemoveSentStep DEF UpdateSent
<1>5. CASE UNCHANGED vars
  BY <1>5 DEF vars, outboxVars, sentBox, history, IInv, Types, FilesInv, IsMessage, PrepareInv, Saved,
              Kept, SentInv, InOutbox, InSent
<1> QED BY <1>1, <1>2, <1>3, <1>4, <1>5 DEF Next, Dialogue, AskOrTalk

THEOREM Invariance ==
  ASSUME "tidy" \in Habits
  PROVE  Spec => []IInv
BY InitIInv, NextIInv, PTL DEF Spec

\* A message the user wrote and did not delete is in OUTBOX or listed in SENT,
\* in one piece: whichever of the programs runs (EMAIL, EDIT, ATTACHER, SMTP65,
\* NNTP65UP), whatever the server and the connection do, and wherever a reset
\* comes.
THEOREM Safekeeping ==
  ASSUME "tidy" \in Habits
  PROVE  Spec => []NothingLost
<1>1. IInv => NothingLost
  BY DEF IInv, Kept, NothingLost
<1> QED BY <1>1, Invariance, PTL

-----------------------------------------------------------------------------
(* The programs implement Outgoing                                         *)

Waiting == {m \in written : InOutbox(m)}
Listed == {m \in written : InSent(m)}
abstractVars == <<Waiting, submitted, Listed, discarded>>

\* Where written, the mailboxes and SENT stay as they are
LEMMA Stutter ==
  ASSUME IInv, UNCHANGED <<written, sentVars>>, SameMessages
  PROVE  UNCHANGED abstractVars
<1>1. Waiting' = Waiting
  BY DEF IInv, Types, Waiting, SameMessages
<1>2. Listed' = Listed
  BY DEF Listed, InSent, sentVars
<1> QED BY <1>1, <1>2 DEF abstractVars, sentVars

\* What is listed was written.
LEMMA InSentIsWritten ==
  ASSUME IInv, NEW m \in Msgs, InSent(m)
  PROVE  m \in written
BY OutboxAssumption DEF IInv, SentInv, InSent

LEMMA SaveTextWrites ==
  ASSUME IInv, SaveText, UNCHANGED sentVars
  PROVE  Abstract!Write(msg) /\ msg \in Msgs
<1>1. /\ msg \in Msgs /\ InOutbox(msg)' /\ written' = written \cup {msg}
      /\ \A m \in Msgs \ {msg} : InOutbox(m)' <=> InOutbox(m)
  BY SaveTextStep DEF SaveText
<1>2. InOutbox(msg)' <=> \E n \in Names : out'[n] \in Forms[msg]
  BY DEF InOutbox, SaveText
<1>3. Waiting' = Waiting \cup {msg}
  <2>1. ASSUME NEW m \in Msgs \ {msg} PROVE m \in Waiting' <=> m \in Waiting
    BY <1>1, <2>1 DEF Waiting
  <2>2. msg \in Waiting'
    BY <1>1, <1>2 DEF Waiting, InOutbox
  <2>3. Waiting \subseteq Msgs /\ Waiting' \subseteq Msgs
    BY <1>1 DEF IInv, Types, Waiting
  <2> QED BY <2>1, <2>2, <2>3
<1>4. Listed' = Listed
  <2>1. \A m \in Msgs : InSent(m)' <=> InSent(m)
    BY DEF InSent, sentVars
  <2> QED BY <1>1, <2>1, InSentIsWritten DEF Listed, IInv, Types
<1> QED BY <1>1, <1>3, <1>4 DEF Abstract!Write, Waiting, Listed, sentVars

LEMMA BodySubmits ==
  ASSUME IInv, Body \/ ReplyLost
  PROVE  (\E m \in Msgs : Abstract!Submit(m)) \/ UNCHANGED abstractVars
<1> DEFINE w == Whole(out[cur])
<1>1. /\ submitted' = submitted \cup (written \cap {w}) /\ w \in written \cup {None}
      /\ UNCHANGED <<written, out, sent, sentFile, discarded>>
  BY SentIsWritten DEF Body, ReplyLost, GoOn, Offered, IInv, outboxVars, sentBox
<1>2. Waiting' = Waiting /\ Listed' = Listed
  BY <1>1 DEF Waiting, Listed, InOutbox, InSent
<1>3. CASE w \notin written
  BY <1>1, <1>2, <1>3 DEF abstractVars
<1>4. CASE w \in written
  <2>1. w \in Msgs /\ w \in Waiting /\ submitted' = submitted \cup {w}
    BY <1>1, <1>4, WholeType DEF IInv, Types, Waiting, InOutbox
  <2> HIDE DEF w
  <2> QED BY <1>1, <1>2, <2>1 DEF Abstract!Submit, Waiting, Listed
<1> QED BY <1>3, <1>4

LEMMA CopySentFiles ==
  ASSUME IInv, CopySent
  PROVE  Abstract!File
<1> DEFINE w == Whole(out[cur])
<1>1. /\ w \in submitted \cup {None} /\ sentNext \in 1..MaxSent
      /\ sentFile' = [sentFile EXCEPT ![sentNext] = w]
      /\ UNCHANGED <<outboxVars, sent, history>>
  BY UploadAssumption DEF CopySent, IInv, Types, SentInv, Moving
<1>2. Waiting' = Waiting /\ UNCHANGED <<written, submitted, discarded>>
  BY <1>1 DEF Waiting, InOutbox, outboxVars, history
<1>3. \A r \in sent : r.num \in 1..MaxSent
  BY DEF IInv, Types
<1> HIDE DEF w
<1>4. \A i \in 1..MaxSent : sentFile'[i] = IF i = sentNext THEN w ELSE sentFile[i]
  BY <1>1 DEF IInv, Types
<1>5. ASSUME NEW m \in Listed' \ Listed PROVE m \in submitted
  <2>1. PICK r \in sent : r.of = m /\ sentFile'[r.num] = m
    BY <1>1, <1>5 DEF Listed, InSent
  <2>2. m \in Msgs /\ sentFile[r.num] # m
    BY <1>2, <1>5, <2>1 DEF Listed, InSent, IInv, Types
  <2>3. m = w
    BY <1>3, <1>4, <2>1, <2>2
  <2> QED BY <1>1, <2>2, <2>3, OutboxAssumption
<1>6. ASSUME NEW m \in Listed \ Listed' PROVE m \in Waiting \cup discarded
  <2>1. m \in written /\ m \in Msgs
    BY <1>6 DEF Listed, IInv, Types
  <2>2. PICK r \in sent : r.of = m /\ sentFile[r.num] = m
    BY <1>6 DEF Listed, InSent
  <2>3. sentFile'[r.num] # m
    BY <1>1, <1>2, <1>6, <2>1, <2>2 DEF Listed, InSent
  <2>4. r.num = sentNext
    BY <1>3, <1>4, <2>2, <2>3
  <2> QED BY <2>1, <2>2, <2>4, OutboxAssumption DEF IInv, SentInv, Waiting
<1> QED BY <1>2, <1>5, <1>6 DEF Abstract!File, Waiting, Listed

LEMMA RecordSentFiles ==
  ASSUME IInv, RecordSent
  PROVE  Abstract!File
<1> DEFINE w == Whole(out[cur])
<1> DEFINE q == [num |-> sentNext, of |-> w]
<1>1. /\ w \in submitted \cup {None} /\ sentFile[sentNext] = w
      /\ sent' = sent \cup {q} /\ UNCHANGED <<outboxVars, sentFile, history>>
  BY DEF RecordSent, IInv, SentInv, Moving
<1>2. Waiting' = Waiting /\ UNCHANGED <<written, submitted, discarded>>
  BY <1>1 DEF Waiting, InOutbox, outboxVars, history
<1> HIDE DEF w
<1>3. Listed \subseteq Listed'
  BY <1>1, <1>2 DEF Listed, InSent
<1>4. ASSUME NEW m \in Listed' \ Listed PROVE m \in submitted
  <2>1. PICK r \in sent' : r.of = m /\ sentFile[r.num] = m
    BY <1>1, <1>4 DEF Listed, InSent
  <2>2. r = q /\ m \in Msgs
    BY <1>1, <1>2, <1>4, <2>1 DEF Listed, InSent, IInv, Types
  <2> QED BY <1>1, <2>1, <2>2, OutboxAssumption
<1> QED BY <1>2, <1>3, <1>4 DEF Abstract!File, Waiting, Listed

LEMMA RemoveSentRemoves ==
  ASSUME IInv, RemoveSent
  PROVE  (\E m \in Msgs : Abstract!Remove(m)) \/ UNCHANGED abstractVars
<1> DEFINE w == Whole(out[cur])
<1>1. /\ pc = "remove" /\ out' = [out EXCEPT ![cur] = None]
      /\ UNCHANGED <<written, sent, sentFile, submitted, discarded>>
  BY DEF RemoveSent, sentBox, history
<1>2. Listed' = Listed
  BY <1>1 DEF Listed, InSent
<1>3. /\ \A m \in Msgs : InOutbox(m)' => InOutbox(m)
      /\ \A m \in Msgs : InOutbox(m) => InOutbox(m)' \/ m = w
  BY <1>1, FileRemoved DEF IInv
<1>4. w \in Msgs \cup {None} /\ (w # None => w \in submitted /\ InSent(w))
  BY <1>1, WholeType DEF IInv, SentInv, Moving
<1> HIDE DEF w
<1>5. Waiting' \subseteq Waiting /\ Waiting \ {w} \subseteq Waiting'
  BY <1>1, <1>3 DEF Waiting, IInv, Types
<1>6. CASE w \notin Waiting \/ w \in Waiting'
  BY <1>1, <1>2, <1>5, <1>6 DEF abstractVars
<1>7. CASE w \in Waiting \ Waiting'
  <2>1. Waiting' = Waiting \ {w} /\ w \in Msgs
    BY <1>5, <1>7 DEF Waiting, IInv, Types
  <2>2. w \in submitted \cap Listed
    BY <1>4, <2>1, <1>7, OutboxAssumption DEF Listed, Waiting
  <2> QED BY <1>1, <1>2, <2>1, <2>2 DEF Abstract!Remove, Waiting, Listed
<1> QED BY <1>6, <1>7

LEMMA DeleteDiscards ==
  ASSUME IInv, Delete
  PROVE  (\E m \in Msgs : Abstract!Discard(m)) \/ UNCHANGED abstractVars
<1> DEFINE w == Whole(out[cur])
<1>1. /\ out' = [out EXCEPT ![cur] = None] /\ discarded' = discarded \cup (written \cap {w})
      /\ UNCHANGED <<written, sent, sentFile, submitted>>
  BY DEF Delete, sentBox
<1>2. Listed' = Listed
  BY <1>1 DEF Listed, InSent
<1>3. /\ \A m \in Msgs : InOutbox(m)' => InOutbox(m)
      /\ \A m \in Msgs : InOutbox(m) => InOutbox(m)' \/ m = w
  BY <1>1, FileRemoved DEF IInv
<1> HIDE DEF w
<1>4. Waiting' \subseteq Waiting /\ Waiting \ {w} \subseteq Waiting'
  BY <1>1, <1>3 DEF Waiting, IInv, Types
<1>5. CASE w \notin written
  <2>1. Waiting' = Waiting /\ discarded' = discarded
    BY <1>1, <1>4, <1>5 DEF Waiting
  <2> QED BY <1>1, <1>2, <2>1 DEF abstractVars
<1>6. CASE w \in written
  <2>1. w \in Msgs /\ discarded' = discarded \cup {w} /\ Waiting' \in {Waiting, Waiting \ {w}}
    BY <1>1, <1>4, <1>6 DEF IInv, Types
  <2> QED BY <1>1, <1>2, <2>1 DEF Abstract!Discard, Waiting, Listed
<1> QED BY <1>5, <1>6

LEMMA InitAbstract == Init => Abstract!Init
<1> SUFFICES ASSUME Init PROVE Abstract!Init
  OBVIOUS
<1>1. Waiting = {} /\ Listed = {} /\ submitted = {} /\ discarded = {}
  BY DEF Init, OutboxInit, Waiting, Listed
<1> QED BY <1>1 DEF Abstract!Init, Waiting, Listed

LEMMA NextAbstract ==
  ASSUME "tidy" \in Habits, IInv, [Next]_vars
  PROVE  Abstract!Next \/ UNCHANGED abstractVars
<1>1. CASE OutboxNext /\ UNCHANGED <<run, link, sentBox, history>>
  <2>1. UNCHANGED sentVars
    BY <1>1 DEF sentVars, sentBox, history
  <2>2. CASE SaveText
    BY <2>1, <2>2, SaveTextWrites DEF Abstract!Next
  <2>3. CASE ~SaveText
    <3>1. SameMessages
      BY <1>1, <2>1, <2>3, OutboxStep
    <3>2. UNCHANGED written
      BY <1>1, <2>3 DEF OutboxNext, EscapeDraft, ComposeMail, ComposeNews, ReplyOrForward, FollowUp,
         WriteDraft, ComposeNumber, LoadEmail, LoadAttacher, Attacher, AttachCopy, AttachUnlink,
         AttachRename, OutboxCrash
    <3> QED BY <2>1, <3>1, <3>2, Stutter
  <2> QED BY <2>2, <2>3
<1>2. CASE AskOrTalk
  <2>1. UNCHANGED <<out, written, sentVars>>
    BY <1>2, AskOrTalkUnchanged
  <2>2. SameMessages
    BY <2>1 DEF SameMessages, InOutbox
  <2> QED BY <2>1, <2>2, Stutter
<1>3. CASE Delete
  BY <1>3, DeleteDiscards DEF Abstract!Next
<1>4. CASE Body \/ ReplyLost
  BY <1>4, BodySubmits DEF Abstract!Next
<1>5. CASE CopySent \/ RecordSent
  BY <1>5, CopySentFiles, RecordSentFiles DEF Abstract!Next
<1>6. CASE NumberSent
  BY <1>6 DEF NumberSent, outboxVars, history, abstractVars, Waiting, Listed, InOutbox, InSent
<1>7. CASE RemoveSent
  BY <1>7, RemoveSentRemoves DEF Abstract!Next
<1>8. CASE UNCHANGED vars
  BY <1>8 DEF vars, outboxVars, sentBox, history, abstractVars, Waiting, Listed, InOutbox, InSent
<1> QED BY <1>1, <1>2, <1>3, <1>4, <1>5, <1>6, <1>7, <1>8 DEF Next, Dialogue, UpdateSent, AskOrTalk

\* The programs together implement Outgoing: from the first save to its entry
\* in SENT a message waits in OUTBOX, is submitted, listed, removed or discarded
\* in the order Outgoing allows, whichever program runs and wherever a reset
\* comes.
THEOREM Implementation ==
  ASSUME "tidy" \in Habits
  PROVE  Spec => Submits
<1>1. Init => Abstract!Init
  BY InitAbstract
<1>2. IInv /\ [Next]_vars => [Abstract!Next]_abstractVars
  BY NextAbstract
<1>3. abstractVars = <<{m \in written : InOutbox(m)}, submitted, {m \in written : InSent(m)}, discarded>>
  BY DEF abstractVars, Waiting, Listed
<1> QED BY <1>1, <1>2, <1>3, Invariance, PTL DEF Spec, Submits, Abstract!Spec, abstractVars, Waiting, Listed

-----------------------------------------------------------------------------
(* The addresses in a header                                               *)

\* f holds the concatenations of the first sequences of s.
Flattens(f, s, n) == f = [i \in 1..n |-> IF i = 1 THEN s[i] ELSE f[i-1] \o s[i]]

LEMMA FlattensExists ==
  ASSUME NEW s, NEW n \in Nat
  PROVE  \E f : Flattens(f, s, n)
<1> DEFINE S == {k \in Nat : \A f : ~Flattens(f, s, k)}
<1> SUFFICES ASSUME S # {} PROVE FALSE
  OBVIOUS
<1>1. PICK m \in S : \A k \in S : m <= k
  BY LeastNumber
<1>2. Flattens([i \in {} |-> 0], s, 0)
  BY DEF Flattens
<1>3. m - 1 \in Nat /\ m - 1 \notin S
  BY <1>1, <1>2
<1>4. PICK g : Flattens(g, s, m - 1)
  BY <1>3
<1> DEFINE f == [i \in 1..m |-> IF i < m THEN g[i] ELSE IF i = 1 THEN s[i] ELSE g[i-1] \o s[i]]
<1>5. ASSUME NEW i \in 1..m PROVE f[i] = IF i = 1 THEN s[i] ELSE f[i-1] \o s[i]
  <2>1. CASE i < m
    <3>1. i \in 1..(m - 1)
      BY <1>3, <2>1
    <3>2. g[i] = IF i = 1 THEN s[i] ELSE g[i-1] \o s[i]
      BY <1>4, <3>1 DEF Flattens
    <3>3. i # 1 => f[i-1] = g[i-1]
      BY <2>1, <1>3
    <3> QED BY <2>1, <3>2, <3>3
  <2>2. CASE i = m
    <3>1. i # 1 => f[i-1] = g[i-1]
      BY <2>2, <1>3
    <3> QED BY <2>2, <3>1
  <2> QED BY <1>3, <2>1, <2>2
<1>6. Flattens(f, s, m)
  BY <1>5 DEF Flattens
<1> QED BY <1>1, <1>6

LEMMA FlattenSeqIs ==
  ASSUME NEW s, Len(s) \in Nat \ {0}
  PROVE  \E f : /\ FlattenSeq(s) = f[Len(s)]
                /\ \A i \in 1..Len(s) : f[i] = IF i = 1 THEN s[i] ELSE f[i-1] \o s[i]
<1> DEFINE f == CHOOSE f : f = [i \in 1..Len(s) |-> IF i = 1 THEN s[i] ELSE f[i-1] \o s[i]]
<1>1. f = [i \in 1..Len(s) |-> IF i = 1 THEN s[i] ELSE f[i-1] \o s[i]]
  BY FlattensExists DEF Flattens
<1>2. FlattenSeq(s) = f[Len(s)]
  BY DEF FlattenSeq
<1> HIDE DEF f
<1> QED BY <1>1, <1>2

LEMMA FlattenSeqType ==
  ASSUME NEW A, NEW s \in Seq(Seq(A))
  PROVE  FlattenSeq(s) \in Seq(A)
<1>1. CASE s = << >>
  BY <1>1 DEF FlattenSeq
<1>2. CASE s # << >>
  <2>1. Len(s) \in Nat \ {0}
    BY <1>2, EmptySeq
  <2>2. PICK f : /\ FlattenSeq(s) = f[Len(s)]
                 /\ \A i \in 1..Len(s) : f[i] = IF i = 1 THEN s[i] ELSE f[i-1] \o s[i]
    BY <2>1, FlattenSeqIs
  <2> DEFINE S == {i \in Nat : i \in 1..Len(s) /\ f[i] \notin Seq(A)}
  <2>3. SUFFICES ASSUME S # {} PROVE FALSE
    BY <2>1, <2>2
  <2>4. PICK m \in S : \A k \in S : m <= k
    BY <2>3, LeastNumber
  <2>5. s[m] \in Seq(A)
    BY <2>4, ElementOfSeq
  <2>6. m # 1 => f[m-1] \in Seq(A)
    BY <2>1, <2>4
  <2>7. CASE m = 1
    BY <2>2, <2>4, <2>5, <2>7
  <2>8. CASE m # 1
    <3>1. f[m] = f[m-1] \o s[m]
      BY <2>2, <2>4, <2>8
    <3>2. f[m] \in Seq(A)
      BY <2>5, <2>6, <2>8, <3>1, ConcatProperties
    <3> QED BY <2>4, <3>2
  <2> QED BY <2>7, <2>8
<1> QED BY <1>1, <1>2

\* A line with no addresses at the end adds none.
LEMMA FlattenSeqOfMore ==
  ASSUME NEW A, NEW s \in Seq(Seq(A)), s # << >>, NEW t \in Seq(Seq(A)),
         Len(t) = Len(s) + 1, t[Len(t)] = << >>, \A i \in 1..Len(s) : t[i] = s[i]
  PROVE  FlattenSeq(t) = FlattenSeq(s)
<1>1. Len(s) \in Nat \ {0}
  BY EmptySeq
<1>2. PICK f : /\ FlattenSeq(s) = f[Len(s)]
               /\ \A i \in 1..Len(s) : f[i] = IF i = 1 THEN s[i] ELSE f[i-1] \o s[i]
  BY <1>1, FlattenSeqIs
<1>3. PICK g : /\ FlattenSeq(t) = g[Len(t)]
               /\ \A i \in 1..Len(t) : g[i] = IF i = 1 THEN t[i] ELSE g[i-1] \o t[i]
  <2>1. Len(t) \in Nat \ {0}
    BY <1>1
  <2> QED BY <2>1, FlattenSeqIs
<1>4. \A i \in 1..Len(s) : f[i] = g[i]
  <2> DEFINE S == {i \in Nat : i \in 1..Len(s) /\ f[i] # g[i]}
  <2>1. ASSUME S # {} PROVE FALSE
    <3>1. PICK m \in S : \A k \in S : m <= k
      BY <2>1, LeastNumber
    <3>2. m \in 1..Len(s) /\ m \in 1..Len(t) /\ t[m] = s[m] /\ f[m] # g[m]
      BY <1>1, <3>1
    <3>3. m # 1 => f[m-1] = g[m-1]
      <4>1. SUFFICES ASSUME m # 1 PROVE m - 1 \in Nat /\ m - 1 \in 1..Len(s) /\ m - 1 \notin S
        OBVIOUS
      <4> QED BY <1>1, <3>1, <3>2, <4>1
    <3> QED BY <1>2, <1>3, <3>2, <3>3
  <2>2. ASSUME NEW i \in 1..Len(s), f[i] # g[i] PROVE FALSE
    <3>1. i \in S
      BY <1>1, <2>2
    <3> QED BY <2>1, <3>1
  <2> QED BY <2>2
<1>5. g[Len(t)] = f[Len(s)] \o << >>
  <2>1. Len(t) \in 1..Len(t) /\ Len(t) # 1 /\ Len(t) - 1 = Len(s) /\ Len(s) \in 1..Len(s)
    BY <1>1
  <2>2. g[Len(t)] = g[Len(t) - 1] \o t[Len(t)]
    BY <1>3, <2>1
  <2> QED BY <1>4, <2>1, <2>2
<1>6. f[Len(s)] \in Seq(A)
  BY <1>2, FlattenSeqType
<1> QED BY <1>2, <1>3, <1>5, <1>6, ConcatEmptySeq

AddressesOf(l) == IF IsTo(l) THEN l[2] ELSE << >>

LEMMA AddressesOfLine ==
  ASSUME NEW l \in Lines
  PROVE  AddressesOf(l) \in Seq(Addrs)
<1>1. CASE l \in {Other, Mime, Blank}
  BY <1>1 DEF AddressesOf, IsTo, Other, Mime, Blank
<1>2. CASE \E x \in Msgs \cup {"part", "end"} : l = Text(x)
  BY <1>2 DEF AddressesOf, IsTo, Text
<1>3. ASSUME NEW as \in BoundedSeq(Addrs, 2), l = To(as) PROVE AddressesOf(l) \in Seq(Addrs)
  <2>1. as \in Seq(Addrs)
    <3>1. PICK n \in 0..2 : as \in [1..n -> Addrs]
      BY DEF BoundedSeq, SeqOf
    <3>2. n \in Nat
      OBVIOUS
    <3>3. as \in UNION {[1..k -> Addrs] : k \in Nat}
      BY <3>1, <3>2
    <3> QED BY <3>3, SeqDef
  <2>2. l[2] = as
    BY <1>3 DEF To
  <2> QED BY <2>1, <2>2, EmptySeq DEF AddressesOf
<1> QED BY <1>1, <1>2, <1>3 DEF Lines

LEMMA AddressesType ==
  ASSUME NEW s \in Seq(Lines)
  PROVE  /\ [i \in DOMAIN s |-> AddressesOf(s[i])] \in Seq(Seq(Addrs))
         /\ Addresses(s) = FlattenSeq([i \in DOMAIN s |-> AddressesOf(s[i])])
         /\ Addresses(s) \in Seq(Addrs)
<1> DEFINE t == [i \in DOMAIN s |-> AddressesOf(s[i])]
<1>1. DOMAIN s = 1..Len(s) /\ Len(s) \in Nat
  BY LenProperties
<1>2. \A i \in 1..Len(s) : AddressesOf(s[i]) \in Seq(Addrs)
  BY ElementOfSeq, AddressesOfLine
<1>3. t \in [1..Len(s) -> Seq(Addrs)]
  BY <1>1, <1>2
<1>4. t \in Seq(Seq(Addrs))
  BY <1>1, <1>3, SeqDef
<1>5. Addresses(s) = FlattenSeq(t)
  BY DEF Addresses, AddressesOf
<1> QED BY <1>4, <1>5, FlattenSeqType

-----------------------------------------------------------------------------
(* The header scan                                                         *)

ScanStops(s) == {i \in DOMAIN s : s[i] = Blank \/ i = HeadLines + 1}

LEMMA ScannedType ==
  ASSUME NEW s \in Seq(Lines)
  PROVE  /\ Scanned(s) \in 0..Len(s)
         /\ \A k \in ScanStops(s) : (\A j \in ScanStops(s) : k <= j) => Scanned(s) = k
<1> DEFINE S == ScanStops(s)
<1>1. DOMAIN s = 1..Len(s) /\ Len(s) \in Nat /\ S \in SUBSET Nat
  BY LenProperties DEF ScanStops
<1>2. Scanned(s) = IF S = {} THEN Len(s) ELSE CHOOSE i \in S : \A j \in S : i <= j
  BY DEF Scanned, ScanStops
<1>3. S \subseteq 1..Len(s)
  BY <1>1 DEF ScanStops
<1> HIDE DEF S
<1>4. CASE S = {}
  BY <1>1, <1>2, <1>4 DEF S
<1>5. CASE S # {}
  <2>1. \E i \in S : \A j \in S : i <= j
    BY <1>1, <1>5, LeastNumber
  <2>2. Scanned(s) \in S /\ \A j \in S : Scanned(s) <= j
    BY <1>2, <1>5, <2>1
  <2>3. ASSUME NEW k \in S, \A j \in S : k <= j PROVE Scanned(s) = k
    <3>1. k \in Nat /\ Scanned(s) \in Nat
      BY <1>1, <2>2
    <3>2. k <= Scanned(s) /\ Scanned(s) <= k
      BY <2>2, <2>3
    <3> QED BY <3>1, <3>2
  <2> QED BY <1>1, <1>3, <2>2, <2>3 DEF S
<1> QED BY <1>4, <1>5

LEMMA FoundType ==
  ASSUME NEW s \in Seq(Lines)
  PROVE  Found(s) \in Seq(Addrs)
<1> DEFINE n == Scanned(s)
<1> DEFINE k == IF n > 0 /\ (s[n] = Blank \/ n > HeadLines) THEN n - 1 ELSE n
<1>1. n \in 0..Len(s) /\ Len(s) \in Nat
  BY ScannedType, LenProperties
<1>2. k \in 0..Len(s) /\ 1 \in 1..(Len(s) + 1)
  BY <1>1
<1>3. Found(s) = Addresses(SubSeq(s, 1, k))
  BY DEF Found
<1> HIDE DEF k
<1> QED BY <1>2, <1>3, SubSeqRange, AddressesType

LEMMA LeftoverType ==
  ASSUME NEW a \in Seq(Lines), NEW c \in Seq(Lines)
  PROVE  Leftover(a, c) \in Seq(Lines)
<1> DEFINE n == Scanned(a \o c)
<1> DEFINE want == n - Len(a)
<1> DEFINE reads == IF want <= 0 THEN 0 ELSE (want + ReadLines - 1) \div ReadLines
<1> DEFINE bytes == reads * ReadLines
<1> DEFINE got == IF bytes < Len(c) THEN bytes ELSE Len(c)
<1>1. a \o c \in Seq(Lines) /\ Len(a \o c) = Len(a) + Len(c) /\ Len(a) \in Nat /\ Len(c) \in Nat
  BY ConcatProperties, LenProperties
<1>2. n \in 0..(Len(a) + Len(c))
  BY <1>1, ScannedType
<1>3. ReadLines \in Nat \ {0} /\ want \in Int
  BY <1>1, <1>2, UploadAssumption
<1> HIDE DEF n
<1>4. reads \in Int
  BY <1>3
<1> HIDE DEF reads
<1>5. bytes \in Int
  BY <1>3, <1>4
<1> HIDE DEF bytes
<1>6. got \in Int /\ got <= Len(c)
  BY <1>1, <1>5
<1>7. Leftover(a, c) = SubSeq(a \o c, n + 1, Len(a) + got)
  BY DEF Leftover, got, bytes, reads, n
<1> HIDE DEF got
<1>8. \A i \in (n + 1)..(Len(a) + got) : i \in 1..Len(a \o c)
  BY <1>1, <1>2, <1>6
<1>9. \A i \in (n + 1)..(Len(a) + got) : (a \o c)[i] \in Lines
  BY <1>1, <1>8, ElementOfSeq
<1>10. n + 1 \in Int /\ Len(a) + got \in Int
  BY <1>1, <1>2, <1>6
<1> QED BY <1>7, <1>9, <1>10, SubSeqProperties, ZenonT(40)

\* The lines p stand at the beginning of c, and the scan stops behind them.
LEMMA FoundBehind ==
  ASSUME NEW c \in Seq(Lines), NEW p \in Seq(Lines), Len(p) < Len(c), Len(p) <= HeadLines,
         \A i \in 1..Len(p) : c[i] = p[i] /\ p[i] # Blank,
         c[Len(p) + 1] = Blank \/ Len(p) = HeadLines
  PROVE  Found(c) = Addresses(p)
<1>1. /\ Len(c) \in Nat /\ Len(p) \in Nat /\ DOMAIN c = 1..Len(c)
      /\ HeadLines \in Nat
  BY LenProperties, UploadAssumption
<1>2. Len(p) + 1 \in ScanStops(c)
  BY <1>1 DEF ScanStops
<1>3. ASSUME NEW j \in ScanStops(c) PROVE Len(p) + 1 <= j
  <2>1. j \in 1..Len(c) /\ (c[j] = Blank \/ j = HeadLines + 1)
    BY <1>1 DEF ScanStops
  <2>2. j \notin 1..Len(p)
    BY <1>1, <2>1
  <2> QED BY <1>1, <2>1, <2>2
<1>4. Scanned(c) = Len(p) + 1
  BY <1>2, <1>3, ScannedType
<1>5. Found(c) = Addresses(SubSeq(c, 1, Len(p)))
  <2>1. Scanned(c) > 0 /\ (c[Scanned(c)] = Blank \/ Scanned(c) > HeadLines) /\ Scanned(c) - 1 = Len(p)
    BY <1>1, <1>4
  <2> QED BY <2>1 DEF Found
<1>6. \A i \in 1..Len(p) : c[i] \in Lines
  BY <1>1, ElementOfSeq
<1> DEFINE s == SubSeq(c, 1, Len(p))
<1>7. s \in Seq(Lines) /\ Len(s) = Len(p) /\ \A i \in 1..Len(p) : s[i] = p[i]
  <2>1. /\ s \in Seq(Lines)
        /\ Len(s) = IF 1 <= Len(p) THEN Len(p) - 1 + 1 ELSE 0
        /\ \A i \in 1..(Len(p) - 1 + 1) : s[i] = c[1 + i - 1]
    BY <1>1, <1>6, SubSeqProperties
  <2> QED BY <1>1, <2>1
<1>8. s = p
  <2> HIDE DEF s
  <2> QED BY <1>7, SeqEqual
<1> QED BY <1>5, <1>8

LEMMA MimeAddsNone ==
  ASSUME NEW h \in Seq(Lines), h # << >>
  PROVE  Addresses(h \o <<Mime>>) = Addresses(h)
<1> DEFINE p == h \o <<Mime>>
<1> DEFINE s == [i \in DOMAIN h |-> AddressesOf(h[i])]
<1> DEFINE t == [i \in DOMAIN p |-> AddressesOf(p[i])]
<1>1. <<Mime>> \in Seq(Lines) /\ Len(<<Mime>>) = 1 /\ <<Mime>>[1] = Mime
  BY LinesDistinct
<1>2. /\ p \in Seq(Lines) /\ Len(p) = Len(h) + 1 /\ Len(h) \in Nat \ {0}
      /\ DOMAIN h = 1..Len(h) /\ DOMAIN p = 1..Len(p)
  BY <1>1, ConcatProperties, LenProperties, EmptySeq
<1>3. \A i \in 1..Len(p) : p[i] = IF i <= Len(h) THEN h[i] ELSE Mime
  <2>1. \A i \in 1..(Len(h) + 1) : p[i] = IF i <= Len(h) THEN h[i] ELSE <<Mime>>[i - Len(h)]
    BY <1>1, ConcatProperties
  <2>2. \A i \in 1..(Len(h) + 1) : ~(i <= Len(h)) => i - Len(h) = 1
    BY <1>2
  <2> QED BY <1>1, <1>2, <2>1, <2>2
<1>4. /\ s \in Seq(Seq(Addrs)) /\ Addresses(h) = FlattenSeq(s)
      /\ t \in Seq(Seq(Addrs)) /\ Addresses(p) = FlattenSeq(t)
  BY <1>2, AddressesType
<1>5. AddressesOf(Mime) = << >>
  BY DEF AddressesOf, IsTo, Mime
<1>6. Len(s) = Len(h) /\ Len(t) = Len(p)
  BY <1>2
<1>7. s # << >>
  BY <1>2, <1>6
<1>8. t[Len(t)] = << >> /\ \A i \in 1..Len(s) : t[i] = s[i]
  BY <1>2, <1>3, <1>5, <1>6
<1> HIDE DEF s, t, p
<1>9. FlattenSeq(t) = FlattenSeq(s)
  BY <1>2, <1>4, <1>6, <1>7, <1>8, FlattenSeqOfMore
<1> QED BY <1>4, <1>9 DEF p

LEMMA Joined ==
  ASSUME NEW a \in Seq(Lines), NEW b \in Seq(Lines)
  PROVE  /\ a \o b \in Seq(Lines) /\ Len(a \o b) = Len(a) + Len(b)
         /\ Len(a) \in Nat /\ Len(b) \in Nat
         /\ \A i \in 1..Len(a) : (a \o b)[i] = a[i]
         /\ \A i \in 1..Len(b) : (a \o b)[Len(a) + i] = b[i]
<1>1. Len(a) \in Nat /\ Len(b) \in Nat
  BY LenProperties
<1>2. /\ a \o b \in Seq(Lines) /\ Len(a \o b) = Len(a) + Len(b)
      /\ \A i \in 1..(Len(a) + Len(b)) : (a \o b)[i] = IF i <= Len(a) THEN a[i] ELSE b[i - Len(a)]
  BY ConcatProperties
<1>3. ASSUME NEW i \in 1..Len(b) PROVE (a \o b)[Len(a) + i] = b[i]
  <2>1. Len(a) + i \in 1..(Len(a) + Len(b)) /\ ~(Len(a) + i <= Len(a)) /\ Len(a) + i - Len(a) = i
    BY <1>1
  <2> QED BY <1>2, <2>1
<1> QED BY <1>1, <1>2, <1>3

LEMMA JoinedAgain ==
  ASSUME NEW a \in Seq(Lines), NEW b \in Seq(Lines), NEW c \in Seq(Lines)
  PROVE  (a \o b) \o c = a \o (b \o c)
OBVIOUS

\* What the scan finds in a message are the addresses of its header.
LEMMA FoundInMessage ==
  ASSUME NEW m \in Msgs, Len(Draft[m].head) <= HeadLines, NEW c \in Forms[m]
  PROVE  Found(c) = Addresses(Draft[m].head)
<1> DEFINE h == Draft[m].head
<1> DEFINE d == Plain(m)
<1>1. h \in Seq(Lines) /\ h # << >> /\ Blank \notin Range(h) /\ d \in Seq(Lines)
  BY OutboxAssumption, MarksOf
<1>2. /\ Len(h) \in Nat \ {0} /\ HeadLines \in Nat /\ Len(d) \in Nat
      /\ \A i \in 1..Len(h) : h[i] \in Lines /\ h[i] # Blank
  BY <1>1, EmptySeq, LenProperties, ElementOfSeq, RangeEquality, UploadAssumption
<1>3. Len(h) < Len(d) /\ d[Len(h) + 1] = Blank /\ \A i \in 1..Len(h) : d[i] = h[i]
  <2> DEFINE q == Draft[m].quoted
  <2> DEFINE t == Draft[m].typed
  <2> DEFINE one == <<Blank>>
  <2> DEFINE first == h \o one
  <2> DEFINE rest == q \o t
  <2>1. q \in Seq(Lines) /\ t \in Seq(Lines) /\ one \in Seq(Lines) /\ Len(one) = 1 /\ one[1] = Blank
    BY OutboxAssumption, LinesDistinct
  <2>2. d = (first \o q) \o t
    BY DEF Plain, Header
  <2> HIDE DEF one, q, t, d, h
  <2>3. /\ first \in Seq(Lines) /\ Len(first) = Len(h) + Len(one)
        /\ \A i \in 1..Len(h) : first[i] = h[i]
        /\ \A i \in 1..Len(one) : first[Len(h) + i] = one[i]
    BY <1>1, <2>1, Joined
  <2>4. rest \in Seq(Lines) /\ Len(rest) \in Nat
    BY <2>1, ConcatProperties, LenProperties
  <2> HIDE DEF first
  <2>5. d = first \o rest
    BY <2>1, <2>2, <2>3, JoinedAgain, SMTT(30)
  <2> HIDE DEF rest
  <2>6. Len(d) = Len(first) + Len(rest) /\ \A i \in 1..Len(first) : d[i] = first[i]
    BY <2>3, <2>4, <2>5, Joined
  <2> QED BY <1>2, <2>1, <2>3, <2>4, <2>6
<1>4. CASE c = d
  BY <1>1, <1>2, <1>3, <1>4, FoundBehind
<1>5. CASE c = Mimed(d)
  <2> DEFINE n == Len(h)
  <2> DEFINE new == <<Mime, Blank, Text("part")>>
  <2> DEFINE tail == SubSeq(d, n + 2, Len(d))
  <2> DEFINE end == <<Text("end")>>
  <2> DEFINE head == SubSeq(d, 1, n)
  <2> DEFINE first == head \o new
  <2> DEFINE rest == tail \o end
  <2>1. BlankAt(d) = n + 1
    <3>1. /\ BlankAt(d) \in 1..(Len(d) + 1)
          /\ BlankAt(d) <= Len(d) => d[BlankAt(d)] = Blank
          /\ \A i \in 1..(BlankAt(d) - 1) : d[i] # Blank
      BY <1>1, BlankAtType
    <3>2. ~(BlankAt(d) <= n)
      <4>1. SUFFICES ASSUME BlankAt(d) <= n PROVE FALSE
        OBVIOUS
      <4>2. BlankAt(d) \in 1..n /\ BlankAt(d) <= Len(d)
        BY <1>2, <1>3, <3>1, <4>1
      <4> QED BY <1>2, <1>3, <3>1, <4>2
    <3>3. ~(BlankAt(d) > n + 1)
      <4>1. SUFFICES ASSUME BlankAt(d) > n + 1 PROVE FALSE
        OBVIOUS
      <4>2. n + 1 \in 1..(BlankAt(d) - 1)
        BY <1>2, <3>1, <4>1
      <4> QED BY <1>3, <3>1, <4>2
    <3> QED BY <1>2, <3>1, <3>2, <3>3
  <2>2. c = (first \o tail) \o end
    <3>1. BlankAt(d) - 1 = n /\ BlankAt(d) + 1 = n + 2
      BY <1>2, <2>1
    <3> QED BY <1>5, <3>1 DEF Mimed
  <2>3. head \in Seq(Lines) /\ Len(head) = n /\ \A i \in 1..n : head[i] = h[i]
    <3>1. \A i \in 1..n : d[i] \in Lines
      BY <1>2, <1>3
    <3>2. /\ head \in Seq(Lines)
          /\ Len(head) = IF 1 <= n THEN n - 1 + 1 ELSE 0
          /\ \A i \in 1..(n - 1 + 1) : head[i] = d[1 + i - 1]
      BY <1>2, <3>1, SubSeqProperties
    <3> QED BY <1>2, <1>3, <3>2
  <2>4. tail \in Seq(Lines)
    <3>1. \A i \in (n + 2)..Len(d) : d[i] \in Lines
      BY <1>1, <1>2, ElementOfSeq
    <3> QED BY <1>2, <3>1, SubSeqProperties
  <2>5. /\ new \in Seq(Lines) /\ Len(new) = 3 /\ new[1] = Mime /\ new[2] = Blank
        /\ end \in Seq(Lines)
    BY LinesDistinct
  <2> HIDE DEF new, end, head, tail, d, h
  <2>6. /\ first \in Seq(Lines) /\ Len(first) = Len(head) + Len(new)
        /\ \A i \in 1..Len(head) : first[i] = head[i]
        /\ \A i \in 1..Len(new) : first[Len(head) + i] = new[i]
    BY <2>3, <2>5, Joined
  <2>7. rest \in Seq(Lines) /\ Len(rest) \in Nat
    BY <2>4, <2>5, ConcatProperties, LenProperties
  <2> HIDE DEF first
  <2>8. c = first \o rest
    BY <2>2, <2>4, <2>5, <2>6, JoinedAgain, ZenonT(40) DEF rest
  <2> HIDE DEF rest
  <2>9. /\ c \in Seq(Lines) /\ Len(c) = Len(first) + Len(rest)
        /\ \A i \in 1..Len(first) : c[i] = first[i]
    BY <2>6, <2>7, <2>8, Joined
  <2>10. /\ \A i \in 1..n : c[i] = h[i]
         /\ c[n + 1] = Mime /\ c[n + 2] = Blank
    <3>1. \A i \in 1..n : c[i] = h[i]
      BY <1>2, <2>3, <2>5, <2>6, <2>9
    <3>2. c[n + 1] = first[n + 1] /\ c[n + 2] = first[n + 2]
      BY <1>2, <2>3, <2>5, <2>6, <2>9
    <3>3. first[n + 1] = new[1] /\ first[n + 2] = new[2]
      BY <1>2, <2>3, <2>5, <2>6
    <3> QED BY <2>5, <3>1, <3>2, <3>3
  <2>11. n + 3 <= Len(c)
    BY <1>2, <2>3, <2>5, <2>6, <2>7, <2>9
  <2>12. CASE n = HeadLines
    <3>1. Len(h) < Len(c) /\ Len(h) <= HeadLines
      BY <1>2, <2>9, <2>11, <2>12
    <3>2. \A i \in 1..Len(h) : c[i] = h[i] /\ h[i] # Blank
      BY <1>2, <2>10
    <3> QED BY <1>1, <2>9, <2>12, <3>1, <3>2, FoundBehind DEF h
  <2>13. CASE n < HeadLines
    <3> DEFINE one == <<Mime>>
    <3> DEFINE hh == h \o one
    <3>1. one \in Seq(Lines) /\ Len(one) = 1 /\ one[1] = Mime /\ Mime # Blank
      BY LinesDistinct DEF Mime, Blank
    <3> HIDE DEF one
    <3>2. /\ hh \in Seq(Lines) /\ Len(hh) = Len(h) + Len(one)
          /\ \A i \in 1..Len(h) : hh[i] = h[i]
          /\ \A i \in 1..Len(one) : hh[Len(h) + i] = one[i]
      BY <1>1, <3>1, Joined
    <3> HIDE DEF hh
    <3>3. hh[n + 1] = Mime /\ Len(hh) = n + 1
      BY <1>2, <3>1, <3>2
    <3>4. \A i \in 1..Len(hh) : c[i] = hh[i] /\ hh[i] # Blank
      <4>1. \A i \in 1..Len(hh) : i \in 1..n \/ i = n + 1
        BY <1>2, <3>3
      <4> QED BY <1>2, <2>10, <3>1, <3>2, <3>3, <4>1
    <3>5. Len(hh) < Len(c) /\ Len(hh) <= HeadLines /\ c[Len(hh) + 1] = Blank
      <4>1. Len(hh) + 1 = n + 2
        BY <1>2, <3>3
      <4>2. Len(c) \in Nat
        BY <2>9, LenProperties
      <4> QED BY <1>2, <2>10, <2>11, <2>13, <3>3, <4>1, <4>2
    <3>6. Found(c) = Addresses(hh)
      BY <2>9, <3>2, <3>4, <3>5, FoundBehind
    <3>7. Addresses(hh) = Addresses(h)
      BY <1>1, MimeAddsNone DEF hh, one
    <3> QED BY <3>6, <3>7 DEF h
  <2>14. n <= HeadLines /\ n \in Nat
    BY <1>2 DEF h
  <2> QED BY <1>2, <2>12, <2>13, <2>14 DEF h
<1> QED BY <1>4, <1>5 DEF Forms

-----------------------------------------------------------------------------
(* The recipients                                                          *)

Submitting == {"ask"} \cup Sending \cup Moving

RunTypes ==
  /\ todo \subseteq Names /\ ahead \in Seq(Lines) /\ rcpts \in Seq(Addrs)
  /\ connected \in BOOLEAN /\ up \in BOOLEAN /\ clean \in BOOLEAN
  /\ trans = None \/ trans \in Seq(Addrs)

\* The files of a run are there: the one in hand is not offered again.
FilesThere ==
  /\ \A n \in todo : out[n] # None
  /\ pc \in {"email"} \cup Preparing => todo = {}
  /\ pc \in Submitting => cur \notin todo /\ out[cur] # None

\* What the server was told of a message and what it will be told of it are
\* the addresses that were found in it.
Told ==
  /\ pc \in {"ask", "mail"} => rcpts = Found(out[cur])
  /\ pc = "rcpt" => trans \o rcpts = Found(out[cur])
  /\ pc \in {"data", "body"} => trans = Found(out[cur])

Recipients ==
  /\ app = "news" => pc \notin {"mail", "rcpt", "data"}
  /\ app = "mail" => pc # "post"
  /\ app = "mail" /\ pc \in {"ask", "mail"} => rcpts # << >>
  /\ pc = "rcpt" => rcpts # << >>
  /\ pc \in {"rcpt", "data", "body"} => trans \in Seq(Addrs)
  /\ clean /\ app = "mail" => Told

RunInv == RunTypes /\ FilesThere /\ Recipients

LEMMA OutboxRun ==
  ASSUME IInv, RunInv, OutboxNext, UNCHANGED <<run, link, sentBox, history>>
  PROVE  RunInv'
<1>1. pc \in {"email"} \cup Preparing /\ pc' \in {"email"} \cup Preparing /\ UNCHANGED app
  BY DEF OutboxNext, EscapeDraft, ComposeMail, ComposeNews, ReplyOrForward, FollowUp, WriteDraft,
         ComposeNumber, SaveText, LoadEmail, LoadAttacher, Attacher, AttachCopy, AttachUnlink,
         AttachRename, OutboxCrash, Preparing, outboxVars
<1>2. pc' \notin Submitting /\ pc' \notin {"ask", "mail", "rcpt", "data", "body", "post"}
  BY <1>1 DEF Submitting, Sending, Moving, Preparing
<1> QED BY <1>1, <1>2 DEF RunInv, RunTypes, FilesThere, Recipients, Told, run, link

\* Leaving the program, and going on to the next file
LEMMA ExitRun ==
  ASSUME RunInv, Exit
  PROVE  RunInv'
<1>1. << >> \in Seq(Lines) /\ << >> \in Seq(Addrs)
  OBVIOUS
<1> QED BY <1>1 DEF Exit, RunInv, RunTypes, FilesThere, Recipients, Told, Submitting, Sending, Moving

LEMMA SkipRun ==
  ASSUME RunInv, SkipToNext, ahead' = ahead, connected' = connected, up' \in BOOLEAN, trans' = trans
  PROVE  RunInv'
<1>1. << >> \in Seq(Addrs)
  OBVIOUS
<1> QED BY <1>1 DEF SkipToNext, RunInv, RunTypes, FilesThere, Recipients, Told, Preparing,
                    Submitting, Sending, Moving

LEMMA StartUploadRun ==
  ASSUME RunInv, StartUpload
  PROVE  RunInv'
BY DEF StartUpload, outboxVars, link, RunInv, RunTypes, FilesThere, Recipients, Told, Preparing,
       Submitting, Sending, Moving

LEMMA OpenRun ==
  ASSUME IInv, RunInv, NEW n \in Names, Open(n)
  PROVE  RunInv'
<1>1. n \in todo /\ todo' = todo \ {n} /\ out[n] # None /\ out[n] \in Seq(Lines) /\ app = "mail" /\ pc = "next"
  BY DEF Open, RunInv, FilesThere, IInv, Types, Files
<1>2. /\ ahead \o out[n] \in Seq(Lines) /\ Found(ahead \o out[n]) \in Seq(Addrs)
      /\ Leftover(ahead, out[n]) \in Seq(Lines)
  BY <1>1, ConcatProperties, FoundType, LeftoverType DEF RunInv, RunTypes
<1>3. ahead = << >> => ahead \o out[n] = out[n]
  BY <1>1, ConcatEmptySeq
<1>4. RunTypes'
  BY <1>2 DEF Open, RunInv, RunTypes, link
<1>5. UNCHANGED <<out, app>>
  BY DEF Open
<1>6. CASE Found(ahead \o out[n]) = << >>
  <2>1. pc' = "next" /\ UNCHANGED <<cur, rcpts, clean, trans>>
    BY <1>6 DEF Open, link
  <2>2. FilesThere' /\ Recipients'
    BY <1>1, <1>5, <2>1 DEF RunInv, FilesThere, Recipients, Told, Preparing, Submitting, Sending, Moving
  <2> QED BY <1>4, <2>2 DEF RunInv
<1>7. CASE Found(ahead \o out[n]) # << >>
  <2>1. /\ pc' = "ask" /\ cur' = n /\ rcpts' = Found(ahead \o out[n]) /\ clean' = (ahead = << >>)
        /\ UNCHANGED trans
    BY <1>7 DEF Open, link
  <2>2. FilesThere'
    BY <1>1, <1>5, <2>1 DEF RunInv, FilesThere, Preparing
  <2>3. Recipients'
    BY <1>1, <1>3, <1>5, <1>7, <2>1 DEF RunInv, Recipients, Told
  <2> QED BY <1>4, <2>2, <2>3 DEF RunInv
<1> QED BY <1>6, <1>7

LEMMA OpenNewsRun ==
  ASSUME IInv, RunInv, NEW n \in Names, OpenNews(n)
  PROVE  RunInv'
<1>1. /\ n \in todo /\ todo' = todo \ {n} /\ out[n] # None /\ out[n] \in Seq(Lines)
      /\ app = "news" /\ pc' = "ask" /\ cur' = n
      /\ UNCHANGED <<app, out, rcpts, clean, link>> /\ ahead' = Leftover(ahead, out[n])
  BY DEF OpenNews, RunInv, FilesThere, IInv, Types, Files
<1>2. ahead' \in Seq(Lines)
  BY <1>1, LeftoverType DEF RunInv, RunTypes
<1>3. RunTypes' /\ FilesThere'
  BY <1>1, <1>2 DEF RunInv, RunTypes, FilesThere, link, Preparing
<1>4. Recipients'
  BY <1>1 DEF RunInv, Recipients, Told
<1> QED BY <1>3, <1>4 DEF RunInv

LEMMA SendRun ==
  ASSUME RunInv, Send, IInv
  PROVE  RunInv'
<1>1. CASE ErrorExit
  BY <1>1, ExitRun DEF ErrorExit
<1>2. CASE ~ErrorExit
  <2>1. /\ pc = "ask" /\ pc' = IF app = "mail" THEN "mail" ELSE "post"
        /\ connected' = TRUE /\ up' = (connected => up) /\ UNCHANGED <<outboxVars, run, trans>>
    BY <1>2 DEF Send
  <2>2. RunTypes' /\ FilesThere'
    BY <2>1 DEF RunInv, RunTypes, FilesThere, outboxVars, run, Preparing, Submitting, Sending
  <2>3. Recipients'
    BY <2>1 DEF RunInv, Recipients, Told, outboxVars, run
  <2> QED BY <2>2, <2>3 DEF RunInv
<1> QED BY <1>1, <1>2

LEMMA MailRun ==
  ASSUME IInv, RunInv, Mail
  PROVE  RunInv'
<1>1. /\ pc = "mail" /\ pc' = "rcpt" /\ trans' = << >> /\ app = "mail"
      /\ UNCHANGED <<outboxVars, run, connected, up>> /\ << >> \in Seq(Addrs)
  BY DEF Mail, RunInv, Recipients, IInv, Types
<1>2. << >> \o rcpts = rcpts
  BY ConcatEmptySeq DEF RunInv, RunTypes
<1>3. RunTypes' /\ FilesThere'
  BY <1>1 DEF RunInv, RunTypes, FilesThere, outboxVars, run, Preparing, Submitting, Sending
<1>4. Recipients'
  BY <1>1, <1>2 DEF RunInv, Recipients, Told, outboxVars, run
<1> QED BY <1>3, <1>4 DEF RunInv

LEMMA MoveHead ==
  ASSUME NEW A, NEW t \in Seq(A), NEW r \in Seq(A), r # << >>
  PROVE  /\ Append(t, Head(r)) \in Seq(A) /\ Tail(r) \in Seq(A)
         /\ Append(t, Head(r)) \o Tail(r) = t \o r
         /\ Len(r) = 1 => Tail(r) = << >> /\ Append(t, Head(r)) = t \o r
         /\ Len(r) # 1 => Tail(r) # << >>
<1> DEFINE e == Head(r)
<1> DEFINE q == Tail(r)
<1> DEFINE a == Append(t, e)
<1>1. /\ e \in A /\ e = r[1] /\ q \in Seq(A) /\ Len(q) = Len(r) - 1 /\ Len(r) \in Nat \ {0}
      /\ \A i \in 1..Len(q) : q[i] = r[i + 1]
  BY HeadTailProperties, EmptySeq
<1> HIDE DEF e, q
<1>2. /\ a \in Seq(A) /\ Len(a) = Len(t) + 1 /\ Len(t) \in Nat
      /\ \A i \in 1..Len(t) : a[i] = t[i]
      /\ a[Len(t) + 1] = e
  BY <1>1, AppendProperties, LenProperties
<1> HIDE DEF a
<1>3. /\ a \o q \in Seq(A) /\ Len(a \o q) = Len(a) + Len(q)
      /\ \A i \in 1..(Len(a) + Len(q)) : (a \o q)[i] = IF i <= Len(a) THEN a[i] ELSE q[i - Len(a)]
  BY <1>1, <1>2, ConcatProperties
<1>4. /\ t \o r \in Seq(A) /\ Len(t \o r) = Len(t) + Len(r)
      /\ \A i \in 1..(Len(t) + Len(r)) : (t \o r)[i] = IF i <= Len(t) THEN t[i] ELSE r[i - Len(t)]
  BY ConcatProperties
<1>5. ASSUME NEW i \in 1..Len(a \o q) PROVE (a \o q)[i] = (t \o r)[i]
  <2>1. CASE i <= Len(t)
    BY <1>1, <1>2, <1>3, <1>4, <2>1
  <2>2. CASE i = Len(t) + 1
    BY <1>1, <1>2, <1>3, <1>4, <2>2
  <2>3. CASE i > Len(t) + 1
    <3>1. (a \o q)[i] = q[i - Len(a)] /\ (t \o r)[i] = r[i - Len(t)]
      BY <1>1, <1>2, <1>3, <1>4, <2>3
    <3>2. i - Len(a) \in 1..Len(q) /\ i - Len(a) + 1 = i - Len(t)
      BY <1>1, <1>2, <1>3, <2>3
    <3> QED BY <1>1, <3>1, <3>2
  <2> QED BY <1>1, <1>2, <1>3, <2>1, <2>2, <2>3
<1>6. a \o q = t \o r
  <2> DEFINE u == a \o q
  <2> DEFINE v == t \o r
  <2>1. u \in Seq(A) /\ v \in Seq(A) /\ Len(u) = Len(v)
    BY <1>1, <1>2, <1>3, <1>4
  <2>2. \A i \in 1..Len(u) : u[i] = v[i]
    BY <1>5
  <2> HIDE DEF u, v
  <2>3. u = v
    BY <2>1, <2>2, SeqEqual
  <2> QED BY <2>3 DEF u, v
<1>7. Len(r) = 1 => q = << >>
  BY <1>1, EmptySeq
<1>8. a \o << >> = a
  BY <1>2, ConcatEmptySeq
<1>9. Len(r) # 1 => q # << >>
  BY <1>1, EmptySeq
<1> QED BY <1>1, <1>2, <1>6, <1>7, <1>8, <1>9 DEF e, q, a

LEMMA RcptRun ==
  ASSUME IInv, RunInv, Rcpt
  PROVE  RunInv'
<1>1. /\ pc = "rcpt" /\ rcpts # << >> /\ rcpts \in Seq(Addrs) /\ trans \in Seq(Addrs)
      /\ trans' = Append(trans, Head(rcpts)) /\ rcpts' = Tail(rcpts)
      /\ pc' = IF Len(rcpts) = 1 THEN "data" ELSE "rcpt"
      /\ UNCHANGED <<outboxVars, todo, ahead, clean, connected, up>>
  BY DEF Rcpt, RunInv, RunTypes, Recipients
<1>2. /\ trans' \in Seq(Addrs) /\ rcpts' \in Seq(Addrs) /\ trans' \o rcpts' = trans \o rcpts
      /\ pc' = "data" => trans' = trans \o rcpts
      /\ pc' # "data" => pc' = "rcpt" /\ rcpts' # << >>
  <2> DEFINE e == Head(rcpts)
  <2>1. /\ Append(trans, e) \in Seq(Addrs) /\ Tail(rcpts) \in Seq(Addrs)
        /\ Append(trans, e) \o Tail(rcpts) = trans \o rcpts
        /\ Len(rcpts) = 1 => Tail(rcpts) = << >> /\ Append(trans, e) = trans \o rcpts
        /\ Len(rcpts) # 1 => Tail(rcpts) # << >>
    BY <1>1, MoveHead
  <2> QED BY <1>1, <2>1
<1>3. RunTypes' /\ FilesThere'
  BY <1>1, <1>2 DEF RunInv, RunTypes, FilesThere, outboxVars, Preparing, Submitting, Sending
<1>4. Recipients'
  BY <1>1, <1>2 DEF RunInv, Recipients, Told, outboxVars
<1> QED BY <1>3, <1>4 DEF RunInv

LEMMA DataRun ==
  ASSUME RunInv, Data
  PROVE  RunInv'
<1>1. pc = "data" /\ pc' = "body" /\ UNCHANGED <<outboxVars, run, link>>
  BY DEF Data
<1>2. RunTypes' /\ FilesThere'
  BY <1>1 DEF RunInv, RunTypes, FilesThere, outboxVars, run, link, Preparing, Submitting, Sending
<1>3. Recipients'
  BY <1>1 DEF RunInv, Recipients, Told, outboxVars, run, link
<1> QED BY <1>2, <1>3 DEF RunInv

LEMMA PostRun ==
  ASSUME IInv, RunInv, Post
  PROVE  RunInv'
<1>1. /\ pc = "post" /\ pc' = "body" /\ app = "news" /\ trans' = << >> /\ << >> \in Seq(Addrs)
      /\ UNCHANGED <<outboxVars, run, connected, up>>
  BY DEF Post, RunInv, Recipients, IInv, Types
<1>2. RunTypes' /\ FilesThere'
  BY <1>1 DEF RunInv, RunTypes, FilesThere, outboxVars, run, Preparing, Submitting, Sending
<1>3. Recipients'
  BY <1>1 DEF RunInv, Recipients, outboxVars, run
<1> QED BY <1>2, <1>3 DEF RunInv

\* Submitted, and moved to SENT
LEMMA MoveRun ==
  ASSUME IInv, RunInv, Body \/ ReplyLost \/ CopySent \/ RecordSent \/ NumberSent
  PROVE  RunInv'
<1>1. /\ pc \in {"body"} \cup Moving /\ pc' \in Moving /\ ahead' \in Seq(Lines)
      /\ trans' \in {None, trans} /\ up' \in BOOLEAN
      /\ UNCHANGED <<outboxVars, todo, rcpts, clean, connected>>
  <2>1. << >> \in Seq(Lines)
    OBVIOUS
  <2> QED BY <2>1 DEF Body, ReplyLost, GoOn, CopySent, RecordSent, NumberSent, Moving, run, link, RunInv, RunTypes
<1>2. RunTypes' /\ FilesThere'
  BY <1>1 DEF RunInv, RunTypes, FilesThere, outboxVars, Preparing, Submitting, Sending, Moving
<1>3. Recipients'
  BY <1>1 DEF RunInv, Recipients, Told, Moving
<1> QED BY <1>2, <1>3 DEF RunInv

LEMMA RemovedRun ==
  ASSUME IInv, RunInv, Delete \/ RemoveSent
  PROVE  RunInv'
<1>1. /\ pc \in Submitting /\ pc' = "next" /\ out' = [out EXCEPT ![cur] = None]
      /\ rcpts' \in {rcpts, << >>} /\ << >> \in Seq(Addrs) /\ clean' = FALSE
      /\ UNCHANGED <<app, todo, ahead, link>>
  BY DEF Delete, RemoveSent, Submitting, Moving
<1>2. RunTypes'
  BY <1>1 DEF RunInv, RunTypes, link
<1>3. FilesThere'
  <2>1. cur \notin todo /\ todo \subseteq Names /\ out \in [Names -> Files]
    BY <1>1 DEF RunInv, RunTypes, FilesThere, IInv, Types
  <2>2. \A n \in todo : out'[n] = out[n]
    BY <1>1, <2>1
  <2> QED BY <1>1, <2>2 DEF RunInv, FilesThere, Preparing, Submitting, Sending, Moving
<1>4. Recipients'
  BY <1>1 DEF RunInv, Recipients
<1> QED BY <1>2, <1>3, <1>4 DEF RunInv

LEMMA InitRunInv == Init => RunInv
<1> SUFFICES ASSUME Init PROVE RunInv
  OBVIOUS
<1>1. << >> \in Seq(Lines) /\ << >> \in Seq(Addrs)
  OBVIOUS
<1> QED BY <1>1 DEF Init, OutboxInit, RunInv, RunTypes, FilesThere, Recipients, Told, Submitting, Sending, Moving

LEMMA NextRunInv ==
  ASSUME IInv, RunInv, [Next]_vars
  PROVE  RunInv'
<1>1. CASE OutboxNext /\ UNCHANGED <<run, link, sentBox, history>>
  BY <1>1, OutboxRun
<1>2. CASE StartUpload \/ (\E n \in Names : Open(n) \/ OpenNews(n)) \/ Send
  BY <1>2, StartUploadRun, OpenRun, OpenNewsRun, SendRun
<1>3. CASE Hold \/ Refused
  <2>1. SkipToNext /\ UNCHANGED <<ahead, link>>
    BY <1>3 DEF Hold, Refused
  <2> QED BY <2>1, SkipRun DEF link, RunInv, RunTypes
<1>4. CASE Lost
  <2>1. CASE ErrorExit
    BY <2>1, ExitRun DEF ErrorExit
  <2>2. CASE ~ErrorExit
    BY <1>4, <2>2, SkipRun DEF Lost
  <2> QED BY <2>1, <2>2
<1>5. CASE PostFailed \/ BodyLost \/ Finish \/ UploadCrash
  BY <1>5, ExitRun DEF PostFailed, BodyLost, Finish, UploadCrash, ErrorExit
<1>6. CASE Mail \/ Rcpt \/ Data \/ Post
  BY <1>6, MailRun, RcptRun, DataRun, PostRun
<1>7. CASE Body \/ ReplyLost \/ CopySent \/ RecordSent \/ NumberSent
  BY <1>7, MoveRun
<1>8. CASE Delete \/ RemoveSent
  BY <1>8, RemovedRun
<1>9. CASE UNCHANGED vars
  BY <1>9 DEF vars, outboxVars, run, link, RunInv, RunTypes, FilesThere, Recipients, Told
<1> QED BY <1>1, <1>2, <1>3, <1>4, <1>5, <1>6, <1>7, <1>8, <1>9 DEF Next, Dialogue, UpdateSent

LEMMA RunInvariance ==
  ASSUME "tidy" \in Habits
  PROVE  Spec => []RunInv
BY Invariance, InitRunInv, NextRunInv, PTL DEF Spec

\* Every variable keeps its type, under the hypothesis of Safekeeping.
THEOREM TypeCorrect ==
  ASSUME "tidy" \in Habits
  PROVE  Spec => []TypeOK
<1>1. ASSUME IInv, RunInv PROVE TypeOK
  <2>1. \A n \in Names : out[n] = None \/ Range(out[n]) \subseteq Lines
    BY <1>1, RangeOfSeq DEF IInv, Types, Files
  <2>2. Range(ahead) \subseteq Lines
    BY <1>1, RangeOfSeq DEF RunInv, RunTypes
  <2> QED BY <1>1, <2>1, <2>2 DEF IInv, Types, RunInv, RunTypes, Recipients, TypeOK
<1> QED BY <1>1, Invariance, RunInvariance, PTL

\* A message whose header get_line reads from its first line is submitted to
\* the addresses of its own header and to no others, whatever the user and the
\* server did with the messages before: HeadLines, the lines the scan looks at,
\* are more than EMAIL.SYSTEM writes into a header.
THEOREM OwnAddresses ==
  ASSUME "tidy" \in Habits,
         \A m \in Msgs : Len(Draft[m].head) <= HeadLines
  PROVE  Spec => []OwnRecipients
<1>1. ASSUME IInv, RunInv PROVE OwnRecipients
  <2> DEFINE m == Whole(out[cur])
  <2>1. SUFFICES ASSUME clean, pc = "body", app = "mail", m # None
                 PROVE  trans = Addresses(Draft[m].head)
    BY DEF OwnRecipients, RightRecipients
  <2>2. m \in Msgs /\ out[cur] \in Forms[m]
    BY <2>1, WholeType
  <2>3. trans = Found(out[cur])
    BY <1>1, <2>1 DEF RunInv, Recipients, Told
  <2> HIDE DEF m
  <2> QED BY <2>2, <2>3, FoundInMessage
<1> QED BY <1>1, Invariance, RunInvariance, PTL

=============================================================================
