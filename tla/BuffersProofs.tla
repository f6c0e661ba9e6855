-------------------------- MODULE BuffersProofs --------------------------
(***************************************************************************)
(* The parts of a file stay in consecutive buffers, and the buffers are    *)
(* documents (Buffers implements Documents), for any number of buffers and *)
(* any files.                                                              *)
(***************************************************************************)
EXTENDS Buffers, FiniteSetTheorems, SequenceTheorems, TLAPS

\* The induction hypothesis: PartsInOrder, and the types it speaks of.  It is
\* inductive as it stands because it speaks of all parts before a part and not
\* only of the one before it.
BankTypes ==
  /\ name \in [Banks -> Files \cup {None}]
  /\ part \in [Banks -> Nat]
  /\ cur \in Banks

IInv == BankTypes /\ PartsInOrder

LEMMA BankNumbers == NBanks \in Nat /\ NBanks > 1
  BY BuffersAssumption

\* What find_first_bank relies on: of a file in parts it finds part 1.
LEMMA FirstIsPartOne ==
  ASSUME IInv, NEW b \in Banks, part[b] # 0
  PROVE  /\ FirstBank(b) \in Banks
         /\ part[FirstBank(b)] = 1
         /\ FirstBank(b) <= b
  BY BankNumbers DEF IInv, BankTypes, PartsInOrder, FirstBank, Banks

\* The walk from part 1 meets all buffers of the file, or none.
LEMMA WalkTakesWholeFiles ==
  ASSUME IInv, NEW first \in Banks, part[first] = 1,
         NEW b \in Banks, part[b] # 0, NEW c \in FirstBank(b)..b
  PROVE  /\ c \in Banks
         /\ b \in Parts(first) <=> c \in Parts(first)
<1>1. /\ c \in Banks /\ part[c] = part[b] - (b - c)
      /\ \A i \in FirstBank(b)..b : part[i] = part[b] - (b - i)
  BY BankNumbers DEF IInv, BankTypes, PartsInOrder, FirstBank, Banks
<1>2. \A x \in Banks : x \in Parts(first) <=>
        x >= first /\ \A i \in first..x : part[i] = 1 + i - first
  BY DEF Parts, Follows
<1>3. ASSUME b \in Parts(first) PROVE c \in Parts(first)
  <2>1. b \in first..b /\ part[b] = 1 + b - first
    <3>1. b >= first /\ \A i \in first..b : part[i] = 1 + i - first
      BY <1>2, <1>3
    <3>2. b \in first..b
      BY <3>1, BankNumbers DEF Banks
    <3> QED
      BY <3>1, <3>2
  <2>2. FirstBank(b) = first
    BY <2>1 DEF FirstBank, Banks, IInv, BankTypes
  <2> QED
    BY <1>1, <1>2, <1>3, <2>2 DEF Banks
<1>4. ASSUME c \in Parts(first) PROVE b \in Parts(first)
  <2>1. part[c] = 1 + c - first /\ c >= first
    <3>1. c >= first /\ \A i \in first..c : part[i] = 1 + i - first
      BY <1>1, <1>2, <1>4
    <3>2. c \in first..c
      BY <1>1, <3>1, BankNumbers DEF Banks
    <3> QED
      BY <3>1, <3>2
  <2>2. FirstBank(b) = first
    BY <1>1, <2>1 DEF FirstBank, Banks, IInv, BankTypes
  <2>3. part[b] = 1 + b - first
    <3>1. part[b] \in Nat /\ b \in Int /\ c \in Int /\ first \in Int
      BY <1>1, BankNumbers DEF Banks, IInv, BankTypes
    <3> QED
      BY <1>1, <2>1, <3>1
  <2>4. \A i \in first..b : part[i] = 1 + i - first
    BY <1>1, <2>2, <2>3 DEF Banks
  <2> QED
    BY <1>1, <1>2, <2>1, <2>4 DEF Banks
<1> QED
  BY <1>1, <1>3, <1>4

-----------------------------------------------------------------------------
(* Steps that leave parts and names alone                                  *)

LEMMA KeepsParts ==
  ASSUME IInv, UNCHANGED <<name, part>>, cur' \in Banks
  PROVE  IInv'
  BY DEF IInv, BankTypes, PartsInOrder, FirstBank, Banks

LEMMA OpenStep ==
  ASSUME IInv, NEW f \in Files, Open(f), "fresh" \in Habits
  PROVE  IInv'
<1>1. PICK last \in cur..NBanks :
        /\ \A b \in cur..last : part[b] = 0
        /\ name' = [b \in Banks |-> IF b \in cur..last THEN f ELSE name[b]]
        /\ part' = [b \in Banks |->
             IF b \notin cur..last \/ ~FillsPart(f, 1) THEN part[b]
             ELSE IF last = cur THEN 0 ELSE b + 1 - cur]
        /\ cur' = last
  BY DEF Open
<1>2. last \in Nat /\ cur \in Nat /\ 1 <= cur /\ cur <= last /\ last <= NBanks
  BY <1>1, BankNumbers DEF IInv, BankTypes, Banks
<1>3. BankTypes'
  BY <1>1, <1>2, BankNumbers DEF IInv, BankTypes, Banks
<1>4. ASSUME NEW b \in Banks, part'[b] # 0
      PROVE  /\ b >= part'[b]
             /\ \A c \in (b - part'[b] + 1)..b :
                  part'[c] = part'[b] - (b - c) /\ name'[c] = name'[b]
  <2>1. CASE b \in cur..last
    <3>0. FillsPart(f, 1) /\ last # cur
      BY <1>1, <1>4, <2>1
    <3>1. part'[b] = b + 1 - cur
      BY <1>1, <2>1, <3>0
    <3>2. \A c \in cur..b : c \in Banks /\ part'[c] = c + 1 - cur /\ name'[c] = f /\ name'[b] = f
      <4>1. \A c \in cur..b : c \in Banks /\ c \in cur..last
        BY <1>2, <2>1, BankNumbers DEF Banks
      <4> QED
        BY <1>1, <2>1, <3>0, <4>1
    <3> QED
      BY <3>1, <3>2, <1>2, <2>1 DEF Banks
  <2>2. CASE b \notin cur..last
    <3>1. part'[b] = part[b] /\ name'[b] = name[b]
      BY <1>1, <2>2
    <3>2. /\ b >= part[b]
          /\ \A c \in (b - part[b] + 1)..b :
               c \in Banks /\ part[c] = part[b] - (b - c) /\ name[c] = name[b] /\ part[c] # 0
      BY <1>4, <3>1, BankNumbers DEF IInv, BankTypes, PartsInOrder, FirstBank, Banks
    <3>3. \A c \in (b - part[b] + 1)..b : c \notin cur..last
      BY <1>1, <3>2
    <3> QED
      BY <1>1, <3>1, <3>2, <3>3
  <2> QED
    BY <2>1, <2>2
<1> QED
  BY <1>3, <1>4 DEF IInv, PartsInOrder, FirstBank

LEMMA OpenMissingStep ==
  ASSUME IInv, NEW f \in Files, OpenMissing(f), "fresh" \in Habits
  PROVE  IInv'
<1>1. part[cur] = 0 /\ part' = part /\ cur' = cur /\ name' = [name EXCEPT ![cur] = None]
  BY DEF OpenMissing
<1>2. BankTypes'
  BY <1>1 DEF IInv, BankTypes
<1>3. \A b \in Banks : part[b] # 0 =>
        \A c \in FirstBank(b)..b : c \in Banks /\ part[c] # 0 /\ b # cur /\ c # cur
  BY <1>1, BankNumbers DEF IInv, BankTypes, PartsInOrder, FirstBank, Banks
<1> QED
  BY <1>1, <1>2, <1>3 DEF IInv, BankTypes, PartsInOrder, FirstBank

LEMMA NameFileStep ==
  ASSUME IInv, NEW f \in Files, NameFile(f)
  PROVE  IInv'
<1> DEFINE first == FirstBank(cur)
<1>1. first \in Banks /\ cur \in Banks /\ part' = part /\ cur' \in Banks
  BY DEF NameFile, IInv, BankTypes
<1>2. CASE part[first] = 0
  <2>1. part[cur] = 0 /\ first = cur
    BY <1>1, <1>2, FirstIsPartOne DEF FirstBank
  <2>2. name' = [name EXCEPT ![cur] = f]
    BY <1>2, <2>1 DEF NameFile
  <2>3. BankTypes'
    BY <1>1, <2>2 DEF IInv, BankTypes
  <2>4. \A b \in Banks : part[b] # 0 =>
          \A c \in FirstBank(b)..b : c \in Banks /\ part[c] # 0 /\ b # cur /\ c # cur
    BY <2>1, BankNumbers DEF IInv, BankTypes, PartsInOrder, FirstBank, Banks
  <2> QED
    BY <1>1, <2>2, <2>3, <2>4 DEF IInv, BankTypes, PartsInOrder, FirstBank
<1>3. CASE part[first] # 0
  <2>1. part[first] = 1
    BY <1>1, <1>3, FirstIsPartOne DEF FirstBank
  <2>2. name' = [b \in Banks |-> IF b \in Parts(first) THEN f ELSE name[b]]
    BY <1>3, <2>1 DEF NameFile
  <2>3. BankTypes'
    BY <1>1, <2>2 DEF IInv, BankTypes
  <2>4. \A b \in Banks : part[b] # 0 => \A c \in FirstBank(b)..b : name'[c] = name'[b]
    <3> SUFFICES ASSUME NEW b \in Banks, part[b] # 0, NEW c \in FirstBank(b)..b
                 PROVE  name'[c] = name'[b]
      OBVIOUS
    <3>1. c \in Banks /\ (b \in Parts(first) <=> c \in Parts(first))
      BY <1>1, <2>1, WalkTakesWholeFiles
    <3>2. name[c] = name[b]
      BY DEF IInv, PartsInOrder
    <3> QED
      BY <2>2, <3>1, <3>2
  <2> QED
    BY <1>1, <2>3, <2>4 DEF IInv, PartsInOrder, FirstBank
<1> QED
  BY <1>2, <1>3

LEMMA ExtendStep ==
  ASSUME IInv, Extend, "fresh" \in Habits
  PROVE  IInv'
<1> DEFINE i == IF part[cur] = 0 THEN 1 ELSE part[cur]
           free == FreeBank(cur + 1)
<1>1. /\ name' = [b \in Banks |-> IF free /\ b = cur + 1 THEN name[cur] ELSE name[b]]
      /\ part' = [b \in Banks |-> IF b = cur THEN i ELSE IF free /\ b = cur + 1 THEN i + 1 ELSE part[b]]
      /\ cur' = IF free THEN cur + 1 ELSE cur
      /\ free => cur + 1 \in Banks /\ part[cur + 1] \in {0, i + 1}
  BY DEF Extend, FreeBank
<1>2. cur \in Banks /\ i \in Nat /\ i # 0
  BY DEF IInv, BankTypes
<1>3. BankTypes'
  BY <1>1, <1>2 DEF IInv, BankTypes
<1>4. /\ cur >= i
      /\ \A c \in (cur - i + 1)..cur :
           c \in Banks /\ part'[c] = i - (cur - c) /\ name'[c] = name[cur]
  <2>1. CASE part[cur] = 0
    BY <1>1, <1>2, <2>1, BankNumbers DEF Banks
  <2>2. CASE part[cur] # 0
    <3>1. /\ cur >= i
          /\ \A c \in (cur - i + 1)..cur :
               c \in Banks /\ part[c] = i - (cur - c) /\ name[c] = name[cur]
      BY <1>2, <2>2, BankNumbers DEF IInv, BankTypes, PartsInOrder, FirstBank, Banks
    <3> QED
      BY <1>1, <1>2, <2>2, <3>1 DEF Banks
  <2> QED
    BY <2>1, <2>2
<1>5. ASSUME NEW b \in Banks, part'[b] # 0
      PROVE  /\ b >= part'[b]
             /\ \A c \in (b - part'[b] + 1)..b :
                  part'[c] = part'[b] - (b - c) /\ name'[c] = name'[b]
  <2>1. CASE b = cur
    BY <1>1, <1>2, <1>4, <2>1 DEF Banks
  <2>2. CASE free /\ b = cur + 1
    <3>1. part'[b] = i + 1 /\ name'[b] = name[cur] /\ cur \in Int
      BY <1>1, <1>2, <2>2, BankNumbers DEF Banks
    <3>2. \A c \in (b - part'[b] + 1)..b : c = b \/ c \in (cur - i + 1)..cur
      BY <1>2, <2>2, <3>1
    <3> QED
      BY <1>2, <1>4, <2>2, <3>1, <3>2
  <2>3. CASE b # cur /\ ~(free /\ b = cur + 1)
    <3>1. part'[b] = part[b] /\ name'[b] = name[b]
      BY <1>1, <2>3
    <3>2. /\ b >= part[b]
          /\ \A c \in (b - part[b] + 1)..b :
               c \in Banks /\ part[c] = part[b] - (b - c) /\ name[c] = name[b] /\ part[c] # 0
      BY <1>5, <3>1, BankNumbers DEF IInv, BankTypes, PartsInOrder, FirstBank, Banks
    <3>3. cur \in (b - part[b] + 1)..b => part'[cur] = part[cur] /\ name'[cur] = name[cur]
      BY <1>1, <1>2, <3>2 DEF Banks
    <3>4. free /\ cur + 1 \in (b - part[b] + 1)..b =>
            part'[cur + 1] = part[cur + 1] /\ name'[cur + 1] = name[cur + 1]
      <4> SUFFICES ASSUME free, cur + 1 \in (b - part[b] + 1)..b
                   PROVE  part'[cur + 1] = part[cur + 1] /\ name'[cur + 1] = name[cur + 1]
        OBVIOUS
      <4>1. part[cur + 1] = i + 1 /\ name[cur + 1] = name[b] /\ part[cur + 1] = part[b] - (b - (cur + 1))
        BY <1>1, <3>2
      <4>2. cur \in (b - part[b] + 1)..b
        BY <1>2, <4>1 DEF Banks, IInv, BankTypes
      <4>3. name[cur] = name[b]
        BY <3>2, <4>2
      <4> QED
        BY <1>1, <1>2, <4>1, <4>3 DEF Banks
    <3> QED
      BY <1>1, <3>1, <3>2, <3>3, <3>4
  <2> QED
    BY <2>1, <2>2, <2>3
<1> QED
  BY <1>3, <1>5 DEF IInv, PartsInOrder, FirstBank

\* Truncating clears the buffers that go on with the numbering of this one.
LEMMA ClearedAre ==
  ASSUME IInv, Truncate, "own" \in Habits, part[cur] # 0
  PROVE  \A c \in Banks : c \in Cleared <=>
           c > cur /\ \A j \in (cur + 1)..c : part[j] = part[cur] + j - cur
<1> SUFFICES ASSUME NEW c \in Banks
             PROVE  c \in Cleared <=>
                      c > cur /\ \A j \in (cur + 1)..c : part[j] = part[cur] + j - cur
  OBVIOUS
<1>1. /\ part[cur + 1] = part[cur] + 1 /\ cur < NBanks
      /\ cur \in Nat /\ c \in Nat /\ c <= NBanks /\ part[cur] \in Nat
  BY BankNumbers DEF Truncate, Banks, IInv, BankTypes
<1>2. c \in Cleared <=> c \in (cur + 1)..NBanks /\ Follows(cur + 1, c)
  BY <1>1 DEF Cleared
<1>3. \A j \in (cur + 1)..c : part[cur + 1] + j - (cur + 1) = part[cur] + j - cur
  BY <1>1
<1> QED
  BY <1>1, <1>2, <1>3, BankNumbers DEF Follows

\* Truncating takes a tail of the file: no part behind a cleared buffer stays.
LEMMA TruncateStep ==
  ASSUME IInv, Truncate, "own" \in Habits
  PROVE  IInv'
<1>1. /\ name' = [b \in Banks |-> IF b \in Cleared THEN None ELSE name[b]]
      /\ part' = [b \in Banks |-> IF b \in Cleared \/ (b = cur /\ part[b] = 1) THEN 0 ELSE part[b]]
      /\ cur' = cur /\ cur \in Banks
      /\ part[cur] = 0 \/ (cur < NBanks /\ part[cur + 1] = part[cur] + 1)
  BY DEF Truncate, IInv, BankTypes
<1>2. part[cur] # 0 =>
        \A c \in Banks : c \in Cleared <=>
          c > cur /\ \A j \in (cur + 1)..c : part[j] = part[cur] + j - cur
  BY ClearedAre
<1>3. BankTypes'
  BY <1>1 DEF IInv, BankTypes
<1>4. ASSUME NEW b \in Banks, part'[b] # 0
      PROVE  /\ b >= part'[b]
             /\ \A c \in (b - part'[b] + 1)..b :
                  part'[c] = part'[b] - (b - c) /\ name'[c] = name'[b]
  <2>1. part'[b] = part[b] /\ part[b] # 0 /\ b \notin Cleared /\ ~(b = cur /\ part[b] = 1)
    BY <1>1, <1>4
  <2>2. /\ b >= part[b]
        /\ \A c \in (b - part[b] + 1)..b :
             c \in Banks /\ part[c] = part[b] - (b - c) /\ name[c] = name[b]
    BY <2>1, BankNumbers DEF IInv, BankTypes, PartsInOrder, FirstBank, Banks
  <2>3. \A c \in (b - part[b] + 1)..b : c \notin Cleared
    <3> SUFFICES ASSUME NEW c \in (b - part[b] + 1)..b, c \in Cleared PROVE FALSE
      OBVIOUS
    <3>0. cur \in Int /\ b \in Int /\ c \in Int /\ part[b] \in Nat /\ part[cur] \in Nat
      BY <1>1, BankNumbers DEF Banks, IInv, BankTypes
    <3>1. part[cur] # 0
      BY DEF Cleared
    <3>2. c > cur /\ part[c] = part[cur] + c - cur /\ part[c] = part[b] - (b - c)
      BY <1>1, <1>2, <2>2, <3>1 DEF Banks
    <3>3. cur >= b - part[b] + 1
      BY <1>1, <3>1, <3>2 DEF Banks, IInv, BankTypes
    <3>4. \A j \in (cur + 1)..b : part[j] = part[cur] + j - cur
      BY <2>2, <3>0, <3>2, <3>3
    <3>5. b > cur
      BY <3>0, <3>2
    <3> QED
      BY <1>2, <2>1, <3>1, <3>4, <3>5
  <2>4. ~(cur \in (b - part[b] + 1)..b /\ part[cur] = 1)
    <3> SUFFICES ASSUME cur \in (b - part[b] + 1)..b, part[cur] = 1 PROVE FALSE
      OBVIOUS
    <3>1. b # cur /\ part[cur] = part[b] - (b - cur)
      BY <2>1, <2>2
    <3>2. \A j \in (cur + 1)..b : part[j] = part[cur] + j - cur
      BY <1>1, <2>2, <3>1 DEF Banks, IInv, BankTypes
    <3>3. b > cur
      BY <3>1 DEF Banks
    <3> QED
      BY <1>2, <2>1, <3>2, <3>3
  <2> QED
    BY <1>1, <2>1, <2>2, <2>3, <2>4
<1> QED
  BY <1>3, <1>4 DEF IInv, PartsInOrder, FirstBank
-----------------------------------------------------------------------------
(* Joining the parts                                                       *)

\* Any set of numbers that is not empty has a least one.
LEMMA LeastNumber ==
  ASSUME NEW S \in SUBSET Nat, S # {}
  PROVE  \E m \in S : \A k \in S : m <= k
<1> DEFINE Intervals == {1..n : n \in S}
           Smaller == StrictSubsetOrdering(Nat)
<1>1. IsWellFoundedOn(Smaller, FiniteSubsetsOf(Nat))
  BY FS_StrictSubsetOrderingWellFounded
<1>2. Intervals \subseteq FiniteSubsetsOf(Nat) /\ Intervals # {}
  <2>1. \A n \in S : IsFiniteSet(1..n) /\ 1..n \subseteq Nat
    BY FS_Interval
  <2> QED
    BY <2>1 DEF FiniteSubsetsOf
<1>3. PICK x \in Intervals : \A y \in Intervals : <<y, x>> \notin Smaller
  <2> HIDE DEF Intervals, Smaller
  <2> QED
    BY <1>1, <1>2, WFMin
<1>4. PICK m \in S : x = 1..m
  OBVIOUS
<1>5. ASSUME NEW k \in S, k < m PROVE FALSE
  <2>1. 1..k \subseteq 1..m /\ m \in 1..m /\ m \notin 1..k
    BY <1>5
  <2>2. 1..k \in Intervals /\ 1..m \subseteq Nat /\ 1..k # 1..m
    BY <2>1
  <2>3. <<1..k, x>> \in Smaller
    BY <2>1, <2>2, <1>4 DEF StrictSubsetOrdering
  <2> QED
    BY <2>2, <2>3, <1>3
<1> QED
  BY <1>5

\* What holds before the first buffer and is passed on from each to the next
\* holds behind all of them.
LEMMA Upwards ==
  ASSUME NEW S, 0 \in S, \A b \in Banks : b - 1 \in S => b \in S
  PROVE  \A b \in 0..NBanks : b \in S
<1> DEFINE Missing == {b \in 0..NBanks : b \notin S}
<1> SUFFICES ASSUME Missing # {} PROVE FALSE
  OBVIOUS
<1>1. Missing \in SUBSET Nat
  BY BankNumbers
<1>2. PICK m \in Missing : \A k \in Missing : m <= k
  BY <1>1, LeastNumber
<1>3. m \in Banks /\ m - 1 \in 0..NBanks /\ ~(m <= m - 1)
  BY <1>2, BankNumbers DEF Banks
<1>4. m - 1 \in S
  BY <1>2, <1>3
<1> QED
  BY <1>2, <1>3, <1>4

\* The function Joined computes, up to buffer n, over texts t
IsJoin(j, n, t, s) ==
  j = [b \in 0..n |-> IF b = 0 THEN << >> ELSE IF b \in s THEN j[b - 1] \o t[b] ELSE j[b - 1]]

JoinOf(t, s) == (CHOOSE j : IsJoin(j, NBanks, t, s))[NBanks]

LEMMA JoinExists ==
  ASSUME NEW t, NEW s
  PROVE  \E j : IsJoin(j, NBanks, t, s)
<1> DEFINE S == {n \in 0..NBanks : \E j : IsJoin(j, n, t, s)}
<1>1. 0 \in S
  <2>1. IsJoin([b \in 0..0 |-> << >>], 0, t, s)
    BY DEF IsJoin
  <2> QED
    BY <2>1, BankNumbers
<1>2. ASSUME NEW n \in Banks, n - 1 \in S PROVE n \in S
  <2>1. PICK j : IsJoin(j, n - 1, t, s)
    BY <1>2
  <2> DEFINE g == [b \in 0..n |->
               IF b = n THEN IF n \in s THEN j[n - 1] \o t[n] ELSE j[n - 1] ELSE j[b]]
             step(b) == IF b = 0 THEN << >> ELSE IF b \in s THEN g[b - 1] \o t[b] ELSE g[b - 1]
  <2>2. n \in Nat /\ n # 0 /\ n <= NBanks
    BY BankNumbers DEF Banks
  <2>3. ASSUME NEW b \in 0..n PROVE g[b] = step(b)
    <3>1. CASE b = n
      BY <2>2, <3>1
    <3>2. CASE b # n
      <4>1. b \in 0..(n - 1) /\ (b # 0 => b - 1 \in 0..n /\ b - 1 # n)
        BY <2>2, <3>2
      <4>2. g[b] = j[b] /\ (b # 0 => g[b - 1] = j[b - 1])
        BY <3>2, <4>1
      <4>3. j[b] = IF b = 0 THEN << >> ELSE IF b \in s THEN j[b - 1] \o t[b] ELSE j[b - 1]
        BY <2>1, <4>1 DEF IsJoin
      <4> QED
        BY <4>1, <4>2, <4>3
    <3> QED
      BY <3>1, <3>2
  <2>4. IsJoin(g, n, t, s)
    <3>1. g = [b \in 0..n |-> step(b)]
      <4> HIDE DEF step
      <4> QED
        BY <2>3
    <3> QED
      BY <3>1 DEF IsJoin
  <2> HIDE DEF g
  <2> QED
    BY <2>2, <2>4
<1>3. NBanks \in S
  <2> HIDE DEF S
  <2> QED
    BY <1>1, <1>2, Upwards, BankNumbers
<1> QED
  BY <1>3

\* What the parts are made of
Lines == {Typed} \cup UNION {Range(Contents[f]) : f \in {g \in Files : Contents[g] # None}}

\* j is what JoinOf(t, s) has put together up to each buffer.
Steps(j, t, s) ==
  /\ j \in [0..NBanks -> Seq(Lines)]
  /\ JoinOf(t, s) = j[NBanks]
  /\ j[0] = << >>
  /\ \A b \in Banks : j[b] = IF b \in s THEN j[b - 1] \o t[b] ELSE j[b - 1]

LEMMA JoinSteps ==
  ASSUME NEW t \in [Banks -> Seq(Lines)], NEW s
  PROVE  \E j : Steps(j, t, s)
<1> DEFINE j == CHOOSE j : IsJoin(j, NBanks, t, s)
<1>1. IsJoin(j, NBanks, t, s)
  BY JoinExists
<1>2. JoinOf(t, s) = j[NBanks]
  BY DEF JoinOf
<1> HIDE DEF j
<1>3. j = [b \in 0..NBanks |->
            IF b = 0 THEN << >> ELSE IF b \in s THEN j[b - 1] \o t[b] ELSE j[b - 1]]
  BY <1>1 DEF IsJoin
<1>4. j[0] = << >>
  BY <1>3, BankNumbers
<1>5. ASSUME NEW b \in Banks
      PROVE  j[b] = IF b \in s THEN j[b - 1] \o t[b] ELSE j[b - 1]
  <2>1. b \in 0..NBanks /\ b # 0
    BY BankNumbers DEF Banks
  <2> QED
    BY <1>3, <2>1
<1>6. \A b \in 0..NBanks : j[b] \in Seq(Lines)
  <2> DEFINE S == {b \in 0..NBanks : j[b] \in Seq(Lines)}
  <2>1. 0 \in S
    <3>1. 0 \in 0..NBanks /\ << >> \in Seq(Lines)
      BY BankNumbers
    <3> QED
      BY <1>4, <3>1
  <2>2. ASSUME NEW b \in Banks, b - 1 \in S PROVE b \in S
    <3>1. b \in 0..NBanks /\ t[b] \in Seq(Lines) /\ j[b - 1] \in Seq(Lines)
      BY <2>2, BankNumbers DEF Banks
    <3>2. j[b - 1] \o t[b] \in Seq(Lines)
      BY <3>1
    <3> QED
      BY <1>5, <3>1, <3>2
  <2>3. \A b \in 0..NBanks : b \in S
    <3> HIDE DEF S
    <3> QED
      BY <2>1, <2>2, Upwards
  <2> QED
    BY <2>3
<1>7. j \in [0..NBanks -> Seq(Lines)]
  BY <1>3, <1>6
<1>8. Steps(j, t, s)
  BY <1>2, <1>4, <1>5, <1>7 DEF Steps
<1> QED
  BY <1>8

\* Only the texts in the set count, and of these only those with any lines.
LineTexts(t) == t \in [Banks -> Seq(Lines)]
SameLines(t, s, u, r) ==
  \A b \in Banks : (IF b \in s THEN t[b] ELSE << >>) = (IF b \in r THEN u[b] ELSE << >>)

LEMMA JoinSame ==
  ASSUME NEW t, NEW s, NEW u, NEW r, LineTexts(t), LineTexts(u), SameLines(t, s, u, r)
  PROVE  JoinOf(t, s) = JoinOf(u, r)
<1>a. PICK j : Steps(j, t, s)
  BY JoinSteps DEF LineTexts
<1>1. /\ j \in [0..NBanks -> Seq(Lines)]
      /\ JoinOf(t, s) = j[NBanks]
      /\ j[0] = << >>
      /\ \A b \in Banks : j[b] = IF b \in s THEN j[b - 1] \o t[b] ELSE j[b - 1]
  BY <1>a DEF Steps
<1>b. PICK k : Steps(k, u, r)
  BY JoinSteps DEF LineTexts
<1>2. /\ k \in [0..NBanks -> Seq(Lines)]
      /\ JoinOf(u, r) = k[NBanks]
      /\ k[0] = << >>
      /\ \A b \in Banks : k[b] = IF b \in r THEN k[b - 1] \o u[b] ELSE k[b - 1]
  BY <1>b DEF Steps
<1> DEFINE S == {b \in 0..NBanks : j[b] = k[b]}
<1>3. 0 \in S
  BY <1>1, <1>2, BankNumbers
<1>4. ASSUME NEW b \in Banks, b - 1 \in S PROVE b \in S
  <2>1. b \in 0..NBanks /\ b - 1 \in 0..NBanks /\ j[b - 1] = k[b - 1]
    BY <1>4, BankNumbers DEF Banks
  <2>2. j[b - 1] \o << >> = j[b - 1] /\ k[b - 1] \o << >> = k[b - 1]
    BY <2>1, ConcatEmptySeq
  <2>3. j[b] = j[b - 1] \o (IF b \in s THEN t[b] ELSE << >>)
    BY <1>1, <2>2
  <2>4. k[b] = k[b - 1] \o (IF b \in r THEN u[b] ELSE << >>)
    BY <1>2, <2>2
  <2> QED
    BY <2>1, <2>3, <2>4 DEF SameLines
<1>5. NBanks \in S
  <2> HIDE DEF S
  <2> QED
    BY <1>3, <1>4, Upwards, BankNumbers
<1> QED
  BY <1>1, <1>2, <1>5

\* One text with lines is all there is.
LEMMA JoinOne ==
  ASSUME NEW t \in [Banks -> Seq(Lines)], NEW s, NEW c \in Banks, c \in s,
         \A b \in Banks : b \in s /\ b # c => t[b] = << >>
  PROVE  JoinOf(t, s) = t[c]
<1>a. PICK j : Steps(j, t, s)
  BY JoinSteps
<1>1. /\ j \in [0..NBanks -> Seq(Lines)]
      /\ JoinOf(t, s) = j[NBanks]
      /\ j[0] = << >>
      /\ \A b \in Banks : j[b] = IF b \in s THEN j[b - 1] \o t[b] ELSE j[b - 1]
  BY <1>a DEF Steps
<1> DEFINE S == {b \in 0..NBanks : j[b] = IF b < c THEN << >> ELSE t[c]}
<1>2. 0 \in S
  BY <1>1, BankNumbers DEF Banks
<1>3. ASSUME NEW b \in Banks, b - 1 \in S PROVE b \in S
  <2>1. b \in 0..NBanks /\ b - 1 \in 0..NBanks /\ c \in Nat /\ b \in Nat
    BY BankNumbers DEF Banks
  <2>2. j[b - 1] = IF b - 1 < c THEN << >> ELSE t[c]
    BY <1>3
  <2>3. j[b - 1] \o << >> = j[b - 1] /\ << >> \o t[c] = t[c]
    BY <2>1, ConcatEmptySeq
  <2>4. CASE b = c
    <3>1. j[b] = j[b - 1] \o t[b]
      BY <1>1, <2>4
    <3>2. j[b] = << >> \o t[c]
      BY <2>1, <2>2, <2>4, <3>1
    <3> QED
      BY <2>1, <2>3, <2>4, <3>2
  <2>5. CASE b # c
    <3>1. j[b] = j[b - 1]
      BY <1>1, <2>3, <2>5
    <3>2. b - 1 < c <=> b < c
      BY <2>1, <2>5
    <3> QED
      BY <2>1, <2>2, <3>1, <3>2
  <2> QED
    BY <2>4, <2>5
<1>4. NBanks \in S
  <2> HIDE DEF S
  <2> QED
    BY <1>2, <1>3, Upwards, BankNumbers
<1> QED
  BY <1>1, <1>4, BankNumbers DEF Banks

\* Texts without lines make none, and one with a line makes some.
LEMMA JoinAny ==
  ASSUME NEW t \in [Banks -> Seq(Lines)], NEW s
  PROVE  JoinOf(t, s) # << >> <=> \E b \in Banks : b \in s /\ t[b] # << >>
<1>a. PICK j : Steps(j, t, s)
  BY JoinSteps
<1>1. /\ j \in [0..NBanks -> Seq(Lines)]
      /\ JoinOf(t, s) = j[NBanks]
      /\ j[0] = << >>
      /\ \A b \in Banks : j[b] = IF b \in s THEN j[b - 1] \o t[b] ELSE j[b - 1]
  BY <1>a DEF Steps
<1> DEFINE S == {b \in 0..NBanks :
                   j[b] # << >> <=> \E c \in Banks : c <= b /\ c \in s /\ t[c] # << >>}
<1>2. 0 \in S
  BY <1>1, BankNumbers DEF Banks
<1>3. ASSUME NEW b \in Banks, b - 1 \in S PROVE b \in S
  <2>1. b \in 0..NBanks /\ b - 1 \in 0..NBanks /\ b \in Nat
    BY BankNumbers DEF Banks
  <2>2. j[b - 1] # << >> <=> \E c \in Banks : c <= b - 1 /\ c \in s /\ t[c] # << >>
    BY <1>3
  <2>3. \A c \in Banks : c <= b <=> c <= b - 1 \/ c = b
    BY <2>1, BankNumbers DEF Banks
  <2>4. j[b] # << >> <=> j[b - 1] # << >> \/ (b \in s /\ t[b] # << >>)
    <3>1. CASE b \in s
      <4>1. j[b - 1] \in Seq(Lines) /\ t[b] \in Seq(Lines)
        BY <1>1, <2>1
      <4>2. j[b - 1] \o t[b] \in Seq(Lines) /\ Len(j[b - 1] \o t[b]) = Len(j[b - 1]) + Len(t[b])
        BY <4>1, ConcatProperties
      <4>3. \A q \in Seq(Lines) : q = << >> <=> Len(q) = 0
        BY EmptySeq
      <4>4. Len(j[b - 1]) \in Nat /\ Len(t[b]) \in Nat
        BY <4>1, LenProperties
      <4>5. j[b] = j[b - 1] \o t[b]
        BY <1>1, <3>1
      <4> QED
        BY <3>1, <4>1, <4>2, <4>3, <4>4, <4>5
    <3>2. CASE b \notin s
      BY <1>1, <3>2
    <3> QED
      BY <3>1, <3>2
  <2> QED
    BY <2>1, <2>2, <2>3, <2>4
<1>4. NBanks \in S
  <2> HIDE DEF S
  <2> QED
    BY <1>2, <1>3, Upwards, BankNumbers
<1>5. \A c \in Banks : c <= NBanks
  BY BankNumbers DEF Banks
<1> QED
  BY <1>1, <1>4, <1>5
-----------------------------------------------------------------------------
(* Documents, for any names n, part numbers p and texts t of the buffers   *)

InOrder(p) ==
  \A b \in Banks : p[b] # 0 =>
    b >= p[b] /\ \A c \in (b - p[b] + 1)..b : p[c] = p[b] - (b - c)

HeadOf(p, c) == IF p[c] = 0 THEN c ELSE c - p[c] + 1

PartsOf(p, b) ==
  IF p[b] = 0 THEN {b}
  ELSE {c \in Banks : c >= b /\ \A i \in b..c : p[i] = p[b] + i - b}

DocOf(n, p, t, b) == [at |-> b, name |-> n[b], text |-> JoinOf(t, PartsOf(p, b))]
Shown(p, t, b) == p[b] \in {0, 1} /\ JoinOf(t, PartsOf(p, b)) # << >>
DocsOf(n, p, t) ==
  {d \in {DocOf(n, p, t, b) : b \in {b \in Banks : p[b] \in {0, 1}}} : d.text # << >>}

LEMMA TextsAreDocs == Texts = DocsOf(name, part, text)
  BY DEF Texts, DocsOf, DocOf, Joined, JoinOf, IsJoin, Parts, Follows, PartsOf

LEMMA DocsAre ==
  ASSUME NEW n, NEW p, NEW t, NEW d
  PROVE  d \in DocsOf(n, p, t) <=> \E b \in Banks : Shown(p, t, b) /\ d = DocOf(n, p, t, b)
<1>1. \A b : DocOf(n, p, t, b).text = JoinOf(t, PartsOf(p, b))
  BY DEF DocOf
<1> QED
  BY <1>1 DEF DocsOf, Shown

\* Every buffer belongs to the document its part number leads to.
LEMMA HeadOfIsHead ==
  ASSUME NEW p \in [Banks -> Nat], InOrder(p), NEW c \in Banks
  PROVE  HeadOf(p, c) \in Banks /\ p[HeadOf(p, c)] \in {0, 1}
<1>1. CASE p[c] = 0
  BY <1>1 DEF HeadOf
<1>2. CASE p[c] # 0
  <2>1. c >= p[c] /\ \A i \in (c - p[c] + 1)..c : p[i] = p[c] - (c - i)
    BY <1>2 DEF InOrder
  <2>2. p[c] \in Nat /\ c \in Nat /\ 1 <= c /\ c <= NBanks
    BY BankNumbers DEF Banks
  <2>3. c - p[c] + 1 \in (c - p[c] + 1)..c /\ c - p[c] + 1 \in Banks
    BY <1>2, <2>1, <2>2, BankNumbers DEF Banks
  <2>4. p[c - p[c] + 1] = p[c] - (c - (c - p[c] + 1))
    BY <2>1, <2>3
  <2> QED
    BY <1>2, <2>2, <2>3, <2>4 DEF HeadOf
<1> QED
  BY <1>1, <1>2

LEMMA PartsByHead ==
  ASSUME NEW p \in [Banks -> Nat], InOrder(p), NEW b \in Banks, p[b] \in {0, 1}
  PROVE  PartsOf(p, b) = {c \in Banks : HeadOf(p, c) = b}
<1>1. ASSUME NEW c \in PartsOf(p, b) PROVE c \in Banks /\ HeadOf(p, c) = b
  <2>1. CASE p[b] = 0
    BY <2>1 DEF PartsOf, HeadOf
  <2>2. CASE p[b] = 1
    <3>1. c \in Banks /\ c >= b /\ \A i \in b..c : p[i] = 1 + i - b
      BY <2>2 DEF PartsOf
    <3>2. c \in b..c
      BY <3>1, BankNumbers DEF Banks
    <3>3. p[c] = 1 + c - b
      BY <3>1, <3>2
    <3> QED
      BY <3>1, <3>3, BankNumbers DEF HeadOf, Banks
  <2> QED
    BY <2>1, <2>2
<1>2. ASSUME NEW c \in Banks, HeadOf(p, c) = b PROVE c \in PartsOf(p, b)
  <2>1. CASE p[c] = 0
    BY <1>2, <2>1 DEF HeadOf, PartsOf
  <2>2. CASE p[c] # 0
    <3>1. c - p[c] + 1 = b
      BY <1>2, <2>2 DEF HeadOf
    <3>2. c >= p[c] /\ \A i \in (c - p[c] + 1)..c : p[i] = p[c] - (c - i)
      BY <2>2 DEF InOrder
    <3>3. p[c] \in Nat /\ c \in Nat /\ b \in Nat
      BY BankNumbers DEF Banks
    <3>4. c >= b /\ b \in b..c
      BY <2>2, <3>1, <3>3
    <3>5. p[b] = p[c] - (c - b)
      BY <3>1, <3>2, <3>4
    <3>6. p[b] = 1
      BY <3>1, <3>3, <3>5
    <3>7. \A i \in b..c : p[i] = p[b] + i - b
      BY <3>1, <3>2, <3>3, <3>6
    <3> QED
      BY <3>4, <3>6, <3>7 DEF PartsOf
  <2> QED
    BY <2>1, <2>2
<1>3. PartsOf(p, b) \subseteq Banks
  BY DEF PartsOf
<1> QED
  BY <1>1, <1>2, <1>3

\* Buffers with part numbers p and texts t
Sound(p, t) == p \in [Banks -> Nat] /\ InOrder(p) /\ LineTexts(t)

LEMMA ShownByText ==
  ASSUME NEW p, NEW t, Sound(p, t), NEW b \in Banks
  PROVE  Shown(p, t, b) <=> \E c \in Banks : HeadOf(p, c) = b /\ t[c] # << >>
<1>0. p \in [Banks -> Nat] /\ InOrder(p) /\ t \in [Banks -> Seq(Lines)]
  BY DEF Sound, LineTexts
<1>1. JoinOf(t, PartsOf(p, b)) # << >> <=> \E c \in Banks : c \in PartsOf(p, b) /\ t[c] # << >>
  BY <1>0, JoinAny
<1>2. CASE p[b] \in {0, 1}
  BY <1>0, <1>1, <1>2, PartsByHead DEF Shown
<1>3. CASE p[b] \notin {0, 1}
  BY <1>0, <1>3, HeadOfIsHead DEF Shown
<1> QED
  BY <1>2, <1>3

\* Buffer c is as it was, or has text only for the document that begins at h.
Kept(p, t, q, u, h, c) ==
  \/ HeadOf(q, c) = HeadOf(p, c) /\ u[c] = t[c]
  \/ /\ HeadOf(p, c) = h \/ t[c] = << >>
     /\ HeadOf(q, c) = h \/ u[c] = << >>

Others(p, t, q, u, h) == \A c \in Banks : Kept(p, t, q, u, h, c)

SameDoc(p, t, q, u, b) ==
  /\ Shown(q, u, b) <=> Shown(p, t, b)
  /\ Shown(p, t, b) => JoinOf(u, PartsOf(q, b)) = JoinOf(t, PartsOf(p, b))

LEMMA OthersKept ==
  ASSUME NEW p, NEW t, Sound(p, t), NEW q, NEW u, Sound(q, u),
         NEW h, Others(p, t, q, u, h),
         NEW b \in Banks, b # h
  PROVE  SameDoc(p, t, q, u, b)
<1>1. \A c \in Banks : HeadOf(p, c) = b /\ t[c] # << >> => HeadOf(q, c) = b /\ u[c] = t[c]
  BY DEF Others, Kept
<1>2. \A c \in Banks : HeadOf(q, c) = b /\ u[c] # << >> => HeadOf(p, c) = b /\ u[c] = t[c]
  BY DEF Others, Kept
<1>3. Shown(q, u, b) <=> Shown(p, t, b)
  <2>1. Shown(p, t, b) <=> \E c \in Banks : HeadOf(p, c) = b /\ t[c] # << >>
    BY ShownByText
  <2>2. Shown(q, u, b) <=> \E c \in Banks : HeadOf(q, c) = b /\ u[c] # << >>
    BY ShownByText
  <2> QED
    BY <1>1, <1>2, <2>1, <2>2
<1>4. ASSUME Shown(p, t, b) PROVE JoinOf(u, PartsOf(q, b)) = JoinOf(t, PartsOf(p, b))
  <2>1. p[b] \in {0, 1} /\ q[b] \in {0, 1}
    BY <1>3, <1>4 DEF Shown
  <2>2. PartsOf(p, b) = {c \in Banks : HeadOf(p, c) = b}
    BY <2>1, PartsByHead DEF Sound
  <2>3. PartsOf(q, b) = {c \in Banks : HeadOf(q, c) = b}
    BY <2>1, PartsByHead DEF Sound
  <2>4. SameLines(u, PartsOf(q, b), t, PartsOf(p, b))
    BY <1>1, <1>2, <2>2, <2>3 DEF SameLines
  <2>5. LineTexts(u) /\ LineTexts(t)
    BY DEF Sound
  <2> QED
    BY <2>4, <2>5, JoinSame
<1> QED
  BY <1>3, <1>4 DEF SameDoc

\* A command about the document at h
Edits(n, p, t, m, q, u, h) ==
  /\ Others(p, t, q, u, h)
  /\ \A b \in Banks : b # h /\ Shown(p, t, b) => m[b] = n[b]
  /\ Shown(q, u, h) =>
       IF Shown(p, t, h) THEN Abstract!Changed(DocOf(n, p, t, h), DocOf(m, q, u, h))
       ELSE Abstract!Begun(DocOf(m, q, u, h))

LEMMA EditsOne ==
  ASSUME NEW n, NEW p, NEW t, Sound(p, t), NEW m, NEW q, NEW u, Sound(q, u),
         NEW h \in Banks, Edits(n, p, t, m, q, u, h)
  PROVE  Abstract!Edit(DocsOf(n, p, t), DocsOf(m, q, u))
<1> DEFINE was == DocsOf(n, p, t)
           is == DocsOf(m, q, u)
<1>1. \A d : d \in was <=> \E b \in Banks : Shown(p, t, b) /\ d = DocOf(n, p, t, b)
  BY DocsAre
<1>2. \A d : d \in is <=> \E b \in Banks : Shown(q, u, b) /\ d = DocOf(m, q, u, b)
  BY DocsAre
<1>3. \A b : DocOf(n, p, t, b).at = b /\ DocOf(m, q, u, b).at = b
  BY DEF DocOf
<1>4. \A b \in Banks : b # h =>
        /\ Shown(q, u, b) <=> Shown(p, t, b)
        /\ Shown(p, t, b) => DocOf(m, q, u, b) = DocOf(n, p, t, b)
  <2> SUFFICES ASSUME NEW b \in Banks, b # h
               PROVE  /\ Shown(q, u, b) <=> Shown(p, t, b)
                      /\ Shown(p, t, b) => DocOf(m, q, u, b) = DocOf(n, p, t, b)
    OBVIOUS
  <2>1. Others(p, t, q, u, h)
    BY DEF Edits
  <2>2. SameDoc(p, t, q, u, b)
    BY <2>1, OthersKept
  <2> QED
    BY <2>2 DEF Edits, DocOf, SameDoc
<1> HIDE DEF was, is
<1>5. {x \in was : x.at # h} = {y \in is : y.at # h}
  BY <1>1, <1>2, <1>3, <1>4
<1>6. ASSUME NEW y \in is, y \notin was
      PROVE  IF \E x \in was : x.at = y.at
             THEN \E x \in was : x.at = y.at /\ Abstract!Changed(x, y)
             ELSE Abstract!Begun(y)
  <2>1. y = DocOf(m, q, u, h) /\ Shown(q, u, h)
    BY <1>1, <1>2, <1>4, <1>6
  <2>2. y.at = h
    BY <1>3, <2>1
  <2>3. CASE Shown(p, t, h)
    <3>1. DocOf(n, p, t, h) \in was
      BY <1>1, <2>3
    <3>2. Abstract!Changed(DocOf(n, p, t, h), y)
      BY <2>1, <2>3 DEF Edits
    <3> QED
      BY <1>3, <2>2, <3>1, <3>2
  <2>4. CASE ~Shown(p, t, h)
    <3>1. \A x \in was : x.at # h
      BY <1>1, <1>3, <2>4
    <3>2. Abstract!Begun(y)
      BY <2>1, <2>4 DEF Edits
    <3> QED
      BY <2>2, <3>1, <3>2
  <2> QED
    BY <2>3, <2>4
<1> QED
  BY <1>5, <1>6 DEF Abstract!Edit, was, is
-----------------------------------------------------------------------------
(* Texts and files hold lines, and a text fits into its buffer.            *)

TextTypes ==
  /\ LineTexts(text)
  /\ disk \in [Files -> Seq(Lines) \cup {None}]
  /\ \A b \in Banks : Len(text[b]) <= Capacity

DInv == IInv /\ TextTypes

\* The first k * LoadMax lines of file f, or all of it
Upto(f, k) == IF FillsPart(f, k) THEN k * LoadMax ELSE Len(disk[f])

LEMMA Products ==
  ASSUME NEW k \in Nat
  PROVE  /\ k * LoadMax \in Nat /\ (k + 1) * LoadMax = k * LoadMax + LoadMax
         /\ LoadMax \in Nat /\ 1 <= LoadMax /\ LoadMax <= Capacity /\ Capacity \in Nat
<1>1. LoadMax \in Nat /\ 1 <= LoadMax /\ LoadMax <= Capacity /\ Capacity \in Nat
  BY BuffersAssumption
<1>2. k * LoadMax \in Nat
  BY <1>1
<1>3. (k + 1) * LoadMax = k * LoadMax + LoadMax
  BY <1>1
<1> QED
  BY <1>1, <1>2, <1>3

LEMMA FileType ==
  ASSUME TextTypes, NEW f \in Files, disk[f] # None
  PROVE  /\ disk[f] \in Seq(Lines)
         /\ Len(disk[f]) \in Nat
         /\ DOMAIN disk[f] = 1..Len(disk[f])
<1>1. disk[f] \in Seq(Lines)
  BY DEF TextTypes
<1> QED
  BY <1>1, LenProperties

LEMMA UptoType ==
  ASSUME TextTypes, NEW f \in Files, disk[f] # None, NEW k \in Nat
  PROVE  Upto(f, k) \in 0..Len(disk[f])
<1>1. Len(disk[f]) \in Nat /\ DOMAIN disk[f] = 1..Len(disk[f])
  BY FileType
<1>2. k * LoadMax \in Nat
  BY Products
<1>3. CASE FillsPart(f, k)
  BY <1>1, <1>2, <1>3 DEF Upto, FillsPart
<1>4. CASE ~FillsPart(f, k)
  BY <1>1, <1>4 DEF Upto
<1> QED
  BY <1>3, <1>4

LEMMA PieceType ==
  ASSUME TextTypes, NEW f \in Files, disk[f] # None, NEW k \in Nat
  PROVE  Piece(f, k + 1) \in Seq(Lines) /\ Len(Piece(f, k + 1)) <= Capacity
<1> DEFINE m == k * LoadMax + 1
           n == Upto(f, k + 1)
<1>1. Piece(f, k + 1) = SubSeq(disk[f], m, n)
  <2>1. (k + 1) - 1 = k
    OBVIOUS
  <2>2. Piece(f, k + 1) = SubSeq(disk[f], ((k + 1) - 1) * LoadMax + 1, n)
    BY DEF Piece, Upto
  <2> QED
    BY <2>1, <2>2
<1>2. disk[f] \in Seq(Lines) /\ Len(disk[f]) \in Nat /\ DOMAIN disk[f] = 1..Len(disk[f])
  BY FileType
<1>3. n \in 0..Len(disk[f])
  <2>1. k + 1 \in Nat
    OBVIOUS
  <2> QED
    BY <2>1, UptoType
<1>4. k * LoadMax \in Nat /\ (k + 1) * LoadMax = k * LoadMax + LoadMax
      /\ LoadMax \in Nat /\ 1 <= LoadMax /\ LoadMax <= Capacity /\ Capacity \in Nat
  BY Products
<1>5. n <= k * LoadMax + LoadMax
  <2>1. CASE FillsPart(f, k + 1)
    BY <1>4, <2>1 DEF Upto
  <2>2. CASE ~FillsPart(f, k + 1)
    BY <1>2, <1>4, <2>2 DEF Upto, FillsPart
  <2> QED
    BY <2>1, <2>2
<1>6. m \in Nat /\ 1 <= m /\ n \in Nat /\ n <= Len(disk[f])
  BY <1>2, <1>3, <1>4
<1> HIDE DEF m, n
<1>7. \A i \in m..n : disk[f][i] \in Lines
  <2> SUFFICES ASSUME NEW i \in m..n PROVE disk[f][i] \in Lines
    OBVIOUS
  <2>1. i \in 1..Len(disk[f])
    BY <1>2, <1>6
  <2> QED
    BY <1>2, <2>1, ElementOfSeq
<1>8. /\ SubSeq(disk[f], m, n) \in Seq(Lines)
      /\ Len(SubSeq(disk[f], m, n)) = IF m <= n THEN n - m + 1 ELSE 0
  <2>1. m \in Int /\ n \in Int
    BY <1>6
  <2> QED
    BY <1>7, <2>1, SubSeqProperties
<1>9. m <= n => n - m + 1 <= LoadMax
  BY <1>4, <1>5, <1>6 DEF m
<1>10. Len(SubSeq(disk[f], m, n)) <= Capacity
  <2>1. CASE m <= n
    <3>1. n - m + 1 <= Capacity
      BY <1>4, <1>6, <1>9, <2>1
    <3> QED
      BY <1>8, <2>1, <3>1
  <2>2. CASE ~(m <= n)
    BY <1>4, <1>8, <2>2
  <2> QED
    BY <2>1, <2>2
<1> QED
  BY <1>1, <1>8, <1>10

\* The first m elements of a sequence and those from there up to n
LEMMA CutJoin ==
  ASSUME NEW L, NEW d \in Seq(L), NEW n \in 0..Len(d), NEW m \in 0..n
  PROVE  /\ SubSeq(d, 1, m) \o SubSeq(d, m + 1, n) = SubSeq(d, 1, n)
         /\ SubSeq(d, 1, n) \in Seq(L)
         /\ Len(SubSeq(d, 1, n)) = n
         /\ SubSeq(d, m + 1, n) \in Seq(L)
<1>1. Len(d) \in Nat /\ \A i \in 1..Len(d) : d[i] \in L
  BY LenProperties, ElementOfSeq
<1>2. m \in Int /\ n \in Int /\ m + 1 \in Int /\ 0 <= m /\ m <= n /\ n <= Len(d)
  BY <1>1
<1>3. /\ \A i \in 1..m : d[i] \in L
      /\ \A i \in 1..n : d[i] \in L
      /\ \A i \in (m + 1)..n : d[i] \in L
  BY <1>1, <1>2
<1>4. /\ SubSeq(d, 1, m) \in Seq(L)
      /\ Len(SubSeq(d, 1, m)) = m
      /\ \A i \in 1..m : SubSeq(d, 1, m)[i] = d[i]
  BY <1>2, <1>3, SubSeqProperties
<1>5. /\ SubSeq(d, 1, n) \in Seq(L)
      /\ Len(SubSeq(d, 1, n)) = n
      /\ \A i \in 1..n : SubSeq(d, 1, n)[i] = d[i]
  BY <1>2, <1>3, SubSeqProperties
<1>6. /\ SubSeq(d, m + 1, n) \in Seq(L)
      /\ Len(SubSeq(d, m + 1, n)) = n - m
      /\ \A i \in 1..(n - m) : SubSeq(d, m + 1, n)[i] = d[m + i]
  BY <1>2, <1>3, SubSeqProperties
<1> DEFINE j == SubSeq(d, 1, m) \o SubSeq(d, m + 1, n)
<1>7. /\ j \in Seq(L)
      /\ Len(j) = n
      /\ \A i \in 1..n : j[i] = IF i <= m THEN SubSeq(d, 1, m)[i] ELSE SubSeq(d, m + 1, n)[i - m]
  BY <1>2, <1>4, <1>5, <1>6, ConcatProperties
<1>8. \A i \in 1..n : j[i] = SubSeq(d, 1, n)[i]
  <2> SUFFICES ASSUME NEW i \in 1..n PROVE j[i] = SubSeq(d, 1, n)[i]
    OBVIOUS
  <2>1. CASE i <= m
    BY <1>2, <1>4, <1>5, <1>7, <2>1
  <2>2. CASE ~(i <= m)
    <3>1. i - m \in 1..(n - m) /\ m + (i - m) = i
      BY <1>2, <2>2
    <3>2. SubSeq(d, m + 1, n)[i - m] = d[i]
      BY <1>6, <3>1
    <3> QED
      BY <1>5, <1>7, <2>2, <3>2
  <2> QED
    BY <2>1, <2>2
<1>9. j = SubSeq(d, 1, n)
  <2> HIDE DEF j
  <2> QED
    BY <1>5, <1>7, <1>8, SeqEqual
<1> QED
  BY <1>5, <1>6, <1>9

\* The parts load_file makes of a file, joined, begin as the file does.
LEMMA PiecesJoin ==
  ASSUME TextTypes, NEW f \in Files, disk[f] # None,
         NEW u, LineTexts(u), NEW first \in Banks, NEW last \in first..NBanks,
         \A b \in (first + 1)..last : FillsPart(f, b - first),
         \A b \in first..last : u[b] = Piece(f, b + 1 - first)
  PROVE  IsPrefix(JoinOf(u, first..last), disk[f])
<1> DEFINE d == disk[f]
<1>0. /\ d \in Seq(Lines) /\ Len(d) \in Nat /\ DOMAIN d = 1..Len(d)
      /\ first \in Nat /\ last \in Nat /\ 1 <= first /\ first <= last /\ last <= NBanks
  BY FileType, BankNumbers DEF Banks
<1>a. PICK j : Steps(j, u, first..last)
  BY JoinSteps DEF LineTexts
<1>1. /\ j \in [0..NBanks -> Seq(Lines)]
      /\ JoinOf(u, first..last) = j[NBanks]
      /\ j[0] = << >>
      /\ \A b \in Banks : j[b] = IF b \in first..last THEN j[b - 1] \o u[b] ELSE j[b - 1]
  BY <1>a DEF Steps
<1> DEFINE done(b) == IF b < first THEN 0
                      ELSE IF b <= last THEN Upto(f, b + 1 - first) ELSE Upto(f, last + 1 - first)
           S == {b \in 0..NBanks : j[b] = SubSeq(d, 1, done(b))}
<1>2. 0 \in S
  <2>1. done(0) = 0
    BY <1>0
  <2>2. SubSeq(d, 1, 0) = << >>
    BY SubSeqEmpty
  <2> QED
    BY <1>1, <2>1, <2>2, BankNumbers
<1>3. ASSUME NEW b \in Banks, b - 1 \in S PROVE b \in S
  <2>1. b \in 0..NBanks /\ b - 1 \in 0..NBanks /\ b \in Nat /\ j[b - 1] = SubSeq(d, 1, done(b - 1))
    BY <1>3, BankNumbers DEF Banks
  <2>2. CASE b \in first..last
    <3> DEFINE k == b - first
    <3>1. k \in Nat /\ k + 1 = b + 1 - first /\ k + 1 \in Nat
      BY <1>0, <2>1, <2>2
    <3>2. done(b) = Upto(f, k + 1)
      BY <1>0, <2>1, <2>2, <3>1
    <3>3. done(b - 1) = k * LoadMax /\ k * LoadMax \in 0..Upto(f, k + 1)
      <4>1. k * LoadMax \in Nat /\ (k + 1) * LoadMax = k * LoadMax + LoadMax /\ LoadMax \in Nat
        BY <3>1, Products
      <4>2. CASE b = first
        <5>1. k = 0 /\ done(b - 1) = 0 /\ 0 * LoadMax = 0
          BY <1>0, <2>1, <4>1, <4>2
        <5>2. Upto(f, k + 1) \in 0..Len(d)
          BY <3>1, UptoType
        <5> QED
          BY <1>0, <5>1, <5>2
      <4>3. CASE b # first
        <5>0. b \in (first + 1)..last
          BY <1>0, <2>1, <2>2, <4>3
        <5>1. FillsPart(f, k)
          BY <5>0
        <5>2. done(b - 1) = k * LoadMax
          BY <1>0, <2>1, <5>0, <5>1 DEF Upto
        <5>3. k * LoadMax <= Len(d)
          BY <1>0, <4>1, <5>1 DEF FillsPart
        <5>4. k * LoadMax <= Upto(f, k + 1)
          BY <4>1, <5>3 DEF Upto
        <5>5. Upto(f, k + 1) \in 0..Len(d)
          BY <3>1, UptoType
        <5> QED
          BY <1>0, <4>1, <5>2, <5>4, <5>5
      <4> QED
        BY <4>2, <4>3
    <3>4. u[b] = SubSeq(d, k * LoadMax + 1, Upto(f, k + 1))
      BY <2>2, <3>1 DEF Piece, Upto
    <3>5. Upto(f, k + 1) \in 0..Len(d)
      BY <3>1, UptoType
    <3>6. SubSeq(d, 1, k * LoadMax) \o SubSeq(d, k * LoadMax + 1, Upto(f, k + 1))
          = SubSeq(d, 1, Upto(f, k + 1))
      BY <1>0, <3>3, <3>5, CutJoin
    <3>7. j[b] = j[b - 1] \o u[b]
      BY <1>1, <2>2
    <3> HIDE DEF done, k
    <3> QED
      BY <2>1, <3>2, <3>3, <3>4, <3>6, <3>7
  <2>3. CASE b \notin first..last
    <3>1. done(b) = done(b - 1)
      BY <1>0, <2>1, <2>3
    <3>2. j[b] = j[b - 1]
      BY <1>1, <2>3
    <3> HIDE DEF done
    <3> QED
      BY <2>1, <3>1, <3>2
  <2> QED
    BY <2>2, <2>3
<1>4. NBanks \in S
  <2> HIDE DEF S
  <2> QED
    BY <1>2, <1>3, Upwards, BankNumbers
<1> DEFINE n == Upto(f, last + 1 - first)
<1>5. done(NBanks) = n
  BY <1>0, BankNumbers
<1>6. n \in 0..Len(d)
  <2>1. last + 1 - first \in Nat
    BY <1>0
  <2> QED
    BY <2>1, UptoType
<1>7. JoinOf(u, first..last) = SubSeq(d, 1, n)
  BY <1>1, <1>4, <1>5
<1> HIDE DEF n, S
<1>8. Len(SubSeq(d, 1, n)) = n
  <2>1. 0 \in 0..n
    BY <1>6
  <2> QED
    BY <1>0, <1>6, <2>1, CutJoin
<1> QED
  BY <1>0, <1>6, <1>7, <1>8 DEF IsPrefix
LEMMA JoinType ==
  ASSUME NEW t, LineTexts(t), NEW s
  PROVE  JoinOf(t, s) \in Seq(Lines)
<1>1. PICK j : Steps(j, t, s)
  BY JoinSteps DEF LineTexts
<1>2. j \in [0..NBanks -> Seq(Lines)] /\ JoinOf(t, s) = j[NBanks]
  BY <1>1 DEF Steps
<1>3. NBanks \in 0..NBanks
  BY BankNumbers
<1> QED
  BY <1>2, <1>3

LEMMA JoinedIs ==
  ASSUME NEW s
  PROVE  Joined(s) = JoinOf(text, s)
  BY DEF Joined, JoinOf, IsJoin

LEMMA FirstTypes == Init => TextTypes
<1> SUFFICES ASSUME Init PROVE TextTypes
  OBVIOUS
<1>1. LineTexts(text) /\ \A b \in Banks : Len(text[b]) <= Capacity
  <2>1. << >> \in Seq(Lines) /\ Len(<< >>) = 0 /\ Capacity \in Nat
    BY EmptySeq, BuffersAssumption
  <2> QED
    BY <2>1 DEF Init, LineTexts
<1>2. ASSUME NEW f \in Files PROVE Contents[f] \in Seq(Lines) \cup {None}
  <2>1. CASE Contents[f] # None
    <3>1. Contents[f] \in Seq(Range(Contents[f]))
      BY <2>1, BuffersAssumption
    <3>2. Range(Contents[f]) \subseteq Lines
      BY <2>1 DEF Lines
    <3> QED
      BY <3>1, <3>2, SeqMonotonic
  <2> QED
    BY <2>1
<1>3. Contents \in [Files -> Seq(Lines) \cup {None}]
  <2>1. Contents = [f \in Files |-> Contents[f]]
    BY BuffersAssumption
  <2> QED
    BY <1>2, <2>1
<1> QED
  BY <1>1, <1>3 DEF Init, TextTypes

LEMMA TextType ==
  ASSUME DInv, NEW b \in Banks
  PROVE  text[b] \in Seq(Lines) /\ Len(text[b]) \in Nat /\ Len(text[b]) <= Capacity
<1>1. text[b] \in Seq(Lines) /\ Len(text[b]) <= Capacity
  BY DEF DInv, TextTypes, LineTexts
<1> QED
  BY <1>1, LenProperties

\* The beginning of a text is a text that fits.
LEMMA CutType ==
  ASSUME DInv, NEW b \in Banks, NEW k \in 0..Len(text[b])
  PROVE  /\ SubSeq(text[b], 1, k) \in Seq(Lines)
         /\ Len(SubSeq(text[b], 1, k)) <= Capacity
         /\ text[b] = << >> => SubSeq(text[b], 1, k) = << >>
<1>1. text[b] \in Seq(Lines) /\ Len(text[b]) \in Nat /\ Len(text[b]) <= Capacity /\ Capacity \in Nat
  BY TextType, BuffersAssumption
<1>2. 0 \in 0..k /\ k \in Nat /\ k <= Len(text[b])
  BY <1>1
<1>3. SubSeq(text[b], 1, k) \in Seq(Lines) /\ Len(SubSeq(text[b], 1, k)) = k
  BY <1>1, <1>2, CutJoin
<1>4. text[b] = << >> => SubSeq(text[b], 1, k) = << >>
  <2> SUFFICES ASSUME text[b] = << >> PROVE SubSeq(text[b], 1, k) = << >>
    OBVIOUS
  <2>1. Len(text[b]) = 0
    BY EmptySeq
  <2>2. k < 1
    BY <1>2, <2>1
  <2> QED
    BY <1>2, <2>2, SubSeqEmpty
<1> QED
  BY <1>1, <1>2, <1>3, <1>4

LEMMA TypeTypes ==
  ASSUME DInv, Type
  PROVE  TextTypes'
<1>1. /\ text' = [text EXCEPT ![cur] = Append(@, Typed)] /\ disk' = disk
      /\ Len(text[cur]) < Capacity /\ cur \in Banks
  BY DEF Type, DInv, IInv, BankTypes
<1>2. text[cur] \in Seq(Lines) /\ Len(text[cur]) \in Nat /\ Typed \in Lines /\ Capacity \in Nat
  BY <1>1, TextType, BuffersAssumption DEF Lines
<1>3. Append(text[cur], Typed) \in Seq(Lines) /\ Len(Append(text[cur], Typed)) = Len(text[cur]) + 1
  BY <1>2, AppendProperties
<1>4. Len(Append(text[cur], Typed)) <= Capacity
  BY <1>1, <1>2, <1>3
<1> QED
  BY <1>1, <1>3, <1>4 DEF DInv, TextTypes, LineTexts

LEMMA EraseTypes ==
  ASSUME DInv, Erase
  PROVE  TextTypes'
<1>1. /\ text' = [text EXCEPT ![cur] = Front(@)] /\ disk' = disk
      /\ text[cur] # << >> /\ cur \in Banks
  BY DEF Erase, DInv, IInv, BankTypes
<1>2. Len(text[cur]) - 1 \in 0..Len(text[cur])
  <2>1. text[cur] \in Seq(Lines)
    BY <1>1, TextType
  <2>2. Len(text[cur]) \in Nat \ {0}
    BY <1>1, <2>1, EmptySeq
  <2> QED
    BY <2>2
<1>3. Front(text[cur]) \in Seq(Lines) /\ Len(Front(text[cur])) <= Capacity
  BY <1>1, <1>2, CutType DEF Front
<1> QED
  BY <1>1, <1>3 DEF DInv, TextTypes, LineTexts

LEMMA OpenTypes ==
  ASSUME DInv, NEW f \in Files, Open(f)
  PROVE  TextTypes'
<1>1. PICK last \in cur..NBanks :
        text' = [b \in Banks |-> IF b \in cur..last THEN Piece(f, b + 1 - cur) ELSE text[b]]
  BY DEF Open
<1>2. disk' = disk /\ disk[f] # None /\ cur \in Banks /\ TextTypes
  BY DEF Open, DInv, IInv, BankTypes
<1>3. ASSUME NEW b \in Banks, b \in cur..last
      PROVE  Piece(f, b + 1 - cur) \in Seq(Lines) /\ Len(Piece(f, b + 1 - cur)) <= Capacity
  <2>1. b - cur \in Nat /\ (b - cur) + 1 = b + 1 - cur
    BY <1>2, <1>3, BankNumbers DEF Banks
  <2>2. Piece(f, (b - cur) + 1) \in Seq(Lines) /\ Len(Piece(f, (b - cur) + 1)) <= Capacity
    BY <1>2, <2>1, PieceType
  <2> QED
    BY <2>1, <2>2
<1>4. \A b \in Banks : text[b] \in Seq(Lines) /\ Len(text[b]) <= Capacity
  BY TextType
<1> QED
  BY <1>1, <1>2, <1>3, <1>4 DEF TextTypes, LineTexts

LEMMA SaveTypes ==
  ASSUME DInv, Save
  PROVE  TextTypes'
<1>1. text' = text
  BY DEF Save
<1>2. ASSUME NEW f \in Files, NEW parts
      PROVE  Written(f, parts) \in Seq(Lines) \cup {None}
  <2> DEFINE own == {b \in parts : name[b] = f}
             old == IF name[FirstBank(cur)] = f \/ disk[f] = None THEN << >> ELSE disk[f]
  <2>1. disk[f] \in Seq(Lines) \cup {None}
    BY DEF DInv, TextTypes
  <2>2. old \in Seq(Lines)
    BY <2>1, EmptySeq
  <2>3. Joined(own) \in Seq(Lines)
    <3>1. LineTexts(text)
      BY DEF DInv, TextTypes
    <3>2. JoinOf(text, own) \in Seq(Lines)
      BY <3>1, JoinType
    <3> QED
      BY <3>2, JoinedIs
  <2>4. Written(f, parts) = IF own = {} THEN disk[f] ELSE old \o Joined(own)
    BY DEF Written
  <2> HIDE DEF own, old
  <2>5. old \o Joined(own) \in Seq(Lines)
    BY <2>2, <2>3, ConcatProperties
  <2> QED
    BY <2>1, <2>4, <2>5
<1>3. disk' \in [Files -> Seq(Lines) \cup {None}]
  <2>1. disk \in [Files -> Seq(Lines) \cup {None}]
    BY DEF DInv, TextTypes
  <2>2. PICK parts : disk' = disk \/ disk' = [f \in Files |-> Written(f, parts)]
    BY DEF Save
  <2> QED
    BY <1>2, <2>1, <2>2
<1> QED
  BY <1>1, <1>3 DEF DInv, TextTypes, LineTexts

LEMMA TruncateTypes ==
  ASSUME DInv, Truncate
  PROVE  TextTypes'
<1>1. PICK k \in 0..Len(text[cur]) :
        text' = [b \in Banks |-> IF b \in Cleared THEN << >>
                                 ELSE IF b = cur THEN SubSeq(text[b], 1, k) ELSE text[b]]
  BY DEF Truncate
<1>2. disk' = disk /\ cur \in Banks /\ Capacity \in Nat
  BY BuffersAssumption DEF Truncate, DInv, IInv, BankTypes
<1>3. SubSeq(text[cur], 1, k) \in Seq(Lines) /\ Len(SubSeq(text[cur], 1, k)) <= Capacity
  BY <1>2, CutType
<1>4. \A b \in Banks : text[b] \in Seq(Lines) /\ Len(text[b]) <= Capacity
  BY TextType
<1>5. << >> \in Seq(Lines) /\ Len(<< >>) = 0
  BY EmptySeq
<1> QED
  BY <1>1, <1>2, <1>3, <1>4, <1>5 DEF DInv, TextTypes, LineTexts

LEMMA SameTypes ==
  ASSUME DInv, UNCHANGED <<text, disk>>
  PROVE  TextTypes'
  BY DEF DInv, TextTypes, LineTexts

LEMMA TypesStep ==
  ASSUME DInv, [Next]_vars
  PROVE  TextTypes'
<1>1. ASSUME NEW b \in Banks, Jump(b) PROVE TextTypes'
  BY <1>1, SameTypes DEF Jump
<1>2. CASE Type
  BY <1>2, TypeTypes
<1>3. CASE Erase
  BY <1>3, EraseTypes
<1>4. ASSUME NEW f \in Files, Open(f) PROVE TextTypes'
  BY <1>4, OpenTypes
<1>5. ASSUME NEW f \in Files, OpenMissing(f) PROVE TextTypes'
  BY <1>5, SameTypes DEF OpenMissing
<1>6. ASSUME NEW f \in Files, NameFile(f) PROVE TextTypes'
  BY <1>6, SameTypes DEF NameFile
<1>7. CASE Save
  BY <1>7, SaveTypes
<1>8. CASE Extend
  BY <1>8, SameTypes DEF Extend
<1>9. CASE Truncate
  BY <1>9, TruncateTypes
<1>10. CASE UNCHANGED vars
  BY <1>10, SameTypes DEF vars
<1> QED
  BY <1>1, <1>2, <1>3, <1>4, <1>5, <1>6, <1>7, <1>8, <1>9, <1>10 DEF Next
-----------------------------------------------------------------------------
(* Every command is a step of Documents or changes nothing there.          *)

LEMMA SoundBuffers == DInv => Sound(part, text)
  BY DEF DInv, IInv, BankTypes, PartsInOrder, FirstBank, TextTypes, Sound, InOrder

LEMMA HeadIsOwn ==
  ASSUME NEW p, NEW b \in Banks, p[b] \in {0, 1}
  PROVE  HeadOf(p, b) = b
  BY BankNumbers DEF HeadOf, Banks

\* A buffer with part number 0 is a document of its own.
LEMMA OwnDocument ==
  ASSUME DInv, NEW b \in Banks, part[b] = 0
  PROVE  /\ \A c \in Banks : HeadOf(part, c) = b <=> c = b
         /\ Shown(part, text, b) => text[b] # << >>
<1>1. Sound(part, text)
  BY SoundBuffers
<1>2. PartsOf(part, b) = {c \in Banks : HeadOf(part, c) = b} /\ PartsOf(part, b) = {b}
  BY <1>1, PartsByHead DEF Sound, PartsOf
<1> QED
  BY <1>1, <1>2, ShownByText

\* The buffer the user is in belongs to a document.
LEMMA HeadOfCurrent ==
  ASSUME DInv
  PROVE  /\ cur \in Banks /\ cur \in Nat /\ HeadOf(part, cur) \in Banks
         /\ HeadOf(part, cur) <= cur
         /\ part[HeadOf(part, cur)] \in {0, 1}
         /\ FirstBank(cur) = HeadOf(part, cur)
<1>1. part \in [Banks -> Nat] /\ InOrder(part)
  BY SoundBuffers DEF Sound
<1>2. cur \in Banks
  BY DEF DInv, IInv, BankTypes
<1> QED
  BY <1>1, <1>2, HeadOfIsHead, BankNumbers DEF HeadOf, FirstBank, Banks

Step(h) == Edits(name, part, text, name', part', text', h)

LEMMA StepEdits ==
  ASSUME DInv, DInv', disk' = disk, NEW h \in Banks, Step(h)
  PROVE  Abstract!Next
<1>1. Sound(part, text)
  BY SoundBuffers
<1>2. Sound(part', text')
  BY DEF DInv, IInv, BankTypes, PartsInOrder, FirstBank, TextTypes, Sound, InOrder, LineTexts
<1>3. Abstract!Edit(DocsOf(name, part, text), DocsOf(name', part', text'))
  BY <1>1, <1>2, EditsOne DEF Step
<1>4. Texts = DocsOf(name, part, text)
  BY TextsAreDocs
<1>5. Texts' = DocsOf(name', part', text')
  BY DEF Texts, DocsOf, DocOf, Joined, JoinOf, IsJoin, Parts, Follows, PartsOf
<1> QED
  BY <1>3, <1>4, <1>5 DEF Abstract!Next

\* The document at h keeps its name and had text before.
LEMMA StepByName ==
  ASSUME NEW h \in Banks,
         Others(part, text, part', text', h),
         \A b \in Banks : b # h /\ Shown(part, text, b) => name'[b] = name[b],
         name'[h] = name[h],
         Shown(part', text', h) => Shown(part, text, h)
  PROVE  Step(h)
<1>1. DocOf(name', part', text', h).name = DocOf(name, part, text, h).name
  BY DEF DocOf
<1>2. Abstract!Changed(DocOf(name, part, text, h), DocOf(name', part', text', h))
  BY <1>1 DEF Abstract!Changed
<1> QED
  BY <1>2 DEF Step, Edits

LEMMA TypeEdits ==
  ASSUME DInv, DInv', Type
  PROVE  Abstract!Next
<1> DEFINE h == HeadOf(part, cur)
           s == PartsOf(part, h)
<1>1. /\ text' = [text EXCEPT ![cur] = Append(@, Typed)]
      /\ part' = part /\ name' = name /\ disk' = disk
  BY DEF Type
<1>2. cur \in Banks /\ h \in Banks /\ part[h] \in {0, 1}
  BY HeadOfCurrent
<1>3. Sound(part, text) /\ part \in [Banks -> Nat] /\ InOrder(part) /\ text \in [Banks -> Seq(Lines)]
  BY SoundBuffers DEF Sound, LineTexts
<1>4. s = {c \in Banks : HeadOf(part, c) = h}
  BY <1>2, <1>3, PartsByHead
<1>5. Others(part, text, part', text', h)
  BY <1>1, <1>3 DEF Others, Kept
<1>6. CASE Shown(part, text, h)
  BY <1>1, <1>2, <1>5, <1>6, StepByName, StepEdits
<1>7. CASE ~Shown(part, text, h)
  <2>1. \A c \in Banks : HeadOf(part, c) = h => text[c] = << >>
    BY <1>2, <1>3, <1>7, ShownByText
  <2>2. text'[cur] = <<Typed>>
    <3>1. text[cur] = << >>
      BY <1>2, <2>1
    <3>2. Append(<< >>, Typed) = <<Typed>>
      OBVIOUS
    <3> QED
      BY <1>1, <1>2, <1>3, <3>1, <3>2
  <2>3. \A c \in Banks : c \in s /\ c # cur => text'[c] = << >>
    BY <1>1, <1>3, <1>4, <2>1
  <2>4. text' \in [Banks -> Seq(Lines)]
    BY DEF DInv, TextTypes, LineTexts
  <2>5. cur \in s
    BY <1>2, <1>4
  <2>6. JoinOf(text', s) = text'[cur]
    <3> HIDE DEF s
    <3> QED
      BY <1>2, <2>3, <2>4, <2>5, JoinOne
  <2>7. Len(DocOf(name', part', text', h).text) = 1
    <3>1. DocOf(name', part', text', h).text = <<Typed>>
      BY <1>1, <2>2, <2>6 DEF DocOf
    <3> QED
      BY <3>1
  <2>8. Abstract!Begun(DocOf(name', part', text', h))
    BY <2>7 DEF Abstract!Begun
  <2>9. Step(h)
    BY <1>1, <1>5, <1>7, <2>8 DEF Step, Edits
  <2> QED
    BY <1>1, <1>2, <2>9, StepEdits
<1> QED
  BY <1>6, <1>7

LEMMA EraseEdits ==
  ASSUME DInv, DInv', Erase
  PROVE  Abstract!Next
<1> DEFINE h == HeadOf(part, cur)
<1>1. /\ text' = [text EXCEPT ![cur] = Front(@)] /\ text[cur] # << >>
      /\ part' = part /\ name' = name /\ disk' = disk
  BY DEF Erase
<1>2. cur \in Banks /\ h \in Banks
  BY HeadOfCurrent
<1>3. Sound(part, text) /\ text \in [Banks -> Seq(Lines)]
  BY SoundBuffers DEF Sound, LineTexts
<1>4. Others(part, text, part', text', h)
  BY <1>1, <1>3 DEF Others, Kept
<1>5. Shown(part, text, h)
  BY <1>1, <1>2, <1>3, ShownByText
<1> QED
  BY <1>1, <1>2, <1>4, <1>5, StepByName, StepEdits

LEMMA OpenMissingEdits ==
  ASSUME DInv, DInv', NEW f \in Files, OpenMissing(f), "fresh" \in Habits
  PROVE  Abstract!Next
<1>1. /\ part[cur] = 0 /\ name' = [name EXCEPT ![cur] = None]
      /\ part' = part /\ text' = text /\ disk' = disk
  BY DEF OpenMissing
<1>2. cur \in Banks /\ name \in [Banks -> Files \cup {None}]
  BY DEF DInv, IInv, BankTypes
<1>3. Others(part, text, part', text', cur)
  BY <1>1 DEF Others, Kept
<1>4. DocOf(name', part', text', cur).text = DocOf(name, part, text, cur).text
  BY <1>1 DEF DocOf
<1>5. Abstract!Changed(DocOf(name, part, text, cur), DocOf(name', part', text', cur))
  BY <1>4 DEF Abstract!Changed
<1>6. Step(cur)
  BY <1>1, <1>2, <1>3, <1>5 DEF Step, Edits
<1> QED
  BY <1>1, <1>2, <1>6, StepEdits

LEMMA NameFileEdits ==
  ASSUME DInv, DInv', NEW f \in Files, NameFile(f)
  PROVE  Abstract!Next
<1> DEFINE h == HeadOf(part, cur)
<1>1. part' = part /\ text' = text /\ disk' = disk
  BY DEF NameFile
<1>2. h \in Banks /\ part[h] \in {0, 1} /\ FirstBank(cur) = h
  BY HeadOfCurrent
<1>3. \A b \in Banks : b # h /\ Shown(part, text, b) => name'[b] = name[b]
  <2> SUFFICES ASSUME NEW b \in Banks, b # h, Shown(part, text, b)
               PROVE  name'[b] = name[b]
    OBVIOUS
  <2>1. name \in [Banks -> Files \cup {None}]
    BY DEF DInv, IInv, BankTypes
  <2>2. CASE part[h] = 0
    BY <1>2, <2>1, <2>2 DEF NameFile
  <2>3. CASE part[h] = 1
    <3>1. name' = [c \in Banks |-> IF c \in Parts(h) THEN f ELSE name[c]]
      BY <1>2, <2>3 DEF NameFile
    <3>2. b \notin PartsOf(part, h)
      <4>1. part[b] \in {0, 1}
        BY DEF Shown
      <4>2. HeadOf(part, b) = b
        BY <4>1, HeadIsOwn
      <4>3. PartsOf(part, h) = {c \in Banks : HeadOf(part, c) = h}
        BY <1>2, SoundBuffers, PartsByHead DEF Sound
      <4> QED
        BY <4>2, <4>3
    <3>3. b \notin Parts(h)
      BY <3>2 DEF Parts, PartsOf, Follows
    <3> QED
      BY <3>1, <3>3
  <2> QED
    BY <1>2, <2>2, <2>3
<1>4. Others(part, text, part', text', h)
  BY <1>1 DEF Others, Kept
<1>5. DocOf(name', part', text', h).text = DocOf(name, part, text, h).text
  BY <1>1 DEF DocOf
<1>6. Abstract!Changed(DocOf(name, part, text, h), DocOf(name', part', text', h))
  BY <1>5 DEF Abstract!Changed
<1>7. Step(h)
  BY <1>1, <1>3, <1>4, <1>6 DEF Step, Edits
<1> QED
  BY <1>1, <1>2, <1>7, StepEdits
\* Opening loads one document; the buffers it takes were empty.
LEMMA OpenEdits ==
  ASSUME DInv, DInv', NEW f \in Files, Open(f), "fresh" \in Habits
  PROVE  Abstract!Next
<1>1. PICK last \in cur..NBanks :
        /\ \A b \in (cur + 1)..last : FillsPart(f, b - cur) /\ FreeBank(b)
        /\ \A b \in cur..last : part[b] = 0
        /\ name' = [b \in Banks |-> IF b \in cur..last THEN f ELSE name[b]]
        /\ text' = [b \in Banks |-> IF b \in cur..last THEN Piece(f, b + 1 - cur) ELSE text[b]]
        /\ part' = [b \in Banks |->
             IF b \notin cur..last \/ ~FillsPart(f, 1) THEN part[b]
             ELSE IF last = cur THEN 0 ELSE b + 1 - cur]
  BY DEF Open
<1>2. disk[f] # None /\ disk' = disk /\ cur \in Banks
  BY DEF Open, DInv, IInv, BankTypes
<1>3. cur \in Nat /\ last \in Nat /\ cur <= last /\ last <= NBanks /\ 1 <= cur /\ part[cur] = 0
      /\ \A b \in cur..last : b \in Banks /\ b \in Nat
  BY <1>1, <1>2, BankNumbers DEF Banks
<1>4. Sound(part, text)
  BY SoundBuffers
<1>5. \A b \in cur..last : HeadOf(part', b) = cur /\ (b # cur => b \in (cur + 1)..last)
  <2> SUFFICES ASSUME NEW b \in cur..last
               PROVE  HeadOf(part', b) = cur /\ (b # cur => b \in (cur + 1)..last)
    OBVIOUS
  <2>1. b \in Banks /\ b \in Nat /\ (b # cur => b \in (cur + 1)..last)
    BY <1>3
  <2>2. CASE b # cur
    <3>1. b \in (cur + 1)..last /\ last # cur /\ cur + 1 \in (cur + 1)..last /\ (cur + 1) - cur = 1
      BY <1>3, <2>1, <2>2
    <3>2. FillsPart(f, (cur + 1) - cur)
      BY <1>1, <3>1
    <3>3. part'[b] = b + 1 - cur
      BY <1>1, <2>1, <3>1, <3>2
    <3> QED
      BY <1>3, <2>1, <3>1, <3>3 DEF HeadOf
  <2>3. CASE b = cur
    <3>1. part'[cur] \in {0, 1}
      BY <1>1, <1>2, <1>3, <2>3
    <3> QED
      BY <1>2, <2>3, <3>1, HeadIsOwn
  <2> QED
    BY <2>1, <2>2, <2>3
<1>6. \A c \in Banks : HeadOf(part, c) = cur <=> c = cur
  BY <1>2, <1>3, OwnDocument
<1>7. Others(part, text, part', text', cur)
  <2> SUFFICES ASSUME NEW c \in Banks PROVE Kept(part, text, part', text', cur, c)
    BY DEF Others
  <2>1. CASE c \notin cur..last
    <3>1. part'[c] = part[c] /\ text'[c] = text[c]
      BY <1>1, <2>1
    <3> QED
      BY <3>1 DEF Kept, HeadOf
  <2>2. CASE c \in cur..last
    <3>1. HeadOf(part', c) = cur
      BY <1>5, <2>2
    <3>2. HeadOf(part, c) = cur \/ text[c] = << >>
      BY <1>1, <1>5, <1>6, <2>2 DEF FreeBank
    <3> QED
      BY <3>1, <3>2 DEF Kept
  <2> QED
    BY <2>1, <2>2
<1>8. \A b \in Banks : b # cur /\ Shown(part, text, b) => name'[b] = name[b]
  <2> SUFFICES ASSUME NEW b \in Banks, b # cur, Shown(part, text, b), b \in cur..last PROVE FALSE
    BY <1>1
  <2>1. text[b] = << >> /\ part[b] = 0
    BY <1>1, <1>5 DEF FreeBank
  <2> QED
    BY <2>1, OwnDocument
<1>9. Abstract!Loaded(DocOf(name', part', text', cur))
  <2>1. PartsOf(part', cur) = cur..last
    <3>1. part'[cur] \in {0, 1}
      BY <1>1, <1>2, <1>3
    <3>2. part' \in [Banks -> Nat] /\ InOrder(part')
      BY DEF DInv, IInv, BankTypes, PartsInOrder, FirstBank, InOrder
    <3>3. PartsOf(part', cur) = {c \in Banks : HeadOf(part', c) = cur}
      BY <1>2, <3>1, <3>2, PartsByHead
    <3>4. \A c \in Banks : c \notin cur..last => HeadOf(part', c) = HeadOf(part, c)
      BY <1>1 DEF HeadOf
    <3>5. cur \in cur..last
      BY <1>3
    <3> QED
      BY <1>3, <1>5, <1>6, <3>3, <3>4, <3>5
  <2>2. \A b \in (cur + 1)..last : FillsPart(f, b - cur)
    BY <1>1
  <2>3. \A b \in cur..last : text'[b] = Piece(f, b + 1 - cur)
    BY <1>1, <1>3
  <2>4. LineTexts(text') /\ TextTypes
    BY DEF DInv, TextTypes, LineTexts
  <2>5. IsPrefix(JoinOf(text', cur..last), disk[f])
    BY <1>2, <2>2, <2>3, <2>4, PiecesJoin
  <2>6. name'[cur] = f
    BY <1>1, <1>2, <1>3
  <2>7. /\ DocOf(name', part', text', cur).name = f
        /\ DocOf(name', part', text', cur).text = JoinOf(text', cur..last)
    BY <2>1, <2>6 DEF DocOf
  <2>8. Abstract!IsPrefix(JoinOf(text', cur..last), disk[f])
    BY <2>5 DEF IsPrefix, Abstract!IsPrefix
  <2> QED
    BY <1>2, <2>7, <2>8 DEF Abstract!Loaded
<1>10. Step(cur)
  BY <1>7, <1>8, <1>9 DEF Step, Edits, Abstract!Changed, Abstract!Begun
<1> QED
  BY <1>2, <1>10, StepEdits

\* Extending numbers the buffers of a document anew and adds an empty one.
LEMMA ExtendEdits ==
  ASSUME DInv, DInv', Extend, "fresh" \in Habits
  PROVE  Abstract!Next
<1> DEFINE h == HeadOf(part, cur)
           i == IF part[cur] = 0 THEN 1 ELSE part[cur]
           free == FreeBank(cur + 1)
<1>1. /\ name' = [b \in Banks |-> IF free /\ b = cur + 1 THEN name[cur] ELSE name[b]]
      /\ part' = [b \in Banks |-> IF b = cur THEN i ELSE IF free /\ b = cur + 1 THEN i + 1 ELSE part[b]]
      /\ free => cur + 1 \in Banks /\ text[cur + 1] = << >> /\ part[cur + 1] \in {0, i + 1}
      /\ text' = text /\ disk' = disk
  BY DEF Extend, FreeBank
<1>2. cur \in Banks /\ cur \in Nat /\ h \in Banks /\ h <= cur /\ i \in Nat /\ i # 0
  BY HeadOfCurrent DEF DInv, IInv, BankTypes
<1>3. Sound(part, text) /\ Sound(part', text')
  BY SoundBuffers DEF DInv, IInv, BankTypes, PartsInOrder, FirstBank, TextTypes, Sound, InOrder, LineTexts
<1>4. \A c \in Banks : (free => c # cur + 1) => HeadOf(part', c) = HeadOf(part, c)
  <2> SUFFICES ASSUME NEW c \in Banks, free => c # cur + 1
               PROVE  HeadOf(part', c) = HeadOf(part, c)
    OBVIOUS
  <2>1. CASE c = cur
    <3>1. part'[c] = i
      BY <1>1, <2>1
    <3> QED
      BY <1>2, <2>1, <3>1 DEF HeadOf
  <2>2. CASE c # cur
    <3>1. part'[c] = part[c]
      BY <1>1, <2>2
    <3> QED
      BY <3>1 DEF HeadOf
  <2> QED
    BY <2>1, <2>2
<1>5. Others(part, text, part', text', h)
  BY <1>1, <1>4 DEF Others, Kept
<1>6. \A b \in Banks : b # h /\ Shown(part, text, b) => name'[b] = name[b]
  <2> SUFFICES ASSUME free, Shown(part, text, cur + 1) PROVE FALSE
    BY <1>1
  <2>1. part[cur + 1] \in {0, 1} /\ part[cur + 1] \in {0, i + 1}
    BY <1>1 DEF Shown
  <2>2. part[cur + 1] = 0
    BY <1>2, <2>1
  <2> QED
    BY <1>1, <2>2, OwnDocument
<1>7. name'[h] = name[h]
  <2>1. h # cur + 1
    BY <1>2
  <2> QED
    BY <1>1, <1>2, <2>1
<1>8. Shown(part', text', h) => Shown(part, text, h)
  <2>1. Shown(part', text', h) <=> \E c \in Banks : HeadOf(part', c) = h /\ text'[c] # << >>
    BY <1>2, <1>3, ShownByText
  <2>2. Shown(part, text, h) <=> \E c \in Banks : HeadOf(part, c) = h /\ text[c] # << >>
    BY <1>2, <1>3, ShownByText
  <2> QED
    BY <1>1, <1>4, <2>1, <2>2
<1>9. Step(h)
  BY <1>2, <1>5, <1>6, <1>7, <1>8, StepByName
<1> QED
  BY <1>1, <1>2, <1>9, StepEdits
\* Truncating cuts the text of one document and empties its later buffers.
LEMMA TruncateEdits ==
  ASSUME DInv, DInv', Truncate, "own" \in Habits
  PROVE  Abstract!Next
<1> DEFINE h == HeadOf(part, cur)
<1>1. PICK k \in 0..Len(text[cur]) :
        text' = [b \in Banks |-> IF b \in Cleared THEN << >>
                                 ELSE IF b = cur THEN SubSeq(text[b], 1, k) ELSE text[b]]
  BY DEF Truncate
<1>2. /\ name' = [b \in Banks |-> IF b \in Cleared THEN None ELSE name[b]]
      /\ part' = [b \in Banks |-> IF b \in Cleared \/ (b = cur /\ part[b] = 1) THEN 0 ELSE part[b]]
      /\ disk' = disk
  BY DEF Truncate
<1>3. cur \in Banks /\ cur \in Nat /\ h \in Banks /\ h <= cur /\ part[cur] \in Nat
  BY HeadOfCurrent DEF DInv, IInv, BankTypes
<1>4. Sound(part, text) /\ Sound(part', text')
  BY SoundBuffers DEF DInv, IInv, BankTypes, PartsInOrder, FirstBank, TextTypes, Sound, InOrder, LineTexts
<1>5. \A c \in Banks : c \in Cleared => c > cur /\ HeadOf(part, c) = h
  <2> SUFFICES ASSUME NEW c \in Banks, c \in Cleared PROVE c > cur /\ HeadOf(part, c) = h
    OBVIOUS
  <2>1. part[cur] # 0
    BY DEF Cleared
  <2>2. c > cur /\ \A j \in (cur + 1)..c : part[j] = part[cur] + j - cur
    BY <2>1, ClearedAre DEF DInv
  <2>3. c \in Nat /\ c \in (cur + 1)..c
    BY <1>3, <2>2, BankNumbers DEF Banks
  <2>4. part[c] = part[cur] + c - cur
    BY <2>2, <2>3
  <2> QED
    BY <1>3, <2>1, <2>2, <2>3, <2>4 DEF HeadOf
<1>6. cur \notin Cleared /\ h \notin Cleared
  <2>1. ~(cur > cur) /\ h \in Nat
    BY <1>3, BankNumbers DEF Banks
  <2>2. ~(h > cur)
    BY <1>3, <2>1
  <2> QED
    BY <1>3, <1>5, <2>1, <2>2
<1>7. HeadOf(part', cur) = h
  <2>1. part'[cur] = IF part[cur] = 1 THEN 0 ELSE part[cur]
    BY <1>2, <1>3, <1>6
  <2> QED
    BY <1>3, <2>1 DEF HeadOf
<1>8. \A c \in Banks : c \notin Cleared /\ c # cur =>
        HeadOf(part', c) = HeadOf(part, c) /\ text'[c] = text[c]
  <2> SUFFICES ASSUME NEW c \in Banks, c \notin Cleared, c # cur
               PROVE  HeadOf(part', c) = HeadOf(part, c) /\ text'[c] = text[c]
    OBVIOUS
  <2>1. part'[c] = part[c] /\ text'[c] = text[c]
    BY <1>1, <1>2
  <2> QED
    BY <2>1 DEF HeadOf
<1>9. \A c \in Banks : c \in Cleared => text'[c] = << >>
  BY <1>1
<1>10. Others(part, text, part', text', h)
  BY <1>5, <1>7, <1>8, <1>9 DEF Others, Kept
<1>11. \A b \in Banks : b # h /\ Shown(part, text, b) => name'[b] = name[b]
  <2> SUFFICES ASSUME NEW b \in Banks, b # h, Shown(part, text, b), b \in Cleared PROVE FALSE
    BY <1>2
  <2>1. HeadOf(part, b) = b
    BY HeadIsOwn DEF Shown
  <2> QED
    BY <1>5, <2>1
<1>12. name'[h] = name[h]
  BY <1>2, <1>3, <1>6
<1>13. Shown(part', text', h) => Shown(part, text, h)
  <2>1. Shown(part', text', h) <=> \E c \in Banks : HeadOf(part', c) = h /\ text'[c] # << >>
    BY <1>3, <1>4, ShownByText
  <2>2. Shown(part, text, h) <=> \E c \in Banks : HeadOf(part, c) = h /\ text[c] # << >>
    BY <1>3, <1>4, ShownByText
  <2>3. text'[cur] # << >> => text[cur] # << >>
    <3>1. text'[cur] = SubSeq(text[cur], 1, k)
      BY <1>1, <1>3, <1>6
    <3> QED
      BY <1>3, <3>1, CutType
  <2> QED
    BY <1>8, <1>9, <2>1, <2>2, <2>3
<1>14. Step(h)
  BY <1>3, <1>10, <1>11, <1>12, <1>13, StepByName
<1> QED
  BY <1>2, <1>3, <1>14, StepEdits

\* Saving writes one document, all of it, to the file of its name.
LEMMA SaveSaves ==
  ASSUME DInv, Save
  PROVE  Abstract!Next
<1> DEFINE h == HeadOf(part, cur)
           s == PartsOf(part, h)
           d == DocOf(name, part, text, h)
<1>1. h \in Banks /\ part[h] \in {0, 1} /\ FirstBank(cur) = h
  BY HeadOfCurrent
<1>2. s = Parts(h) /\ JoinOf(text, s) = Joined(s)
  BY JoinedIs DEF Parts, PartsOf, Follows
<1>3. s = {c \in Banks : HeadOf(part, c) = h} /\ h \in s
  BY <1>1, SoundBuffers, PartsByHead, HeadIsOwn DEF Sound
<1>4. \A b \in s : name[b] = name[h]
  <2> SUFFICES ASSUME NEW b \in s PROVE name[b] = name[h]
    OBVIOUS
  <2>1. b \in Banks /\ HeadOf(part, b) = h /\ part[b] \in Nat /\ b \in Nat
    BY <1>3, BankNumbers DEF Banks, DInv, IInv, BankTypes
  <2>2. CASE part[b] = 0
    BY <2>1, <2>2 DEF HeadOf
  <2>3. CASE part[b] # 0
    <3>1. FirstBank(b) = h /\ h \in FirstBank(b)..b
      BY <2>1, <2>3 DEF HeadOf, FirstBank
    <3> QED
      BY <2>1, <2>3, <3>1 DEF DInv, IInv, PartsInOrder
  <2> QED
    BY <2>2, <2>3
<1>5. name[h] # None /\ Joined(s) # << >> /\ UNCHANGED <<name, part, text>>
  BY <1>1, <1>2 DEF Save
<1>6. name[h] \in Files
  BY <1>1, <1>5 DEF DInv, IInv, BankTypes
<1>7. disk' = [disk EXCEPT ![name[h]] = Joined(s)]
  <2>1. disk' = [f \in Files |-> Written(f, s)]
    BY <1>1, <1>2 DEF Save
  <2>2. ASSUME NEW f \in Files, f = name[h] PROVE Written(f, s) = Joined(s)
    <3>1. {b \in s : name[b] = f} = s /\ s # {}
      BY <1>3, <1>4, <2>2
    <3>2. Written(f, s) = << >> \o Joined(s)
      BY <1>1, <2>2, <3>1 DEF Written
    <3>3. Joined(s) \in Seq(Lines)
      <4>1. LineTexts(text)
        BY DEF DInv, TextTypes
      <4>2. JoinOf(text, s) \in Seq(Lines)
        BY <4>1, JoinType
      <4> QED
        BY <1>2, <4>2
    <3> QED
      BY <3>2, <3>3, ConcatEmptySeq
  <2>3. ASSUME NEW f \in Files, f # name[h] PROVE Written(f, s) = disk[f]
    <3>1. {b \in s : name[b] = f} = {}
      BY <1>4, <2>3
    <3> QED
      BY <3>1 DEF Written
  <2>4. disk \in [Files -> Seq(Lines) \cup {None}]
    BY DEF DInv, TextTypes
  <2> QED
    BY <1>6, <2>1, <2>2, <2>3, <2>4
<1>8. d \in Texts /\ d.name = name[h] /\ d.text = Joined(s)
  <2>1. Shown(part, text, h)
    BY <1>1, <1>2, <1>5 DEF Shown
  <2>2. d \in DocsOf(name, part, text)
    BY <1>1, <2>1, DocsAre
  <2>3. d.name = name[h] /\ d.text = JoinOf(text, s)
    BY DEF DocOf
  <2> QED
    BY <1>2, <2>2, <2>3, TextsAreDocs
<1>9. Texts' = Texts
  BY <1>5 DEF Texts, Joined, Parts, Follows
<1> HIDE DEF h, s, d
<1>10. Abstract!Save(Texts, Texts')
  <2>1. disk' = [disk EXCEPT ![d.name] = d.text]
    BY <1>7, <1>8
  <2> QED
    BY <1>8, <1>9, <2>1 DEF Abstract!Save
<1>11. disk' = disk => Abstract!Edit(Texts, Texts')
  BY <1>9, BankNumbers DEF Abstract!Edit, Banks
<1> QED
  BY <1>10, <1>11 DEF Abstract!Next

-----------------------------------------------------------------------------
(* The theorems                                                            *)

LEMMA InvInit == Init => DInv
<1>1. Init => IInv
  BY BankNumbers DEF Init, IInv, BankTypes, PartsInOrder, FirstBank, Banks
<1> QED
  BY <1>1, FirstTypes DEF DInv

LEMMA InvStep ==
  ASSUME {"fresh", "own"} \subseteq Habits, IInv, [Next]_vars
  PROVE  IInv'
<1>0. cur \in Banks
  BY DEF IInv, BankTypes
<1>1. ASSUME NEW b \in Banks, Jump(b) PROVE IInv'
  BY <1>1, KeepsParts DEF Jump
<1>2. CASE Type \/ Erase
  BY <1>0, <1>2, KeepsParts DEF Type, Erase
<1>3. ASSUME NEW f \in Files, Open(f) PROVE IInv'
  BY <1>3, OpenStep
<1>4. ASSUME NEW f \in Files, OpenMissing(f) PROVE IInv'
  BY <1>4, OpenMissingStep
<1>5. ASSUME NEW f \in Files, NameFile(f) PROVE IInv'
  BY <1>5, NameFileStep
<1>6. CASE Save
  <2>1. cur' \in Banks
    BY <1>0, <1>6 DEF Save
  <2> QED
    BY <1>6, <2>1, KeepsParts DEF Save
<1>7. CASE Extend
  BY <1>7, ExtendStep
<1>8. CASE Truncate
  BY <1>8, TruncateStep
<1>9. CASE UNCHANGED vars
  BY <1>0, <1>9, KeepsParts DEF vars
<1> QED
  BY <1>1, <1>2, <1>3, <1>4, <1>5, <1>6, <1>7, <1>8, <1>9 DEF Next

\* For every number of buffers and all files: the parts of a file lie in
\* consecutive buffers in order, provided that no file is opened or extended
\* over parts of another and none is truncated in its last part.
THEOREM PartsStayInOrder ==
  ASSUME {"fresh", "own"} \subseteq Habits
  PROVE  Spec => []PartsInOrder
<1>1. Init => IInv
  BY InvInit DEF DInv
<1>2. IInv /\ [Next]_vars => IInv'
  BY InvStep
<1>3. IInv => PartsInOrder
  BY DEF IInv
<1> QED
  BY <1>1, <1>2, <1>3, PTL DEF Spec

\* Under the same habits every variable has its type, the part numbers are
\* those of buffers, and no command leaves a buffer with more than it has
\* room for, however a file is split.
THEOREM TypeCorrect ==
  ASSUME {"fresh", "own"} \subseteq Habits
  PROVE  Spec => []TypeOK
<1>1. DInv /\ [Next]_vars => DInv'
  BY InvStep, TypesStep DEF DInv
<1>2. DInv => TypeOK
  <2> SUFFICES ASSUME DInv PROVE TypeOK
    OBVIOUS
  <2>1. BankTypes /\ PartsInOrder /\ \A b \in Banks : Len(text[b]) <= Capacity
    BY DEF DInv, IInv, TextTypes
  <2>2. ASSUME NEW b \in Banks PROVE part[b] \in 0..NBanks
    BY <2>1, BankNumbers DEF BankTypes, PartsInOrder, Banks
  <2>3. part \in [Banks -> 0..NBanks]
    BY <2>1, <2>2 DEF BankTypes
  <2> QED
    BY <2>1, <2>3 DEF TypeOK, BankTypes
<1> QED
  BY <1>1, <1>2, InvInit, PTL DEF Spec

\* The refinement, for every number of buffers, all files and lines of any
\* length: with these habits every command of EDIT.SYSTEM changes at most the
\* document it is about, and a save writes that document, all its parts in
\* order, to the file of its name and to no other.
THEOREM BuffersAreDocuments ==
  ASSUME {"fresh", "own"} \subseteq Habits
  PROVE  Spec => KeepsDocuments
<1>1. DInv /\ [Next]_vars => DInv'
  BY InvStep, TypesStep DEF DInv
<1>2. DInv /\ DInv' /\ [Next]_vars => [Abstract!Next]_<<Texts, disk>>
  <2> SUFFICES ASSUME DInv, DInv', [Next]_vars
               PROVE  Abstract!Next \/ UNCHANGED <<Texts, disk>>
    OBVIOUS
  <2>1. ASSUME NEW b \in Banks, Jump(b) PROVE UNCHANGED <<Texts, disk>>
    BY <2>1 DEF Jump, Texts, Joined, Parts, Follows
  <2>2. CASE Type
    BY <2>2, TypeEdits
  <2>3. CASE Erase
    BY <2>3, EraseEdits
  <2>4. ASSUME NEW f \in Files, Open(f) PROVE Abstract!Next
    BY <2>4, OpenEdits
  <2>5. ASSUME NEW f \in Files, OpenMissing(f) PROVE Abstract!Next
    BY <2>5, OpenMissingEdits
  <2>6. ASSUME NEW f \in Files, NameFile(f) PROVE Abstract!Next
    BY <2>6, NameFileEdits
  <2>7. CASE Save
    BY <2>7, SaveSaves
  <2>8. CASE Extend
    BY <2>8, ExtendEdits
  <2>9. CASE Truncate
    BY <2>9, TruncateEdits
  <2>10. CASE UNCHANGED vars
    BY <2>10 DEF vars, Texts, Joined, Parts, Follows
  <2> QED
    BY <2>1, <2>2, <2>3, <2>4, <2>5, <2>6, <2>7, <2>8, <2>9, <2>10 DEF Next
<1> QED
  BY <1>1, <1>2, InvInit, PTL DEF Spec, KeepsDocuments

=============================================================================
