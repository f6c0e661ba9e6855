---------------------------- MODULE Pop65Proofs ----------------------------
(***************************************************************************)
(* POP65 for any mailbox: the receive loop reads every reply to its end    *)
(* and no further (WholeReplies), QUIT is sent only when every message     *)
(* that was marked is whole in SPOOL (QuitAfterSpooling), and update_inbox *)
(* finds every spool file it comes to (SpoolFilesThere), whatever the      *)
(* network, the disk and resets do; with a disk that has room and no reset *)
(* a run moves mail as Delivery says (Implementation).                     *)
(*                                                                         *)
(* The proof follows the reply: what is in the spool file and what is      *)
(* still in the stream are together a beginning of it, and the four bytes  *)
(* kept between two passes are the last ones of the file (Follows).  That  *)
(* the end of a message is at its end only (WireAssumption) then makes     *)
(* seeing it the same as having everything (SeesEnd).  The refinement      *)
(* follows a message on from there: a spool file is a copy of its message  *)
(* or of none (BeginningEntry), so what a run brings when it says QUIT is  *)
(* what the server holds (Loot), and update_inbox turns one entry after    *)
(* the other into a record (FetchedStays).                                 *)
(***************************************************************************)
EXTENDS Pop65, FiniteSetTheorems, SequenceTheorems, TLAPS

-----------------------------------------------------------------------------
(* Sequences with some elements left out                                   *)

LEMMA LeastNumber ==
  ASSUME NEW S \in SUBSET Nat, S # {}
  PROVE  \E m \in S : \A k \in S : m <= k
<1> DEFINE U == {1 .. n : n \in S}
           R == StrictSubsetOrdering(Nat)
<1>1. IsWellFoundedOn(R, FiniteSubsetsOf(Nat))
  BY FS_StrictSubsetOrderingWellFounded
<1>2. U \subseteq FiniteSubsetsOf(Nat) /\ U # {}
  <2>1. \A n \in S : IsFiniteSet(1 .. n) /\ 1 .. n \subseteq Nat
    BY FS_Interval
  <2> QED
    BY <2>1 DEF FiniteSubsetsOf
<1>3. PICK x \in U : \A y \in U : <<y, x>> \notin R
  <2> HIDE DEF U, R
  <2> QED
    BY <1>1, <1>2, WFMin
<1>4. PICK m \in S : x = 1 .. m
  OBVIOUS
<1>5. ASSUME NEW k \in S, k < m PROVE FALSE
  <2>1. 1 .. k \subseteq 1 .. m /\ m \in 1 .. m /\ m \notin 1 .. k
    BY <1>5
  <2>2. 1 .. k \in U /\ 1 .. m \subseteq Nat /\ 1 .. k # 1 .. m
    BY <2>1
  <2>3. <<1 .. k, x>> \in R
    BY <2>1, <2>2, <1>4 DEF StrictSubsetOrdering
  <2> QED
    BY <2>2, <2>3, <1>3
<1> QED
  BY <1>5

\* f[i] is the first i elements of s without those that drop names.
Filters(f, s, drop, n) ==
  f = [i \in 0 .. n |-> IF i = 0 THEN << >>
                        ELSE IF drop[i] THEN f[i - 1] ELSE Append(f[i - 1], s[i])]

LEMMA FiltersExists ==
  ASSUME NEW s, NEW drop, NEW n \in Nat
  PROVE  \E f : Filters(f, s, drop, n)
<1> DEFINE S == {k \in Nat : \A f : ~Filters(f, s, drop, k)}
<1> SUFFICES ASSUME S # {} PROVE FALSE
  OBVIOUS
<1>1. PICK m \in S : \A k \in S : m <= k
  <2> HIDE DEF S
  <2>1. S \in SUBSET Nat
    BY DEF S
  <2> QED
    BY <2>1, LeastNumber
<1>2. Filters([i \in {0} |-> << >>], s, drop, 0)
  <2>1. 0 .. 0 = {0}
    OBVIOUS
  <2> QED
    BY <2>1 DEF Filters
<1>3. m - 1 \in Nat /\ m - 1 \notin S /\ m \in Nat
  BY <1>1, <1>2
<1>4. PICK g : Filters(g, s, drop, m - 1)
  BY <1>3
<1> DEFINE f == [i \in 0 .. m |-> IF i < m THEN g[i]
                                  ELSE IF drop[i] THEN g[i - 1] ELSE Append(g[i - 1], s[i])]
<1>5. ASSUME NEW i \in 0 .. m
      PROVE  f[i] = IF i = 0 THEN << >>
                    ELSE IF drop[i] THEN f[i - 1] ELSE Append(f[i - 1], s[i])
  <2>0. i # 0 => f[i - 1] = g[i - 1]
    BY <1>3
  <2>1. CASE i < m
    <3>1. i \in 0 .. m - 1
      BY <1>3, <2>1
    <3>2. g[i] = IF i = 0 THEN << >>
                 ELSE IF drop[i] THEN g[i - 1] ELSE Append(g[i - 1], s[i])
      BY <1>4, <3>1 DEF Filters
    <3>3. f[i] = g[i]
      BY <2>1
    <3> HIDE DEF f
    <3> QED
      BY <2>0, <3>2, <3>3
  <2>2. CASE i = m
    <3>1. i # 0
      BY <1>3, <2>2
    <3>2. f[i] = IF drop[i] THEN g[i - 1] ELSE Append(g[i - 1], s[i])
      BY <1>3, <2>2
    <3> HIDE DEF f
    <3> QED
      BY <2>0, <3>1, <3>2
  <2> QED
    BY <1>3, <2>1, <2>2
<1>6. Filters(f, s, drop, m)
  <2>1. f = [i \in 0 .. m |-> f[i]]
    OBVIOUS
  <2>2. [i \in 0 .. m |-> f[i]] =
          [i \in 0 .. m |-> IF i = 0 THEN << >>
                            ELSE IF drop[i] THEN f[i - 1] ELSE Append(f[i - 1], s[i])]
    <3> HIDE DEF f
    <3> QED
      BY <1>5
  <2> HIDE DEF f
  <2> QED
    BY <2>1, <2>2 DEF Filters
<1> QED
  BY <1>1, <1>6

\* Up to i, t is s without what drop names.
Rest(t, s, drop, i, A) ==
  /\ t \in Seq(A)
  /\ \A k \in 1 .. Len(t) : \E j \in 1 .. i : ~drop[j] /\ t[k] = s[j]
  /\ \A j \in 1 .. i : ~drop[j] => \E k \in 1 .. Len(t) : t[k] = s[j]
  /\ IsInjective(s) => IsInjective(t)

LEMMA FiltersRest ==
  ASSUME NEW A, NEW s \in Seq(A), NEW drop, NEW f, Filters(f, s, drop, Len(s))
  PROVE  Rest(f[Len(s)], s, drop, Len(s), A)
<1> DEFINE n == Len(s)
           S == {i \in 0 .. n : ~Rest(f[i], s, drop, i, A)}
<1>0. n \in Nat /\ \A i \in 1 .. n : s[i] \in A
  BY LenProperties, ElementOfSeq
<1> SUFFICES ASSUME S # {} PROVE FALSE
  BY <1>0
<1>1. PICK m \in S : \A k \in S : m <= k
  <2> HIDE DEF S
  <2>1. S \in SUBSET Nat
    BY <1>0 DEF S
  <2> QED
    BY <2>1, LeastNumber
<1> HIDE DEF n
<1>2. m \in 0 .. n /\ m \in Nat
  BY <1>0, <1>1
<1>3. \A i \in 0 .. n : f[i] = IF i = 0 THEN << >>
                               ELSE IF drop[i] THEN f[i - 1] ELSE Append(f[i - 1], s[i])
  BY DEF Filters, n
<1>4. CASE m = 0
  <2>1. f[m] = << >> /\ Len(<< >>) = 0
    BY <1>2, <1>3, <1>4
  <2>2. << >> \in Seq(A)
    OBVIOUS
  <2>3. IsInjective(<< >>)
    BY DEF IsInjective
  <2>4. Rest(<< >>, s, drop, 0, A)
    BY <2>1, <2>2, <2>3 DEF Rest
  <2> QED
    BY <1>1, <1>4, <2>1, <2>4
<1>5. CASE m # 0
  <2> DEFINE t == f[m - 1]
  <2>1. m - 1 \in 0 .. n /\ m - 1 \in Nat /\ m \in 1 .. n /\ s[m] \in A
    BY <1>0, <1>2, <1>5
  <2>2. Rest(t, s, drop, m - 1, A)
    BY <1>1, <2>1
  <2>3. f[m] = IF drop[m] THEN t ELSE Append(t, s[m])
    BY <1>2, <1>3, <1>5
  <2> HIDE DEF t
  <2>4. /\ t \in Seq(A) /\ Len(t) \in Nat
        /\ \A k \in 1 .. Len(t) : \E j \in 1 .. m - 1 : ~drop[j] /\ t[k] = s[j]
        /\ \A j \in 1 .. m - 1 : ~drop[j] => \E k \in 1 .. Len(t) : t[k] = s[j]
        /\ IsInjective(s) => IsInjective(t)
    BY <2>2 DEF Rest
  <2>5. CASE drop[m]
    <3>1. \A k \in 1 .. Len(t) : \E j \in 1 .. m : ~drop[j] /\ t[k] = s[j]
      BY <2>1, <2>4
    <3>2. \A j \in 1 .. m : ~drop[j] => j \in 1 .. m - 1
      BY <2>1, <2>5
    <3>3. Rest(t, s, drop, m, A)
      BY <2>4, <3>1, <3>2 DEF Rest
    <3> QED
      BY <1>1, <2>3, <2>5, <3>3
  <2>6. CASE ~drop[m]
    <3> DEFINE u == Append(t, s[m])
    <3>1. /\ u \in Seq(A) /\ Len(u) = Len(t) + 1
          /\ \A k \in 1 .. Len(t) : u[k] = t[k]
          /\ u[Len(t) + 1] = s[m]
      BY <2>1, <2>4, AppendProperties
    <3>2. f[m] = u
      BY <2>3, <2>6
    <3> HIDE DEF u
    <3>3. ASSUME NEW k \in 1 .. Len(u) PROVE \E j \in 1 .. m : ~drop[j] /\ u[k] = s[j]
      <4>1. CASE k \in 1 .. Len(t)
        <5>1. PICK j \in 1 .. m - 1 : ~drop[j] /\ t[k] = s[j]
          BY <2>4, <4>1
        <5>2. j \in 1 .. m
          BY <2>1
        <5> QED
          BY <3>1, <4>1, <5>1, <5>2
      <4>2. CASE k = Len(t) + 1
        <5>1. m \in 1 .. m
          BY <2>1
        <5> QED
          BY <2>6, <3>1, <4>2, <5>1
      <4>3. k \in 1 .. Len(t) \/ k = Len(t) + 1
        BY <2>4, <3>1
      <4> QED
        BY <4>1, <4>2, <4>3
    <3>4. ASSUME NEW j \in 1 .. m, ~drop[j] PROVE \E k \in 1 .. Len(u) : u[k] = s[j]
      <4>1. CASE j \in 1 .. m - 1
        <5>1. PICK k \in 1 .. Len(t) : t[k] = s[j]
          BY <2>4, <3>4, <4>1
        <5>2. k \in 1 .. Len(u)
          BY <2>4, <3>1
        <5> QED
          BY <3>1, <5>1, <5>2
      <4>2. CASE j = m
        <5>1. Len(t) + 1 \in 1 .. Len(u)
          BY <2>4, <3>1
        <5> QED
          BY <3>1, <4>2, <5>1
      <4> QED
        BY <2>1, <4>1, <4>2
    <3>5. ASSUME IsInjective(s) PROVE IsInjective(u)
      <4>1. IsInjective(t)
        BY <2>4, <3>5
      <4>2. \A k, l \in 1 .. Len(t) : t[k] = t[l] => k = l
        <5>1. DOMAIN t = 1 .. Len(t)
          BY <2>4
        <5> QED
          BY <4>1, <5>1 DEF IsInjective
      <4>3. \A k \in 1 .. Len(t) : t[k] # s[m]
        <5> SUFFICES ASSUME NEW k \in 1 .. Len(t), t[k] = s[m] PROVE FALSE
          OBVIOUS
        <5>1. PICK j \in 1 .. m - 1 : ~drop[j] /\ t[k] = s[j]
          BY <2>4
        <5>2. j \in DOMAIN s /\ m \in DOMAIN s /\ j # m
          BY <1>0, <2>1 DEF n
        <5> QED
          BY <3>5, <5>1, <5>2 DEF IsInjective
      <4>4. ASSUME NEW k \in 1 .. Len(u), NEW l \in 1 .. Len(u), u[k] = u[l] PROVE k = l
        <5>1. /\ k \in 1 .. Len(t) \/ k = Len(t) + 1
              /\ l \in 1 .. Len(t) \/ l = Len(t) + 1
          BY <2>4, <3>1
        <5>2. CASE k \in 1 .. Len(t) /\ l \in 1 .. Len(t)
          BY <3>1, <4>2, <4>4, <5>2
        <5>3. CASE k \in 1 .. Len(t) /\ l = Len(t) + 1
          BY <3>1, <4>3, <4>4, <5>3
        <5>4. CASE k = Len(t) + 1 /\ l \in 1 .. Len(t)
          BY <3>1, <4>3, <4>4, <5>4
        <5>5. CASE k = Len(t) + 1 /\ l = Len(t) + 1
          BY <5>5
        <5> QED
          BY <5>1, <5>2, <5>3, <5>4, <5>5
      <4>5. DOMAIN u = 1 .. Len(u)
        BY <3>1
      <4> QED
        BY <4>4, <4>5 DEF IsInjective
    <3>6. Rest(u, s, drop, m, A)
      BY <3>1, <3>3, <3>4, <3>5 DEF Rest
    <3> QED
      BY <1>1, <3>2, <3>6
  <2> QED
    BY <2>5, <2>6
<1> QED
  BY <1>4, <1>5

\* get_line and fputs make a text of bytes of a text of bytes.
LEMMA TextIs ==
  ASSUME NEW A, NEW s \in Seq(A)
  PROVE  /\ Text(s) \in Seq(A)
         /\ \A k \in 1 .. Len(Text(s)) : \E j \in 1 .. Len(s) : Text(s)[k] = s[j]
         /\ \A j \in 1 .. Len(s) : s[j] # LF =>
              \E k \in 1 .. Len(Text(s)) : Text(s)[k] = s[j]
<1> DEFINE drop == [i \in 1 .. Len(s) |-> s[i] = LF /\ i > 1 /\ s[i - 1] = CR]
           f == CHOOSE f : f = [i \in 0 .. Len(s) |->
                  IF i = 0 THEN << >>
                  ELSE IF s[i] = LF /\ i > 1 /\ s[i - 1] = CR THEN f[i - 1]
                  ELSE Append(f[i - 1], s[i])]
<1>0. Len(s) \in Nat
  BY LenProperties
<1>1. \A g : Filters(g, s, drop, Len(s)) <=>
               g = [i \in 0 .. Len(s) |->
                  IF i = 0 THEN << >>
                  ELSE IF s[i] = LF /\ i > 1 /\ s[i - 1] = CR THEN g[i - 1]
                  ELSE Append(g[i - 1], s[i])]
  <2> TAKE g
  <2>1. [i \in 0 .. Len(s) |-> IF i = 0 THEN << >>
                        ELSE IF drop[i] THEN g[i - 1] ELSE Append(g[i - 1], s[i])]
        = [i \in 0 .. Len(s) |->
                  IF i = 0 THEN << >>
                  ELSE IF s[i] = LF /\ i > 1 /\ s[i - 1] = CR THEN g[i - 1]
                  ELSE Append(g[i - 1], s[i])]
    <3>1. \A i \in 0 .. Len(s) : i # 0 => i \in 1 .. Len(s)
      BY <1>0
    <3>2. \A i \in 1 .. Len(s) : drop[i] = (s[i] = LF /\ i > 1 /\ s[i - 1] = CR)
      OBVIOUS
    <3> HIDE DEF drop
    <3> QED
      BY <3>1, <3>2
  <2> HIDE DEF drop
  <2> QED
    BY <2>1 DEF Filters
<1>2. \E g : Filters(g, s, drop, Len(s))
  BY <1>0, FiltersExists
<1>3. Filters(f, s, drop, Len(s))
  <2> HIDE DEF drop
  <2> QED
    BY <1>1, <1>2
<1>4. Text(s) = f[Len(s)]
  BY DEF Text
<1>5. \A j \in 1 .. Len(s) : s[j] # LF => ~drop[j]
  OBVIOUS
<1> HIDE DEF f, drop
<1>6. Rest(Text(s), s, drop, Len(s), A)
  BY <1>3, <1>4, FiltersRest
<1> QED
  BY <1>5, <1>6 DEF Rest

\* What is left of a mailbox
LEMMA WithoutIs ==
  ASSUME NEW A, NEW s \in Seq(A), NEW S
  PROVE  /\ Without(s, S) \in Seq(A)
         /\ \A k \in 1 .. Len(Without(s, S)) :
              \E j \in 1 .. Len(s) : s[j] \notin S /\ Without(s, S)[k] = s[j]
         /\ \A j \in 1 .. Len(s) : s[j] \notin S =>
              \E k \in 1 .. Len(Without(s, S)) : Without(s, S)[k] = s[j]
         /\ IsInjective(s) => IsInjective(Without(s, S))
<1> DEFINE drop == [i \in 1 .. Len(s) |-> s[i] \in S]
           f == CHOOSE f : f = [i \in 0 .. Len(s) |->
                  IF i = 0 THEN << >>
                  ELSE IF s[i] \in S THEN f[i - 1] ELSE Append(f[i - 1], s[i])]
<1>0. Len(s) \in Nat
  BY LenProperties
<1>1. \A g : Filters(g, s, drop, Len(s)) <=>
               g = [i \in 0 .. Len(s) |->
                  IF i = 0 THEN << >>
                  ELSE IF s[i] \in S THEN g[i - 1] ELSE Append(g[i - 1], s[i])]
  <2> TAKE g
  <2>1. [i \in 0 .. Len(s) |-> IF i = 0 THEN << >>
                        ELSE IF drop[i] THEN g[i - 1] ELSE Append(g[i - 1], s[i])]
        = [i \in 0 .. Len(s) |->
                  IF i = 0 THEN << >>
                  ELSE IF s[i] \in S THEN g[i - 1] ELSE Append(g[i - 1], s[i])]
    <3>1. \A i \in 0 .. Len(s) : i # 0 => i \in 1 .. Len(s)
      BY <1>0
    <3>2. \A i \in 1 .. Len(s) : drop[i] = (s[i] \in S)
      OBVIOUS
    <3> HIDE DEF drop
    <3> QED
      BY <3>1, <3>2
  <2> HIDE DEF drop
  <2> QED
    BY <2>1 DEF Filters
<1>2. \E g : Filters(g, s, drop, Len(s))
  BY <1>0, FiltersExists
<1>3. Filters(f, s, drop, Len(s))
  <2> HIDE DEF drop
  <2> QED
    BY <1>1, <1>2
<1>4. Without(s, S) = f[Len(s)]
  BY DEF Without
<1>5. \A j \in 1 .. Len(s) : drop[j] <=> s[j] \in S
  OBVIOUS
<1> HIDE DEF f, drop
<1>6. Rest(Without(s, S), s, drop, Len(s), A)
  BY <1>3, <1>4, FiltersRest
<1> QED
  BY <1>5, <1>6 DEF Rest

-----------------------------------------------------------------------------
(* Replies and the end of a message                                        *)

LEMMA RepliesAre ==
  /\ \A x \in Mails :
       Wire(x) \in Seq(Bytes) /\ Len(Wire(x)) >= 6 /\ Wire(x)[1] = "+OK"
  /\ ErrReply \in Seq(Bytes) /\ Len(ErrReply) = 3
  /\ \A x \in Mails : Wire(x) # ErrReply
<1>1. ErrReply \in Seq(Bytes) /\ Len(ErrReply) = 3
  BY DEF ErrReply, Bytes
<1>2. ASSUME NEW x \in Mails
      PROVE  Wire(x) \in Seq(Bytes) /\ Len(Wire(x)) >= 6 /\ Wire(x)[1] = "+OK"
  <2> DEFINE h == <<"+OK", CR, LF>>
             t == <<Dot, CR, LF>>
             b == Body[x]
  <2>1. h \in Seq(Bytes) /\ t \in Seq(Bytes) /\ Len(h) = 3 /\ Len(t) = 3 /\ h[1] = "+OK"
    BY DEF Bytes
  <2>2. b \in Seq(Bytes) /\ Len(b) \in Nat
    BY PopAssumption, LenProperties
  <2>3. Wire(x) = h \o b \o t
    BY DEF Wire
  <2> HIDE DEF h, t, b
  <2>c. \A p, q \in Seq(Bytes) :
          /\ p \o q \in Seq(Bytes) /\ Len(p \o q) = Len(p) + Len(q)
          /\ Len(p) >= 1 => (p \o q)[1] = p[1]
    <3> TAKE p, q \in Seq(Bytes)
    <3>1. /\ p \o q \in Seq(Bytes) /\ Len(p \o q) = Len(p) + Len(q)
          /\ \A i \in 1 .. Len(p) + Len(q) :
               (p \o q)[i] = IF i <= Len(p) THEN p[i] ELSE q[i - Len(p)]
      BY ConcatProperties
    <3>2. Len(p) \in Nat /\ Len(q) \in Nat
      BY LenProperties
    <3>3. Len(p) >= 1 => 1 \in 1 .. Len(p) + Len(q)
      BY <3>2
    <3> QED
      BY <3>1, <3>3
  <2>4. h \o b \in Seq(Bytes) /\ Len(h \o b) = 3 + Len(b) /\ (h \o b)[1] = "+OK"
    <3>1. /\ h \o b \in Seq(Bytes) /\ Len(h \o b) = Len(h) + Len(b)
          /\ Len(h) >= 1 => (h \o b)[1] = h[1]
      BY <2>1, <2>2, <2>c
    <3>2. Len(h) >= 1
      BY <2>1
    <3> QED
      BY <2>1, <3>1, <3>2
  <2> DEFINE u == h \o b
  <2>5. /\ u \in Seq(Bytes) /\ Len(u) = 3 + Len(b) /\ Wire(x) = u \o t
        /\ u[1] = "+OK" /\ Len(u) >= 1
    BY <2>2, <2>3, <2>4
  <2> HIDE DEF u
  <2>6. u \o t \in Seq(Bytes) /\ Len(u \o t) = Len(u) + Len(t) /\ (u \o t)[1] = "+OK"
    BY <2>1, <2>5, <2>c
  <2> QED
    BY <2>1, <2>2, <2>5, <2>6
<1>3. ASSUME NEW x \in Mails, Wire(x) = ErrReply PROVE FALSE
  <2>1. Len(Wire(x)) >= 6 /\ Len(Wire(x)) = 3
    BY <1>1, <1>2, <1>3
  <2> QED
    BY <2>1
<1> QED
  BY <1>1, <1>2, <1>3

\* The five bytes from i on are the end of a message.
EndsAt(t, i) ==
  t[i] = CR /\ t[i + 1] = LF /\ t[i + 2] = Dot /\ t[i + 3] = CR /\ t[i + 4] = LF

LEMMA FiveBytes ==
  ASSUME NEW A, NEW t \in Seq(A), NEW i \in Nat \ {0}, i + 4 <= Len(t)
  PROVE  SubSeq(t, i, i + 4) = EndOfMail <=> EndsAt(t, i)
<1> DEFINE s == SubSeq(t, i, i + 4)
<1>1. Len(t) \in Nat
  BY LenProperties
<1>2. s \in Seq(A) /\ Len(s) = 5 /\ \A k \in 1 .. 5 : s[k] = t[(i + k) - 1]
  <2>1. \A k \in i .. i + 4 : k \in 1 .. Len(t)
    BY <1>1
  <2>2. s \in Seq(A)
    BY <2>1, SubSeqProperties
  <2>3. Len(s) = 5
    <3>1. Len(s) = IF i <= (i + 4) + 1 THEN (i + 4) - i + 1 ELSE 0
      BY <1>1, <2>1, SubSeqProperties
    <3> QED
      BY <3>1
  <2>4. \A k \in 1 .. 5 : s[k] = t[(i + k) - 1]
    <3>1. \A k \in 1 .. (i + 4) - i + 1 : s[k] = t[i + k - 1]
      BY <1>1, <2>1, SubSeqProperties
    <3>2. \A k \in 1 .. 5 : k \in 1 .. (i + 4) - i + 1
      OBVIOUS
    <3> HIDE DEF s
    <3> QED
      BY <3>1, <3>2
  <2> QED
    BY <2>2, <2>3, <2>4
<1>3. /\ s[1] = t[i] /\ s[2] = t[i + 1] /\ s[3] = t[i + 2] /\ s[4] = t[i + 3]
      /\ s[5] = t[i + 4]
  <2>1. /\ (i + 1) - 1 = i /\ (i + 2) - 1 = i + 1 /\ (i + 3) - 1 = i + 2
        /\ (i + 4) - 1 = i + 3 /\ (i + 5) - 1 = i + 4
    OBVIOUS
  <2> HIDE DEF s
  <2>2. /\ s[1] = t[(i + 1) - 1] /\ s[2] = t[(i + 2) - 1] /\ s[3] = t[(i + 3) - 1]
        /\ s[4] = t[(i + 4) - 1] /\ s[5] = t[(i + 5) - 1]
    BY <1>2
  <2> QED
    BY <2>1, <2>2
<1> HIDE DEF s
<1>4. /\ Len(EndOfMail) = 5 /\ EndOfMail \in Seq({CR, LF, Dot})
      /\ EndOfMail[1] = CR /\ EndOfMail[2] = LF /\ EndOfMail[3] = Dot
      /\ EndOfMail[4] = CR /\ EndOfMail[5] = LF
  BY DEF EndOfMail
<1>5. ASSUME EndsAt(t, i) PROVE s = EndOfMail
  <2>1. \A k \in 1 .. 5 : s[k] = EndOfMail[k]
    <3>1. 1 .. 5 = {1, 2, 3, 4, 5}
      OBVIOUS
    <3> QED
      BY <1>3, <1>4, <1>5, <3>1 DEF EndsAt
  <2> DEFINE C == A \cup {CR, LF, Dot}
  <2>2. s \in Seq(C) /\ EndOfMail \in Seq(C)
    BY <1>2, <1>4
  <2> HIDE DEF C
  <2> QED
    BY <1>2, <1>4, <2>1, <2>2, SeqEqual
<1>6. ASSUME s = EndOfMail PROVE EndsAt(t, i)
  BY <1>3, <1>4, <1>6 DEF EndsAt
<1> QED
  BY <1>5, <1>6 DEF s

\* done, then what the stream holds, is a reply r; o holds the last bytes of done.
Overlaps(o, done) ==
  \A j \in 1 .. 4 : o[j] = IF Len(done) + j - 4 >= 1 THEN done[Len(done) + j - 4] ELSE "0"

\* One pass of the receive loop appends s to done, both part of reply r.
OnePass(r, done, o, s) ==
  /\ r \in Seq(Bytes) /\ done \in Seq(Bytes) /\ s \in Seq(Bytes)
  /\ o \in Seq(Bytes \cup {"0"}) /\ Len(o) = 4 /\ Overlaps(o, done)
  /\ Len(done) + Len(s) <= Len(r)
  /\ \A i \in 1 .. Len(done) : done[i] = r[i]
  /\ \A i \in 1 .. Len(s) : s[i] = r[Len(done) + i]

\* What one pass of the receive loop sees, in terms of the reply
LEMMA Seen ==
  \A r, done, o, s : OnePass(r, done, o, s) =>
    /\ o \o s \in Seq(Bytes \cup {"0"}) /\ Len(o \o s) = 4 + Len(s)
    /\ \A j \in 1 .. 4 + Len(s) :
         (o \o s)[j] = IF Len(done) + j - 4 >= 1 THEN r[Len(done) + j - 4] ELSE "0"
<1>s. SUFFICES ASSUME NEW r, NEW done, NEW o, NEW s, OnePass(r, done, o, s)
              PROVE  /\ o \o s \in Seq(Bytes \cup {"0"}) /\ Len(o \o s) = 4 + Len(s)
                     /\ \A j \in 1 .. 4 + Len(s) :
                          (o \o s)[j] = IF Len(done) + j - 4 >= 1
                                        THEN r[Len(done) + j - 4] ELSE "0"
  OBVIOUS
<1> DEFINE B == Bytes \cup {"0"}
           d == Len(done)
           n == Len(s)
           seen == o \o s
<1>0. /\ o \in Seq(B) /\ Len(o) = 4 /\ Overlaps(o, done)
      /\ \A i \in 1 .. d : done[i] = r[i]
      /\ \A i \in 1 .. n : s[i] = r[d + i]
  BY <1>s DEF OnePass
<1>1. s \in Seq(B) /\ n \in Nat /\ d \in Nat
  BY <1>s, LenProperties DEF OnePass
<1>2. /\ seen \in Seq(B) /\ Len(seen) = 4 + n
      /\ \A j \in 1 .. 4 + n : seen[j] = IF j <= 4 THEN o[j] ELSE s[j - 4]
  <2> HIDE DEF B
  <2>1. \A p, q \in Seq(B) :
          /\ p \o q \in Seq(B) /\ Len(p \o q) = Len(p) + Len(q)
          /\ \A i \in 1 .. Len(p) + Len(q) :
               (p \o q)[i] = IF i <= Len(p) THEN p[i] ELSE q[i - Len(p)]
    BY ConcatProperties
  <2>2. /\ o \o s \in Seq(B) /\ Len(o \o s) = Len(o) + Len(s)
        /\ \A i \in 1 .. Len(o) + Len(s) :
             (o \o s)[i] = IF i <= Len(o) THEN o[i] ELSE s[i - Len(o)]
    BY <1>0, <1>1, <2>1
  <2>3. Len(o) = 4 /\ Len(s) = n
    BY <1>0
  <2> HIDE DEF n
  <2> QED
    BY <2>2, <2>3
<1>3. ASSUME NEW j \in 1 .. 4 + n
      PROVE  seen[j] = IF d + j - 4 >= 1 THEN r[d + j - 4] ELSE "0"
  <2>0. j \in Int /\ d \in Nat /\ n \in Nat
    BY <1>1
  <2> HIDE DEF seen
  <2>1. CASE j <= 4
    <3>1. j \in 1 .. 4 /\ seen[j] = o[j]
      BY <1>2, <2>0, <2>1
    <3>2. o[j] = IF d + j - 4 >= 1 THEN done[d + j - 4] ELSE "0"
      BY <1>0, <3>1 DEF Overlaps
    <3>3. d + j - 4 >= 1 => d + j - 4 \in 1 .. d
      BY <2>0, <2>1
    <3>4. d + j - 4 >= 1 => done[d + j - 4] = r[d + j - 4]
      BY <1>0, <3>3
    <3> HIDE DEF d, n
    <3> QED
      BY <3>1, <3>2, <3>4
  <2>2. CASE j > 4
    <3>1. seen[j] = s[j - 4] /\ j - 4 \in 1 .. n
      BY <1>2, <2>0, <2>2
    <3>2. s[j - 4] = r[d + (j - 4)]
      BY <1>0, <3>1
    <3>3. d + (j - 4) = d + j - 4 /\ d + j - 4 >= 1
      BY <2>0, <2>2
    <3> HIDE DEF d, n
    <3> QED
      BY <3>1, <3>2, <3>3
  <2> QED
    BY <2>0, <2>1, <2>2
<1> QED
  BY <1>2, <1>3

\* The end is seen in the pass that reads it.
LEMMA SeesEnd ==
  ASSUME NEW r, NEW done, NEW o, NEW s, OnePass(r, done, o, s)
  PROVE  SawEnd(o, s) <=> \E i \in 1 .. Len(s) : /\ Len(done) + i - 4 >= 1
                                                 /\ EndsAt(r, Len(done) + i - 4)
<1> DEFINE d == Len(done)
           n == Len(s)
           seen == o \o s
<1>1. d \in Nat /\ n \in Nat
  BY LenProperties DEF OnePass
<1>2. /\ seen \in Seq(Bytes \cup {"0"}) /\ Len(seen) = 4 + n
      /\ \A j \in 1 .. 4 + n :
           seen[j] = IF d + j - 4 >= 1 THEN r[d + j - 4] ELSE "0"
  BY Seen
<1>3. SawEnd(o, s) <=> \E i \in 1 .. n : SubSeq(seen, i, i + 4) = EndOfMail
  BY DEF SawEnd
<1> HIDE DEF seen, d, n
<1>4. ASSUME NEW i \in 1 .. n
      PROVE  SubSeq(seen, i, i + 4) = EndOfMail <=> d + i - 4 >= 1 /\ EndsAt(r, d + i - 4)
  <2>1. i \in Nat \ {0} /\ i + 4 <= Len(seen)
    BY <1>1, <1>2
  <2>2. SubSeq(seen, i, i + 4) = EndOfMail <=> EndsAt(seen, i)
    BY <1>2, <2>1, FiveBytes
  <2>3. /\ i \in 1 .. 4 + n /\ i + 1 \in 1 .. 4 + n /\ i + 2 \in 1 .. 4 + n
        /\ i + 3 \in 1 .. 4 + n /\ i + 4 \in 1 .. 4 + n
    BY <1>1
  <2>4. CASE d + i - 4 >= 1
    <3> DEFINE a == d + i - 4
    <3>1. /\ d + (i + 1) - 4 = a + 1 /\ d + (i + 2) - 4 = a + 2
          /\ d + (i + 3) - 4 = a + 3 /\ d + (i + 4) - 4 = a + 4
          /\ a + 1 >= 1 /\ a + 2 >= 1 /\ a + 3 >= 1 /\ a + 4 >= 1 /\ a >= 1
      BY <1>1, <2>1, <2>4
    <3>2. /\ seen[i] = r[a] /\ seen[i + 1] = r[a + 1] /\ seen[i + 2] = r[a + 2]
          /\ seen[i + 3] = r[a + 3] /\ seen[i + 4] = r[a + 4]
      <4> HIDE DEF a
      <4>1. a = d + i - 4
        BY DEF a
      <4>2. /\ seen[i] = IF d + i - 4 >= 1 THEN r[d + i - 4] ELSE "0"
            /\ seen[i + 1] = IF d + (i + 1) - 4 >= 1 THEN r[d + (i + 1) - 4] ELSE "0"
            /\ seen[i + 2] = IF d + (i + 2) - 4 >= 1 THEN r[d + (i + 2) - 4] ELSE "0"
            /\ seen[i + 3] = IF d + (i + 3) - 4 >= 1 THEN r[d + (i + 3) - 4] ELSE "0"
            /\ seen[i + 4] = IF d + (i + 4) - 4 >= 1 THEN r[d + (i + 4) - 4] ELSE "0"
        BY <1>2, <2>3
      <4> QED
        BY <3>1, <4>1, <4>2
    <3> HIDE DEF a
    <3>3. EndsAt(seen, i) <=> EndsAt(r, a)
      BY <3>2 DEF EndsAt
    <3> QED
      BY <2>2, <2>4, <3>3 DEF a
  <2>5. CASE ~(d + i - 4 >= 1)
    <3>1. seen[i] = "0"
      BY <1>2, <2>3, <2>5
    <3>2. ~EndsAt(seen, i)
      BY <3>1 DEF EndsAt, CR
    <3> QED
      BY <2>2, <2>5, <3>2
  <2> QED
    BY <2>4, <2>5
<1> QED
  BY <1>3, <1>4 DEF d, n

\* So the receive loop stops when it has the whole message, and not before.
LEMMA StopsAtEnd ==
  ASSUME NEW x \in Mails, NEW done, NEW o, NEW s, OnePass(Wire(x), done, o, s),
         Len(done) < Len(Wire(x))
  PROVE  SawEnd(o, s) <=> Len(done) + Len(s) = Len(Wire(x))
<1> DEFINE d == Len(done)
           n == Len(s)
           r == Wire(x)
<1>1. d \in Nat /\ n \in Nat /\ r \in Seq(Bytes) /\ Len(r) \in Nat
  BY RepliesAre, LenProperties DEF OnePass
<1>2. SawEnd(o, s) <=> \E i \in 1 .. n : d + i - 4 >= 1 /\ EndsAt(r, d + i - 4)
  BY SeesEnd
<1>3. d + n <= Len(r) /\ d < Len(r) /\ Len(r) >= 6
  BY RepliesAre DEF OnePass
<1>4. \A i \in 1 .. (Len(r) - 4) : SubSeq(r, i, i + 4) = EndOfMail <=> i = Len(r) - 4
  BY WireAssumption
<1> HIDE DEF d, n, r
<1>5. ASSUME NEW a \in 1 .. (Len(r) - 4) PROVE EndsAt(r, a) <=> a = Len(r) - 4
  <2>1. a \in Nat \ {0} /\ a + 4 <= Len(r)
    BY <1>1
  <2>2. SubSeq(r, a, a + 4) = EndOfMail <=> EndsAt(r, a)
    BY <1>1, <2>1, FiveBytes
  <2> QED
    BY <1>4, <2>2
<1>6. ASSUME NEW i \in 1 .. n, d + i - 4 >= 1, EndsAt(r, d + i - 4) PROVE d + n = Len(r)
  <2>1. d + i - 4 \in 1 .. (Len(r) - 4)
    BY <1>1, <1>3, <1>6
  <2>2. d + i - 4 = Len(r) - 4
    BY <1>5, <1>6, <2>1
  <2> QED
    BY <1>1, <1>3, <2>2
<1>7. ASSUME d + n = Len(r)
      PROVE  n \in 1 .. n /\ d + n - 4 >= 1 /\ EndsAt(r, d + n - 4)
  <2>1. n \in 1 .. n /\ d + n - 4 >= 1 /\ d + n - 4 \in 1 .. (Len(r) - 4)
        /\ d + n - 4 = Len(r) - 4
    BY <1>1, <1>3, <1>7
  <2> QED
    BY <1>5, <2>1
<1>8. SawEnd(o, s) <=> d + n = Len(r)
  BY <1>2, <1>6, <1>7
<1> QED
  BY <1>8 DEF d, n, r

\* A refusal is shorter than the end that the receive loop waits for.
LEMMA NoEndOfRefusal ==
  ASSUME NEW done, NEW o, NEW s, OnePass(ErrReply, done, o, s)
  PROVE  ~SawEnd(o, s)
<1> DEFINE d == Len(done)
           n == Len(s)
<1>1. d \in Nat /\ n \in Nat /\ ErrReply \in Seq(Bytes) /\ Len(ErrReply) = 3
  BY RepliesAre, LenProperties DEF OnePass
<1>2. SawEnd(o, s) => \E i \in 1 .. n : d + i - 4 >= 1
  BY SeesEnd
<1>3. d + n <= 3
  BY <1>1 DEF OnePass
<1> HIDE DEF d, n
<1> QED
  BY <1>1, <1>2, <1>3
-----------------------------------------------------------------------------
(* The inductive invariant                                                 *)

\* The spool and the inbox are files with the bytes the server sends.
Disk ==
  /\ spool \in [Slots -> Seq(Bytes) \cup {None}]
  /\ files \in [1 .. MaxNum -> Seq(Bytes) \cup {None}]

\* Talking to the server
Talking == pc \in {"retr", "data", "dele", "send_quit"}

\* Where the loops over the messages are, and what is left behind when they
\* end.  A count of messages that was never set is not beyond the session
\* when the first RETR was sent.
Counting ==
  /\ Talking => nummsgs <= Len(session) \/ (pc = "retr" /\ ~up /\ msg = 1)
  /\ Talking => next + Len(session) <= MaxNum + 1
  /\ pc \in {"retr", "data", "dele"} => msg \in 1 .. nummsgs
  /\ pc = "send_quit" => msg = nummsgs + 1
  /\ pc = "quit" => msg = 1 /\ next + nummsgs <= MaxNum + 1
  /\ pc = "import" => msg \in 1 .. (nummsgs + 1) /\ nextemail = next + msg - 1
  /\ pc \in {"record", "unlink"} => msg \in 1 .. nummsgs /\ nextemail = next + msg
  /\ pc \in {"import", "record", "unlink"} => next + nummsgs <= MaxNum + 1
  /\ ~Talking => session = << >> /\ marked = {}
  /\ pc \notin {"data", "quit"} => stream = << >>
  /\ Len(session) <= Cardinality(Mails)

\* The bytes of p are the first ones of r.
Beginning(p, r) == Len(p) <= Len(r) /\ \A i \in 1 .. Len(p) : p[i] = r[i]

\* What is in file done and what stream st still holds are the beginning of
\* reply r, all of it while the connection is up; o holds the last bytes of done.
Follows(done, o, st, r, live) ==
  /\ Len(done) + Len(st) <= Len(r)
  /\ live => Len(done) + Len(st) = Len(r)
  /\ \A i \in 1 .. Len(done) : done[i] = r[i]
  /\ \A i \in 1 .. Len(st) : st[i] = r[Len(done) + i]
  /\ Len(done) < Len(r) \/ r = ErrReply
  /\ Overlaps(o, done)

\* The receive loop is in the middle of one reply.
Reading ==
  pc = "data" =>
    \E r \in {Wire(session[msg]), ErrReply} :
      Follows(spool[msg], overlap, stream, r, up)

\* The spool files are there for the messages that were fetched, until they
\* are imported.
Spooled ==
  /\ Talking => \A i \in 1 .. (msg - 1) : spool[i] # None
  /\ pc \in {"data", "dele"} => spool[msg] # None
  /\ pc \in {"quit", "import", "record"} => \A i \in msg .. nummsgs : spool[i] # None
  /\ pc = "unlink" => \A i \in (msg + 1) .. nummsgs : spool[i] # None

\* A message is marked, or about to be, only when it is whole in its file.
MarkedWhole ==
  /\ \A i \in marked : i \in 1 .. nummsgs /\ i < msg /\ spool[i] = Wire(session[i])
  /\ pc = "dele" /\ up => spool[msg] = Wire(session[msg])

IInv ==
  /\ TypeOK
  /\ Disk
  /\ IsInjective(box)
  /\ Counting
  /\ Reading
  /\ Spooled
  /\ MarkedWhole

-----------------------------------------------------------------------------
(* Small facts                                                             *)

LEMMA Sizes ==
  /\ Cardinality(Mails) \in Nat
  /\ MaxNum \in Nat
  /\ None \notin Seq(Bytes)
  /\ << >> \in Seq(Bytes)
BY PopAssumption, FS_CardinalityType

\* A mailbox has no more messages than there are.
LEMMA BoxFits ==
  ASSUME TypeOK, IsInjective(box)
  PROVE  box \in Seq(Mails) /\ Len(box) \in Nat /\ Len(box) <= Cardinality(Mails)
<1>1. box \in Seq(arrived) /\ arrived \subseteq Mails
  BY DEF TypeOK
<1>2. box \in Seq(Mails)
  BY <1>1
<1>3. Len(box) \in Nat /\ box \in [1 .. Len(box) -> Mails] /\ DOMAIN box = 1 .. Len(box)
  BY <1>2, LenProperties
<1>4. box \in Injection(1 .. Len(box), Mails)
  BY <1>3 DEF Injection
<1>5. Cardinality(1 .. Len(box)) <= Cardinality(Mails)
  BY <1>4, FS_Injection, PopAssumption
<1>6. Cardinality(1 .. Len(box)) = Len(box)
  <2>1. \A b \in Nat : Cardinality(1 .. b) = IF 1 > b THEN 0 ELSE b - 1 + 1
    BY FS_Interval
  <2>2. Cardinality(1 .. Len(box)) = IF 1 > Len(box) THEN 0 ELSE Len(box) - 1 + 1
    BY <1>3, <2>1
  <2> QED
    BY <1>3, <2>2
<1> QED
  BY <1>2, <1>3, <1>5, <1>6

\* The program is left: nothing of the run but its files remains.
LEMMA OffLeaves ==
  ASSUME IInv, Off, UNCHANGED <<box, arrived, quit, leaving, files, db>>,
         spool' \in [Slots -> Seq(Bytes) \cup {None}], next' \in 1 .. (MaxNum + 1)
  PROVE  IInv'
<1>1. TypeOK'
  <2>1. Zero \in Seq(Bytes \cup {"0"}) /\ Len(Zero) = 4
    BY DEF Zero
  <2>2. << >> \in Seq(Mails) /\ << >> \in Seq(Bytes)
    OBVIOUS
  <2>3. /\ arrived' \subseteq Mails /\ box' \in Seq(arrived') /\ leaving' \subseteq Mails
        /\ quit' \in {"none", "sent", "done"} /\ db' \in Seq(1 .. MaxNum)
        /\ \A n \in 1 .. MaxNum : files'[n] = None \/ files'[n] \in Seq(Bytes)
    BY DEF IInv, TypeOK
  <2>4. \A i \in Slots : spool'[i] = None \/ spool'[i] \in Seq(Bytes)
    OBVIOUS
  <2>5. next' \in 1 .. (MaxNum + 1)
    OBVIOUS
  <2>6. /\ msg' \in 0 .. (Cardinality(Mails) + 1) /\ nummsgs' \in 0 .. Cardinality(Mails)
        /\ nextemail' \in 0 .. (MaxNum + 1)
    BY Sizes DEF Off
  <2>7. up' \in BOOLEAN /\ delete' \in BOOLEAN
    BY DEF Off
  <2> QED
    BY <2>1, <2>2, <2>3, <2>4, <2>5, <2>6, <2>7 DEF Off, TypeOK
<1>2. Disk' /\ IsInjective(box)'
  BY DEF IInv, Disk, IsInjective
<1>3. Counting'
  <2>1. Len(<< >>) = 0
    OBVIOUS
  <2> QED
    BY <2>1, Sizes DEF Off, Counting, Talking
<1>4. Reading' /\ Spooled' /\ MarkedWhole'
  BY DEF Off, Reading, Spooled, MarkedWhole, Talking
<1> QED
  BY <1>1, <1>2, <1>3, <1>4 DEF IInv

LEMMA ErrorExitLeaves ==
  ASSUME IInv, ErrorExit, spool' \in [Slots -> Seq(Bytes) \cup {None}]
  PROVE  IInv'
<1>1. /\ Off /\ UNCHANGED <<box, arrived, quit, leaving, files, db>>
      /\ next' \in 1 .. (MaxNum + 1)
  BY DEF ErrorExit, IInv, TypeOK, server, inbox
<1> QED
  BY <1>1, OffLeaves

\* Steps of the server, which the run does not see
LEMMA RunUnchanged ==
  ASSUME IInv, UNCHANGED <<up, session, marked, stream, prog, spool, inbox>>
  PROVE  Counting' /\ Reading' /\ Spooled' /\ MarkedWhole' /\ Disk'
<1>1. Counting'
  BY DEF IInv, Counting, Talking, prog, inbox
<1>2. Reading'
  <2>1. /\ pc' = pc /\ msg' = msg /\ overlap' = overlap /\ spool' = spool
        /\ session' = session /\ stream' = stream /\ up' = up
    BY DEF prog
  <2> QED
    BY <2>1 DEF IInv, Reading
<1>3. Spooled' /\ MarkedWhole'
  BY DEF IInv, Spooled, MarkedWhole, Talking, prog
<1>4. Disk'
  BY DEF IInv, Disk, inbox
<1> QED
  BY <1>1, <1>2, <1>3, <1>4

-----------------------------------------------------------------------------
(* The server and the network                                              *)

LEMMA ArriveKeeps == ASSUME IInv, NEW x \in Mails, Arrive(x) PROVE IInv'
<1>1. UNCHANGED <<up, session, marked, stream, prog, spool, inbox>>
  BY DEF Arrive, net
<1>2. Counting' /\ Reading' /\ Spooled' /\ MarkedWhole' /\ Disk'
  BY <1>1, RunUnchanged
<1>3. /\ arrived \subseteq Mails /\ box \in Seq(arrived) /\ x \notin arrived
      /\ arrived' = arrived \cup {x} /\ box' = Append(box, x) /\ IsInjective(box)
  BY DEF IInv, TypeOK, Arrive
<1> DEFINE A == arrived \cup {x}
<1>4. box \in Seq(A) /\ x \in A
  BY <1>3
<1>5. Len(box) \in Nat /\ \A i \in 1 .. Len(box) : box[i] \in arrived
  BY <1>3, LenProperties, ElementOfSeq
<1>6. /\ box' \in Seq(A) /\ Len(box') = Len(box) + 1 /\ DOMAIN box' = 1 .. Len(box) + 1
      /\ \A i \in 1 .. Len(box) : box'[i] = box[i]
      /\ box'[Len(box) + 1] = x
  <2>1. /\ box' \in Seq(A) /\ Len(box') = Len(box) + 1
        /\ \A i \in 1 .. Len(box) : box'[i] = box[i]
        /\ box'[Len(box) + 1] = x
    BY <1>3, <1>4, AppendProperties
  <2> QED
    BY <2>1, LenProperties
<1>7. IsInjective(box')
  <2>1. DOMAIN box = 1 .. Len(box)
    BY <1>3, LenProperties
  <2> SUFFICES ASSUME NEW a \in 1 .. Len(box) + 1, NEW b \in 1 .. Len(box) + 1,
                      box'[a] = box'[b]
               PROVE  a = b
    BY <1>6 DEF IsInjective
  <2>2. \A i \in 1 .. Len(box) + 1 : i \in 1 .. Len(box) \/ i = Len(box) + 1
    BY <1>5
  <2>3. \A i \in 1 .. Len(box) : box'[i] # x
    BY <1>3, <1>5, <1>6
  <2>4. \A i, j \in 1 .. Len(box) : box[i] = box[j] => i = j
    BY <1>3, <2>1 DEF IsInjective
  <2> QED
    BY <1>6, <2>2, <2>3, <2>4
<1>8. TypeOK'
  <2>1. arrived' \subseteq Mails /\ box' \in Seq(arrived')
    BY <1>3, <1>6
  <2> QED
    BY <2>1 DEF IInv, TypeOK, Arrive, net, prog, inbox
<1> QED
  BY <1>2, <1>7, <1>8 DEF IInv

LEMMA ServerQuitKeeps == ASSUME IInv, ServerQuit PROVE IInv'
<1>1. UNCHANGED <<up, session, marked, stream, prog, spool, inbox>>
  BY DEF ServerQuit
<1>2. Counting' /\ Reading' /\ Spooled' /\ MarkedWhole' /\ Disk'
  BY <1>1, RunUnchanged
<1>3. box \in Seq(arrived) /\ IsInjective(box) /\ box' = Without(box, leaving)
  BY DEF IInv, TypeOK, ServerQuit
<1>4. box' \in Seq(arrived) /\ IsInjective(box')
  BY <1>3, WithoutIs
<1>5. TypeOK'
  <2>1. quit' \in {"none", "sent", "done"} /\ leaving' \subseteq Mails
    BY DEF ServerQuit
  <2> QED
    BY <1>4, <2>1 DEF IInv, TypeOK, ServerQuit, prog, inbox
<1> QED
  BY <1>2, <1>4, <1>5 DEF IInv

\* The connection is lost, and with it the end of what was on its way.
LEMMA LineCut ==
  ASSUME IInv, up' = FALSE, NEW k \in 0 .. Len(stream), stream' = SubSeq(stream, 1, k),
         UNCHANGED <<session, marked, prog, spool, inbox>>
  PROVE  /\ Counting' /\ Reading' /\ Spooled' /\ MarkedWhole' /\ Disk'
         /\ stream' \in Seq(Bytes)
<1>1. stream \in Seq(Bytes) /\ Len(stream) \in Nat /\ k \in Nat /\ k <= Len(stream)
  BY LenProperties DEF IInv, TypeOK
<1>2. /\ stream' \in Seq(Bytes) /\ Len(stream') = k
      /\ \A i \in 1 .. k : stream'[i] = stream[i]
  <2>1. \A i \in 1 .. k : stream[i] \in Bytes
    BY <1>1, ElementOfSeq
  <2>2. /\ SubSeq(stream, 1, k) \in Seq(Bytes)
        /\ Len(SubSeq(stream, 1, k)) = IF 1 <= k THEN k - 1 + 1 ELSE 0
        /\ \A i \in 1 .. (k - 1 + 1) : SubSeq(stream, 1, k)[i] = stream[1 + i - 1]
    BY <1>1, <2>1, SubSeqProperties
  <2>3. \A i \in 1 .. k : i \in 1 .. (k - 1 + 1) /\ 1 + i - 1 = i
    BY <1>1
  <2> QED
    BY <1>1, <2>2, <2>3
<1>3. Counting'
  <2>1. stream = << >> => stream' = << >>
    <3>1. Len(<< >>) = 0
      OBVIOUS
    <3> QED
      BY <1>1, <1>2, <3>1, EmptySeq
  <2> QED
    BY <2>1 DEF IInv, Counting, Talking, prog, inbox
<1>4. Reading'
  <2> SUFFICES ASSUME pc = "data" PROVE Reading'
    BY DEF Reading, prog
  <2>1. PICK r \in {Wire(session[msg]), ErrReply} :
          Follows(spool[msg], overlap, stream, r, up)
    BY DEF IInv, Reading
  <2> DEFINE done == spool[msg]
  <2>2. Len(done) \in Nat /\ Len(r) \in Nat
    <3>1. msg \in Slots /\ msg \in 1 .. Len(session)
      BY Sizes, LenProperties DEF IInv, TypeOK, Counting, Talking, Slots
    <3>2. done \in Seq(Bytes)
      BY <3>1 DEF IInv, Spooled, Disk
    <3>3. session[msg] \in Mails
      BY <3>1, ElementOfSeq DEF IInv, TypeOK
    <3>4. r \in Seq(Bytes)
      BY <3>3, RepliesAre
    <3> QED
      BY <3>2, <3>4, LenProperties
  <2>3. Follows(done, overlap, stream', r, FALSE)
    <3> HIDE DEF done
    <3>0. /\ Len(done) + Len(stream) <= Len(r)
          /\ \A i \in 1 .. Len(done) : done[i] = r[i]
          /\ \A i \in 1 .. Len(stream) : stream[i] = r[Len(done) + i]
          /\ Len(done) < Len(r) \/ r = ErrReply
          /\ Overlaps(overlap, done)
      BY <2>1 DEF Follows, done
    <3>1. Len(done) + Len(stream') <= Len(r)
      BY <1>1, <1>2, <2>2, <3>0
    <3>2. \A i \in 1 .. Len(stream') : stream'[i] = r[Len(done) + i]
      BY <1>1, <1>2, <3>0
    <3> QED
      BY <3>0, <3>1, <3>2 DEF Follows
  <2>4. /\ pc' = pc /\ session' = session /\ msg' = msg /\ spool' = spool
        /\ overlap' = overlap /\ up' = FALSE
    BY DEF prog
  <2> QED
    BY <2>3, <2>4 DEF Reading
<1>5. Spooled' /\ MarkedWhole' /\ Disk'
  BY DEF IInv, Spooled, MarkedWhole, Disk, Talking, prog, inbox
<1> QED
  BY <1>2, <1>3, <1>4, <1>5

LEMMA DropKeeps == ASSUME IInv, Drop PROVE IInv'
<1>1. PICK k \in 0 .. Len(stream) : stream' = SubSeq(stream, 1, k)
  BY DEF Drop
<1>2. up' = FALSE /\ UNCHANGED <<session, marked, prog, spool, inbox>>
  BY DEF Drop
<1>3. /\ Counting' /\ Reading' /\ Spooled' /\ MarkedWhole' /\ Disk'
      /\ stream' \in Seq(Bytes)
  BY <1>1, <1>2, LineCut
<1>4. TypeOK'
  <2>1. quit' \in {"none", "sent", "done"}
    BY DEF IInv, TypeOK, Drop
  <2> QED
    BY <1>3, <2>1 DEF IInv, TypeOK, Drop, server, prog, inbox
<1>5. IsInjective(box)'
  BY DEF IInv, Drop, server, IsInjective
<1> QED
  BY <1>3, <1>4, <1>5 DEF IInv

LEMMA AutologoutKeeps == ASSUME IInv, Autologout PROVE IInv'
<1>1. Len(stream) = 0 /\ stream' = SubSeq(stream, 1, 0)
  <2>1. stream = << >> /\ stream' = << >>
    BY DEF Autologout
  <2>2. Len(<< >>) = 0 /\ SubSeq(<< >>, 1, 0) = << >>
    BY SubSeqEmpty
  <2> QED
    BY <2>1, <2>2
<1>2. 0 \in 0 .. Len(stream)
  BY <1>1
<1>3. up' = FALSE /\ UNCHANGED <<session, marked, prog, spool, inbox>>
  BY DEF Autologout
<1>4. /\ Counting' /\ Reading' /\ Spooled' /\ MarkedWhole' /\ Disk'
      /\ stream' \in Seq(Bytes)
  BY <1>1, <1>2, <1>3, LineCut
<1>5. TypeOK'
  BY <1>4 DEF IInv, TypeOK, Autologout, server, prog, inbox
<1>6. IsInjective(box)'
  BY DEF IInv, Autologout, server, IsInjective
<1> QED
  BY <1>4, <1>5, <1>6 DEF IInv
-----------------------------------------------------------------------------
(* The session                                                             *)

LEMMA StartKeeps == ASSUME IInv, Start PROVE IInv'
<1>1. box \in Seq(Mails) /\ Len(box) \in Nat /\ Len(box) <= Cardinality(Mails)
  BY BoxFits DEF IInv
<1>2. /\ session' = box /\ marked' = {} /\ msg' = 1 /\ stream' = stream /\ next' = next
      /\ spool' = spool /\ pc' = IF 1 > nummsgs' THEN "send_quit" ELSE "retr"
      /\ HasRoom(Len(box)) /\ pc = "off"
      /\ UNCHANGED <<box, arrived, leaving, overlap, nextemail, files, db>>
  BY DEF Start, ForMsg, server, inbox
<1>3. up' \in BOOLEAN /\ (nummsgs' = Len(box) \/ ~up')
  BY DEF Start
<1>4. nummsgs' \in 0 .. Cardinality(Mails)
  <2>1. nummsgs' = Len(box) \/ nummsgs' \in 0 .. Cardinality(Mails)
    BY DEF Start
  <2> QED
    BY <1>1, <2>1, Sizes
<1>5. TypeOK'
  <2>1. session' \in Seq(Mails) /\ marked' \subseteq DOMAIN session'
    BY <1>1, <1>2
  <2>2. pc' \in {"send_quit", "retr"}
    BY <1>2
  <2>3. delete' \in BOOLEAN
    BY PopAssumption DEF Start
  <2>4. quit' \in {"none", "sent", "done"}
    BY DEF Start
  <2>5. msg' \in 0 .. (Cardinality(Mails) + 1)
    BY <1>2, Sizes
  <2> QED
    BY <1>2, <1>3, <1>4, <2>1, <2>2, <2>3, <2>4, <2>5 DEF IInv, TypeOK
<1>6. Counting'
  <2>1. stream' = << >>
    BY <1>2 DEF IInv, Counting
  <2>2. next + Len(session') <= MaxNum + 1 /\ Len(session') <= Cardinality(Mails)
    BY <1>1, <1>2 DEF HasRoom
  <2>3. nummsgs' <= Len(session') \/ (pc' = "retr" /\ ~up' /\ msg' = 1)
    BY <1>1, <1>2, <1>3, <1>4, Sizes
  <2>4. nummsgs' \in Nat
    BY <1>4, Sizes
  <2>5. pc' = "retr" => msg' \in 1 .. nummsgs'
    BY <1>2, <2>4
  <2>6. pc' = "send_quit" => msg' = nummsgs' + 1
    <3>1. pc' = "send_quit" => 1 > nummsgs'
      BY <1>2
    <3>2. \A n \in Nat : 1 > n => n + 1 = 1
      OBVIOUS
    <3> QED
      BY <1>2, <2>4, <3>1, <3>2
  <2> QED
    BY <1>2, <2>1, <2>2, <2>3, <2>5, <2>6 DEF Counting, Talking
<1>7. Reading' /\ Spooled' /\ MarkedWhole'
  BY <1>2 DEF Reading, Spooled, MarkedWhole, Talking
<1>8. Disk' /\ IsInjective(box)'
  BY <1>2 DEF IInv, Disk, IsInjective
<1> QED
  BY <1>5, <1>6, <1>7, <1>8 DEF IInv

\* While messages are fetched, msg is one of the session's.
LEMMA Current ==
  ASSUME IInv, pc \in {"retr", "data", "dele"}, pc # "retr" \/ up
  PROVE  /\ msg \in Slots /\ msg \in 1 .. Len(session) /\ msg \in 1 .. nummsgs
         /\ session[msg] \in Mails /\ Len(session) \in Nat /\ nummsgs \in Nat
         /\ nummsgs <= Len(session)
<1>1. Len(session) \in Nat /\ nummsgs \in Nat /\ session \in Seq(Mails)
  BY Sizes, LenProperties DEF IInv, TypeOK
<1>2. /\ nummsgs <= Len(session) /\ Len(session) <= Cardinality(Mails)
      /\ msg \in 1 .. nummsgs
  BY DEF IInv, Counting, Talking
<1>3. msg \in 1 .. Len(session) /\ msg \in Slots
  BY <1>1, <1>2, Sizes DEF Slots
<1> QED
  BY <1>1, <1>2, <1>3, ElementOfSeq

LEMMA RetrKeeps == ASSUME IInv, Retr PROVE IInv'
<1>0. /\ pc = "retr" /\ spool' = [spool EXCEPT ![msg] = << >>]
      /\ spool \in [Slots -> Seq(Bytes) \cup {None}]
  BY DEF Retr, IInv, Disk
<1>1. spool' \in [Slots -> Seq(Bytes) \cup {None}]
  BY <1>0, Sizes
<1>2. CASE ~up
  BY <1>1, <1>2, ErrorExitLeaves DEF Retr
<1>3. CASE up
  <2>1. /\ msg \in Slots /\ msg \in 1 .. Len(session) /\ msg \in 1 .. nummsgs
        /\ session[msg] \in Mails /\ Len(session) \in Nat /\ nummsgs \in Nat
        /\ nummsgs <= Len(session)
    BY <1>0, <1>3, Current
  <2>2. stream = << >>
    BY <1>0 DEF IInv, Counting
  <2>3. PICK r \in {Wire(session[msg]), ErrReply} : stream' = stream \o r
    BY <1>3 DEF Retr
  <2>4. /\ pc' = "data" /\ overlap' = Zero
        /\ UNCHANGED <<box, arrived, up, session, marked, quit, leaving,
                       delete, msg, nummsgs, nextemail, files, db, next>>
    BY <1>3 DEF Retr, server, inbox
  <2>5. r \in Seq(Bytes) /\ Len(r) \in Nat /\ Len(r) >= 3
    <3>1. r \in Seq(Bytes) /\ (Len(r) >= 6 \/ Len(r) = 3)
      BY <2>1, RepliesAre
    <3>2. Len(r) \in Nat
      BY <3>1, LenProperties
    <3> QED
      BY <3>1, <3>2
  <2>6. stream' = r
    BY <2>2, <2>3, <2>5, ConcatEmptySeq
  <2>7. spool'[msg] = << >> /\ \A i \in Slots : i # msg => spool'[i] = spool[i]
    BY <1>0, <2>1
  <2>8. TypeOK'
    <3>1. Zero \in Seq(Bytes \cup {"0"}) /\ Len(Zero) = 4
      BY DEF Zero
    <3>2. \A i \in Slots : spool'[i] = None \/ spool'[i] \in Seq(Bytes)
      BY <1>1
    <3> QED
      BY <2>4, <2>5, <2>6, <3>1, <3>2 DEF IInv, TypeOK
  <2>9. Counting'
    BY <1>0, <1>3, <2>1, <2>4 DEF IInv, Counting, Talking
  <2>10. Reading'
    <3>1. Overlaps(Zero, << >>)
      <4>1. Len(<< >>) = 0 /\ 1 .. 4 = {1, 2, 3, 4}
        OBVIOUS
      <4>2. Zero[1] = "0" /\ Zero[2] = "0" /\ Zero[3] = "0" /\ Zero[4] = "0"
        BY DEF Zero
      <4>3. \A j \in 1 .. 4 : Zero[j] = "0" /\ ~(0 + j - 4 >= 1)
        BY <4>1, <4>2
      <4> QED
        BY <4>1, <4>3 DEF Overlaps
    <3>2. Follows(<< >>, Zero, r, r, up)
      <4>1. Len(<< >>) = 0 /\ 1 .. 0 = {}
        OBVIOUS
      <4>2. \A i \in 1 .. Len(r) : 0 + i = i
        BY <2>5
      <4>3. 0 + Len(r) = Len(r) /\ 0 < Len(r)
        BY <2>5
      <4> QED
        BY <2>5, <3>1, <4>1, <4>2, <4>3 DEF Follows
    <3> QED
      BY <2>4, <2>6, <2>7, <3>2 DEF Reading
  <2>11. Spooled'
    <3>1. spool'[msg] # None
      BY <2>7, Sizes
    <3>2. \A i \in 1 .. (msg - 1) : i \in Slots /\ i # msg /\ spool[i] # None
      BY <1>0, <2>1, Sizes DEF IInv, Spooled, Talking, Slots
    <3> QED
      BY <2>4, <2>7, <3>1, <3>2 DEF Spooled, Talking
  <2>12. MarkedWhole'
    <3>1. \A i \in marked : i \in 1 .. nummsgs /\ i < msg /\ spool[i] = Wire(session[i])
      BY DEF IInv, MarkedWhole
    <3>2. \A i \in marked : i \in Slots /\ i # msg
      BY <2>1, <3>1, Sizes DEF Slots
    <3> QED
      BY <2>4, <2>7, <3>1, <3>2 DEF MarkedWhole
  <2>13. Disk' /\ IsInjective(box)'
    BY <1>1, <2>4 DEF IInv, Disk, IsInjective
  <2> QED
    BY <2>8, <2>9, <2>10, <2>11, <2>12, <2>13 DEF IInv
<1> QED
  BY <1>2, <1>3

\* The receive loop ends: the file is complete, or the connection is gone.
LEMMA AfterDataLeaves ==
  ASSUME IInv, pc = "data", AfterData,
         NEW c \in Seq(Bytes), spool' = [spool EXCEPT ![msg] = c],
         up => c = Wire(session[msg]), stream' = << >>,
         UNCHANGED <<up, session, marked, delete, next>>
  PROVE  /\ Counting' /\ Reading' /\ Spooled' /\ MarkedWhole'
         /\ msg' \in 0 .. (Cardinality(Mails) + 1) /\ nummsgs' = nummsgs
         /\ pc' \in {"dele", "send_quit", "retr"}
<1>1. /\ msg \in Slots /\ msg \in 1 .. Len(session) /\ msg \in 1 .. nummsgs
      /\ session[msg] \in Mails /\ Len(session) \in Nat /\ nummsgs \in Nat
      /\ nummsgs <= Len(session)
  BY Current
<1>2. /\ spool \in [Slots -> Seq(Bytes) \cup {None}]
      /\ next + Len(session) <= MaxNum + 1 /\ Len(session) <= Cardinality(Mails)
      /\ \A i \in 1 .. (msg - 1) : spool[i] # None
      /\ \A i \in marked : i \in 1 .. nummsgs /\ i < msg /\ spool[i] = Wire(session[i])
  BY DEF IInv, Disk, Counting, Spooled, MarkedWhole, Talking
<1>3. /\ spool'[msg] = c /\ c # None
      /\ \A i \in Slots : i # msg => spool'[i] = spool[i]
  BY <1>1, <1>2, Sizes
<1>4. \A i \in 1 .. (msg - 1) : spool'[i] # None
  <2>1. \A i \in 1 .. (msg - 1) : i \in Slots /\ i # msg
    BY <1>1, Sizes DEF Slots
  <2> QED
    BY <1>2, <1>3, <2>1
<1>5. \A i \in marked : i \in 1 .. nummsgs /\ i < msg /\ spool'[i] = Wire(session[i])
  <2>1. \A i \in marked : i \in Slots /\ i # msg
    BY <1>1, <1>2, Sizes DEF Slots
  <2> QED
    BY <1>2, <1>3, <2>1
<1>6. nummsgs' = nummsgs
  BY DEF AfterData
<1>7. CASE delete
  <2>1. pc' = "dele" /\ msg' = msg
    BY <1>7 DEF AfterData
  <2>2. Counting'
    BY <1>1, <1>2, <1>6, <2>1 DEF Counting, Talking
  <2>3. Reading' /\ Spooled'
    BY <1>3, <1>4, <2>1 DEF Reading, Spooled, Talking
  <2>4. MarkedWhole'
    BY <1>3, <1>5, <1>6, <2>1 DEF MarkedWhole
  <2> QED
    BY <1>1, <1>6, <2>1, <2>2, <2>3, <2>4, Sizes DEF Slots
<1>8. CASE ~delete
  <2>1. msg' = msg + 1 /\ pc' = IF msg + 1 > nummsgs THEN "send_quit" ELSE "retr"
    BY <1>6, <1>8 DEF AfterData, ForMsg
  <2>2. Counting'
    <3>1. pc' = "retr" => msg' \in 1 .. nummsgs'
      BY <1>1, <1>6, <2>1
    <3>2. pc' = "send_quit" => msg' = nummsgs' + 1
      BY <1>1, <1>6, <2>1
    <3> QED
      BY <1>1, <1>2, <1>6, <2>1, <3>1, <3>2 DEF Counting, Talking
  <2>3. Reading' /\ Spooled'
    <3>1. \A i \in 1 .. (msg' - 1) : i \in 1 .. (msg - 1) \/ i = msg
      BY <1>1, <2>1
    <3>2. \A i \in 1 .. (msg' - 1) : spool'[i] # None
      BY <1>3, <1>4, <3>1
    <3> QED
      BY <2>1, <3>2 DEF Reading, Spooled, Talking
  <2>4. MarkedWhole'
    <3>1. \A i \in marked : i < msg'
      BY <1>1, <1>5, <2>1
    <3> QED
      BY <1>5, <1>6, <2>1, <3>1 DEF MarkedWhole
  <2>5. msg' \in 0 .. (Cardinality(Mails) + 1)
    BY <1>1, <2>1, Sizes DEF Slots
  <2> QED
    BY <1>6, <2>1, <2>2, <2>3, <2>4, <2>5
<1> QED
  BY <1>7, <1>8 DEF IInv, TypeOK
\* The pieces of stream st that one pass takes and leaves
LEMMA Pieces ==
  ASSUME NEW st \in Seq(Bytes), NEW k \in 1 .. Len(st)
  PROVE  /\ SubSeq(st, 1, k) \in Seq(Bytes) /\ Len(SubSeq(st, 1, k)) = k
         /\ \A i \in 1 .. k : SubSeq(st, 1, k)[i] = st[i]
         /\ SubSeq(st, k + 1, Len(st)) \in Seq(Bytes)
         /\ Len(SubSeq(st, k + 1, Len(st))) = Len(st) - k
         /\ \A i \in 1 .. Len(st) - k : SubSeq(st, k + 1, Len(st))[i] = st[k + i]
<1>1. Len(st) \in Nat /\ k \in Nat /\ k <= Len(st) /\ k >= 1
  BY LenProperties
<1>2. \A i \in 1 .. Len(st) : st[i] \in Bytes
  BY ElementOfSeq
<1> DEFINE n == Len(st)
<1>3. /\ SubSeq(st, 1, k) \in Seq(Bytes)
      /\ Len(SubSeq(st, 1, k)) = IF 1 <= k THEN k - 1 + 1 ELSE 0
      /\ \A i \in 1 .. k - 1 + 1 : SubSeq(st, 1, k)[i] = st[1 + i - 1]
  <2>1. \A i \in 1 .. k : st[i] \in Bytes
    BY <1>1, <1>2
  <2> QED
    BY <1>1, <2>1, SubSeqProperties
<1>4. /\ SubSeq(st, k + 1, n) \in Seq(Bytes)
      /\ Len(SubSeq(st, k + 1, n)) = IF k + 1 <= n THEN n - (k + 1) + 1 ELSE 0
      /\ \A i \in 1 .. n - (k + 1) + 1 : SubSeq(st, k + 1, n)[i] = st[(k + 1) + i - 1]
  <2>1. \A i \in k + 1 .. n : st[i] \in Bytes
    BY <1>1, <1>2
  <2>2. k + 1 \in Int /\ n \in Int
    BY <1>1
  <2> DEFINE a == k + 1
  <2> HIDE DEF a, n
  <2>3. a \in Int /\ n \in Int /\ \A i \in a .. n : st[i] \in Bytes
    BY <2>1, <2>2 DEF a
  <2>4. /\ SubSeq(st, a, n) \in Seq(Bytes)
        /\ Len(SubSeq(st, a, n)) = IF a <= n THEN n - a + 1 ELSE 0
        /\ \A i \in 1 .. n - a + 1 : SubSeq(st, a, n)[i] = st[a + i - 1]
    BY <2>3, SubSeqProperties
  <2> QED
    BY <2>4 DEF a
<1>5. \A i \in 1 .. k : i \in 1 .. k - 1 + 1 /\ 1 + i - 1 = i
  BY <1>1
<1>6. \A i \in 1 .. n - k : i \in 1 .. n - (k + 1) + 1 /\ (k + 1) + i - 1 = k + i
  BY <1>1
<1> HIDE DEF n
<1>7. n \in Nat /\ k \in Nat /\ k <= n /\ k >= 1
  BY <1>1 DEF n
<1>8. Len(SubSeq(st, 1, k)) = k /\ Len(SubSeq(st, k + 1, n)) = n - k
  BY <1>3, <1>4, <1>7
<1>9. /\ \A i \in 1 .. k : SubSeq(st, 1, k)[i] = st[i]
      /\ \A i \in 1 .. n - k : SubSeq(st, k + 1, n)[i] = st[k + i]
  <2>1. \A i \in 1 .. k : SubSeq(st, 1, k)[i] = st[1 + i - 1] /\ st[1 + i - 1] = st[i]
    BY <1>3, <1>5
  <2>2. \A i \in 1 .. n - k : /\ SubSeq(st, k + 1, n)[i] = st[(k + 1) + i - 1]
                              /\ st[(k + 1) + i - 1] = st[k + i]
    BY <1>4, <1>6
  <2> QED
    BY <2>1, <2>2
<1> QED
  BY <1>3, <1>4, <1>8, <1>9 DEF n

\* Of stream st a pass takes s, which makes the file c, and leaves rest.
Pass(st, k, done, o, s, c, rest, o2) ==
  /\ s = SubSeq(st, 1, k) /\ rest = SubSeq(st, k + 1, Len(st))
  /\ c = done \o s /\ o2 = Last4(o \o s)

\* A pass carries the file forward along the reply.
LEMMA PassGoesOn ==
  ASSUME NEW r \in Seq(Bytes), NEW done \in Seq(Bytes), NEW st \in Seq(Bytes),
         NEW o \in Seq(Bytes \cup {"0"}), Len(o) = 4, NEW live,
         Follows(done, o, st, r, live), NEW k \in 1 .. Len(st),
         NEW s, NEW c, NEW rest, NEW o2, Pass(st, k, done, o, s, c, rest, o2)
  PROVE  /\ OnePass(r, done, o, s) /\ Len(s) = k
         /\ c \in Seq(Bytes) /\ rest \in Seq(Bytes)
         /\ o2 \in Seq(Bytes \cup {"0"}) /\ Len(o2) = 4
         /\ Len(c) = Len(done) + k
         /\ Len(c) < Len(r) \/ r = ErrReply => Follows(c, o2, rest, r, live)
         /\ \A i \in 1 .. Len(c) : c[i] = r[i]
<1> DEFINE d == Len(done)
           n == Len(st)
<1>0. d \in Nat /\ n \in Nat /\ k \in Nat /\ k <= n /\ k >= 1 /\ Len(r) \in Nat
  BY LenProperties
<1>1. /\ d + n <= Len(r) /\ Overlaps(o, done)
      /\ \A i \in 1 .. d : done[i] = r[i]
      /\ \A i \in 1 .. n : st[i] = r[d + i]
      /\ live => d + n = Len(r)
  BY DEF Follows
<1>2. /\ s \in Seq(Bytes) /\ Len(s) = k
      /\ \A i \in 1 .. k : s[i] = st[i]
      /\ rest \in Seq(Bytes) /\ Len(rest) = n - k
      /\ \A i \in 1 .. n - k : rest[i] = st[k + i]
  BY Pieces DEF Pass
<1>3. OnePass(r, done, o, s)
  <2>1. d + Len(s) <= Len(r)
    <3>1. d + k <= Len(r)
      BY <1>0, <1>1
    <3> QED
      BY <1>2, <3>1
  <2>2. \A i \in 1 .. Len(s) : s[i] = r[d + i]
    <3>1. \A i \in 1 .. k : i \in 1 .. n
      BY <1>0
    <3> HIDE DEF d, n
    <3> QED
      BY <1>1, <1>2, <3>1
  <2> QED
    BY <1>1, <1>2, <2>1, <2>2 DEF OnePass
<1>4. /\ c \in Seq(Bytes) /\ Len(c) = d + k
      /\ \A i \in 1 .. d + k : c[i] = IF i <= d THEN done[i] ELSE s[i - d]
  <2>1. \A p, q \in Seq(Bytes) :
          /\ p \o q \in Seq(Bytes) /\ Len(p \o q) = Len(p) + Len(q)
          /\ \A i \in 1 .. Len(p) + Len(q) :
               (p \o q)[i] = IF i <= Len(p) THEN p[i] ELSE q[i - Len(p)]
    BY ConcatProperties
  <2>2. /\ done \o s \in Seq(Bytes) /\ Len(done \o s) = Len(done) + Len(s)
        /\ \A i \in 1 .. Len(done) + Len(s) :
             (done \o s)[i] = IF i <= Len(done) THEN done[i] ELSE s[i - Len(done)]
    BY <1>2, <2>1
  <2> QED
    BY <1>2, <2>2 DEF Pass
<1>5. \A i \in 1 .. d + k : c[i] = r[i]
  <2> SUFFICES ASSUME NEW i \in 1 .. d + k PROVE c[i] = r[i]
    OBVIOUS
  <2>1. i \in Nat /\ i >= 1 /\ i <= d + k
    BY <1>0
  <2> HIDE DEF d, n
  <2>2. CASE i <= d
    <3>1. i \in 1 .. d
      BY <2>1, <2>2
    <3> QED
      BY <1>1, <1>4, <2>2, <3>1
  <2>3. CASE i > d
    <3>1. i - d \in 1 .. k /\ i - d \in 1 .. n /\ d + (i - d) = i /\ ~(i <= d)
      BY <1>0, <2>1, <2>3
    <3>2. c[i] = s[i - d]
      BY <1>4, <3>1
    <3>3. s[i - d] = st[i - d] /\ st[i - d] = r[d + (i - d)]
      BY <1>1, <1>2, <3>1
    <3> QED
      BY <3>1, <3>2, <3>3
  <2>4. i <= d \/ i > d
    BY <1>0, <2>1
  <2> QED
    BY <2>2, <2>3, <2>4
<1>6. \A i \in 1 .. n - k : rest[i] = r[(d + k) + i]
  <2>1. \A i \in 1 .. n - k : k + i \in 1 .. n /\ d + (k + i) = (d + k) + i
    BY <1>0
  <2> HIDE DEF d, n
  <2>2. \A i \in 1 .. n - k : rest[i] = st[k + i] /\ st[k + i] = r[d + (k + i)]
    BY <1>1, <1>2, <2>1
  <2> QED
    BY <2>1, <2>2
<1> DEFINE B == Bytes \cup {"0"}
           seen == o \o s
<1>7. /\ seen \in Seq(B) /\ Len(seen) = 4 + k
      /\ \A j \in 1 .. 4 + k : seen[j] = IF d + j - 4 >= 1 THEN r[d + j - 4] ELSE "0"
  <2> HIDE DEF d, n, B, seen
  <2>1. /\ o \o s \in Seq(Bytes \cup {"0"}) /\ Len(o \o s) = 4 + Len(s)
        /\ \A j \in 1 .. 4 + Len(s) :
             (o \o s)[j] = IF Len(done) + j - 4 >= 1 THEN r[Len(done) + j - 4] ELSE "0"
    BY <1>3, Seen
  <2> QED
    BY <1>2, <2>1 DEF d, B, seen
<1>8. /\ o2 \in Seq(B) /\ Len(o2) = 4
      /\ \A j \in 1 .. 4 : o2[j] = seen[k + j]
  <2> HIDE DEF d, n, B, seen
  <2>1. o2 = SubSeq(seen, Len(seen) - 3, Len(seen))
    BY DEF Last4, Pass, seen
  <2>2. Len(seen) - 3 = k + 1 /\ Len(seen) = k + 4
    BY <1>0, <1>7
  <2> DEFINE a == k + 1
             b == k + 4
  <2>3. o2 = SubSeq(seen, a, b)
    BY <2>1, <2>2
  <2>4. a \in Int /\ b \in Int /\ a <= b /\ b - a + 1 = 4
    BY <1>0
  <2>5. \A i \in a .. b : seen[i] \in B
    <3>1. \A i \in a .. b : i \in 1 .. Len(seen)
      BY <1>0, <2>2
    <3> QED
      BY <1>7, <3>1, ElementOfSeq
  <2>6. \A j \in 1 .. 4 : a + j - 1 = k + j
    BY <1>0
  <2> HIDE DEF a, b
  <2>7. /\ SubSeq(seen, a, b) \in Seq(B)
        /\ Len(SubSeq(seen, a, b)) = IF a <= b THEN b - a + 1 ELSE 0
        /\ \A i \in 1 .. b - a + 1 : SubSeq(seen, a, b)[i] = seen[a + i - 1]
    BY <2>4, <2>5, SubSeqProperties
  <2>8. \A j \in 1 .. 4 : o2[j] = seen[a + j - 1]
    BY <2>3, <2>4, <2>7
  <2>9. o2 \in Seq(B) /\ Len(o2) = 4
    BY <2>3, <2>4, <2>7
  <2> QED
    BY <2>6, <2>8, <2>9
<1>9. Overlaps(o2, c)
  <2> SUFFICES ASSUME NEW j \in 1 .. 4
               PROVE  o2[j] = IF (d + k) + j - 4 >= 1 THEN c[(d + k) + j - 4] ELSE "0"
    BY <1>4 DEF Overlaps
  <2>0. j \in Int /\ j >= 1 /\ j <= 4
    OBVIOUS
  <2> HIDE DEF d, n, B, seen
  <2>1. k + j \in 1 .. 4 + k /\ d + (k + j) - 4 = (d + k) + j - 4
    BY <1>0, <2>0
  <2>2. o2[j] = IF d + (k + j) - 4 >= 1 THEN r[d + (k + j) - 4] ELSE "0"
    BY <1>7, <1>8, <2>1
  <2>3. (d + k) + j - 4 >= 1 => (d + k) + j - 4 \in 1 .. d + k
    BY <1>0, <2>0
  <2>4. (d + k) + j - 4 >= 1 => c[(d + k) + j - 4] = r[(d + k) + j - 4]
    BY <1>5, <2>3
  <2> QED
    BY <2>1, <2>2, <2>4
<1>10. ASSUME Len(c) < Len(r) \/ r = ErrReply
       PROVE  Follows(c, o2, rest, r, live)
  <2> HIDE DEF d, n, B, seen
  <2>0. Len(c) + Len(rest) = d + n
    BY <1>0, <1>2, <1>4
  <2>1. Len(c) + Len(rest) <= Len(r) /\ (live => Len(c) + Len(rest) = Len(r))
    BY <1>1, <2>0
  <2>2. \A i \in 1 .. Len(c) : c[i] = r[i]
    BY <1>4, <1>5
  <2>3. \A i \in 1 .. Len(rest) : rest[i] = r[Len(c) + i]
    BY <1>2, <1>4, <1>6
  <2> QED
    BY <1>9, <1>10, <2>1, <2>2, <2>3 DEF Follows
<1> QED
  BY <1>2, <1>3, <1>4, <1>5, <1>8, <1>10

LEMMA ReceiveKeeps ==
  ASSUME IInv, Receive
  PROVE  /\ IInv'
         /\ \E c \in Seq(Bytes), r \in {Wire(session[msg]), ErrReply} :
              spool' = [spool EXCEPT ![msg] = c] /\ Beginning(c, r)
<1>1. PICK k \in 1 .. (IF Len(stream) < BufSize THEN Len(stream) ELSE BufSize) :
        LET s == SubSeq(stream, 1, k) IN
        /\ spool' = [spool EXCEPT ![msg] = @ \o s]
        /\ stream' = SubSeq(stream, k + 1, Len(stream))
        /\ overlap' = Last4(overlap \o s)
        /\ IF SawEnd(overlap, s) THEN AfterData ELSE UNCHANGED <<pc, msg, nummsgs>>
  BY DEF Receive
<1>2. /\ pc = "data"
      /\ UNCHANGED <<box, arrived, up, session, marked, quit, leaving, delete,
                     nextemail, files, db, next>>
  BY DEF Receive, server, inbox
<1>3. /\ stream \in Seq(Bytes) /\ overlap \in Seq(Bytes \cup {"0"}) /\ Len(overlap) = 4
      /\ spool \in [Slots -> Seq(Bytes) \cup {None}]
  BY DEF IInv, TypeOK, Disk
<1>4. k \in 1 .. Len(stream)
  <2>1. Len(stream) \in Nat /\ BufSize \in Nat
    BY <1>3, LenProperties, PopAssumption
  <2> QED
    BY <2>1
<1>5. /\ msg \in Slots /\ msg \in 1 .. Len(session) /\ msg \in 1 .. nummsgs
      /\ session[msg] \in Mails /\ Len(session) \in Nat /\ nummsgs \in Nat
      /\ nummsgs <= Len(session)
  BY <1>2, Current
<1> DEFINE done == spool[msg]
           x == session[msg]
           s == SubSeq(stream, 1, k)
           c == done \o s
           rest == SubSeq(stream, k + 1, Len(stream))
           o2 == Last4(overlap \o s)
<1>6. done \in Seq(Bytes)
  BY <1>2, <1>3, <1>5 DEF IInv, Spooled
<1>7. PICK r \in {Wire(x), ErrReply} : Follows(done, overlap, stream, r, up)
  BY <1>2 DEF IInv, Reading
<1>8. r \in Seq(Bytes) /\ x \in Mails
  BY <1>5, <1>7, RepliesAre
<1>9. Pass(stream, k, done, overlap, s, c, rest, o2)
  BY DEF Pass
<1>10. /\ spool' = [spool EXCEPT ![msg] = c] /\ stream' = rest /\ overlap' = o2
       /\ IF SawEnd(overlap, s) THEN AfterData ELSE UNCHANGED <<pc, msg, nummsgs>>
  BY <1>1, <1>3, <1>5
<1>11. \A i \in marked : i \in 1 .. nummsgs /\ i < msg /\ spool[i] = Wire(session[i])
  BY DEF IInv, MarkedWhole
<1> HIDE DEF done, x, s, c, rest, o2
<1>12. /\ OnePass(r, done, overlap, s) /\ Len(s) = k
       /\ c \in Seq(Bytes) /\ rest \in Seq(Bytes)
       /\ o2 \in Seq(Bytes \cup {"0"}) /\ Len(o2) = 4
       /\ Len(c) = Len(done) + k
       /\ Len(c) < Len(r) \/ r = ErrReply => Follows(c, o2, rest, r, up)
       /\ \A i \in 1 .. Len(c) : c[i] = r[i]
  BY <1>3, <1>4, <1>6, <1>7, <1>8, <1>9, PassGoesOn
<1>13. spool' \in [Slots -> Seq(Bytes) \cup {None}] /\ spool'[msg] = c
  BY <1>3, <1>5, <1>10, <1>12
<1>14. Len(done) \in Nat /\ Len(stream) \in Nat /\ Len(r) \in Nat /\ k \in Nat
  BY <1>3, <1>4, <1>6, <1>8, LenProperties
<1>15. /\ Counting' /\ Reading' /\ Spooled' /\ MarkedWhole'
       /\ msg' \in 0 .. (Cardinality(Mails) + 1) /\ nummsgs' = nummsgs
       /\ pc' \in {"data", "dele", "send_quit", "retr"}
  <2>1. CASE SawEnd(overlap, s)
    <3>1. AfterData
      BY <1>10, <2>1
    <3>2. r # ErrReply
      BY <1>12, <2>1, NoEndOfRefusal
    <3>3. r = Wire(x) /\ Len(done) < Len(r)
      BY <1>7, <3>2 DEF Follows
    <3>4. Len(done) + k = Len(r)
      BY <1>8, <1>12, <2>1, <3>3, StopsAtEnd
    <3>5. c = Wire(x)
      <4>1. Len(c) = Len(r)
        BY <1>12, <3>4
      <4> QED
        BY <1>8, <1>12, <3>3, <4>1, SeqEqual
    <3>6. rest = << >>
      <4>1. Len(done) + Len(stream) <= Len(r)
        BY <1>7 DEF Follows
      <4>2. k = Len(stream)
        BY <1>4, <1>14, <3>4, <4>1
      <4>3. k + 1 \in Int /\ k \in Int /\ k < k + 1
        BY <1>14
      <4>4. SubSeq(stream, k + 1, k) = << >>
        BY <4>3, SubSeqEmpty
      <4> QED
        BY <4>2, <4>4 DEF rest
    <3>7. up => c = Wire(session[msg])
      BY <3>5 DEF x
    <3>8. UNCHANGED <<up, session, marked, delete, next>> /\ stream' = << >>
      BY <1>2, <1>10, <3>6
    <3> QED
      BY <1>2, <1>10, <1>12, <3>1, <3>7, <3>8, AfterDataLeaves
  <2>2. CASE ~SawEnd(overlap, s)
    <3>1. UNCHANGED <<pc, msg, nummsgs>>
      BY <1>10, <2>2
    <3>2. Follows(c, o2, rest, r, up)
      <4>1. CASE r = ErrReply
        BY <1>12, <4>1
      <4>2. CASE r # ErrReply
        <5>1. r = Wire(x) /\ Len(done) < Len(r)
          BY <1>7, <4>2 DEF Follows
        <5>2. Len(done) + k # Len(r)
          BY <1>8, <1>12, <2>2, <5>1, StopsAtEnd
        <5>3. Len(done) + k <= Len(r)
          BY <1>12 DEF OnePass
        <5> QED
          BY <1>12, <1>14, <5>2, <5>3
      <4> QED
        BY <4>1, <4>2
    <3>3. Reading'
      BY <1>2, <1>7, <1>10, <1>13, <3>1, <3>2 DEF Reading, x
    <3>4. Counting'
      BY <1>2, <3>1 DEF IInv, Counting, Talking
    <3>5. \A i \in 1 .. (msg - 1) : i \in Slots /\ i # msg /\ spool[i] # None
      BY <1>2, <1>5, Sizes DEF IInv, Spooled, Talking, Slots
    <3>6. \A i \in Slots : i # msg => spool'[i] = spool[i]
      BY <1>3, <1>10
    <3>7. Spooled'
      <4>1. c # None
        BY <1>12, Sizes
      <4>2. \A i \in 1 .. (msg - 1) : spool'[i] # None
        BY <3>5, <3>6
      <4> QED
        BY <1>2, <1>13, <3>1, <4>1, <4>2 DEF Spooled, Talking
    <3>8. MarkedWhole'
      <4>1. \A i \in marked : i \in Slots /\ i # msg
        BY <1>5, <1>11, Sizes DEF Slots
      <4> QED
        BY <1>2, <1>11, <3>1, <3>6, <4>1 DEF MarkedWhole
    <3>9. msg \in 0 .. (Cardinality(Mails) + 1)
      BY DEF IInv, TypeOK
    <3> QED
      BY <1>2, <3>1, <3>3, <3>4, <3>7, <3>8, <3>9
  <2> QED
    BY <2>1, <2>2
<1>16. TypeOK'
  <2>1. \A i \in Slots : spool'[i] = None \/ spool'[i] \in Seq(Bytes)
    BY <1>13
  <2> QED
    BY <1>2, <1>10, <1>12, <1>15, <2>1 DEF IInv, TypeOK
<1>17. Disk' /\ IsInjective(box)'
  BY <1>2, <1>13 DEF IInv, Disk, IsInjective
<1>18. Beginning(c, r)
  BY <1>12 DEF OnePass, Beginning
<1> QED
  BY <1>7, <1>10, <1>12, <1>15, <1>16, <1>17, <1>18 DEF IInv, x
LEMMA ReceiveFullKeeps == ASSUME IInv, ReceiveFull PROVE IInv'
<1>1. ErrorExit /\ spool' \in [Slots -> Seq(Bytes) \cup {None}]
  BY DEF ReceiveFull, IInv, Disk
<1> QED
  BY <1>1, ErrorExitLeaves

LEMMA DataClosedKeeps == ASSUME IInv, DataClosed PROVE IInv'
<1>1. /\ pc = "data" /\ stream = << >> /\ ~up /\ AfterData
      /\ UNCHANGED <<box, arrived, up, session, marked, quit, leaving, stream, delete,
                     overlap, nextemail, spool, files, db, next>>
  BY DEF DataClosed, server, net, inbox
<1>2. msg \in Slots /\ spool \in [Slots -> Seq(Bytes) \cup {None}]
  BY <1>1, Current DEF IInv, Disk
<1> DEFINE c == spool[msg]
<1>3. c \in Seq(Bytes)
  BY <1>1, <1>2 DEF IInv, Spooled
<1>4. spool' = [spool EXCEPT ![msg] = c]
  BY <1>1, <1>2
<1> HIDE DEF c
<1>5. UNCHANGED <<up, session, marked, delete, next>> /\ stream' = << >>
      /\ (up => c = Wire(session[msg]))
  BY <1>1
<1>6. /\ Counting' /\ Reading' /\ Spooled' /\ MarkedWhole'
      /\ msg' \in 0 .. (Cardinality(Mails) + 1) /\ nummsgs' = nummsgs
      /\ pc' \in {"dele", "send_quit", "retr"}
  BY <1>1, <1>3, <1>4, <1>5, AfterDataLeaves
<1>7. TypeOK'
  BY <1>1, <1>6 DEF IInv, TypeOK
<1>8. Disk' /\ IsInjective(box)'
  BY <1>1 DEF IInv, Disk, IsInjective
<1> QED
  BY <1>6, <1>7, <1>8 DEF IInv

LEMMA DeleKeeps == ASSUME IInv, Dele PROVE IInv'
<1>0. pc = "dele" /\ spool' = spool /\ spool \in [Slots -> Seq(Bytes) \cup {None}]
  BY DEF Dele, IInv, Disk
<1>1. CASE ~(up /\ stream = << >>)
  BY <1>0, <1>1, ErrorExitLeaves DEF Dele
<1>2. CASE up /\ stream = << >>
  <2>1. /\ marked' = marked \cup {msg} /\ msg' = msg + 1 /\ nummsgs' = nummsgs
        /\ pc' = IF msg + 1 > nummsgs THEN "send_quit" ELSE "retr"
        /\ UNCHANGED <<box, arrived, up, session, quit, leaving, stream,
                       delete, overlap, nextemail, files, db, next>>
    BY <1>2 DEF Dele, ForMsg, server, inbox
  <2>2. /\ msg \in Slots /\ msg \in 1 .. Len(session) /\ msg \in 1 .. nummsgs
        /\ session[msg] \in Mails /\ Len(session) \in Nat /\ nummsgs \in Nat
        /\ nummsgs <= Len(session)
    BY <1>0, Current
  <2>3. /\ next + Len(session) <= MaxNum + 1 /\ Len(session) <= Cardinality(Mails)
        /\ \A i \in 1 .. (msg - 1) : spool[i] # None
        /\ \A i \in marked : i \in 1 .. nummsgs /\ i < msg /\ spool[i] = Wire(session[i])
        /\ spool[msg] # None /\ spool[msg] = Wire(session[msg])
    BY <1>0, <1>2 DEF IInv, Counting, Spooled, MarkedWhole, Talking
  <2>4. pc' \in {"send_quit", "retr"}
    BY <2>1
  <2>5. TypeOK'
    <3>1. marked' \subseteq DOMAIN session'
      <4>1. DOMAIN session = 1 .. Len(session)
        BY LenProperties DEF IInv, TypeOK
      <4> QED
        BY <2>1, <2>2, <4>1 DEF IInv, TypeOK
    <3>2. msg' \in 0 .. (Cardinality(Mails) + 1)
      BY <2>1, <2>2, Sizes DEF Slots
    <3> QED
      BY <1>0, <2>1, <2>4, <3>1, <3>2 DEF IInv, TypeOK
  <2>6. Counting'
    <3>1. pc' = "retr" => msg' \in 1 .. nummsgs'
      BY <2>1, <2>2
    <3>2. pc' = "send_quit" => msg' = nummsgs' + 1
      BY <2>1, <2>2
    <3> QED
      BY <1>2, <2>1, <2>2, <2>3, <2>4, <3>1, <3>2 DEF Counting, Talking
  <2>7. Reading' /\ Spooled'
    <3>1. \A i \in 1 .. (msg' - 1) : i \in 1 .. (msg - 1) \/ i = msg
      BY <2>1, <2>2
    <3>2. \A i \in 1 .. (msg' - 1) : spool'[i] # None
      BY <1>0, <2>3, <3>1
    <3> QED
      BY <2>4, <3>2 DEF Reading, Spooled, Talking
  <2>8. MarkedWhole'
    <3>1. \A i \in marked' : i \in 1 .. nummsgs /\ i < msg'
      BY <2>1, <2>2, <2>3
    <3>2. \A i \in marked' : spool'[i] = Wire(session[i])
      BY <1>0, <2>1, <2>3
    <3> QED
      BY <2>1, <2>4, <3>1, <3>2 DEF MarkedWhole
  <2>9. Disk' /\ IsInjective(box)'
    BY <1>0, <2>1 DEF IInv, Disk, IsInjective
  <2> QED
    BY <2>5, <2>6, <2>7, <2>8, <2>9 DEF IInv
<1> QED
  BY <1>1, <1>2

LEMMA SendQuitKeeps == ASSUME IInv, SendQuit PROVE IInv'
<1>0. /\ pc = "send_quit" /\ pc' = "quit" /\ msg' = 1 /\ session' = << >> /\ marked' = {}
      /\ UNCHANGED <<box, arrived, up, stream, delete, nummsgs, overlap, nextemail,
                     spool, files, db, next>>
  BY DEF SendQuit, server, inbox
<1>1. /\ Len(session) \in Nat /\ nummsgs \in Nat /\ session \in Seq(Mails)
      /\ next \in 1 .. (MaxNum + 1) /\ marked \subseteq DOMAIN session
  BY Sizes, LenProperties DEF IInv, TypeOK
<1>2. /\ nummsgs <= Len(session) /\ next + Len(session) <= MaxNum + 1
      /\ msg = nummsgs + 1 /\ \A i \in 1 .. (msg - 1) : spool[i] # None
  BY <1>0 DEF IInv, Counting, Spooled, Talking
<1>3. TypeOK'
  <2>1. leaving' \subseteq Mails
    <3>1. \A i \in marked : session[i] \in Mails
      BY <1>1, LenProperties, ElementOfSeq
    <3> QED
      BY <3>1 DEF SendQuit
  <2>2. quit' \in {"none", "sent", "done"}
    BY DEF SendQuit, IInv, TypeOK
  <2>3. msg' \in 0 .. (Cardinality(Mails) + 1)
    BY <1>0, Sizes
  <2>4. << >> \in Seq(Mails) /\ {} \subseteq DOMAIN << >>
    OBVIOUS
  <2> QED
    BY <1>0, <2>1, <2>2, <2>3, <2>4 DEF IInv, TypeOK
<1>4. Counting'
  <2>1. next + nummsgs <= MaxNum + 1
    BY <1>1, <1>2, Sizes
  <2>2. Len(<< >>) = 0 /\ 0 <= Cardinality(Mails)
    BY Sizes
  <2> QED
    BY <1>0, <2>1, <2>2 DEF Counting, Talking
<1>5. Spooled'
  <2>1. \A i \in 1 .. nummsgs : spool[i] # None
    BY <1>1, <1>2
  <2> QED
    BY <1>0, <2>1 DEF Spooled, Talking
<1>6. Reading' /\ MarkedWhole'
  BY <1>0 DEF Reading, MarkedWhole
<1>7. Disk' /\ IsInjective(box)'
  BY <1>0 DEF IInv, Disk, IsInjective
<1> QED
  BY <1>3, <1>4, <1>5, <1>6, <1>7 DEF IInv

LEMMA DisconnectKeeps == ASSUME IInv, Disconnect PROVE IInv'
<1>0. /\ pc = "quit" /\ pc' = "import" /\ nextemail' = next /\ up' = FALSE /\ stream' = << >>
      /\ UNCHANGED <<box, arrived, session, marked, quit, leaving, delete, msg, nummsgs,
                     overlap, spool, files, db, next>>
  BY DEF Disconnect, server, inbox
<1>1. nummsgs \in Nat /\ next \in 1 .. (MaxNum + 1)
  BY Sizes DEF IInv, TypeOK
<1>2. msg = 1 /\ next + nummsgs <= MaxNum + 1 /\ session = << >> /\ marked = {}
  BY <1>0 DEF IInv, Counting, Talking
<1>3. TypeOK'
  <2>1. nextemail' \in 0 .. (MaxNum + 1)
    BY <1>0, <1>1, Sizes
  <2>2. << >> \in Seq(Bytes)
    OBVIOUS
  <2> QED
    BY <1>0, <2>1, <2>2 DEF IInv, TypeOK
<1>4. Counting'
  <2>1. msg \in 1 .. (nummsgs + 1) /\ next = next + msg - 1
    BY <1>1, <1>2, Sizes
  <2>2. Len(session) <= Cardinality(Mails)
    BY DEF IInv, Counting
  <2> QED
    BY <1>0, <1>2, <2>1, <2>2 DEF Counting, Talking
<1>5. Spooled'
  BY <1>0 DEF IInv, Spooled, Talking
<1>6. Reading' /\ MarkedWhole'
  BY <1>0, <1>2 DEF Reading, MarkedWhole
<1>7. Disk' /\ IsInjective(box)'
  BY <1>0 DEF IInv, Disk, IsInjective
<1> QED
  BY <1>3, <1>4, <1>5, <1>6, <1>7 DEF IInv

-----------------------------------------------------------------------------
(* update_inbox                                                            *)

\* While it imports, update_inbox stays within the numbers it has room for.
LEMMA WithinRoom ==
  ASSUME IInv, pc \in {"import", "record", "unlink"}
  PROVE  /\ msg \in Nat /\ nummsgs \in Nat /\ next \in Nat /\ next >= 1 /\ msg >= 1
         /\ nextemail \in Nat /\ next + nummsgs <= MaxNum + 1
         /\ nummsgs <= Cardinality(Mails)
         /\ session = << >> /\ marked = {} /\ stream = << >>
<1>1. /\ msg \in Nat /\ nummsgs \in Nat /\ next \in Nat /\ next >= 1
      /\ nextemail \in Nat /\ nummsgs <= Cardinality(Mails)
  BY Sizes DEF IInv, TypeOK
<1>2. /\ next + nummsgs <= MaxNum + 1 /\ session = << >> /\ marked = {} /\ stream = << >>
      /\ (msg \in 1 .. (nummsgs + 1) \/ msg \in 1 .. nummsgs)
  BY DEF IInv, Counting, Talking
<1>3. msg >= 1
  BY <1>1, <1>2
<1> QED
  BY <1>1, <1>2, <1>3

\* One copy, of whatever the file now holds
LEMMA CopyKeeps ==
  ASSUME IInv, Importing, NEW c \in Seq(Bytes),
         files' = [files EXCEPT ![nextemail] = c],
         nextemail' = nextemail + 1, pc' = "record",
         UNCHANGED <<server, net, delete, msg, nummsgs, overlap, spool, db, next>>
  PROVE  IInv'
<1>0. /\ pc = "import" /\ msg <= nummsgs
      /\ UNCHANGED <<box, arrived, up, session, marked, quit, leaving, stream,
                     delete, msg, nummsgs, overlap, spool, db, next>>
  BY DEF Importing, server, net
<1>1. /\ msg \in Nat /\ nummsgs \in Nat /\ next \in Nat /\ next >= 1 /\ msg >= 1
      /\ nextemail \in Nat /\ next + nummsgs <= MaxNum + 1
      /\ nummsgs <= Cardinality(Mails)
      /\ session = << >> /\ marked = {} /\ stream = << >>
  BY <1>0, WithinRoom
<1>2. nextemail = next + msg - 1
  BY <1>0 DEF IInv, Counting
<1>3. files' \in [1 .. MaxNum -> Seq(Bytes) \cup {None}]
  BY DEF IInv, Disk
<1>4. TypeOK'
  <2>1. nextemail' \in 0 .. (MaxNum + 1)
    BY <1>0, <1>1, <1>2, Sizes
  <2>2. \A n \in 1 .. MaxNum : files'[n] = None \/ files'[n] \in Seq(Bytes)
    BY <1>3
  <2> QED
    BY <1>0, <2>1, <2>2 DEF IInv, TypeOK
<1>5. Counting'
  <2>1. msg \in 1 .. nummsgs /\ nextemail + 1 = next + msg
    BY <1>0, <1>1, <1>2
  <2>2. Len(session) <= Cardinality(Mails)
    BY DEF IInv, Counting
  <2> QED
    BY <1>0, <1>1, <2>1, <2>2 DEF Counting, Talking
<1>6. Spooled'
  BY <1>0 DEF IInv, Spooled, Talking
<1>7. Reading' /\ MarkedWhole'
  BY <1>0, <1>1 DEF Reading, MarkedWhole
<1>8. Disk' /\ IsInjective(box)'
  BY <1>0, <1>3 DEF IInv, Disk, IsInjective
<1> QED
  BY <1>4, <1>5, <1>6, <1>7, <1>8 DEF IInv

LEMMA ImportCopyKeeps == ASSUME IInv, ImportCopy PROVE IInv'
<1>1. /\ msg \in Nat /\ nummsgs \in Nat /\ msg >= 1 /\ nummsgs <= Cardinality(Mails)
  BY WithinRoom DEF ImportCopy, Importing
<1>2. pc = "import" /\ msg <= nummsgs
  BY DEF ImportCopy, Importing
<1>3. msg \in Slots /\ msg \in msg .. nummsgs
  BY <1>1, <1>2, Sizes DEF Slots
<1>4. spool[msg] \in Seq(Bytes)
  BY <1>2, <1>3 DEF IInv, Disk, Spooled
<1> DEFINE c == Text(spool[msg])
<1>5. c \in Seq(Bytes)
  BY <1>4, TextIs
<1>6. /\ Importing /\ files' = [files EXCEPT ![nextemail] = c]
      /\ nextemail' = nextemail + 1 /\ pc' = "record"
      /\ UNCHANGED <<server, net, delete, msg, nummsgs, overlap, spool, db, next>>
  BY DEF ImportCopy
<1> HIDE DEF c
<1> QED
  BY <1>5, <1>6, CopyKeeps

LEMMA ImportCopyFullKeeps == ASSUME IInv, ImportCopyFull PROVE IInv'
<1> DEFINE c == << >>
<1>1. c \in Seq(Bytes)
  OBVIOUS
<1>2. /\ Importing /\ files' = [files EXCEPT ![nextemail] = c]
      /\ nextemail' = nextemail + 1 /\ pc' = "record"
      /\ UNCHANGED <<server, net, delete, msg, nummsgs, overlap, spool, db, next>>
  BY DEF ImportCopyFull
<1> HIDE DEF c
<1> QED
  BY <1>1, <1>2, CopyKeeps

LEMMA ImportRecordKeeps == ASSUME IInv, ImportRecord PROVE IInv'
<1>0. /\ pc = "record" /\ pc' = "unlink"
      /\ db' = Append(db, nextemail - 1) \/ db' = db
      /\ UNCHANGED <<box, arrived, up, session, marked, quit, leaving, stream,
                     delete, msg, nummsgs, overlap, nextemail, spool, files, next>>
  BY DEF ImportRecord, server, net
<1>1. /\ msg \in Nat /\ nummsgs \in Nat /\ next \in Nat /\ next >= 1 /\ msg >= 1
      /\ nextemail \in Nat /\ next + nummsgs <= MaxNum + 1
      /\ nummsgs <= Cardinality(Mails)
      /\ session = << >> /\ marked = {} /\ stream = << >>
  BY <1>0, WithinRoom
<1>2. nextemail = next + msg /\ msg \in 1 .. nummsgs
  BY <1>0 DEF IInv, Counting
<1>3. TypeOK'
  <2>1. nextemail - 1 \in 1 .. MaxNum
    BY <1>1, <1>2, Sizes
  <2>2. db' \in Seq(1 .. MaxNum)
    <3>1. db \in Seq(1 .. MaxNum)
      BY DEF IInv, TypeOK
    <3>2. \A n \in 1 .. MaxNum : Append(db, n) \in Seq(1 .. MaxNum)
      BY <3>1, AppendProperties
    <3> QED
      BY <1>0, <2>1, <3>1, <3>2
  <2> QED
    BY <1>0, <2>2 DEF IInv, TypeOK
<1>4. Counting'
  <2>1. Len(session) <= Cardinality(Mails)
    BY DEF IInv, Counting
  <2> QED
    BY <1>0, <1>1, <1>2, <2>1 DEF Counting, Talking
<1>5. Spooled'
  <2>1. \A i \in (msg + 1) .. nummsgs : i \in msg .. nummsgs
    BY <1>1
  <2>2. \A i \in msg .. nummsgs : spool[i] # None
    BY <1>0 DEF IInv, Spooled
  <2> QED
    BY <1>0, <2>1, <2>2 DEF Spooled, Talking
<1>6. Reading' /\ MarkedWhole'
  BY <1>0, <1>1 DEF Reading, MarkedWhole
<1>7. Disk' /\ IsInjective(box)'
  BY <1>0 DEF IInv, Disk, IsInjective
<1> QED
  BY <1>3, <1>4, <1>5, <1>6, <1>7 DEF IInv

LEMMA ImportUnlinkKeeps == ASSUME IInv, ImportUnlink PROVE IInv'
<1>0. /\ pc = "unlink" /\ pc' = "import" /\ spool' = [spool EXCEPT ![msg] = None]
      /\ msg' = msg + 1
      /\ UNCHANGED <<box, arrived, up, session, marked, quit, leaving, stream,
                     delete, nummsgs, overlap, nextemail, files, db, next>>
  BY DEF ImportUnlink, server, net, inbox
<1>1. /\ msg \in Nat /\ nummsgs \in Nat /\ next \in Nat /\ next >= 1 /\ msg >= 1
      /\ nextemail \in Nat /\ next + nummsgs <= MaxNum + 1
      /\ nummsgs <= Cardinality(Mails)
      /\ session = << >> /\ marked = {} /\ stream = << >>
  BY <1>0, WithinRoom
<1>2. nextemail = next + msg /\ msg \in 1 .. nummsgs
  BY <1>0 DEF IInv, Counting
<1>3. spool \in [Slots -> Seq(Bytes) \cup {None}]
  BY DEF IInv, Disk
<1>4. spool' \in [Slots -> Seq(Bytes) \cup {None}]
      /\ \A i \in Slots : i # msg => spool'[i] = spool[i]
  BY <1>0, <1>3
<1>5. TypeOK'
  <2>1. msg' \in 0 .. (Cardinality(Mails) + 1)
    BY <1>0, <1>1, <1>2, Sizes
  <2>2. \A i \in Slots : spool'[i] = None \/ spool'[i] \in Seq(Bytes)
    BY <1>4
  <2> QED
    BY <1>0, <2>1, <2>2 DEF IInv, TypeOK
<1>6. Counting'
  <2>1. msg + 1 \in 1 .. (nummsgs + 1) /\ nextemail = next + (msg + 1) - 1
    BY <1>1, <1>2
  <2>2. Len(session) <= Cardinality(Mails)
    BY DEF IInv, Counting
  <2> QED
    BY <1>0, <1>1, <2>1, <2>2 DEF Counting, Talking
<1>7. Spooled'
  <2>1. \A i \in (msg + 1) .. nummsgs : i \in Slots /\ i # msg
    BY <1>1, Sizes DEF Slots
  <2>2. \A i \in (msg + 1) .. nummsgs : spool[i] # None
    BY <1>0 DEF IInv, Spooled
  <2>3. \A i \in (msg + 1) .. nummsgs : spool'[i] # None
    BY <1>4, <2>1, <2>2
  <2> QED
    BY <1>0, <2>3 DEF Spooled, Talking
<1>8. Reading' /\ MarkedWhole'
  BY <1>0, <1>1 DEF Reading, MarkedWhole
<1>9. Disk' /\ IsInjective(box)'
  BY <1>0, <1>4 DEF IInv, Disk, IsInjective
<1> QED
  BY <1>5, <1>6, <1>7, <1>8, <1>9 DEF IInv

LEMMA ImportDoneKeeps == ASSUME IInv, ImportDone PROVE IInv'
<1>1. /\ pc = "import" /\ Off /\ next' = nextemail
      /\ UNCHANGED <<box, arrived, quit, leaving, files, db, spool>>
  BY DEF ImportDone, server
<1>2. /\ msg \in Nat /\ nummsgs \in Nat /\ next \in Nat /\ next >= 1 /\ msg >= 1
      /\ nextemail \in Nat /\ next + nummsgs <= MaxNum + 1
  BY <1>1, WithinRoom
<1>3. nextemail = next + msg - 1 /\ msg \in 1 .. (nummsgs + 1)
  BY <1>1 DEF IInv, Counting
<1>4. next' \in 1 .. (MaxNum + 1)
  BY <1>1, <1>2, <1>3, Sizes
<1>5. spool' \in [Slots -> Seq(Bytes) \cup {None}]
  BY <1>1 DEF IInv, Disk
<1>6. UNCHANGED <<box, arrived, quit, leaving, files, db>>
  BY <1>1
<1> QED
  BY <1>1, <1>4, <1>5, <1>6, OffLeaves

LEMMA CrashKeeps == ASSUME IInv, Crash PROVE IInv'
<1>1. ErrorExit /\ spool' \in [Slots -> Seq(Bytes) \cup {None}]
  BY DEF Crash, IInv, Disk
<1> QED
  BY <1>1, ErrorExitLeaves

-----------------------------------------------------------------------------
(* The theorems                                                            *)

LEMMA InitHolds == Init => IInv
<1> SUFFICES ASSUME Init PROVE IInv
  OBVIOUS
<1>1. Len(<< >>) = 0 /\ << >> \in Seq(Mails) /\ << >> \in Seq(Bytes)
      /\ << >> \in Seq({}) /\ << >> \in Seq(1 .. MaxNum)
  OBVIOUS
<1>2. Zero \in Seq(Bytes \cup {"0"}) /\ Len(Zero) = 4
  BY DEF Zero
<1>3. TypeOK
  <2>1. /\ \A i \in Slots : spool[i] = None
        /\ \A n \in 1 .. MaxNum : files[n] = None
    BY DEF Init
  <2>2. /\ msg \in 0 .. (Cardinality(Mails) + 1) /\ nummsgs \in 0 .. Cardinality(Mails)
        /\ nextemail \in 0 .. (MaxNum + 1) /\ next \in 1 .. (MaxNum + 1)
    BY Sizes DEF Init
  <2>3. /\ arrived \subseteq Mails /\ box \in Seq(arrived) /\ up \in BOOLEAN
        /\ session \in Seq(Mails) /\ marked \subseteq DOMAIN session
        /\ leaving \subseteq Mails /\ stream \in Seq(Bytes) /\ db \in Seq(1 .. MaxNum)
    BY <1>1 DEF Init
  <2>4. /\ quit \in {"none", "sent", "done"} /\ pc = "off" /\ delete \in BOOLEAN
        /\ overlap = Zero
    BY DEF Init
  <2> QED
    BY <1>2, <2>1, <2>2, <2>3, <2>4 DEF TypeOK
<1>4. Disk
  BY DEF Init, Disk
<1>5. IsInjective(box)
  BY DEF Init, IsInjective
<1>6. Counting
  BY <1>1, Sizes DEF Init, Counting, Talking
<1>7. Reading /\ Spooled /\ MarkedWhole
  BY DEF Init, Reading, Spooled, MarkedWhole, Talking
<1> QED
  BY <1>3, <1>4, <1>5, <1>6, <1>7 DEF IInv

LEMMA NextHolds == IInv /\ [Next]_vars => IInv'
<1> SUFFICES ASSUME IInv, [Next]_vars PROVE IInv'
  OBVIOUS
<1>1. CASE \E x \in Mails : Arrive(x)
  BY <1>1, ArriveKeeps
<1>2. CASE Start
  BY <1>2, StartKeeps
<1>3. CASE Session
  BY <1>3, RetrKeeps, ReceiveKeeps, ReceiveFullKeeps, DataClosedKeeps, DeleKeeps,
     SendQuitKeeps, DisconnectKeeps DEF Session
<1>4. CASE UpdateInbox
  BY <1>4, ImportCopyKeeps, ImportCopyFullKeeps, ImportRecordKeeps, ImportUnlinkKeeps,
     ImportDoneKeeps DEF UpdateInbox
<1>5. CASE Network
  BY <1>5, ServerQuitKeeps, DropKeeps, AutologoutKeeps DEF Network
<1>6. CASE Crash
  BY <1>6, CrashKeeps
<1>7. CASE UNCHANGED vars
  <2>1. UNCHANGED <<up, session, marked, stream, prog, spool, inbox>>
    BY <1>7 DEF vars, net
  <2>2. Counting' /\ Reading' /\ Spooled' /\ MarkedWhole' /\ Disk'
    BY <2>1, RunUnchanged
  <2>3. TypeOK' /\ IsInjective(box)'
    BY <1>7 DEF IInv, TypeOK, IsInjective, vars, server, net, prog, inbox
  <2> QED
    BY <2>2, <2>3 DEF IInv
<1> QED
  BY <1>1, <1>2, <1>3, <1>4, <1>5, <1>6, <1>7 DEF Next

\* The inductive invariant holds whatever the network, the disk and the server
\* do: the loops of main and update_inbox with it.
THEOREM Invariance == Spec => []IInv
<1>1. Init => IInv
  BY InitHolds
<1>2. IInv /\ [Next]_vars => IInv'
  BY NextHolds
<1> QED
  BY <1>1, <1>2, PTL DEF Spec

\* Every variable of a run of POP65 has its type.
THEOREM TypeCorrect == Spec => []TypeOK
<1>1. IInv => TypeOK
  BY DEF IInv
<1> QED
  BY <1>1, Invariance, PTL

\* The receive loop of main (pop65.c) reads exactly one reply, however the
\* network cuts it: it leaves none of it for the next command, and does not
\* go on waiting when it has it all.
THEOREM WholeReplies == Spec => []ReadsWholeReply
<1>1. ASSUME IInv PROVE ReadsWholeReply
  <2>1. pc \in {"retr", "dele", "send_quit"} => stream = << >>
    BY <1>1 DEF IInv, Counting
  <2>2. ASSUME pc = "data" PROVE spool[msg] # Wire(session[msg])
    <3>1. session[msg] \in Mails /\ msg \in Slots
      BY <1>1, <2>2, Current
    <3>2. Wire(session[msg]) \in Seq(Bytes) /\ Len(Wire(session[msg])) >= 6
          /\ Wire(session[msg]) # ErrReply /\ Len(ErrReply) = 3
      BY <3>1, RepliesAre
    <3>3. spool[msg] \in Seq(Bytes)
      BY <1>1, <2>2, <3>1 DEF IInv, Disk, Spooled
    <3>4. /\ Len(spool[msg]) \in Nat /\ Len(stream) \in Nat
          /\ Len(Wire(session[msg])) \in Nat
      BY <1>1, <3>2, <3>3, LenProperties DEF IInv, TypeOK
    <3>5. PICK r \in {Wire(session[msg]), ErrReply} :
            Follows(spool[msg], overlap, stream, r, up)
      BY <1>1, <2>2 DEF IInv, Reading
    <3>6. /\ Len(spool[msg]) + Len(stream) <= Len(r)
          /\ Len(spool[msg]) < Len(r) \/ r = ErrReply
      BY <3>5 DEF Follows
    <3>7. CASE r = ErrReply
      <4>0. Len(spool[msg]) + Len(stream) <= 3
        BY <3>2, <3>6, <3>7
      <4>1. Len(spool[msg]) <= 3
        BY <3>4, <4>0
      <4>2. Len(spool[msg]) # Len(Wire(session[msg]))
        BY <3>2, <3>4, <4>1
      <4> QED
        BY <4>2
    <3>8. CASE r = Wire(session[msg])
      <4>1. Len(spool[msg]) < Len(Wire(session[msg]))
        BY <3>2, <3>6, <3>8
      <4>2. Len(spool[msg]) # Len(Wire(session[msg]))
        BY <3>4, <4>1
      <4> QED
        BY <4>2
    <3> QED
      BY <3>5, <3>7, <3>8
  <2> QED
    BY <2>1, <2>2 DEF ReadsWholeReply
<1> QED
  BY <1>1, Invariance, PTL

\* update_inbox finds the spool file of every message that STAT counted: its
\* "Can't open" exit, which would leave what was imported unnumbered, is dead.
THEOREM SpoolFilesThere == Spec => []ImportFindsSpool
<1>1. ASSUME IInv PROVE ImportFindsSpool
  <2> SUFFICES ASSUME Importing PROVE spool[msg] # None
    BY DEF ImportFindsSpool
  <2>1. pc = "import" /\ msg <= nummsgs
    BY DEF Importing
  <2>2. msg \in Nat /\ nummsgs \in Nat
    BY <1>1, <2>1, WithinRoom
  <2>3. msg \in msg .. nummsgs
    BY <2>1, <2>2
  <2> QED
    BY <1>1, <2>1, <2>3 DEF IInv, Spooled
<1> QED
  BY <1>1, Invariance, PTL

\* main sends the QUIT that makes the server remove a message only when the
\* whole of it is in a spool file that update_inbox will come to.
THEOREM QuitAfterSpooling == Spec => QuitsWhenSpooled
<1> DEFINE A == \A x \in leaving' \ leaving : \E i \in 1 .. nummsgs : spool'[i] = Wire(x)
<1>1. IInv /\ [Next]_vars => [A]_vars
  <2> SUFFICES ASSUME IInv, Next PROVE A
    OBVIOUS
  <2>1. CASE SendQuit
    <3>1. \A x \in leaving' : \E i \in marked : x = session[i]
      BY <2>1 DEF SendQuit
    <3>2. \A i \in marked : i \in 1 .. nummsgs /\ spool[i] = Wire(session[i])
      BY DEF IInv, MarkedWhole
    <3>3. spool' = spool
      BY <2>1 DEF SendQuit
    <3> QED
      BY <3>1, <3>2, <3>3
  <2>2. CASE ~SendQuit
    <3>1. leaving' \subseteq leaving
      <4>1. CASE \E x \in Mails : Arrive(x)
        BY <4>1 DEF Arrive, net
      <4>2. CASE Start
        BY <4>2 DEF Start
      <4>3. CASE Session
        BY <2>2, <4>3 DEF Session, Retr, Receive, ReceiveFull, DataClosed, Dele,
           Disconnect, ErrorExit, net
      <4>4. CASE UpdateInbox
        BY <4>4 DEF UpdateInbox, ImportCopy, ImportCopyFull, ImportRecord, ImportUnlink,
           ImportDone, net
      <4>5. CASE Network
        BY <4>5 DEF Network, ServerQuit, Drop, Autologout
      <4>6. CASE Crash
        BY <4>6 DEF Crash, ErrorExit
      <4> QED
        BY <4>1, <4>2, <4>3, <4>4, <4>5, <4>6 DEF Next
    <3> QED
      BY <3>1
  <2> QED
    BY <2>1, <2>2
<1>2. Spec => []IInv /\ [][Next]_vars
  BY Invariance, PTL DEF Spec
<1> QED
  BY <1>1, <1>2, PTL DEF QuitsWhenSpooled
-----------------------------------------------------------------------------
(* What a run makes of the messages it fetches                             *)

Entrants == Mails \cup {None}

LEMMA Entries ==
  /\ \A c : Entry(c) \in Entrants
  /\ \A c : \A x \in Mails : Entry(c) = x => c = Text(Wire(x))
  /\ \A x \in Mails : Entry(Text(Wire(x))) \in Mails
<1>1. DOMAIN WholeCopy = Mails /\ \A x \in Mails : WholeCopy[x] = Text(Wire(x))
  BY DEF WholeCopy
<1>2. None \notin Mails
  BY PopAssumption
<1>3. ASSUME NEW c, c \in Range(WholeCopy)
      PROVE  Entry(c) \in Mails /\ c = WholeCopy[Entry(c)]
  <2>1. \E x \in Mails : c = WholeCopy[x]
    BY <1>1, <1>3 DEF Range
  <2>2. Entry(c) = CHOOSE x \in Mails : c = WholeCopy[x]
    BY <1>3 DEF Entry
  <2> QED
    BY <2>1, <2>2
<1>4. \A c : c \notin Range(WholeCopy) => Entry(c) = None
  BY DEF Entry
<1>5. \A x \in Mails : Text(Wire(x)) \in Range(WholeCopy)
  BY <1>1 DEF Range
<1> QED
  BY <1>1, <1>2, <1>3, <1>4, <1>5 DEF Entrants

\* A file that begins like the reply with message x is a copy of x or of none.
LEMMA BeginningEntry ==
  ASSUME NEW x \in Mails, NEW p \in Seq(Bytes),
         Beginning(p, Wire(x)) \/ Beginning(p, ErrReply)
  PROVE  Entry(Text(p)) \in {x, None} /\ (p = Wire(x) => Entry(Text(p)) = x)
<1>1. ASSUME NEW y \in Mails, Text(p) = Text(Wire(y)), Beginning(p, Wire(x))
      PROVE  y = x
  <2> DEFINE r == Wire(x)
             k == Len(p)
             q == SubSeq(r, 1, k)
  <2>1. r \in Seq(Bytes) /\ Len(r) \in Nat /\ k \in Nat
    BY RepliesAre, LenProperties
  <2>2. k <= Len(r) /\ \A i \in 1 .. k : p[i] = r[i]
    BY <1>1 DEF Beginning
  <2>3. /\ q \in Seq(Bytes) /\ Len(q) = k
        /\ \A i \in 1 .. k : q[i] = r[i]
    <3>1. \A i \in 1 .. k : r[i] \in Bytes
      BY <2>1, <2>2, ElementOfSeq
    <3>2. 1 \in Int /\ k \in Int
      BY <2>1
    <3> HIDE DEF r, k
    <3>3. /\ SubSeq(r, 1, k) \in Seq(Bytes)
          /\ Len(SubSeq(r, 1, k)) = IF 1 <= k THEN k - 1 + 1 ELSE 0
          /\ \A i \in 1 .. k - 1 + 1 : SubSeq(r, 1, k)[i] = r[1 + i - 1]
      BY <3>1, <3>2, SubSeqProperties
    <3>4. \A i \in 1 .. k : i \in 1 .. k - 1 + 1 /\ 1 + i - 1 = i
      BY <2>1
    <3> QED
      BY <2>1, <3>3, <3>4
  <2>4. p = q
    <3>1. p \in Seq(Bytes) /\ Len(p) = Len(q) /\ \A i \in 1 .. Len(p) : p[i] = q[i]
      BY <2>2, <2>3
    <3> HIDE DEF q, k, r
    <3> QED
      BY <2>3, <3>1, SeqEqual
  <2>5. k \in 0 .. Len(r)
    BY <2>1, <2>2
  <2>6. Text(SubSeq(Wire(x), 1, k)) = Text(Wire(y))
    BY <1>1, <2>4
  <2> HIDE DEF k
  <2> QED
    BY <2>5, <2>6, CopyAssumption
<1>2. ASSUME NEW y \in Mails, Text(p) = Text(Wire(y)), Beginning(p, ErrReply)
      PROVE  FALSE
  <2>1. /\ Wire(y) \in Seq(Bytes) /\ Len(Wire(y)) >= 6 /\ Wire(y)[1] = "+OK"
        /\ Len(Wire(y)) \in Nat /\ Len(p) \in Nat /\ Len(ErrReply) = 3
    BY RepliesAre, LenProperties
  <2>2. 1 \in 1 .. Len(Wire(y)) /\ Wire(y)[1] # LF
    BY <2>1 DEF LF
  <2>3. \E k \in 1 .. Len(Text(Wire(y))) : Text(Wire(y))[k] = Wire(y)[1]
    BY <2>1, <2>2, TextIs
  <2>4. \E k \in 1 .. Len(Text(p)) : Text(p)[k] = "+OK"
    BY <1>2, <2>1, <2>3
  <2>5. \A k \in 1 .. Len(Text(p)) : \E j \in 1 .. Len(p) : Text(p)[k] = p[j]
    BY TextIs
  <2>6. \A j \in 1 .. Len(p) : j \in {1, 2, 3} /\ p[j] = ErrReply[j]
    BY <1>2, <2>1 DEF Beginning
  <2>7. \A j \in {1, 2, 3} : ErrReply[j] # "+OK"
    BY DEF ErrReply, CR, LF
  <2> QED
    BY <2>4, <2>5, <2>6, <2>7
<1>3. \A y \in Mails : Text(p) = Text(Wire(y)) => y = x
  BY <1>1, <1>2
<1> QED
  BY <1>3, Entries DEF Entrants

-----------------------------------------------------------------------------
(* The inbox of Delivery                                                   *)

\* The first of the messages that a run still owes the inbox
From ==
  CASE pc = "quit" -> 1
    [] pc \in {"import", "record"} -> msg
    [] pc = "unlink" -> msg + 1
    [] OTHER -> nummsgs + 1

Left == nummsgs - From + 1

\* The inbox, entry by entry
FetchedAre ==
  /\ Left \in Nat /\ From \in Nat /\ From >= 1 /\ Len(db) \in Nat
  /\ From + Left = nummsgs + 1
  /\ Fetched \in Seq(Entrants) /\ Len(Fetched) = Len(db) + Left
  /\ \A i \in 1 .. Len(db) : Fetched[i] = Entry(files[db[i]])
  /\ \A k \in 1 .. Left : Fetched[Len(db) + k] = Entry(Text(spool[From + k - 1]))

LEMMA FetchedEntries == IInv => FetchedAre
<1> SUFFICES ASSUME IInv PROVE FetchedAre
  OBVIOUS
<1> DEFINE N == Cardinality(Pending)
           R == [i \in DOMAIN db |-> Entry(files[db[i]])]
           A == [k \in 1 .. N |-> Entry(Text(spool[nummsgs - N + k]))]
<1>1. /\ Len(db) \in Nat /\ DOMAIN db = 1 .. Len(db)
      /\ msg \in Nat /\ nummsgs \in Nat
  BY LenProperties, Sizes DEF IInv, TypeOK
<1>2. From \in Nat /\ From >= 1 /\ From <= nummsgs + 1
  <2>1. CASE pc = "quit"
    BY <1>1, <2>1 DEF From
  <2>2. CASE pc \in {"import", "record", "unlink"}
    <3>1. msg \in 1 .. (nummsgs + 1) /\ (pc = "unlink" => msg \in 1 .. nummsgs)
      BY <1>1, <2>2 DEF IInv, Counting
    <3>2. From = IF pc = "unlink" THEN msg + 1 ELSE msg
      BY <2>2 DEF From
    <3> QED
      BY <1>1, <3>1, <3>2
  <2>3. CASE pc \notin {"quit", "import", "record", "unlink"}
    <3>1. From = nummsgs + 1
      BY <2>3 DEF From
    <3> QED
      BY <1>1, <3>1
  <2> QED
    BY <2>1, <2>2, <2>3
<1>3. Left \in Nat /\ From + Left = nummsgs + 1
  BY <1>1, <1>2 DEF Left
<1>4. Pending = From .. nummsgs
  <2>1. CASE pc \in {"quit", "import", "record", "unlink"}
    BY <2>1 DEF Pending, From
  <2>2. CASE pc \notin {"quit", "import", "record", "unlink"}
    <3>1. From = nummsgs + 1 /\ Pending = {}
      BY <2>2 DEF Pending, From
    <3> QED
      BY <1>1, <3>1
  <2> QED
    BY <2>1, <2>2
<1>5. N = Left
  <2>1. \A a, b \in Int : Cardinality(a .. b) = IF a > b THEN 0 ELSE b - a + 1
    BY FS_Interval
  <2>2. N = IF From > nummsgs THEN 0 ELSE nummsgs - From + 1
    BY <1>1, <1>2, <1>4, <2>1
  <2>3. From > nummsgs => nummsgs - From + 1 = 0
    BY <1>1, <1>2
  <2> QED
    BY <2>2, <2>3 DEF Left
<1>6. Fetched = R \o A
  BY DEF Fetched
<1>7. R \in Seq(Entrants) /\ Len(R) = Len(db) /\ \A i \in 1 .. Len(db) : R[i] = Entry(files[db[i]])
  <2>1. R \in [1 .. Len(db) -> Entrants]
    BY <1>1, Entries
  <2> QED
    BY <1>1, <2>1, SeqDef, LenProperties
<1>8. /\ A \in Seq(Entrants) /\ Len(A) = Left
      /\ \A k \in 1 .. Left : A[k] = Entry(Text(spool[From + k - 1]))
  <2>1. A \in [1 .. Left -> Entrants]
    BY <1>5, Entries
  <2>2. \A k \in 1 .. Left : nummsgs - Left + k = From + k - 1
    BY <1>1, <1>2, <1>3
  <2>3. \A k \in 1 .. Left : A[k] = Entry(Text(spool[nummsgs - Left + k]))
    BY <1>5
  <2> HIDE DEF A
  <2> QED
    BY <1>3, <2>1, <2>2, <2>3, SeqDef, LenProperties
<1> HIDE DEF R, A
<1>9. /\ R \o A \in Seq(Entrants) /\ Len(R \o A) = Len(db) + Left
      /\ \A i \in 1 .. Len(db) + Left :
           (R \o A)[i] = IF i <= Len(db) THEN R[i] ELSE A[i - Len(db)]
  <2>1. /\ R \o A \in Seq(Entrants) /\ Len(R \o A) = Len(R) + Len(A)
        /\ \A i \in 1 .. Len(R) + Len(A) :
             (R \o A)[i] = IF i <= Len(R) THEN R[i] ELSE A[i - Len(R)]
    BY <1>7, <1>8, ConcatProperties
  <2> QED
    BY <1>7, <1>8, <2>1
<1>10. \A i \in 1 .. Len(db) : i \in 1 .. Len(db) + Left /\ i <= Len(db)
  BY <1>1, <1>3
<1>11. \A k \in 1 .. Left : /\ Len(db) + k \in 1 .. Len(db) + Left
                            /\ ~(Len(db) + k <= Len(db)) /\ (Len(db) + k) - Len(db) = k
  BY <1>1, <1>3
<1>12. \A i \in 1 .. Len(db) : Fetched[i] = Entry(files[db[i]])
  BY <1>6, <1>7, <1>9, <1>10
<1>13. \A k \in 1 .. Left : Fetched[Len(db) + k] = Entry(Text(spool[From + k - 1]))
  BY <1>6, <1>8, <1>9, <1>11
<1> QED
  BY <1>1, <1>2, <1>3, <1>6, <1>9, <1>12, <1>13 DEF FetchedAre

LEMMA FetchedEntriesNext == IInv' => FetchedAre'
BY FetchedEntries, PTL

\* The inbox stays as it is when neither its records nor what is to follow change.
LEMMA FetchedStays ==
  ASSUME IInv, IInv', db' = db, Left' = Left,
         \A i \in 1 .. Len(db) : files'[db[i]] = files[db[i]],
         \A k \in 1 .. Left : spool'[From' + k - 1] = spool[From + k - 1]
  PROVE  Fetched' = Fetched
<1>1. FetchedAre /\ FetchedAre'
  BY FetchedEntries, FetchedEntriesNext
<1>2. /\ Fetched \in Seq(Entrants) /\ Len(Fetched) = Len(db) + Left
      /\ Left \in Nat /\ Len(db) \in Nat
      /\ \A i \in 1 .. Len(db) : Fetched[i] = Entry(files[db[i]])
      /\ \A k \in 1 .. Left : Fetched[Len(db) + k] = Entry(Text(spool[From + k - 1]))
  BY <1>1 DEF FetchedAre
<1>3. /\ Fetched' \in Seq(Entrants) /\ Len(Fetched') = Len(db) + Left
      /\ \A i \in 1 .. Len(db) : Fetched'[i] = Entry(files'[db[i]])
      /\ \A k \in 1 .. Left : Fetched'[Len(db) + k] = Entry(Text(spool'[From' + k - 1]))
  BY <1>1 DEF FetchedAre, Entrants
<1>4. \A i \in 1 .. Len(db) : Fetched'[i] = Fetched[i]
  BY <1>2, <1>3
<1>5. \A k \in 1 .. Left : Fetched'[Len(db) + k] = Fetched[Len(db) + k]
  BY <1>2, <1>3
<1>6. \A i \in 1 .. Len(db) + Left : i \in 1 .. Len(db)
                                     \/ (i - Len(db) \in 1 .. Left /\ Len(db) + (i - Len(db)) = i)
  BY <1>2
<1>7. \A i \in 1 .. Len(Fetched') : Fetched'[i] = Fetched[i]
  BY <1>3, <1>4, <1>5, <1>6
<1> QED
  BY <1>2, <1>3, <1>7, SeqEqual
-----------------------------------------------------------------------------
(* What the refinement rests on                                            *)

\* While a session goes on the server keeps its messages.
InSession ==
  Talking =>
    /\ quit = "none"
    /\ \A i \in 1 .. Len(session) : session[i] \in Range(box)
    /\ \A i, j \in 1 .. Len(session) : session[i] = session[j] => i = j

\* A spool file begins like a reply, of its message or a refusal.
OfReply(i) == Beginning(spool[i], Wire(session[i])) \/ Beginning(spool[i], ErrReply)

GetsReplies ==
  /\ Talking => \A i \in 1 .. (msg - 1) : OfReply(i)
  /\ pc = "dele" => OfReply(msg)

\* The next number that is in no record
Free == CASE pc \in {"import", "unlink"} -> nextemail
          [] pc = "record" -> nextemail - 1
          [] OTHER -> next

\* Numbers are given to one message each.
Numbers ==
  /\ \A i \in 1 .. Len(db) : db[i] < Free
  /\ pc = "record" => files[nextemail - 1] = Text(spool[msg])

\* The inbox gets what arrived, and all that the server is going to remove.
Known == Range(Fetched) \subseteq arrived \cup {None}
Promised == quit = "sent" => leaving \subseteq Range(Fetched)

DInv == IInv /\ InSession /\ GetsReplies /\ Numbers /\ Known /\ Promised

deliveryVars == <<Range(box), Fetched>>

\* Between and during sessions the inbox is what EMAIL.DB lists.
LEMMA InboxIdle ==
  ASSUME IInv, IInv', db' = db, files' = files,
         pc \in {"off", "retr", "data", "dele", "send_quit"},
         pc' \in {"off", "retr", "data", "dele", "send_quit"}
  PROVE  Fetched' = Fetched
<1>1. nummsgs \in Nat /\ nummsgs' \in Nat
  BY Sizes DEF IInv, TypeOK
<1>2. From = nummsgs + 1 /\ From' = nummsgs' + 1
  BY DEF From
<1>3. Left = 0 /\ Left' = 0
  <2>1. \A n \in Nat : n - (n + 1) + 1 = 0
    OBVIOUS
  <2>2. Left = nummsgs - (nummsgs + 1) + 1 /\ Left' = nummsgs' - (nummsgs' + 1) + 1
    BY <1>2 DEF Left
  <2> QED
    BY <1>1, <2>1, <2>2
<1>4. \A k \in 1 .. Left : spool'[From' + k - 1] = spool[From + k - 1]
  BY <1>3
<1>5. \A i \in 1 .. Len(db) : files'[db[i]] = files[db[i]]
  OBVIOUS
<1>6. Left' = Left
  BY <1>3
<1> QED
  BY <1>4, <1>5, <1>6, FetchedStays

\* Steps outside the program and its files
LEMMA InboxUntouched ==
  ASSUME IInv, IInv', UNCHANGED <<prog, spool, inbox>>
  PROVE  Fetched' = Fetched
<1>1. /\ pc' = pc /\ msg' = msg /\ nummsgs' = nummsgs /\ nextemail' = nextemail
      /\ spool' = spool /\ files' = files /\ db' = db /\ next' = next
  BY DEF prog, inbox
<1>2. From' = From /\ Left' = Left
  BY <1>1 DEF From, Left
<1>3. \A k \in 1 .. Left : spool'[From' + k - 1] = spool[From + k - 1]
  BY <1>1, <1>2
<1>4. \A i \in 1 .. Len(db) : files'[db[i]] = files[db[i]]
  BY <1>1
<1> QED
  BY <1>1, <1>2, <1>3, <1>4, FetchedStays

\* What a step that leaves the inbox alone does to Known and Promised
LEMMA InboxKept ==
  ASSUME DInv, Fetched' = Fetched, arrived \subseteq arrived',
         quit' = "sent" => quit = "sent" /\ leaving' = leaving
  PROVE  Known' /\ Promised'
BY DEF DInv, Known, Promised, Range

\* A step of the program that serves the session: the server and the numbers
\* are as before.
LEMMA Serving ==
  ASSUME DInv, IInv', Talking,
         UNCHANGED <<box, arrived, quit, leaving, files, db, next>>,
         \/ pc' = "off"
         \/ Talking' /\ session' = session
  PROVE  /\ InSession' /\ Numbers' /\ Known' /\ Promised'
         /\ UNCHANGED deliveryVars
<1>1. /\ pc \in {"off", "retr", "data", "dele", "send_quit"}
      /\ pc' \in {"off", "retr", "data", "dele", "send_quit"}
  BY DEF Talking
<1>2. Fetched' = Fetched
  BY <1>1, InboxIdle DEF DInv
<1>3. Known' /\ Promised'
  BY <1>2, InboxKept
<1>4. InSession'
  BY DEF DInv, InSession, Talking, Range
<1>5. Numbers'
  <2>1. Free = next /\ Free' = next
    BY <1>1 DEF Free
  <2> QED
    BY <1>1, <2>1 DEF DInv, Numbers
<1> QED
  BY <1>2, <1>3, <1>4, <1>5 DEF deliveryVars, Range

\* The messages whose files a step leaves alone
LEMMA RepliesKept ==
  ASSUME DInv, Talking, session' = session,
         \A i \in 1 .. (msg - 1) : spool'[i] = spool[i]
  PROVE  \A i \in 1 .. (msg - 1) : OfReply(i)'
BY DEF DInv, GetsReplies, OfReply

\* The next message, once the current one is dealt with
LEMMA NextReply ==
  ASSUME DInv, Talking, session' = session, NEW m \in Nat, m = msg,
         \A i \in 1 .. (m - 1) : spool'[i] = spool[i], OfReply(m)',
         \/ msg' = m
         \/ msg' = m + 1 /\ pc' # "dele"
  PROVE  GetsReplies'
<1>1. \A i \in 1 .. (m - 1) : OfReply(i)'
  BY RepliesKept
<1>2. \A i \in 1 .. (msg' - 1) : i \in 1 .. (m - 1) \/ i = m
  <2>1. msg' \in {m, m + 1}
    OBVIOUS
  <2>2. \A n \in {m, m + 1} : \A i \in 1 .. (n - 1) : i \in 1 .. (m - 1) \/ i = m
    OBVIOUS
  <2> QED
    BY <2>1, <2>2
<1>3. \A i \in 1 .. (msg' - 1) : OfReply(i)'
  BY <1>1, <1>2
<1>4. pc' = "dele" => OfReply(msg)'
  <2> SUFFICES ASSUME pc' = "dele" PROVE OfReply(msg)'
    OBVIOUS
  <2>1. msg' = m
    OBVIOUS
  <2> QED
    BY <2>1 DEF OfReply
<1> QED
  BY <1>3, <1>4 DEF GetsReplies
-----------------------------------------------------------------------------
(* One lemma per action                                                    *)

\* The part of the invariant that is about the inbox and the session
Rest4 == InSession /\ GetsReplies /\ Numbers /\ Known /\ Promised

\* The server and the connection move; the program does not.
LEMMA ProgramStill ==
  ASSUME DInv, IInv', UNCHANGED <<prog, session, spool, inbox>>,
         arrived \subseteq arrived', Range(box) \subseteq Range(box') \/ ~Talking,
         quit' = "sent" => quit = "sent" /\ leaving' = leaving,
         quit = "none" => quit' = "none"
  PROVE  Rest4' /\ Fetched' = Fetched
<1>1. /\ pc' = pc /\ msg' = msg /\ nummsgs' = nummsgs /\ nextemail' = nextemail
      /\ spool' = spool /\ files' = files /\ db' = db /\ next' = next /\ session' = session
  BY DEF prog, inbox
<1>2. Fetched' = Fetched
  BY InboxUntouched DEF DInv
<1>3. Known' /\ Promised'
  BY <1>2, InboxKept
<1>4. InSession'
  BY <1>1 DEF DInv, InSession, Talking
<1>5. GetsReplies' /\ Numbers'
  BY <1>1 DEF DInv, GetsReplies, OfReply, Numbers, Free, Talking
<1> QED
  BY <1>2, <1>3, <1>4, <1>5 DEF Rest4

LEMMA RangeOfBox ==
  ASSUME IInv
  PROVE  Range(box) \subseteq arrived /\ Range(box) \subseteq Mails
         /\ Range(box) = {box[i] : i \in 1 .. Len(box)}
<1>1. box \in Seq(arrived) /\ arrived \subseteq Mails
  BY DEF IInv, TypeOK
<1>2. DOMAIN box = 1 .. Len(box) /\ \A i \in 1 .. Len(box) : box[i] \in arrived
  BY <1>1, LenProperties, ElementOfSeq
<1> QED
  BY <1>1, <1>2 DEF Range

LEMMA RangeOfFetched ==
  ASSUME IInv PROVE DOMAIN Fetched = 1 .. Len(Fetched)
<1>1. Fetched \in Seq(Entrants)
  BY FetchedEntries DEF FetchedAre
<1> QED
  BY <1>1, LenProperties

LEMMA RangeAgain == \A f : Abstract!Range(f) = Range(f)
BY DEF Abstract!Range, Range

LEMMA ArriveDelivers ==
  ASSUME DInv, IInv', NEW x \in Mails, Arrive(x)
  PROVE  Rest4' /\ Abstract!Arrive(x)
<1>1. /\ UNCHANGED <<prog, session, spool, inbox>> /\ quit' = quit /\ leaving' = leaving
      /\ arrived' = arrived \cup {x} /\ x \notin arrived /\ box' = Append(box, x)
  BY DEF Arrive, net
<1>2. Range(box') = Range(box) \cup {x}
  <2>1. box \in Seq(arrived') /\ x \in arrived'
    BY <1>1 DEF DInv, IInv, TypeOK
  <2>2. /\ box' \in Seq(arrived') /\ Len(box') = Len(box) + 1
        /\ \A i \in 1 .. Len(box) : box'[i] = box[i]
        /\ box'[Len(box) + 1] = x
    BY <1>1, <2>1, AppendProperties
  <2>3. Len(box) \in Nat /\ DOMAIN box = 1 .. Len(box) /\ DOMAIN box' = 1 .. Len(box) + 1
    BY <2>1, <2>2, LenProperties
  <2>4. \A i \in 1 .. Len(box) + 1 : i \in 1 .. Len(box) \/ i = Len(box) + 1
    BY <2>3
  <2>5. /\ Len(box) + 1 \in 1 .. Len(box) + 1
        /\ \A i \in 1 .. Len(box) : i \in 1 .. Len(box) + 1
    BY <2>3
  <2> QED
    BY <2>2, <2>3, <2>4, <2>5 DEF Range
<1>3. Rest4' /\ Fetched' = Fetched
  BY <1>1, <1>2, ProgramStill
<1>4. x \notin Range(box) \cup Range(Fetched)
  <2>1. Range(box) \subseteq arrived /\ Range(Fetched) \subseteq arrived \cup {None}
    BY RangeOfBox DEF DInv, Known
  <2>2. x # None
    BY PopAssumption
  <2> QED
    BY <1>1, <2>1, <2>2
<1> QED
  BY <1>2, <1>3, <1>4, RangeAgain DEF Abstract!Arrive

LEMMA ServerQuitDelivers ==
  ASSUME DInv, IInv', ServerQuit PROVE Rest4' /\ Abstract!GiveUp
<1>1. /\ quit = "sent" /\ quit' = "done" /\ box' = Without(box, leaving)
      /\ UNCHANGED <<prog, session, spool, inbox, arrived>>
  BY DEF ServerQuit
<1>2. ~Talking
  BY <1>1 DEF DInv, InSession
<1>3. Rest4' /\ Fetched' = Fetched
  BY <1>1, <1>2, ProgramStill
<1>4. box \in Seq(arrived)
  BY DEF DInv, IInv, TypeOK
<1>5. /\ box' \in Seq(arrived)
      /\ \A k \in 1 .. Len(box') : \E j \in 1 .. Len(box) : box[j] \notin leaving /\ box'[k] = box[j]
      /\ \A j \in 1 .. Len(box) : box[j] \notin leaving => \E k \in 1 .. Len(box') : box'[k] = box[j]
  <2> DEFINE w == Without(box, leaving)
  <2>1. /\ w \in Seq(arrived)
        /\ \A k \in 1 .. Len(w) : \E j \in 1 .. Len(box) : box[j] \notin leaving /\ w[k] = box[j]
        /\ \A j \in 1 .. Len(box) : box[j] \notin leaving => \E k \in 1 .. Len(w) : w[k] = box[j]
    BY <1>4, WithoutIs
  <2>2. box' = w
    BY <1>1
  <2> HIDE DEF w
  <2> QED
    BY <2>1, <2>2
<1>6. DOMAIN box = 1 .. Len(box) /\ DOMAIN box' = 1 .. Len(box')
  BY <1>4, <1>5, LenProperties
<1>7. Range(box') \subseteq Range(box) /\ Range(box) \ Range(box') \subseteq leaving
  <2>1. /\ Range(box) = {box[i] : i \in 1 .. Len(box)}
        /\ Range(box') = {box'[i] : i \in 1 .. Len(box')}
    BY <1>6 DEF Range
  <2>2. Range(box') \subseteq Range(box)
    BY <1>5, <2>1
  <2>3. Range(box) \ Range(box') \subseteq leaving
    BY <1>5, <2>1
  <2> QED
    BY <2>2, <2>3
<1>8. leaving \subseteq Range(Fetched)
  BY <1>1 DEF DInv, Promised
<1> QED
  BY <1>3, <1>7, <1>8, RangeAgain DEF Abstract!GiveUp

LEMMA DropDelivers ==
  ASSUME DInv, IInv', Drop PROVE Rest4' /\ UNCHANGED deliveryVars
<1>1. /\ UNCHANGED <<box, arrived, leaving, prog, session, spool, inbox>>
      /\ quit' \in {quit, IF quit = "sent" THEN "none" ELSE quit}
  BY DEF Drop, server
<1>2. /\ quit' = "sent" => quit = "sent" /\ leaving' = leaving
      /\ quit = "none" => quit' = "none"
  BY <1>1
<1>3. Rest4' /\ Fetched' = Fetched
  BY <1>1, <1>2, ProgramStill
<1> QED
  BY <1>1, <1>3 DEF deliveryVars

LEMMA AutologoutDelivers ==
  ASSUME DInv, IInv', Autologout PROVE Rest4' /\ UNCHANGED deliveryVars
<1>1. UNCHANGED <<box, arrived, quit, leaving, prog, session, spool, inbox>>
  BY DEF Autologout, server
<1>2. Rest4' /\ Fetched' = Fetched
  BY <1>1, ProgramStill
<1> QED
  BY <1>1, <1>2 DEF deliveryVars

LEMMA StartDelivers ==
  ASSUME DInv, IInv', Start PROVE Rest4' /\ UNCHANGED deliveryVars
<1>1. /\ pc = "off" /\ session' = box /\ quit' = "none" /\ msg' = 1
      /\ pc' \in {"send_quit", "retr"}
      /\ UNCHANGED <<box, arrived, leaving, spool, files, db, next>>
  BY DEF Start, ForMsg, server, inbox
<1>2. Fetched' = Fetched
  BY <1>1, InboxIdle DEF DInv
<1>3. Known' /\ Promised'
  BY <1>1, <1>2, InboxKept
<1>4. InSession'
  <2>1. DOMAIN box = 1 .. Len(box)
    BY LenProperties DEF DInv, IInv, TypeOK
  <2>2. \A i, j \in 1 .. Len(box) : box[i] = box[j] => i = j
    BY <2>1 DEF DInv, IInv, IsInjective
  <2>3. \A i \in 1 .. Len(box) : box[i] \in Range(box)
    BY <2>1 DEF Range
  <2> QED
    BY <1>1, <2>2, <2>3 DEF InSession
<1>5. GetsReplies'
  BY <1>1 DEF GetsReplies
<1>6. Numbers'
  <2>1. Free = next /\ Free' = next
    BY <1>1 DEF Free
  <2> QED
    BY <1>1, <2>1 DEF DInv, Numbers
<1> QED
  BY <1>1, <1>2, <1>3, <1>4, <1>5, <1>6 DEF Rest4, deliveryVars

LEMMA ErrorExitDelivers ==
  ASSUME DInv, IInv', Talking, ErrorExit PROVE Rest4' /\ UNCHANGED deliveryVars
<1>1. /\ pc' = "off" /\ UNCHANGED <<box, arrived, quit, leaving, files, db, next>>
  BY DEF ErrorExit, Off, server, inbox
<1>2. InSession' /\ Numbers' /\ Known' /\ Promised' /\ UNCHANGED deliveryVars
  BY <1>1, Serving
<1>3. GetsReplies'
  BY <1>1 DEF GetsReplies, Talking
<1> QED
  BY <1>2, <1>3 DEF Rest4

LEMMA RetrDelivers ==
  ASSUME DInv, IInv', Retr PROVE Rest4' /\ UNCHANGED deliveryVars
<1>0. pc = "retr" /\ Talking /\ spool' = [spool EXCEPT ![msg] = << >>]
  BY DEF Retr, Talking
<1>1. CASE ~up
  BY <1>0, <1>1, ErrorExitDelivers DEF Retr
<1>2. CASE up
  <2>1. /\ pc' = "data" /\ msg' = msg /\ session' = session
        /\ UNCHANGED <<box, arrived, quit, leaving, files, db, next>>
    BY <1>2 DEF Retr, server, inbox
  <2>2. InSession' /\ Numbers' /\ Known' /\ Promised' /\ UNCHANGED deliveryVars
    BY <1>0, <2>1, Serving DEF Talking
  <2>3. msg \in Nat
    BY Sizes DEF DInv, IInv, TypeOK
  <2>4. \A i \in 1 .. (msg - 1) : spool'[i] = spool[i]
    <3>1. \A i \in 1 .. (msg - 1) : i # msg
      BY <2>3
    <3>2. DOMAIN spool = Slots /\ \A i \in Slots : i # msg => spool'[i] = spool[i]
      BY <1>0 DEF DInv, IInv, Disk
    <3>3. msg \in Slots
      BY <1>0, <1>2, Current DEF DInv
    <3>4. \A i \in 1 .. (msg - 1) : i \in Slots
      BY <2>3, <3>3, Sizes DEF Slots
    <3> QED
      BY <3>1, <3>2, <3>4
  <2>5. GetsReplies'
    <3>1. \A i \in 1 .. (msg - 1) : OfReply(i)'
      BY <1>0, <2>1, <2>4, RepliesKept
    <3> QED
      BY <2>1, <3>1 DEF GetsReplies
  <2> QED
    BY <2>2, <2>5 DEF Rest4
<1> QED
  BY <1>1, <1>2

\* The receive loop ends or goes on with file c.
LEMMA DataDelivers ==
  ASSUME DInv, IInv', pc = "data",
         AfterData \/ UNCHANGED <<pc, msg, nummsgs>>,
         NEW c \in Seq(Bytes), NEW r \in {Wire(session[msg]), ErrReply}, Beginning(c, r),
         spool' = [spool EXCEPT ![msg] = c],
         UNCHANGED <<box, arrived, session, quit, leaving, files, db, next>>
  PROVE  Rest4' /\ UNCHANGED deliveryVars
<1>0. Talking
  BY DEF Talking
<1>1. msg \in Slots /\ msg \in Nat
  BY Current, Sizes DEF DInv, Slots
<1>2. Talking' /\ (msg' = msg \/ (msg' = msg + 1 /\ pc' # "dele"))
  BY DEF AfterData, ForMsg, Talking
<1>3. InSession' /\ Numbers' /\ Known' /\ Promised' /\ UNCHANGED deliveryVars
  BY <1>0, <1>2, Serving
<1>4. /\ spool'[msg] = c
      /\ \A i \in Slots : i # msg => spool'[i] = spool[i]
  BY <1>1 DEF DInv, IInv, Disk
<1>5. \A i \in 1 .. (msg - 1) : spool'[i] = spool[i]
  <2>1. \A i \in 1 .. (msg - 1) : i \in Slots /\ i # msg
    BY <1>1, Sizes DEF Slots
  <2> QED
    BY <1>4, <2>1
<1>6. PICK m \in Nat : m = msg
  BY <1>1
<1>7. OfReply(m)'
  BY <1>4, <1>6 DEF OfReply
<1>8. GetsReplies'
  <2>1. \A i \in 1 .. (m - 1) : spool'[i] = spool[i]
    BY <1>5, <1>6
  <2>2. \/ msg' = m
        \/ msg' = m + 1 /\ pc' # "dele"
    BY <1>2, <1>6
  <2> QED
    BY <1>0, <1>6, <1>7, <2>1, <2>2, NextReply
<1> QED
  BY <1>3, <1>8 DEF Rest4

LEMMA ReceiveDelivers ==
  ASSUME DInv, IInv', Receive PROVE Rest4' /\ UNCHANGED deliveryVars
<1>1. /\ pc = "data" /\ UNCHANGED <<box, arrived, session, quit, leaving, files, db, next>>
      /\ AfterData \/ UNCHANGED <<pc, msg, nummsgs>>
  BY DEF Receive, server, inbox
<1>2. \E c \in Seq(Bytes), r \in {Wire(session[msg]), ErrReply} :
        spool' = [spool EXCEPT ![msg] = c] /\ Beginning(c, r)
  BY ReceiveKeeps DEF DInv
<1> QED
  BY <1>1, <1>2, DataDelivers

LEMMA DataClosedDelivers ==
  ASSUME DInv, IInv', DataClosed PROVE Rest4' /\ UNCHANGED deliveryVars
<1>1. /\ pc = "data" /\ AfterData
      /\ UNCHANGED <<box, arrived, session, quit, leaving, spool, files, db, next>>
  BY DEF DataClosed, server, net, inbox
<1>2. msg \in Slots /\ spool \in [Slots -> Seq(Bytes) \cup {None}]
  BY <1>1, Current DEF DInv, IInv, Disk
<1> DEFINE c == spool[msg]
<1>3. c \in Seq(Bytes)
  BY <1>1, <1>2 DEF DInv, IInv, Spooled
<1>4. spool' = [spool EXCEPT ![msg] = c]
  BY <1>1, <1>2
<1>5. PICK r \in {Wire(session[msg]), ErrReply} : Beginning(c, r)
  <2>1. PICK r \in {Wire(session[msg]), ErrReply} : Follows(c, overlap, stream, r, up)
    BY <1>1 DEF DInv, IInv, Reading
  <2>2. session[msg] \in Mails
    BY <1>1, Current DEF DInv
  <2>3. r \in Seq(Bytes)
    BY <2>2, RepliesAre
  <2>4. Len(c) \in Nat /\ Len(stream) \in Nat /\ Len(r) \in Nat
    BY <1>3, <2>3, LenProperties DEF DInv, IInv, TypeOK
  <2>5. Len(c) + Len(stream) <= Len(r) /\ \A i \in 1 .. Len(c) : c[i] = r[i]
    BY <2>1 DEF Follows
  <2>6. Len(c) <= Len(r)
    BY <2>4, <2>5
  <2> QED
    BY <2>5, <2>6 DEF Beginning
<1> HIDE DEF c
<1> QED
  BY <1>1, <1>3, <1>4, <1>5, DataDelivers

LEMMA DeleDelivers ==
  ASSUME DInv, IInv', Dele PROVE Rest4' /\ UNCHANGED deliveryVars
<1>0. pc = "dele" /\ Talking /\ spool' = spool
  BY DEF Dele, Talking
<1>1. CASE ~(up /\ stream = << >>)
  BY <1>0, <1>1, ErrorExitDelivers DEF Dele
<1>2. CASE up /\ stream = << >>
  <2>1. /\ msg' = msg + 1 /\ session' = session /\ pc' \in {"send_quit", "retr"}
        /\ UNCHANGED <<box, arrived, quit, leaving, files, db, next>>
    BY <1>2 DEF Dele, ForMsg, server, inbox
  <2>2. InSession' /\ Numbers' /\ Known' /\ Promised' /\ UNCHANGED deliveryVars
    BY <1>0, <2>1, Serving DEF Talking
  <2>3. msg \in Nat
    BY Sizes DEF DInv, IInv, TypeOK
  <2>4. PICK m \in Nat : m = msg /\ msg' = m + 1 /\ pc' # "dele"
    BY <2>1, <2>3
  <2>5. OfReply(m)'
    BY <1>0, <2>1, <2>4 DEF DInv, GetsReplies, OfReply
  <2>6. GetsReplies'
    <3>1. \A i \in 1 .. (m - 1) : spool'[i] = spool[i]
      BY <1>0
    <3> QED
      BY <1>0, <2>1, <2>4, <2>5, <3>1, NextReply
  <2> QED
    BY <2>2, <2>6 DEF Rest4
<1> QED
  BY <1>1, <1>2
-----------------------------------------------------------------------------
(* What a run brings                                                       *)

\* An inbox t that continues s with n entries, messages of B or damaged ones
Continued(s, t, n, B) ==
  /\ Len(t) = Len(s) + n
  /\ \A i \in 1 .. Len(s) : t[i] = s[i]
  /\ \A k \in 1 .. n : t[Len(s) + k] \in B \cup {None}
  /\ \A k, l \in 1 .. n : t[Len(s) + k] = t[Len(s) + l] => k = l \/ t[Len(s) + k] = None

Brings(s, t, B) ==
  LET new == SubSeq(t, Len(s) + 1, Len(t)) IN
  /\ Abstract!IsPrefix(s, t)
  /\ Range(new) \subseteq B \cup {None}
  /\ \A i, j \in DOMAIN new : new[i] = new[j] => i = j \/ new[i] = None

LEMMA Collects ==
  ASSUME NEW S, NEW s \in Seq(S), NEW t \in Seq(S), NEW n \in Nat, NEW B,
         Continued(s, t, n, B)
  PROVE  Brings(s, t, B)
<1> DEFINE m == Len(s)
           new == SubSeq(t, m + 1, Len(t))
           p == SubSeq(t, 1, m)
           q == SubSeq(s, 1, m)
<1>1. m \in Nat /\ Len(t) \in Nat /\ Len(t) = m + n
  BY LenProperties DEF Continued
<1>2. /\ \A i \in 1 .. m : s[i] \in S
      /\ \A i \in 1 .. Len(t) : t[i] \in S
  BY ElementOfSeq
<1>3. /\ \A i \in 1 .. m : t[i] = s[i]
      /\ \A k \in 1 .. n : t[m + k] \in B \cup {None}
      /\ \A k, l \in 1 .. n : t[m + k] = t[m + l] => k = l \/ t[m + k] = None
  BY DEF Continued
<1> HIDE DEF m
<1>4. \A i \in 1 .. m : t[i] \in S
  BY <1>2, <1>3
<1>5. /\ p \in Seq(S) /\ Len(p) = m /\ \A i \in 1 .. m : p[i] = t[i]
      /\ q \in Seq(S) /\ Len(q) = m /\ \A i \in 1 .. m : q[i] = s[i]
  <2>1. \A u : (\A i \in 1 .. m : u[i] \in S) =>
          /\ SubSeq(u, 1, m) \in Seq(S)
          /\ Len(SubSeq(u, 1, m)) = IF 1 <= m THEN m - 1 + 1 ELSE 0
          /\ \A i \in 1 .. m - 1 + 1 : SubSeq(u, 1, m)[i] = u[1 + i - 1]
    <3>1. 1 \in Int /\ m \in Int
      BY <1>1
    <3> QED
      BY <3>1, SubSeqProperties
  <2>2. /\ (IF 1 <= m THEN m - 1 + 1 ELSE 0) = m /\ m - 1 + 1 = m
        /\ \A i \in 1 .. m : 1 + i - 1 = i
    BY <1>1
  <2>3. \A u : (\A i \in 1 .. m : u[i] \in S) =>
          /\ SubSeq(u, 1, m) \in Seq(S) /\ Len(SubSeq(u, 1, m)) = m
          /\ \A i \in 1 .. m : SubSeq(u, 1, m)[i] = u[i]
    BY <2>1, <2>2
  <2> QED
    BY <1>2, <1>4, <2>3
<1>6. p = q
  <2>1. \A i \in 1 .. Len(p) : p[i] = q[i]
    BY <1>3, <1>5
  <2> HIDE DEF p, q
  <2> QED
    BY <1>5, <2>1, SeqEqual
<1>7. new \in Seq(S) /\ Len(new) = n /\ \A k \in 1 .. n : new[k] = t[m + k]
  <2>1. m + 1 \in Int /\ Len(t) \in Int /\ \A i \in (m + 1) .. Len(t) : i \in 1 .. Len(t)
    BY <1>1
  <2>2. \A i \in (m + 1) .. Len(t) : t[i] \in S
    BY <1>2, <2>1
  <2>3. /\ new \in Seq(S)
        /\ Len(new) = IF m + 1 <= Len(t) THEN Len(t) - (m + 1) + 1 ELSE 0
        /\ \A k \in 1 .. Len(t) - (m + 1) + 1 : new[k] = t[(m + 1) + k - 1]
    BY <2>1, <2>2, SubSeqProperties
  <2>4. /\ (IF m + 1 <= Len(t) THEN Len(t) - (m + 1) + 1 ELSE 0) = n
        /\ Len(t) - (m + 1) + 1 = n
        /\ \A k \in 1 .. n : (m + 1) + k - 1 = m + k
    BY <1>1
  <2> HIDE DEF new
  <2> QED
    BY <2>3, <2>4
<1>8. Abstract!IsPrefix(s, t)
  <2>1. Len(s) <= Len(t) /\ SubSeq(s, 1, Len(s)) = SubSeq(t, 1, Len(s))
    BY <1>1, <1>6 DEF m
  <2> QED
    BY <2>1 DEF Abstract!IsPrefix
<1> HIDE DEF new
<1>9. DOMAIN new = 1 .. n
  BY <1>7, LenProperties
<1>10. Range(new) \subseteq B \cup {None}
  BY <1>3, <1>7, <1>9 DEF Range
<1>11. \A i, j \in DOMAIN new : new[i] = new[j] => i = j \/ new[i] = None
  BY <1>3, <1>7, <1>9
<1> QED
  BY <1>8, <1>10, <1>11 DEF Brings, new, m

\* A step after which the program does not talk to the server
LEMMA SessionOver ==
  ASSUME pc' \in {"off", "quit", "import", "record", "unlink"}
  PROVE  InSession' /\ GetsReplies'
BY DEF InSession, GetsReplies, Talking

\* What the run has fetched when it says QUIT
LEMMA Loot ==
  ASSUME DInv, pc = "send_quit"
  PROVE  \A k \in 1 .. nummsgs :
           /\ k \in 1 .. Len(session)
           /\ Entry(Text(spool[k])) \in {session[k], None}
           /\ spool[k] = Wire(session[k]) => Entry(Text(spool[k])) = session[k]
<1>1. /\ msg = nummsgs + 1 /\ nummsgs <= Len(session) /\ Len(session) <= Cardinality(Mails)
      /\ nummsgs \in Nat /\ Len(session) \in Nat /\ Cardinality(Mails) \in Nat
  BY Sizes, LenProperties DEF DInv, IInv, TypeOK, Counting, Talking
<1> SUFFICES ASSUME NEW k \in 1 .. nummsgs
             PROVE  /\ k \in 1 .. Len(session)
                    /\ Entry(Text(spool[k])) \in {session[k], None}
                    /\ spool[k] = Wire(session[k]) => Entry(Text(spool[k])) = session[k]
  OBVIOUS
<1>2. k \in 1 .. Len(session) /\ k \in 1 .. (msg - 1) /\ k \in Slots
  BY <1>1 DEF Slots
<1>3. session[k] \in Mails
  BY <1>2, ElementOfSeq DEF DInv, IInv, TypeOK
<1>4. spool[k] \in Seq(Bytes)
  BY <1>2 DEF DInv, IInv, Disk, Spooled, Talking
<1>5. Beginning(spool[k], Wire(session[k])) \/ Beginning(spool[k], ErrReply)
  BY <1>2 DEF DInv, GetsReplies, OfReply, Talking
<1> QED
  BY <1>2, <1>3, <1>4, <1>5, BeginningEntry

LEMMA SendQuitDelivers ==
  ASSUME DInv, IInv', SendQuit PROVE Rest4' /\ Abstract!Collect
<1>1. /\ pc = "send_quit" /\ pc' = "quit" /\ msg' = 1
      /\ quit' = IF up THEN "sent" ELSE quit
      /\ leaving' = IF up THEN {session[i] : i \in marked} ELSE {}
      /\ UNCHANGED <<box, arrived, nummsgs, spool, files, db, next>>
  BY DEF SendQuit, server, inbox
<1>2. nummsgs \in Nat /\ Len(db) \in Nat
  BY Sizes, LenProperties DEF DInv, IInv, TypeOK
<1>3. From' = 1 /\ Left = 0 /\ Left' = nummsgs
  <2>1. From = nummsgs + 1 /\ From' = 1
    BY <1>1 DEF From
  <2>2. Left = nummsgs - (nummsgs + 1) + 1 /\ Left' = nummsgs - 1 + 1
    BY <1>1, <2>1 DEF Left
  <2>3. \A n \in Nat : n - (n + 1) + 1 = 0 /\ n - 1 + 1 = n
    OBVIOUS
  <2> QED
    BY <1>2, <2>1, <2>2, <2>3
<1>4. /\ Fetched \in Seq(Entrants) /\ Len(Fetched) = Len(db)
      /\ \A i \in 1 .. Len(db) : Fetched[i] = Entry(files[db[i]])
  <2>1. FetchedAre
    BY FetchedEntries DEF DInv
  <2>2. Len(db) + 0 = Len(db)
    BY <1>2
  <2> QED
    BY <1>3, <2>1, <2>2 DEF FetchedAre
<1>5. /\ Fetched' \in Seq(Entrants) /\ Len(Fetched') = Len(db) + nummsgs
      /\ \A i \in 1 .. Len(db) : Fetched'[i] = Entry(files[db[i]])
      /\ \A k \in 1 .. nummsgs : Fetched'[Len(db) + k] = Entry(Text(spool[k]))
  <2>1. FetchedAre'
    BY FetchedEntriesNext
  <2>2. \A k \in 1 .. nummsgs : 1 + k - 1 = k
    BY <1>2
  <2> QED
    BY <1>1, <1>3, <2>1, <2>2 DEF FetchedAre, Entrants
<1>6. \A k \in 1 .. nummsgs :
        /\ k \in 1 .. Len(session)
        /\ Fetched'[Len(db) + k] \in {session[k], None}
        /\ spool[k] = Wire(session[k]) => Fetched'[Len(db) + k] = session[k]
  BY <1>1, <1>5, Loot
<1>7. /\ \A i \in 1 .. Len(session) : session[i] \in Range(box)
      /\ \A i, j \in 1 .. Len(session) : session[i] = session[j] => i = j
  BY <1>1 DEF DInv, InSession, Talking
<1>8. /\ \A k \in 1 .. nummsgs : Fetched'[Len(db) + k] \in Range(box) \cup {None}
      /\ \A k, l \in 1 .. nummsgs : Fetched'[Len(db) + k] = Fetched'[Len(db) + l]
           => k = l \/ Fetched'[Len(db) + k] = None
  <2>1. \A k \in 1 .. nummsgs : Fetched'[Len(db) + k] \in Range(box) \cup {None}
    BY <1>6, <1>7
  <2>2. \A k, l \in 1 .. nummsgs : Fetched'[Len(db) + k] = Fetched'[Len(db) + l]
           => k = l \/ Fetched'[Len(db) + k] = None
    BY <1>6, <1>7
  <2> QED
    BY <2>1, <2>2
<1>9. Abstract!Collect
  <2> DEFINE F == Fetched'
             new == SubSeq(F, Len(Fetched) + 1, Len(F))
  <2>1. \A i \in 1 .. Len(Fetched) : F[i] = Fetched[i]
    BY <1>4, <1>5
  <2>2. F \in Seq(Entrants) /\ Continued(Fetched, F, nummsgs, Range(box))
    BY <1>4, <1>5, <1>8, <2>1 DEF Continued
  <2> HIDE DEF F
  <2>3. Brings(Fetched, F, Range(box))
    BY <1>2, <1>4, <2>2, Collects
  <2>4. Range(box') = Range(box)
    BY <1>1
  <2> QED
    BY <2>3, <2>4, RangeAgain DEF Abstract!Collect, Brings, F
<1>10. Known'
  <2>1. DOMAIN Fetched' = 1 .. Len(db) + nummsgs
    BY <1>5, LenProperties
  <2>2. \A i \in 1 .. Len(db) + nummsgs :
          i \in 1 .. Len(db) \/ (i - Len(db) \in 1 .. nummsgs /\ Len(db) + (i - Len(db)) = i)
    BY <1>2
  <2>3. \A i \in 1 .. Len(db) : Fetched'[i] \in Range(Fetched)
    <3>1. DOMAIN Fetched = 1 .. Len(db)
      BY <1>4, LenProperties
    <3> QED
      BY <1>4, <1>5, <3>1 DEF Range
  <2>4. Range(Fetched) \subseteq arrived \cup {None} /\ Range(box) \subseteq arrived
    BY RangeOfBox DEF DInv, Known
  <2>5. \A i \in 1 .. Len(db) + nummsgs : Fetched'[i] \in arrived \cup {None}
    BY <1>8, <2>2, <2>3, <2>4
  <2>6. Range(Fetched') \subseteq arrived \cup {None}
    BY <2>1, <2>5 DEF Range
  <2> QED
    BY <1>1, <2>6 DEF Known, Range
<1>11. Promised'
  <2> SUFFICES ASSUME quit' = "sent", NEW x \in leaving' PROVE x \in Range(Fetched')
    BY DEF Promised, Range
  <2>1. up
    BY <1>1 DEF DInv, InSession, Talking
  <2>2. PICK i \in marked : x = session[i]
    BY <1>1, <2>1
  <2>3. i \in 1 .. nummsgs /\ spool[i] = Wire(session[i])
    BY DEF DInv, IInv, MarkedWhole
  <2>4. Fetched'[Len(db) + i] = x
    BY <1>6, <2>2, <2>3
  <2>5. Len(db) + i \in 1 .. Len(db) + nummsgs
    BY <1>2, <2>3
  <2>6. DOMAIN Fetched' = 1 .. Len(db) + nummsgs
    BY <1>5, LenProperties
  <2> QED
    BY <2>4, <2>5, <2>6 DEF Range
<1>12. Numbers'
  <2>1. Free = next /\ Free' = next
    BY <1>1 DEF Free
  <2> QED
    BY <1>1, <2>1 DEF DInv, Numbers
<1> QED
  BY <1>1, <1>9, <1>10, <1>11, <1>12, SessionOver DEF Rest4
-----------------------------------------------------------------------------
(* Importing what was brought                                              *)

LEMMA AfterSession ==
  ASSUME DInv, Fetched' = Fetched, Numbers',
         pc' \in {"off", "quit", "import", "record", "unlink"},
         UNCHANGED <<box, arrived, quit, leaving>>
  PROVE  Rest4' /\ UNCHANGED deliveryVars
<1>1. Known' /\ Promised'
  BY InboxKept
<1>2. InSession' /\ GetsReplies'
  BY SessionOver
<1> QED
  BY <1>1, <1>2 DEF Rest4, deliveryVars, Range

LEMMA DisconnectDelivers ==
  ASSUME DInv, IInv', Disconnect PROVE Rest4' /\ UNCHANGED deliveryVars
<1>1. /\ pc = "quit" /\ pc' = "import" /\ nextemail' = next
      /\ UNCHANGED <<box, arrived, quit, leaving, msg, nummsgs, spool, files, db, next>>
  BY DEF Disconnect, server, inbox
<1>2. msg = 1
  BY <1>1 DEF DInv, IInv, Counting
<1>3. From = 1 /\ From' = 1 /\ Left' = Left
  <2>1. From = 1 /\ From' = 1
    BY <1>1, <1>2 DEF From
  <2> QED
    BY <1>1, <2>1 DEF Left
<1>4. Fetched' = Fetched
  BY <1>1, <1>3, FetchedStays DEF DInv
<1>5. Numbers'
  <2>1. Free = next /\ Free' = next
    BY <1>1 DEF Free
  <2> QED
    BY <1>1, <2>1 DEF DInv, Numbers
<1> QED
  BY <1>1, <1>4, <1>5, AfterSession

LEMMA ImportCopyDelivers ==
  ASSUME DInv, IInv', ImportCopy PROVE Rest4' /\ UNCHANGED deliveryVars
<1>1. /\ pc = "import" /\ msg <= nummsgs /\ pc' = "record"
      /\ files' = [files EXCEPT ![nextemail] = Text(spool[msg])]
      /\ nextemail' = nextemail + 1
      /\ UNCHANGED <<box, arrived, quit, leaving, msg, nummsgs, spool, db, next>>
  BY DEF ImportCopy, Importing, server, net
<1>2. /\ msg \in Nat /\ nummsgs \in Nat /\ next \in Nat /\ next >= 1 /\ msg >= 1
      /\ nextemail \in Nat /\ next + nummsgs <= MaxNum + 1
  BY <1>1, WithinRoom DEF DInv
<1>3. nextemail \in 1 .. MaxNum /\ nextemail' - 1 = nextemail
  <2>1. nextemail = next + msg - 1
    BY <1>1 DEF DInv, IInv, Counting
  <2> QED
    BY <1>1, <1>2, <2>1, Sizes
<1>4. Free = nextemail /\ Free' = nextemail
  <2>1. Free = nextemail /\ Free' = nextemail' - 1
    BY <1>1 DEF Free
  <2> QED
    BY <1>3, <2>1
<1>5. Len(db) \in Nat /\ \A i \in 1 .. Len(db) : db[i] \in 1 .. MaxNum /\ db[i] < nextemail
  BY <1>4, ElementOfSeq, LenProperties DEF DInv, IInv, TypeOK, Numbers
<1>6. /\ files'[nextemail] = Text(spool[msg])
      /\ \A i \in 1 .. Len(db) : files'[db[i]] = files[db[i]]
  <2>1. /\ files'[nextemail] = Text(spool[msg])
        /\ \A n \in 1 .. MaxNum : n # nextemail => files'[n] = files[n]
    BY <1>1, <1>3 DEF DInv, IInv, Disk
  <2>2. \A i \in 1 .. Len(db) : db[i] \in 1 .. MaxNum /\ db[i] # nextemail
    BY <1>2, <1>5
  <2> QED
    BY <2>1, <2>2
<1>7. Fetched' = Fetched
  <2>1. From' = From /\ Left' = Left
    BY <1>1 DEF From, Left
  <2>2. \A k \in 1 .. Left : spool'[From' + k - 1] = spool[From + k - 1]
    BY <1>1, <2>1
  <2> QED
    BY <1>1, <1>6, <2>1, <2>2, FetchedStays DEF DInv
<1>8. Numbers'
  BY <1>1, <1>3, <1>4, <1>5, <1>6 DEF Numbers
<1> QED
  BY <1>1, <1>7, <1>8, AfterSession

LEMMA ImportRecordDelivers ==
  ASSUME "full" \notin Faults, DInv, IInv', ImportRecord
  PROVE  Rest4' /\ UNCHANGED deliveryVars
<1>1. /\ pc = "record" /\ pc' = "unlink" /\ db' = Append(db, nextemail - 1)
      /\ UNCHANGED <<box, arrived, quit, leaving, msg, nummsgs, nextemail, spool, files, next>>
  BY DEF ImportRecord, server, net
<1>2. msg \in Nat /\ nummsgs \in Nat /\ nextemail \in Nat /\ msg \in 1 .. nummsgs
  BY <1>1, WithinRoom DEF DInv, IInv, Counting
<1>3. nextemail - 1 \in 1 .. MaxNum
  <2>1. nextemail = next + msg
    BY <1>1 DEF DInv, IInv, Counting
  <2>2. next \in Nat /\ next >= 1 /\ next + nummsgs <= MaxNum + 1
    BY <1>1, WithinRoom DEF DInv
  <2> QED
    BY <1>2, <2>1, <2>2, Sizes
<1>4. /\ Len(db) \in Nat /\ Len(db') = Len(db) + 1
      /\ \A i \in 1 .. Len(db) : db'[i] = db[i]
      /\ db'[Len(db) + 1] = nextemail - 1
  <2>1. db \in Seq(1 .. MaxNum)
    BY DEF DInv, IInv, TypeOK
  <2>2. \A n \in 1 .. MaxNum :
          /\ Len(Append(db, n)) = Len(db) + 1
          /\ \A i \in 1 .. Len(db) : Append(db, n)[i] = db[i]
          /\ Append(db, n)[Len(db) + 1] = n
    BY <2>1, AppendProperties
  <2>3. Len(db) \in Nat
    BY <2>1, LenProperties
  <2> QED
    BY <1>1, <1>3, <2>2, <2>3
<1> DEFINE n == Len(db)
           L == Left'
<1>5. /\ From = msg /\ From' = msg + 1
      /\ Left = nummsgs - msg + 1 /\ L = nummsgs - (msg + 1) + 1
  BY <1>1 DEF From, Left
<1>6. L \in Nat /\ Left = L + 1
  BY <1>2, <1>5
<1>7. /\ Fetched \in Seq(Entrants) /\ Len(Fetched) = n + Left
      /\ \A i \in 1 .. n : Fetched[i] = Entry(files[db[i]])
      /\ \A k \in 1 .. Left : Fetched[n + k] = Entry(Text(spool[msg + k - 1]))
  <2>1. FetchedAre
    BY FetchedEntries DEF DInv
  <2> QED
    BY <1>5, <2>1 DEF FetchedAre
<1>8. /\ Fetched' \in Seq(Entrants) /\ Len(Fetched') = (n + 1) + L
      /\ \A i \in 1 .. n + 1 : Fetched'[i] = Entry(files[db'[i]])
      /\ \A k \in 1 .. L : Fetched'[(n + 1) + k] = Entry(Text(spool[(msg + 1) + k - 1]))
  <2>1. FetchedAre'
    BY FetchedEntriesNext
  <2> QED
    BY <1>1, <1>4, <1>5, <2>1 DEF FetchedAre, Entrants
<1>9. files[nextemail - 1] = Text(spool[msg])
  BY <1>1 DEF DInv, Numbers
<1> HIDE DEF n, L
<1>10. n \in Nat
  BY <1>4 DEF n
<1>11. \A i \in 1 .. n : Fetched'[i] = Fetched[i]
  <2>1. \A i \in 1 .. n : i \in 1 .. n + 1 /\ db'[i] = db[i]
    BY <1>4, <1>10 DEF n
  <2> QED
    BY <1>7, <1>8, <2>1
<1>12. Fetched'[n + 1] = Fetched[n + 1]
  <2>1. n + 1 \in 1 .. n + 1 /\ db'[n + 1] = nextemail - 1
    BY <1>4, <1>10 DEF n
  <2>2. 1 \in 1 .. Left /\ msg + 1 - 1 = msg
    BY <1>2, <1>6
  <2> QED
    BY <1>7, <1>8, <1>9, <2>1, <2>2
<1>13. \A k \in 1 .. L : Fetched'[(n + 1) + k] = Fetched[(n + 1) + k]
  <2>1. \A k \in 1 .. L : /\ k + 1 \in 1 .. Left /\ n + (k + 1) = (n + 1) + k
                          /\ msg + (k + 1) - 1 = (msg + 1) + k - 1
    BY <1>2, <1>6, <1>10
  <2>2. \A k \in 1 .. L : Fetched[n + (k + 1)] = Entry(Text(spool[msg + (k + 1) - 1]))
    BY <1>7, <2>1
  <2>3. \A k \in 1 .. L : Fetched[(n + 1) + k] = Entry(Text(spool[(msg + 1) + k - 1]))
    BY <2>1, <2>2
  <2> QED
    BY <1>8, <2>3
<1>14. Fetched' = Fetched
  <2>1. n + Left = (n + 1) + L
    BY <1>6, <1>10
  <2>2. \A i \in 1 .. (n + 1) + L : i \in 1 .. n \/ i = n + 1
                   \/ (i - (n + 1) \in 1 .. L /\ (n + 1) + (i - (n + 1)) = i)
    BY <1>6, <1>10
  <2>3. \A i \in 1 .. Len(Fetched') : Fetched'[i] = Fetched[i]
    BY <1>8, <1>11, <1>12, <1>13, <2>2
  <2> QED
    BY <1>7, <1>8, <2>1, <2>3, SeqEqual
<1>15. Numbers'
  <2>1. Free = nextemail - 1 /\ Free' = nextemail
    BY <1>1 DEF Free
  <2>2. \A i \in 1 .. n : db[i] \in 1 .. MaxNum /\ db[i] < nextemail - 1
    BY <2>1, ElementOfSeq DEF DInv, IInv, TypeOK, Numbers, n
  <2>3. \A i \in 1 .. n : db'[i] < nextemail
    BY <1>2, <1>4, <2>2 DEF n
  <2>4. db'[n + 1] < nextemail
    BY <1>2, <1>4 DEF n
  <2>5. \A i \in 1 .. n + 1 : i \in 1 .. n \/ i = n + 1
    BY <1>10
  <2>6. \A i \in 1 .. Len(db') : db'[i] < nextemail
    BY <1>4, <2>3, <2>4, <2>5 DEF n
  <2> QED
    BY <1>1, <2>1, <2>6 DEF Numbers
<1> QED
  BY <1>1, <1>14, <1>15, AfterSession

LEMMA ImportUnlinkDelivers ==
  ASSUME DInv, IInv', ImportUnlink PROVE Rest4' /\ UNCHANGED deliveryVars
<1>1. /\ pc = "unlink" /\ pc' = "import" /\ msg' = msg + 1
      /\ spool' = [spool EXCEPT ![msg] = None]
      /\ UNCHANGED <<box, arrived, quit, leaving, nummsgs, nextemail, files, db, next>>
  BY DEF ImportUnlink, server, net, inbox
<1>2. msg \in 1 .. nummsgs /\ nummsgs \in Nat /\ msg \in Nat /\ nummsgs <= Cardinality(Mails)
  BY <1>1, WithinRoom DEF DInv, IInv, Counting
<1>3. From = msg + 1 /\ From' = msg + 1 /\ Left' = Left /\ Left = nummsgs - (msg + 1) + 1
  BY <1>1 DEF From, Left
<1>4. \A k \in 1 .. Left : spool'[From' + k - 1] = spool[From + k - 1]
  <2>1. \A i \in Slots : i # msg => spool'[i] = spool[i]
    BY <1>1 DEF DInv, IInv, Disk
  <2>2. \A k \in 1 .. nummsgs - (msg + 1) + 1 :
          (msg + 1) + k - 1 \in 1 .. Cardinality(Mails) /\ (msg + 1) + k - 1 # msg
    BY <1>2, Sizes
  <2>3. \A k \in 1 .. Left : spool'[(msg + 1) + k - 1] = spool[(msg + 1) + k - 1]
    BY <1>3, <2>1, <2>2 DEF Slots
  <2> QED
    BY <1>3, <2>3
<1>5. Fetched' = Fetched
  BY <1>1, <1>3, <1>4, FetchedStays DEF DInv
<1>6. Numbers'
  <2>1. Free = nextemail /\ Free' = nextemail
    BY <1>1 DEF Free
  <2> QED
    BY <1>1, <2>1 DEF DInv, Numbers
<1> QED
  BY <1>1, <1>5, <1>6, AfterSession

LEMMA ImportDoneDelivers ==
  ASSUME DInv, IInv', ImportDone PROVE Rest4' /\ UNCHANGED deliveryVars
<1>1. /\ pc = "import" /\ msg > nummsgs /\ pc' = "off" /\ next' = nextemail
      /\ nummsgs' = 0
      /\ UNCHANGED <<box, arrived, quit, leaving, spool, files, db>>
  BY DEF ImportDone, Off, server
<1>2. msg \in Nat /\ nummsgs \in Nat /\ msg = nummsgs + 1
  <2>1. msg \in 1 .. (nummsgs + 1) /\ msg \in Nat /\ nummsgs \in Nat
    BY <1>1, WithinRoom DEF DInv, IInv, Counting
  <2> QED
    BY <1>1, <2>1
<1>3. Left = 0 /\ Left' = 0
  <2>1. From = nummsgs + 1 /\ From' = 0 + 1
    BY <1>1, <1>2 DEF From
  <2>2. Left = nummsgs - (nummsgs + 1) + 1 /\ Left' = 0 - (0 + 1) + 1
    BY <1>1, <2>1 DEF Left
  <2>3. \A n \in Nat : n - (n + 1) + 1 = 0
    OBVIOUS
  <2> QED
    BY <1>2, <2>2, <2>3
<1>4. \A k \in 1 .. Left : spool'[From' + k - 1] = spool[From + k - 1]
  BY <1>3
<1>5. Fetched' = Fetched
  BY <1>1, <1>3, <1>4, FetchedStays DEF DInv
<1>6. Numbers'
  <2>1. Free = nextemail /\ Free' = nextemail
    BY <1>1 DEF Free
  <2> QED
    BY <1>1, <2>1 DEF DInv, Numbers
<1> QED
  BY <1>1, <1>5, <1>6, AfterSession

-----------------------------------------------------------------------------
(* The refinement                                                          *)

LEMMA InitDelivers == Init => DInv /\ Abstract!Init
<1> SUFFICES ASSUME Init PROVE DInv /\ Abstract!Init
  OBVIOUS
<1>1. IInv
  BY InitHolds
<1>2. pc = "off" /\ db = << >> /\ box = << >> /\ quit = "none" /\ nummsgs = 0
  BY DEF Init
<1>3. Fetched = << >>
  <2>1. FetchedAre
    BY <1>1, FetchedEntries
  <2>2. Left = 0
    <3>1. From = 0 + 1
      BY <1>2 DEF From
    <3>2. Left = 0 - (0 + 1) + 1
      BY <1>2, <3>1 DEF Left
    <3> QED
      BY <3>2
  <2>3. Len(db) = 0
    BY <1>2
  <2>4. Fetched \in Seq(Entrants) /\ Len(Fetched) = 0
    BY <2>1, <2>2, <2>3 DEF FetchedAre
  <2> HIDE DEF Fetched
  <2> QED
    BY <2>4, EmptySeq
<1>4. Range(<< >>) = {}
  BY DEF Range
<1>5. InSession /\ GetsReplies
  BY <1>2 DEF InSession, GetsReplies, Talking
<1>6. Numbers /\ Known /\ Promised
  BY <1>2, <1>3, <1>4 DEF Numbers, Known, Promised
<1>7. Abstract!Init
  BY <1>2, <1>3, <1>4 DEF Abstract!Init
<1> QED
  BY <1>1, <1>5, <1>6, <1>7 DEF DInv

LEMMA NextDelivers ==
  ASSUME Faults \subseteq {"drop", "refused"}
  PROVE  DInv /\ [Next]_vars => DInv' /\ [Abstract!Next]_deliveryVars
<1> SUFFICES ASSUME DInv, [Next]_vars
             PROVE  Rest4' /\ (Abstract!Next \/ UNCHANGED deliveryVars)
  BY NextHolds DEF DInv, Rest4
<1>0. IInv' /\ "full" \notin Faults /\ "crash" \notin Faults
  BY NextHolds DEF DInv
<1>1. CASE \E x \in Mails : Arrive(x)
  BY <1>0, <1>1, ArriveDelivers DEF Abstract!Next
<1>2. CASE Start
  BY <1>0, <1>2, StartDelivers
<1>3. CASE Session
  <2>1. CASE SendQuit
    BY <1>0, <2>1, SendQuitDelivers DEF Abstract!Next
  <2>2. ~ReceiveFull
    BY <1>0 DEF ReceiveFull
  <2> QED
    BY <1>0, <1>3, <2>1, <2>2, RetrDelivers, ReceiveDelivers, DataClosedDelivers,
       DeleDelivers, DisconnectDelivers DEF Session
<1>4. CASE UpdateInbox
  <2>1. ~ImportCopyFull
    BY <1>0 DEF ImportCopyFull
  <2> QED
    BY <1>0, <1>4, <2>1, ImportCopyDelivers, ImportRecordDelivers, ImportUnlinkDelivers,
       ImportDoneDelivers DEF UpdateInbox
<1>5. CASE Network
  BY <1>0, <1>5, ServerQuitDelivers, DropDelivers, AutologoutDelivers
     DEF Network, Abstract!Next
<1>6. CASE Crash
  BY <1>0, <1>6 DEF Crash
<1>7. CASE UNCHANGED vars
  <2>1. /\ UNCHANGED <<prog, session, spool, inbox>>
        /\ box' = box /\ arrived' = arrived /\ quit' = quit /\ leaving' = leaving
    BY <1>7 DEF vars, server, net
  <2>2. Rest4' /\ Fetched' = Fetched
    BY <1>0, <2>1, ProgramStill
  <2> QED
    BY <2>1, <2>2 DEF deliveryVars, Range
<1> QED
  BY <1>1, <1>2, <1>3, <1>4, <1>5, <1>6, <1>7 DEF Next

\* While the disk has room and the machine is not reset, a run moves mail as
\* Delivery says, whatever the network does: what QUIT lets the server remove
\* is in the inbox in one piece by the end of update_inbox, and no message
\* gets there twice in a run.
THEOREM Implementation ==
  ASSUME Faults \subseteq {"drop", "refused"}
  PROVE  Spec => Delivers
<1>1. Init => DInv /\ Abstract!Init
  BY InitDelivers
<1>2. DInv /\ [Next]_vars => DInv' /\ [Abstract!Next]_deliveryVars
  BY NextDelivers
<1>3. deliveryVars = <<Range(box), Fetched>>
  BY DEF deliveryVars
<1> QED
  BY <1>1, <1>2, <1>3, PTL DEF Spec, Delivers, Abstract!Spec, deliveryVars

=============================================================================
