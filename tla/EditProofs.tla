----------------------------- MODULE EditProofs -----------------------------
(***************************************************************************)
(* A careful user's buffer of EDIT.SYSTEM is a text with a cursor in it,   *)
(* for any size of the memory, any text and any sequence of commands: the  *)
(* gap stays within the memory (GapStaysSound) and every command does to   *)
(* the text what Text says, undo included (Implementation).                *)
(*                                                                         *)
(* The proof looks at the text character by character: Place finds one in  *)
(* the memory, moving the gap leaves every one where Place looks for it    *)
(* afterwards (Jumping), and writing into the gap leaves them alone        *)
(* (Inserting).  What undo goes back to stays in the memory as long as the *)
(* gap is not moved (GapInv).                                              *)
(***************************************************************************)
EXTENDS Edit, FiniteSetTheorems, SequenceTheorems, TLAPS

-----------------------------------------------------------------------------
(* The text, character by character                                        *)

Bytes == Chars \cup {Nul}
Memory == [0 .. BufSz - 1 -> Bytes]

\* The gap from g to e lies within the buffer.
Lies(g, e) == g \in Nat /\ e \in Nat \cup {-1} /\ g <= e + 1 /\ e <= BufSz - 1

Size(g, e) == g + (BufSz - 1 - e)

\* Where character i of the text is
Place(g, e, i) == IF i <= g THEN i - 1 ELSE (i - g) + e

\* Every character has a place in the memory, outside the gap.
LEMMA Places ==
  ASSUME NEW g, NEW e, Lies(g, e)
  PROVE  /\ g \in Int /\ e \in Int /\ Size(g, e) \in Nat /\ g <= Size(g, e)
         /\ \A i \in 1 .. Size(g, e) :
              /\ Place(g, e, i) \in 0 .. BufSz - 1
              /\ Place(g, e, i) < g \/ Place(g, e, i) > e
  BY EditAssumption DEF Lies, Size, Place

\* The text of a memory, character by character.
LEMMA ContentIs ==
  ASSUME NEW b \in Memory, NEW g, NEW e, Lies(g, e)
  PROVE  /\ Content(b, g, e) = [i \in 1 .. Size(g, e) |-> b[Place(g, e, i)]]
         /\ Content(b, g, e) \in Seq(Bytes)
         /\ Len(Content(b, g, e)) = Size(g, e)
<1> DEFINE s == [i \in 1 .. g |-> b[i - 1]]
           t == [i \in 1 .. (BufSz - 1 - e) |-> b[e + i]]
           c == [i \in 1 .. Size(g, e) |-> b[Place(g, e, i)]]
<1>1. /\ g \in Nat /\ BufSz - 1 - e \in Nat /\ e \in Int /\ g <= e + 1
      /\ Size(g, e) = g + (BufSz - 1 - e) /\ Size(g, e) \in Nat
  BY EditAssumption DEF Lies, Size
<1>2. /\ \A i \in 1 .. g : i - 1 \in 0 .. BufSz - 1
      /\ \A i \in 1 .. (BufSz - 1 - e) : e + i \in 0 .. BufSz - 1
  BY <1>1, EditAssumption DEF Lies
<1>3. s \in Seq(Bytes) /\ Len(s) = g
  <2>1. s \in [1 .. g -> Bytes]
    BY <1>2 DEF Memory
  <2> QED
    BY <2>1, <1>1
<1>4. t \in Seq(Bytes) /\ Len(t) = BufSz - 1 - e
  <2>1. t \in [1 .. (BufSz - 1 - e) -> Bytes]
    BY <1>2 DEF Memory
  <2> QED
    BY <2>1, <1>1
<1>5. c \in Seq(Bytes) /\ Len(c) = Size(g, e)
  <2>1. c \in [1 .. Size(g, e) -> Bytes]
    BY Places DEF Memory
  <2> QED
    BY <2>1, <1>1
<1>6. s \o t \in Seq(Bytes) /\ Len(s \o t) = Size(g, e)
  <2> HIDE DEF s, t
  <2> QED
    BY <1>1, <1>3, <1>4
<1>7. ASSUME NEW i \in 1 .. Size(g, e) PROVE (s \o t)[i] = c[i]
  <2>1. CASE i <= g
    <3>1. (s \o t)[i] = s[i]
      <4> HIDE DEF s, t
      <4> QED
        BY <1>1, <1>3, <1>4, <2>1
    <3> QED
      BY <3>1, <2>1, <1>1 DEF Place
  <2>2. CASE i > g
    <3>1. (s \o t)[i] = t[i - g]
      <4> HIDE DEF s, t
      <4> QED
        BY <1>1, <1>3, <1>4, <2>2
    <3>2. i - g \in 1 .. (BufSz - 1 - e) /\ e + (i - g) = (i - g) + e
      BY <1>1, <2>2
    <3>3. t[i - g] = b[e + (i - g)]
      BY <3>2
    <3> QED
      BY <3>1, <3>2, <3>3, <2>2, <1>1 DEF Place
  <2> QED
    BY <2>1, <2>2, <1>1
<1>8. s \o t = c
  <2> HIDE DEF s, t, c
  <2> QED
    BY <1>5, <1>6, <1>7, SeqEqual
<1>9. Content(b, g, e) = s \o t
  BY DEF Content
<1> QED
  BY <1>5, <1>8, <1>9

\* Two memories hold the same text when their characters agree.
LEMMA SameContent ==
  ASSUME NEW b \in Memory, NEW g, NEW e, Lies(g, e),
         NEW c \in Memory, NEW h, NEW f, Lies(h, f),
         Size(g, e) = Size(h, f),
         \A i \in 1 .. Size(g, e) : c[Place(h, f, i)] = b[Place(g, e, i)]
  PROVE  Content(c, h, f) = Content(b, g, e)
<1>1. /\ Content(c, h, f) = [i \in 1 .. Size(h, f) |-> c[Place(h, f, i)]]
      /\ Content(b, g, e) = [i \in 1 .. Size(g, e) |-> b[Place(g, e, i)]]
  BY ContentIs
<1> QED
  BY <1>1

\* What writing a piece at d does to the memory.
LEMMA Written ==
  ASSUME NEW b \in Memory, NEW d \in Int, NEW s \in Seq(Bytes)
  PROVE  /\ Put(b, d, s) \in Memory
         /\ \A k \in 0 .. BufSz - 1 :
              Put(b, d, s)[k] = IF d <= k /\ k < d + Len(s) THEN s[k - d + 1] ELSE b[k]
<1>1. DOMAIN b = 0 .. BufSz - 1 /\ DOMAIN s = 1 .. Len(s) /\ Len(s) \in Nat
  BY DEF Memory
<1>2. \A i \in 1 .. Len(s) : s[i] \in Bytes
  OBVIOUS
<1>3. \A k \in 0 .. BufSz - 1 :
        Put(b, d, s)[k] = IF d <= k /\ k < d + Len(s) THEN s[k - d + 1] ELSE b[k]
  <2> TAKE k \in 0 .. BufSz - 1
  <2>1. Put(b, d, s)[k] = IF k - d + 1 \in DOMAIN s THEN s[k - d + 1] ELSE b[k]
    BY <1>1 DEF Put
  <2>2. k - d + 1 \in DOMAIN s <=> d <= k /\ k < d + Len(s)
    BY <1>1, EditAssumption
  <2> QED
    BY <2>1, <2>2
<1>4. Put(b, d, s) = [k \in 0 .. BufSz - 1 |->
                        IF k - d + 1 \in DOMAIN s THEN s[k - d + 1] ELSE b[k]]
  BY <1>1 DEF Put
<1>5. \A k \in 0 .. BufSz - 1 :
        (IF k - d + 1 \in DOMAIN s THEN s[k - d + 1] ELSE b[k]) \in Bytes
  BY <1>1, <1>2 DEF Memory
<1>6. Put(b, d, s) \in Memory
  BY <1>4, <1>5 DEF Memory
<1> QED
  BY <1>3, <1>6

\* What is read from the memory.
LEMMA Reading ==
  ASSUME NEW b \in Memory, NEW i \in Int, NEW n \in Nat
  PROVE  /\ Get(b, i, n) \in Seq(Bytes)
         /\ Len(Get(b, i, n)) = n
         /\ \A k \in 1 .. n : Get(b, i, n)[k] = At(b, i + k - 1)
         /\ \A k \in 0 .. BufSz - 1 : At(b, k) = b[k]
<1>1. DOMAIN b = 0 .. BufSz - 1
  BY DEF Memory
<1>2. \A k \in Int : At(b, k) \in Bytes
  BY <1>1 DEF At, Memory, Bytes
<1>3. Get(b, i, n) = [k \in 1 .. n |-> At(b, i + k - 1)]
  BY DEF Get
<1>4. Get(b, i, n) \in [1 .. n -> Bytes]
  BY <1>2, <1>3
<1>5. Get(b, i, n) \in Seq(Bytes) /\ Len(Get(b, i, n)) = n
  BY <1>4
<1>6. \A k \in 1 .. n : Get(b, i, n)[k] = At(b, i + k - 1)
  BY <1>3
<1>7. \A k \in 0 .. BufSz - 1 : At(b, k) = b[k]
  BY <1>1 DEF At
<1> QED
  BY <1>5, <1>6, <1>7

\* What copying a piece within the memory does.
LEMMA Copying ==
  ASSUME NEW b \in Memory, NEW d \in Int, NEW i \in Int, NEW n \in Nat
  PROVE  /\ Put(b, d, Get(b, i, n)) \in Memory
         /\ \A k \in 0 .. BufSz - 1 :
              Put(b, d, Get(b, i, n))[k] =
                IF d <= k /\ k < d + n THEN At(b, (k - d) + i) ELSE b[k]
<1>1. /\ Get(b, i, n) \in Seq(Bytes) /\ Len(Get(b, i, n)) = n
      /\ \A k \in 1 .. n : Get(b, i, n)[k] = At(b, i + k - 1)
  BY Reading
<1>2. /\ Put(b, d, Get(b, i, n)) \in Memory
      /\ \A k \in 0 .. BufSz - 1 :
           Put(b, d, Get(b, i, n))[k] =
             IF d <= k /\ k < d + n THEN Get(b, i, n)[k - d + 1] ELSE b[k]
  BY <1>1, Written
<1>3. ASSUME NEW k \in 0 .. BufSz - 1, d <= k /\ k < d + n
      PROVE  Get(b, i, n)[k - d + 1] = At(b, (k - d) + i)
  <2>1. k - d + 1 \in 1 .. n /\ i + (k - d + 1) - 1 = (k - d) + i
    BY <1>3, EditAssumption
  <2> QED
    BY <2>1, <1>1
<1> QED
  BY <1>2, <1>3

\* Moving the gap to p, somewhere in the text, moves no character: the bytes
\* that cross the gap arrive where the text continues.
LEMMA Moving ==
  ASSUME NEW b \in Memory, NEW g, NEW e, Lies(g, e),
         NEW p \in 0 .. Size(g, e), p <= BufSz - 1, p # g,
         NEW c, c = Jumped(b, g, e, p)[1]
  PROVE  /\ Jumped(b, g, e, p) = <<c, p, e + (p - g)>>
         /\ c \in Memory
         /\ Lies(p, e + (p - g))
         /\ Content(c, p, e + (p - g)) = Content(b, g, e)
<1> DEFINE f == e + (p - g)
<1>1. /\ g \in Nat /\ e \in Int /\ p \in Nat /\ f \in Int
      /\ g <= e + 1 /\ e <= BufSz - 1 /\ p <= BufSz - 1
      /\ p <= g + (BufSz - 1 - e)
  BY EditAssumption DEF Lies, Size
<1>2. Lies(p, f) /\ Size(p, f) = Size(g, e)
  BY <1>1, EditAssumption DEF Lies, Size
<1>3. CASE p > g
  <2>1. Jumped(b, g, e, p) = <<MoveIn(b, g, e + 1, p - g), p, f>>
    BY <1>1, <1>3, EditAssumption DEF Jumped
  <2>2. ~(g > e + 1) /\ p - g \in Nat
    BY <1>1, <1>3
  <2>3. c = Put(b, g, Get(b, e + 1, p - g))
    BY <2>1, <2>2 DEF MoveIn
  <2>4. /\ c \in Memory
        /\ \A k \in 0 .. BufSz - 1 :
             c[k] = IF g <= k /\ k < g + (p - g) THEN At(b, (k - g) + (e + 1)) ELSE b[k]
    <3>1. e + 1 \in Int /\ g \in Int
      BY <1>1
    <3> QED
      BY <2>2, <2>3, <3>1, Copying
  <2>5. \A i \in 1 .. Size(g, e) : c[Place(p, f, i)] = b[Place(g, e, i)]
    <3> TAKE i \in 1 .. Size(g, e)
    <3>1. Place(g, e, i) \in 0 .. BufSz - 1 /\ Place(p, f, i) \in 0 .. BufSz - 1
      BY <1>2, Places
    <3>2. i \in Int
      BY <1>1, EditAssumption DEF Size
    <3>3. CASE i <= g
      <4>1. Place(g, e, i) = i - 1 /\ Place(p, f, i) = i - 1
        BY <1>1, <1>3, <3>2, <3>3 DEF Place
      <4>2. c[i - 1] = b[i - 1]
        BY <1>1, <2>4, <3>1, <3>2, <3>3, <4>1
      <4> QED
        BY <4>1, <4>2
    <3>4. CASE g < i /\ i <= p
      <4>1. Place(g, e, i) = (i - g) + e /\ Place(p, f, i) = i - 1
        BY <1>1, <3>2, <3>4 DEF Place
      <4>2. ((i - 1) - g) + (e + 1) = (i - g) + e
        BY <1>1, <3>2
      <4>3. c[i - 1] = At(b, (i - g) + e)
        <5>1. c[i - 1] = At(b, ((i - 1) - g) + (e + 1))
          BY <1>1, <2>4, <3>1, <3>2, <3>4, <4>1
        <5> QED
          BY <4>2, <5>1
      <4>4. At(b, (i - g) + e) = b[(i - g) + e]
        BY <3>1, <4>1 DEF At, Memory
      <4> QED
        BY <4>1, <4>3, <4>4
    <3>5. CASE p < i
      <4>1. Place(g, e, i) = (i - g) + e /\ Place(p, f, i) = (i - g) + e
        BY <1>1, <1>3, <3>2, <3>5 DEF Place
      <4>2. ~((i - g) + e < g + (p - g))
        BY <1>1, <3>2, <3>5
      <4>3. c[(i - g) + e] = b[(i - g) + e]
        BY <2>4, <3>1, <4>1, <4>2
      <4> QED
        BY <4>1, <4>3
    <3> QED
      BY <1>1, <3>2, <3>3, <3>4, <3>5
  <2>6. Content(c, p, f) = Content(b, g, e)
    BY <1>2, <2>4, <2>5, SameContent
  <2> QED
    BY <1>2, <2>1, <2>3, <2>4, <2>6
<1>4. CASE p < g
  <2> DEFINE n == g - p
             d == (e - n) + 1
  <2>1. Jumped(b, g, e, p) = <<MoveIn(b, d, p, n), p, f>>
    <3>1. e - n = f
      BY <1>1
    <3>2. Jumped(b, g, e, p) = <<MoveIn(b, d, p, n), p, e - n>>
      BY <1>1, <1>4, EditAssumption, SMTT(30) DEF Jumped
    <3> QED
      BY <3>1, <3>2
  <2>2. c = MoveIn(b, d, p, n)
    BY <2>1
  <2>3. n \in Nat /\ d \in Int /\ d = f + 1 /\ p <= d /\ d + n = e + 1
    BY <1>1, <1>4
  \* The byte below the piece is copied too, into the gap.
  <2>4. /\ c \in Memory
        /\ \A k \in 0 .. BufSz - 1 :
             /\ d <= k /\ k < d + n => c[k] = At(b, (k - d) + p)
             /\ k < d - 1 \/ k >= d + n => c[k] = b[k]
             /\ k = d - 1 /\ k < p => c[k] = b[k]
    <3>1. CASE d > p
      <4>1. c = Put(b, d - 1, Get(b, p - 1, n + 1))
        BY <2>2, <3>1 DEF MoveIn
      <4>2. /\ c \in Memory
            /\ \A k \in 0 .. BufSz - 1 :
                 c[k] = IF d - 1 <= k /\ k < (d - 1) + (n + 1)
                        THEN At(b, (k - (d - 1)) + (p - 1)) ELSE b[k]
        <5>1. d - 1 \in Int /\ p - 1 \in Int /\ n + 1 \in Nat
          BY <1>1, <2>3
        <5> HIDE DEF d, n
        <5> QED
          BY <4>1, <5>1, Copying
      <4>3. ASSUME NEW k \in 0 .. BufSz - 1, d <= k, k < d + n
            PROVE  c[k] = At(b, (k - d) + p)
        <5>1. (k - (d - 1)) + (p - 1) = (k - d) + p /\ d - 1 <= k /\ k < (d - 1) + (n + 1)
          BY <1>1, <2>3, <4>3, EditAssumption
        <5> HIDE DEF d, n
        <5> QED
          BY <4>2, <5>1
      <4>4. ASSUME NEW k \in 0 .. BufSz - 1, k < d - 1 \/ k >= d + n
            PROVE  c[k] = b[k]
        <5>1. ~(d - 1 <= k /\ k < (d - 1) + (n + 1))
          BY <2>3, <4>4, EditAssumption
        <5> HIDE DEF d, n
        <5> QED
          BY <4>2, <5>1
      <4>5. ASSUME NEW k \in 0 .. BufSz - 1, k = d - 1, k < p
            PROVE  FALSE
        BY <1>1, <2>3, <3>1, <4>5, EditAssumption
      <4> HIDE DEF d, n
      <4> QED
        BY <4>2, <4>3, <4>4, <4>5
    <3>2. CASE ~(d > p)
      <4>1. c = Put(b, d, Get(b, p, n))
        BY <2>2, <3>2 DEF MoveIn
      <4>2. /\ c \in Memory
            /\ \A k \in 0 .. BufSz - 1 :
                 c[k] = IF d <= k /\ k < d + n THEN At(b, (k - d) + p) ELSE b[k]
        <5>1. p \in Int
          BY <1>1
        <5> HIDE DEF d, n
        <5> QED
          BY <2>3, <4>1, <5>1, Copying
      <4> HIDE DEF d, n
      <4> QED
        BY <2>3, <4>2, EditAssumption
    <3> QED
      BY <3>1, <3>2
  <2>5. \A i \in 1 .. Size(g, e) : c[Place(p, f, i)] = b[Place(g, e, i)]
    <3> TAKE i \in 1 .. Size(g, e)
    <3>1. Place(g, e, i) \in 0 .. BufSz - 1 /\ Place(p, f, i) \in 0 .. BufSz - 1
      BY <1>2, Places
    <3>2. i \in Int
      BY <1>1, EditAssumption DEF Size
    <3>3. CASE i <= p
      <4>1. Place(g, e, i) = i - 1 /\ Place(p, f, i) = i - 1
        BY <1>1, <1>4, <3>2, <3>3 DEF Place
      <4>2. i - 1 \in 0 .. BufSz - 1 /\ i - 1 < p
        BY <1>1, <3>1, <3>2, <3>3, <4>1
      <4>3. i - 1 < d - 1 \/ i - 1 = d - 1
        BY <1>1, <2>3, <3>2, <4>2
      <4> HIDE DEF d, n, f
      <4>4. c[i - 1] = b[i - 1]
        BY <2>4, <4>2, <4>3
      <4> QED
        BY <4>1, <4>4
    <3>4. CASE p < i /\ i <= g
      <4>1. Place(g, e, i) = i - 1 /\ Place(p, f, i) = (i - p) + f
        BY <1>1, <3>2, <3>4 DEF Place
      <4>2. /\ (((i - p) + f) - d) + p = i - 1
            /\ d <= (i - p) + f /\ (i - p) + f < d + n
        BY <1>1, <2>3, <3>2, <3>4
      <4>3. c[(i - p) + f] = At(b, i - 1)
        <5> HIDE DEF d, n, f
        <5>1. c[(i - p) + f] = At(b, (((i - p) + f) - d) + p)
          BY <2>4, <3>1, <4>1, <4>2
        <5> QED
          BY <4>2, <5>1
      <4>4. At(b, i - 1) = b[i - 1]
        BY <3>1, <4>1 DEF At, Memory
      <4> QED
        BY <4>1, <4>3, <4>4
    <3>5. CASE g < i
      <4>1. Place(g, e, i) = (i - g) + e /\ Place(p, f, i) = (i - g) + e
        BY <1>1, <1>4, <3>2, <3>5 DEF Place
      <4>2. (i - g) + e >= d + n
        BY <1>1, <2>3, <3>2, <3>5
      <4> HIDE DEF d, n, f
      <4>3. c[(i - g) + e] = b[(i - g) + e]
        BY <2>4, <3>1, <4>1, <4>2
      <4> QED
        BY <4>1, <4>3
    <3> QED
      BY <1>1, <3>2, <3>3, <3>4, <3>5
  <2>6. Content(c, p, f) = Content(b, g, e)
    BY <1>2, <2>4, <2>5, SameContent
  <2> QED
    BY <1>2, <2>1, <2>2, <2>4, <2>6
<1> QED
  BY <1>1, <1>3, <1>4

\* jump_pos to a place in the text keeps the text, the size of the gap and,
\* when the gap is there already, the memory.  The end of a full buffer is the
\* one place it does not go to.
LEMMA Jumping ==
  ASSUME NEW b \in Memory, NEW g, NEW e, Lies(g, e),
         NEW p \in 0 .. Size(g, e),
         NEW m, m = Jumped(b, g, e, p)
  PROVE  /\ m = <<m[1], m[2], m[3]>>
         /\ m[1] \in Memory /\ Lies(m[2], m[3])
         /\ m[2] - g = m[3] - e
         /\ m[2] = p \/ (p = BufSz /\ m = <<b, g, e>>)
         /\ p = g => m = <<b, g, e>>
         /\ Content(m[1], m[2], m[3]) = Content(b, g, e)
<1>1. /\ g \in Nat /\ e \in Int /\ p \in Nat
      /\ g <= e + 1 /\ e <= BufSz - 1
      /\ p <= g + (BufSz - 1 - e)
  BY EditAssumption DEF Lies, Size
<1>2. p <= BufSz /\ BufSz \in Nat
  BY <1>1, EditAssumption
<1>3. CASE p > BufSz - 1 \/ p = g
  <2>1. m = <<b, g, e>>
    BY <1>1, <1>3, EditAssumption, SMTT(30) DEF Jumped
  <2> QED
    BY <1>1, <1>2, <1>3, <2>1
<1>4. CASE ~(p > BufSz - 1 \/ p = g)
  <2>1. p <= BufSz - 1 /\ p # g
    BY <1>1, <1>2, <1>4
  <2>2. /\ m = <<m[1], p, e + (p - g)>>
        /\ m[1] \in Memory
        /\ Lies(p, e + (p - g))
        /\ Content(m[1], p, e + (p - g)) = Content(b, g, e)
    BY <2>1, Moving
  <2>3. m[2] = p /\ m[3] = e + (p - g)
    BY <2>2
  <2>4. p - g = (e + (p - g)) - e
    BY <1>1
  <2> QED
    BY <2>1, <2>2, <2>3, <2>4
<1> QED
  BY <1>3, <1>4

\* cursor_left and cursor_right move one character over the gap.
LEMMA SteppingLeft ==
  ASSUME NEW b \in Memory, NEW g, NEW e, Lies(g, e), g > 0
  PROVE  /\ [b EXCEPT ![e] = b[g - 1]] \in Memory
         /\ Lies(g - 1, e - 1)
         /\ Content([b EXCEPT ![e] = b[g - 1]], g - 1, e - 1) = Content(b, g, e)
<1> DEFINE c == [b EXCEPT ![e] = b[g - 1]]
<1>1. /\ g \in Nat /\ e \in Nat /\ g <= e + 1 /\ e <= BufSz - 1
      /\ g - 1 \in 0 .. BufSz - 1 /\ e \in 0 .. BufSz - 1
  BY EditAssumption DEF Lies
<1>2. Lies(g - 1, e - 1) /\ Size(g - 1, e - 1) = Size(g, e)
  BY <1>1, EditAssumption DEF Lies, Size
<1>3. c \in Memory /\ \A k \in 0 .. BufSz - 1 : c[k] = IF k = e THEN b[g - 1] ELSE b[k]
  BY <1>1 DEF Memory
<1>4. \A i \in 1 .. Size(g, e) : c[Place(g - 1, e - 1, i)] = b[Place(g, e, i)]
  <2> TAKE i \in 1 .. Size(g, e)
  <2>1. Place(g, e, i) \in 0 .. BufSz - 1 /\ Place(g - 1, e - 1, i) \in 0 .. BufSz - 1
    BY <1>2, Places
  <2>2. i \in Int
    BY <1>1, EditAssumption DEF Size
  <2> HIDE DEF c
  <2>3. CASE i < g
    <3>1. Place(g, e, i) = i - 1 /\ Place(g - 1, e - 1, i) = i - 1 /\ i - 1 # e
      BY <1>1, <2>2, <2>3 DEF Place
    <3> QED
      BY <1>3, <2>1, <3>1
  <2>4. CASE i = g
    <3>1. Place(g, e, i) = g - 1 /\ Place(g - 1, e - 1, i) = e
      BY <1>1, <2>2, <2>4 DEF Place
    <3> QED
      BY <1>1, <1>3, <3>1
  <2>5. CASE i > g
    <3>1. Place(g, e, i) = (i - g) + e /\ Place(g - 1, e - 1, i) = (i - g) + e /\ (i - g) + e # e
      BY <1>1, <2>2, <2>5 DEF Place
    <3> QED
      BY <1>3, <2>1, <3>1
  <2> QED
    BY <1>1, <2>2, <2>3, <2>4, <2>5
<1> HIDE DEF c
<1>5. Content(c, g - 1, e - 1) = Content(b, g, e)
  BY <1>2, <1>3, <1>4, SameContent
<1> QED
  BY <1>2, <1>3, <1>5 DEF c

LEMMA SteppingRight ==
  ASSUME NEW b \in Memory, NEW g, NEW e, Lies(g, e), e < BufSz - 1
  PROVE  /\ [b EXCEPT ![g] = b[e + 1]] \in Memory
         /\ Lies(g + 1, e + 1)
         /\ Content([b EXCEPT ![g] = b[e + 1]], g + 1, e + 1) = Content(b, g, e)
<1> DEFINE c == [b EXCEPT ![g] = b[e + 1]]
<1>1. /\ g \in Nat /\ e \in Int /\ g <= e + 1 /\ e <= BufSz - 1
      /\ e + 1 \in 0 .. BufSz - 1 /\ g \in 0 .. BufSz - 1
  BY EditAssumption DEF Lies
<1>2. Lies(g + 1, e + 1) /\ Size(g + 1, e + 1) = Size(g, e)
  BY <1>1, EditAssumption DEF Lies, Size
<1>3. c \in Memory /\ \A k \in 0 .. BufSz - 1 : c[k] = IF k = g THEN b[e + 1] ELSE b[k]
  BY <1>1 DEF Memory
<1>4. \A i \in 1 .. Size(g, e) : c[Place(g + 1, e + 1, i)] = b[Place(g, e, i)]
  <2> TAKE i \in 1 .. Size(g, e)
  <2>1. Place(g, e, i) \in 0 .. BufSz - 1 /\ Place(g + 1, e + 1, i) \in 0 .. BufSz - 1
    BY <1>2, Places
  <2>2. i \in Int
    BY <1>1, EditAssumption DEF Size
  <2> HIDE DEF c
  <2>3. CASE i <= g
    <3>1. Place(g, e, i) = i - 1 /\ Place(g + 1, e + 1, i) = i - 1 /\ i - 1 # g
      BY <1>1, <2>2, <2>3 DEF Place
    <3> QED
      BY <1>3, <2>1, <3>1
  <2>4. CASE i = g + 1
    <3>1. Place(g, e, i) = e + 1 /\ Place(g + 1, e + 1, i) = g
      BY <1>1, <2>2, <2>4 DEF Place
    <3> QED
      BY <1>1, <1>3, <3>1
  <2>5. CASE i > g + 1
    <3>1. Place(g, e, i) = (i - g) + e /\ Place(g + 1, e + 1, i) = (i - g) + e /\ (i - g) + e # g
      BY <1>1, <2>2, <2>5 DEF Place
    <3> QED
      BY <1>3, <2>1, <3>1
  <2> QED
    BY <1>1, <2>2, <2>3, <2>4, <2>5
<1> HIDE DEF c
<1>5. Content(c, g + 1, e + 1) = Content(b, g, e)
  BY <1>2, <1>3, <1>4, SameContent
<1> QED
  BY <1>2, <1>3, <1>5 DEF c

-----------------------------------------------------------------------------
(* Changing the text                                                       *)

\* A text and what it is after n characters were put in after the first g.
LEMMA Spliced ==
  ASSUME NEW S, NEW T \in Seq(S), NEW t \in Seq(S), NEW g \in 0 .. Len(T), NEW n \in Nat
  PROVE  /\ Len(t) = Len(T) + n
         /\ \A i \in 1 .. g : t[i] = T[i]
         /\ \A i \in g + 1 .. Len(T) : t[i + n] = T[i]
         => t = SubSeq(T, 1, g) \o SubSeq(t, g + 1, g + n) \o SubSeq(T, g + 1, Len(T))
<1>0. SUFFICES ASSUME Len(t) = Len(T) + n,
                      \A i \in 1 .. g : t[i] = T[i],
                      \A i \in g + 1 .. Len(T) : t[i + n] = T[i]
               PROVE  t = SubSeq(T, 1, g) \o SubSeq(t, g + 1, g + n) \o SubSeq(T, g + 1, Len(T))
  OBVIOUS
<1> DEFINE A == SubSeq(T, 1, g)
           B == SubSeq(t, g + 1, g + n)
           C == SubSeq(T, g + 1, Len(T))
<1>1. A \in Seq(S) /\ Len(A) = g /\ \A i \in 1 .. g : A[i] = T[i]
  OBVIOUS
<1>2. B \in Seq(S) /\ Len(B) = n /\ \A i \in 1 .. n : B[i] = t[g + i]
  <2>1. B \in Seq(S) /\ Len(B) = n
    BY <1>0, SubSeqProperties
  <2>2. ASSUME NEW i \in 1 .. n PROVE B[i] = t[g + i]
    <3>1. g + 1 \in Int /\ g + n \in Int /\ i \in 1 .. (g + n) - (g + 1) + 1 /\ (g + 1) + i - 1 = g + i
      OBVIOUS
    <3>2. \A j \in (g + 1) .. (g + n) : t[j] \in S
      BY <1>0
    <3>3. B[i] = t[(g + 1) + i - 1]
      BY <3>1, <3>2, SubSeqProperties
    <3> QED
      BY <3>1, <3>3
  <2> QED
    BY <2>1, <2>2
<1>3. C \in Seq(S) /\ Len(C) = Len(T) - g /\ \A i \in 1 .. Len(T) - g : C[i] = T[g + i]
  OBVIOUS
<1>4. Len(T) \in Nat /\ Len(t) = Len(T) + n /\ g \in Nat /\ g <= Len(T)
  BY <1>0
<1> HIDE DEF A, B, C
<1>5. A \o B \in Seq(S) /\ Len(A \o B) = g + n
  BY <1>1, <1>2, ConcatProperties
<1>6. A \o B \o C \in Seq(S) /\ Len(A \o B \o C) = Len(t)
  <2> DEFINE D == A \o B
  <2>1. D \in Seq(S) /\ Len(D) = g + n
    BY <1>5
  <2> HIDE DEF D
  <2>2. D \o C \in Seq(S) /\ Len(D \o C) = (g + n) + (Len(T) - g)
    BY <2>1, <1>3, ConcatProperties
  <2> QED
    BY <2>2, <1>4 DEF D
<1>7. ASSUME NEW i \in 1 .. Len(t) PROVE t[i] = (A \o B \o C)[i]
  <2> DEFINE D == A \o B
  <2>1. D \in Seq(S) /\ Len(D) = g + n
    BY <1>5
  <2>2. \A k \in 1 .. g + n : D[k] = IF k <= g THEN A[k] ELSE B[k - g]
    BY <1>1, <1>2, ConcatProperties
  <2> HIDE DEF D
  <2>3. \A k \in 1 .. (g + n) + (Len(T) - g) :
          (D \o C)[k] = IF k <= g + n THEN D[k] ELSE C[k - (g + n)]
    BY <1>3, <2>1, ConcatProperties, SMTT(30)
  <2>4. (D \o C)[i] = t[i]
    <3>0. /\ i \in 1 .. (g + n) + (Len(T) - g)
          /\ i \in Int /\ i >= 1 /\ g \in Int /\ n \in Int
      BY <1>4
    <3>4. /\ i <= g => i <= g + n /\ i \in 1 .. g /\ i \in 1 .. g + n
          /\ i <= g + n => i \in 1 .. g + n
          /\ i > g + n => ~(i <= g + n)
          /\ i <= g \/ (g < i /\ i <= g + n) \/ i > g + n
      BY <3>0
    <3>1. CASE i <= g
      <4>1. (D \o C)[i] = D[i] /\ i \in 1 .. g /\ i \in 1 .. g + n
        BY <2>3, <3>0, <3>1, <3>4
      <4> QED
        BY <1>0, <4>1, <2>2, <1>1
    <3>2. CASE g < i /\ i <= g + n
      <4>1. (D \o C)[i] = D[i] /\ i \in 1 .. g + n
        BY <2>3, <3>0, <3>2, <3>4
      <4>2. i - g \in 1 .. n /\ g + (i - g) = i
        BY <1>4, <3>2
      <4>3. D[i] = B[i - g] /\ B[i - g] = t[g + (i - g)]
        BY <4>1, <4>2, <2>2, <1>2, <1>4, <3>2
      <4> QED
        BY <4>1, <4>2, <4>3
    <3>3. CASE i > g + n
      <4>1. (D \o C)[i] = C[i - (g + n)]
        BY <2>3, <3>0, <3>3, <3>4
      <4>2. i - (g + n) \in 1 .. Len(T) - g /\ g + (i - (g + n)) = i - n
        BY <1>4, <3>3
      <4>3. C[i - (g + n)] = T[i - n]
        BY <4>2, <1>3
      <4>4. i - n \in g + 1 .. Len(T) /\ (i - n) + n = i
        BY <1>4, <3>3
      <4>5. t[(i - n) + n] = T[i - n]
        BY <1>0, <4>4
      <4> QED
        BY <4>1, <4>3, <4>4, <4>5
    <3> QED
      BY <3>1, <3>2, <3>3, <3>4
  <2> QED
    BY <2>4 DEF D
<1>8. t = A \o B \o C
  <2> DEFINE D == A \o B \o C
  <2>1. D \in Seq(S) /\ Len(D) = Len(t) /\ \A i \in 1 .. Len(t) : t[i] = D[i]
    BY <1>6, <1>7
  <2> HIDE DEF D
  <2>2. t = D
    BY <2>1, SeqEqual
  <2> QED
    BY <2>2 DEF D
<1> QED
  BY <1>8 DEF A, B, C

\* A text and what it is after characters h + 1 to n were taken out.
LEMMA Shortened ==
  ASSUME NEW S, NEW T \in Seq(S), NEW t \in Seq(S),
         NEW n \in 0 .. Len(T), NEW h \in 0 .. n
  PROVE  /\ Len(t) = h + (Len(T) - n)
         /\ \A i \in 1 .. h : t[i] = T[i]
         /\ \A i \in n + 1 .. Len(T) : t[(i - n) + h] = T[i]
         => t = SubSeq(T, 1, h) \o SubSeq(T, n + 1, Len(T))
<1>0. SUFFICES ASSUME Len(t) = h + (Len(T) - n),
                      \A i \in 1 .. h : t[i] = T[i],
                      \A i \in n + 1 .. Len(T) : t[(i - n) + h] = T[i]
               PROVE  t = SubSeq(T, 1, h) \o SubSeq(T, n + 1, Len(T))
  OBVIOUS
<1> DEFINE A == SubSeq(T, 1, h)
           C == SubSeq(T, n + 1, Len(T))
<1>1. A \in Seq(S) /\ Len(A) = h /\ \A i \in 1 .. h : A[i] = T[i]
  OBVIOUS
<1>2. C \in Seq(S) /\ Len(C) = Len(T) - n /\ \A i \in 1 .. Len(T) - n : C[i] = T[n + i]
  OBVIOUS
<1>3. Len(T) \in Nat /\ Len(t) = h + (Len(T) - n) /\ n \in Nat /\ h \in Nat /\ h <= n /\ n <= Len(T)
  BY <1>0
<1> HIDE DEF A, C
<1>4. /\ A \o C \in Seq(S) /\ Len(A \o C) = Len(t)
      /\ \A i \in 1 .. Len(t) : (A \o C)[i] = IF i <= h THEN A[i] ELSE C[i - h]
  <2>1. /\ A \o C \in Seq(S) /\ Len(A \o C) = h + (Len(T) - n)
        /\ \A i \in 1 .. h + (Len(T) - n) : (A \o C)[i] = IF i <= h THEN A[i] ELSE C[i - h]
    BY <1>1, <1>2, ConcatProperties, SMTT(30)
  <2> QED
    BY <1>0, <2>1
<1>5. ASSUME NEW i \in 1 .. Len(t) PROVE t[i] = (A \o C)[i]
  <2>1. CASE i <= h
    <3>1. (A \o C)[i] = A[i] /\ i \in 1 .. h
      BY <1>3, <1>4, <2>1
    <3> QED
      BY <1>0, <3>1, <1>1
  <2>2. CASE i > h
    <3>1. (A \o C)[i] = C[i - h]
      BY <1>3, <1>4, <2>2
    <3>2. i - h \in 1 .. Len(T) - n
      BY <1>3, <2>2
    <3>3. C[i - h] = T[n + (i - h)]
      BY <3>2, <1>2
    <3>4. n + (i - h) \in n + 1 .. Len(T) /\ ((n + (i - h)) - n) + h = i
      BY <1>3, <3>2
    <3>5. t[((n + (i - h)) - n) + h] = T[n + (i - h)]
      BY <1>0, <3>4
    <3> QED
      BY <3>1, <3>3, <3>4, <3>5
  <2>3. i \in Int /\ h \in Int
    BY <1>3
  <2>4. i <= h \/ i > h
    BY <2>3
  <2> QED
    BY <2>1, <2>2, <2>4
<1>6. t = A \o C
  <2> DEFINE D == A \o C
  <2>1. D \in Seq(S) /\ Len(D) = Len(t) /\ \A i \in 1 .. Len(t) : t[i] = D[i]
    BY <1>4, <1>5
  <2> HIDE DEF D
  <2>2. t = D
    BY <2>1, SeqEqual
  <2> QED
    BY <2>2 DEF D
<1> QED
  BY <1>6 DEF A, C

\* A sequence of bytes that are all characters
LEMMA AllChars ==
  ASSUME NEW s \in Seq(Bytes)
  PROVE  s \in Seq(Chars) <=> \A i \in 1 .. Len(s) : s[i] \in Chars
<1>1. ASSUME \A i \in 1 .. Len(s) : s[i] \in Chars PROVE s \in Seq(Chars)
  <2>1. s \in [1 .. Len(s) -> Chars] /\ Len(s) \in Nat
    BY <1>1
  <2> QED
    BY <2>1
<1>2. ASSUME s \in Seq(Chars) PROVE \A i \in 1 .. Len(s) : s[i] \in Chars
  BY <1>2
<1> QED
  BY <1>1, <1>2

\* t is T with characters put in after the first g, up to the h-th.
PutIn(T, t, g, h) ==
  t = SubSeq(T, 1, g) \o SubSeq(t, g + 1, h) \o SubSeq(T, g + 1, Len(T))

\* Writing no more than fits into the gap and moving its beginning behind it
\* inserts that into the text; the text around the gap is what it was.
LEMMA Inserting ==
  ASSUME NEW b \in Memory, NEW g, NEW e, Lies(g, e),
         NEW s \in Seq(Bytes), Len(s) <= e - g + 1,
         NEW c, c = Put(b, g, s),
         NEW T, T = Content(b, g, e),
         NEW t, t = Content(c, g + Len(s), e)
  PROVE  /\ c \in Memory /\ Lies(g + Len(s), e) /\ g + Len(s) >= g
         /\ Content(c, g, e) = T
         /\ PutIn(T, t, g, g + Len(s))
         /\ s \in Seq(Chars) /\ T \in Seq(Chars) => t \in Seq(Chars)
<1> DEFINE n == Len(s)
           h == g + n
<1>1. n \in Nat /\ n <= e - g + 1
  OBVIOUS
<1> HIDE DEF n
<1>2. /\ g \in Nat /\ e \in Int /\ g <= e + 1 /\ e <= BufSz - 1 /\ h \in Nat
  BY <1>1 DEF Lies
<1>3. Lies(h, e) /\ Size(h, e) = Size(g, e) + n /\ h >= g
  BY <1>1, <1>2, EditAssumption DEF Lies, Size
<1>4. /\ c \in Memory
      /\ \A k \in 0 .. BufSz - 1 : c[k] = IF g <= k /\ k < g + n THEN s[k - g + 1] ELSE b[k]
  BY <1>2, Written DEF n
<1>5. /\ T = [i \in 1 .. Size(g, e) |-> b[Place(g, e, i)]] /\ T \in Seq(Bytes)
      /\ Len(T) = Size(g, e)
  BY ContentIs
<1>6. /\ t = [i \in 1 .. Size(h, e) |-> c[Place(h, e, i)]] /\ t \in Seq(Bytes)
      /\ Len(t) = Size(h, e)
  <2>1. t = Content(c, h, e)
    BY DEF n
  <2> HIDE DEF h
  <2> QED
    BY <1>3, <1>4, <2>1, ContentIs
<1>7. g \in 0 .. Len(T) /\ Size(g, e) \in Nat /\ Size(h, e) \in Nat
  BY <1>2, <1>3, <1>5, Places
<1>8. \A i \in 1 .. Size(g, e) : c[Place(g, e, i)] = b[Place(g, e, i)]
  <2> TAKE i \in 1 .. Size(g, e)
  <2>1. /\ Place(g, e, i) \in 0 .. BufSz - 1
        /\ Place(g, e, i) < g \/ Place(g, e, i) > e
    BY Places
  <2>2. ~(g <= Place(g, e, i) /\ Place(g, e, i) < g + n)
    BY <1>1, <1>2, <2>1, EditAssumption
  <2> QED
    BY <1>4, <2>1, <2>2
<1>9. Content(c, g, e) = T
  BY <1>4, <1>8, SameContent
<1>10. \A i \in 1 .. g : t[i] = T[i]
  <2> TAKE i \in 1 .. g
  <2>1. i \in 1 .. Size(g, e) /\ i \in 1 .. Size(h, e)
    BY <1>1, <1>2, <1>3, <1>5, <1>7
  <2>2. Place(g, e, i) = i - 1 /\ Place(h, e, i) = i - 1
    BY <1>1, <1>2 DEF Place
  <2> QED
    BY <1>5, <1>6, <1>8, <2>1, <2>2
<1>11. \A i \in g + 1 .. Len(T) : t[i + n] = T[i]
  <2> TAKE i \in g + 1 .. Len(T)
  <2>1. i \in 1 .. Size(g, e) /\ i + n \in 1 .. Size(h, e)
    BY <1>1, <1>2, <1>3, <1>5, <1>7
  <2>2. Place(g, e, i) = (i - g) + e /\ Place(h, e, i + n) = (i - g) + e
    <3>1. i \in Int /\ i > g
      BY <1>2, <1>5, <1>7
    <3>2. (i + n) - h = i - g
      BY <1>1, <1>2, <3>1
    <3>3. ~(i + n <= h) /\ ~(i <= g)
      BY <1>1, <1>2, <3>1
    <3> QED
      BY <3>2, <3>3 DEF Place
  <2>3. T[i] = b[(i - g) + e] /\ t[i + n] = c[(i - g) + e]
    BY <1>5, <1>6, <2>1, <2>2
  <2>4. c[(i - g) + e] = b[(i - g) + e]
    BY <1>8, <2>1, <2>2
  <2> QED
    BY <2>3, <2>4
<1>12. PutIn(T, t, g, g + n)
  <2>1. Len(t) = Len(T) + n
    BY <1>3, <1>5, <1>6
  <2> HIDE DEF h
  <2>2. /\ Len(t) = Len(T) + n
        /\ \A i \in 1 .. g : t[i] = T[i]
        /\ \A i \in g + 1 .. Len(T) : t[i + n] = T[i]
        => t = SubSeq(T, 1, g) \o SubSeq(t, g + 1, g + n) \o SubSeq(T, g + 1, Len(T))
    <3>1. T \in Seq(Bytes) /\ t \in Seq(Bytes) /\ g \in 0 .. Len(T) /\ n \in Nat
      BY <1>1, <1>5, <1>6, <1>7
    <3>2. \A U, u \in Seq(Bytes) : \A k \in 0 .. Len(U), m \in Nat :
            /\ Len(u) = Len(U) + m
            /\ \A i \in 1 .. k : u[i] = U[i]
            /\ \A i \in k + 1 .. Len(U) : u[i + m] = U[i]
            => u = SubSeq(U, 1, k) \o SubSeq(u, k + 1, k + m) \o SubSeq(U, k + 1, Len(U))
      BY Spliced
    <3> QED
      BY <3>1, <3>2
  <2> QED
    BY <1>10, <1>11, <2>1, <2>2 DEF PutIn
<1>13. ASSUME s \in Seq(Chars), T \in Seq(Chars) PROVE t \in Seq(Chars)
  <2>1. ASSUME NEW i \in 1 .. Len(t) PROVE t[i] \in Chars
    <3>1. i \in Int /\ i >= 1 /\ i <= Len(T) + n /\ Len(T) \in Nat
      BY <1>3, <1>5, <1>6, <1>7
    <3>2. CASE i <= g
      <4>1. i \in 1 .. g /\ i \in 1 .. Len(T)
        BY <1>2, <1>7, <3>1, <3>2
      <4>2. T[i] \in Chars
        BY <1>13, <4>1
      <4> QED
        BY <1>10, <4>1, <4>2
    <3>3. CASE g < i /\ i <= g + n
      <4>1. i - g \in 1 .. n /\ i \in 1 .. Size(h, e) /\ Place(h, e, i) = i - 1
        BY <1>1, <1>2, <1>6, <1>7, <3>1, <3>3 DEF Place
      <4>2. i - 1 \in 0 .. BufSz - 1 /\ g <= i - 1 /\ i - 1 < g + n /\ (i - 1) - g + 1 = i - g
        BY <1>1, <1>2, <3>1, <3>3, EditAssumption
      <4>3. t[i] = s[i - g]
        <5>1. t[i] = c[i - 1]
          BY <1>6, <4>1
        <5>2. c[i - 1] = s[(i - 1) - g + 1]
          BY <1>4, <4>2
        <5> QED
          BY <4>2, <5>1, <5>2
      <4>4. s[i - g] \in Chars
        BY <1>13, <4>1 DEF n
      <4> QED
        BY <4>3, <4>4
    <3>4. CASE i > g + n
      <4>1. i - n \in g + 1 .. Len(T) /\ i - n \in 1 .. Len(T) /\ (i - n) + n = i
        BY <1>1, <1>2, <3>1, <3>4
      <4>2. t[(i - n) + n] = T[i - n]
        BY <1>11, <4>1
      <4>3. T[i - n] \in Chars
        BY <1>13, <4>1
      <4> QED
        BY <4>1, <4>2, <4>3
    <3> QED
      BY <1>1, <1>2, <3>1, <3>2, <3>3, <3>4
  <2> QED
    BY <1>6, <2>1, AllChars
<1> QED
  BY <1>3, <1>4, <1>9, <1>12, <1>13 DEF n

\* Letting the gap grow, at its beginning or at its end, takes characters
\* h + 1 to g + (f - e) out of the text.
LEMMA Removing ==
  ASSUME NEW b \in Memory, NEW g, NEW e, Lies(g, e),
         NEW h \in 0 .. g, NEW f \in e .. BufSz - 1,
         NEW T, T = Content(b, g, e),
         NEW t, t = Content(b, h, f)
  PROVE  /\ Lies(h, f)
         /\ g + (f - e) \in h .. Len(T)
         /\ t = SubSeq(T, 1, h) \o SubSeq(T, g + (f - e) + 1, Len(T))
         /\ T \in Seq(Chars) => t \in Seq(Chars)
<1> DEFINE n == g + (f - e)
<1>1. /\ g \in Nat /\ e \in Int /\ g <= e + 1 /\ e <= BufSz - 1
      /\ h \in Nat /\ h <= g /\ f \in Int /\ e <= f /\ f <= BufSz - 1
  BY EditAssumption DEF Lies
<1>2. Lies(h, f) /\ n \in Nat /\ h <= n /\ n <= Size(g, e) /\ Size(h, f) = h + (Size(g, e) - n)
  BY <1>1, EditAssumption DEF Lies, Size
<1>3. /\ T = [i \in 1 .. Size(g, e) |-> b[Place(g, e, i)]] /\ T \in Seq(Bytes)
      /\ Len(T) = Size(g, e)
  BY ContentIs
<1>4. /\ t = [i \in 1 .. Size(h, f) |-> b[Place(h, f, i)]] /\ t \in Seq(Bytes)
      /\ Len(t) = Size(h, f)
  BY <1>2, ContentIs
<1>5. Size(g, e) \in Nat /\ Size(h, f) \in Nat
  BY <1>2, Places
<1>6. \A i \in 1 .. h : t[i] = T[i]
  <2> TAKE i \in 1 .. h
  <2>1. i \in 1 .. Size(g, e) /\ i \in 1 .. Size(h, f)
    BY <1>1, <1>2, <1>5
  <2>2. Place(g, e, i) = i - 1 /\ Place(h, f, i) = i - 1
    BY <1>1 DEF Place
  <2> QED
    BY <1>3, <1>4, <2>1, <2>2
<1>7. \A i \in n + 1 .. Len(T) : t[(i - n) + h] = T[i]
  <2> TAKE i \in n + 1 .. Len(T)
  <2>1. /\ i \in Int /\ i > n /\ i \in 1 .. Size(g, e)
        /\ (i - n) + h \in 1 .. Size(h, f)
    BY <1>1, <1>2, <1>3, <1>5
  <2>2. ~(i <= g) /\ ~((i - n) + h <= h) /\ (((i - n) + h) - h) + f = (i - g) + e
    BY <1>1, <1>2, <2>1
  <2>3. Place(g, e, i) = (i - g) + e /\ Place(h, f, (i - n) + h) = (i - g) + e
    BY <2>2 DEF Place
  <2> HIDE DEF n
  <2> QED
    BY <1>3, <1>4, <2>1, <2>3
<1>8. t = SubSeq(T, 1, h) \o SubSeq(T, n + 1, Len(T))
  <2>1. n \in 0 .. Len(T) /\ h \in 0 .. n /\ Len(t) = h + (Len(T) - n)
    BY <1>1, <1>2, <1>3, <1>4, <1>5, SMTT(30)
  <2> HIDE DEF n
  <2>2. /\ Len(t) = h + (Len(T) - n)
        /\ \A i \in 1 .. h : t[i] = T[i]
        /\ \A i \in n + 1 .. Len(T) : t[(i - n) + h] = T[i]
        => t = SubSeq(T, 1, h) \o SubSeq(T, n + 1, Len(T))
    <3>1. T \in Seq(Bytes) /\ t \in Seq(Bytes)
      BY <1>3, <1>4
    <3>2. \A U, u \in Seq(Bytes) : \A m \in 0 .. Len(U) : \A k \in 0 .. m :
            /\ Len(u) = k + (Len(U) - m)
            /\ \A i \in 1 .. k : u[i] = U[i]
            /\ \A i \in m + 1 .. Len(U) : u[(i - m) + k] = U[i]
            => u = SubSeq(U, 1, k) \o SubSeq(U, m + 1, Len(U))
      BY Shortened
    <3>3. \A m \in 0 .. Len(T) : \A k \in 0 .. m :
            /\ Len(t) = k + (Len(T) - m)
            /\ \A i \in 1 .. k : t[i] = T[i]
            /\ \A i \in m + 1 .. Len(T) : t[(i - m) + k] = T[i]
            => t = SubSeq(T, 1, k) \o SubSeq(T, m + 1, Len(T))
      BY <3>1, <3>2
    <3> QED
      BY <2>1, <3>3
  <2> QED
    BY <1>6, <1>7, <2>1, <2>2
<1>9. ASSUME T \in Seq(Chars) PROVE t \in Seq(Chars)
  <2>1. \A i \in 1 .. Len(T) : T[i] \in Chars
    BY <1>9
  <2>2. ASSUME NEW i \in 1 .. Len(t) PROVE t[i] \in Chars
    <3>1. i \in Int /\ i >= 1 /\ i <= h + (Len(T) - n) /\ Len(T) \in Nat
      BY <1>2, <1>3, <1>4, <1>5
    <3>2. CASE i <= h
      <4>1. i \in 1 .. h /\ i \in 1 .. Len(T)
        <5> HIDE DEF n
        <5>1. Len(T) = Size(g, e)
          BY <1>3
        <5>2. h <= Len(T) /\ h \in Int /\ Len(T) \in Int /\ i \in Int
          BY <1>1, <1>2, <1>5, <3>1, <5>1
        <5> QED
          BY <3>1, <3>2, <5>2
      <4> QED
        BY <1>6, <2>1, <4>1
    <3>3. CASE i > h
      <4> DEFINE j == (i - h) + n
      <4>1. j \in n + 1 .. Len(T) /\ j \in 1 .. Len(T) /\ (j - n) + h = i
        BY <1>1, <1>2, <3>1, <3>3
      <4> HIDE DEF j, n
      <4>2. t[(j - n) + h] = T[j]
        BY <1>7, <4>1
      <4> QED
        BY <2>1, <4>1, <4>2
    <3> QED
      BY <1>1, <3>1, <3>2, <3>3
  <2> QED
    BY <1>4, <2>2, AllChars
<1>10. n \in h .. Len(T)
  <2>1. Len(T) = Size(g, e)
    BY <1>3
  <2> HIDE DEF n
  <2> QED
    BY <1>1, <1>2, <1>5, <2>1
<1>11. T \in Seq(Chars) => t \in Seq(Chars)
  BY <1>9
<1> QED
  BY <1>2, <1>8, <1>10, <1>11

\* The bytes right after the gap are the characters after the cursor.
LEMMA TextBytes ==
  ASSUME NEW b \in Memory, NEW g, NEW e, Lies(g, e),
         Content(b, g, e) \in Seq(Chars),
         NEW n \in Nat, e + n <= BufSz - 1
  PROVE  Get(b, e + 1, n) \in Seq(Chars)
<1> DEFINE T == Content(b, g, e)
<1>1. /\ g \in Nat /\ e \in Int /\ g <= e + 1 /\ e <= BufSz - 1
  BY DEF Lies
<1>2. /\ Get(b, e + 1, n) \in Seq(Bytes) /\ Len(Get(b, e + 1, n)) = n
      /\ \A k \in 1 .. n : Get(b, e + 1, n)[k] = At(b, (e + 1) + k - 1)
      /\ \A k \in 0 .. BufSz - 1 : At(b, k) = b[k]
  BY <1>1, Reading
<1>3. /\ T = [i \in 1 .. Size(g, e) |-> b[Place(g, e, i)]]
      /\ T \in Seq(Bytes) /\ Len(T) = Size(g, e)
  BY ContentIs
<1>4. \A i \in 1 .. Size(g, e) : T[i] \in Chars
  BY <1>3, AllChars
<1>5. ASSUME NEW k \in 1 .. n PROVE Get(b, e + 1, n)[k] \in Chars
  <2>1. /\ (e + 1) + k - 1 = e + k /\ e + k \in 0 .. BufSz - 1
        /\ g + k \in 1 .. Size(g, e) /\ ((g + k) - g) + e = e + k /\ ~(g + k <= g)
    BY <1>1, EditAssumption DEF Size
  <2>2. Place(g, e, g + k) = e + k
    BY <2>1 DEF Place
  <2>3. T[g + k] = b[e + k]
    BY <1>3, <2>1, <2>2
  <2>4. Get(b, e + 1, n)[k] = b[e + k]
    <3>1. Get(b, e + 1, n)[k] = At(b, (e + 1) + k - 1)
      BY <1>2
    <3>2. At(b, e + k) = b[e + k]
      BY <1>2, <2>1
    <3> QED
      BY <2>1, <3>1, <3>2
  <2> QED
    BY <1>4, <2>1, <2>3, <2>4
<1> QED
  BY <1>2, <1>5, AllChars

\* The first n of s, or all
LEMMA PrefixIs ==
  ASSUME NEW S, NEW s \in Seq(S), NEW n \in Int
  PROVE  /\ Prefix(s, n) \in Seq(S)
         /\ n >= 0 => Len(Prefix(s, n)) <= n
         /\ n < 0 => Len(Prefix(s, n)) = 0
<1>1. Len(s) \in Nat
  BY LenProperties
<1>2. CASE n < Len(s)
  <2>1. Prefix(s, n) = SubSeq(s, 1, n)
    BY <1>2 DEF Prefix
  <2>2. \A i \in 1 .. n : i \in 1 .. Len(s)
    BY <1>1, <1>2
  <2>3. SubSeq(s, 1, n) \in Seq(S)
    BY <2>2, SubSeqProperties
  <2>4. Len(SubSeq(s, 1, n)) = IF 1 <= n + 1 THEN n - 1 + 1 ELSE 0
    BY <1>1, <1>2, SubSeqProperties
  <2> QED
    BY <2>1, <2>3, <2>4
<1>3. CASE ~(n < Len(s))
  <2>1. Prefix(s, n) = SubSeq(s, 1, Len(s))
    BY <1>3 DEF Prefix
  <2>2. SubSeq(s, 1, Len(s)) = s
    BY <1>1
  <2> QED
    BY <1>1, <1>3, <2>1, <2>2
<1> QED
  BY <1>2, <1>3

\* load_file fills an empty buffer from index 0 on.
LEMMA Loading ==
  ASSUME NEW b \in Memory, NEW s \in Seq(Chars), Len(s) <= BufSz
  PROVE  /\ Put(b, 0, s) \in Memory
         /\ Lies(Len(s), BufSz - 1)
         /\ Content(Put(b, 0, s), Len(s), BufSz - 1) = s
<1> DEFINE c == Put(b, 0, s)
           n == Len(s)
<1>1. n \in Nat /\ n <= BufSz /\ BufSz \in Nat /\ s \in Seq(Bytes)
  BY EditAssumption DEF Bytes
<1>2. /\ c \in Memory
      /\ \A k \in 0 .. BufSz - 1 : c[k] = IF 0 <= k /\ k < 0 + n THEN s[k - 0 + 1] ELSE b[k]
  BY <1>1, Written
<1>3. Lies(n, BufSz - 1)
  BY <1>1, EditAssumption DEF Lies
<1>4. Size(n, BufSz - 1) = n
  BY <1>1 DEF Size
<1> HIDE DEF c
<1>5. /\ Content(c, n, BufSz - 1) = [i \in 1 .. n |-> c[Place(n, BufSz - 1, i)]]
      /\ Content(c, n, BufSz - 1) \in Seq(Bytes)
      /\ Len(Content(c, n, BufSz - 1)) = n
  <2> HIDE DEF n
  <2> QED
    BY <1>2, <1>3, <1>4, ContentIs
<1>6. \A i \in 1 .. n : Content(c, n, BufSz - 1)[i] = s[i]
  <2> TAKE i \in 1 .. n
  <2> HIDE DEF n
  <2>1. /\ Place(n, BufSz - 1, i) = i - 1 /\ i - 1 \in 0 .. BufSz - 1
        /\ 0 <= i - 1 /\ i - 1 < 0 + n /\ (i - 1) - 0 + 1 = i
    BY <1>1 DEF Place
  <2>2. c[i - 1] = s[(i - 1) - 0 + 1]
    BY <1>2, <2>1
  <2>3. Content(c, n, BufSz - 1)[i] = c[i - 1]
    BY <1>5, <2>1
  <2> QED
    BY <2>1, <2>2, <2>3
<1>7. Content(c, n, BufSz - 1) = s
  <2> DEFINE T == Content(c, n, BufSz - 1)
  <2>1. T \in Seq(Bytes) /\ Len(T) = Len(s) /\ \A i \in 1 .. Len(s) : T[i] = s[i]
    BY <1>5, <1>6
  <2> HIDE DEF T
  <2>2. T = s
    BY <1>1, <2>1, SeqEqual
  <2> QED
    BY <2>2 DEF T
<1> QED
  BY <1>2, <1>3, <1>7 DEF c

\* The first of the places where a string was found is one of them.
LEMMA LeastIsIn ==
  ASSUME NEW i \in Nat, NEW j \in Int, NEW S \in SUBSET (i .. j), S # {}
  PROVE  Least(S) \in S
<1> DEFINE U == {1 .. n : n \in S}
           R == StrictSubsetOrdering(Nat)
<1>0. S \subseteq Nat
  OBVIOUS
<1>1. IsWellFoundedOn(R, FiniteSubsetsOf(Nat))
  BY FS_StrictSubsetOrderingWellFounded
<1>2. U \subseteq FiniteSubsetsOf(Nat) /\ U # {}
  <2>1. \A n \in S : IsFiniteSet(1 .. n) /\ 1 .. n \subseteq Nat
    BY <1>0, FS_Interval
  <2> QED
    BY <2>1 DEF FiniteSubsetsOf
<1>3. PICK x \in U : \A y \in U : <<y, x>> \notin R
  <2> HIDE DEF U, R
  <2> QED
    BY <1>1, <1>2, WFMin
<1>4. PICK m \in S : x = 1 .. m
  OBVIOUS
<1>5. ASSUME NEW k \in S, k < m PROVE FALSE
  <2>1. 1 .. k \subseteq 1 .. m /\ m \in 1 .. m /\ m \notin 1 .. k
    BY <1>0, <1>5
  <2>2. 1 .. k \in U /\ 1 .. m \subseteq Nat /\ 1 .. k # 1 .. m
    BY <2>1
  <2>3. <<1 .. k, x>> \in R
    BY <2>1, <2>2, <1>4 DEF StrictSubsetOrdering
  <2> QED
    BY <2>2, <2>3, <1>3
<1>6. m \in S /\ \A l \in S : m <= l
  BY <1>0, <1>5
<1> QED
  BY <1>6 DEF Least

-----------------------------------------------------------------------------
(* The inductive invariant                                                 *)

\* The gap lies within the buffer, the text has no byte that is no character,
\* and undo goes back to the text from before the last change.
GapInv ==
  /\ buf \in Memory /\ Lies(gapbegin, gapend)
  /\ Contents \in Seq(Chars)
  /\ canundo \in BOOLEAN /\ moved \in BOOLEAN
  /\ Lies(oldgapbegin, oldgapend)
  /\ before \in Seq(Chars)
  /\ canundo /\ ~moved => Content(buf, oldgapbegin, oldgapend) = before

\* A selection has two ends, and one that is being made has a beginning.
SelInv ==
  /\ mode \in {"none", "select"}
  /\ startsel \in Nat \cup {NoSel} /\ endsel \in Nat \cup {NoSel}
  /\ startsel = NoSel <=> endsel = NoSel
  /\ mode = "select" => startsel # NoSel

ClipInv ==
  /\ cut \in Seq(Chars) /\ clipfile \in Seq(Chars)
  /\ modified \in BOOLEAN /\ disk \in Seq(Chars)

IInv == GapInv /\ SelInv /\ ClipInv

textVars == <<Contents, gapbegin, IF canundo THEN {before} ELSE {}>>

\* The parts of the memory, in the words of the lemmas above
LEMMA GapFacts ==
  ASSUME GapInv
  PROVE  /\ buf \in Memory /\ Lies(gapbegin, gapend)
         /\ Contents = Content(buf, gapbegin, gapend)
         /\ Len(Contents) = Size(gapbegin, gapend)
         /\ DataSize = Size(gapbegin, gapend) /\ DataSize \in Nat
         /\ gapbegin \in Nat /\ gapend \in Int /\ gapbegin <= gapend + 1
         /\ gapend <= BufSz - 1 /\ gapbegin <= DataSize
         /\ FreeSpace = gapend - gapbegin + 1 /\ FreeSpace \in Nat
<1>1. buf \in Memory /\ Lies(gapbegin, gapend)
  BY DEF GapInv
<1>2. Contents = Content(buf, gapbegin, gapend) /\ Len(Contents) = Size(gapbegin, gapend)
  BY <1>1, ContentIs DEF Contents
<1>3. /\ gapbegin \in Nat /\ gapend \in Int /\ gapbegin <= gapend + 1
      /\ gapend <= BufSz - 1
  BY <1>1 DEF Lies
<1>4. /\ DataSize = Size(gapbegin, gapend) /\ DataSize \in Nat /\ gapbegin <= DataSize
  BY <1>3, EditAssumption DEF DataSize, Size
<1>5. FreeSpace = gapend - gapbegin + 1 /\ FreeSpace \in Nat
  BY <1>3 DEF FreeSpace
<1> QED
  BY <1>1, <1>2, <1>3, <1>4, <1>5

\* A change that puts s into the gap inserts it, and undo can take it out.
LEMMA Inserts ==
  ASSUME GapInv, NEW s \in Seq(Chars), Len(s) <= FreeSpace,
         MarkInPlace, Insert(s), gapend' = gapend
  PROVE  GapInv' /\ Abstract!Insert
<1>1. /\ buf \in Memory /\ Lies(gapbegin, gapend) /\ Contents = Content(buf, gapbegin, gapend)
      /\ Len(s) <= gapend - gapbegin + 1 /\ s \in Seq(Bytes)
  BY GapFacts DEF Bytes
<1>2. buf' = Put(buf, gapbegin, s) /\ gapbegin' = gapbegin + Len(s)
  BY DEF Insert
<1>3. Contents' = Content(buf', gapbegin', gapend')
  BY DEF Contents
<1>4. Contents' = Content(buf', gapbegin + Len(s), gapend)
  BY <1>2, <1>3
<1>5. /\ buf' \in Memory /\ Lies(gapbegin + Len(s), gapend) /\ gapbegin + Len(s) >= gapbegin
      /\ Content(buf', gapbegin, gapend) = Contents
      /\ PutIn(Contents, Contents', gapbegin, gapbegin + Len(s))
      /\ s \in Seq(Chars) /\ Contents \in Seq(Chars) => Contents' \in Seq(Chars)
  <2> DEFINE T == Content(buf, gapbegin, gapend)
             c == Put(buf, gapbegin, s)
             t == Content(c, gapbegin + Len(s), gapend)
  <2>0. T = Content(buf, gapbegin, gapend) /\ c = Put(buf, gapbegin, s)
        /\ t = Content(c, gapbegin + Len(s), gapend)
    OBVIOUS
  <2>2. T = Contents /\ c = buf' /\ t = Contents'
    BY <1>1, <1>2, <1>4
  <2> HIDE DEF T, c, t
  <2>1. /\ c \in Memory /\ Lies(gapbegin + Len(s), gapend) /\ gapbegin + Len(s) >= gapbegin
        /\ Content(c, gapbegin, gapend) = T
        /\ PutIn(T, t, gapbegin, gapbegin + Len(s))
        /\ s \in Seq(Chars) /\ T \in Seq(Chars) => t \in Seq(Chars)
    BY <1>1, <2>0, Inserting
  <2> QED
    BY <2>1, <2>2
<1>6. /\ canundo' = TRUE /\ oldgapbegin' = gapbegin /\ oldgapend' = gapend
      /\ before' = Contents /\ moved' = FALSE
  BY DEF MarkInPlace, MarkUndo
<1>7. buf' \in Memory /\ Lies(gapbegin', gapend') /\ Contents' \in Seq(Chars)
  BY <1>2, <1>5 DEF GapInv
<1>8. Lies(oldgapbegin', oldgapend') /\ before' \in Seq(Chars)
  BY <1>1, <1>6 DEF GapInv
<1>9. Content(buf', oldgapbegin', oldgapend') = before'
  BY <1>5, <1>6
<1>10. GapInv'
  BY <1>6, <1>7, <1>8, <1>9 DEF GapInv
<1>11. Abstract!Insert
  <2>1. gapbegin' >= gapbegin
    BY <1>2, <1>5
  <2>2. Contents' = Abstract!Before(gapbegin) \o SubSeq(Contents', gapbegin + 1, gapbegin')
                      \o Abstract!After(gapbegin)
    BY <1>2, <1>5 DEF PutIn, Abstract!Before, Abstract!After
  <2>3. (IF canundo THEN {before} ELSE {})' = {Contents}
    BY <1>6
  <2> QED
    BY <2>1, <2>2, <2>3 DEF Abstract!Insert
<1> QED
  BY <1>10, <1>11

\* A change that lets the gap grow, wherever it has gone for that, removes a
\* piece.
LEMMA Removes ==
  ASSUME GapInv, NEW b \in Memory, NEW g, NEW e, Lies(g, e),
         Content(b, g, e) = Contents,
         NEW h \in 0 .. g, NEW f \in e .. BufSz - 1, Becomes(<<b, h, f>>),
         canundo' = TRUE, before' = Contents, moved' \in BOOLEAN,
         Lies(oldgapbegin', oldgapend'),
         ~moved' => Content(b, oldgapbegin', oldgapend') = Contents
  PROVE  GapInv' /\ Abstract!Remove
<1>1. buf' = b /\ gapbegin' = h /\ gapend' = f
  BY DEF Becomes
<1>2. Contents' = Content(b, h, f)
  BY <1>1 DEF Contents
<1>3. /\ Lies(h, f)
      /\ g + (f - e) \in h .. Len(Contents)
      /\ Contents' = SubSeq(Contents, 1, h) \o SubSeq(Contents, g + (f - e) + 1, Len(Contents))
      /\ Contents \in Seq(Chars) => Contents' \in Seq(Chars)
  <2> DEFINE T == Content(b, g, e)
             t == Content(b, h, f)
  <2>1. /\ Lies(h, f)
        /\ g + (f - e) \in h .. Len(T)
        /\ t = SubSeq(T, 1, h) \o SubSeq(T, g + (f - e) + 1, Len(T))
        /\ T \in Seq(Chars) => t \in Seq(Chars)
    BY Removing
  <2>2. T = Contents /\ t = Contents'
    BY <1>2
  <2> HIDE DEF T, t
  <2> QED
    BY <2>1, <2>2
<1>4. GapInv'
  BY <1>1, <1>3 DEF GapInv
<1>5. Contents' = Abstract!Before(gapbegin') \o Abstract!After(g + (f - e))
  BY <1>1, <1>3 DEF Abstract!Before, Abstract!After
<1>6. Abstract!Remove
  <2>1. (IF canundo THEN {before} ELSE {})' = {Contents}
    OBVIOUS
  <2>2. g + (f - e) \in gapbegin' .. Len(Contents)
    BY <1>1, <1>3
  <2> QED
    BY <1>5, <2>1, <2>2 DEF Abstract!Remove
<1> QED
  BY <1>4, <1>6

\* A command that only moves the gap leaves the text as it is.
LEMMA Moves ==
  ASSUME GapInv, NEW b \in Memory, NEW g, NEW e, Lies(g, e),
         Content(b, g, e) = Contents, Becomes(<<b, g, e>>),
         UNCHANGED <<canundo, oldgapbegin, oldgapend, before>>,
         moved' \in BOOLEAN, ~moved' => ~moved /\ b = buf
  PROVE  GapInv' /\ Abstract!Move
<1>1. buf' = b /\ gapbegin' = g /\ gapend' = e
  BY DEF Becomes
<1>2. Contents' = Contents
  BY <1>1 DEF Contents
<1>3. GapInv'
  BY <1>1, <1>2 DEF GapInv
<1>4. gapbegin' \in 0 .. Len(Contents)
  <2>1. Len(Contents) = Size(g, e) /\ Size(g, e) \in Nat /\ g <= Size(g, e)
    BY ContentIs, Places
  <2>2. g \in Nat
    BY DEF Lies
  <2> QED
    BY <1>1, <2>1, <2>2
<1>5. (IF canundo THEN {before} ELSE {})' = IF canundo THEN {before} ELSE {}
  OBVIOUS
<1> QED
  BY <1>2, <1>3, <1>4, <1>5 DEF Abstract!Move

-----------------------------------------------------------------------------
(* Typing and moving                                                       *)

LEMMA TypeStep ==
  ASSUME IInv, NEW s \in Typing, Type(s)
  PROVE  IInv' /\ Abstract!Insert
<1> DEFINE fits == Prefix(s, FreeSpace)
<1>1. GapInv /\ FreeSpace \in Nat
  BY GapFacts DEF IInv
<1>2. s \in Seq(Chars)
  BY EditAssumption
<1>3. fits \in Seq(Chars) /\ Len(fits) <= FreeSpace
  BY <1>1, <1>2, PrefixIs
<1>4. Insert(fits) /\ MarkInPlace /\ gapend' = gapend
  BY DEF Type, Insert
<1> HIDE DEF fits
<1>5. GapInv' /\ Abstract!Insert
  BY <1>1, <1>3, <1>4, Inserts
<1>6. SelInv' /\ ClipInv'
  BY DEF IInv, SelInv, ClipInv, Type, sel, clip
<1> QED
  BY <1>5, <1>6 DEF IInv

\* What marking undo in place leaves
LEMMA MarkedInPlace ==
  ASSUME GapInv, MarkInPlace
  PROVE  /\ canundo' = TRUE /\ before' = Contents /\ moved' \in BOOLEAN
         /\ Lies(oldgapbegin', oldgapend')
         /\ Content(buf, oldgapbegin', oldgapend') = Contents
  BY DEF GapInv, MarkInPlace, MarkUndo, Contents

LEMMA BackspaceStep ==
  ASSUME IInv, Backspace
  PROVE  IInv' /\ Abstract!Remove
<1> DEFINE h == IF gapbegin = 0 THEN 0 ELSE gapbegin - 1
<1>1. /\ GapInv /\ buf \in Memory /\ Lies(gapbegin, gapend)
      /\ Content(buf, gapbegin, gapend) = Contents
  BY GapFacts DEF IInv
<1>2. h \in 0 .. gapbegin /\ gapend \in gapend .. BufSz - 1
  BY <1>1, GapFacts, EditAssumption
<1>3. Becomes(<<buf, h, gapend>>)
  BY DEF Backspace, Becomes
<1>4. /\ canundo' = TRUE /\ before' = Contents /\ moved' \in BOOLEAN
      /\ Lies(oldgapbegin', oldgapend')
      /\ Content(buf, oldgapbegin', oldgapend') = Contents
  BY <1>1, MarkedInPlace DEF Backspace
<1> HIDE DEF h
<1>5. GapInv' /\ Abstract!Remove
  BY <1>1, <1>2, <1>3, <1>4, Removes
<1>6. SelInv' /\ ClipInv'
  BY DEF IInv, SelInv, ClipInv, Backspace, sel, clip
<1> QED
  BY <1>5, <1>6 DEF IInv

LEMMA DeleteRightStep ==
  ASSUME IInv, DeleteRight
  PROVE  IInv' /\ Abstract!Remove
<1> DEFINE f == IF gapend = BufSz - 1 THEN gapend ELSE gapend + 1
<1>1. /\ GapInv /\ buf \in Memory /\ Lies(gapbegin, gapend)
      /\ Content(buf, gapbegin, gapend) = Contents
  BY GapFacts DEF IInv
<1>2. gapbegin \in 0 .. gapbegin /\ f \in gapend .. BufSz - 1
  BY <1>1, GapFacts, EditAssumption
<1>3. Becomes(<<buf, gapbegin, f>>)
  BY DEF DeleteRight, Becomes
<1>4. /\ canundo' = TRUE /\ before' = Contents /\ moved' \in BOOLEAN
      /\ Lies(oldgapbegin', oldgapend')
      /\ Content(buf, oldgapbegin', oldgapend') = Contents
  BY <1>1, MarkedInPlace DEF DeleteRight
<1> HIDE DEF f
<1>5. GapInv' /\ Abstract!Remove
  BY <1>1, <1>2, <1>3, <1>4, Removes
<1>6. SelInv' /\ ClipInv'
  BY DEF IInv, SelInv, ClipInv, DeleteRight, sel, clip
<1> QED
  BY <1>5, <1>6 DEF IInv

\* The end of a selection that is being made follows the cursor.
LEMMA Following ==
  ASSUME SelInv, gapbegin' \in Nat, Follow, UNCHANGED <<mode, startsel>>
  PROVE  SelInv'
  BY EditAssumption DEF SelInv, Follow

LEMMA LeftStep ==
  ASSUME IInv, Left
  PROVE  IInv' /\ Abstract!Move
<1> DEFINE b == [buf EXCEPT ![gapend] = buf[gapbegin - 1]]
<1>1. /\ GapInv /\ buf \in Memory /\ Lies(gapbegin, gapend) /\ gapbegin > 0
      /\ gapbegin \in Nat /\ Contents = Content(buf, gapbegin, gapend)
  BY GapFacts DEF IInv, Left
<1>2. /\ b \in Memory /\ Lies(gapbegin - 1, gapend - 1)
      /\ Content(b, gapbegin - 1, gapend - 1) = Contents
  BY <1>1, SteppingLeft
<1>3. Becomes(<<b, gapbegin - 1, gapend - 1>>)
  BY DEF Left, Becomes
<1>4. /\ UNCHANGED <<canundo, oldgapbegin, oldgapend, before>>
      /\ moved' = TRUE
  <2>1. gapbegin' # gapbegin
    BY <1>1 DEF Left
  <2> QED
    BY <2>1 DEF Left, KeepUndo
<1> HIDE DEF b
<1>5. GapInv' /\ Abstract!Move
  BY <1>1, <1>2, <1>3, <1>4, Moves
<1>6. SelInv'
  <2>1. gapbegin' \in Nat /\ Follow /\ UNCHANGED <<mode, startsel>>
    BY <1>1 DEF Left
  <2> QED
    BY <2>1, Following DEF IInv
<1>7. ClipInv'
  BY DEF IInv, ClipInv, Left, clip, file
<1> QED
  BY <1>5, <1>6, <1>7 DEF IInv

LEMMA RightStep ==
  ASSUME IInv, Right
  PROVE  IInv' /\ Abstract!Move
<1> DEFINE b == [buf EXCEPT ![gapbegin] = buf[gapend + 1]]
<1>1. /\ GapInv /\ buf \in Memory /\ Lies(gapbegin, gapend) /\ gapend < BufSz - 1
      /\ gapbegin \in Nat /\ Contents = Content(buf, gapbegin, gapend)
  BY GapFacts, EditAssumption DEF IInv, Right, CanGoRight
<1>2. /\ b \in Memory /\ Lies(gapbegin + 1, gapend + 1)
      /\ Content(b, gapbegin + 1, gapend + 1) = Contents
  BY <1>1, SteppingRight
<1>3. Becomes(<<b, gapbegin + 1, gapend + 1>>)
  BY DEF Right, Becomes
<1>4. /\ UNCHANGED <<canundo, oldgapbegin, oldgapend, before>>
      /\ moved' = TRUE
  <2>1. gapbegin' # gapbegin
    BY <1>1 DEF Right
  <2> QED
    BY <2>1 DEF Right, KeepUndo
<1> HIDE DEF b
<1>5. GapInv' /\ Abstract!Move
  BY <1>1, <1>2, <1>3, <1>4, Moves
<1>6. SelInv'
  <2>1. gapbegin' \in Nat /\ Follow /\ UNCHANGED <<mode, startsel>>
    BY <1>1 DEF Right
  <2> QED
    BY <2>1, Following DEF IInv
<1>7. ClipInv'
  BY DEF IInv, ClipInv, Right, clip, file
<1> QED
  BY <1>5, <1>6, <1>7 DEF IInv

\* Where jump_pos takes the gap of the buffer
LEMMA JumpFacts ==
  ASSUME GapInv, NEW p \in 0 .. DataSize,
         NEW m, m = Jumped(buf, gapbegin, gapend, p)
  PROVE  /\ m = <<m[1], m[2], m[3]>>
         /\ m[1] \in Memory /\ Lies(m[2], m[3])
         /\ m[2] - gapbegin = m[3] - gapend
         /\ m[2] = p \/ (p = BufSz /\ m = <<buf, gapbegin, gapend>>)
         /\ m[2] = gapbegin => m[1] = buf /\ m[3] = gapend
         /\ p = gapbegin => m = <<buf, gapbegin, gapend>>
         /\ Content(m[1], m[2], m[3]) = Contents
<1>1. /\ buf \in Memory /\ Lies(gapbegin, gapend)
      /\ Contents = Content(buf, gapbegin, gapend) /\ p \in 0 .. Size(gapbegin, gapend)
  BY GapFacts
<1>2. /\ m = <<m[1], m[2], m[3]>>
      /\ m[1] \in Memory /\ Lies(m[2], m[3])
      /\ m[2] - gapbegin = m[3] - gapend
      /\ m[2] = p \/ (p = BufSz /\ m = <<buf, gapbegin, gapend>>)
      /\ p = gapbegin => m = <<buf, gapbegin, gapend>>
      /\ Content(m[1], m[2], m[3]) = Content(buf, gapbegin, gapend)
  BY <1>1, Jumping
<1>3. m[2] = gapbegin => m[1] = buf /\ m[3] = gapend
  BY <1>2
<1> QED
  BY <1>1, <1>2, <1>3

LEMMA JumpStep ==
  ASSUME IInv, NEW k \in 0 .. 8, Jump(k)
  PROVE  IInv' /\ Abstract!Move
<1> DEFINE p == (k * DataSize) \div 8
           m == Jumped(buf, gapbegin, gapend, p)
<1>1. /\ GapInv /\ DataSize \in Nat /\ gapbegin \in Nat
  BY GapFacts DEF IInv
<1>2. p \in 0 .. DataSize
  <2>1. \A x \in 0 .. 8 * DataSize : (x \div 8) \in 0 .. DataSize
    BY <1>1
  <2>2. k \in {0, 1, 2, 3, 4, 5, 6, 7, 8}
    OBVIOUS
  <2>3. k * DataSize \in 0 .. 8 * DataSize
    BY <1>1, <2>2
  <2> QED
    BY <2>1, <2>3
<1>3. Becomes(m)
  BY DEF Jump
<1> HIDE DEF p
<1>4. m = Jumped(buf, gapbegin, gapend, p)
  OBVIOUS
<1> HIDE DEF m
<1>5. /\ m[1] \in Memory /\ Lies(m[2], m[3])
      /\ m[2] = gapbegin => m[1] = buf /\ m[3] = gapend
      /\ Content(m[1], m[2], m[3]) = Contents
  BY <1>1, <1>2, <1>4, JumpFacts
<1>6. Becomes(<<m[1], m[2], m[3]>>) /\ gapbegin' = m[2]
  BY <1>3 DEF Becomes
<1>7. /\ UNCHANGED <<canundo, oldgapbegin, oldgapend, before>>
      /\ moved' \in BOOLEAN
      /\ ~moved' => ~moved /\ m[1] = buf
  BY <1>1, <1>5, <1>6 DEF Jump, KeepUndo, GapInv
<1>8. GapInv' /\ Abstract!Move
  BY <1>1, <1>5, <1>6, <1>7, Moves
<1>9. SelInv'
  <2>1. gapbegin' \in Nat /\ Follow /\ UNCHANGED <<mode, startsel>>
    BY <1>5, <1>6 DEF Jump, Lies
  <2> QED
    BY <2>1, Following DEF IInv
<1>10. ClipInv'
  BY DEF IInv, ClipInv, Jump, clip, file
<1> QED
  BY <1>8, <1>9, <1>10 DEF IInv

-----------------------------------------------------------------------------
(* The selection and the clipboard                                         *)

\* The commands that change the selection only
LEMMA SelectionStep ==
  ASSUME IInv, Mark \/ SelectAll \/ Escape \/ RightBeeps
  PROVE  IInv' /\ UNCHANGED textVars
<1>1. GapInv /\ gapbegin \in Nat /\ DataSize \in Nat /\ NoSel \notin Nat
  BY GapFacts, EditAssumption DEF IInv
<1>2. UNCHANGED <<gap, undo, clip, file>>
  BY DEF Mark, SelectAll, Escape, RightBeeps
<1>3. SelInv'
  <2>1. CASE Mark
    BY <1>1, <2>1 DEF IInv, SelInv, Mark
  <2>2. CASE SelectAll
    BY <1>1, <2>2 DEF IInv, SelInv, SelectAll
  <2>3. CASE Escape
    BY <1>1, <2>3 DEF IInv, SelInv, Escape, ClearSelection
  <2>4. CASE RightBeeps
    BY <1>1, <2>4 DEF IInv, SelInv, RightBeeps
  <2> QED
    BY <2>1, <2>2, <2>3, <2>4
<1>4. GapInv' /\ UNCHANGED textVars
  BY <1>1, <1>2 DEF GapInv, Contents, textVars, gap, undo
<1>5. ClipInv'
  BY <1>2 DEF IInv, ClipInv, clip, file
<1> QED
  BY <1>3, <1>4, <1>5 DEF IInv

LEMMA ClearedSelection ==
  ASSUME ClearSelection, mode' = "none"
  PROVE  SelInv'
  BY DEF ClearSelection, SelInv

\* A selection that a careful user acts on lies within the text.
LEMMA Selected ==
  ASSUME IInv, startsel # NoSel, InRange, "range" \in Habits
  PROVE  /\ First \in 0 .. DataSize /\ Length \in Nat
         /\ First + Length <= DataSize
<1>1. startsel \in Nat /\ endsel \in Nat /\ DataSize \in Nat
  BY GapFacts DEF IInv, SelInv
<1>2. First \in Nat /\ Length \in Nat
  BY <1>1 DEF First, Length
<1> QED
  BY <1>1, <1>2 DEF InRange

\* A jump to a piece of the text leaves the gap right before it.
LEMMA Reaching ==
  ASSUME NEW b \in Memory, NEW g, NEW e, Lies(g, e),
         Content(b, g, e) \in Seq(Chars),
         NEW p \in Nat, NEW n \in Nat, p + n <= Size(g, e),
         NEW m, m = Jumped(b, g, e, p)
  PROVE  /\ m[3] + n \in m[3] .. BufSz - 1
         /\ Get(m[1], m[3] + 1, n) \in Seq(Chars)
<1>1. /\ g \in Nat /\ e \in Int /\ g <= e + 1 /\ e <= BufSz - 1 /\ BufSz \in Nat
      /\ Size(g, e) = g + (BufSz - 1 - e)
  BY EditAssumption DEF Lies, Size
<1>2. p \in 0 .. Size(g, e)
  BY <1>1
<1>3. /\ m[1] \in Memory /\ Lies(m[2], m[3])
      /\ m[2] - g = m[3] - e
      /\ m[2] = p \/ (p = BufSz /\ m = <<b, g, e>>)
      /\ Content(m[1], m[2], m[3]) = Content(b, g, e)
  BY <1>2, Jumping
<1>4. m[2] \in Int /\ m[3] \in Int /\ m[3] <= BufSz - 1
  BY <1>3 DEF Lies
<1>5. m[3] + n <= BufSz - 1
  <2>1. CASE m[2] = p
    BY <1>1, <1>3, <1>4, <2>1
  <2>2. CASE p = BufSz
    <3>1. n = 0
      BY <1>1, <2>2
    <3> QED
      BY <1>4, <3>1
  <2> QED
    BY <1>3, <2>1, <2>2
<1>6. Content(m[1], m[2], m[3]) \in Seq(Chars)
  BY <1>3
<1>7. m[1] \in Memory /\ Lies(m[2], m[3])
  BY <1>3
<1> QED
  BY <1>4, <1>5, <1>6, <1>7, TextBytes

\* There and back leaves the text as it is, and the memory when there is here.
LEMMA VisitFacts ==
  ASSUME GapInv, NEW p \in 0 .. DataSize, NEW m, m = Visited(p)
  PROVE  /\ m = <<m[1], m[2], m[3]>>
         /\ m[1] \in Memory /\ Lies(m[2], m[3])
         /\ Size(m[2], m[3]) = DataSize
         /\ p = gapbegin => m = <<buf, gapbegin, gapend>>
         /\ Content(m[1], m[2], m[3]) = Contents
<1> DEFINE t == Jumped(buf, gapbegin, gapend, p)
<1>1. /\ gapbegin \in Nat /\ gapend \in Int /\ DataSize = Size(gapbegin, gapend)
      /\ gapbegin \in 0 .. DataSize
      /\ Contents = Content(buf, gapbegin, gapend)
      /\ buf \in Memory /\ Lies(gapbegin, gapend)
  BY GapFacts
<1>2. /\ t[1] \in Memory /\ Lies(t[2], t[3])
      /\ t[2] - gapbegin = t[3] - gapend
      /\ p = gapbegin => t = <<buf, gapbegin, gapend>>
      /\ Content(t[1], t[2], t[3]) = Contents
  BY JumpFacts
<1>3. m = Jumped(t[1], t[2], t[3], gapbegin)
  BY DEF Visited
<1> HIDE DEF t
<1>4. Size(t[2], t[3]) = DataSize
  <2>1. t[2] \in Int /\ t[3] \in Int
    BY <1>2 DEF Lies
  <2>2. t[2] - t[3] = gapbegin - gapend
    BY <1>1, <1>2, <2>1
  <2> QED
    BY <1>1, <2>1, <2>2, EditAssumption DEF Size
<1>5. /\ m = <<m[1], m[2], m[3]>>
      /\ m[1] \in Memory /\ Lies(m[2], m[3])
      /\ m[2] - t[2] = m[3] - t[3]
      /\ gapbegin = t[2] => m = <<t[1], t[2], t[3]>>
      /\ Content(m[1], m[2], m[3]) = Content(t[1], t[2], t[3])
  <2>1. gapbegin \in 0 .. Size(t[2], t[3])
    BY <1>1, <1>4
  <2> QED
    BY <1>2, <1>3, <2>1, Jumping
<1>6. Size(m[2], m[3]) = DataSize
  <2>1. t[2] \in Int /\ t[3] \in Int /\ m[2] \in Int /\ m[3] \in Int
    BY <1>2, <1>5 DEF Lies
  <2>2. m[2] - m[3] = t[2] - t[3]
    BY <1>5, <2>1
  <2>3. BufSz \in Int
    BY EditAssumption
  <2>4. m[2] + (BufSz - 1 - m[3]) = t[2] + (BufSz - 1 - t[3])
    BY <2>1, <2>2, <2>3
  <2> QED
    BY <1>4, <2>4 DEF Size
<1>7. p = gapbegin => m = <<buf, gapbegin, gapend>>
  BY <1>2, <1>5
<1> QED
  BY <1>2, <1>5, <1>6, <1>7

\* What a command takes from the selection is text.
LEMMA ToClipboardStep ==
  ASSUME IInv, startsel # NoSel, InRange, "range" \in Habits,
         ToClipboard(Jumped(buf, gapbegin, gapend, First))
  PROVE  cut' \in Seq(Chars) /\ clipfile' \in Seq(Chars)
<1> DEFINE m == Jumped(buf, gapbegin, gapend, First)
<1>1. /\ buf \in Memory /\ Lies(gapbegin, gapend) /\ Content(buf, gapbegin, gapend) \in Seq(Chars)
      /\ DataSize = Size(gapbegin, gapend)
  BY GapFacts DEF IInv, GapInv
<1>2. First \in Nat /\ Length \in Nat /\ First + Length <= Size(gapbegin, gapend)
  BY <1>1, Selected
<1>3. Get(m[1], m[3] + 1, Length) \in Seq(Chars)
  BY <1>1, <1>2, Reaching
<1>4. Picked(m) \in Seq(Chars)
  BY <1>3 DEF Picked
<1> HIDE DEF m
<1>5. ToClipboard(m)
  BY DEF m
<1>6. clipfile \in Seq(Chars) /\ << >> \in Seq(Chars)
  BY DEF IInv, ClipInv
<1> QED
  BY <1>4, <1>5, <1>6 DEF ToClipboard

LEMMA CopyStep ==
  ASSUME IInv, Copy, "range" \in Habits
  PROVE  IInv' /\ Abstract!Move
<1> DEFINE m == Visited(First)
<1>1. GapInv /\ gapbegin \in Nat /\ First \in 0 .. DataSize
  BY GapFacts, Selected DEF IInv, Copy
<1>2. /\ m[1] \in Memory /\ Lies(m[2], m[3])
      /\ First = gapbegin => m = <<buf, gapbegin, gapend>>
      /\ Content(m[1], m[2], m[3]) = Contents
  BY <1>1, VisitFacts
<1>3. Becomes(<<m[1], m[2], m[3]>>)
  BY DEF Copy, Becomes
<1> HIDE DEF m
<1>4. /\ UNCHANGED <<canundo, oldgapbegin, oldgapend, before>>
      /\ moved' \in BOOLEAN
      /\ ~moved' => ~moved /\ m[1] = buf
  <2>1. /\ UNCHANGED <<canundo, oldgapbegin, oldgapend, before>>
        /\ moved' = (moved \/ First # gapbegin)
    BY DEF Copy
  <2>2. First = gapbegin => m[1] = buf
    BY <1>2
  <2>3. moved' \in BOOLEAN
    BY <2>1
  <2> QED
    BY <2>1, <2>2, <2>3
<1>5. GapInv' /\ Abstract!Move
  BY <1>1, <1>2, <1>3, <1>4, Moves
<1>6. SelInv'
  BY ClearedSelection DEF Copy
<1>7. ClipInv'
  <2>1. cut' \in Seq(Chars) /\ clipfile' \in Seq(Chars)
    BY ToClipboardStep DEF Copy
  <2> QED
    BY <2>1 DEF IInv, ClipInv, Copy
<1> QED
  BY <1>5, <1>6, <1>7 DEF IInv

LEMMA CutStep ==
  ASSUME IInv, Cut, "range" \in Habits
  PROVE  IInv' /\ Abstract!Remove
<1> DEFINE m == Jumped(buf, gapbegin, gapend, First)
           back == Visited(First)
           again == Jumped(back[1], back[2], back[3], First)
           at == IF Short THEN m ELSE again
<1>1. /\ GapInv /\ gapbegin \in Nat /\ First \in 0 .. DataSize /\ Length \in Nat
      /\ First + Length <= DataSize /\ DataSize = Size(gapbegin, gapend)
      /\ buf \in Memory /\ Lies(gapbegin, gapend)
      /\ Content(buf, gapbegin, gapend) = Contents /\ Contents \in Seq(Chars)
  BY GapFacts, Selected DEF IInv, Cut, GapInv
<1>2. /\ m[1] \in Memory /\ Lies(m[2], m[3])
      /\ First = gapbegin => m = <<buf, gapbegin, gapend>>
      /\ Content(m[1], m[2], m[3]) = Contents
  BY <1>1, JumpFacts
<1>3. m[3] + Length \in m[3] .. BufSz - 1
  <2>1. Content(buf, gapbegin, gapend) \in Seq(Chars) /\ First \in Nat
        /\ First + Length <= Size(gapbegin, gapend)
    BY <1>1
  <2> QED
    BY <1>1, <2>1, Reaching
<1>4. /\ back[1] \in Memory /\ Lies(back[2], back[3])
      /\ Size(back[2], back[3]) = DataSize
      /\ First = gapbegin => back = <<buf, gapbegin, gapend>>
      /\ Content(back[1], back[2], back[3]) = Contents
  BY <1>1, VisitFacts
<1>5. ToClipboard(m) /\ Becomes(<<at[1], at[2], at[3] + Length>>)
  BY DEF Cut
<1>6. /\ canundo' = TRUE
      /\ oldgapbegin' = IF Short THEN m[2] ELSE back[2]
      /\ oldgapend' = IF Short THEN m[3] ELSE back[3]
      /\ before' = Contents /\ moved' = (~Short /\ First # gapbegin)
  BY DEF Cut
<1> HIDE DEF back
<1>7. /\ again[1] \in Memory /\ Lies(again[2], again[3])
      /\ Content(again[1], again[2], again[3]) = Contents
      /\ again[3] + Length \in again[3] .. BufSz - 1
  <2>1. First \in 0 .. Size(back[2], back[3])
    BY <1>1, <1>4
  <2>2. /\ First \in Nat /\ First + Length <= Size(back[2], back[3])
        /\ Content(back[1], back[2], back[3]) \in Seq(Chars)
    BY <1>1, <1>4
  <2>3. /\ again[1] \in Memory /\ Lies(again[2], again[3])
        /\ Content(again[1], again[2], again[3]) = Content(back[1], back[2], back[3])
    BY <1>4, <2>1, Jumping
  <2>4. again[3] + Length \in again[3] .. BufSz - 1
    BY <1>1, <1>4, <2>2, Reaching
  <2> QED
    BY <1>4, <2>3, <2>4
<1>8. First = gapbegin => again = <<buf, gapbegin, gapend>>
  BY <1>2, <1>4
<1> HIDE DEF m, again
<1>9. /\ at[1] \in Memory /\ Lies(at[2], at[3])
      /\ Content(at[1], at[2], at[3]) = Contents
      /\ at[3] + Length \in at[3] .. BufSz - 1
  BY <1>2, <1>3, <1>7
<1>10. Lies(oldgapbegin', oldgapend')
  BY <1>2, <1>4, <1>6
<1>11. ~moved' => Content(at[1], oldgapbegin', oldgapend') = Contents
  <2>1. CASE Short
    BY <1>2, <1>6, <2>1
  <2>2. CASE ~Short /\ First = gapbegin
    BY <1>1, <1>4, <1>6, <1>8, <2>2
  <2> QED
    BY <1>6, <2>1, <2>2
<1> HIDE DEF at
<1>12. at[2] \in 0 .. at[2]
  BY <1>9 DEF Lies
<1>13. moved' \in BOOLEAN
  BY <1>6
<1>14. GapInv' /\ Abstract!Remove
  BY <1>1, <1>5, <1>6, <1>9, <1>10, <1>11, <1>12, <1>13, Removes
<1>15. SelInv'
  BY ClearedSelection DEF Cut
<1>16. ClipInv'
  <2>1. cut' \in Seq(Chars) /\ clipfile' \in Seq(Chars)
    BY <1>5, ToClipboardStep DEF Cut, m
  <2> QED
    BY <2>1 DEF IInv, ClipInv, Cut
<1> QED
  BY <1>14, <1>15, <1>16 DEF IInv

LEMMA DeleteSelectionStep ==
  ASSUME IInv, DeleteSelection, "range" \in Habits
  PROVE  IInv' /\ Abstract!Remove
<1> DEFINE m == Jumped(buf, gapbegin, gapend, First)
<1>1. /\ GapInv /\ gapbegin \in Nat /\ First \in 0 .. DataSize /\ Length \in Nat
      /\ First + Length <= DataSize /\ DataSize = Size(gapbegin, gapend)
      /\ buf \in Memory /\ Lies(gapbegin, gapend)
      /\ Content(buf, gapbegin, gapend) = Contents /\ Contents \in Seq(Chars)
  BY GapFacts, Selected DEF IInv, DeleteSelection, GapInv
<1>2. /\ m[1] \in Memory /\ Lies(m[2], m[3])
      /\ First = gapbegin => m = <<buf, gapbegin, gapend>>
      /\ Content(m[1], m[2], m[3]) = Contents
  BY <1>1, JumpFacts
<1>3. m[3] + Length \in m[3] .. BufSz - 1
  <2>1. Content(buf, gapbegin, gapend) \in Seq(Chars) /\ First \in Nat
        /\ First + Length <= Size(gapbegin, gapend)
    BY <1>1
  <2> QED
    BY <1>1, <2>1, Reaching
<1>4. Becomes(<<m[1], m[2], m[3] + Length>>)
  BY DEF DeleteSelection
<1> HIDE DEF m
<1>5. /\ canundo' = TRUE /\ oldgapbegin' = gapbegin /\ oldgapend' = gapend
      /\ before' = Contents /\ moved' = (First # gapbegin)
  BY DEF DeleteSelection, MarkUndo
<1>6. /\ Lies(oldgapbegin', oldgapend') /\ moved' \in BOOLEAN
      /\ ~moved' => Content(m[1], oldgapbegin', oldgapend') = Contents
  <2>1. First = gapbegin => m[1] = buf
    BY <1>2
  <2>2. moved' \in BOOLEAN
    BY <1>5
  <2> QED
    BY <1>1, <1>5, <2>1, <2>2
<1>7. m[2] \in 0 .. m[2]
  BY <1>2 DEF Lies
<1>8. GapInv' /\ Abstract!Remove
  BY <1>1, <1>2, <1>3, <1>4, <1>5, <1>6, <1>7, Removes
<1>9. SelInv'
  BY ClearedSelection DEF DeleteSelection
<1>10. ClipInv'
  BY DEF IInv, ClipInv, DeleteSelection, clip
<1> QED
  BY <1>8, <1>9, <1>10 DEF IInv

LEMMA CopyFailsStep ==
  ASSUME IInv, CopyFails, "range" \in Habits
  PROVE  IInv' /\ UNCHANGED textVars
<1>1. First \in Nat /\ First + Length \in Nat
  BY Selected DEF CopyFails
<1>2. SelInv'
  BY <1>1, EditAssumption DEF SelInv, CopyFails
<1>3. GapInv' /\ UNCHANGED textVars
  BY DEF IInv, CopyFails, GapInv, Contents, textVars, gap, undo
<1>4. ClipInv'
  BY DEF IInv, CopyFails, ClipInv, file
<1> QED
  BY <1>2, <1>3, <1>4 DEF IInv

\* What load_file takes fits into a gap of at least one byte.
LEMMA TakenFits ==
  ASSUME NEW s \in Seq(Chars), FreeSpace \in Nat, 1 <= FreeSpace
  PROVE  Taken(s) \in Seq(Chars) /\ Len(Taken(s)) <= FreeSpace
<1> DEFINE n == IF FreeSpace < Margin THEN 1 ELSE FreeSpace - Margin + 1
<1>1. n \in Int /\ 0 <= n /\ n <= FreeSpace
  BY EditAssumption
<1>2. Taken(s) = Prefix(s, n)
  BY DEF Taken
<1> HIDE DEF n
<1>3. Prefix(s, n) \in Seq(Chars) /\ Len(Prefix(s, n)) <= n
  BY <1>1, PrefixIs
<1>4. Len(Prefix(s, n)) \in Nat
  BY <1>3, LenProperties
<1> QED
  BY <1>1, <1>2, <1>3, <1>4

LEMMA PasteStep ==
  ASSUME IInv, Paste, "room" \in Habits
  PROVE  IInv' /\ Abstract!Insert
<1>1. GapInv /\ cut \in Seq(Chars) /\ Len(cut) <= FreeSpace
  BY DEF IInv, ClipInv, Paste, Careful
<1>2. MarkInPlace /\ Insert(cut) /\ gapend' = gapend
  BY DEF Paste
<1>3. GapInv' /\ Abstract!Insert
  BY <1>1, <1>2, Inserts
<1>4. SelInv'
  BY ClearedSelection DEF Paste
<1>5. ClipInv'
  BY DEF IInv, ClipInv, Paste, clip, file
<1> QED
  BY <1>3, <1>4, <1>5 DEF IInv

LEMMA PasteFileStep ==
  ASSUME IInv, PasteFile, "room" \in Habits
  PROVE  IInv' /\ Abstract!Insert
<1>1. GapInv /\ clipfile \in Seq(Chars) /\ FreeSpace \in Nat /\ 1 <= FreeSpace
  BY GapFacts DEF IInv, ClipInv, PasteFile, Careful
<1>2. Taken(clipfile) \in Seq(Chars) /\ Len(Taken(clipfile)) <= FreeSpace
  BY <1>1, TakenFits
<1>3. MarkInPlace /\ Insert(Taken(clipfile)) /\ gapend' = gapend
  BY DEF PasteFile
<1>4. GapInv' /\ Abstract!Insert
  BY <1>1, <1>2, <1>3, Inserts
<1>5. SelInv'
  BY ClearedSelection DEF PasteFile
<1>6. ClipInv'
  BY DEF IInv, ClipInv, PasteFile, clip, file
<1> QED
  BY <1>4, <1>5, <1>6 DEF IInv

LEMMA UndoStep ==
  ASSUME IInv, Undo, "undo" \in Habits
  PROVE  IInv' /\ Abstract!Undo
<1>1. /\ GapInv /\ canundo /\ ~moved
      /\ buf \in Memory /\ Lies(gapbegin, gapend) /\ Lies(oldgapbegin, oldgapend)
      /\ Contents = Content(buf, gapbegin, gapend) /\ Contents \in Seq(Chars)
      /\ Content(buf, oldgapbegin, oldgapend) = before /\ before \in Seq(Chars)
  BY GapFacts DEF IInv, GapInv, Undo, Undoable
<1>2. /\ gapbegin' = oldgapbegin /\ oldgapbegin' = gapbegin
      /\ gapend' = oldgapend /\ oldgapend' = gapend
      /\ before' = Contents /\ moved' = FALSE /\ buf' = buf /\ canundo' = canundo
  BY DEF Undo
<1>3. Contents' = before
  BY <1>1, <1>2 DEF Contents
<1>4. canundo \in BOOLEAN
  BY DEF IInv, GapInv
<1>5. GapInv'
  BY <1>1, <1>2, <1>3, <1>4 DEF GapInv
<1>6. Abstract!Undo
  <2>1. (IF canundo THEN {before} ELSE {}) = {before}
    BY <1>1
  <2>2. (IF canundo THEN {before} ELSE {})' = {Contents}
    BY <1>1, <1>2
  <2>3. gapbegin' \in 0 .. Len(Contents')
    <3>1. Len(before) = Size(oldgapbegin, oldgapend) /\ Size(oldgapbegin, oldgapend) \in Nat
          /\ oldgapbegin <= Size(oldgapbegin, oldgapend) /\ oldgapbegin \in Nat
      BY <1>1, ContentIs, Places DEF Lies
    <3> QED
      BY <1>2, <1>3, <3>1
  <2> QED
    BY <1>3, <2>1, <2>2, <2>3 DEF Abstract!Undo
<1>7. SelInv'
  BY DEF IInv, SelInv, Undo, sel
<1>8. ClipInv'
  BY DEF IInv, ClipInv, Undo, clip, file
<1> QED
  BY <1>5, <1>6, <1>7, <1>8 DEF IInv

-----------------------------------------------------------------------------
(* Files and searching                                                     *)

LEMMA InsertFileStep ==
  ASSUME IInv, NEW s \in Files, InsertFile(s), "room" \in Habits
  PROVE  IInv' /\ Abstract!Insert
<1>1. GapInv /\ s \in Seq(Chars) /\ FreeSpace \in Nat /\ 1 <= FreeSpace
  BY GapFacts, EditAssumption DEF IInv, InsertFile, Careful
<1>2. Taken(s) \in Seq(Chars) /\ Len(Taken(s)) <= FreeSpace
  BY <1>1, TakenFits
<1>3. MarkInPlace /\ Insert(Taken(s)) /\ gapend' = gapend
  BY DEF InsertFile
<1>4. GapInv' /\ Abstract!Insert
  BY <1>1, <1>2, <1>3, Inserts
<1>5. SelInv' /\ ClipInv'
  BY DEF IInv, SelInv, ClipInv, InsertFile, sel, file
<1> QED
  BY <1>4, <1>5 DEF IInv

LEMMA SaveStep ==
  ASSUME IInv, Save \/ SaveFails
  PROVE  IInv' /\ Abstract!Move
<1> DEFINE m == Visited(0)
<1>1. /\ GapInv /\ gapbegin \in Nat /\ 0 \in 0 .. DataSize
      /\ Contents \in Seq(Chars) /\ moved \in BOOLEAN
  BY GapFacts DEF IInv, GapInv
<1>2. /\ m[1] \in Memory /\ Lies(m[2], m[3])
      /\ 0 = gapbegin => m = <<buf, gapbegin, gapend>>
      /\ Content(m[1], m[2], m[3]) = Contents
  BY <1>1, VisitFacts
<1>3. Saved /\ UNCHANGED <<canundo, oldgapbegin, oldgapend, before, mode, startsel, clipfile>>
  BY DEF Save, SaveFails
<1>4. Becomes(<<m[1], m[2], m[3]>>) /\ gapbegin' = m[2]
  BY <1>3 DEF Saved, Becomes
<1> HIDE DEF m
<1>5. moved' \in BOOLEAN /\ (~moved' => ~moved /\ m[1] = buf)
  <2>1. moved' = (moved \/ gapbegin # 0)
    BY <1>3 DEF Saved
  <2>2. gapbegin = 0 => m[1] = buf
    BY <1>2
  <2>3. moved' \in BOOLEAN
    BY <2>1
  <2> QED
    BY <2>1, <2>2, <2>3
<1>6. GapInv' /\ Abstract!Move
  BY <1>1, <1>2, <1>3, <1>4, <1>5, Moves
<1>7. SelInv'
  <2>1. gapbegin' \in Nat
    BY <1>2, <1>4 DEF Lies
  <2>2. /\ mode' = mode /\ startsel' = startsel
        /\ endsel' = IF mode = "select" /\ gapbegin # 0 THEN gapbegin' ELSE endsel
    BY <1>3 DEF Saved
  <2> QED
    BY <2>1, <2>2, EditAssumption DEF IInv, SelInv
<1>8. ClipInv'
  <2>1. cut' = << >> /\ clipfile' = clipfile
    BY <1>3 DEF Saved
  <2>2. disk' \in Seq(Chars) /\ modified' \in BOOLEAN
    <3>1. CASE Save
      BY <1>1, <3>1 DEF Save
    <3>2. CASE SaveFails
      BY <3>2 DEF SaveFails, IInv, ClipInv
    <3> QED
      BY <3>1, <3>2
  <2> QED
    BY <2>1, <2>2 DEF IInv, ClipInv
<1> QED
  BY <1>6, <1>7, <1>8 DEF IInv

LEMMA OpenStep ==
  ASSUME IInv, NEW s \in Files, Open(s)
  PROVE  IInv' /\ Abstract!Load
<1> DEFINE t == Prefix(s, LoadSpace)
           b == Put(buf, 0, t)
           m == Jumped(b, Len(t), BufSz - 1, 0)
<1>1. /\ GapInv /\ buf \in Memory /\ s \in Seq(Chars) /\ LoadSpace \in Int
      /\ LoadSpace <= BufSz /\ BufSz \in Nat /\ BufSz > 0
  BY GapFacts, EditAssumption DEF IInv, LoadSpace
<1>2. t \in Seq(Chars) /\ Len(t) \in Nat /\ Len(t) <= BufSz
  <2>1. /\ t \in Seq(Chars)
        /\ LoadSpace >= 0 => Len(t) <= LoadSpace
        /\ LoadSpace < 0 => Len(t) = 0
    BY <1>1, PrefixIs
  <2>2. Len(t) \in Nat
    BY <2>1, LenProperties
  <2> HIDE DEF t
  <2> QED
    BY <1>1, <2>1, <2>2
<1> HIDE DEF t
<1>3. /\ b \in Memory /\ Lies(Len(t), BufSz - 1)
      /\ Content(b, Len(t), BufSz - 1) = t
  BY <1>1, <1>2, Loading
<1> HIDE DEF b
<1>4. /\ m[1] \in Memory /\ Lies(m[2], m[3]) /\ m[2] = 0
      /\ Content(m[1], m[2], m[3]) = t
  <2>1. 0 \in 0 .. Size(Len(t), BufSz - 1)
    BY <1>1, <1>2 DEF Size
  <2>2. /\ m[1] \in Memory /\ Lies(m[2], m[3])
        /\ m[2] = 0 \/ (0 = BufSz /\ m = <<b, Len(t), BufSz - 1>>)
        /\ Content(m[1], m[2], m[3]) = Content(b, Len(t), BufSz - 1)
    BY <1>3, <2>1, Jumping
  <2> QED
    BY <1>1, <1>3, <2>2
<1>5. Becomes(m)
  BY DEF Open, t, b
<1> HIDE DEF m
<1>6. buf' = m[1] /\ gapbegin' = m[2] /\ gapend' = m[3]
  BY <1>5 DEF Becomes
<1>7. Contents' = t
  BY <1>4, <1>6 DEF Contents
<1>8. GapInv'
  BY <1>1, <1>2, <1>4, <1>6, <1>7 DEF Open, NoUndo, GapInv
<1>9. Abstract!Load
  <2>1. (IF canundo THEN {before} ELSE {})' = {}
    BY DEF Open, NoUndo
  <2>2. Contents' \in {Prefix(x, LoadSpace) : x \in Files}
    BY <1>7 DEF t
  <2> QED
    BY <1>4, <1>6, <2>1, <2>2 DEF Abstract!Load
<1>10. SelInv'
  BY ClearedSelection DEF Open
<1>11. ClipInv'
  <2>1. cut' = << >> /\ clipfile' = clipfile /\ modified' = FALSE /\ disk' = s
    BY DEF Open
  <2>2. clipfile \in Seq(Chars) /\ << >> \in Seq(Chars) /\ FALSE \in BOOLEAN
    BY DEF IInv, ClipInv
  <2>3. cut' \in Seq(Chars) /\ clipfile' \in Seq(Chars) /\ disk' \in Seq(Chars)
    BY <1>1, <2>1, <2>2
  <2>4. modified' \in BOOLEAN
    BY <2>1, <2>2
  <2> QED
    BY <2>3, <2>4 DEF ClipInv
<1> QED
  BY <1>8, <1>9, <1>10, <1>11 DEF IInv

LEMMA OpenFailsStep ==
  ASSUME IInv, OpenFails
  PROVE  IInv' /\ Abstract!Move
<1>1. /\ UNCHANGED <<buf, gapbegin, gapend, mode, startsel, endsel, clipfile, modified>>
      /\ canundo' = FALSE /\ UNCHANGED <<oldgapbegin, oldgapend, before, moved>>
      /\ cut' = << >> /\ disk' = << >>
  BY DEF OpenFails, NoUndo, gap, sel
<1>2. /\ GapInv /\ gapbegin \in Nat /\ gapbegin <= DataSize /\ DataSize \in Nat
      /\ Len(Contents) = DataSize
  BY GapFacts DEF IInv
<1>3. Contents' = Contents
  BY <1>1 DEF Contents
<1>4. GapInv'
  BY <1>1, <1>2, <1>3 DEF GapInv
<1>5. Abstract!Move
  <2>1. (IF canundo THEN {before} ELSE {})' = {}
    BY <1>1
  <2>2. gapbegin' \in 0 .. Len(Contents)
    BY <1>1, <1>2
  <2> QED
    BY <1>3, <2>1, <2>2 DEF Abstract!Move
<1>6. SelInv' /\ ClipInv'
  BY <1>1 DEF IInv, SelInv, ClipInv
<1> QED
  BY <1>4, <1>5, <1>6 DEF IInv

LEMMA InterludeStep ==
  ASSUME IInv, Interlude
  PROVE  IInv' /\ UNCHANGED textVars
<1>1. GapInv' /\ UNCHANGED textVars
  BY DEF IInv, Interlude, GapInv, Contents, textVars, gap, undo
<1>2. SelInv' /\ ClipInv'
  BY DEF IInv, Interlude, SelInv, ClipInv, sel, file
<1> QED
  BY <1>1, <1>2 DEF IInv

LEMMA FindStep ==
  ASSUME IInv, NEW n \in Needles, Find(n), "room" \in Habits
  PROVE  IInv' /\ Abstract!Move
<1> DEFINE m == IF CanGoRight
                THEN <<[buf EXCEPT ![gapbegin] = buf[gapend + 1]], gapbegin + 1, gapend + 1>>
                ELSE gap
           right == Found(m[1], m[3] + 1, BufSz, n)
           z == Put(m[1], m[2], <<Nul>>)
           left == Found(z, 0, m[2], n)
           r == CASE right # {} -> Jumped(m[1], m[2], m[3], m[2] + Least(right) - (m[3] + 1))
                  [] right = {} /\ left # {} -> Jumped(z, m[2], m[3], Least(left))
                  [] OTHER -> <<z, m[2], m[3]>>
<1>1. /\ GapInv /\ buf \in Memory /\ Lies(gapbegin, gapend)
      /\ Contents = Content(buf, gapbegin, gapend)
      /\ gapbegin \in Nat /\ gapend \in Int /\ 1 <= gapend - gapbegin + 1
      /\ Len(n) \in Nat /\ BufSz \in Nat
  <2>1. Len(n) \in Nat
    BY EditAssumption, LenProperties
  <2> QED
    BY <2>1, GapFacts, EditAssumption DEF IInv, Find, Careful
<1>2. Becomes(r) /\ moved' = TRUE /\ mode' = "none"
      /\ UNCHANGED <<canundo, oldgapbegin, oldgapend, before, startsel, clip, file>>
      /\ endsel' = CASE mode # "select" -> endsel
                     [] mode = "select" /\ CanGoRight -> gapbegin + 1
                     [] OTHER -> gapbegin
  BY DEF Find
<1>3. /\ m[1] \in Memory /\ Lies(m[2], m[3])
      /\ m[3] - m[2] = gapend - gapbegin
      /\ Content(m[1], m[2], m[3]) = Contents
  <2>0. CanGoRight => gapend < BufSz - 1
    BY EditAssumption DEF CanGoRight
  <2>1. CASE CanGoRight
    <3> DEFINE b == [buf EXCEPT ![gapbegin] = buf[gapend + 1]]
    <3>1. /\ b \in Memory /\ Lies(gapbegin + 1, gapend + 1)
          /\ Content(b, gapbegin + 1, gapend + 1) = Contents
      BY <1>1, <2>0, <2>1, SteppingRight
    <3> HIDE DEF b
    <3>2. m = <<b, gapbegin + 1, gapend + 1>>
      BY <2>1 DEF b
    <3>3. (gapend + 1) - (gapbegin + 1) = gapend - gapbegin
      BY <1>1
    <3> HIDE DEF m
    <3> QED
      BY <3>1, <3>2, <3>3
  <2>2. CASE ~CanGoRight
    <3>1. m = <<buf, gapbegin, gapend>>
      BY <2>2 DEF gap
    <3> HIDE DEF m
    <3> QED
      BY <1>1, <3>1
  <2> QED
    BY <2>1, <2>2
<1> HIDE DEF m
<1>4. /\ m[2] \in Nat /\ m[3] \in Int /\ 1 <= m[3] - m[2] + 1
      /\ m[2] <= m[3] + 1 /\ m[3] <= BufSz - 1
  BY <1>1, <1>3 DEF Lies
<1>5. z \in Memory /\ Content(z, m[2], m[3]) = Contents
  <2>1. <<Nul>> \in Seq(Bytes) /\ Len(<<Nul>>) = 1
    BY DEF Bytes
  <2> DEFINE T == Content(m[1], m[2], m[3])
             t == Content(z, m[2] + Len(<<Nul>>), m[3])
  <2>2. T = Content(m[1], m[2], m[3]) /\ t = Content(z, m[2] + Len(<<Nul>>), m[3])
        /\ z = Put(m[1], m[2], <<Nul>>) /\ T = Contents
    BY <1>3
  <2> HIDE DEF T, t, z
  <2>3. Len(<<Nul>>) <= m[3] - m[2] + 1
    BY <1>4, <2>1
  <2>4. /\ z \in Memory /\ Lies(m[2] + Len(<<Nul>>), m[3])
        /\ m[2] + Len(<<Nul>>) >= m[2]
        /\ Content(z, m[2], m[3]) = T
        /\ PutIn(T, t, m[2], m[2] + Len(<<Nul>>))
        /\ <<Nul>> \in Seq(Chars) /\ T \in Seq(Chars) => t \in Seq(Chars)
    <3> DEFINE s == <<Nul>>
    <3>1. s \in Seq(Bytes) /\ Len(s) <= m[3] - m[2] + 1 /\ z = Put(m[1], m[2], s)
          /\ t = Content(z, m[2] + Len(s), m[3])
      BY <2>1, <2>2, <2>3
    <3> HIDE DEF s
    <3>2. /\ z \in Memory /\ Lies(m[2] + Len(s), m[3])
          /\ m[2] + Len(s) >= m[2]
          /\ Content(z, m[2], m[3]) = T
          /\ PutIn(T, t, m[2], m[2] + Len(s))
          /\ s \in Seq(Chars) /\ T \in Seq(Chars) => t \in Seq(Chars)
      BY <1>3, <2>2, <3>1, Inserting
    <3> QED
      BY <3>2 DEF s
  <2> QED
    BY <2>2, <2>4
<1> HIDE DEF z
<1>6. right # {} => Least(right) \in m[3] + 1 .. BufSz - Len(n)
  <2>1. right \in SUBSET (m[3] + 1 .. BufSz - Len(n))
    BY DEF Found
  <2>2. m[3] + 1 \in Nat /\ BufSz - Len(n) \in Int
    BY <1>1, <1>4
  <2> HIDE DEF right
  <2> QED
    BY <2>1, <2>2, LeastIsIn
<1>7. left # {} => Least(left) \in 0 .. m[2] - Len(n)
  <2>1. left \in SUBSET (0 .. m[2] - Len(n))
    BY DEF Found
  <2>2. 0 \in Nat /\ m[2] - Len(n) \in Int
    BY <1>1, <1>4
  <2> HIDE DEF left
  <2> QED
    BY <2>1, <2>2, LeastIsIn
<1> HIDE DEF right, left
<1>8. /\ r[1] \in Memory /\ Lies(r[2], r[3])
      /\ Content(r[1], r[2], r[3]) = Contents
  <2>1. CASE right # {}
    <3> DEFINE p == m[2] + Least(right) - (m[3] + 1)
    <3>1. r = Jumped(m[1], m[2], m[3], p)
      BY <2>1
    <3>2. p \in 0 .. Size(m[2], m[3])
      <4>1. Least(right) \in Int /\ Least(right) >= m[3] + 1 /\ Least(right) <= BufSz - Len(n)
        BY <1>1, <1>4, <1>6, <2>1
      <4>2. /\ p \in Int /\ 0 <= p /\ p <= m[2] + (BufSz - 1 - m[3])
        <5> DEFINE k == Least(right)
        <5>1. k \in Int /\ k >= m[3] + 1 /\ k <= BufSz - Len(n) /\ p = m[2] + k - (m[3] + 1)
          BY <4>1
        <5> HIDE DEF k, p
        <5>2. k <= BufSz
          BY <1>1, <5>1
        <5>3. m[2] \in Int /\ m[3] \in Int /\ BufSz \in Int /\ m[2] >= 0
          BY <1>1, <1>4
        <5> QED
          BY <5>1, <5>2, <5>3, SMTT(30)
      <4> HIDE DEF p
      <4> QED
        BY <1>1, <1>4, <4>2 DEF Size
    <3> HIDE DEF r, p
    <3> QED
      BY <1>3, <3>1, <3>2, Jumping
  <2>2. CASE right = {} /\ left # {}
    <3> DEFINE p == Least(left)
    <3>1. r = Jumped(z, m[2], m[3], p)
      BY <2>2
    <3>2. p \in 0 .. Size(m[2], m[3])
      <4>1. p \in Int /\ p >= 0 /\ p <= m[2] - Len(n)
        BY <1>1, <1>4, <1>7, <2>2
      <4> HIDE DEF p
      <4> QED
        BY <1>1, <1>4, <4>1 DEF Size
    <3> HIDE DEF r, p
    <3> QED
      BY <1>3, <1>5, <3>1, <3>2, Jumping
  <2>3. CASE right = {} /\ left = {}
    <3>1. r = <<z, m[2], m[3]>>
      BY <2>3
    <3> HIDE DEF r
    <3> QED
      BY <1>3, <1>5, <3>1
  <2> QED
    BY <2>1, <2>2, <2>3
<1> HIDE DEF r
<1>9. Becomes(<<r[1], r[2], r[3]>>)
  BY <1>2 DEF Becomes
<1>10. GapInv' /\ Abstract!Move
  BY <1>1, <1>2, <1>8, <1>9, Moves
<1>11. SelInv'
  <2>1. mode = "select" => endsel' \in {gapbegin, gapbegin + 1}
    BY <1>2
  <2>2. mode # "select" => endsel' = endsel
    BY <1>2
  <2> QED
    BY <1>1, <1>2, <2>1, <2>2, EditAssumption DEF IInv, SelInv
<1>12. ClipInv'
  BY <1>2 DEF IInv, ClipInv, clip, file
<1> QED
  BY <1>10, <1>11, <1>12 DEF IInv

-----------------------------------------------------------------------------
(* The theorems                                                            *)

LEMMA InitInv ==
  ASSUME Init
  PROVE  IInv /\ Abstract!Init
<1>1. /\ buf = [i \in 0 .. BufSz - 1 |-> Nul] /\ buf \in Memory
      /\ gapbegin = 0 /\ gapend = BufSz - 1 /\ Lies(gapbegin, gapend)
      /\ oldgapbegin = 0 /\ oldgapend = BufSz - 1 /\ Lies(oldgapbegin, oldgapend)
  BY EditAssumption DEF Init, Memory, Bytes, Lies
<1>2. Contents = << >>
  <2>1. Len(Contents) = Size(gapbegin, gapend) /\ Contents \in Seq(Bytes)
    BY <1>1, ContentIs DEF Contents
  <2>2. Size(gapbegin, gapend) = 0
    BY <1>1, EditAssumption DEF Size
  <2> QED
    BY <2>1, <2>2, EmptySeq
<1>3. GapInv
  <2>1. canundo = FALSE /\ moved = FALSE /\ before = << >>
    BY DEF Init
  <2>2. << >> \in Seq(Chars)
    OBVIOUS
  <2> QED
    BY <1>1, <1>2, <2>1, <2>2 DEF GapInv
<1>4. SelInv /\ ClipInv
  <2>1. SelInv
    BY DEF Init, SelInv
  <2>2. ClipInv
    <3>1. cut = << >> /\ clipfile = << >> /\ disk = << >> /\ modified = FALSE
      BY DEF Init
    <3>2. << >> \in Seq(Chars) /\ FALSE \in BOOLEAN
      OBVIOUS
    <3>3. cut \in Seq(Chars) /\ clipfile \in Seq(Chars) /\ disk \in Seq(Chars)
      BY <3>1, <3>2
    <3>4. modified \in BOOLEAN
      BY <3>1, <3>2
    <3> QED
      BY <3>3, <3>4 DEF ClipInv
  <2> QED
    BY <2>1, <2>2
<1>5. Abstract!Init
  BY <1>1, <1>2 DEF Init, Abstract!Init
<1> QED
  BY <1>3, <1>4, <1>5 DEF IInv

\* Every command keeps the invariant and does to the text what Text allows.
LEMMA NextStep ==
  ASSUME IInv, [Next]_vars, {"room", "range", "undo"} \subseteq Habits
  PROVE  IInv' /\ [Abstract!Next]_textVars
<1>0. "room" \in Habits /\ "range" \in Habits /\ "undo" \in Habits
  OBVIOUS
<1>1. ASSUME NEW s \in Typing, Type(s) PROVE IInv' /\ Abstract!Next
  BY <1>1, TypeStep DEF Abstract!Next
<1>2. CASE Backspace
  BY <1>2, BackspaceStep DEF Abstract!Next
<1>3. CASE DeleteRight
  BY <1>3, DeleteRightStep DEF Abstract!Next
<1>4. CASE DeleteSelection
  BY <1>0, <1>4, DeleteSelectionStep DEF Abstract!Next
<1>5. CASE Left
  BY <1>5, LeftStep DEF Abstract!Next
<1>6. CASE Right
  BY <1>6, RightStep DEF Abstract!Next
<1>7. ASSUME NEW k \in 0 .. 8, Jump(k) PROVE IInv' /\ Abstract!Next
  BY <1>7, JumpStep DEF Abstract!Next
<1>8. CASE Mark \/ SelectAll \/ Escape \/ RightBeeps
  BY <1>8, SelectionStep
<1>9. CASE Copy
  BY <1>0, <1>9, CopyStep DEF Abstract!Next
<1>10. CASE Cut
  BY <1>0, <1>10, CutStep DEF Abstract!Next
<1>11. CASE CopyFails
  BY <1>0, <1>11, CopyFailsStep
<1>12. CASE Paste
  BY <1>0, <1>12, PasteStep DEF Abstract!Next
<1>13. CASE PasteFile
  BY <1>0, <1>13, PasteFileStep DEF Abstract!Next
<1>14. CASE Undo
  BY <1>0, <1>14, UndoStep DEF Abstract!Next
<1>15. ASSUME NEW s \in Files, InsertFile(s) PROVE IInv' /\ Abstract!Next
  BY <1>0, <1>15, InsertFileStep DEF Abstract!Next
<1>16. ASSUME NEW s \in Files, Open(s) PROVE IInv' /\ Abstract!Next
  BY <1>16, OpenStep DEF Abstract!Next
<1>17. CASE OpenFails
  BY <1>17, OpenFailsStep DEF Abstract!Next
<1>18. CASE Interlude
  BY <1>18, InterludeStep
<1>19. CASE Save \/ SaveFails
  BY <1>19, SaveStep DEF Abstract!Next
<1>20. ASSUME NEW n \in Needles, Find(n) PROVE IInv' /\ Abstract!Next
  BY <1>0, <1>20, FindStep DEF Abstract!Next
<1>21. CASE UNCHANGED vars
  <2>1. UNCHANGED <<buf, gapbegin, gapend, canundo, oldgapbegin, oldgapend, before, moved,
                    mode, startsel, endsel, cut, clipfile, modified, disk>>
    BY <1>21 DEF vars, gap, undo, sel, clip, file
  <2>2. GapInv' /\ UNCHANGED textVars
    BY <2>1 DEF IInv, GapInv, Contents, textVars
  <2>3. SelInv' /\ ClipInv'
    BY <2>1 DEF IInv, SelInv, ClipInv
  <2> QED
    BY <2>2, <2>3 DEF IInv
<1> QED
  BY <1>1, <1>2, <1>3, <1>4, <1>5, <1>6, <1>7, <1>8, <1>9, <1>10, <1>11, <1>12,
     <1>13, <1>14, <1>15, <1>16, <1>17, <1>18, <1>19, <1>20, <1>21 DEF Next

\* The invariant holds, for a user who looks at the free space, at the ends of
\* the selection and at what undo would undo.
THEOREM Invariance ==
  ASSUME {"room", "range", "undo"} \subseteq Habits
  PROVE  Spec => []IInv
<1>1. Init => IInv
  BY InitInv
<1>2. IInv /\ [Next]_vars => IInv'
  BY NextStep
<1> QED
  BY <1>1, <1>2, PTL DEF Spec

\* Every variable of the buffer has its type; the bytes of the gap never get
\* into the text, the clipboard or a file, for the user of Invariance.
THEOREM TypeCorrect ==
  ASSUME {"room", "range", "undo"} \subseteq Habits
  PROVE  Spec => []TypeOK
<1>1. IInv => TypeOK
  BY DEF IInv, GapInv, SelInv, ClipInv, TypeOK, Memory, Bytes, Lies
<1> QED
  BY <1>1, Invariance, PTL

\* Whatever is typed, marked, cut, pasted, loaded, searched for or undone, the
\* gap stays within the buffer, and so does the gap that undo would bring back,
\* for the user of Invariance.
THEOREM GapStaysSound ==
  ASSUME {"room", "range", "undo"} \subseteq Habits
  PROVE  Spec => []GapSound
<1>1. IInv => GapSound
  BY DEF IInv, GapInv, GapSound, Sound, Lies
<1> QED
  BY <1>1, Invariance, PTL

\* EDIT implements Text: every command inserts at the cursor, removes a piece,
\* moves, loads or undoes, and undo gives back the text from before the last
\* change.
THEOREM Implementation ==
  ASSUME {"room", "range", "undo"} \subseteq Habits
  PROVE  Spec => EditsText
<1>1. Init => Abstract!Init
  BY InitInv
<1>2. IInv /\ [Next]_vars => [Abstract!Next]_textVars
  BY NextStep
<1> QED
  BY <1>1, <1>2, Invariance, PTL DEF Spec, EditsText, Abstract!Spec, textVars

=============================================================================
