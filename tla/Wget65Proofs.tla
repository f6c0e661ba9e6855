---------------------------- MODULE Wget65Proofs ----------------------------
(***************************************************************************)
(* The driver of the W5100 and WGET65 on top of it: between two pointers   *)
(* that wrap, a ring that wraps elsewhere, a size that is read in halves   *)
(* and buffers of any length no byte is lost, repeated or moved, and a     *)
(* file reported as Ok is all of it, for any request and any response.     *)
(*                                                                         *)
(* The proof follows the bytes: what the program has taken, what the ring  *)
(* holds from its pointer on and what the server still has are together    *)
(* the response (RxSound); TxSound says the same of the request.           *)
(***************************************************************************)
EXTENDS Wget65, FiniteSetTheorems, SequenceTheorems, TLAPS

-----------------------------------------------------------------------------
(* Pointers and rings                                                      *)

\* Quotient and remainder determine each other.
LEMMA Remainder ==
  ASSUME NEW m \in Nat \ {0}, NEW q \in Int, NEW r \in 0 .. m - 1
  PROVE  (q * m + r) % m = r
<1> DEFINE x == q * m + r
           p == x \div m
<1>1. x \in Int /\ p \in Int /\ (x % m) \in 0 .. m - 1
  OBVIOUS
<1>2. x = p * m + (x % m)
  BY <1>1
<1>3. (p - q) * m = r - (x % m)
  BY <1>1, <1>2
<1>4. p - q < 1
  <2> SUFFICES ASSUME p - q >= 1 PROVE FALSE
    BY <1>1
  <2>1. (p - q) * m >= m
    BY <1>1
  <2> QED
    BY <1>1, <1>3, <2>1
<1>5. q - p < 1
  <2> SUFFICES ASSUME q - p >= 1 PROVE FALSE
    BY <1>1
  <2>1. (q - p) * m >= m
    BY <1>1
  <2>2. (q - p) * m = (x % m) - r
    BY <1>1, <1>3
  <2> QED
    BY <1>1, <2>1, <2>2
<1>6. p = q
  BY <1>1, <1>4, <1>5
<1> QED
  BY <1>1, <1>2, <1>6

\* Whole rounds do not count.
LEMMA Rounds ==
  ASSUME NEW m \in Nat \ {0}, NEW q \in Int, NEW x \in Int
  PROVE  (x + q * m) % m = x % m
<1> DEFINE p == x \div m
<1>1. /\ x = p * m + (x % m)
      /\ p \in Int /\ (x % m) \in 0 .. m - 1
  OBVIOUS
<1>2. x + q * m = (p + q) * m + (x % m)
  BY <1>1
<1>3. \A i \in Int : \A r \in 0 .. m - 1 : (i * m + r) % m = r
  BY Remainder
<1>4. p + q \in Int
  BY <1>1
<1> QED
  BY <1>1, <1>2, <1>3, <1>4

\* A remainder taken twice, the second time with a divisor of the first
LEMMA Nested ==
  ASSUME NEW m \in Nat \ {0}, NEW n \in Nat \ {0}, n % m = 0,
         NEW x \in Int, NEW y \in Int
  PROVE  ((x % n) + y) % m = (x + y) % m
<1> DEFINE p == x \div n
           k == n \div m
<1>1. /\ x = p * n + (x % n)
      /\ p \in Int /\ (x % n) \in 0 .. n - 1
  OBVIOUS
<1>2. n = k * m /\ k \in Int
  OBVIOUS
<1>3. -p * k \in Int /\ (x % n) + y = (x + y) + (-p * k) * m
  <2>1. p * n = (p * k) * m
    BY <1>1, <1>2
  <2>2. (-p * k) * m = -((p * k) * m)
    BY <1>1, <1>2
  <2> QED
    BY <1>1, <1>2, <2>1, <2>2
<1>4. \A i, z \in Int : (z + i * m) % m = z % m
  BY Rounds
<1>5. x + y \in Int
  OBVIOUS
<1> QED
  BY <1>3, <1>4, <1>5, ZenonT(40)

\* One ring, or the pointers, as cases
LEMMA Around ==
  ASSUME NEW m \in Nat \ {0}, NEW x \in Int
  PROVE  /\ x \in 0 .. m - 1 => x % m = x
         /\ x \in m .. 2 * m - 1 => x % m = x - m
         /\ x \in -m .. -1 => x % m = x + m
<1>1. ASSUME x \in 0 .. m - 1 PROVE x % m = x
  BY <1>1, Remainder, 0 * m + x = x
<1>2. ASSUME x \in m .. 2 * m - 1 PROVE x % m = x - m
  BY <1>2, Remainder, 1 * m + (x - m) = x
<1>3. ASSUME x \in -m .. -1 PROVE x % m = x + m
  BY <1>3, Remainder, (-1) * m + (x + m) = x
<1> QED
  BY <1>1, <1>2, <1>3

LEMMA NestedMinus ==
  ASSUME NEW m \in Nat \ {0}, NEW n \in Nat \ {0}, n % m = 0,
         NEW x \in Int, NEW y \in Int
  PROVE  (y - (x % n)) % m = (y - x) % m
<1> DEFINE p == x \div n
           k == n \div m
<1>1. /\ x = p * n + (x % n)
      /\ p \in Int /\ (x % n) \in 0 .. n - 1
  OBVIOUS
<1>2. n = k * m /\ k \in Int
  OBVIOUS
<1>3. p * k \in Int /\ y - (x % n) = (y - x) + (p * k) * m
  <2>1. p * n = (p * k) * m
    BY <1>1, <1>2
  <2> QED
    BY <1>1, <1>2, <2>1
<1>4. \A i, z \in Int : (z + i * m) % m = z % m
  BY Rounds
<1>5. y - x \in Int
  OBVIOUS
<1> QED
  BY <1>3, <1>4, <1>5, ZenonT(40)

\* The values of a pointer register
Pointer == 0 .. PtrMod - 1

\* One pointer ahead of another, and how far when one of them moves on
LEMMA Ahead ==
  ASSUME NEW a \in Pointer, NEW b \in Pointer, NEW n \in 0 .. Ring
  PROVE  /\ (a + n) % PtrMod \in Pointer
         /\ (b - a) % PtrMod \in Pointer
         /\ (a - a) % PtrMod = 0
         /\ n <= (b - a) % PtrMod
              => (b - ((a + n) % PtrMod)) % PtrMod = ((b - a) % PtrMod) - n
         /\ ((b - a) % PtrMod) + n < PtrMod
              => (((b + n) % PtrMod) - a) % PtrMod = ((b - a) % PtrMod) + n
<1>1. PtrMod \in Nat \ {0} /\ Ring \in Nat \ {0} /\ Ring < PtrMod
  BY W5100Assumption
<1>2. \A x \in Int : /\ x \in 0 .. PtrMod - 1 => x % PtrMod = x
                     /\ x \in PtrMod .. 2 * PtrMod - 1 => x % PtrMod = x - PtrMod
                     /\ x \in -PtrMod .. -1 => x % PtrMod = x + PtrMod
  BY <1>1, Around
<1>3. \A x \in Pointer, i \in 0 .. Ring :
        (x + i) % PtrMod = IF x + i < PtrMod THEN x + i ELSE x + i - PtrMod
  BY <1>1, <1>2 DEF Pointer
<1>4. \A x, y \in Pointer :
        (x - y) % PtrMod = IF y <= x THEN x - y ELSE x - y + PtrMod
  BY <1>1, <1>2 DEF Pointer
<1>5. /\ (a + n) % PtrMod \in Pointer
      /\ (b + n) % PtrMod \in Pointer
  <2>1. a + n \in Int /\ b + n \in Int
    BY <1>1 DEF Pointer
  <2> QED
    BY <1>1, <2>1 DEF Pointer
<1>6. /\ (b - a) % PtrMod = IF a <= b THEN b - a ELSE b - a + PtrMod
      /\ (a - a) % PtrMod = a - a
  BY <1>4 DEF Pointer
<1>7. (b - a) % PtrMod \in Pointer /\ (a - a) % PtrMod = 0
  BY <1>1, <1>6 DEF Pointer
<1> DEFINE after == (a + n) % PtrMod
           moved == (b + n) % PtrMod
           d == (b - a) % PtrMod
<1>8. /\ after = IF a + n < PtrMod THEN a + n ELSE a + n - PtrMod
      /\ moved = IF b + n < PtrMod THEN b + n ELSE b + n - PtrMod
  BY <1>3
<1>9. /\ (b - after) % PtrMod = IF after <= b THEN b - after ELSE b - after + PtrMod
      /\ (moved - a) % PtrMod = IF a <= moved THEN moved - a ELSE moved - a + PtrMod
  BY <1>4, <1>5
<1>10. d = IF a <= b THEN b - a ELSE b - a + PtrMod
  BY <1>6
<1> HIDE DEF after, moved, d
<1>11. n <= d => (b - after) % PtrMod = d - n
  BY <1>1, <1>8, <1>9, <1>10 DEF Pointer
<1>12. d + n < PtrMod => (moved - a) % PtrMod = d + n
  BY <1>1, <1>8, <1>9, <1>10 DEF Pointer
<1> QED
  BY <1>5, <1>7, <1>11, <1>12 DEF after, moved, d

LEMMA PointerSum ==
  ASSUME NEW a \in Pointer, NEW b \in Pointer
  PROVE  b = (a + ((b - a) % PtrMod)) % PtrMod
<1>1. PtrMod \in Nat \ {0} /\ a \in Int /\ b \in Int
  BY W5100Assumption DEF Pointer
<1>2. \A x \in Int : /\ x \in 0 .. PtrMod - 1 => x % PtrMod = x
                     /\ x \in PtrMod .. 2 * PtrMod - 1 => x % PtrMod = x - PtrMod
                     /\ x \in -PtrMod .. -1 => x % PtrMod = x + PtrMod
  BY <1>1, Around
<1>3. CASE a <= b
  <2>1. b - a \in 0 .. PtrMod - 1 /\ b - a \in Int
    BY <1>1, <1>3 DEF Pointer
  <2>2. (b - a) % PtrMod = b - a /\ a + (b - a) = b
    BY <1>1, <1>2, <2>1
  <2> QED
    BY <1>1, <1>2, <2>2 DEF Pointer
<1>4. CASE a > b
  <2>1. b - a \in -PtrMod .. -1 /\ b - a \in Int
    BY <1>1, <1>4 DEF Pointer
  <2>2. (b - a) % PtrMod = b - a + PtrMod /\ a + (b - a + PtrMod) = b + PtrMod
    BY <1>1, <1>2, <2>1
  <2>3. b + PtrMod \in PtrMod .. 2 * PtrMod - 1 /\ b + PtrMod \in Int
    BY <1>1 DEF Pointer
  <2>4. (b + PtrMod) % PtrMod = b
    BY <1>1, <1>2, <2>3
  <2> QED
    BY <2>2, <2>4
<1> QED
  BY <1>1, <1>3, <1>4

\* The cells of a ring from a pointer on
LEMMA Cells ==
  ASSUME NEW a \in Pointer, NEW n \in 0 .. Ring, NEW j \in 0 .. Ring
  PROVE  /\ (a + j) % Ring \in 0 .. Ring - 1
         /\ (((a + n) % PtrMod) + j) % Ring = (a + (n + j)) % Ring
         /\ (((a + j) % Ring) - ((a + n) % PtrMod)) % Ring = (j - n) % Ring
         /\ (a % Ring) + j < Ring => (a + j) % Ring = (a % Ring) + j
<1>1. /\ PtrMod \in Nat \ {0} /\ Ring \in Nat \ {0} /\ PtrMod % Ring = 0
      /\ a \in Int /\ n \in Int /\ j \in Int
  BY W5100Assumption DEF Pointer
<1>2. (a + j) % Ring \in 0 .. Ring - 1
  BY <1>1
<1>3. (((a + n) % PtrMod) + j) % Ring = (a + (n + j)) % Ring
  <2>1. (((a + n) % PtrMod) + j) % Ring = ((a + n) + j) % Ring
    BY <1>1, Nested, a + n \in Int, ZenonT(40)
  <2> QED
    BY <1>1, <2>1
<1>4. Ring % Ring = 0
  BY <1>1, Remainder, 1 * Ring + 0 = Ring
<1>5. (((a + j) % Ring) - ((a + n) % PtrMod)) % Ring = (j - n) % Ring
  <2> DEFINE z == (a + n) % PtrMod
  <2>1. z \in Int /\ -z \in Int
    BY <1>1
  <2>2. (((a + j) % Ring) + (-z)) % Ring = ((a + j) + (-z)) % Ring
    <3> HIDE DEF z
    <3> QED BY <1>1, <1>4, <2>1, Nested, a + j \in Int, ZenonT(40)
  <2>3. ((a + j) - z) % Ring = ((a + j) - (a + n)) % Ring
    <3>1. \A x, y \in Int : (y - (x % PtrMod)) % Ring = (y - x) % Ring
      BY <1>1, NestedMinus
    <3>2. a + n \in Int /\ a + j \in Int
      BY <1>1
    <3> QED
      BY <3>1, <3>2
  <2> HIDE DEF z
  <2>4. ((a + j) % Ring) + (-z) = ((a + j) % Ring) - z /\ (a + j) + (-z) = (a + j) - z
    BY <1>1, <1>2, <2>1
  <2>5. (a + j) - (a + n) = j - n
    BY <1>1
  <2> QED
    BY <2>2, <2>3, <2>4, <2>5 DEF z
<1>6. ASSUME (a % Ring) + j < Ring PROVE (a + j) % Ring = (a % Ring) + j
  <2>1. a % Ring \in 0 .. Ring - 1 /\ (a % Ring) + j \in 0 .. Ring - 1
    BY <1>1, <1>6
  <2>2. ((a % Ring) + j) % Ring = (a + j) % Ring
    BY <1>1, <1>4, Nested
  <2>3. ((a % Ring) + j) % Ring = (a % Ring) + j
    <3>1. \A x \in Int : x \in 0 .. Ring - 1 => x % Ring = x
      BY <1>1, Around
    <3> QED
      BY <1>1, <2>1, <3>1
  <2> QED
    BY <2>2, <2>3
<1> QED
  BY <1>2, <1>3, <1>5, <1>6
-----------------------------------------------------------------------------
(* The inductive invariant                                                 *)

\* What the program has taken from the server, and what the rings hold
Stream == Header \o Body
Received == IF file = None THEN header ELSE (header \o file) \o buffer
Held == Room("rx")
Unsent == Ring - Room("tx")

\* What is between the pointer of the program and the one the chip knows
Taken(d) == (reg[d] - own[d]) % PtrMod

\* The chip never knows of more than there is, and knows of all of it when it
\* has executed the last command.
Pointers ==
  \A d \in Dirs :
    /\ SizeReg(d) \in 0 .. Ring /\ Room(d) \in 0 .. Ring
    /\ SizeReg(d) = Room(d) + Taken(d)
    /\ command # d => reg[d] = own[d]

\* Which commands may be pending where
Commands ==
  /\ pc = "start" => command = "none" /\ status = "closed"
  /\ pc = "open" => \/ command = "open" /\ status = "closed"
                    \/ command = "none" /\ status = "init"
  /\ pc = "connect" => \/ command = "connect" /\ status = "init"
                       \/ command = "none" /\ status # "init"
  /\ pc = "send" => command \in {"none", "tx"}
  /\ pc \in {"header", "quit"} => command \in {"none", "tx", "rx"}
  /\ pc \in {"create", "file"} => command \in {"none", "rx"}
  /\ pc \in {"send", "header", "create", "file", "quit"} => status # "init"

\* Nothing was sent, received or written before the connection was there.
Early == \/ pc \in {"start", "open", "connect"}
         \/ command \in {"open", "connect"}
         \/ status = "init"
Beginning ==
  Early => /\ pos = 0 /\ request = <<>> /\ reply = Stream
           /\ header = <<>> /\ file = None /\ buffer = <<>>

\* A request under way waits for no command, and the size it has read so far
\* is there.
Requests ==
  /\ step # "ask" => pc \in {"send", "header", "file"}
  /\ step \in {"high", "low", "ready"} =>
       /\ command = "none"
       /\ size <= Room(dir)
  /\ step = "low" => high <= SizeReg(dir) \div ByteMod
  /\ step = "ready" => size # 0

\* The server has a part of the request, and the ring has the next one.
TxSound ==
  /\ Len(request) + Unsent = pos
  /\ \A i \in 1 .. Len(request) : request[i] = Request[i]
  /\ \A j \in 1 .. Unsent :
       mem["tx"][(far["tx"] + (j - 1)) % Ring] = Request[Len(request) + j]

\* The program has a part of the response, the ring has the next one and the
\* server the rest.
RxSound ==
  pc \notin {"quit", "done"} =>
    /\ Len(Received) + Held + Len(reply) = Len(Stream)
    /\ \A i \in 1 .. Len(Received) : Received[i] = Stream[i]
    /\ \A j \in 1 .. Held :
         mem["rx"][(reg["rx"] + (j - 1)) % Ring] = Stream[Len(Received) + j]
    /\ \A j \in 1 .. Len(reply) :
         reply[j] = Stream[Len(Received) + Held + j]

\* How far the program has come in the response
Phases ==
  /\ pc \in {"start", "open", "connect", "send"} => header = <<>>
  /\ pc = "header" => \A i \in 1 .. Len(header) : header[i] # EndOfHeader
  /\ pc \in {"create", "file"} => header = Header
  /\ pc \notin {"file", "quit", "done"} => file = None /\ buffer = <<>>
  /\ pc = "file" => file # None
  /\ pc \notin {"quit", "done"} => result = None
  /\ result = "ok" => status # "established" /\ file # None

\* A server that waits closes when everything has been read.
ClosedAtEnd ==
  /\ pc \in {"send", "header", "create", "file"}
  /\ status # "established" /\ ~dropped /\ ~hurried
  => reply = <<>> /\ Held = 0

IInv ==
  /\ TypeOK
  /\ Pointers
  /\ Commands
  /\ Beginning
  /\ Requests
  /\ TxSound
  /\ RxSound
  /\ Phases
  /\ ClosedAtEnd
  /\ StreamsInOrder
  /\ WholeFile

-----------------------------------------------------------------------------
(* What the actions do to the rings                                        *)

\* The three pointers are pointers.
Registers == {reg, own, far} \subseteq [Dirs -> Pointer]

LEMMA RegisterTypes ==
  ASSUME TypeOK
  PROVE  /\ Registers
         /\ Ring \in Nat \ {0} /\ PtrMod \in Nat \ {0} /\ Ring < PtrMod
         /\ \A d \in Dirs : /\ SizeReg(d) \in Int /\ Room(d) \in Int
                            /\ Taken(d) \in Pointer
<1>1. /\ Registers
      /\ Ring \in Nat \ {0} /\ PtrMod \in Nat \ {0} /\ Ring < PtrMod
  BY W5100Assumption DEF TypeOK, W5100TypeOK, Registers, Pointer
<1>2. \A a, b \in Pointer : (b - a) % PtrMod \in Pointer
  BY <1>1, Ahead
<1> QED
  BY <1>1, <1>2 DEF Registers, SizeReg, Room, Taken, Dirs, Pointer

\* Where the pointers stay, only the command matters.
LEMMA PointersStay ==
  ASSUME IInv, UNCHANGED <<reg, own, far>>,
         \A d \in Dirs : command' # d => reg[d] = own[d]
  PROVE  /\ Pointers'
         /\ \A d \in Dirs : SizeReg(d)' = SizeReg(d) /\ Room(d)' = Room(d)
<1>1. \A d \in Dirs : /\ SizeReg(d)' = SizeReg(d) /\ Room(d)' = Room(d)
                      /\ Taken(d)' = Taken(d)
  BY DEF SizeReg, Room, Taken
<1> QED
  BY <1>1 DEF IInv, Pointers

LEMMA TxStays ==
  ASSUME IInv, UNCHANGED <<request, pos>>,
         mem'["tx"] = mem["tx"], reg'["tx"] = reg["tx"], far'["tx"] = far["tx"]
  PROVE  TxSound'
<1>1. Unsent' = Unsent
  BY DEF Unsent, Room
<1> QED
  BY <1>1 DEF IInv, TxSound

LEMMA RxStays ==
  ASSUME IInv, UNCHANGED reply, Received' = Received,
         mem'["rx"] = mem["rx"], reg'["rx"] = reg["rx"], far'["rx"] = far["rx"],
         pc \in {"quit", "done"} => pc' \in {"quit", "done"}
  PROVE  RxSound'
<1>1. Held' = Held
  BY DEF Held, Room
<1> QED
  BY <1>1 DEF IInv, RxSound, Stream

\* A command that takes up what the program has done
LEMMA PointersTold ==
  ASSUME IInv, NEW c \in Dirs, command = c, UNCHANGED <<reg, far>>,
         own' = [own EXCEPT ![c] = reg[c]], command' = "none"
  PROVE  Pointers' /\ \A d \in Dirs : Room(d)' = Room(d)
<1>1. Registers /\ own'[c] = reg[c] /\ \A d \in Dirs \ {c} : own'[d] = own[d]
  BY RegisterTypes DEF IInv, Registers
<1>2. \A d \in Dirs : Room(d)' = Room(d)
  BY DEF Room
<1>3. \A d \in Dirs \ {c} : SizeReg(d)' = SizeReg(d) /\ Taken(d)' = Taken(d)
  BY <1>1 DEF SizeReg, Taken
<1>4. SizeReg(c)' = Room(c) /\ Taken(c)' = 0
  BY <1>1, Ahead, W5100Assumption DEF SizeReg, Room, Taken, Registers
<1>5. reg'[c] = own'[c] /\ \A d \in Dirs \ {c} : reg'[d] = own'[d]
  BY <1>1 DEF IInv, Pointers
<1> QED
  <2>1. \A d \in Dirs : /\ SizeReg(d) \in 0 .. Ring /\ Room(d) \in 0 .. Ring
                        /\ SizeReg(d) = Room(d) + Taken(d)
    BY DEF IInv, Pointers
  <2>2. \A d \in Dirs : /\ SizeReg(d)' \in 0 .. Ring /\ Room(d)' \in 0 .. Ring
                        /\ SizeReg(d)' = Room(d)' + Taken(d)'
    <3>1. SizeReg(c)' \in 0 .. Ring /\ SizeReg(c)' = Room(c)' + Taken(c)'
      BY <1>2, <1>4, <2>1
    <3> QED
      BY <1>2, <1>3, <2>1, <3>1
  <2>3. \A d \in Dirs : reg'[d] = own'[d]
    BY <1>5
  <2> QED
    BY <1>2, <2>2, <2>3 DEF Pointers

\* The program moves its pointer by what it has taken or put.
LEMMA PointersCommit ==
  ASSUME IInv, NEW d \in Dirs, NEW n \in 0 .. Ring, n <= Room(d),
         reg[d] = own[d] \/ n = 0, command \in {"none", d}, Commit(d, n)
  PROVE  /\ Pointers'
         /\ reg'[d] = (reg[d] + n) % PtrMod
         /\ Room(d)' = Room(d) - n
         /\ \A c \in Dirs \ {d} : Room(c)' = Room(c)
         /\ reg' \in [Dirs -> Pointer]
<1>1. /\ Registers
      /\ \A c \in Dirs : /\ SizeReg(c) \in 0 .. Ring /\ Room(c) \in 0 .. Ring
                         /\ Taken(c) \in Pointer
                         /\ SizeReg(c) = Room(c) + Taken(c)
      /\ Ring \in Nat \ {0} /\ PtrMod \in Nat \ {0} /\ Ring < PtrMod
  BY RegisterTypes DEF IInv, Pointers
<1>2. reg[d] \in Pointer /\ own[d] \in Pointer /\ far[d] \in Pointer
  BY <1>1 DEF Registers
<1>3. reg'[d] = (reg[d] + n) % PtrMod /\ \A c \in Dirs \ {d} : reg'[c] = reg[c]
  BY <1>1 DEF Commit, Registers
<1>4. reg'[d] \in Pointer
  BY <1>2, <1>3, Ahead, ZenonT(40)
<1>5. reg' \in [Dirs -> Pointer]
  BY <1>1, <1>2, <1>3, <1>4 DEF Commit, Registers
<1>6. \A c \in Dirs : SizeReg(c)' = SizeReg(c)
  BY DEF SizeReg, Commit
<1>7. \A c \in Dirs \ {d} : Room(c)' = Room(c) /\ Taken(c)' = Taken(c)
  BY <1>3 DEF Room, Taken, Commit
<1>8. Taken(d)' = Taken(d) + n
  <2>1. Taken(d) + n < PtrMod
    BY <1>1 DEF Pointer
  <2> QED
    BY <1>2, <1>3, <2>1, Ahead DEF Taken, Commit
<1>9. Room(d)' = Room(d) - n
  <2>1. CASE d = "rx"
    <3>1. n <= (far[d] - reg[d]) % PtrMod
      BY <2>1 DEF Room
    <3>2. Room(d)' = (far[d] - reg'[d]) % PtrMod
      BY <2>1 DEF Room, Commit
    <3> QED
      BY <1>2, <1>3, <2>1, <3>1, <3>2, Ahead DEF Room
  <2>2. CASE d = "tx"
    <3>1. Room(d) = Ring - ((reg[d] - far[d]) % PtrMod)
      BY <2>2 DEF Room
    <3>2. Room(d)' = Ring - ((reg'[d] - far[d]) % PtrMod)
      BY <2>2 DEF Room, Commit
    <3>3. (reg[d] - far[d]) % PtrMod \in Pointer
      BY <1>2, Ahead
    <3>4. ((reg[d] - far[d]) % PtrMod) + n < PtrMod
      BY <1>1, <3>1, <3>3 DEF Pointer
    <3>5. (reg'[d] - far[d]) % PtrMod = ((reg[d] - far[d]) % PtrMod) + n
      BY <1>2, <1>3, <3>4, Ahead
    <3> QED
      BY <1>1, <3>1, <3>2, <3>3, <3>5 DEF Pointer
  <2> QED
    BY <2>1, <2>2 DEF Dirs
<1>10. ASSUME NEW c \in Dirs, command' # c PROVE reg'[c] = own'[c]
  BY <1>3, <1>10 DEF Commit, IInv, Pointers, Dirs
<1>11. \A c \in Dirs : Room(c)' \in 0 .. Ring
  BY <1>1, <1>7, <1>9
<1>12. \A c \in Dirs : SizeReg(c)' = Room(c)' + Taken(c)'
  BY <1>1, <1>6, <1>7, <1>8, <1>9 DEF Pointer
<1>13. \A c \in Dirs : SizeReg(c)' \in 0 .. Ring
  BY <1>1, <1>6
<1> QED
  BY <1>3, <1>5, <1>7, <1>9, <1>10, <1>11, <1>12, <1>13 DEF Pointers

\* The chip takes n bytes that arrive, or lets n bytes leave.
LEMMA PointersFar ==
  ASSUME IInv, NEW d \in Dirs, NEW n \in 1 .. Ring - SizeReg(d),
         UNCHANGED <<command, reg, own>>,
         far' = [far EXCEPT ![d] = (@ + n) % PtrMod]
  PROVE  /\ Pointers'
         /\ far'[d] = (far[d] + n) % PtrMod
         /\ SizeReg(d)' = SizeReg(d) + n
         /\ Room(d)' = Room(d) + n
         /\ \A c \in Dirs \ {d} : Room(c)' = Room(c) /\ SizeReg(c)' = SizeReg(c)
         /\ far' \in [Dirs -> Pointer]
<1>1. /\ Registers
      /\ \A c \in Dirs : /\ SizeReg(c) \in 0 .. Ring /\ Room(c) \in 0 .. Ring
                         /\ Taken(c) \in Pointer
                         /\ SizeReg(c) = Room(c) + Taken(c)
      /\ Ring \in Nat \ {0} /\ PtrMod \in Nat \ {0} /\ Ring < PtrMod
  BY RegisterTypes DEF IInv, Pointers
<1>2. /\ reg[d] \in Pointer /\ own[d] \in Pointer /\ far[d] \in Pointer
      /\ n \in 0 .. Ring
  BY <1>1 DEF Registers
<1>3. far'[d] = (far[d] + n) % PtrMod /\ \A c \in Dirs \ {d} : far'[c] = far[c]
  BY <1>1 DEF Registers
<1>4. far'[d] \in Pointer
  BY <1>2, <1>3, Ahead
<1>5. far' \in [Dirs -> Pointer]
  BY <1>1, <1>2, <1>3, <1>4 DEF Registers
<1>6. \A c \in Dirs \ {d} : Room(c)' = Room(c) /\ SizeReg(c)' = SizeReg(c)
  BY <1>3 DEF Room, SizeReg
<1>7. \A c \in Dirs : Taken(c)' = Taken(c)
  BY DEF Taken
<1>8. SizeReg(d)' = SizeReg(d) + n /\ Room(d)' = Room(d) + n
  <2>1. ASSUME NEW a \in Pointer, d = "rx", ((far[d] - a) % PtrMod) + n <= Ring
        PROVE  (far'[d] - a) % PtrMod = ((far[d] - a) % PtrMod) + n
    <3>1. (far[d] - a) % PtrMod \in Pointer
      BY <1>2, Ahead
    <3>2. ((far[d] - a) % PtrMod) + n < PtrMod
      BY <1>1, <2>1, <3>1 DEF Pointer
    <3> QED
      BY <1>2, <1>3, <3>2, Ahead
  <2>2. ASSUME NEW a \in Pointer, d = "tx", n <= (a - far[d]) % PtrMod
        PROVE  (a - far'[d]) % PtrMod = ((a - far[d]) % PtrMod) - n
    BY <1>1, <1>2, <1>3, <2>2, Ahead
  <2>3. CASE d = "rx"
    <3>1. /\ SizeReg(d) = (far[d] - own[d]) % PtrMod
          /\ Room(d) = (far[d] - reg[d]) % PtrMod
          /\ SizeReg(d)' = (far'[d] - own[d]) % PtrMod
          /\ Room(d)' = (far'[d] - reg[d]) % PtrMod
      BY <2>3 DEF SizeReg, Room
    <3>2. SizeReg(d) + n <= Ring /\ Room(d) + n <= Ring
      BY <1>1 DEF Pointer
    <3> QED
      BY <1>2, <2>1, <2>3, <3>1, <3>2
  <2>4. CASE d = "tx"
    <3> DEFINE x == (own[d] - far[d]) % PtrMod
               y == (reg[d] - far[d]) % PtrMod
    <3>1. /\ SizeReg(d) = Ring - x
          /\ Room(d) = Ring - y
          /\ SizeReg(d)' = Ring - ((own[d] - far'[d]) % PtrMod)
          /\ Room(d)' = Ring - ((reg[d] - far'[d]) % PtrMod)
      BY <2>4 DEF SizeReg, Room
    <3>2. x \in Pointer /\ y \in Pointer
      BY <1>2, Ahead
    <3>3. /\ n <= x => (own[d] - far'[d]) % PtrMod = x - n
          /\ n <= y => (reg[d] - far'[d]) % PtrMod = y - n
      BY <1>2, <2>2, <2>4
    <3> HIDE DEF x, y
    <3>4. n <= x /\ n <= y
      BY <1>1, <3>1, <3>2 DEF Pointer
    <3> QED
      BY <1>1, <1>2, <3>1, <3>2, <3>3, <3>4 DEF Pointer
  <2> QED
    BY <2>3, <2>4 DEF Dirs
<1>9. \A c \in Dirs : /\ SizeReg(c)' \in 0 .. Ring /\ Room(c)' \in 0 .. Ring
                      /\ SizeReg(c)' = Room(c)' + Taken(c)'
  BY <1>1, <1>2, <1>6, <1>7, <1>8 DEF Pointer
<1> QED
  BY <1>3, <1>5, <1>6, <1>8, <1>9 DEF IInv, Pointers

-----------------------------------------------------------------------------
(* Bytes through the rings                                                 *)

LEMMA Joined ==
  ASSUME NEW S, NEW s \in Seq(S), NEW t \in Seq(S)
  PROVE  /\ s \o t \in Seq(S) /\ Len(s \o t) = Len(s) + Len(t)
         /\ \A i \in 1 .. Len(s) : (s \o t)[i] = s[i]
         /\ \A i \in 1 .. Len(t) : (s \o t)[Len(s) + i] = t[i]
         /\ \A i \in Len(s) + 1 .. Len(s) + Len(t) : (s \o t)[i] = t[i - Len(s)]
  OBVIOUS

LEMMA Lengths ==
  ASSUME IInv
  PROVE  /\ header \in Seq(Bytes) /\ buffer \in Seq(Bytes)
         /\ file # None => file \in Seq(Bytes)
         /\ Received \in Seq(Bytes) /\ Stream \in Seq(Bytes)
         /\ request \in Seq(Bytes) /\ reply \in Seq(Bytes)
         /\ pos \in Nat /\ pos <= Len(Request)
         /\ Held \in 0 .. Ring /\ Unsent \in 0 .. Ring
         /\ SizeReg("rx") \in 0 .. Ring /\ SizeReg("tx") \in 0 .. Ring
         /\ Ring \in Nat \ {0}
<1>1. /\ {Request, Header, Body} \subseteq Seq(Bytes)
      /\ Ring \in Nat \ {0}
  BY WgetAssumption, W5100Assumption
<1>2. /\ header \in Seq(Bytes) /\ buffer \in Seq(Bytes)
      /\ file # None => file \in Seq(Bytes)
      /\ request \in Seq(Bytes) /\ reply \in Seq(Bytes)
      /\ pos \in 0 .. Len(Request)
  BY DEF IInv, TypeOK
<1>3. Received \in Seq(Bytes) /\ Stream \in Seq(Bytes)
  BY <1>1, <1>2 DEF Received, Stream
<1>4. Held \in 0 .. Ring /\ Unsent \in 0 .. Ring
  BY <1>1 DEF IInv, Pointers, Dirs, Held, Unsent
<1>5. SizeReg("rx") \in 0 .. Ring /\ SizeReg("tx") \in 0 .. Ring
  BY DEF IInv, Pointers, Dirs
<1> QED
  BY <1>1, <1>2, <1>3, <1>4, <1>5

\* What leaves is the next part of the request.
LEMMA SendSound ==
  ASSUME IInv, Send
  PROVE  TxSound' /\ request' \in Seq(Bytes) /\ Pointers'
<1>1. PICK n \in 1 .. Ring :
        /\ Transmit(n)
        /\ request' = request \o Leaving(n)
        /\ UNCHANGED <<single, asking, program, reply, dropped, hurried>>
  BY DEF Send
<1>2. /\ Registers
      /\ \A d \in Dirs : Room(d) \in 0 .. Ring /\ SizeReg(d) = Room(d) + Taken(d)
      /\ \A d \in Dirs : Taken(d) \in Pointer
      /\ Ring \in Nat \ {0}
  BY RegisterTypes DEF IInv, Pointers
<1>3. "tx" \in Dirs /\ far["tx"] \in Pointer
  BY <1>2 DEF Dirs, Registers
<1>4. /\ Pointers'
      /\ far'["tx"] = (far["tx"] + n) % PtrMod
      /\ Room("tx")' = Room("tx") + n
  BY <1>1, <1>3, PointersFar DEF Transmit
<1>5. Unsent' = Unsent - n /\ n <= Unsent /\ Unsent \in 0 .. Ring
  BY <1>1, <1>2, <1>3, <1>4 DEF Unsent, Transmit, Pointer
<1>6. Leaving(n) = [i \in 1 .. n |-> Request[Len(request) + i]]
  <2>1. \A i \in 1 .. n : far["tx"] + i - 1 = far["tx"] + (i - 1)
    BY <1>3 DEF Pointer
  <2>2. \A i \in 1 .. n :
          mem["tx"][(far["tx"] + i - 1) % Ring] = Request[Len(request) + i]
    BY <1>5, <2>1 DEF IInv, TxSound
  <2> QED
    BY <2>2 DEF Leaving
<1>7. /\ request \in Seq(Bytes) /\ Request \in Seq(Bytes)
      /\ Len(request) + Unsent = pos /\ pos <= Len(Request) /\ pos \in Nat
  BY Lengths, WgetAssumption DEF IInv, TxSound
<1>8. /\ Leaving(n) \in Seq(Bytes) /\ Len(Leaving(n)) = n
      /\ \A i \in 1 .. n : Leaving(n)[i] = Request[Len(request) + i]
  <2>1. \A i \in 1 .. n : Request[Len(request) + i] \in Bytes
    BY <1>5, <1>7
  <2> QED
    BY <1>6, <2>1
<1>9. /\ request' \in Seq(Bytes)
      /\ Len(request') = Len(request) + n
      /\ \A i \in 1 .. Len(request) : request'[i] = request[i]
      /\ \A i \in Len(request) + 1 .. Len(request) + n :
           request'[i] = Leaving(n)[i - Len(request)]
  <2>1. \A s, t \in Seq(Bytes) :
          /\ s \o t \in Seq(Bytes) /\ Len(s \o t) = Len(s) + Len(t)
          /\ \A i \in 1 .. Len(s) : (s \o t)[i] = s[i]
          /\ \A i \in Len(s) + 1 .. Len(s) + Len(t) : (s \o t)[i] = t[i - Len(s)]
    BY Joined
  <2>2. /\ request' = request \o Leaving(n) /\ request \in Seq(Bytes)
        /\ Leaving(n) \in Seq(Bytes) /\ Len(Leaving(n)) = n
    BY <1>1, <1>7, <1>8
  <2>3. request' \in Seq(Bytes) /\ Len(request') = Len(request) + n
    BY <2>1, <2>2
  <2>4. \A i \in 1 .. Len(request) : request'[i] = request[i]
    BY <2>1, <2>2
  <2> QED
    BY <2>1, <2>2, <2>3, <2>4
<1>10. ASSUME NEW i \in 1 .. Len(request') PROVE request'[i] = Request[i]
  <2>1. CASE i <= Len(request)
    BY <1>7, <1>9, <2>1 DEF IInv, TxSound
  <2>2. CASE i > Len(request)
    <3>1. i - Len(request) \in 1 .. n /\ i \in Len(request) + 1 .. Len(request) + n
      BY <1>7, <1>9, <2>2
    <3>2. request'[i] = Request[Len(request) + (i - Len(request))]
      BY <1>8, <1>9, <3>1
    <3> QED
      BY <1>7, <3>1, <3>2
  <2> QED
    BY <1>7, <1>9, <2>1, <2>2
<1>11. ASSUME NEW j \in 1 .. Unsent'
       PROVE  mem'["tx"][(far'["tx"] + (j - 1)) % Ring] = Request[Len(request') + j]
  <2>1. (far'["tx"] + (j - 1)) % Ring = (far["tx"] + (n + (j - 1))) % Ring
    <3>1. n \in 0 .. Ring /\ j - 1 \in 0 .. Ring
      BY <1>2, <1>5
    <3> QED
      BY <1>3, <1>4, <3>1, Cells
  <2>2. n + j \in 1 .. Unsent /\ n + (j - 1) = (n + j) - 1
    BY <1>5
  <2>3. mem["tx"][(far["tx"] + ((n + j) - 1)) % Ring] = Request[Len(request) + (n + j)]
    BY <2>2 DEF IInv, TxSound
  <2>4. Len(request') + j = Len(request) + (n + j) /\ mem' = mem
    BY <1>1, <1>5, <1>7, <1>9 DEF Transmit
  <2> QED
    BY <2>1, <2>2, <2>3, <2>4
<1>12. Len(request') + Unsent' = pos' /\ pos' = pos
  <2>1. pos' = pos
    BY <1>1 DEF program
  <2>2. Len(request') = Len(request) + n /\ Unsent' = Unsent - n
    BY <1>5, <1>9
  <2>3. n \in Int /\ Unsent \in Int /\ Len(request) \in Int
    BY <1>5, <1>7
  <2>4. (Len(request) + n) + (Unsent - n) = Len(request) + Unsent
    BY <2>3
  <2>5. Len(request') + Unsent' = Len(request) + Unsent
    BY <2>2, <2>4
  <2> QED
    BY <1>7, <2>1, <2>5
<1> QED
  BY <1>4, <1>9, <1>10, <1>11, <1>12 DEF TxSound

\* What arrives is the next part of the response; the bytes that are there
\* already stay.
LEMMA DeliverSound ==
  ASSUME IInv, Deliver
  PROVE  /\ RxSound' /\ TxSound' /\ Pointers' /\ reply' \in Seq(Bytes)
         /\ mem' \in [Dirs -> [0 .. Ring - 1 -> Bytes \cup {Junk}]]
         /\ far' \in [Dirs -> Pointer]
         /\ Room("rx") <= Room("rx")' /\ SizeReg("rx") <= SizeReg("rx")'
         /\ Room("tx")' = Room("tx") /\ SizeReg("tx")' = SizeReg("tx")
<1>1. PICK n \in 1 .. AtMost(Ring, Len(reply)) :
        /\ Arrive(SubSeq(reply, 1, n))
        /\ reply' = SubSeq(reply, n + 1, Len(reply))
        /\ UNCHANGED <<single, asking, program, request, dropped, hurried>>
  BY DEF Deliver
<1> DEFINE s == SubSeq(reply, 1, n)
<1>2. /\ reply \in Seq(Bytes) /\ n \in 1 .. Ring /\ n <= Len(reply)
      /\ Ring \in Nat \ {0}
  BY <1>1, Lengths DEF AtMost
<1>3. /\ s \in Seq(Bytes) /\ Len(s) = n
      /\ \A i \in 1 .. n : s[i] = reply[i]
  BY <1>2
<1>4. /\ reply' \in Seq(Bytes) /\ Len(reply') = Len(reply) - n
      /\ \A i \in 1 .. Len(reply) - n : reply'[i] = reply[n + i]
  BY <1>1, <1>2
<1> HIDE DEF s
<1>5. /\ Len(s) \in 1 .. Ring - SizeReg("rx")
      /\ mem' = [mem EXCEPT !["rx"] = [i \in 0 .. Ring - 1 |->
                   LET k == (i - far["rx"]) % Ring
                   IN  IF k < Len(s) THEN s[k + 1] ELSE @[i]]]
      /\ far' = [far EXCEPT !["rx"] = (@ + Len(s)) % PtrMod]
      /\ UNCHANGED <<status, command, reg, own>>
  BY <1>1 DEF Arrive, s
<1>6. /\ Pointers'
      /\ far'["rx"] = (far["rx"] + n) % PtrMod
      /\ SizeReg("rx")' = SizeReg("rx") + n
      /\ Room("rx")' = Room("rx") + n
      /\ Room("tx")' = Room("tx") /\ SizeReg("tx")' = SizeReg("tx")
      /\ far' \in [Dirs -> Pointer]
  <2>1. "rx" \in Dirs /\ "tx" \in Dirs \ {"rx"}
    BY DEF Dirs
  <2> QED
    BY <1>3, <1>5, <2>1, PointersFar
<1>7. /\ Registers /\ far["rx"] \in Pointer /\ reg["rx"] \in Pointer
      /\ \A d \in Dirs : Room(d) \in 0 .. Ring /\ SizeReg(d) = Room(d) + Taken(d)
      /\ \A d \in Dirs : Taken(d) \in Pointer
  BY RegisterTypes DEF IInv, Pointers, Registers, Dirs
<1>8. /\ Held \in 0 .. Ring /\ Held + n <= Ring /\ Held' = Held + n
      /\ SizeReg("rx") \in Int
  <2>1. /\ SizeReg("rx") = Held + Taken("rx") /\ Taken("rx") \in Pointer
        /\ Held \in 0 .. Ring /\ n <= Ring - SizeReg("rx")
    BY <1>3, <1>5, <1>7 DEF Held, Dirs
  <2> QED
    BY <1>2, <1>6, <2>1 DEF Held, Pointer
<1>9. mem \in [Dirs -> [0 .. Ring - 1 -> Bytes \cup {Junk}]]
  BY DEF IInv, TypeOK, W5100TypeOK
<1>10. /\ mem'["tx"] = mem["tx"]
       /\ \A i \in 0 .. Ring - 1 :
            mem'["rx"][i] = IF (i - far["rx"]) % Ring < n
                            THEN s[((i - far["rx"]) % Ring) + 1] ELSE mem["rx"][i]
  BY <1>3, <1>5, <1>9 DEF Dirs
<1>11. mem' \in [Dirs -> [0 .. Ring - 1 -> Bytes \cup {Junk}]]
  <2>1. \A i \in 0 .. Ring - 1 : (i - far["rx"]) % Ring \in Nat
    BY <1>2, <1>7 DEF Pointer
  <2>2. ASSUME NEW i \in 0 .. Ring - 1
        PROVE  (LET k == (i - far["rx"]) % Ring
                IN  IF k < Len(s) THEN s[k + 1] ELSE mem["rx"][i])
                 \in Bytes \cup {Junk}
    <3> DEFINE k == (i - far["rx"]) % Ring
    <3>1. k \in Nat
      BY <2>1
    <3> HIDE DEF k
    <3>2. k < Len(s) => s[k + 1] \in Bytes
      BY <1>3, <3>1
    <3>3. mem["rx"][i] \in Bytes \cup {Junk}
      BY <1>9 DEF Dirs
    <3> QED
      BY <3>2, <3>3 DEF k
  <2> QED
    BY <1>5, <1>9, <2>2 DEF Dirs
<1>12. far["rx"] = (reg["rx"] + Held) % PtrMod
  BY <1>7, PointerSum DEF Held, Room
<1>13. ASSUME NEW j \in 1 .. Ring
       PROVE  /\ (reg["rx"] + (j - 1)) % Ring \in 0 .. Ring - 1
              /\ (((reg["rx"] + (j - 1)) % Ring) - far["rx"]) % Ring
                   = IF j - 1 >= Held THEN j - 1 - Held ELSE j - 1 - Held + Ring
  <2>1. j - 1 \in 0 .. Ring - 1
    BY <1>2
  <2>2. /\ (reg["rx"] + (j - 1)) % Ring \in 0 .. Ring - 1
        /\ (((reg["rx"] + (j - 1)) % Ring) - far["rx"]) % Ring = ((j - 1) - Held) % Ring
    <3>1. j - 1 \in 0 .. Ring /\ Held \in 0 .. Ring
      BY <1>2, <1>8, <2>1
    <3>2. \A x \in Pointer, k, i \in 0 .. Ring :
            /\ (x + i) % Ring \in 0 .. Ring - 1
            /\ (((x + i) % Ring) - ((x + k) % PtrMod)) % Ring = (i - k) % Ring
      BY Cells
    <3> QED
      BY <1>7, <1>12, <3>1, <3>2, SMTT(30)
  <2>3. \A x \in Int : /\ x \in 0 .. Ring - 1 => x % Ring = x
                       /\ x \in -Ring .. -1 => x % Ring = x + Ring
    BY <1>2, Around
  <2> QED
    <3> DEFINE x == (j - 1) - Held
    <3>1. /\ x \in Int /\ Ring \in Int
          /\ (j - 1 >= Held => x \in 0 .. Ring - 1)
          /\ (~(j - 1 >= Held) => x \in -Ring .. -1)
          /\ x = j - 1 - Held
      BY <1>2, <1>8, <2>1
    <3> HIDE DEF x
    <3>2. x % Ring = IF j - 1 >= Held THEN x ELSE x + Ring
      BY <2>3, <3>1
    <3> QED
      BY <2>2, <3>1, <3>2 DEF x
<1>14. Received' = Received /\ Stream' = Stream /\ pc' = pc
  BY <1>1 DEF Received, Stream, program
<1>15. RxSound'
  <2> SUFFICES ASSUME pc \notin {"quit", "done"}
               PROVE  /\ Len(Received) + Held' + Len(reply') = Len(Stream)
                      /\ \A i \in 1 .. Len(Received) : Received[i] = Stream[i]
                      /\ \A j \in 1 .. Held' :
                           mem'["rx"][(reg["rx"] + (j - 1)) % Ring]
                             = Stream[Len(Received) + j]
                      /\ \A j \in 1 .. Len(reply') :
                           reply'[j] = Stream[Len(Received) + Held' + j]
    BY <1>5, <1>14 DEF RxSound
  <2>1. /\ Len(Received) + Held + Len(reply) = Len(Stream)
        /\ \A i \in 1 .. Len(Received) : Received[i] = Stream[i]
        /\ \A j \in 1 .. Held :
             mem["rx"][(reg["rx"] + (j - 1)) % Ring] = Stream[Len(Received) + j]
        /\ \A j \in 1 .. Len(reply) : reply[j] = Stream[Len(Received) + Held + j]
    BY DEF IInv, RxSound
  <2>2. Len(Received) \in Nat /\ Len(reply) \in Nat /\ Len(Stream) \in Nat
    BY Lengths
  <2>3. Len(Received) + Held' + Len(reply') = Len(Stream)
    <3>1. Held' = Held + n /\ Len(reply') = Len(reply) - n
      BY <1>4, <1>8
    <3>2. Held \in Int /\ n \in Int
      BY <1>2, <1>8
    <3>3. Len(Received) + (Held + n) + (Len(reply) - n) = Len(Received) + Held + Len(reply)
      BY <2>2, <3>2
    <3> QED
      BY <2>1, <3>1, <3>3
  <2>4. ASSUME NEW j \in 1 .. Held'
        PROVE  mem'["rx"][(reg["rx"] + (j - 1)) % Ring] = Stream[Len(Received) + j]
    <3> DEFINE c == (reg["rx"] + (j - 1)) % Ring
    <3>1. /\ j \in 1 .. Ring /\ c \in 0 .. Ring - 1
          /\ (c - far["rx"]) % Ring
                = IF j - 1 >= Held THEN j - 1 - Held ELSE j - 1 - Held + Ring
      BY <1>2, <1>8, <1>13
    <3> HIDE DEF c
    <3>2. CASE j <= Held
      <4>1. ~((c - far["rx"]) % Ring < n)
        BY <1>2, <1>8, <3>1, <3>2
      <4>2. mem'["rx"][c] = mem["rx"][c]
        BY <1>10, <3>1, <4>1
      <4> QED
        BY <1>8, <2>1, <3>2, <4>2 DEF c
    <3>3. CASE j > Held
      <4>1. (c - far["rx"]) % Ring = j - 1 - Held /\ j - Held \in 1 .. n
        BY <1>2, <1>8, <3>1, <3>3
      <4>2. mem'["rx"][c] = s[(j - 1 - Held) + 1] /\ (j - 1 - Held) + 1 = j - Held
        BY <1>2, <1>8, <1>10, <3>1, <4>1
      <4>3. s[j - Held] = reply[j - Held] /\ j - Held \in 1 .. Len(reply)
        BY <1>2, <1>3, <4>1, <2>2
      <4>4. reply[j - Held] = Stream[Len(Received) + Held + (j - Held)]
        BY <2>1, <4>3
      <4>5. Len(Received) + Held + (j - Held) = Len(Received) + j
        BY <1>8, <2>2
      <4> QED
        BY <4>2, <4>3, <4>4, <4>5 DEF c
    <3> QED
      BY <1>8, <3>2, <3>3
  <2>5. ASSUME NEW j \in 1 .. Len(reply')
        PROVE  reply'[j] = Stream[Len(Received) + Held' + j]
    <3>1. reply'[j] = reply[n + j] /\ n + j \in 1 .. Len(reply)
      BY <1>2, <1>4, <2>2
    <3>2. reply[n + j] = Stream[Len(Received) + Held + (n + j)]
      BY <2>1, <3>1
    <3>3. Len(Received) + Held + (n + j) = Len(Received) + Held' + j
      BY <1>2, <1>8, <2>2
    <3> QED
      BY <3>1, <3>2, <3>3
  <2> QED
    BY <2>1, <2>3, <2>4, <2>5
<1>16. TxSound'
  <2>1. far'["tx"] = far["tx"] /\ reg' = reg /\ UNCHANGED <<request, pos>>
    BY <1>1, <1>5, <1>7 DEF program, Registers, Dirs
  <2> QED
    BY <1>10, <2>1, TxStays
<1> QED
  <2>1. Room("rx") <= Room("rx")' /\ SizeReg("rx") <= SizeReg("rx")'
    BY <1>2, <1>6, <1>8 DEF Held
  <2> QED
    BY <1>4, <1>6, <1>11, <1>15, <1>16, <2>1

\* GrantHolds: nobody but the program takes from what a request has found.
LEMMA Granting ==
  ASSUME IInv, step = "ready"
  PROVE  /\ dir \in Dirs /\ command = "none" /\ reg[dir] = own[dir]
         /\ Granted(dir) \in 1 .. Room(dir)
         /\ Room(dir) \in 0 .. Ring
         /\ single \/ Granted(dir) <= Ring - (reg[dir] % Ring)
<1>1. /\ dir \in Dirs /\ command = "none"
      /\ size <= Room(dir) /\ size # 0 /\ size \in Nat
  BY DEF IInv, Requests, dir, Dirs, TypeOK, W5100TypeOK
<1>2. reg[dir] = own[dir] /\ Room(dir) \in 0 .. Ring
  BY <1>1 DEF IInv, Pointers, Dirs
<1>3. /\ Ring \in Nat \ {0} /\ reg[dir] \in Int
      /\ reg[dir] % Ring \in 0 .. Ring - 1
  BY <1>1, RegisterTypes DEF IInv, Registers, Pointer
<1> DEFINE left == Ring - (reg[dir] % Ring)
<1>4. left \in 1 .. Ring
  BY <1>3
<1>5. Granted(dir) = IF single \/ size <= left THEN size ELSE left
  BY DEF Granted
<1> HIDE DEF left
<1>6. Granted(dir) \in 1 .. Room(dir) /\ (single \/ Granted(dir) <= left)
  BY <1>1, <1>2, <1>4, <1>5
<1> QED
  BY <1>1, <1>2, <1>6 DEF left

\* The cells the driver reads and writes are those of the ring.
LEMMA CellsGranted ==
  ASSUME IInv, step = "ready", NEW j \in 0 .. Granted(dir) - 1
  PROVE  /\ Cell(dir, j) = (reg[dir] + j) % Ring
         /\ Cell(dir, j) \in 0 .. Ring - 1
<1>1. /\ dir \in Dirs /\ Granted(dir) \in 1 .. Room(dir) /\ Room(dir) \in 0 .. Ring
      /\ single \/ Granted(dir) <= Ring - (reg[dir] % Ring)
  BY Granting
<1>2. /\ Ring \in Nat \ {0} /\ reg[dir] \in Pointer /\ j \in 0 .. Ring
      /\ reg[dir] % Ring \in 0 .. Ring - 1
  BY <1>1, RegisterTypes DEF IInv, Registers, Pointer
<1>3. /\ (reg[dir] + j) % Ring \in 0 .. Ring - 1
      /\ (reg[dir] % Ring) + j < Ring => (reg[dir] + j) % Ring = (reg[dir] % Ring) + j
  <2>1. \A a \in Pointer, i \in 0 .. Ring :
          /\ (a + i) % Ring \in 0 .. Ring - 1
          /\ (a % Ring) + i < Ring => (a + i) % Ring = (a % Ring) + i
    BY <1>2, Cells
  <2> QED
    BY <1>2, <2>1
<1>4. single \/ (reg[dir] % Ring) + j < Ring
  BY <1>1, <1>2
<1> QED
  BY <1>3, <1>4 DEF Cell

\* Reading gives the next part of the response.
LEMMA Reading ==
  ASSUME IInv, step = "ready", pc \in {"header", "file"},
         NEW n \in 0 .. Granted("rx")
  PROVE  /\ DataRead(n) \in Seq(Bytes) /\ Len(DataRead(n)) = n
         /\ \A i \in 1 .. n : DataRead(n)[i] = Stream[Len(Received) + i]
         /\ n <= Held /\ n \in 0 .. Ring
<1>1. /\ dir = "rx" /\ Granted("rx") \in 1 .. Held /\ Held \in 0 .. Ring
      /\ Ring \in Nat \ {0}
  BY Granting, Lengths DEF dir, Held
<1>2. ASSUME NEW i \in 1 .. n
      PROVE  /\ Cell("rx", i - 1) = (reg["rx"] + (i - 1)) % Ring
             /\ Cell("rx", i - 1) \in 0 .. Ring - 1
  <2>1. i - 1 \in 0 .. Granted(dir) - 1
    BY <1>1
  <2> QED
    BY <1>1, <2>1, CellsGranted
<1>3. /\ Len(Received) + Held + Len(reply) = Len(Stream)
      /\ \A j \in 1 .. Held :
           mem["rx"][(reg["rx"] + (j - 1)) % Ring] = Stream[Len(Received) + j]
  BY DEF IInv, RxSound
<1>4. /\ Len(Received) \in Nat /\ Len(reply) \in Nat /\ Stream \in Seq(Bytes)
      /\ Len(Stream) \in Nat
  BY Lengths
<1>5. ASSUME NEW i \in 1 .. n
      PROVE  /\ (LET c == Cell("rx", i - 1) IN IF c < Ring THEN mem["rx"][c] ELSE Junk)
                   = Stream[Len(Received) + i]
             /\ Stream[Len(Received) + i] \in Bytes
  <2>1. i \in 1 .. Held
    BY <1>1
  <2>2. Len(Received) + i \in 1 .. Len(Stream)
    <3>1. Len(Received) + i <= Len(Received) + Held + Len(reply)
      BY <1>1, <1>4, <2>1
    <3> QED
      BY <1>3, <1>4, <2>1, <3>1
  <2>3. Stream[Len(Received) + i] \in Bytes
    BY <1>4, <2>2
  <2>4. mem["rx"][Cell("rx", i - 1)] = Stream[Len(Received) + i]
    BY <1>2, <1>3, <2>1
  <2>5. Cell("rx", i - 1) < Ring
    BY <1>1, <1>2
  <2> QED
    BY <2>3, <2>4, <2>5
<1>6. n \in Nat /\ n <= Held /\ n \in 0 .. Ring
  BY <1>1
<1>7. DataRead(n) = [i \in 1 .. n |-> Stream[Len(Received) + i]]
  BY <1>5 DEF DataRead
<1>8. /\ [i \in 1 .. n |-> Stream[Len(Received) + i]] \in Seq(Bytes)
      /\ Len([i \in 1 .. n |-> Stream[Len(Received) + i]]) = n
  BY <1>5, <1>6
<1>9. \A i \in 1 .. n : DataRead(n)[i] = Stream[Len(Received) + i]
  BY <1>7
<1> QED
  BY <1>6, <1>7, <1>8, <1>9

\* What is read is taken out of the ring.
LEMMA TakeSound ==
  ASSUME IInv, NEW n \in 0 .. Ring, n <= Held, Commit("rx", n), UNCHANGED <<mem, reply>>,
         pc \notin {"quit", "done"},
         Len(Received') = Len(Received) + n,
         \A i \in 1 .. Len(Received') : Received'[i] = Stream[i],
         reg'["rx"] = (reg["rx"] + n) % PtrMod, Held' = Held - n
  PROVE  RxSound'
<1>1. /\ Len(Received) + Held + Len(reply) = Len(Stream)
      /\ \A j \in 1 .. Held :
           mem["rx"][(reg["rx"] + (j - 1)) % Ring] = Stream[Len(Received) + j]
      /\ \A j \in 1 .. Len(reply) : reply[j] = Stream[Len(Received) + Held + j]
  BY DEF IInv, RxSound
<1>2. /\ Len(Received) \in Nat /\ Len(reply) \in Nat /\ Held \in 0 .. Ring
      /\ n \in Nat /\ Ring \in Nat \ {0}
  BY Lengths, SMTT(30)
<1>3. reg["rx"] \in Pointer
  BY RegisterTypes DEF IInv, Registers, Dirs
<1>4. (Len(Received) + n) + (Held - n) = Len(Received) + Held
  BY <1>2
<1>5. ASSUME NEW j \in 1 .. Held'
      PROVE  mem["rx"][(reg'["rx"] + (j - 1)) % Ring] = Stream[Len(Received') + j]
  <2>1. /\ n + j \in 1 .. Held /\ j - 1 \in 0 .. Ring /\ (n + j) - 1 = n + (j - 1)
        /\ Len(Received) + (n + j) = (Len(Received) + n) + j
    BY <1>2
  <2>2. (((reg["rx"] + n) % PtrMod) + (j - 1)) % Ring = (reg["rx"] + (n + (j - 1))) % Ring
    BY <1>3, <2>1, Cells
  <2>3. mem["rx"][(reg["rx"] + ((n + j) - 1)) % Ring] = Stream[Len(Received) + (n + j)]
    BY <1>1, <2>1
  <2> QED
    BY <2>1, <2>2, <2>3
<1>6. Len(Received') + Held' = Len(Received) + Held
  BY <1>4
<1> QED
  BY <1>1, <1>5, <1>6 DEF RxSound, Stream

\* What the program puts in the ring follows what is there.
LEMMA PutSound ==
  ASSUME IInv, SendSome
  PROVE  /\ TxSound' /\ RxSound' /\ Pointers'
         /\ mem' \in [Dirs -> [0 .. Ring - 1 -> Bytes \cup {Junk}]]
         /\ reg' \in [Dirs -> Pointer]
         /\ pos' \in 0 .. Len(Request) /\ Room("rx")' = Room("rx")
<1> DEFINE n == AtMost(Granted("tx"), Len(Request) - pos)
           s == SubSeq(Request, pos + 1, pos + n)
<1>1. /\ pc = "send" /\ step = "ready"
      /\ mem' = [mem EXCEPT !["tx"] = Written(s)]
      /\ Commit("tx", n)
      /\ pos' = pos + n
      /\ UNCHANGED <<header, buffer, file, request, reply>>
      /\ pc' \in {"send", "header"}
  BY DEF SendSome, peer
<1>2. /\ dir = "tx" /\ Granted("tx") \in 1 .. Room("tx") /\ Room("tx") \in 0 .. Ring
      /\ command = "none" /\ reg["tx"] = own["tx"]
      /\ Ring \in Nat \ {0} /\ Unsent \in 0 .. Ring
  BY <1>1, Granting, Lengths DEF dir
<1>3. Request \in Seq(Bytes) /\ pos \in Nat /\ pos <= Len(Request) /\ Len(Request) \in Nat
  BY Lengths, WgetAssumption
<1>4. n \in 0 .. Granted("tx") /\ pos + n <= Len(Request) /\ n \in Nat
  BY <1>2, <1>3 DEF AtMost
<1>5. /\ s \in Seq(Bytes) /\ Len(s) = n
      /\ \A i \in 1 .. n : s[i] = Request[pos + i]
  <2> HIDE DEF n
  <2> QED
    BY <1>3, <1>4, SMTT(30)
<1> HIDE DEF n, s
<1>6. n \in 0 .. Ring /\ n <= Room("tx")
  BY <1>2, <1>4
<1>7. /\ Pointers'
      /\ reg'["tx"] = (reg["tx"] + n) % PtrMod
      /\ Room("tx")' = Room("tx") - n
      /\ Room("rx")' = Room("rx")
      /\ reg' \in [Dirs -> Pointer]
  <2>1. "tx" \in Dirs /\ "rx" \in Dirs \ {"tx"}
    BY DEF Dirs
  <2> QED
    BY <1>1, <1>2, <1>6, <2>1, PointersCommit
<1>8. Unsent' = Unsent + n /\ Unsent' \in 0 .. Ring /\ Unsent + n <= Ring
  BY <1>2, <1>6, <1>7 DEF Unsent
<1>9. Registers /\ far["tx"] \in Pointer /\ reg["tx"] \in Pointer
  BY RegisterTypes DEF IInv, Registers, Dirs
<1>10. mem \in [Dirs -> [0 .. Ring - 1 -> Bytes \cup {Junk}]]
  BY DEF IInv, TypeOK, W5100TypeOK
<1>11. /\ mem'["tx"] = Written(s) /\ mem'["rx"] = mem["rx"]
  BY <1>1, <1>10 DEF Dirs
<1>12. \A k \in 1 .. n : /\ Cell("tx", k - 1) = (reg["tx"] + (k - 1)) % Ring
                         /\ Cell("tx", k - 1) \in 0 .. Ring - 1
  <2> SUFFICES ASSUME NEW k \in 1 .. n
               PROVE  /\ Cell("tx", k - 1) = (reg["tx"] + (k - 1)) % Ring
                      /\ Cell("tx", k - 1) \in 0 .. Ring - 1
    OBVIOUS
  <2>1. k - 1 \in 0 .. Granted(dir) - 1
    BY <1>2, <1>4
  <2> QED
    BY <1>1, <1>2, <2>1, CellsGranted
<1>13. reg["tx"] = (far["tx"] + Unsent) % PtrMod
  <2>1. Unsent = (reg["tx"] - far["tx"]) % PtrMod
    <3>1. (reg["tx"] - far["tx"]) % PtrMod \in Pointer
      BY <1>2, <1>9, Ahead
    <3>2. Room("tx") = Ring - ((reg["tx"] - far["tx"]) % PtrMod)
      BY DEF Room
    <3> QED
      BY <1>2, <3>1, <3>2 DEF Unsent, Pointer
  <2> QED
    BY <1>9, <2>1, PointerSum
<1>14. ASSUME NEW j \in 1 .. Ring, NEW k \in 1 .. n
       PROVE  /\ (far["tx"] + (j - 1)) % Ring \in 0 .. Ring - 1
              /\ (far["tx"] + (j - 1)) % Ring = Cell("tx", k - 1) <=>
                 j = Unsent + k
  <2>1. j - 1 \in 0 .. Ring - 1 /\ k - 1 \in 0 .. Ring - 1 /\ Unsent + (k - 1) \in 0 .. Ring - 1
    BY <1>2, <1>6, <1>8
  <2>2. Cell("tx", k - 1) = (far["tx"] + (Unsent + (k - 1))) % Ring
    <3>1. \A a \in Pointer, x, i \in 0 .. Ring :
            (((a + x) % PtrMod) + i) % Ring = (a + (x + i)) % Ring
      BY Cells
    <3>2. k - 1 \in 0 .. Ring
      BY <1>2, <2>1
    <3> QED
      BY <1>2, <1>9, <1>12, <1>13, <3>1, <3>2
  <2>3. \A i \in 0 .. Ring - 1 :
          /\ (far["tx"] + i) % Ring \in 0 .. Ring - 1
          /\ (((far["tx"] + i) % Ring) - ((far["tx"] + 0) % PtrMod)) % Ring = i
    <3>1. \A i \in 0 .. Ring - 1 : i \in 0 .. Ring /\ i % Ring = i /\ i - 0 = i
      <4>1. \A x \in Int : x \in 0 .. Ring - 1 => x % Ring = x
        BY <1>2, Around
      <4> QED
        BY <1>2, <4>1
    <3>2. 0 \in 0 .. Ring
      BY <1>2
    <3>3. \A a \in Pointer, x, i \in 0 .. Ring :
            /\ (a + i) % Ring \in 0 .. Ring - 1
            /\ (((a + i) % Ring) - ((a + x) % PtrMod)) % Ring = (i - x) % Ring
      BY Cells
    <3> QED
      BY <1>9, <3>1, <3>2, <3>3
  <2>4. (far["tx"] + (j - 1)) % Ring = Cell("tx", k - 1)
          <=> j - 1 = Unsent + (k - 1)
    BY <2>1, <2>2, <2>3
  <2> QED
    BY <1>2, <2>1, <2>3, <2>4
<1>15. ASSUME NEW j \in 1 .. Unsent'
       PROVE  mem'["tx"][(far["tx"] + (j - 1)) % Ring] = Request[Len(request) + j]
  <2> DEFINE c == (far["tx"] + (j - 1)) % Ring
  <2>1. /\ j \in 1 .. Ring /\ c \in 0 .. Ring - 1
        /\ \A k \in 1 .. n : c = Cell("tx", k - 1) <=> j = Unsent + k
    <3>1. j \in 1 .. Ring /\ j - 1 \in 0 .. Ring
      BY <1>2, <1>8
    <3>2. \A i \in 0 .. Ring : (far["tx"] + i) % Ring \in 0 .. Ring - 1
      BY <1>2, <1>9, Cells, 0 \in 0 .. Ring
    <3> QED
      BY <1>14, <3>1, <3>2
  <2> HIDE DEF c
  <2>2. Written(s)[c] = IF \E k \in 1 .. n : Cell("tx", k - 1) = c
                        THEN s[CHOOSE k \in 1 .. n : Cell("tx", k - 1) = c]
                        ELSE mem["tx"][c]
    BY <1>5, <2>1 DEF Written
  <2>3. /\ Len(request) + Unsent = pos /\ Len(request) \in Nat
        /\ \A i \in 1 .. Unsent :
             mem["tx"][(far["tx"] + (i - 1)) % Ring] = Request[Len(request) + i]
    BY Lengths, SMTT(30) DEF IInv, TxSound
  <2>4. CASE j <= Unsent
    <3>1. ~\E k \in 1 .. n : Cell("tx", k - 1) = c
      BY <1>2, <2>1, <2>4
    <3> QED
      BY <1>8, <1>11, <2>2, <2>3, <2>4, <3>1 DEF c
  <2>5. CASE j > Unsent
    <3>1. /\ j - Unsent \in 1 .. n
          /\ \A k \in 1 .. n : Cell("tx", k - 1) = c <=> k = j - Unsent
      <4>1. j - Unsent \in 1 .. n
        BY <1>2, <1>4, <1>8, <2>5
      <4>2. \A k \in 1 .. n : j = Unsent + k <=> k = j - Unsent
        BY <1>2, <1>8
      <4> QED
        BY <2>1, <4>1, <4>2
    <3>2. (CHOOSE k \in 1 .. n : Cell("tx", k - 1) = c) = j - Unsent
      BY <3>1
    <3>3. Written(s)[c] = s[j - Unsent]
      BY <2>2, <3>1, <3>2
    <3>4. s[j - Unsent] = Request[pos + (j - Unsent)]
      BY <1>5, <3>1
    <3>5. pos + (j - Unsent) = Len(request) + j
      BY <1>2, <2>3
    <3> QED
      BY <1>11, <3>3, <3>4, <3>5 DEF c
  <2> QED
    BY <1>2, <1>8, <2>4, <2>5
<1>16. TxSound'
  <2>1. /\ Len(request) + Unsent = pos /\ Len(request) \in Nat
        /\ \A i \in 1 .. Len(request) : request[i] = Request[i]
    BY Lengths DEF IInv, TxSound
  <2>2. Len(request) + (Unsent + n) = pos + n
    BY <1>2, <1>4, <2>1
  <2>3. request' = request /\ far' = far /\ pos' = pos + n /\ Unsent' = Unsent + n
    BY <1>1, <1>8 DEF Commit
  <2> QED
    BY <1>15, <2>1, <2>2, <2>3 DEF TxSound
<1>17. RxSound'
  <2>1. Received' = Received
    BY <1>1 DEF Received
  <2>2. reg'["rx"] = reg["rx"] /\ far' = far
    BY <1>1, <1>9 DEF Commit, Registers, Dirs
  <2> QED
    BY <1>1, <1>11, <2>1, <2>2, RxStays
<1>18. mem' \in [Dirs -> [0 .. Ring - 1 -> Bytes \cup {Junk}]]
  <2>1. Written(s) \in [0 .. Ring - 1 -> Bytes \cup {Junk}]
    <3>1. ASSUME NEW i \in 0 .. Ring - 1
          PROVE  (IF \E k \in 1 .. Len(s) : Cell("tx", k - 1) = i
                  THEN s[CHOOSE k \in 1 .. Len(s) : Cell("tx", k - 1) = i]
                  ELSE mem["tx"][i]) \in Bytes \cup {Junk}
      <4>1. CASE \E k \in 1 .. Len(s) : Cell("tx", k - 1) = i
        <5>1. (CHOOSE k \in 1 .. Len(s) : Cell("tx", k - 1) = i) \in 1 .. Len(s)
          BY <4>1
        <5> QED
          BY <1>5, <4>1, <5>1
      <4>2. CASE ~\E k \in 1 .. Len(s) : Cell("tx", k - 1) = i
        BY <1>10, <4>2 DEF Dirs
      <4> QED
        BY <4>1, <4>2
    <3> QED
      BY <3>1 DEF Written
  <2> QED
    BY <1>1, <1>10, <2>1 DEF Dirs
<1>19. pos' \in 0 .. Len(Request)
  BY <1>1, <1>3, <1>4
<1> QED
  BY <1>7, <1>16, <1>17, <1>18, <1>19

-----------------------------------------------------------------------------
(* The steps that leave the rings alone                                    *)


LEMMA Quiet ==
  ASSUME IInv, UNCHANGED <<mem, reg, own, far, request, pos, reply>>,
         \A d \in Dirs : command' # d => reg[d] = own[d],
         \/ Received' = Received /\ (pc \in {"quit", "done"} => pc' \in {"quit", "done"})
         \/ pc' \in {"quit", "done"}
  PROVE  /\ Pointers' /\ TxSound' /\ RxSound'
         /\ Held' = Held /\ SizeReg("rx")' = SizeReg("rx")
         /\ \A d \in Dirs : Room(d)' = Room(d) /\ SizeReg(d)' = SizeReg(d)
<1>1. /\ Pointers'
      /\ \A d \in Dirs : Room(d)' = Room(d) /\ SizeReg(d)' = SizeReg(d)
  BY PointersStay
<1>2. TxSound'
  BY TxStays
<1>3. RxSound'
  <2>1. CASE Received' = Received /\ (pc \in {"quit", "done"} => pc' \in {"quit", "done"})
    BY <2>1, RxStays
  <2>2. CASE pc' \in {"quit", "done"}
    BY <2>2 DEF RxSound
  <2> QED
    BY <2>1, <2>2
<1> QED
  BY <1>1, <1>2, <1>3 DEF Held, Dirs

LEMMA Opening ==
  ASSUME IInv, Open \/ Connect \/ Connected \/ StopConnect
  PROVE  IInv'
<1>1. /\ UNCHANGED <<mem, reg, own, far, request, pos, reply>>
      /\ UNCHANGED <<single, asking, header, buffer, file, dropped, hurried, status>>
      /\ pc \in {"start", "open", "connect"}
  BY DEF Open, Connect, Connected, StopConnect, SetCommand, Goto, Exit, peer, chip
<1>2. /\ Received' = Received
      /\ \A d \in Dirs : command' # d => reg[d] = own[d]
  BY <1>1 DEF IInv, Pointers, Commands, Received, Open, Connect, Connected, StopConnect,
              SetCommand, Dirs, chip
<1>3. Pointers' /\ TxSound' /\ RxSound' /\ Held' = Held
  BY <1>1, <1>2, Quiet
<1>4. TypeOK'
  BY <1>1 DEF IInv, TypeOK, W5100TypeOK, Open, Connect, Connected, StopConnect,
              SetCommand, Goto, Exit, asking, chip
<1>5. Commands' /\ Beginning'
  BY <1>1 DEF IInv, Commands, Beginning, Early, Stream, Open, Connect, Connected, StopConnect,
              SetCommand, Goto, Exit, chip
<1>6. Requests'
  BY <1>1 DEF IInv, Requests, asking
<1>7. Phases'
  BY <1>1, WgetAssumption DEF IInv, Phases, Beginning, Early, Open, Connect, Connected,
              StopConnect, SetCommand, Goto, Exit, EndOfHeader
<1>8. ClosedAtEnd'
  BY <1>1 DEF ClosedAtEnd, Open, Connect, Connected, StopConnect, Goto, Exit
<1>9. StreamsInOrder' /\ WholeFile'
  BY <1>1, WgetAssumption DEF IInv, StreamsInOrder, WholeFile, Phases, Open, Connect, Connected,
              StopConnect, Goto, Exit
<1> QED
  BY <1>3, <1>4, <1>5, <1>6, <1>7, <1>8, <1>9 DEF IInv

LEMMA Halves ==
  ASSUME NEW m \in Nat \ {0}, NEW x \in Nat, NEW y \in Nat, x <= y
  PROVE  /\ x \div m \in Nat /\ x \div m <= y \div m
         /\ x % m \in 0 .. m - 1
         /\ \A h \in Nat : h <= x \div m => h * m + (x % m) \in 0 .. x
<1>1. /\ x = (x \div m) * m + (x % m) /\ x % m \in 0 .. m - 1 /\ x \div m \in Int
      /\ y = (y \div m) * m + (y % m) /\ y % m \in 0 .. m - 1 /\ y \div m \in Int
  OBVIOUS
<1> DEFINE p == x \div m
           q == y \div m
<1>2. p >= 0
  <2> SUFFICES ASSUME p <= -1 PROVE FALSE
    BY <1>1
  <2>1. p * m <= -m
    BY <1>1
  <2> QED
    BY <1>1, <2>1
<1>3. p <= q
  <2> SUFFICES ASSUME p >= q + 1 PROVE FALSE
    BY <1>1
  <2>1. p * m >= (q + 1) * m /\ (q + 1) * m = q * m + m
    BY <1>1
  <2> QED
    BY <1>1, <2>1
<1>4. ASSUME NEW h \in Nat, h <= p PROVE h * m + (x % m) \in 0 .. x
  <2>1. h * m <= p * m /\ h * m >= 0 /\ h * m \in Int
    BY <1>1, <1>4
  <2> QED
    BY <1>1, <2>1
<1> QED
  BY <1>1, <1>2, <1>3, <1>4

\* What a request has read stays true while its ring only gets more.
LEMMA RequestsKept ==
  ASSUME IInv, UNCHANGED <<step, high, size, pc, command>>,
         dir \in Dirs, dir' = dir,
         SizeReg(dir) \in Nat, SizeReg(dir)' \in Nat, SizeReg(dir) <= SizeReg(dir)',
         Room(dir) \in Nat, Room(dir)' \in Nat, Room(dir) <= Room(dir)'
  PROVE  Requests'
<1> DEFINE x == SizeReg(dir)
           y == SizeReg(dir)'
<1>1. ByteMod \in Nat \ {0} /\ high \in Nat /\ size \in Nat
  BY W5100Assumption DEF IInv, TypeOK, W5100TypeOK
<1>2. x \div ByteMod <= y \div ByteMod /\ x \div ByteMod \in Int /\ y \div ByteMod \in Int
  <2>1. x \in Nat /\ y \in Nat /\ x <= y
    OBVIOUS
  <2>2. \A i, j \in Nat : i <= j => i \div ByteMod <= j \div ByteMod
    BY <1>1, Halves
  <2> HIDE DEF x, y
  <2> QED
    BY <1>1, <2>1, <2>2
<1>3. step = "low" => high <= y \div ByteMod
  BY <1>1, <1>2 DEF IInv, Requests
<1>4. step \in {"high", "low", "ready"} => command = "none" /\ size <= Room(dir)'
  BY <1>1 DEF IInv, Requests
<1> QED
  BY <1>3, <1>4 DEF IInv, Requests

LEMMA PrefixByBytes ==
  ASSUME NEW S, NEW s \in Seq(S), NEW t \in Seq(S), Len(s) <= Len(t),
         \A i \in 1 .. Len(s) : s[i] = t[i]
  PROVE  IsPrefix(s, t)
  BY DEF IsPrefix

LEMMA Asking ==
  ASSUME IInv, RequestStep
  PROVE  IInv'
<1>1. /\ pc \in {"send", "header", "file"}
      /\ Ask \/ ReadHigh(dir) \/ ReadLow(dir)
      /\ UNCHANGED <<chip, single, program, peer>>
  BY DEF RequestStep, Requesting
<1>2. /\ UNCHANGED <<single, status, command, mem, reg, own, far>>
      /\ UNCHANGED <<pc, pos, header, buffer, file, result>>
      /\ UNCHANGED <<request, reply, dropped, hurried>>
  BY <1>1 DEF chip, program, peer
<1>3. dir \in Dirs /\ dir' = dir
  BY <1>2 DEF dir, Dirs
<1>4. /\ Received' = Received
      /\ \A d \in Dirs : command' # d => reg[d] = own[d]
  BY <1>2 DEF IInv, Pointers, Received
<1>5. /\ Pointers' /\ TxSound' /\ RxSound' /\ Held' = Held
      /\ \A d \in Dirs : Room(d)' = Room(d) /\ SizeReg(d)' = SizeReg(d)
  BY <1>2, <1>4, Quiet
<1>6. /\ SizeReg(dir) \in 0 .. Ring /\ Room(dir) \in 0 .. Ring
      /\ command = "none" => SizeReg(dir) = Room(dir)
  <2>1. /\ SizeReg(dir) \in 0 .. Ring /\ Room(dir) \in 0 .. Ring
        /\ SizeReg(dir) = Room(dir) + Taken(dir)
        /\ command # dir => reg[dir] = own[dir]
    BY <1>3 DEF IInv, Pointers
  <2>2. reg[dir] \in Pointer
    BY <1>3, RegisterTypes DEF IInv, Registers
  <2>3. ASSUME command = "none" PROVE Taken(dir) = 0
    <3>1. reg[dir] = own[dir]
      BY <1>3, <2>1, <2>3 DEF Dirs
    <3>2. 0 \in 0 .. Ring
      BY W5100Assumption
    <3>3. \A a \in Pointer : (a - a) % PtrMod = 0
      BY <3>2, Ahead
    <3> QED
      BY <2>2, <3>1, <3>3 DEF Taken
  <2> QED
    BY <2>1, <2>3
<1>7. /\ high \in Nat /\ size \in 0 .. Ring
      /\ high \in 0 .. Ring \div ByteMod
      /\ Ring \in Nat /\ ByteMod \in Nat \ {0}
  BY W5100Assumption DEF IInv, TypeOK, W5100TypeOK
<1>8. /\ SizeReg(dir) \div ByteMod \in 0 .. Ring \div ByteMod
      /\ high <= SizeReg(dir) \div ByteMod =>
           high * ByteMod + (SizeReg(dir) % ByteMod) \in 0 .. SizeReg(dir)
  <2> DEFINE x == SizeReg(dir)
  <2>1. x \in Nat /\ x <= Ring
    BY <1>6, <1>7
  <2> HIDE DEF x
  <2>2. /\ x \div ByteMod \in Nat /\ x \div ByteMod <= Ring \div ByteMod
        /\ \A h \in Nat : h <= x \div ByteMod => h * ByteMod + (x % ByteMod) \in 0 .. x
    BY <1>7, <2>1, Halves
  <2>3. Ring \div ByteMod \in Int
    BY <1>7
  <2> QED
    BY <1>7, <2>2, <2>3 DEF x
<1>9. /\ step' \in {"high", "low", "ready", "zero"}
      /\ high' \in 0 .. Ring \div ByteMod /\ size' \in 0 .. Ring
      /\ Requests'
  <2>1. CASE Ask
    <3>1. step' \in {"high", "zero"} /\ size' = 0 /\ high' = high
      BY <2>1 DEF Ask
    <3>2. step' = "high" => command = "none"
      BY <2>1 DEF Ask
    <3> QED
      BY <1>1, <1>2, <1>3, <1>5, <1>6, <1>7, <3>1, <3>2 DEF Requests
  <2>2. CASE ReadHigh(dir)
    <3>1. /\ step = "high" /\ step' = "low" /\ size' = size
          /\ high' = SizeReg(dir) \div ByteMod
      BY <2>2 DEF ReadHigh
    <3>2. high' \in 0 .. Ring \div ByteMod /\ high' <= SizeReg(dir) \div ByteMod
      BY <1>7, <1>8, <3>1
    <3> QED
      BY <1>1, <1>2, <1>3, <1>5, <1>6, <1>7, <3>1, <3>2 DEF IInv, Requests
  <2>3. CASE ReadLow(dir)
    <3>1. /\ step = "low" /\ high' = high /\ step' \in {"high", "zero", "ready"}
          /\ size' = high * ByteMod + (SizeReg(dir) % ByteMod)
          /\ step' = "ready" => size' # 0
      BY <2>3 DEF ReadLow
    <3>2. high <= SizeReg(dir) \div ByteMod /\ command = "none"
      BY <3>1 DEF IInv, Requests
    <3>3. size' \in 0 .. SizeReg(dir) /\ SizeReg(dir) = Room(dir)
      BY <1>6, <1>8, <3>1, <3>2
    <3>4. size' <= Room(dir) /\ size' \in 0 .. Ring
      BY <1>6, <1>7, <3>3
    <3> QED
      BY <1>1, <1>2, <1>3, <1>5, <1>7, <3>1, <3>2, <3>4 DEF Requests
  <2> QED
    BY <1>1, <2>1, <2>2, <2>3
<1>10. TypeOK'
  BY <1>2, <1>9 DEF IInv, TypeOK, W5100TypeOK
<1>11. Commands' /\ Beginning' /\ Phases' /\ StreamsInOrder' /\ WholeFile'
  BY <1>2 DEF IInv, Commands, Beginning, Early, Phases, StreamsInOrder, WholeFile, Stream,
              EndOfHeader
<1>12. ClosedAtEnd'
  BY <1>2, <1>5 DEF IInv, ClosedAtEnd
<1> QED
  BY <1>5, <1>9, <1>10, <1>11, <1>12 DEF IInv

\* The request has returned 0, or a key is pressed.
LEMMA Idle ==
  ASSUME IInv, NothingYet \/ Lost \/ Stop \/ StopDisconnect \/ Disconnect \/ CreateFile
  PROVE  IInv'
<1>1. /\ UNCHANGED <<mem, reg, own, far, request, pos, reply>>
      /\ UNCHANGED <<single, header, buffer, dropped, hurried, status, high, size>>
      /\ step' \in {step, "ask"}
  BY DEF NothingYet, Lost, Stop, StopDisconnect, Disconnect, CreateFile, SetCommand, Goto,
         Exit, Fail, Again, peer, chip, asking, program
<1>2. \/ Received' = Received /\ (pc \in {"quit", "done"} => pc' \in {"quit", "done"})
      \/ pc' \in {"quit", "done"}
  <2>1. CASE NothingYet
    BY <2>1 DEF NothingYet, program, Received
  <2>2. CASE CreateFile
    <3>1. pc = "create" /\ header' = header /\ buffer' = buffer /\ buffer = <<>>
          /\ file = None /\ header \in Seq(Bytes)
      BY <2>2, Lengths DEF CreateFile, IInv, Phases
    <3>2. CASE file' = <<>>
      <4>1. (header \o <<>>) \o <<>> = header
        BY <3>1
      <4>2. <<>> # None
        BY WgetAssumption, <<>> \in Seq(Bytes)
      <4>3. file' # None
        BY <3>2, <4>2
      <4>4. Received' = (header' \o file') \o buffer'
        BY <4>3 DEF Received
      <4> QED
        BY <3>1, <3>2, <4>1, <4>4 DEF Received
    <3>3. CASE file' = file
      BY <3>1, <3>3 DEF Received
    <3> QED
      BY <2>2, <3>1, <3>2, <3>3 DEF CreateFile
  <2> QED
    BY <2>1, <2>2 DEF Lost, Stop, StopDisconnect, Disconnect, Exit, Fail
<1>3. \A d \in Dirs : command' # d => reg[d] = own[d]
  BY <1>1 DEF IInv, Pointers, Commands, NothingYet, Lost, Stop, StopDisconnect, Disconnect,
              CreateFile, SetCommand, Dirs, chip
<1>4. /\ Pointers' /\ TxSound' /\ RxSound' /\ Held' = Held
      /\ \A d \in Dirs : Room(d)' = Room(d) /\ SizeReg(d)' = SizeReg(d)
  BY <1>1, <1>2, <1>3, Quiet
<1>5. TypeOK'
  <2>1. W5100TypeOK'
    BY <1>1 DEF IInv, TypeOK, W5100TypeOK, NothingYet, Lost, Stop, StopDisconnect, Disconnect,
                CreateFile, SetCommand, chip
  <2>2. /\ pc' \in {"start", "open", "connect", "send", "header", "create", "file",
                   "quit", "done"}
        /\ result' \in {None, "refused", "lost", "stopped", "invalid", "status",
                       "error", "ok"}
    BY DEF IInv, TypeOK, NothingYet, Lost, Stop, StopDisconnect, Disconnect, CreateFile,
           Exit, Fail, program
  <2>3. file' = None \/ file' \in Seq(Bytes)
    BY <<>> \in Seq(Bytes) DEF IInv, TypeOK, NothingYet, Lost, Stop, StopDisconnect,
           Disconnect, CreateFile, Exit, Fail, program
  <2> QED
    BY <1>1, <2>1, <2>2, <2>3 DEF IInv, TypeOK
<1>6. Commands'
  BY <1>1 DEF IInv, Commands, NothingYet, Lost, Stop, StopDisconnect, Disconnect, CreateFile,
              SetCommand, Goto, Exit, Fail, Again, program, chip
<1>7. Beginning'
  BY <1>1, WgetAssumption DEF IInv, Beginning, Early, Commands, Phases, Stream, NothingYet,
              Lost, Stop, StopDisconnect, Disconnect, CreateFile, SetCommand, Goto, Exit, Fail,
              Again, program, chip
<1>8. Requests'
  BY <1>1 DEF IInv, Requests, NothingYet, Lost, Stop, StopDisconnect, Disconnect, CreateFile,
              SetCommand, Exit, Fail, Again, program, chip, asking
<1>9. <<>> # None
  BY WgetAssumption, <<>> \in Seq(Bytes)
<1>10. Phases'
  BY <1>1, <1>9, WgetAssumption DEF IInv, Phases, EndOfHeader, NothingYet, Lost, Stop,
              StopDisconnect, Disconnect, CreateFile, SetCommand, Exit, Fail, program, chip
<1>11. ClosedAtEnd'
  BY <1>1, <1>4 DEF IInv, ClosedAtEnd, NothingYet, Lost, Stop, StopDisconnect, Disconnect,
              CreateFile, Exit, Fail, program
<1>12. StreamsInOrder'
  <2>1. CASE file' = file
    BY <1>1, <2>1 DEF IInv, StreamsInOrder
  <2>2. CASE CreateFile /\ file' = <<>>
    <3>1. /\ pc = "create" /\ header = Header /\ buffer = <<>>
          /\ Header \in Seq(Bytes) /\ Body \in Seq(Bytes)
      BY <2>2, WgetAssumption DEF CreateFile, IInv, Phases
    <3>2. (Header \o <<>>) \o <<>> = Header
      BY <3>1
    <3>3. IsPrefix(Header, Header \o Body)
      BY <3>1 DEF IsPrefix
    <3> QED
      BY <1>1, <1>9, <2>2, <3>1, <3>2, <3>3 DEF IInv, StreamsInOrder
  <2> QED
    BY <2>1, <2>2 DEF NothingYet, Lost, Stop, StopDisconnect, Disconnect, CreateFile, Exit,
                      Fail, program
<1>13. WholeFile'
  BY <1>1, WgetAssumption DEF IInv, WholeFile, Phases, NothingYet, Lost, Stop, StopDisconnect,
              Disconnect, CreateFile, Exit, Fail, program
<1> QED
  BY <1>4, <1>5, <1>6, <1>7, <1>8, <1>10, <1>11, <1>12, <1>13 DEF IInv

\* The server closes, the connection breaks, the chip executes a command that
\* is not about data.
LEMMA Closing ==
  ASSUME IInv,
         \/ ServerClose
         \/ Drop
         \/ /\ ExecuteConnect \/ ExecuteDiscon
            /\ UNCHANGED <<single, asking, program, peer>>
  PROVE  IInv'
<1>1. /\ UNCHANGED <<mem, reg, own, far, request, pos, reply>>
      /\ UNCHANGED <<single, asking, pc, header, buffer, file, result>>
      /\ command' \in {command, "none"}
      /\ command' = "none" => command \notin Dirs
  BY DEF ServerClose, Drop, ExecuteConnect, ExecuteDiscon, Fin, Reset, peer, program, Dirs
<1>2. Received' = Received
  BY <1>1 DEF Received
<1>3. \A d \in Dirs : command' # d => reg[d] = own[d]
  BY <1>1 DEF IInv, Pointers, Dirs
<1>4. /\ Pointers' /\ TxSound' /\ RxSound' /\ Held' = Held
      /\ \A d \in Dirs : Room(d)' = Room(d) /\ SizeReg(d)' = SizeReg(d)
  BY <1>1, <1>2, <1>3, Quiet
<1>5. TypeOK'
  <2>1. W5100TypeOK'
    BY <1>1 DEF IInv, TypeOK, W5100TypeOK, ServerClose, Drop, ExecuteConnect, ExecuteDiscon,
                Fin, Reset, asking
  <2>2. {dropped', hurried'} \subseteq BOOLEAN
    BY DEF IInv, TypeOK, ServerClose, Drop, peer
  <2> QED
    BY <1>1, <2>1, <2>2 DEF IInv, TypeOK
<1>6. Commands'
  BY <1>1 DEF IInv, Commands, ServerClose, Drop, ExecuteConnect, ExecuteDiscon, Fin, Reset, Dirs
<1>7. Beginning'
  BY <1>1 DEF IInv, Beginning, Early, Stream, ServerClose, Drop, ExecuteConnect,
              ExecuteDiscon, Fin, Reset
<1>8. Requests'
  BY <1>1, <1>4 DEF IInv, Requests, asking, dir, Dirs, ServerClose, Drop, ExecuteConnect,
              ExecuteDiscon, Fin, Reset
<1>9. Phases'
  BY <1>1 DEF IInv, Phases, Beginning, Early, EndOfHeader, ServerClose, Drop, ExecuteConnect,
              ExecuteDiscon, Fin, Reset
<1>10. ClosedAtEnd'
  BY <1>1, <1>4 DEF IInv, ClosedAtEnd, Commands, ServerClose, Drop, ExecuteConnect,
              ExecuteDiscon, Fin, Reset, Held, peer
<1>11. StreamsInOrder'
  BY <1>1 DEF IInv, StreamsInOrder
<1>12. WholeFile'
  BY <1>1 DEF IInv, WholeFile, Phases, ServerClose, Drop, Fin, Reset, peer
<1> QED
  BY <1>4, <1>5, <1>6, <1>7, <1>8, <1>9, <1>10, <1>11, <1>12 DEF IInv

-----------------------------------------------------------------------------
(* The steps of the chip that are about data                               *)

LEMMA ExecutingOpen ==
  ASSUME IInv, ExecuteOpen, UNCHANGED <<single, asking, program, peer>>
  PROVE  IInv'
<1>1. /\ UNCHANGED <<single, mem, step, high, size, pc, pos, header, buffer, file, result>>
      /\ UNCHANGED <<request, reply, dropped, hurried>>
      /\ command = "open" /\ command' = "none" /\ status' = "init"
  BY DEF ExecuteOpen, asking, program, peer
<1>2. PICK p \in Starts, q \in Starts :
        reg' = [d \in Dirs |-> IF d = "rx" THEN p ELSE q] /\ own' = reg' /\ far' = reg'
  BY DEF ExecuteOpen
<1>3. p \in Pointer /\ q \in Pointer
  BY W5100Assumption DEF Pointer
<1>4. /\ reg' \in [Dirs -> Pointer] /\ own' = reg' /\ far' = reg'
      /\ "rx" \in Dirs /\ "tx" \in Dirs /\ Ring \in Nat /\ 0 \in 0 .. Ring
  BY <1>2, <1>3, W5100Assumption DEF Dirs
<1>5. \A a \in Pointer : (a - a) % PtrMod = 0
  BY <1>4, Ahead
<1>6. \A d \in Dirs : /\ Room(d)' = IF d = "rx" THEN 0 ELSE Ring
                      /\ SizeReg(d)' = Room(d)' /\ Taken(d)' = 0
  BY <1>4, <1>5 DEF Room, SizeReg, Taken, Dirs
<1>7. Pointers'
  BY <1>4, <1>6 DEF Pointers
<1>8. /\ pc \in {"open", "done"}
      /\ pos = 0 /\ request = <<>> /\ reply = Stream
      /\ header = <<>> /\ file = None /\ buffer = <<>>
  BY <1>1 DEF IInv, Commands, Beginning, Early, TypeOK
<1>9. Held' = 0 /\ Unsent' = 0
  BY <1>4, <1>6 DEF Held, Unsent
<1>10. TxSound'
  BY <1>1, <1>8, <1>9 DEF TxSound
<1>11. RxSound'
  <2>1. /\ Received' = <<>> /\ Stream' = Stream /\ reply' = Stream
        /\ Len(Stream) \in Nat /\ Len(<<>>) = 0
    BY <1>1, <1>8, Lengths DEF Received, Stream
  <2> QED
    BY <1>9, <2>1 DEF RxSound
<1>12. TypeOK'
  BY <1>1, <1>4 DEF IInv, TypeOK, W5100TypeOK, Pointer
<1>13. Commands' /\ Beginning' /\ Phases' /\ ClosedAtEnd' /\ StreamsInOrder' /\ WholeFile'
  BY <1>1, <1>8 DEF IInv, Commands, Beginning, Early, Phases, ClosedAtEnd, StreamsInOrder,
                    WholeFile, Stream, EndOfHeader
<1>14. Requests'
  BY <1>1, <1>8 DEF IInv, Requests
<1> QED
  BY <1>7, <1>10, <1>11, <1>12, <1>13, <1>14 DEF IInv

LEMMA ExecutingData ==
  ASSUME IInv, ExecuteData, UNCHANGED <<single, asking, program, peer>>
  PROVE  IInv'
<1>1. /\ UNCHANGED <<single, mem, step, high, size, pc, pos, header, buffer, file, result>>
      /\ UNCHANGED <<request, reply, dropped, hurried, status, reg, far>>
      /\ command \in Dirs /\ command' = "none"
      /\ own' = [own EXCEPT ![command] = reg[command]]
  BY DEF ExecuteData, asking, program, peer
<1>2. Pointers' /\ \A d \in Dirs : Room(d)' = Room(d)
  BY <1>1, PointersTold
<1>3. TxSound' /\ RxSound' /\ Held' = Held
  <2>1. Received' = Received
    BY <1>1 DEF Received
  <2> QED
    BY <1>1, <1>2, <2>1, TxStays, RxStays DEF Held, Dirs
<1>4. TypeOK'
  <2>1. own' \in [Dirs -> Pointer]
    BY <1>1, RegisterTypes DEF IInv, Registers
  <2> QED
    BY <1>1, <2>1 DEF IInv, TypeOK, W5100TypeOK, Pointer
<1>5. Commands' /\ Beginning' /\ Phases' /\ ClosedAtEnd' /\ StreamsInOrder' /\ WholeFile'
  BY <1>1, <1>3 DEF IInv, Commands, Beginning, Early, Phases, ClosedAtEnd, StreamsInOrder,
                    WholeFile, Stream, EndOfHeader, Dirs
<1>6. Requests'
  <2>1. step \notin {"high", "low", "ready"}
    BY <1>1 DEF IInv, Requests, Dirs
  <2> QED
    BY <1>1, <2>1 DEF IInv, Requests
<1> QED
  BY <1>2, <1>3, <1>4, <1>5, <1>6 DEF IInv

LEMMA Sending ==
  ASSUME IInv, Send
  PROVE  IInv'
<1>1. PICK n \in 1 .. Ring :
        /\ Transmit(n)
        /\ UNCHANGED <<single, asking, program, reply, dropped, hurried>>
  BY DEF Send
<1>2. /\ UNCHANGED <<single, mem, step, high, size, pc, pos, header, buffer, file, result>>
      /\ UNCHANGED <<reply, dropped, hurried, status, command, reg, own>>
      /\ status \in {"established", "close_wait"}
      /\ n \in 1 .. Ring - SizeReg("tx")
      /\ far' = [far EXCEPT !["tx"] = (@ + n) % PtrMod]
  BY <1>1 DEF Transmit, asking, program
<1>3. TxSound' /\ request' \in Seq(Bytes) /\ Pointers'
  BY SendSound
<1>4. /\ far' \in [Dirs -> Pointer]
      /\ SizeReg("tx")' = SizeReg("tx") + n /\ Room("tx")' = Room("tx") + n
      /\ Room("rx")' = Room("rx") /\ SizeReg("rx")' = SizeReg("rx")
  <2>1. "tx" \in Dirs /\ "rx" \in Dirs \ {"tx"}
    BY DEF Dirs
  <2> QED
    BY <1>2, <2>1, PointersFar
<1>5. RxSound' /\ Held' = Held
  <2>1. Received' = Received /\ far'["rx"] = far["rx"]
    BY <1>2, RegisterTypes DEF Received, IInv, Registers, Dirs
  <2> QED
    BY <1>2, <1>4, <2>1, RxStays DEF Held
<1>6. TypeOK'
  BY <1>2, <1>3, <1>4 DEF IInv, TypeOK, W5100TypeOK, Pointer
<1>7. Commands' /\ Phases' /\ ClosedAtEnd' /\ WholeFile'
  BY <1>2, <1>5 DEF IInv, Commands, Phases, ClosedAtEnd, WholeFile, EndOfHeader
<1>8. Beginning'
  <2> SUFFICES ASSUME Early' PROVE FALSE
    BY DEF Beginning
  <2>1. pos = 0 /\ request = <<>>
    BY <1>2 DEF IInv, Beginning, Early
  <2>2. Unsent = 0
    BY <2>1, Lengths DEF IInv, TxSound
  <2>3. /\ Room("tx") \in Int /\ SizeReg("tx") \in Int /\ Ring \in Int
        /\ SizeReg("tx") >= Room("tx")
    BY RegisterTypes DEF IInv, Pointers, Dirs, Pointer
  <2> QED
    BY <1>2, <2>2, <2>3 DEF Unsent
<1>9. Requests'
  <2>1. /\ SizeReg("tx") <= SizeReg("tx")' /\ Room("tx") <= Room("tx")'
        /\ SizeReg("tx") \in Nat /\ Room("tx") \in Nat
    BY <1>2, <1>4 DEF IInv, Pointers, Dirs
  <2>2. dir \in Dirs /\ dir' = dir
    BY <1>2 DEF dir, Dirs
  <2>3. /\ SizeReg(dir) <= SizeReg(dir)' /\ Room(dir) <= Room(dir)'
        /\ SizeReg(dir) \in Nat /\ Room(dir) \in Nat
        /\ SizeReg(dir)' \in Nat /\ Room(dir)' \in Nat
    BY <1>2, <1>3, <1>4, <2>1, <2>2 DEF IInv, Pointers, Dirs
  <2> QED
    BY <1>2, <2>2, <2>3, RequestsKept
<1>10. StreamsInOrder'
  <2>1. IsPrefix(request', Request)
    <3>1. \A i \in 1 .. Len(request') : request'[i] = Request[i]
      BY <1>3 DEF TxSound
    <3>2. Len(request') <= Len(Request)
      <4>1. Room("tx")' \in 0 .. Ring /\ Ring \in Nat
        BY <1>3, Lengths DEF Pointers, Dirs
      <4>2. Len(request') + Unsent' = pos /\ Unsent' = Ring - Room("tx")'
        BY <1>2, <1>3 DEF TxSound, Unsent
      <4>3. Len(request') \in Nat /\ pos \in Nat /\ pos <= Len(Request) /\ Len(Request) \in Nat
        BY <1>3, Lengths, WgetAssumption, SMTT(30)
      <4> QED
        BY <4>1, <4>2, <4>3
    <3> QED
      BY <1>3, <3>1, <3>2, PrefixByBytes, WgetAssumption
  <2> QED
    BY <1>2, <2>1 DEF IInv, StreamsInOrder
<1> QED
  BY <1>3, <1>5, <1>6, <1>7, <1>8, <1>9, <1>10 DEF IInv

LEMMA Delivering ==
  ASSUME IInv, Deliver
  PROVE  IInv'
<1>1. PICK n \in 1 .. AtMost(Ring, Len(reply)) :
        /\ request = Request
        /\ Arrive(SubSeq(reply, 1, n))
        /\ UNCHANGED <<single, asking, program, request, dropped, hurried>>
  BY DEF Deliver
<1>2. /\ UNCHANGED <<single, step, high, size, pc, pos, header, buffer, file, result>>
      /\ UNCHANGED <<request, dropped, hurried, status, command, reg, own>>
      /\ status = "established"
  BY <1>1 DEF Arrive, asking, program
<1>3. /\ RxSound' /\ TxSound' /\ Pointers' /\ reply' \in Seq(Bytes)
      /\ mem' \in [Dirs -> [0 .. Ring - 1 -> Bytes \cup {Junk}]]
      /\ far' \in [Dirs -> Pointer]
      /\ Room("rx") <= Room("rx")' /\ SizeReg("rx") <= SizeReg("rx")'
      /\ Room("tx")' = Room("tx") /\ SizeReg("tx")' = SizeReg("tx")
  BY DeliverSound
<1>4. TypeOK'
  BY <1>2, <1>3 DEF IInv, TypeOK, W5100TypeOK, Pointer
<1>5. Commands' /\ Phases' /\ ClosedAtEnd' /\ WholeFile' /\ StreamsInOrder'
  BY <1>2 DEF IInv, Commands, Phases, ClosedAtEnd, WholeFile, StreamsInOrder, EndOfHeader
<1>6. Beginning'
  BY <1>1, <1>2, WgetAssumption DEF IInv, Beginning, Early
<1>7. Requests'
  <2>1. dir \in Dirs /\ dir' = dir
    BY <1>2 DEF dir, Dirs
  <2>2. /\ SizeReg(dir) <= SizeReg(dir)' /\ Room(dir) <= Room(dir)'
        /\ SizeReg(dir) \in Nat /\ Room(dir) \in Nat
        /\ SizeReg(dir)' \in Nat /\ Room(dir)' \in Nat
    BY <1>2, <1>3, <2>1 DEF IInv, Pointers, Dirs
  <2> QED
    BY <1>2, <2>1, <2>2, RequestsKept
<1> QED
  BY <1>3, <1>4, <1>5, <1>6, <1>7 DEF IInv

-----------------------------------------------------------------------------
(* The steps of the program that move data                                 *)

LEMMA PuttingRequest ==
  ASSUME IInv, SendSome
  PROVE  IInv'
<1>1. /\ UNCHANGED <<single, status, own, far, high, size, header, buffer, file, result>>
      /\ UNCHANGED <<request, reply, dropped, hurried>>
      /\ pc = "send" /\ step' = "ask" /\ pc' \in {"send", "header"} /\ command' = "tx"
  BY DEF SendSome, Again, Commit, peer
<1>2. /\ TxSound' /\ RxSound' /\ Pointers'
      /\ mem' \in [Dirs -> [0 .. Ring - 1 -> Bytes \cup {Junk}]]
      /\ reg' \in [Dirs -> Pointer]
      /\ pos' \in 0 .. Len(Request) /\ Held' = Held
  BY PutSound DEF Held
<1>3. TypeOK'
  BY <1>1, <1>2 DEF IInv, TypeOK, W5100TypeOK, Pointer, Dirs
<1>4. Commands' /\ StreamsInOrder' /\ WholeFile' /\ Requests'
  BY <1>1 DEF IInv, Commands, StreamsInOrder, WholeFile, Requests
<1>5. ~Early /\ step = "ready"
  BY <1>1, Granting DEF IInv, Commands, Early, SendSome
<1>6. Beginning' /\ ClosedAtEnd'
  BY <1>1, <1>2, <1>5 DEF IInv, Beginning, Early, ClosedAtEnd
<1>7. Phases'
  <2>1. header = <<>> /\ header' = <<>>
    BY <1>1 DEF IInv, Phases
  <2> QED
    BY <1>1, <2>1 DEF IInv, Phases
<1> QED
  BY <1>2, <1>3, <1>4, <1>6, <1>7 DEF IInv

\* A set of natural numbers has a least one.
LEMMA LeastNumber ==
  ASSUME NEW S \in SUBSET Nat, S # {}
  PROVE  \E m \in S : \A k \in S : m <= k
<1> DEFINE U == {1..n : n \in S}
<1> DEFINE R == StrictSubsetOrdering(Nat)
<1>1. IsWellFoundedOn(R, FiniteSubsetsOf(Nat))
  BY FS_StrictSubsetOrderingWellFounded
<1>2. U \subseteq FiniteSubsetsOf(Nat) /\ U # {}
  <2>1. \A n \in S : IsFiniteSet(1..n) /\ 1..n \subseteq Nat
    BY FS_Interval
  <2> QED BY <2>1 DEF FiniteSubsetsOf
<1>3. PICK x \in U : \A y \in U : <<y, x>> \notin R
  <2> HIDE DEF U, R
  <2> QED BY <1>1, <1>2, WFMin
<1>4. PICK m \in S : x = 1..m
  OBVIOUS
<1>5. ASSUME NEW k \in S, k < m PROVE FALSE
  <2>1. 1..k \subseteq 1..m /\ m \in 1..m /\ m \notin 1..k
    BY <1>5
  <2>2. 1..k \in U /\ 1..m \subseteq Nat /\ 1..k # 1..m
    BY <2>1
  <2>3. <<1..k, x>> \in R
    BY <2>1, <2>2, <1>4 DEF StrictSubsetOrdering
  <2> QED BY <2>2, <2>3, <1>3
<1> QED BY <1>5

\* A byte ends what is read of the header if it is the first that can.
LEMMA HeaderEnds ==
  ASSUME NEW s \in Seq(Bytes)
  PROVE  /\ Ends(s) = {} => HeaderPart(s) = Len(s)
                            /\ \A i \in 1 .. Len(s) : s[i] # EndOfHeader
         /\ Ends(s) # {} => /\ HeaderPart(s) \in 1 .. Len(s)
                            /\ s[HeaderPart(s)] = EndOfHeader
                            /\ \A i \in 1 .. HeaderPart(s) - 1 : s[i] # EndOfHeader
<1>1. ASSUME Ends(s) = {}
      PROVE  HeaderPart(s) = Len(s) /\ \A i \in 1 .. Len(s) : s[i] # EndOfHeader
  BY <1>1 DEF HeaderPart, Ends
<1>2. ASSUME Ends(s) # {}
      PROVE  /\ HeaderPart(s) \in 1 .. Len(s)
             /\ s[HeaderPart(s)] = EndOfHeader
             /\ \A i \in 1 .. HeaderPart(s) - 1 : s[i] # EndOfHeader
  <2>1. Ends(s) \in SUBSET Nat
    BY DEF Ends
  <2>2. \E i \in Ends(s) : \A j \in Ends(s) : i <= j
    BY <1>2, <2>1, LeastNumber
  <2>3. HeaderPart(s) = CHOOSE i \in Ends(s) : \A j \in Ends(s) : i <= j
    BY <1>2 DEF HeaderPart
  <2>4. HeaderPart(s) \in Ends(s) /\ \A j \in Ends(s) : HeaderPart(s) <= j
    BY <2>2, <2>3
  <2>5. HeaderPart(s) \in 1 .. Len(s) /\ s[HeaderPart(s)] = EndOfHeader
    BY <2>4 DEF Ends
  <2>6. ASSUME NEW i \in 1 .. HeaderPart(s) - 1 PROVE s[i] # EndOfHeader
    <3>1. i \in 1 .. Len(s) /\ ~(HeaderPart(s) <= i)
      BY <2>5
    <3>2. i \notin Ends(s)
      BY <2>4, <3>1
    <3> QED
      BY <3>1, <3>2 DEF Ends
  <2> QED
    BY <2>5, <2>6
<1> QED
  BY <1>1, <1>2

\* The part of the response up to the first byte that ends a header is Header.
LEMMA HeaderIsFirst ==
  ASSUME NEW s \in Seq(Bytes), Len(s) <= Len(Stream),
         \A i \in 1 .. Len(s) : s[i] = Stream[i],
         \A i \in 1 .. Len(s) - 1 : s[i] # EndOfHeader
  PROVE  /\ Len(s) <= Len(Header)
         /\ \A i \in 1 .. Len(s) : s[i] = Header[i]
         /\ s # <<>> /\ s[Len(s)] = EndOfHeader => s = Header
<1>1. /\ Header \in Seq(Bytes) /\ Body \in Seq(Bytes) /\ Len(Header) \in Nat \ {0}
      /\ \A i \in 1 .. Len(Header) - 1 : Header[i] # EndOfHeader
      /\ Stream \in Seq(Bytes) /\ Len(Stream) = Len(Header) + Len(Body)
      /\ \A i \in 1 .. Len(Header) : Stream[i] = Header[i]
  BY WgetAssumption DEF Stream, EndOfHeader
<1>2. Len(s) <= Len(Header)
  <2> SUFFICES ASSUME Len(s) > Len(Header) PROVE FALSE
    BY <1>1
  <2>1. Len(Header) \in 1 .. Len(s) - 1 /\ Len(Header) \in 1 .. Len(s)
        /\ Len(Header) \in 1 .. Len(Header)
    BY <1>1
  <2>2. s[Len(Header)] = Stream[Len(Header)] /\ Stream[Len(Header)] = Header[Len(Header)]
    BY <1>1, <2>1
  <2>3. s[Len(Header)] # EndOfHeader
    BY <2>1
  <2> QED
    BY <2>2, <2>3 DEF EndOfHeader
<1>3. \A i \in 1 .. Len(s) : s[i] = Header[i]
  <2>1. \A i \in 1 .. Len(s) : i \in 1 .. Len(Header)
    BY <1>1, <1>2
  <2> QED
    BY <1>1, <2>1
<1>4. ASSUME s # <<>>, s[Len(s)] = EndOfHeader PROVE s = Header
  <2>1. Len(s) \in 1 .. Len(s) /\ Header[Len(s)] = EndOfHeader
    BY <1>3, <1>4
  <2>2. Len(s) = Len(Header)
    BY <1>1, <1>2, <2>1
  <2> QED
    BY <1>1, <1>3, <2>2
<1> QED
  BY <1>2, <1>3, <1>4

LEMMA TakingHeader ==
  ASSUME IInv, ReceiveHeader
  PROVE  IInv'
<1> DEFINE m == AtMost(Granted("rx"), BufLen - Len(header))
           s == DataRead(m)
           n == HeaderPart(s)
           t == SubSeq(s, 1, n)
<1>1. /\ pc = "header" /\ step = "ready"
      /\ Commit("rx", n) /\ header' = header \o t
      /\ UNCHANGED <<single, mem, pos, buffer, file, high, size>>
      /\ UNCHANGED <<request, reply, dropped, hurried>>
      /\ step' = "ask"
  BY DEF ReceiveHeader, Again, peer
<1>2. \/ pc' = "quit" /\ result' \in {"invalid", "status"}
      \/ pc' = "header" /\ result' = result /\ Ends(s) = {}
      \/ pc' = "create" /\ result' = result /\ Ends(s) # {}
  BY <1>1 DEF ReceiveHeader, Fail
<1>3. /\ dir = "rx" /\ Granted("rx") \in 1 .. Held /\ Held \in 0 .. Ring
      /\ Ring \in Nat \ {0} /\ command = "none" /\ reg["rx"] = own["rx"]
      /\ header \in Seq(Bytes) /\ Len(header) <= BufLen /\ BufLen \in Nat
  BY <1>1, Granting, Lengths, WgetAssumption DEF dir, Held, IInv, TypeOK
<1>4. m \in 0 .. Granted("rx") /\ m <= BufLen - Len(header)
  BY <1>3 DEF AtMost
<1> HIDE DEF m
<1>5. /\ s \in Seq(Bytes) /\ Len(s) = m
      /\ \A i \in 1 .. m : s[i] = Stream[Len(Received) + i]
      /\ m <= Held
  BY <1>1, <1>4, Reading
<1> HIDE DEF s
<1>6. /\ Ends(s) = {} => n = Len(s) /\ \A i \in 1 .. Len(s) : s[i] # EndOfHeader
      /\ Ends(s) # {} => /\ n \in 1 .. Len(s) /\ s[n] = EndOfHeader
                         /\ \A i \in 1 .. n - 1 : s[i] # EndOfHeader
  BY <1>5, HeaderEnds
<1>7. n \in 0 .. m /\ n \in 0 .. Ring /\ n <= Held
  BY <1>3, <1>4, <1>5, <1>6
<1> HIDE DEF n
<1>8. t \in Seq(Bytes) /\ Len(t) = n /\ \A i \in 1 .. n : t[i] = s[i]
  BY <1>5, <1>7
<1> HIDE DEF t
<1>9. /\ file = None /\ buffer = <<>> /\ Received = header /\ Received' = header'
      /\ \A i \in 1 .. Len(header) : header[i] # EndOfHeader
      /\ \A i \in 1 .. Len(header) : header[i] = Stream[i]
      /\ Len(header) + Held + Len(reply) = Len(Stream)
  BY <1>1 DEF IInv, Phases, RxSound, Received
<1>10. /\ header' \in Seq(Bytes) /\ Len(header') = Len(header) + n
       /\ \A i \in 1 .. Len(header) : header'[i] = header[i]
       /\ \A i \in Len(header) + 1 .. Len(header) + n : header'[i] = s[i - Len(header)]
  <2>1. \A x, y \in Seq(Bytes) :
          /\ x \o y \in Seq(Bytes) /\ Len(x \o y) = Len(x) + Len(y)
          /\ \A i \in 1 .. Len(x) : (x \o y)[i] = x[i]
          /\ \A i \in Len(x) + 1 .. Len(x) + Len(y) : (x \o y)[i] = y[i - Len(x)]
    BY Joined
  <2>2. \A i \in Len(header) + 1 .. Len(header) + n : i - Len(header) \in 1 .. n
    BY <1>3, <1>7
  <2>3. /\ header' = header \o t /\ header \in Seq(Bytes) /\ t \in Seq(Bytes)
        /\ Len(t) = n /\ \A i \in 1 .. n : t[i] = s[i]
    BY <1>1, <1>3, <1>8
  <2>4. header' \in Seq(Bytes) /\ Len(header') = Len(header) + n
    BY <2>1, <2>3
  <2>5. \A i \in 1 .. Len(header) : header'[i] = header[i]
    BY <2>1, <2>3
  <2>6. \A i \in Len(header) + 1 .. Len(header) + n : header'[i] = t[i - Len(header)]
    BY <2>1, <2>3
  <2> QED
    BY <2>2, <2>3, <2>4, <2>5, <2>6
<1>11. \A i \in 1 .. Len(header') : header'[i] = Stream[i]
  <2> SUFFICES ASSUME NEW i \in 1 .. Len(header') PROVE header'[i] = Stream[i]
    OBVIOUS
  <2>1. CASE i <= Len(header)
    BY <1>3, <1>9, <1>10, <2>1
  <2>2. CASE i > Len(header)
    <3>1. /\ i \in Len(header) + 1 .. Len(header) + n
          /\ i - Len(header) \in 1 .. m
          /\ Len(header) + (i - Len(header)) = i
      <4>1. /\ Len(header) \in Nat /\ n \in 0 .. m /\ m \in Nat
            /\ i \in 1 .. Len(header) + n
        BY <1>3, <1>4, <1>7, <1>10
      <4> HIDE DEF n
      <4> QED
        BY <2>2, <4>1
    <3>2. header'[i] = s[i - Len(header)]
      BY <1>10, <3>1
    <3>3. s[i - Len(header)] = Stream[Len(header) + (i - Len(header))]
      BY <1>5, <1>9, <3>1
    <3> QED
      BY <3>1, <3>2, <3>3
  <2> QED
    BY <1>3, <1>10, <2>1, <2>2
<1>12. \A i \in 1 .. Len(header') - 1 : header'[i] # EndOfHeader
  <2> SUFFICES ASSUME NEW i \in 1 .. Len(header') - 1 PROVE header'[i] # EndOfHeader
    OBVIOUS
  <2>1. CASE i <= Len(header)
    BY <1>3, <1>9, <1>10, <2>1
  <2>2. CASE i > Len(header)
    <3>1. /\ i \in Len(header) + 1 .. Len(header) + n
          /\ i - Len(header) \in 1 .. n - 1
      <4>1. Len(header) \in Nat /\ n \in Nat /\ i \in 1 .. (Len(header) + n) - 1
        BY <1>3, <1>7, <1>10
      <4> HIDE DEF n
      <4> QED
        BY <2>2, <4>1
    <3>2. header'[i] = s[i - Len(header)]
      BY <1>10, <3>1
    <3>3. s[i - Len(header)] # EndOfHeader
      <4>1. i - Len(header) \in 1 .. Len(s)
        BY <1>5, <1>7, <3>1
      <4> QED
        BY <1>6, <3>1, <4>1
    <3> QED
      BY <3>2, <3>3
  <2> QED
    BY <1>3, <1>10, <2>1, <2>2
<1>13. /\ Pointers'
       /\ reg'["rx"] = (reg["rx"] + n) % PtrMod
       /\ Held' = Held - n
       /\ Room("tx")' = Room("tx")
       /\ reg' \in [Dirs -> Pointer]
  <2>1. "rx" \in Dirs /\ "tx" \in Dirs \ {"rx"} /\ n <= Room("rx")
    BY <1>7 DEF Dirs, Held
  <2> QED
    BY <1>1, <1>3, <1>7, <2>1, PointersCommit DEF Held
<1>14. RxSound'
  BY <1>1, <1>7, <1>9, <1>10, <1>11, <1>13, TakeSound
<1>15. TxSound'
  <2>1. reg'["tx"] = reg["tx"] /\ far' = far
    BY <1>1, RegisterTypes DEF Commit, IInv, Registers, Dirs
  <2> QED
    BY <1>1, <2>1, TxStays
<1>16. /\ Len(header') <= Len(Stream) /\ Len(header') <= BufLen
  <2>1. Len(header') = Len(header) + n
    BY <1>10
  <2>2. /\ Len(header) \in Nat /\ n \in Nat /\ m \in Nat /\ Held \in Nat
        /\ Len(reply) \in Nat /\ BufLen \in Nat /\ n <= Held
        /\ n <= BufLen - Len(header)
    BY <1>3, <1>4, <1>7, Lengths, SMTT(30)
  <2>3. Len(header) + n <= BufLen /\ Len(header) + n <= Len(header) + Held + Len(reply)
    BY <2>2
  <2> QED
    BY <1>9, <2>1, <2>3
<1>17. /\ Len(header') <= Len(Header)
       /\ \A i \in 1 .. Len(header') : header'[i] = Header[i]
       /\ header' # <<>> /\ header'[Len(header')] = EndOfHeader => header' = Header
  BY <1>10, <1>11, <1>12, <1>16, HeaderIsFirst
<1>18. TypeOK'
  BY <1>1, <1>2, <1>10, <1>13, <1>16, SMTT(30) DEF IInv, TypeOK, W5100TypeOK, Pointer, Commit, Dirs
<1>19. Commands' /\ Requests' /\ WholeFile'
  BY <1>1, <1>2, WgetAssumption DEF IInv, Commands, Requests, WholeFile, Commit, Phases
<1>20. Beginning'
  <2>1. ~Early'
    BY <1>1, <1>2 DEF IInv, Commands, Early, Commit
  <2> QED
    BY <2>1 DEF Beginning
<1>21. Phases'
  <2>1. CASE pc' = "quit"
    BY <1>1, <1>2, <2>1 DEF IInv, Phases
  <2>2. CASE pc' = "header" /\ Ends(s) = {}
    <3>1. ASSUME NEW i \in 1 .. Len(header') PROVE header'[i] # EndOfHeader
      <4>1. CASE i <= Len(header)
        BY <1>3, <1>9, <1>10, <4>1
      <4>2. CASE i > Len(header)
        <5>1. /\ i \in Len(header) + 1 .. Len(header) + n
              /\ i - Len(header) \in 1 .. Len(s)
          BY <1>3, <1>5, <1>7, <1>10, <4>2
        <5> QED
          BY <1>6, <1>10, <2>2, <5>1
      <4> QED
        BY <1>3, <1>10, <4>1, <4>2
    <3> QED
      BY <1>1, <1>2, <2>2, <3>1, WgetAssumption DEF IInv, Phases, EndOfHeader
  <2>3. CASE pc' = "create" /\ Ends(s) # {}
    <3>1. n \in 1 .. Len(s) /\ s[n] = EndOfHeader
      BY <1>6, <2>3
    <3>2. /\ Len(header') \in Len(header) + 1 .. Len(header) + n
          /\ Len(header') - Len(header) = n /\ Len(header') # 0
      BY <1>3, <1>10, <3>1
    <3>3. header'[Len(header')] = EndOfHeader
      BY <1>10, <3>1, <3>2
    <3>4. header' = Header
      BY <1>10, <1>17, <3>2, <3>3
    <3> QED
      BY <1>1, <1>2, <2>3, <3>4, WgetAssumption DEF IInv, Phases
  <2> QED
    BY <1>2, <2>1, <2>2, <2>3
<1>22. ClosedAtEnd'
  <2>1. status' = status /\ Held' <= Held /\ Held # 0
    BY <1>1, <1>3, <1>7, <1>13 DEF Commit
  <2> QED
    BY <1>1, <2>1 DEF IInv, ClosedAtEnd
<1>23. StreamsInOrder'
  <2>1. IsPrefix(header', Header)
    BY <1>10, <1>17, PrefixByBytes, WgetAssumption
  <2> QED
    BY <1>1, <1>9, <2>1 DEF IInv, StreamsInOrder
<1> QED
  BY <1>13, <1>14, <1>15, <1>18, <1>19, <1>20, <1>21, <1>22, <1>23 DEF IInv

LEMMA TakingFile ==
  ASSUME IInv, ReceiveFile
  PROVE  IInv'
<1> DEFINE m == AtMost(Granted("rx"), BufLen - Len(buffer))
           s == DataRead(m)
           b == buffer \o s
<1>1. /\ pc = "file" /\ step = "ready"
      /\ Commit("rx", Len(s))
      /\ \/ Len(b) < BufLen /\ buffer' = b /\ UNCHANGED <<pc, file, result>>
         \/ ~(Len(b) < BufLen) /\ Write(b, "file", result)
      /\ UNCHANGED <<single, mem, pos, header, high, size>>
      /\ UNCHANGED <<request, reply, dropped, hurried>>
      /\ step' = "ask"
  BY DEF ReceiveFile, Again, peer
<1>2. /\ dir = "rx" /\ Granted("rx") \in 1 .. Held /\ Held \in 0 .. Ring
      /\ Ring \in Nat \ {0} /\ command = "none" /\ reg["rx"] = own["rx"]
      /\ header \in Seq(Bytes) /\ buffer \in Seq(Bytes)
      /\ Len(buffer) <= BufLen /\ BufLen \in Nat
      /\ file # None /\ file \in Seq(Bytes)
      /\ header = Header /\ result = None
  BY <1>1, Granting, Lengths, WgetAssumption DEF dir, Held, IInv, TypeOK, Phases
<1>3. m \in 0 .. Granted("rx") /\ m <= BufLen - Len(buffer)
  BY <1>2 DEF AtMost
<1> HIDE DEF m
<1>4. /\ s \in Seq(Bytes) /\ Len(s) = m
      /\ \A i \in 1 .. m : s[i] = Stream[Len(Received) + i]
      /\ m <= Held /\ m \in 0 .. Ring
  BY <1>1, <1>3, Reading
<1> HIDE DEF s
<1> DEFINE r == ((header \o file) \o buffer) \o s
<1>5. /\ Received = (header \o file) \o buffer /\ Received \in Seq(Bytes)
      /\ Len(Received) + Held + Len(reply) = Len(Stream)
      /\ \A i \in 1 .. Len(Received) : Received[i] = Stream[i]
  BY <1>1, <1>2, Lengths DEF IInv, RxSound, Received
<1>6. /\ b \in Seq(Bytes) /\ Len(b) = Len(buffer) + m /\ Len(b) <= BufLen
      /\ file \o b \in Seq(Bytes)
      /\ (header \o file) \o b = r /\ (header \o (file \o b)) \o <<>> = r
  <2> HIDE DEF b, r
  <2>1. /\ (header \o file) \o (buffer \o s) = ((header \o file) \o buffer) \o s
        /\ (header \o (file \o (buffer \o s))) \o <<>> = ((header \o file) \o buffer) \o s
        /\ buffer \o s \in Seq(Bytes) /\ Len(buffer \o s) = Len(buffer) + Len(s)
        /\ file \o (buffer \o s) \in Seq(Bytes)
    <3>1. /\ header \in Seq(Bytes) /\ file \in Seq(Bytes) /\ buffer \in Seq(Bytes)
          /\ s \in Seq(Bytes)
      BY <1>2, <1>4
    <3>2. (header \o file) \o (buffer \o s) = ((header \o file) \o buffer) \o s
      BY <3>1
    <3>3. header \o (file \o (buffer \o s)) = ((header \o file) \o buffer) \o s
      BY <3>1
    <3>4. /\ buffer \o s \in Seq(Bytes) /\ Len(buffer \o s) = Len(buffer) + Len(s)
          /\ file \o (buffer \o s) \in Seq(Bytes)
      BY <3>1
    <3>5. header \o (file \o (buffer \o s)) \in Seq(Bytes)
      BY <3>1
    <3>6. \A x \in Seq(Bytes) : x \o <<>> = x
      OBVIOUS
    <3> QED
      BY <3>2, <3>3, <3>4, <3>5, <3>6
  <2>2. Len(buffer) + m <= BufLen
    BY <1>2, <1>3
  <2> QED
    BY <1>2, <1>4, <2>1, <2>2 DEF b, r
<1>7. /\ r \in Seq(Bytes) /\ Len(r) = Len(Received) + m
      /\ \A i \in 1 .. Len(Received) : r[i] = Received[i]
      /\ \A i \in Len(Received) + 1 .. Len(Received) + m : r[i] = s[i - Len(Received)]
  <2>1. \A x, y \in Seq(Bytes) :
          /\ x \o y \in Seq(Bytes) /\ Len(x \o y) = Len(x) + Len(y)
          /\ \A i \in 1 .. Len(x) : (x \o y)[i] = x[i]
          /\ \A i \in Len(x) + 1 .. Len(x) + Len(y) : (x \o y)[i] = y[i - Len(x)]
    BY Joined
  <2>2. r = Received \o s
    BY <1>5
  <2> HIDE DEF r
  <2> QED
    BY <1>4, <1>5, <2>1, <2>2, ZenonT(40)
<1> HIDE DEF b, r
<1>8. \A i \in 1 .. Len(r) : r[i] = Stream[i]
  <2> SUFFICES ASSUME NEW i \in 1 .. Len(r) PROVE r[i] = Stream[i]
    OBVIOUS
  <2>1. /\ Len(Received) \in Nat /\ m \in Nat /\ i \in 1 .. Len(Received) + m
    BY <1>4, <1>5, <1>7
  <2>2. CASE i <= Len(Received)
    BY <1>5, <1>7, <2>1, <2>2
  <2>3. CASE i > Len(Received)
    <3>1. /\ i \in Len(Received) + 1 .. Len(Received) + m
          /\ i - Len(Received) \in 1 .. m
          /\ Len(Received) + (i - Len(Received)) = i
      BY <2>1, <2>3
    <3>2. s[i - Len(Received)] = Stream[Len(Received) + (i - Len(Received))]
      BY <1>4, <3>1
    <3> QED
      BY <1>7, <3>1, <3>2
  <2> QED
    BY <2>1, <2>2, <2>3
<1>9. /\ pc' \in {"file", "quit"}
      /\ buffer' \in Seq(Bytes) /\ Len(buffer') <= BufLen
      /\ file' \in Seq(Bytes)
      /\ result' \in {None, "error"}
      /\ pc' = "file" => result' = None /\ (header \o file') \o buffer' = r
      /\ pc' = "quit" => UNCHANGED <<file, buffer>>
  <2>1. CASE Len(b) < BufLen /\ buffer' = b /\ UNCHANGED <<pc, file, result>>
    BY <1>1, <1>2, <1>6, <2>1
  <2>2. CASE file' = file \o b /\ buffer' = <<>> /\ pc' = "file" /\ result' = result
    BY <1>2, <1>6, <2>2
  <2>3. CASE pc' = "quit" /\ result' = "error" /\ UNCHANGED <<file, buffer>>
    BY <1>2, <2>3
  <2> QED
    BY <1>1, <2>1, <2>2, <2>3 DEF Write, Fail
<1>10. file' # None
  BY <1>9, WgetAssumption
<1>11. /\ Pointers'
       /\ reg'["rx"] = (reg["rx"] + m) % PtrMod
       /\ Held' = Held - m
       /\ reg' \in [Dirs -> Pointer]
  <2>1. "rx" \in Dirs /\ m <= Room("rx")
    BY <1>4 DEF Dirs, Held
  <2> QED
    BY <1>1, <1>2, <1>4, <2>1, PointersCommit DEF Held
<1>12. RxSound'
  <2>1. CASE pc' = "quit"
    BY <2>1 DEF RxSound
  <2>2. CASE pc' = "file"
    <3>1. Received' = r
      BY <1>1, <1>9, <1>10, <2>2 DEF Received
    <3> QED
      BY <1>1, <1>4, <1>7, <1>8, <1>11, <3>1, TakeSound
  <2> QED
    BY <1>9, <2>1, <2>2
<1>13. TxSound'
  <2>1. reg'["tx"] = reg["tx"] /\ far' = far
    BY <1>1, RegisterTypes DEF Commit, IInv, Registers, Dirs
  <2> QED
    BY <1>1, <2>1, TxStays
<1>14. TypeOK'
  BY <1>1, <1>9, <1>11 DEF IInv, TypeOK, W5100TypeOK, Pointer, Commit, Dirs
<1>15. Commands' /\ Requests' /\ WholeFile' /\ Phases'
  BY <1>1, <1>2, <1>9, <1>10, WgetAssumption DEF IInv, Commands, Requests, WholeFile, Commit,
     Phases
<1>16. Beginning'
  <2>1. ~Early'
    BY <1>1, <1>9 DEF IInv, Commands, Early, Commit
  <2> QED
    BY <2>1 DEF Beginning
<1>17. ClosedAtEnd'
  <2>1. status' = status /\ Held # 0
    BY <1>1, <1>2 DEF Commit
  <2> QED
    BY <1>1, <2>1 DEF IInv, ClosedAtEnd
<1>18. StreamsInOrder'
  <2>1. CASE pc' = "quit"
    BY <1>1, <1>9, <2>1 DEF IInv, StreamsInOrder
  <2>2. CASE pc' = "file"
    <3>1. Len(r) <= Len(Stream)
      <4>1. /\ Len(Received) \in Nat /\ Held \in Nat /\ Len(reply) \in Nat
            /\ m \in Nat /\ m <= Held
        BY <1>4, Lengths
      <4>2. Len(Received) + m <= Len(Received) + Held + Len(reply)
        BY <4>1
      <4> QED
        BY <1>5, <1>7, <4>2
    <3>2. IsPrefix(r, Stream)
      BY <1>7, <1>8, <3>1, PrefixByBytes, Lengths
    <3> QED
      BY <1>1, <1>9, <1>10, <2>2, <3>2 DEF IInv, StreamsInOrder, Stream
  <2> QED
    BY <1>9, <2>1, <2>2
<1> QED
  BY <1>11, <1>12, <1>13, <1>14, <1>15, <1>16, <1>17, <1>18 DEF IInv

\* The connection is closed: the rest of the buffer is written.
LEMMA EndingFile ==
  ASSUME IInv, EndOfFile
  PROVE  IInv'
<1>1. /\ pc = "file" /\ step = "zero" /\ status # "established"
      /\ Commit("rx", 0)
      /\ UNCHANGED <<single, mem, pos, header, high, size>>
      /\ UNCHANGED <<request, reply, dropped, hurried, status>>
      /\ step' = "ask"
      /\ pc' = "quit"
      /\ \/ file' = file \o buffer /\ buffer' = <<>> /\ result' \in {"ok", "error"}
         \/ UNCHANGED <<file, buffer>> /\ result' = "error"
  BY DEF EndOfFile, Again, peer, Write, Fail, Commit, connected
<1>2. /\ header \in Seq(Bytes) /\ buffer \in Seq(Bytes)
      /\ Len(buffer) <= BufLen /\ BufLen \in Nat
      /\ file # None /\ file \in Seq(Bytes) /\ header = Header
      /\ Body \in Seq(Bytes) /\ command \in {"none", "rx"}
  BY <1>1, Lengths, WgetAssumption DEF IInv, TypeOK, Phases, Commands
<1>3. /\ Pointers' /\ reg' \in [Dirs -> Pointer]
  <2>1. "rx" \in Dirs /\ 0 <= Room("rx") /\ 0 \in 0 .. Ring
    BY Lengths DEF Dirs, Held
  <2> QED
    BY <1>1, <1>2, <2>1, PointersCommit
<1>4. RxSound'
  BY <1>1 DEF RxSound
<1>5. TxSound'
  <2>1. reg'["tx"] = reg["tx"] /\ far' = far
    BY <1>1, RegisterTypes DEF Commit, IInv, Registers, Dirs
  <2> QED
    BY <1>1, <2>1, TxStays
<1>6. file' \in Seq(Bytes) /\ file' # None /\ buffer' \in Seq(Bytes) /\ Len(buffer') <= BufLen
  <2>1. file \o buffer \in Seq(Bytes) /\ <<>> \in Seq(Bytes) /\ Len(<<>>) = 0
    BY <1>2
  <2>2. file' \in Seq(Bytes)
    <3>1. file' = file \o buffer \/ file' = file
      BY <1>1
    <3> QED
      BY <1>2, <2>1, <3>1, Zenon
  <2>3. buffer' \in Seq(Bytes) /\ Len(buffer') <= BufLen
    <3>1. buffer' = <<>> \/ buffer' = buffer
      BY <1>1
    <3>2. <<>> \in Seq(Bytes) /\ Len(<<>>) <= BufLen
      BY <1>2
    <3> QED
      BY <1>2, <3>1, <3>2
  <2> QED
    BY <2>2, <2>3, WgetAssumption
<1>7. TypeOK'
  BY <1>1, <1>3, <1>6 DEF IInv, TypeOK, W5100TypeOK, Pointer, Commit, Dirs
<1>8. Commands' /\ Requests' /\ ClosedAtEnd' /\ Phases'
  BY <1>1, <1>6, WgetAssumption DEF IInv, Commands, Requests, Commit, Phases, ClosedAtEnd
<1>9. Beginning'
  <2>1. ~Early'
    BY <1>1 DEF IInv, Commands, Early, Commit
  <2> QED
    BY <2>1 DEF Beginning
<1>10. StreamsInOrder'
  <2>1. (header \o (file \o buffer)) \o <<>> = (header \o file) \o buffer
    BY <1>2
  <2> QED
    BY <1>1, <1>2, <1>6, <2>1 DEF IInv, StreamsInOrder
<1>11. WholeFile'
  <2> SUFFICES ASSUME result' = "ok", ~dropped, ~hurried PROVE file' = Body
    BY <1>1 DEF WholeFile
  <2>1. reply = <<>> /\ Held = 0
    BY <1>1 DEF IInv, ClosedAtEnd
  <2>2. /\ Len(Received) + Held + Len(reply) = Len(Stream)
        /\ \A i \in 1 .. Len(Received) : Received[i] = Stream[i]
    BY <1>1 DEF IInv, RxSound
  <2>3. Received = Stream
    <3>1. Received \in Seq(Bytes) /\ Stream \in Seq(Bytes) /\ Len(<<>>) = 0
      BY Lengths
    <3>2. Len(Received) = Len(Stream)
      BY <2>1, <2>2, <3>1
    <3> QED
      BY <2>2, <3>1, <3>2
  <2>4. (header \o file) \o buffer = header \o (file \o buffer)
    BY <1>2
  <2>5. header \o (file \o buffer) = header \o Body
    BY <1>2, <2>3, <2>4 DEF Stream, Received
  <2>6. \A x, y, z \in Seq(Bytes) : x \o y = x \o z => y = z
    <3> SUFFICES ASSUME NEW x \in Seq(Bytes), NEW y \in Seq(Bytes), NEW z \in Seq(Bytes),
                        x \o y = x \o z
                 PROVE  y = z
      OBVIOUS
    <3>1. Len(y) = Len(z)
      <4>1. Len(x \o y) = Len(x) + Len(y) /\ Len(x \o z) = Len(x) + Len(z)
        OBVIOUS
      <4> QED
        BY <4>1
    <3>2. \A i \in 1 .. Len(y) : y[i] = z[i]
      <4>1. \A i \in 1 .. Len(y) : (x \o y)[Len(x) + i] = y[i]
        BY Joined
      <4>2. \A i \in 1 .. Len(z) : (x \o z)[Len(x) + i] = z[i]
        BY Joined
      <4> QED
        BY <3>1, <4>1, <4>2
    <3> QED
      BY <3>1, <3>2
  <2>7. file \o buffer = Body
    BY <1>2, <2>5, <2>6, file \o buffer \in Seq(Bytes)
  <2> QED
    BY <1>1, <2>7
<1> QED
  BY <1>3, <1>4, <1>5, <1>7, <1>8, <1>9, <1>10, <1>11 DEF IInv

-----------------------------------------------------------------------------
(* The theorems                                                            *)

LEMMA Initially ==
  ASSUME Init
  PROVE  IInv
<1>1. /\ Header \in Seq(Bytes) /\ Body \in Seq(Bytes) /\ Request \in Seq(Bytes)
      /\ Ring \in Nat \ {0} /\ PtrMod \in Nat \ {0} /\ ByteMod \in Nat \ {0}
      /\ BufLen \in Nat /\ Builds \subseteq BOOLEAN /\ 0 \in 0 .. Ring /\ 0 \in Pointer
  BY WgetAssumption, W5100Assumption DEF Pointer
<1>2. /\ single \in Builds /\ status = "closed" /\ command = "none"
      /\ mem = [d \in Dirs |-> [i \in 0 .. Ring - 1 |-> Junk]]
      /\ reg = [d \in Dirs |-> 0] /\ own = reg /\ far = reg
      /\ step = "ask" /\ high = 0 /\ size = 0
      /\ pc = "start" /\ pos = 0 /\ header = <<>> /\ buffer = <<>>
      /\ file = None /\ result = None /\ request = <<>> /\ reply = Header \o Body
      /\ dropped = FALSE /\ hurried = FALSE
  BY DEF Init, W5100Init
<1>3. (0 - 0) % PtrMod = 0
  BY <1>1, Ahead
<1>4. \A d \in Dirs : /\ Room(d) = IF d = "rx" THEN 0 ELSE Ring
                      /\ SizeReg(d) = Room(d) /\ Taken(d) = 0
  BY <1>1, <1>2, <1>3 DEF Room, SizeReg, Taken, Dirs
<1>5. Held = 0 /\ Unsent = 0
  BY <1>1, <1>4 DEF Held, Unsent, Dirs
<1>6. /\ <<>> \in Seq(Bytes) /\ Len(<<>>) = 0 /\ Header \o Body \in Seq(Bytes)
      /\ \A s \in Seq(Bytes) : IsPrefix(<<>>, s)
  BY <1>1 DEF IsPrefix
<1>7. TypeOK
  <2>1. Ring \div ByteMod >= 0 /\ Ring \div ByteMod \in Int
    <3>1. \A x, y \in Nat : x <= y => x \div ByteMod \in Nat
      BY <1>1, Halves
    <3> QED
      BY <1>1, <3>1
  <2>2. {reg, own, far} \subseteq [Dirs -> 0 .. PtrMod - 1]
    BY <1>1, <1>2 DEF Pointer
  <2>3. mem \in [Dirs -> [0 .. Ring - 1 -> Bytes \cup {Junk}]]
    BY <1>2
  <2>4. W5100TypeOK
    BY <1>1, <1>2, <2>1, <2>2, <2>3 DEF W5100TypeOK, Dirs
  <2>5. /\ pos \in 0 .. Len(Request)
        /\ header \in Seq(Bytes) /\ Len(header) <= BufLen
        /\ buffer \in Seq(Bytes) /\ Len(buffer) <= BufLen
    BY <1>1, <1>2, <1>6
  <2>6. /\ request \in Seq(Bytes) /\ reply \in Seq(Bytes)
        /\ {dropped, hurried} \subseteq BOOLEAN
    BY <1>2, <1>6
  <2> QED
    BY <1>2, <2>4, <2>5, <2>6 DEF TypeOK
<1>8. Pointers
  <2>1. \A d \in Dirs : reg[d] = own[d]
    BY <1>2
  <2> QED
    BY <1>1, <1>4, <2>1 DEF Pointers
<1>9. Commands /\ Beginning /\ Requests /\ ClosedAtEnd /\ WholeFile
  BY <1>2, WgetAssumption DEF Commands, Beginning, Early, Requests, ClosedAtEnd, WholeFile,
                              Stream
<1>10. Phases
  BY <1>2, <1>6, WgetAssumption DEF Phases
<1>11. TxSound
  BY <1>2, <1>5, <1>6 DEF TxSound
<1>12. RxSound
  <2>1. Received = <<>> /\ reply = Stream /\ Len(Stream) \in Nat
    BY <1>1, <1>2 DEF Received, Stream
  <2> QED
    BY <1>5, <1>6, <2>1 DEF RxSound
<1>13. StreamsInOrder
  BY <1>1, <1>2, <1>6 DEF StreamsInOrder
<1> QED
  BY <1>7, <1>8, <1>9, <1>10, <1>11, <1>12, <1>13 DEF IInv

LEMMA Stuttering ==
  ASSUME IInv, UNCHANGED vars
  PROVE  IInv'
<1>1. /\ UNCHANGED <<single, status, command, mem, reg, own, far>>
      /\ UNCHANGED <<step, high, size, pc, pos, header, buffer, file, result>>
      /\ UNCHANGED <<request, reply, dropped, hurried>>
  BY DEF vars, chip, asking, program, peer
<1>2. Received' = Received /\ \A d \in Dirs : command' # d => reg[d] = own[d]
  BY <1>1 DEF Received, IInv, Pointers
<1>3. /\ Pointers' /\ TxSound' /\ RxSound' /\ Held' = Held
      /\ \A d \in Dirs : Room(d)' = Room(d) /\ SizeReg(d)' = SizeReg(d)
  BY <1>1, <1>2, Quiet
<1>4. TypeOK'
  BY <1>1 DEF IInv, TypeOK, W5100TypeOK
<1>5. Commands' /\ Beginning' /\ Phases' /\ StreamsInOrder' /\ WholeFile' /\ ClosedAtEnd'
  BY <1>1, <1>3 DEF IInv, Commands, Beginning, Early, Phases, StreamsInOrder, WholeFile,
                    Stream, EndOfHeader, ClosedAtEnd
<1>6. Requests'
  <2>1. dir' = dir /\ dir \in Dirs
    BY <1>1 DEF dir, Dirs
  <2> QED
    BY <1>1, <1>3, <2>1 DEF IInv, Requests
<1> QED
  BY <1>3, <1>4, <1>5, <1>6 DEF IInv

\* The invariant holds of every state.
THEOREM Invariance == Spec => []IInv
<1>1. Init => IInv
  BY Initially
<1>2. IInv /\ [Next]_vars => IInv'
  <2> SUFFICES ASSUME IInv, [Next]_vars PROVE IInv'
    OBVIOUS
  <2>1. CASE Program
    BY <2>1, Opening, Asking, Idle, PuttingRequest, TakingHeader, TakingFile, EndingFile
       DEF Program
  <2>2. CASE Stop \/ StopConnect \/ StopDisconnect
    BY <2>2, Opening, Idle
  <2>3. CASE ChipStep
    BY <2>3, ExecutingOpen, ExecutingData, Closing DEF ChipStep, Execute
  <2>4. CASE Send
    BY <2>4, Sending
  <2>5. CASE Deliver
    BY <2>5, Delivering
  <2>6. CASE ServerClose \/ Drop
    BY <2>6, Closing
  <2>7. CASE UNCHANGED vars
    BY <2>7, Stuttering
  <2> QED
    BY <2>1, <2>2, <2>3, <2>4, <2>5, <2>6, <2>7 DEF Next
<1> QED
  BY <1>1, <1>2, PTL DEF Spec

\* Every variable of the program, the driver and the chip has its type.
THEOREM TypeCorrect == Spec => []TypeOK
<1>1. IInv => TypeOK
  BY DEF IInv
<1> QED
  BY <1>1, Invariance, PTL

\* What a request grants is there when the program uses it, although its size
\* was read in two halves while the chip went on (w5100.c:272-321).
THEOREM GrantsHold == Spec => []GrantHolds
<1>1. IInv => GrantHolds
  BY Granting DEF GrantHolds
<1> QED
  BY <1>1, Invariance, PTL

\* The server gets the request, the program the response, byte for byte and in
\* order, whatever the sizes of ring, pointers and buffer are.
THEOREM NoByteLost == Spec => []StreamsInOrder
<1>1. IInv => StreamsInOrder
  BY DEF IInv
<1> QED
  BY <1>1, Invariance, PTL

\* A file reported as Ok is all that the server had to send, if the server
\* waited with closing until it was read.
THEOREM OkIsWhole == Spec => []WholeFile
<1>1. IInv => WholeFile
  BY DEF IInv
<1> QED
  BY <1>1, Invariance, PTL
=============================================================================
