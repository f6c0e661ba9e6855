------------------------------- MODULE W5100 -------------------------------
(***************************************************************************)
(* The TCP driver of the network programs (apps/w5100.c) and the socket of *)
(* the W5100 chip it drives.                                               *)
(*                                                                         *)
(* The chip runs by itself.  Program and chip share two rings of bytes: in *)
(* "rx" the chip puts what arrives, in "tx" the program puts what is to be *)
(* sent.  Each of them advances its own end of a ring and looks at the     *)
(* other's, through registers that are read a byte at a time; a pointer    *)
(* the program has written counts for the chip only when it executes the   *)
(* command that follows.  Programs extend this module.                     *)
(***************************************************************************)
EXTENDS Integers, Sequences, SequencesExt

CONSTANTS
  Bytes,    \* the bytes sent and received
  Junk,     \* a byte outside of the rings, or of an earlier connection
  Ring,     \* 0x400 to 0x2000, the bytes in each ring
  PtrMod,   \* 2^16, the values of a pointer register
  ByteMod,  \* 2^8, the values of a byte of a register
  Starts,   \* where the pointers of a new connection may start
  Builds    \* the values of SINGLE_SOCKET

Dirs == {"rx", "tx"}

ASSUME W5100Assumption ==
  /\ Junk \notin Bytes
  /\ {Ring, PtrMod, ByteMod} \subseteq Nat \ {0}
  /\ PtrMod % Ring = 0 /\ PtrMod > Ring
  /\ Starts \subseteq 0 .. PtrMod - 1
  /\ Builds \subseteq BOOLEAN

VARIABLES
  single,   \* compiled with SINGLE_SOCKET
  \* The chip
  status,   \* Socket Status Register
  command,  \* Socket Command Register: the command not yet executed, or "none"
  mem,      \* mem[d]: the bytes of ring d
  reg,      \* reg[d]: RX Read Pointer, TX Write Pointer Register
  own,      \* own[d]: that pointer when the chip last executed RECV or SEND
  far,      \* far[d]: the chip's end of the ring
  \* w5100_data_request
  step,     \* where it is: "ask", "high", "low", "ready" (n > 0), "zero"
  high,     \* the first byte of the size just being read
  size      \* the last size read

chip == <<status, command, mem, reg, own, far>>
asking == <<step, high, size>>

\* RX Received Size, TX Free Size Register
SizeReg(d) == IF d = "rx" THEN (far[d] - own[d]) % PtrMod
                          ELSE Ring - ((own[d] - far[d]) % PtrMod)
\* What the program may in fact take or put at its pointer
Room(d) == IF d = "rx" THEN (far[d] - reg[d]) % PtrMod
                       ELSE Ring - ((reg[d] - far[d]) % PtrMod)

-----------------------------------------------------------------------------
(* The chip                                                                *)

\* A reset of the pointers gives the same position to the three of them.
ExecuteOpen ==
  /\ command = "open"
  /\ status' = "init"
  /\ \E p, q \in Starts :
       LET at == [d \in Dirs |-> IF d = "rx" THEN p ELSE q]
       IN  reg' = at /\ own' = at /\ far' = at
  /\ command' = "none"
  /\ UNCHANGED mem

ExecuteConnect ==
  /\ command = "connect"
  /\ status' \in {"established", "closed"}
  /\ command' = "none"
  /\ UNCHANGED <<mem, reg, own, far>>

\* RECV and SEND carry the name of their ring.
ExecuteData ==
  /\ command \in Dirs
  /\ own' = [own EXCEPT ![command] = reg[command]]
  /\ command' = "none"
  /\ UNCHANGED <<status, mem, reg, far>>

ExecuteDiscon ==
  /\ command = "discon"
  /\ status' = "closed"
  /\ command' = "none"
  /\ UNCHANGED <<mem, reg, own, far>>

Execute == ExecuteOpen \/ ExecuteConnect \/ ExecuteData \/ ExecuteDiscon

\* The next segment of s arrives.
Arrive(s) ==
  /\ status = "established"
  /\ Len(s) \in 1 .. Ring - SizeReg("rx")
  /\ mem' = [mem EXCEPT !["rx"] = [i \in 0 .. Ring - 1 |->
               LET k == (i - far["rx"]) % Ring
               IN  IF k < Len(s) THEN s[k + 1] ELSE @[i]]]
  /\ far' = [far EXCEPT !["rx"] = (@ + Len(s)) % PtrMod]
  /\ UNCHANGED <<status, command, reg, own>>

\* n bytes leave; Leaving(n) are these bytes.
Leaving(n) == [i \in 1 .. n |-> mem["tx"][(far["tx"] + i - 1) % Ring]]
Transmit(n) ==
  /\ status \in {"established", "close_wait"}
  /\ n \in 1 .. Ring - SizeReg("tx")
  /\ far' = [far EXCEPT !["tx"] = (@ + n) % PtrMod]
  /\ UNCHANGED <<status, command, mem, reg, own>>

\* The peer has closed its side; the connection is lost.
Fin ==
  /\ status = "established"
  /\ status' = "close_wait"
  /\ UNCHANGED <<command, mem, reg, own, far>>
Reset ==
  /\ status \in {"established", "close_wait"}
  /\ status' = "closed"
  /\ UNCHANGED <<command, mem, reg, own, far>>

-----------------------------------------------------------------------------
(* The driver                                                              *)

SetCommand(c) == command' = c /\ UNCHANGED <<status, mem, reg, own, far>>

connected == status = "established"

\* Plausible bug: ask for the size while the last command is pending.
Ask_Pending ==
  /\ step = "ask"
  /\ step' = "high"
  /\ size' = 0
  /\ UNCHANGED high

\* w5100_data_request, one step per register it reads.  The size is read
\* again until two reads agree, the first one with 0.
Ask ==
  /\ step = "ask"
  /\ step' = IF command = "none" THEN "high" ELSE "zero"
  /\ size' = 0
  /\ UNCHANGED high

ReadHigh(d) ==
  /\ step = "high"
  /\ high' = SizeReg(d) \div ByteMod
  /\ step' = "low"
  /\ UNCHANGED size

ReadLow(d) ==
  /\ step = "low"
  /\ size' = high * ByteMod + (SizeReg(d) % ByteMod)
  /\ step' = IF size' # size THEN "high"
             ELSE IF size' = 0 THEN "zero" ELSE "ready"
  /\ UNCHANGED high

Requesting(d) == (Ask \/ ReadHigh(d) \/ ReadLow(d)) /\ UNCHANGED chip

\* What the request returns: with more than one socket the bytes up to the
\* end of the ring in memory, with one the address wraps with the ring.
Granted_NoLimit(d) == size
Granted(d) == IF single \/ size <= Ring - (reg[d] % Ring)
                THEN size
                ELSE Ring - (reg[d] % Ring)

\* Reading and writing *w5100_data from the address the request has set.
Cell(d, i) == IF single THEN (reg[d] + i) % Ring ELSE (reg[d] % Ring) + i
DataRead(n) == [i \in 1 .. n |->
  LET c == Cell("rx", i - 1) IN IF c < Ring THEN mem["rx"][c] ELSE Junk]
Written(s) == [i \in 0 .. Ring - 1 |->
  IF \E k \in 1 .. Len(s) : Cell("tx", k - 1) = i
    THEN s[CHOOSE k \in 1 .. Len(s) : Cell("tx", k - 1) = i]
    ELSE mem["tx"][i]]

\* w5100_data_commit: the pointer, then the command; nothing is waited for.
Commit(d, n) ==
  /\ reg' = [reg EXCEPT ![d] = (@ + n) % PtrMod]
  /\ command' = d
  /\ UNCHANGED <<status, own, far>>

-----------------------------------------------------------------------------
W5100Init ==
  /\ single \in Builds
  /\ status = "closed" /\ command = "none"
  /\ mem = [d \in Dirs |-> [i \in 0 .. Ring - 1 |-> Junk]]
  /\ reg = [d \in Dirs |-> 0] /\ own = reg /\ far = reg
  /\ step = "ask" /\ high = 0 /\ size = 0

W5100TypeOK ==
  /\ single \in BOOLEAN
  /\ status \in {"closed", "init", "established", "close_wait"}
  /\ command \in {"none", "open", "connect", "discon"} \cup Dirs
  /\ mem \in [Dirs -> [0 .. Ring - 1 -> Bytes \cup {Junk}]]
  /\ {reg, own, far} \subseteq [Dirs -> 0 .. PtrMod - 1]
  /\ step \in {"ask", "high", "low", "ready", "zero"}
  /\ high \in 0 .. Ring \div ByteMod
  /\ size \in 0 .. Ring
=============================================================================
