------------------------------- MODULE Wget65 -------------------------------
(***************************************************************************)
(* WGET65 (apps/wget65.c, apps/w5100_http.c): one file is fetched over the *)
(* driver of W5100.  The request is sent, the header is received, and then *)
(* whatever follows is written to the file until the connection is closed. *)
(*                                                                         *)
(* The server answers a whole request with Header and Body, in segments of *)
(* any size that fits, and closes: "early" when everything is on its way,  *)
(* otherwise when everything has been read.                                *)
(***************************************************************************)
EXTENDS W5100

CONSTANTS
  None,        \* no file, no result yet
  Request, Header, Body, \* sequences of Bytes
  BufLen,      \* 0x1000, sizeof(buffer) in wget65.c
  PointerSize, \* 2, sizeof(buffer) in w5100_http.c, where it is a char *
  Faults       \* "early", connection "drop", "stop" (abort key), disk "full"

ASSUME WgetAssumption ==
  /\ {Request, Header, Body} \subseteq Seq(Bytes)
  /\ Request # <<>> /\ Header # <<>>
  /\ \A i \in 1 .. Len(Header) - 1 : Header[i] # Header[Len(Header)]
  /\ None \notin Seq(Bytes) /\ None # "ok"
  /\ BufLen \in Nat \ {0} /\ PointerSize \in Nat
  /\ Faults \subseteq {"early", "drop", "stop", "full"}

VARIABLES
  pc,
  pos,     \* bytes of the request that were sent
  header,  \* the response up to the body, in buffer
  buffer,  \* len bytes of the body, not yet written
  file,    \* the file, or None before it is opened
  result,  \* what the program says at the end
  request, \* what the server has received
  reply,   \* what the server has not yet sent
  dropped, \* the connection was lost
  hurried  \* the server closed when not everything had been read

program == <<pc, pos, header, buffer, file, result>>
peer == <<request, reply, dropped, hurried>>
vars == <<single, chip, asking, program, peer>>

AtMost(m, n) == IF m < n THEN m ELSE n
dir == IF pc = "send" THEN "tx" ELSE "rx"

-----------------------------------------------------------------------------
(* Server and network                                                      *)

Deliver == \E n \in 1 .. AtMost(Ring, Len(reply)) :
  /\ request = Request
  /\ Arrive(SubSeq(reply, 1, n))
  /\ reply' = SubSeq(reply, n + 1, Len(reply))
  /\ UNCHANGED <<single, asking, program, request, dropped, hurried>>

Send == \E n \in 1 .. Ring :
  /\ Transmit(n)
  /\ request' = request \o Leaving(n)
  /\ UNCHANGED <<single, asking, program, reply, dropped, hurried>>

ServerClose ==
  /\ request = Request /\ reply = <<>>
  /\ hurried' = (Room("rx") # 0 \/ command # "none")
  /\ hurried' => "early" \in Faults
  /\ Fin
  /\ UNCHANGED <<single, asking, program, request, reply, dropped>>

Drop ==
  /\ "drop" \in Faults
  /\ Reset
  /\ dropped' = TRUE
  /\ UNCHANGED <<single, asking, program, request, reply, hurried>>

ChipStep == Execute /\ UNCHANGED <<single, asking, program, peer>>

-----------------------------------------------------------------------------
(* w5100_connect                                                           *)

Exit(r) == pc' = "done" /\ result' = r /\ UNCHANGED <<pos, header, buffer, file>>
Goto(p) == pc' = p /\ UNCHANGED <<pos, header, buffer, file, result>>
\* An error after which the program disconnects
Fail(r) == pc' = "quit" /\ result' = r

Open ==
  /\ pc = "start"
  /\ SetCommand("open") /\ Goto("open")
  /\ UNCHANGED <<single, asking, peer>>

Connect ==
  /\ pc = "open" /\ status = "init"
  /\ SetCommand("connect") /\ Goto("connect")
  /\ UNCHANGED <<single, asking, peer>>

Connected ==
  /\ pc = "connect"
  /\ \/ status = "established" /\ Goto("send")
     \/ status = "closed" /\ Exit("refused")
  /\ UNCHANGED <<single, chip, asking, peer>>

\* The abort key, which every loop looks at
StopConnect ==
  /\ "stop" \in Faults
  /\ pc \in {"open", "connect"}
  /\ Exit("refused")
  /\ UNCHANGED <<single, chip, asking, peer>>

Stop ==
  /\ "stop" \in Faults
  /\ pc \in {"send", "header", "file"} /\ step = "ask"
  /\ Fail("stopped")
  /\ UNCHANGED <<single, chip, asking, pos, header, buffer, file, peer>>

\* In w5100_disconnect the key ends the wait for the last command.
StopDisconnect ==
  /\ "stop" \in Faults
  /\ pc = "quit" /\ command # "none"
  /\ Exit(result)
  /\ UNCHANGED <<single, chip, asking, peer>>

-----------------------------------------------------------------------------
(* The three loops                                                         *)

RequestStep ==
  /\ pc \in {"send", "header", "file"}
  /\ Requesting(dir)
  /\ UNCHANGED <<single, program, peer>>

Again == step' = "ask" /\ UNCHANGED <<high, size>>

\* The request has returned 0.
NothingYet ==
  /\ pc \in {"send", "header", "file"} /\ step = "zero"
  /\ connected
  /\ Again
  /\ UNCHANGED <<single, chip, program, peer>>

Lost_Again ==
  /\ pc \in {"send", "header"} /\ step = "zero"
  /\ ~connected
  /\ Again
  /\ UNCHANGED <<single, chip, program, peer>>
Lost ==
  /\ pc \in {"send", "header"} /\ step = "zero"
  /\ ~connected
  /\ Exit("lost") /\ Again
  /\ UNCHANGED <<single, chip, peer>>

SendSome ==
  /\ pc = "send" /\ step = "ready"
  /\ LET n == AtMost(Granted("tx"), Len(Request) - pos)
     IN  /\ mem' = [mem EXCEPT !["tx"] = Written(SubSeq(Request, pos + 1, pos + n))]
         /\ Commit("tx", n)
         /\ pos' = pos + n
         /\ pc' = IF pos' = Len(Request) THEN "header" ELSE "send"
  /\ Again
  /\ UNCHANGED <<single, header, buffer, file, result, peer>>

\* The header ends with the byte that ends Header ("\r\n\r\n" in the code,
\* looked for across the passes).  Then the status decides.
EndOfHeader == Header[Len(Header)]
Ends(s) == {i \in 1 .. Len(s) : s[i] = EndOfHeader}
\* Plausible bug: the bytes after the header are taken with it.
HeaderPart_All(s) == Len(s)
HeaderPart(s) ==
  IF Ends(s) = {} THEN Len(s) ELSE CHOOSE i \in Ends(s) : \A j \in Ends(s) : i <= j

ReceiveHeader ==
  /\ pc = "header" /\ step = "ready"
  /\ LET s == DataRead(AtMost(Granted("rx"), BufLen - Len(header)))
         n == HeaderPart(s)
     IN  /\ Commit("rx", n)
         /\ header' = header \o SubSeq(s, 1, n)
         /\ \/ Len(header') = PointerSize /\ Fail("invalid")
            \/ /\ Len(header') # PointerSize
               /\ IF Ends(s) = {} THEN UNCHANGED <<pc, result>>
                  ELSE \/ Fail("status")
                       \/ pc' = "create" /\ UNCHANGED result
  /\ Again
  /\ UNCHANGED <<single, mem, pos, buffer, file, peer>>

-----------------------------------------------------------------------------
(* write_file                                                              *)

CreateFile ==
  /\ pc = "create"
  /\ \/ file' = <<>> /\ pc' = "file" /\ UNCHANGED result
     \/ "full" \in Faults /\ Fail("error") /\ UNCHANGED file
  /\ UNCHANGED <<single, chip, asking, pos, header, buffer, peer>>

\* write() of b; p is where the program goes on.
Write(b, p, r) ==
  \/ file' = file \o b /\ buffer' = <<>> /\ pc' = p /\ result' = r
  \/ "full" \in Faults /\ Fail("error") /\ UNCHANGED <<file, buffer>>

ReceiveFile ==
  /\ pc = "file" /\ step = "ready"
  /\ LET s == DataRead(AtMost(Granted("rx"), BufLen - Len(buffer)))
     IN  /\ Commit("rx", Len(s))
         /\ IF Len(buffer \o s) < BufLen
              THEN buffer' = buffer \o s /\ UNCHANGED <<pc, file, result>>
              ELSE Write(buffer \o s, "file", result)
  /\ Again
  /\ UNCHANGED <<single, mem, pos, header, peer>>

\* Plausible bug: what is left in the buffer is not written.
EndOfFile_NoWrite ==
  /\ pc = "file" /\ step = "zero"
  /\ ~connected
  /\ Commit("rx", 0)
  /\ Write(<<>>, "quit", "ok")
  /\ Again
  /\ UNCHANGED <<single, mem, pos, header, peer>>
EndOfFile ==
  /\ pc = "file" /\ step = "zero"
  /\ ~connected
  /\ Commit("rx", 0)
  /\ \/ Write(buffer, "quit", "ok")
     \/ "full" \in Faults /\ Write(buffer, "quit", "error") \* close() fails
  /\ Again
  /\ UNCHANGED <<single, mem, pos, header, peer>>

\* w5100_disconnect waits for the last command.
Disconnect ==
  /\ pc = "quit" /\ command = "none"
  /\ SetCommand("discon") /\ Exit(result)
  /\ UNCHANGED <<single, asking, peer>>

-----------------------------------------------------------------------------
Init ==
  /\ W5100Init
  /\ pc = "start" /\ pos = 0 /\ header = <<>> /\ buffer = <<>>
  /\ file = None /\ result = None
  /\ request = <<>> /\ reply = Header \o Body
  /\ dropped = FALSE /\ hurried = FALSE

Program ==
  \/ Open \/ Connect \/ Connected \/ RequestStep \/ NothingYet \/ Lost
  \/ SendSome \/ ReceiveHeader \/ CreateFile \/ ReceiveFile \/ EndOfFile
  \/ Disconnect

Next == \/ Program \/ Stop \/ StopConnect \/ StopDisconnect
        \/ ChipStep \/ Send \/ Deliver \/ ServerClose \/ Drop

Spec == Init /\ [][Next]_vars

\* The chip executes commands and sends what it is given, the server answers
\* and in the end closes.  Nothing is assumed of faults and of the user.
FairSpec ==
  /\ Spec
  /\ WF_vars(Program) /\ WF_vars(ChipStep) /\ WF_vars(Send)
  /\ WF_vars(Deliver) /\ WF_vars(ServerClose)

-----------------------------------------------------------------------------
TypeOK ==
  /\ W5100TypeOK
  /\ pc \in {"start", "open", "connect", "send", "header", "create", "file",
             "quit", "done"}
  /\ pos \in 0 .. Len(Request)
  /\ header \in Seq(Bytes) /\ Len(header) <= BufLen
  /\ buffer \in Seq(Bytes) /\ Len(buffer) <= BufLen
  /\ file = None \/ file \in Seq(Bytes)
  /\ result \in {None, "refused", "lost", "stopped", "invalid", "status",
                 "error", "ok"}
  /\ request \in Seq(Bytes) /\ reply \in Seq(Bytes)
  /\ {dropped, hurried} \subseteq BOOLEAN

(* What a request grants is really there when the program uses it: bytes   *)
(* that have arrived and were not taken yet, room not taken by bytes still *)
(* to be sent; although the size is read in two halves while the chip      *)
(* works, and after a command it may not have executed (w5100.c:272-321).  *)
GrantHolds ==
  step = "ready" => Granted(dir) \in 1 .. Room(dir)

(* Both directions are streams: across the ends of the rings, of the       *)
(* pointers and of the buffers no byte is lost, repeated or changed        *)
(* (w5100.c:297-345, w5100_http.c:52-139, wget65.c:261-305).               *)
StreamsInOrder ==
  /\ IsPrefix(request, Request)
  /\ file # None => IsPrefix(header \o file \o buffer, Header \o Body)
  /\ file = None => IsPrefix(header, Header)

(* A file the program reports as Ok is the whole body, if the connection   *)
(* was not lost and stayed open until everything was read                  *)
(* (wget65.c:261-308).                                                     *)
WholeFile ==
  result = "ok" /\ ~dropped /\ ~hurried => file = Body

(* A file reported as Ok is what the server sent, even if the server does  *)
(* not wait: a receive request that returns 0 and a connection that is     *)
(* closed by then mean that nothing is left (wget65.c:265-272).  They do   *)
(* not, so this fails with "early".                                        *)
OkMeansWhole ==
  result = "ok" /\ ~dropped => file = Body

(* "Invalid response" means that the buffer is full without a body         *)
(* (w5100_http.c:141).  It does not: the size compared with is that of a   *)
(* pointer.                                                                *)
InvalidMeansFull ==
  result = "invalid" => Len(header) = BufLen

(* Every fetch ends (w5100.c:195-213, 258, w5100_http.c:52, 98,            *)
(* wget65.c:261).                                                          *)
FetchEnds == <>(pc = "done")
=============================================================================
