----------------------------- MODULE Delivery -----------------------------
(***************************************************************************)
(* What fetching mail promises: messages arrive at a server, a run of the  *)
(* client appends what the server holds to the inbox in one piece, and the *)
(* server gives up a message only when the inbox has it.  A run may append *)
(* a damaged copy, and it may append a message again, but then the server  *)
(* still holds it.                                                         *)
(***************************************************************************)
EXTENDS Integers, SequencesExt

CONSTANTS
  Mails,   \* messages
  Damaged  \* an inbox entry that is not a whole message

VARIABLES
  server,  \* the messages the server holds
  inbox    \* the messages of the inbox, in order

Init ==
  /\ server = {}
  /\ inbox = << >>

Arrive(x) ==
  /\ x \notin server \cup Range(inbox)
  /\ server' = server \cup {x}
  /\ UNCHANGED inbox

Collect ==
  LET new == SubSeq(inbox', Len(inbox) + 1, Len(inbox')) IN
  /\ IsPrefix(inbox, inbox')
  /\ Range(new) \subseteq server \cup {Damaged}
  /\ \A i, j \in DOMAIN new : new[i] = new[j] => i = j \/ new[i] = Damaged
  /\ UNCHANGED server

GiveUp ==
  /\ server' \subseteq server
  /\ server \ server' \subseteq Range(inbox)
  /\ UNCHANGED inbox

Next ==
  \/ \E x \in Mails : Arrive(x)
  \/ Collect
  \/ GiveUp

Spec == Init /\ [][Next]_<<server, inbox>>

=============================================================================
