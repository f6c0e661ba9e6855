----------------------------- MODULE Outgoing -----------------------------
(***************************************************************************)
(* What sending mail or news promises.  A message the user has written     *)
(* stays in the outbox until the user discards it, or until its text was   *)
(* submitted to a server and the sent mailbox has a copy.  Nothing is said *)
(* of whether the server took it: the programs do not ask.                 *)
(***************************************************************************)

CONSTANT Msgs  \* messages

VARIABLES
  outbox,     \* the written messages that wait to be sent
  submitted,  \* those given to the connection from beginning to end
  sent,       \* those listed in the sent mailbox
  discarded   \* those the user deleted

Init ==
  /\ outbox = {}
  /\ submitted = {}
  /\ sent = {}
  /\ discarded = {}

Write(m) ==
  /\ outbox' = outbox \cup {m}
  /\ UNCHANGED <<submitted, sent, discarded>>

Submit(m) ==
  /\ m \in outbox
  /\ submitted' = submitted \cup {m}
  /\ UNCHANGED <<outbox, sent, discarded>>

\* A number given twice makes one message take the place of others, which
\* must then be elsewhere.
File ==
  /\ sent' \ sent \subseteq submitted
  /\ sent \ sent' \subseteq outbox \cup discarded
  /\ UNCHANGED <<outbox, submitted, discarded>>

Remove(m) ==
  /\ m \in submitted \cap sent
  /\ outbox' = outbox \ {m}
  /\ UNCHANGED <<submitted, sent, discarded>>

Discard(m) ==
  /\ discarded' = discarded \cup {m}
  /\ outbox' \in {outbox, outbox \ {m}}
  /\ UNCHANGED <<submitted, sent>>

Next ==
  \/ \E m \in Msgs : Write(m) \/ Submit(m) \/ Remove(m) \/ Discard(m)
  \/ File

Spec == Init /\ [][Next]_<<outbox, submitted, sent, discarded>>

=============================================================================
