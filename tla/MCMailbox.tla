----------------------------- MODULE MCMailbox -----------------------------
(* Instances of Mailbox for TLC.                                           *)
EXTENDS MailboxInv, TLC

ForwardOnly == {FALSE}
BothOrders == BOOLEAN
NoFaults == {}

Symmetry == Permutations(Msgs)

\* EMAIL.PREFS is read only at a start and rewritten by every way of leaving
\* but a crash and a failing seek, so in an instance without these two its
\* old contents tell no running states apart.
IgnoringOldPrefs ==
  <<db, listed, files, next, pc, view, job,
    IF pc = "off" THEN prefs ELSE DefaultPrefs>>

=============================================================================
