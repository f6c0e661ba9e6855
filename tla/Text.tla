------------------------------- MODULE Text -------------------------------
(***************************************************************************)
(* What an editor promises: a text with a cursor in it.  Commands insert   *)
(* at the cursor, remove a piece and leave the cursor there, move the      *)
(* cursor, load another text, or undo the last change.                     *)
(***************************************************************************)
EXTENDS Integers, Sequences

CONSTANTS
  Contents  \* the texts that can be loaded

VARIABLES
  text,    \* the characters
  cursor,  \* how many of them are before the cursor
  before   \* {t}: undo gives t; {}: there is nothing to undo

Before(n) == SubSeq(text, 1, n)
After(n) == SubSeq(text, n + 1, Len(text))

Init ==
  /\ text = << >>
  /\ cursor = 0
  /\ before = {}

Insert ==
  /\ cursor' >= cursor
  /\ text' = Before(cursor) \o SubSeq(text', cursor + 1, cursor') \o After(cursor)
  /\ before' = {text}

Remove ==
  /\ \E n \in cursor'..Len(text) : text' = Before(cursor') \o After(n)
  /\ before' = {text}

Move ==
  /\ UNCHANGED text
  /\ cursor' \in 0..Len(text)
  /\ before' \in {before, {}}

Load ==
  /\ text' \in Contents
  /\ cursor' = 0
  /\ before' = {}

Undo ==
  /\ text' \in before
  /\ cursor' \in 0..Len(text')
  /\ before' = {text}

Next == Insert \/ Remove \/ Move \/ Load \/ Undo

Spec == Init /\ [][Next]_<<text, cursor, before>>

=============================================================================
