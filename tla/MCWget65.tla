------------------------------ MODULE MCWget65 ------------------------------
(* Instances of Wget65 for TLC.                                            *)
EXTENDS Wget65

CONSTANTS b1, b2, b3, b4, b5, b6

\* Longer than the ring; every byte differs from those near it.
AskIt == <<b1, b2, b3, b4, b5>>
Answer == <<b1, b2, b3, b5>>
Text == <<b4, b6, b1, b3, b2, b4>>
=============================================================================
