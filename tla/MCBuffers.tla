----------------------------- MODULE MCBuffers -----------------------------
(* Instances of Buffers for TLC.                                           *)
EXTENDS Buffers

CONSTANTS f, g

\* f needs two buffers, g is new.
Disk == [x \in Files |-> IF x = f THEN <<1, 0>> ELSE None]

=============================================================================
