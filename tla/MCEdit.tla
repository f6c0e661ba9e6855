------------------------------ MODULE MCEdit ------------------------------
(* Instances of Edit for TLC.                                              *)
EXTENDS Edit

CONSTANTS a, b

\* A tab is worth two spaces here.
AB == {<<a>>, <<b, b>>}
FilesAB == {<<a, b>>}
NeedleB == {<<b>>}

\* The file and its mark are never read.  With the habit "undo", what undo would
\* go back to is not read either once the gap was moved, nor are then the bytes
\* of the gap.
EditView == <<Contents, gapbegin, canundo, mode, sel, clip,
              IF canundo /\ ~moved THEN <<buf, oldgapbegin, oldgapend, before>> ELSE << >> >>

=============================================================================
