------------------------------ MODULE MCNntp65 ------------------------------
(* Instances of Nntp65 for TLC.                                            *)
EXTENDS Nntp65

CONSTANTS news, misc

\* news was read up to 2, its only article; misc is new to the reader.  They
\* have numbers in common.
Lines2 == <<[group |-> news, num |-> 2], [group |-> misc, num |-> 0]>>
FirstOf == [x \in Groups |-> IF x = news THEN 2 ELSE 1]
LastOf == [x \in Groups |-> IF x = news THEN 2 ELSE 3]
Spam == {[group |-> misc, num |-> 3]}

=============================================================================
