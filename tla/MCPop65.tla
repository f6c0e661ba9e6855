------------------------------ MODULE MCPop65 ------------------------------
(* Instances of Pop65 for TLC.                                             *)
EXTENDS Pop65

CONSTANTS x, y

\* The body of x has a line that begins with a dot, doubled on the wire, that
\* of y a line that ends with one.
Bodies == [m \in Mails |-> IF m = x THEN <<Dot, Dot, CR, LF>>
                                    ELSE <<"b", Dot, CR, LF>>]

\* For the runs about the disk, a line of one letter is enough.
ShortBodies == [m \in Mails |-> <<IF m = x THEN "a" ELSE "b", CR, LF>>]

=============================================================================
