------------------------------ MODULE MCUpload ------------------------------
(* Instances of Upload for TLC.                                            *)
EXTENDS Upload

CONSTANTS x, y, p, q

\* x has two recipients; y is a forward of a message that was sent to p.
Drafts ==
  [m \in Msgs |->
     IF m = x THEN [head |-> <<To(<<p>>), To(<<q>>)>>, quoted |-> << >>, typed |-> <<Text(x)>>]
              ELSE [head |-> <<To(<<q>>)>>, quoted |-> <<To(<<p>>), Blank>>, typed |-> <<Text(y)>>]]

=============================================================================
