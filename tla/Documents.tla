---------------------------- MODULE Documents ----------------------------
(***************************************************************************)
(* What an editor with several buffers promises: every command is about    *)
(* one document and leaves the others, and the files, as they are; saving  *)
(* writes the document to the file of its name and to no other.            *)
(***************************************************************************)
EXTENDS Sequences, SequencesExt

CONSTANTS
  Slots,  \* where a document may begin
  Files,  \* file names
  None    \* no file, no name

VARIABLES
  docs,   \* the documents with any text: [at, name, text]
  disk    \* disk[f]: contents of file f

\* A document filled from the file it is named after, cut to what fits
Loaded(is) ==
  is.name \in Files /\ disk[is.name] # None /\ IsPrefix(is.text, disk[is.name])

\* What a command may do to the document it is about: change its text or its
\* name, or load it.  A document that is not loaded begins with a line.
Changed(was, is) == is.name = was.name \/ is.text = was.text \/ Loaded(is)
Begun(is) == Len(is.text) = 1 \/ Loaded(is)

Edit(was, is) ==
  /\ \E d \in Slots : {x \in was : x.at # d} = {y \in is : y.at # d}
  /\ \A y \in is \ was :
       IF \E x \in was : x.at = y.at
       THEN \E x \in was : x.at = y.at /\ Changed(x, y)
       ELSE Begun(y)

Save(was, is) ==
  /\ is = was
  /\ \E x \in was : disk' = [disk EXCEPT ![x.name] = x.text]

Next ==
  LET was == docs
      is == docs'
  IN IF disk' = disk THEN Edit(was, is) ELSE Save(was, is)

=============================================================================
