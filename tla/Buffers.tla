----------------------------- MODULE Buffers -----------------------------
(***************************************************************************)
(* The buffers of EDIT.SYSTEM (apps/edit.c).  Each bank of auxiliary       *)
(* memory is a buffer with its own file name and part number; a file too   *)
(* large for one is loaded into consecutive buffers, its parts, and is     *)
(* saved, named, extended and truncated as a whole.  Edit models what      *)
(* happens inside one buffer; here its text is a sequence of lines.        *)
(***************************************************************************)
EXTENDS Integers, Sequences, FiniteSets, SequencesExt

CONSTANTS
  NBanks,   \* banktbl[0], the number of buffers
  Files,    \* file names
  Contents, \* Contents[f]: what file f holds at first, or None
  None,     \* no file; no name
  Typed,    \* a line the user types
  LoadMax,  \* lines after which load_file goes on in the next buffer
  Capacity, \* lines a buffer has room for
  MaxLines, \* bound: lines in all buffers
  MaxFiles, \* bound: files that differ from their first contents
  Habits    \* "fresh": no file is opened or extended over parts of another,
            \* "own": no truncating in the last part of a file

Banks == 1..NBanks

ASSUME BuffersAssumption ==
  /\ NBanks \in Nat /\ NBanks > 1 \* with one bank load_file never splits
  /\ LoadMax \in Nat \ {0} /\ Capacity \in Nat /\ Capacity >= LoadMax /\ MaxLines \in Nat /\ MaxFiles \in Nat
  /\ None \notin Files
  /\ Contents = [f \in Files |-> Contents[f]]
  /\ \A f \in Files : Contents[f] = None \/ Contents[f] \in Seq(Range(Contents[f]))
  /\ Habits \subseteq {"fresh", "own"}

VARIABLES
  name,  \* name[b]: filename of buffer b, or None
  part,  \* part[b]: status[2], 0 for a file in one buffer
  text,  \* text[b]: its lines
  cur,   \* l_auxbank
  disk   \* disk[f]: the lines of file f, or None

vars == <<name, part, text, cur, disk>>

-----------------------------------------------------------------------------
(* Parts                                                                   *)

\* find_first_bank: "Assumes banks allocated in order"
FirstBank(b) == IF part[b] = 0 THEN b ELSE b - part[b] + 1

\* The walk of save_multibank_file, name_file and truncate: the banks from b on
\* whose part numbers go up by one.
Follows(b, c) == c >= b /\ \A i \in b..c : part[i] = part[b] + i - b
Parts(b) == IF part[b] = 0 THEN {b} ELSE {c \in Banks : Follows(b, c)}

\* The text of a set of consecutive buffers, in order
Joined(s) ==
  LET join[b \in 0..NBanks] ==
        IF b = 0 THEN << >> ELSE IF b \in s THEN join[b - 1] \o text[b] ELSE join[b - 1]
  IN join[NBanks]

-----------------------------------------------------------------------------
(* The keys                                                                *)

\* CA-1 to CA-9, CA-B, CA-plus, and CA-minus but in buffer 1
Jump(b) ==
  /\ b \in Banks
  /\ b # cur
  /\ cur' = b
  /\ UNCHANGED <<name, part, text, disk>>

Type ==
  /\ Len(text[cur]) < Capacity /\ Len(Joined(Banks)) < MaxLines
  /\ text' = [text EXCEPT ![cur] = Append(@, Typed)]
  /\ UNCHANGED <<name, part, cur, disk>>

Erase ==
  /\ text[cur] # << >>
  /\ text' = [text EXCEPT ![cur] = Front(@)]
  /\ UNCHANGED <<name, part, cur, disk>>

\* load_file with replace: after every LoadMax lines it goes on in the next
\* buffer, which must be empty, also when the file ends there.  A file that
\* fits into one buffer leaves the part number alone.
FillsPart(f, k) == k * LoadMax \in DOMAIN disk[f]
Piece(f, k) ==
  SubSeq(disk[f], (k - 1) * LoadMax + 1, IF FillsPart(f, k) THEN k * LoadMax ELSE Len(disk[f]))

FreeBank(b) == b \in Banks /\ text[b] = << >>

Open(f) ==
  /\ disk[f] # None
  /\ \E last \in cur..NBanks :
       /\ \A b \in (cur + 1)..last : FillsPart(f, b - cur) /\ FreeBank(b)
       /\ FillsPart(f, last + 1 - cur) => ~FreeBank(last + 1)
       /\ "fresh" \in Habits => \A b \in cur..last : part[b] = 0
       /\ name' = [b \in Banks |-> IF b \in cur..last THEN f ELSE name[b]]
       /\ text' = [b \in Banks |-> IF b \in cur..last THEN Piece(f, b + 1 - cur) ELSE text[b]]
       /\ part' = [b \in Banks |->
            IF b \notin cur..last \/ ~FillsPart(f, 1) THEN part[b]
            ELSE IF last = cur THEN 0 ELSE b + 1 - cur]
       /\ cur' = last
  /\ Len(Joined(Banks))' <= MaxLines
  /\ UNCHANGED disk

\* "Can't open": the buffer keeps its text and loses its name.
OpenMissing(f) ==
  /\ disk[f] = None
  /\ "fresh" \in Habits => part[cur] = 0
  /\ name' = [name EXCEPT ![cur] = None]
  /\ UNCHANGED <<part, text, cur, disk>>

\* name_file
NameFile(f) ==
  LET first == FirstBank(cur) IN
  /\ first \in Banks
  /\ IF part[first] = 0
     THEN /\ name' = [name EXCEPT ![first] = f]
          /\ cur' = first
     ELSE IF part[first] # 1 \* "SBF error"
     THEN UNCHANGED name /\ cur' = first
     ELSE /\ name' = [b \in Banks |-> IF b \in Parts(first) THEN f ELSE name[b]]
          /\ UNCHANGED cur
  /\ UNCHANGED <<part, text, disk>>

Written_Over(f, parts) == \* opens the file anew for every part
  LET own == {b \in parts : name[b] = f}
  IN IF own = {} THEN disk[f] ELSE text[CHOOSE b \in own : \A c \in own : c <= b]

\* save_multibank_file: the first part is written, the others appended, each to
\* the file its own buffer names.
Written(f, parts) ==
  LET own == {b \in parts : name[b] = f}
      old == IF name[FirstBank(cur)] = f \/ disk[f] = None THEN << >> ELSE disk[f]
  IN IF own = {} THEN disk[f] ELSE old \o Joined(own)

Save ==
  LET first == FirstBank(cur) IN
  /\ first \in Banks
  /\ name[first] # None
  /\ Joined(Parts(first)) # << >> \* bound: empty buffers are not saved
  /\ IF part[first] \in {0, 1}
     THEN disk' = [f \in Files |-> Written(f, Parts(first))]
     ELSE UNCHANGED disk \* "SBF error"
  /\ Cardinality({f \in Files : disk'[f] # Contents[f]}) <= MaxFiles
  /\ cur' = IF part[first] = 0 THEN first ELSE cur
  /\ UNCHANGED <<name, part, text>>

Extend_PastEnd == \* does not look for the last bank
  LET i == IF part[cur] = 0 THEN 1 ELSE part[cur]
      free == cur = NBanks \/ text[cur + 1] = << >>
  IN /\ name' = [b \in Banks |-> IF free /\ b = cur + 1 THEN name[cur] ELSE name[b]]
     /\ part' = [b \in Banks |-> IF b = cur THEN i ELSE IF free /\ b = cur + 1 THEN i + 1 ELSE part[b]]
     /\ cur' = IF free THEN cur + 1 ELSE cur
     /\ UNCHANGED <<text, disk>>

\* CA-E, with open_new_aux_bank.  When the next buffer is not free a file in
\* one buffer has become part 1 all the same.
Extend ==
  LET i == IF part[cur] = 0 THEN 1 ELSE part[cur]
      free == FreeBank(cur + 1)
  IN /\ "fresh" \in Habits /\ free => part[cur + 1] \in {0, i + 1}
     /\ name' = [b \in Banks |-> IF free /\ b = cur + 1 THEN name[cur] ELSE name[b]]
     /\ part' = [b \in Banks |-> IF b = cur THEN i ELSE IF free /\ b = cur + 1 THEN i + 1 ELSE part[b]]
     /\ cur' = IF free THEN cur + 1 ELSE cur
     /\ UNCHANGED <<text, disk>>

Cleared_One == \* the buffers behind the next stay
  IF part[cur] = 0 THEN {} ELSE {cur + 1} \cap Banks

\* CA-T: the text behind the cursor goes, and of a file in parts the next
\* buffer, whatever it holds, with those that follow it in the same numbering.
\* There is no next bank after the last: the loop then clears the bank it is in.
Cleared ==
  IF part[cur] = 0 THEN {}
  ELSE IF cur = NBanks THEN {cur}
  ELSE {c \in (cur + 1)..NBanks : Follows(cur + 1, c)}

Truncate ==
  /\ "own" \in Habits => part[cur] = 0 \/ (cur < NBanks /\ part[cur + 1] = part[cur] + 1)
  /\ \E k \in 0..Len(text[cur]) :
       text' = [b \in Banks |-> IF b \in Cleared THEN << >>
                                ELSE IF b = cur THEN SubSeq(text[b], 1, k) ELSE text[b]]
  /\ name' = [b \in Banks |-> IF b \in Cleared THEN None ELSE name[b]]
  /\ part' = [b \in Banks |-> IF b \in Cleared \/ (b = cur /\ part[b] = 1) THEN 0 ELSE part[b]]
  /\ UNCHANGED <<cur, disk>>

-----------------------------------------------------------------------------
(* The specification                                                       *)

Init ==
  /\ name = [b \in Banks |-> None]
  /\ part = [b \in Banks |-> 0]
  /\ text = [b \in Banks |-> << >>]
  /\ cur = 1
  /\ disk = Contents

Next ==
  \/ \E b \in Banks : Jump(b)
  \/ Type \/ Erase
  \/ \E f \in Files : Open(f) \/ OpenMissing(f) \/ NameFile(f)
  \/ Save \/ Extend \/ Truncate

Spec == Init /\ [][Next]_vars

-----------------------------------------------------------------------------
(* Properties                                                              *)

TypeOK ==
  /\ name \in [Banks -> Files \cup {None}]
  /\ part \in [Banks -> 0..NBanks]
  /\ cur \in Banks
  /\ \A b \in Banks : Len(text[b]) <= Capacity

\* "Assumes banks allocated in order": the parts of a file before part k lie
\* right before it, in order, from part 1 on, under the same name.
\* find_first_bank and every walk over the parts of a file rest on this.
PartsInOrder ==
  \A b \in Banks : part[b] # 0 =>
    /\ b >= part[b]
    /\ \A c \in FirstBank(b)..b : part[c] = part[b] - (b - c) /\ name[c] = name[b]

\* The refinement: a document begins where a part number says so.
Texts ==
  {d \in {[at |-> b, name |-> name[b], text |-> Joined(Parts(b))] :
             b \in {b \in Banks : part[b] \in {0, 1}}} : d.text # << >>}

Abstract == INSTANCE Documents WITH Slots <- Banks, docs <- Texts

\* The buffers are documents: every command changes at most the document it is
\* about, and a save writes that document, all of it, to its own file.
KeepsDocuments == [][Abstract!Next]_<<Texts, disk>>

=============================================================================
