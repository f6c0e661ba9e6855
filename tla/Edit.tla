------------------------------- MODULE Edit -------------------------------
(***************************************************************************)
(* One buffer of EDIT.SYSTEM (apps/edit.c): a gap buffer in auxiliary      *)
(* memory, the selection, the two clipboards (iobuf for short pieces, the  *)
(* file CLIPBOARD for long ones), one level of undo, and the file.         *)
(*                                                                         *)
(* The program does not check everything a user may do.  Habits says what  *)
(* the user of an instance is careful about.  Where GapSound does not hold *)
(* the program writes to memory it does not own, and what it does next is  *)
(* not modelled.                                                           *)
(***************************************************************************)
EXTENDS Integers, SequencesExt

CONSTANTS
  Chars,     \* characters
  Typing,    \* what one key inserts: a character, or the spaces of a tab
  Files,     \* contents of files to insert or open
  Needles,   \* strings to look for
  Nul,       \* the zero byte
  NoSel,     \* 65535, no selection
  BufSz,     \* BUFSZ, bytes of the buffer
  CutBufSz,  \* CUTBUFSZ, the longest piece kept in iobuf
  Margin,    \* 2 * IOSZ, free space below which loading stops
  Habits,    \* "room", "range", "undo": see Careful, InRange, Undoable
  Faults     \* "full": the disk may be full

ASSUME EditAssumption ==
  /\ BufSz \in Nat \ {0} /\ CutBufSz \in Nat /\ Margin \in Nat \ {0}
  /\ Typing \subseteq Seq(Chars) /\ Files \subseteq Seq(Chars)
  /\ Needles \subseteq Seq(Chars)
  /\ NoSel \notin Nat
  /\ Habits \subseteq {"room", "range", "undo"}
  /\ Faults \subseteq {"full"}

VARIABLES
  buf,        \* the memory, from index 0
  gapbegin, gapend,
  canundo, oldgapbegin, oldgapend,
  mode,       \* "none" or "select" (SEL_NONE, SEL_SELECT)
  startsel, endsel,
  cut,        \* iobuf[0..cutbuflen - 1]
  clipfile,   \* the file CLIPBOARD; << >> before it is first written
  modified,   \* status[0]
  disk,       \* the file of the buffer
  \* History, for the properties and the habits
  before,     \* the text when undo was last marked
  moved       \* the gap was moved since then

gap == <<buf, gapbegin, gapend>>
undo == <<canundo, oldgapbegin, oldgapend, before, moved>>
sel == <<startsel, endsel>>
clip == <<cut, clipfile>>
file == <<modified, disk>>
vars == <<gap, undo, mode, sel, clip, file>>

-----------------------------------------------------------------------------
(* The gap buffer                                                          *)

FreeSpace == gapend - gapbegin + 1
DataSize == gapbegin + BufSz - 1 - gapend

Content(b, g, e) ==
  [i \in 1..g |-> b[i - 1]] \o [i \in 1..(BufSz - 1 - e) |-> b[e + i]]
Contents == Content(buf, gapbegin, gapend)

\* The gap from g to e lies within the buffer; it is empty when g = e + 1.
Sound(g, e) == 0 <= g /\ g <= e + 1 /\ e <= BufSz - 1

\* There is a character to the right of the cursor, and the program sees it: in
\* a full buffer with the cursor at the beginning gapend is 65535 (here -1),
\* which compares as the end.
CanGoRight == gapend \in 0..(BufSz - 2)

\* A byte of memory; past the buffer it is some byte or other.
At(b, i) == IF i \in DOMAIN b THEN b[i] ELSE Nul

\* The memory with s written at index i
Put(b, i, s) == [k \in DOMAIN b |-> IF k - i + 1 \in DOMAIN s THEN s[k - i + 1] ELSE b[k]]

\* The first n of s, or all
Prefix(s, n) == SubSeq(s, 1, IF n < Len(s) THEN n ELSE Len(s))

\* n bytes from index i on
Get(b, i, n) == [k \in 1..n |-> At(b, i + k - 1)]

\* move_in_gapbuf: copying downwards takes one byte more than n.
MoveIn(b, dst, src, n) ==
  IF dst > src THEN Put(b, dst - 1, Get(b, src - 1, n + 1))
  ELSE Put(b, dst, Get(b, src, n))

Jumped_OffByOne(b, g, e, p) == \* writes the moved bytes one too low
  CASE p > BufSz - 1 \/ p = g -> <<b, g, e>>
    [] p <= BufSz - 1 /\ p > g -> <<MoveIn(b, g, e + 1, p - g), p, e + (p - g)>>
    [] OTHER -> <<MoveIn(b, e - (g - p), p, g - p), p, e - (g - p)>>

\* jump_pos: the memory and the gap after a move to p; no move past the buffer
Jumped(b, g, e, p) ==
  CASE p > BufSz - 1 \/ p = g -> <<b, g, e>>
    [] p <= BufSz - 1 /\ p > g -> <<MoveIn(b, g, e + 1, p - g), p, e + (p - g)>>
    [] OTHER -> <<MoveIn(b, e - (g - p) + 1, p, g - p), p, e - (g - p)>>

\* There and back: jump_pos to p, then to where the gap was
Visited(p) ==
  LET there == Jumped(buf, gapbegin, gapend, p)
  IN Jumped(there[1], there[2], there[3], gapbegin)

Becomes(m) == buf' = m[1] /\ gapbegin' = m[2] /\ gapend' = m[3]

\* While a selection is being made its end follows the cursor.
Follow == endsel' = IF mode = "select" /\ gapbegin' # gapbegin THEN gapbegin' ELSE endsel

\* mark_undo
MarkUndo ==
  /\ canundo' = TRUE
  /\ oldgapbegin' = gapbegin
  /\ oldgapend' = gapend
  /\ before' = Contents

MarkInPlace == MarkUndo /\ moved' = FALSE

\* A move keeps what undo goes back to, which may no longer fit the memory.
KeepUndo ==
  /\ moved' = (moved \/ gapbegin' # gapbegin)
  /\ UNCHANGED <<canundo, oldgapbegin, oldgapend, before>>

NoUndo == canundo' = FALSE /\ UNCHANGED <<oldgapbegin, oldgapend, before, moved>>

ClearSelection == startsel' = NoSel /\ endsel' = NoSel

\* "room": inserts and looks for strings only where n bytes are free.
Careful(n) == "room" \in Habits => n <= FreeSpace

-----------------------------------------------------------------------------
(* Typing and moving                                                       *)

\* A character, a return or a tab; a full buffer takes what fits.
Type(s) ==
  /\ mode = "none"
  /\ MarkInPlace
  /\ LET fits == Prefix(s, FreeSpace) IN
       /\ buf' = Put(buf, gapbegin, fits)
       /\ gapbegin' = gapbegin + Len(fits)
  /\ modified' = TRUE
  /\ UNCHANGED <<gapend, mode, sel, clip, disk>>

Backspace_NoCheck == \* goes below the buffer
  /\ mode = "none"
  /\ startsel = NoSel
  /\ MarkInPlace
  /\ gapbegin' = gapbegin - 1
  /\ modified' = TRUE
  /\ UNCHANGED <<buf, gapend, mode, sel, clip, disk>>

\* DEL without a selection: delete_char
Backspace ==
  /\ mode = "none"
  /\ startsel = NoSel
  /\ MarkInPlace
  /\ gapbegin' = IF gapbegin = 0 THEN 0 ELSE gapbegin - 1
  /\ modified' = TRUE
  /\ UNCHANGED <<buf, gapend, mode, sel, clip, disk>>

DeleteRight_OffByOne == \* lets the gap grow by one byte too many
  /\ mode = "none"
  /\ MarkInPlace
  /\ gapend' = IF gapend = BufSz THEN gapend ELSE gapend + 1
  /\ modified' = TRUE
  /\ UNCHANGED <<buf, gapbegin, mode, sel, clip, disk>>

\* Ctrl-D: delete_char_right
DeleteRight ==
  /\ mode = "none"
  /\ MarkInPlace
  /\ gapend' = IF gapend = BufSz - 1 THEN gapend ELSE gapend + 1
  /\ modified' = TRUE
  /\ UNCHANGED <<buf, gapbegin, mode, sel, clip, disk>>

\* cursor_left; the other keys that go back repeat it.
Left ==
  /\ gapbegin > 0
  /\ buf' = [buf EXCEPT ![gapend] = buf[gapbegin - 1]]
  /\ gapbegin' = gapbegin - 1
  /\ gapend' = gapend - 1
  /\ Follow
  /\ KeepUndo
  /\ UNCHANGED <<mode, startsel, clip, file>>

\* cursor_right; the other keys that go on repeat it.
Right ==
  /\ CanGoRight
  /\ buf' = [buf EXCEPT ![gapbegin] = buf[gapend + 1]]
  /\ gapbegin' = gapbegin + 1
  /\ gapend' = gapend + 1
  /\ Follow
  /\ KeepUndo
  /\ UNCHANGED <<mode, startsel, clip, file>>

\* At the end it beeps; the end of a selection is set to the cursor all the same.
RightBeeps ==
  /\ ~CanGoRight
  /\ mode = "select"
  /\ endsel' = gapbegin
  /\ UNCHANGED <<gap, undo, mode, startsel, clip, file>>

\* OA-1 to OA-9: the eighths of the text
Jump(k) ==
  /\ Becomes(Jumped(buf, gapbegin, gapend, (k * DataSize) \div 8))
  /\ Follow
  /\ KeepUndo
  /\ UNCHANGED <<mode, startsel, clip, file>>

-----------------------------------------------------------------------------
(* The selection and the clipboard                                         *)

\* OA-Space
Mark ==
  /\ IF startsel = NoSel
     THEN startsel' = gapbegin /\ endsel' = gapbegin /\ mode' = "select"
     ELSE endsel' = gapbegin /\ mode' = "none" /\ UNCHANGED startsel
  /\ UNCHANGED <<gap, undo, clip, file>>

SelectAll ==
  /\ startsel' = 0
  /\ endsel' = DataSize
  /\ mode' = "none"
  /\ UNCHANGED <<gap, undo, clip, file>>

Escape ==
  /\ ClearSelection
  /\ mode' = "none"
  /\ UNCHANGED <<gap, undo, clip, file>>

\* order_selection
First == IF startsel <= endsel THEN startsel ELSE endsel
Length == IF startsel <= endsel THEN endsel - startsel ELSE startsel - endsel

\* "range": acts on a selection only while it still lies within the text.
InRange == "range" \in Habits => First + Length <= DataSize

\* The copy of the selection, in iobuf or through save_file in CLIPBOARD;
\* save_file marks the buffer as saved.
Short == Length <= CutBufSz
Picked(m) == Get(m[1], m[3] + 1, Length)
ToClipboard(m) ==
  IF Short THEN cut' = Picked(m) /\ UNCHANGED clipfile
  ELSE cut' = << >> /\ clipfile' = Picked(m)

\* OA-C; without a selection it only beeps.  Its first use may find tmp, which
\* nothing has set, to be 65535 and act as OA-X: the step Cut.
Copy ==
  /\ startsel # NoSel
  /\ InRange
  /\ ToClipboard(Jumped(buf, gapbegin, gapend, First))
  /\ Becomes(Visited(First))
  /\ modified' = (modified /\ Short)
  /\ moved' = (moved \/ First # gapbegin)
  /\ ClearSelection
  /\ mode' = "none"
  /\ UNCHANGED <<canundo, oldgapbegin, oldgapend, before, disk>>

\* OA-X: undo is marked after the move to a short selection, but before that to
\* a long one.
Cut ==
  /\ startsel # NoSel
  /\ InRange
  /\ LET m == Jumped(buf, gapbegin, gapend, First)
         back == Visited(First)
         again == Jumped(back[1], back[2], back[3], First)
         at == IF Short THEN m ELSE again IN
       /\ ToClipboard(m)
       /\ Becomes(<<at[1], at[2], at[3] + Length>>)
       /\ canundo' = TRUE
       /\ oldgapbegin' = IF Short THEN m[2] ELSE back[2]
       /\ oldgapend' = IF Short THEN m[3] ELSE back[3]
  /\ before' = Contents
  /\ moved' = (~Short /\ First # gapbegin)
  /\ modified' = TRUE
  /\ ClearSelection
  /\ mode' = "none"
  /\ UNCHANGED disk

\* "Can't save CLIPBOARD": OA-C and OA-X of a long selection stop there.
CopyFails ==
  /\ "full" \in Faults
  /\ startsel # NoSel
  /\ InRange
  /\ ~Short
  /\ startsel' = First
  /\ endsel' = First + Length
  /\ cut' = << >>
  /\ mode' = "none"
  /\ UNCHANGED <<gap, undo, clipfile, file>>

\* DEL with a selection
DeleteSelection ==
  /\ startsel # NoSel
  /\ InRange
  /\ MarkUndo
  /\ LET m == Jumped(buf, gapbegin, gapend, First)
     IN Becomes(<<m[1], m[2], m[3] + Length>>)
  /\ moved' = (First # gapbegin)
  /\ modified' = TRUE
  /\ ClearSelection
  /\ mode' = "none"
  /\ UNCHANGED <<clip, disk>>

\* The characters load_file takes of s: it looks at the free space only after
\* each of them, and a gap of no bytes counts as one of 65536 after the first.
Taken(s) ==
  IF FreeSpace = 0 THEN s
  ELSE Prefix(s, IF FreeSpace < Margin THEN 1 ELSE FreeSpace - Margin + 1)

Insert(s) == buf' = Put(buf, gapbegin, s) /\ gapbegin' = gapbegin + Len(s)

\* OA-V from iobuf; the free space is not looked at.
Paste ==
  /\ cut # << >>
  /\ Careful(Len(cut))
  /\ MarkInPlace
  /\ Insert(cut)
  /\ ClearSelection
  /\ mode' = "none"
  /\ UNCHANGED <<gapend, clip, file>>

\* OA-V from CLIPBOARD
PasteFile ==
  /\ cut = << >>
  /\ Careful(1)
  /\ MarkInPlace
  /\ Insert(Taken(clipfile))
  /\ ClearSelection
  /\ mode' = "none"
  /\ UNCHANGED <<gapend, clip, file>>

\* "undo": takes back only a change since which the gap was not moved.
Undoable == "undo" \in Habits => ~moved

\* OA-Z
Undo ==
  /\ canundo
  /\ Undoable
  /\ gapbegin' = oldgapbegin /\ oldgapbegin' = gapbegin
  /\ gapend' = oldgapend /\ oldgapend' = gapend
  /\ before' = Contents
  /\ moved' = FALSE
  /\ UNCHANGED <<buf, canundo, mode, sel, clip, file>>

-----------------------------------------------------------------------------
(* Files and searching                                                     *)

\* OA-I; the file chooser overwrites iobuf.
InsertFile(s) ==
  /\ Careful(1)
  /\ MarkInPlace
  /\ Insert(Taken(s))
  /\ cut' = << >>
  /\ UNCHANGED <<gapend, mode, sel, clipfile, file>>

\* save_file(0, 0) goes to the beginning and back.
Saved ==
  /\ Becomes(Visited(0))
  /\ endsel' = IF mode = "select" /\ gapbegin # 0 THEN gapbegin' ELSE endsel
  /\ moved' = (moved \/ gapbegin # 0)
  /\ cut' = << >>

\* OA-S
Save ==
  /\ Saved
  /\ disk' = Contents
  /\ modified' = FALSE
  /\ UNCHANGED <<canundo, oldgapbegin, oldgapend, before, mode, startsel, clipfile>>

\* "Can't save": the file ends where the disk did.
SaveFails ==
  /\ "full" \in Faults
  /\ Contents # << >>
  /\ Saved
  /\ disk' = << >>
  /\ UNCHANGED <<canundo, oldgapbegin, oldgapend, before, mode, startsel, clipfile, modified>>

\* OA-O; a modified buffer may be saved first, or not.
LoadSpace == BufSz - Margin + 1
Open(s) ==
  /\ LET t == Prefix(s, LoadSpace)
         loaded == Jumped(Put(buf, 0, t), Len(t), BufSz - 1, 0) IN
       /\ Becomes(loaded)
       /\ disk' = s
  /\ NoUndo
  /\ ClearSelection
  /\ mode' = "none"
  /\ cut' = << >>
  /\ modified' = FALSE
  /\ UNCHANGED clipfile

\* OA-O of a file that cannot be opened: the buffer keeps its text and loses its
\* name.
OpenFails ==
  /\ NoUndo
  /\ cut' = << >>
  /\ disk' = << >>
  /\ UNCHANGED <<gap, mode, sel, clipfile, modified>>

\* The file chooser, when it is left with Esc, and help
Interlude ==
  /\ cut' = << >>
  /\ UNCHANGED <<gap, undo, mode, sel, clipfile, file>>

\* The places where n lies in bytes i to j - 1
Found(b, i, j, n) == {k \in i..(j - Len(n)) : Get(b, k, Len(n)) = n}
Least(S) == CHOOSE k \in S : \A l \in S : k <= l

\* OA-F: one to the right, then forward from the cursor, then from the beginning
\* of the buffer to a zero byte put at the cursor.
Find(n) ==
  /\ Careful(1)
  /\ LET m == IF CanGoRight
              THEN <<[buf EXCEPT ![gapbegin] = buf[gapend + 1]], gapbegin + 1, gapend + 1>>
              ELSE gap
         right == Found(m[1], m[3] + 1, BufSz, n)
         z == Put(m[1], m[2], <<Nul>>)
         left == Found(z, 0, m[2], n) IN
       Becomes(CASE right # {} -> Jumped(m[1], m[2], m[3], m[2] + Least(right) - (m[3] + 1))
                 [] right = {} /\ left # {} -> Jumped(z, m[2], m[3], Least(left))
                 [] OTHER -> <<z, m[2], m[3]>>)
  /\ endsel' = CASE mode # "select" -> endsel
                 [] mode = "select" /\ CanGoRight -> gapbegin + 1
                 [] OTHER -> gapbegin
  /\ mode' = "none"
  /\ moved' = TRUE
  /\ UNCHANGED <<canundo, oldgapbegin, oldgapend, before, startsel, clip, file>>

-----------------------------------------------------------------------------
(* The specification                                                       *)

Init ==
  /\ buf = [i \in 0..(BufSz - 1) |-> Nul]
  /\ gapbegin = 0 /\ gapend = BufSz - 1
  /\ canundo = FALSE /\ oldgapbegin = 0 /\ oldgapend = BufSz - 1
  /\ mode = "none" /\ startsel = NoSel /\ endsel = NoSel
  /\ cut = << >> /\ clipfile = << >>
  /\ modified = FALSE /\ disk = << >>
  /\ before = << >> /\ moved = FALSE

Next ==
  \/ \E s \in Typing : Type(s)
  \/ Backspace \/ DeleteRight \/ DeleteSelection
  \/ Left \/ Right \/ RightBeeps \/ \E k \in 0..8 : Jump(k)
  \/ Mark \/ SelectAll \/ Escape
  \/ Copy \/ Cut \/ CopyFails \/ Paste \/ PasteFile \/ Undo
  \/ \E s \in Files : InsertFile(s) \/ Open(s)
  \/ OpenFails \/ Interlude \/ Save \/ SaveFails
  \/ \E n \in Needles : Find(n)

Spec == Init /\ [][Next]_vars

-----------------------------------------------------------------------------
(* Properties                                                              *)

\* Every variable has its type.
TypeOK ==
  /\ buf \in [0..(BufSz - 1) -> Chars \cup {Nul}]
  /\ gapbegin \in Nat /\ gapend \in Nat \cup {-1}
  /\ canundo \in BOOLEAN /\ oldgapbegin \in Nat /\ oldgapend \in Nat \cup {-1}
  /\ mode \in {"none", "select"}
  /\ startsel \in Nat \cup {NoSel} /\ endsel \in Nat \cup {NoSel}
  /\ cut \in Seq(Chars) /\ clipfile \in Seq(Chars)
  /\ modified \in BOOLEAN /\ disk \in Seq(Chars)
  /\ before \in Seq(Chars) /\ moved \in BOOLEAN

\* However the gap is moved about, the buffer holds a text with a cursor in it:
\* every command changes that text in one place, and undo gives back the text
\* from before the last change.
Abstract == INSTANCE Text WITH
  text <- Contents, cursor <- gapbegin,
  before <- IF canundo THEN {before} ELSE {},
  Contents <- {Prefix(s, LoadSpace) : s \in Files}
EditsText == Abstract!Spec

\* The gap stays within the buffer, and so does the one that undo would bring
\* back.
GapSound == Sound(gapbegin, gapend) /\ Sound(oldgapbegin, oldgapend)

\* "Undo last block operation": right after a selection was cut or deleted, undo
\* would give back the text as it was.  Not so when the selection is further
\* from the gap than the gap is long (edit.c:2476, 2676).
BlockUndoable ==
  [][(Cut \/ DeleteSelection) => Content(buf', oldgapbegin', oldgapend') = Contents]_vars

\* "status[0] is 1 if file has been modified": a text that differs from its file
\* is marked, so that leaving the program or opening another file asks first.
\* Not so after pasting, inserting a file or undoing (edit.c:2485, 2542, 2620).
MarkedIfUnsaved == Contents # disk => modified

=============================================================================
