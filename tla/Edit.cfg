CONSTANTS
  a = a
  b = b
  Chars = {a, b}
  Typing <- AB
  Files <- FilesAB
  Needles <- NeedleB
  Nul = Nul
  NoSel = NoSel
  BufSz = 3
  CutBufSz = 1
  Margin = 1
  Habits = {"room", "range", "undo"}
  Faults = {"full"}
VIEW EditView
SPECIFICATION Spec
INVARIANTS TypeOK GapSound
PROPERTIES EditsText
CHECK_DEADLOCK FALSE
