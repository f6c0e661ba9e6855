CONSTANTS
  b1 = b1
  b2 = b2
  b3 = b3
  b4 = b4
  b5 = b5
  b6 = b6
  Bytes = {b1, b2, b3, b4, b5, b6}
  Junk = Junk
  None = None
  Ring = 4
  PtrMod = 8
  ByteMod = 2
  Starts = {0, 2, 5, 7}
  Builds = {TRUE, FALSE}
  Request <- AskIt
  Header <- Answer
  Body <- Text
  BufLen = 5
  PointerSize = 2
  Faults = {"early", "drop", "stop", "full"}
SPECIFICATION FairSpec
INVARIANTS TypeOK GrantHolds StreamsInOrder WholeFile
PROPERTIES FetchEnds
CHECK_DEADLOCK FALSE
