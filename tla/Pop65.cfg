CONSTANTS
  x = x
  y = y
  Mails = {x, y}
  Body <- Bodies
  None = None
  BufSize = 6
  MaxNum = 3
  Modes = {TRUE, FALSE}
  Faults = {"drop", "refused"}
SPECIFICATION LiveSpec
INVARIANTS ReadsWholeReply
PROPERTIES Delivers RunEnds
CHECK_DEADLOCK FALSE
