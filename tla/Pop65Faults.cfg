CONSTANTS
  x = x
  y = y
  Mails = {x, y}
  Body <- ShortBodies
  None = None
  BufSize = 4
  MaxNum = 2
  Modes = {TRUE, FALSE}
  Faults = {"drop", "refused", "full", "crash"}
SPECIFICATION Spec
INVARIANTS TypeOK ImportFindsSpool
PROPERTIES QuitsWhenSpooled
CHECK_DEADLOCK FALSE
