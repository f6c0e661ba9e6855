CONSTANTS
  x = x
  y = y
  p = p
  q = q
  Msgs = {x, y}
  Addrs = {p, q}
  Draft <- Drafts
  None = None
  MaxNum = 2
  MaxSent = 2
  MaxResets = 1
  ReadLines = 20
  HeadLines = 6
  Habits = {"tidy"}
  Faults = {"refuse", "drop", "unsure", "crash"}
SPECIFICATION Spec
INVARIANTS TypeOK OwnRecipients NothingLost
PROPERTIES Submits
CHECK_DEADLOCK FALSE
