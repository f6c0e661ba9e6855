CONSTANTS
  Mailboxes = {INBOX, B}
  Inbox = INBOX
  Msgs = {x, y}
  None = None
  PageSize = 1
  RecSize = 9
  Width = 16
  MaxNum = 2
  Keys = {"copy", "move", "tag", "new", "switch", "leave"}
  Orders <- ForwardOnly
  SelfCopy = TRUE
  Faults = {"crash"}
SPECIFICATION Spec
INVARIANTS IndexNamesSelection
PROPERTIES MoveKeepsMessage AllTaggedCopied
SYMMETRY Symmetry
