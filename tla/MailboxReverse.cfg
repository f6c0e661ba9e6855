CONSTANTS
  Mailboxes = {INBOX}
  Inbox = INBOX
  Msgs = {x, y}
  None = None
  PageSize = 1
  RecSize = 9
  Width = 16
  MaxNum = 3
  Keys = {"delete", "leave"}
  Orders <- BothOrders
  SelfCopy = FALSE
  Faults <- NoFaults
SPECIFICATION Spec
PROPERTY DeleteKeepsRecords
