CONSTANTS
  Mailboxes = {INBOX}
  Inbox = INBOX
  Msgs = {x}
  None = None
  PageSize = 1
  RecSize = 5
  Width = 16
  MaxNum = 3
  Keys = {"copy", "move", "tag", "purge", "leave"}
  Orders <- BothOrders
  SelfCopy = TRUE
  Faults = {"full", "crash_purge"}
SPECIFICATION LiveSpec
PROPERTIES CommandEnds
