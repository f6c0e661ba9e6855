CONSTANTS
  Mailboxes = {INBOX, B}
  Inbox = INBOX
  Msgs = {x, y}
  None = None
  PageSize = 2
  RecSize = 9
  Width = 16
  MaxNum = 2
  Keys = {"copy", "move", "delete", "tag", "undelete", "read", "reply", "purge", "new", "switch", "leave"}
  Orders <- BothOrders
  SelfCopy = FALSE
  Faults = {}
SPECIFICATION Spec
INVARIANTS TypeOK RecordsOwnFiles UniqueNumbers IndexNamesSelection TotalsCountMailbox
PROPERTIES NeverLost
SYMMETRY Symmetry
VIEW IgnoringOldPrefs
