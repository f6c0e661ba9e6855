CONSTANTS
  news = news
  misc = misc
  Groups = {news, misc}
  Subscribed <- Lines2
  Oldest <- FirstOf
  Newest <- LastOf
  Killed <- Spam
  None = None
  FirstFetch = 2
  Wrap = 16
  EmailWrap = 8
  MaxNum = 3
  MaxVanished = 1
  MaxLost = 1
  MaxCuts = 1
  Faults = {"drop", "stop", "crash", "remove", "cancel"}
  Habits = {"clears"}
SPECIFICATION FairSpec
INVARIANTS TypeOK SubscriptionsKept NothingSkipped OwnMailbox NoRepeats
PROPERTIES RunEnds
