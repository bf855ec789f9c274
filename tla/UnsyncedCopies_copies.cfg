SPECIFICATION FairSpec
CONSTANTS
  t1 = t1
  t2 = t2
  Tabs = {t1, t2}
  NoTab = NoTab
  NClients = 3
  MaxEdits = 3
  NLeft = 2
  MaxOpens = 2
  MaxFaults = 1
  Situations = {"kill", "lost", "refused", "gone", "deadline", "unusable"}
INVARIANTS
  TabsAgree
  NothingLost
  OnceInOrder
PROPERTY HoldEnds
CHECK_DEADLOCK FALSE
