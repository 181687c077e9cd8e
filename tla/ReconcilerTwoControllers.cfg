\* A rolling update: two controllers, one object, two configurations.
CONSTANTS
  Names = {n1}
  UIDs = {u1}
  Configs = {g1, g2}
  Readers = {k1, k2}
  Controllers = {k1, k2}
  Unborn = Unborn
  Gone = Gone
  NoPod = NoPod
  NoUID = NoUID
  NoView = NoView
  Budget = 3
SPECIFICATION BudgetFairSpec
PROPERTIES ClientWritesSurvive OrphansCollected StopConverges 
