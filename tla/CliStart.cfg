CONSTANTS
  n1 = n1
  u1 = u1
  u2 = u2
  Names = {n1}
  UIDs = {u1}
  Configs = {g1}
  Readers = {k1, p1}
  Controllers = {k1}
  Procs = {p1}
  Ops = {"runDetached", "start"}
  Args <- ByName
  Attempts = 2
  NoName = NoName
  Unborn = Unborn
  Gone = Gone
  NoPod = NoPod
  NoUID = NoUID
  NoView = NoView
SPECIFICATION CliFairSpec
PROPERTIES StartReplacesFinishedPod
