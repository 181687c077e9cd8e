\* One command-line process giving every command, by name or by ID.
CONSTANTS
  n1 = n1
  u1 = u1
  u2 = u2
  Names = {n1}
  UIDs = {u1, u2}
  Configs = {g1}
  Readers = {k1, p1}
  Controllers = {k1}
  Procs = {p1}
  Ops = {"run", "runDetached", "stop", "start", "restart", "rm"}
  Args <- ByNameOrID
  Attempts = 2
  NoName = NoName
  Unborn = Unborn
  Gone = Gone
  NoPod = NoPod
  NoUID = NoUID
  NoView = NoView
SPECIFICATION CliFairSpec
INVARIANTS CliTypeOK
PROPERTIES  ImplementsReconciler RmLeavesNothing
