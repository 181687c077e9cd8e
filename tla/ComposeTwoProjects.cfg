\* Two users, two projects whose container names coincide.
CONSTANTS
  A = A
  B = B
  aweb = aweb
  adb = adb
  shared = shared
  gA1 = gA1
  gA2 = gA2
  gB = gB
  web = web
  db = db
  m = m
  d1 = d1
  d2 = d2
  vol = vol
  p1 = p1
  Projects = {A, B}
  Names = {shared}
  UIDs = {u1, u2}
  Configs = {gA1, gA2, gB}
  Services = {web, db}
  Maps = {m}
  Claims = {vol}
  Data = {d1, d2}
  ProjectOf <- ProjectOfSpec
  PlansOf <- SharedName
  Users = {p1, p2}
  Readers = {p1, p2}
  Acts = {"up", "stop", "down", "downVolumes"}
  Absent = Absent
  Unlabelled = Unlabelled
  NoPlan = NoPlan
  Unborn = Unborn
  Gone = Gone
  Reported = {"Running", "Stopped"}
SPECIFICATION ComposeSpec
PROPERTIES  DataSurvives ImplementsLifecycle
