\* One user, up again while a workload is still being removed.
CONSTANTS
  A = A
  B = B
  aweb = aweb
  adb = adb
  shared = shared
  gA1 = gA1
  gA2 = gA2
  gB = gB
  web = web
  db = db
  m = m
  d1 = d1
  d2 = d2
  vol = vol
  p1 = p1
  Projects = {A, B}
  Names = {aweb, adb}
  UIDs = {u1, u2}
  Configs = {gA1, gA2, gB}
  Services = {web, db}
  Maps = {m}
  Claims = {vol}
  Data = {d1, d2}
  ProjectOf <- ProjectOfSpec
  PlansOf <- Growing
  Users = {p1}
  Readers = {p1}
  Acts = {"up"}
  Absent = Absent
  Unlabelled = Unlabelled
  NoPlan = NoPlan
  Unborn = Unborn
  Gone = Gone
  Reported = {"Running", "Stopped"}
SPECIFICATION ComposeSpec
PROPERTIES UpCreatesEveryWorkload
