\* A user who edits, ups and downs a project.
CONSTANTS
  p = p
  a = a
  b = b
  d1 = d1
  d2 = d2
  i1 = i1
  i2 = i2
  Words = {p, a, b, "config"}
  Contents = {d1, d2}
  Images = {i1, i2}
  Ports = {80, 81}
  Missing = Missing
  None = None
  Files <- FileVersions
SPECIFICATION FilesSpec
INVARIANTS FilesTypeOK EachServiceItsOwn 
 
