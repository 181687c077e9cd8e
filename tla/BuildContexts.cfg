\* No, one or two --build-context flags, of every kind, with equal or
\* different names.
CONSTANTS
  x = x
  y = y
  CtxNames = {x, y}
  SpecLists <- UpToTwo
SPECIFICATION CtxSpec
CHECK_DEADLOCK FALSE
INVARIANTS CtxTypeOK OnlyKnownLeftovers UploadsFindTheirPaths
PROPERTIES ArchiveIsRight
