\* One controller, two identities under one name: deletion and re-creation.
CONSTANTS
  Names = {n1}
  UIDs = {u1, u2}
  Configs = {g1, g2}
  Readers = {k1}
  Controllers = {k1}
  Unborn = Unborn
  Gone = Gone
  NoPod = NoPod
  NoUID = NoUID
  NoView = NoView
SPECIFICATION FairSpec
INVARIANTS TypeOK NoOrphanPod
PROPERTIES StoppedIsTrue ClientWritesSurvive ReportedPodIsCurrent WantedPodIsKept ImplementsLifecycle
           DeletionCompletes StopConverges 
