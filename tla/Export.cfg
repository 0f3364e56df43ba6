\* All faults at once.
SPECIFICATION FairSpec
CONSTANTS
  Container <- MCContainer
  NamespaceOf <- MCNamespaceOf
  Matching <- MCMatching
  Includes = {"nginx"}
  Excludes = {"test", "staging"}
  Namespaces = {"ns1", "ns2", "ns3"}
  ExcludedNamespaces = {"ns3"}
  Additional <- MCAdditional
  Key <- MCKey
  KeyOf <- MCKeyOf
  ReferenceOf <- MCReferenceOf
  Word <- MCWord
  ImageStatuses = {"PENDING", "RUNNING", "COMPLETED", "FAILED", "PRESENT"}
  Faults = {"staleObjects", "apiErrors", "lostReplies", "crashes", "badNames"}
  MaxFaults = 1
INVARIANTS TypeOK FailedExportHasFailedImage NoneLeftOut FinalizerFirst OnlyWanted EachHasItsOwn
PROPERTIES FailedStays ExportSettles FollowsLifecycle
CHECK_DEADLOCK FALSE
