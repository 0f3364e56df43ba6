\* Three Deployments for two slots, then a Job; the context may be cancelled.
SPECIFICATION FairSpec
CONSTANTS
  d1 = d1  d2 = d2  d3 = d3  j1 = j1
  nginx = nginx  redis = redis  bad = bad
  Workload <- MCWorkload
  Kinds = 2
  KindOf <- MCKindOf
  Image <- MCImage
  Valid <- MCValid
  Contents <- MCContents
  Slots = 2
  Nobody = Nobody
INVARIANTS TypeOK CompleteList NeverSendsOnClosed
PROPERTY EveryoneEnds
PROPERTY ListsAtomically
CHECK_DEADLOCK FALSE
