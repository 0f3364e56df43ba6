\* One call fails while the images are created.
SPECIFICATION FairSpec
CONSTANTS
  Container <- MCContainer
  NamespaceOf <- MCNamespaceOf
  Matching <- MCMatching
  Includes = {"nginx"}
  Excludes = {"test", "staging"}
  Namespaces = {"ns1", "ns2", "ns3"}
  ExcludedNamespaces = {"ns3"}
  Additional <- MCAdditional
  Key <- MCKey
  KeyOf <- MCKeyOf
  ReferenceOf <- MCReferenceOf
  Word <- MCWord
  ImageStatuses = {"PENDING", "RUNNING", "COMPLETED"}
  Faults = {"staleObjects", "apiErrors"}
  MaxFaults = 1
PROPERTY NoneSkipped
CHECK_DEADLOCK FALSE
