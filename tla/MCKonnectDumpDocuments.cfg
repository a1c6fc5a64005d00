SPECIFICATION Spec
CONSTANTS
  v1 = v1
  NumPackages = 2
  VersionsOf <- MCVersionsOf
  Concurrency = 3
INVARIANT ContainsAllDocuments
