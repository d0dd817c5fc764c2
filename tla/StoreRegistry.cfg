\* Three openers, two stores allowed, three leases: the registry is emptied
\* under readers that hold a store.
SPECIFICATION RegistrySpec
CONSTANTS
  Opener = {o1, o2, o3}
  Bucket = {"lake", "none"}
  NoBucket = "none"
  Lease = {"own", "tableA", "tableB"}
  Limit = 2
  MaxBuilds = 4
  Nobody = nobody
INVARIANTS
  RegistryBounded
  OwnLease
  BuiltOnce
CHECK_DEADLOCK FALSE
