SPECIFICATION Spec
CONSTANTS
  Instances = {i1}
  Resources = {r1, r2}
  ETCD_LEASE_TTL_SEC = 10
  METADATA_REFRESH_INTERVAL = 6
  Latency = 2
INVARIANTS
  TypeOK
  GoneInTime
  KeptListed
  PublishedInTime
PROPERTIES
  ImplementsRegistry
