CONSTANTS
  h1 = h1
  h2 = h2
  n1 = n1
  n2 = n2
  Hosts = {h1, h2}
  Nodes = {n1}
  Instances = {i1}
  NoValue = NoValue
  ConfHost <- MCConfHost
  Lower <- MCLower
  HashRank <- MCHashRank
  Shard <- MCShardSame
  ConductorGroup <- MCConductorGroup
  PeerList <- MCPeerList
  NodeShard <- MCNodeShard
  NodeGroup <- MCNodeGroup
  Can146 = TRUE
  Can182 = TRUE
  SkipReserveInUse = FALSE
  MaxRetries = 1
  MaxAttempts = 1
  MaxCrashes = 0
  Maintenance = FALSE

SPECIFICATION FairSpec

PROPERTY EventuallyConverged
