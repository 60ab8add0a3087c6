CONSTANTS
  NODE_ID_BITS = 3
  NODE_ID_LEN = 1
  Base = 8
  V4_LEN = 1
  V6_LEN = 2
  self_id <- LocalId
  k = 2
  Peers <- TwoPeers
  Addrs <- TwoAddrs
  PeerAt <- TheirPeers
  Unroutable <- NoRoute
  MaxPlaintext <- LongestKad
  MaxDatagram <- LongestDatagram
  MaxAdvertised = 1
  alpha = 2
  lookup_k = 2
  max_rounds = 2
  max_recv_per_round = 2
  Targets <- SomeTargets
  MaxLookups = 1
  piece_count = 1
  Topics = {1}
  Generations = {1}
  WellFormed = {1}
  MaxTick = 2
  MaxIdle = 0
SPECIFICATION MultiSpec
INVARIANTS
  PeersOffered
PROPERTIES
  LookupSpec
  DrainSurvives
CHECK_DEADLOCK FALSE
