CONSTANTS
  NODE_ID_BITS = 3
  NODE_ID_LEN = 1
  Base = 8
  V4_LEN = 1
  V6_LEN = 2
  self_id <- LocalId
  Peers <- SomePeers
  Targets <- SomeTargets
  k = 2
  Addrs <- SomeAddrs
  MaxAdvertised = 1
  MaxPlaintext <- LongestPlaintext
SPECIFICATION Spec
INVARIANTS
  BucketsSound
  RecencyOrder
  AnswerExact
  NodeSurvives
PROPERTIES
  OldPeersKept
