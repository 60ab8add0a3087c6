SPECIFICATION Spec
CONSTANTS
  Base = 8
  V4_LEN = 1
  V6_LEN = 2
  c1 = c1
  c2 = c2
  Clients <- TwoClients
  FirstAddr <- TwoAddrs
  Unroutable <- OutOfReach
  Server = server
  ServerAddr <- PublicAddr
  ClientAddrs <- NatAddrs
  MAX_DATAGRAM <- LongestDatagram
  no_session <- Reason
  Payloads <- TwoPayloads
  SomeFrames <- FramesOfAllKinds
  SomeStrings <- StringsAndNearMisses
  MaxDials = 2
  MaxCalls = 2
  MaxFaults = 2
INVARIANTS ServerSurvives  WireExact
PROPERTIES ObserveReturns PunchOpens
CHECK_DEADLOCK FALSE
