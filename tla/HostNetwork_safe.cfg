CONSTANTS
  Hosts = {1, 2}
  Dialers = {1, 2}
  trailers <- AnyTrailers
  MaxEphemeral = 2
  MaxSends = 2
  MaxForgedAnswers = 1
  Unreliable = TRUE
  Spoofing = TRUE
  Forgetting = TRUE
SPECIFICATION Spec
CONSTRAINT FewForgedAnswers
INVARIANTS
  NonceNeverReused
  MutualConnectionsAgree
  SlotsOnlyForReachable
  PeersAgree
CHECK_DEADLOCK FALSE
