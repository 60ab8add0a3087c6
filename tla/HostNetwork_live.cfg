CONSTANTS
  Hosts = {1, 2, 3}
  Dialers = {1}
  trailers <- OwnTrailers
  MaxEphemeral = 2
  MaxSends = 1
  MaxForgedAnswers = 0
  Unreliable = FALSE
  Spoofing = FALSE
  Forgetting = FALSE
SPECIFICATION FairSpec
PROPERTIES
  DialCompletes
CHECK_DEADLOCK FALSE
