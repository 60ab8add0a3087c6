SPECIFICATION Spec
CONSTANTS
  piece_count = 2
  source = "S"
  Relays = {"A", "B", "C"}
  Decoders = {"D"}
  Strangers = {"D"}
  Links <- MCLinks
  NumPieces <- MCNumPieces
  auth = "Lattice"
  Topic <- MCTopic
  piece_byte_len = 1
  combination <- MCcombination
  commit <- MCcommit
  tag <- MCtag
  Base = 8
  Printable = {1, 2}
  U32_LEN = 1
  FINGERPRINT_LEN = 1
  KEYED_HASH_TAG_LEN = 2
  LHS_TAG_ENTRY_LEN = 2
INVARIANTS OnlySourcePieces
PROPERTIES FramesExact CirculationEnds
CHECK_DEADLOCK FALSE
