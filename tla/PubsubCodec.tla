---------------------------- MODULE PubsubCodec -----------------------------
(***************************************************************************)
(* Pubsub frames on the wire (libp2p-cat-pubsub: codec.rs, auth.rs,        *)
(* topic.rs): a topic, the dimensions of the generation, the commitment    *)
(* and the tag in the widths of the authenticator, and the coded piece.    *)
(*                                                                         *)
(* The type parameter A of the code is the parameter auth here.            *)
(***************************************************************************)
EXTENDS ByteStrings

CONSTANTS Printable,          \* 0x21 .. 0x7E: what topics are made of
          U32_LEN,            \* 4: bytes of a u32
          FINGERPRINT_LEN,    \* 32: BLAKE3_FINGERPRINT_LEN
          KEYED_HASH_TAG_LEN, \* 32
          LHS_TAG_ENTRY_LEN   \* 8: bytes of an i64

Authenticators == {"Null", "KeyedHash", "Lattice"}

ASSUME CodecAssumption ==
  /\ Printable \subseteq Byte
  /\ {U32_LEN, FINGERPRINT_LEN, KEYED_HASH_TAG_LEN, LHS_TAG_ENTRY_LEN}
       \subseteq Nat \ {0}

-----------------------------------------------------------------------------
(* WireAuthenticator                                                       *)

\* The next width bytes, as they are.
Fixed(bytes, width) ==
  IF Len(bytes) < width THEN Err ELSE Ok(First(bytes, width), width)

\* A unit for NullAuthenticator, a fingerprint for the others.
commitment_to_vec(auth, commitment) == commitment

commitment_from_bytes(auth, bytes) ==
  Fixed(bytes, IF auth = "Null" THEN 0 ELSE FINGERPRINT_LEN)

\* One integer after the other.
lattice_entries_to_vec(tag) ==
  LET body[n \in 0 .. Len(tag)] ==
        IF n = 0 THEN << >>
        ELSE body[n - 1] \o to_le_bytes(tag[n], LHS_TAG_ENTRY_LEN)
  IN body[Len(tag)]

\* The tag of the lattice authenticator is a vector of integers, preceded by
\* its length; the length is capped where it does not fit.
tag_to_vec(auth, tag) ==
  IF auth # "Lattice" THEN tag
  ELSE LET cap == Limit(U32_LEN) - 1
           len == IF Len(tag) > cap THEN cap ELSE Len(tag)
       IN to_be_bytes(len, U32_LEN) \o lattice_entries_to_vec(tag)

lattice_tag_from_bytes(bytes) ==
  LET entry_count == from_be_bytes(First(bytes, U32_LEN))
      body_end == U32_LEN + entry_count * LHS_TAG_ENTRY_LEN
      entry(i) == SubSeq(bytes, U32_LEN + (i - 1) * LHS_TAG_ENTRY_LEN + 1,
                         U32_LEN + i * LHS_TAG_ENTRY_LEN)
  IN IF Len(bytes) < U32_LEN \/ Len(bytes) < body_end THEN Err
     ELSE Ok([i \in 1 .. entry_count |-> from_le_bytes(entry(i))], body_end)

\* Mutant: the bytes of the length prefix are not counted.
tag_from_bytes_short(auth, bytes) ==
  CASE auth = "Null" -> Fixed(bytes, 0)
    [] auth = "KeyedHash" -> Fixed(bytes, KEYED_HASH_TAG_LEN)
    [] auth = "Lattice" ->
         LET entries == lattice_tag_from_bytes(bytes)
         IN IF entries.ok THEN Ok(entries.value, entries.consumed - U32_LEN)
            ELSE Err

tag_from_bytes(auth, bytes) ==
  CASE auth = "Null" -> Fixed(bytes, 0)
    [] auth = "KeyedHash" -> Fixed(bytes, KEYED_HASH_TAG_LEN)
    [] auth = "Lattice" -> lattice_tag_from_bytes(bytes)

-----------------------------------------------------------------------------
(* Frames                                                                  *)

\* The length of a topic is one byte.
MAX_TOPIC_LEN == Base - 1

\* Topic::new
IsTopic(name) ==
  /\ Len(name) \in 1 .. MAX_TOPIC_LEN
  /\ \A i \in DOMAIN name : name[i] \in Printable

\* CodedPiece (external): a coefficient for each original piece, the data.
CodedPiece(coefficients, data) ==
  [coefficients |-> coefficients, data |-> data]

piece_from_bytes(bytes, piece_count) ==
  IF Len(bytes) < piece_count THEN Err
  ELSE Ok(CodedPiece(First(bytes, piece_count), From(bytes, piece_count)),
          Len(bytes))

WirePiece(commitment, piece, tag) ==
  [commitment |-> commitment, piece |-> piece, tag |-> tag]

\* k and b: the dimensions of the generation, in the header.
PubsubFrame(topic, k, b, wire_piece) ==
  [topic |-> topic, k |-> k, b |-> b, wire_piece |-> wire_piece]

encode(auth, frame) ==
  IF \E n \in {frame.k, frame.b} : n >= Limit(U32_LEN) THEN Err
  ELSE LET wp == frame.wire_piece
           bytes == << Len(frame.topic) >> \o frame.topic
                      \o to_be_bytes(frame.k, U32_LEN)
                      \o to_be_bytes(frame.b, U32_LEN)
                      \o commitment_to_vec(auth, wp.commitment)
                      \o tag_to_vec(auth, wp.tag)
                      \o wp.piece.coefficients \o wp.piece.data
       IN Ok(bytes, Len(bytes))

\* The commitment, the tag and the piece, one behind the other; b is not
\* compared with the length of the data.
decode_wire_piece(auth, buffer, k) ==
  LET commitment == commitment_from_bytes(auth, buffer)
      after == From(buffer, commitment.consumed)
      read == tag_from_bytes(auth, after)
      piece == piece_from_bytes(From(after, read.consumed), k)
  IN IF commitment.ok /\ read.ok /\ piece.ok
     THEN Ok(WirePiece(commitment.value, piece.value, read.value), Len(buffer))
     ELSE Err

decode(auth, bytes) ==
  LET topic_len == Head(bytes)
      header_end == 1 + topic_len + 2 * U32_LEN
      topic == SubSeq(bytes, 2, 1 + topic_len)
      k == from_be_bytes(First(From(bytes, 1 + topic_len), U32_LEN))
      b == from_be_bytes(First(From(bytes, 1 + topic_len + U32_LEN), U32_LEN))
      wire_piece == decode_wire_piece(auth, From(bytes, header_end), k)
  IN IF bytes = << >> \/ Len(bytes) < header_end THEN Err
     ELSE IF ~ IsTopic(topic) \/ ~ wire_piece.ok THEN Err
     ELSE Ok(PubsubFrame(topic, k, b, wire_piece.value), Len(bytes))

-----------------------------------------------------------------------------
(* To state properties with                                                *)

\* Commitments and tags, as the authenticators make them.
IsCommitment(auth, commitment) ==
  commitment \in [1 .. (IF auth = "Null" THEN 0 ELSE FINGERPRINT_LEN) -> Byte]

IsTag(auth, tag) ==
  CASE auth = "Null" -> tag = << >>
    [] auth = "KeyedHash" -> tag \in [1 .. KEYED_HASH_TAG_LEN -> Byte]
    [] auth = "Lattice" -> /\ tag \in Seq(0 .. (Limit(LHS_TAG_ENTRY_LEN) - 1))
                           /\ Len(tag) < Limit(U32_LEN)

\* A frame with a piece of the dimensions in its header.
IsPubsubFrame(auth, frame) ==
  LET wp == frame.wire_piece IN
  /\ frame = PubsubFrame(frame.topic, frame.k, frame.b, wp)
  /\ wp = WirePiece(wp.commitment, wp.piece, wp.tag)
  /\ wp.piece = CodedPiece(wp.piece.coefficients, wp.piece.data)
  /\ IsTopic(frame.topic) /\ frame.topic \in Seq(Byte)
  /\ frame.k \in 0 .. (Limit(U32_LEN) - 1)
  /\ frame.b \in 0 .. (Limit(U32_LEN) - 1)
  /\ IsCommitment(auth, wp.commitment) /\ IsTag(auth, wp.tag)
  /\ wp.piece.coefficients \in [1 .. frame.k -> Byte]
  /\ wp.piece.data \in Seq(Byte)

\* decode inverts encode, and accepts nothing near what encode writes that
\* encode would not have written itself.
Exact(auth, frame) ==
  LET bytes == encode(auth, frame).value IN
  /\ decode(auth, bytes) = Ok(frame, Len(bytes))
  /\ \A other \in Near(bytes) :
       LET d == decode(auth, other)
       IN d.ok => encode(auth, d.value) = Ok(other, Len(other))

=============================================================================
