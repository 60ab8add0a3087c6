---------------------------- MODULE ByteStrings -----------------------------
(***************************************************************************)
(* Byte strings, and what the codecs of all protocols do with them.        *)
(*                                                                         *)
(* The width of a byte is a parameter, as are the widths of the fields in  *)
(* the codecs, so that all strings of a small width can be examined.  The  *)
(* result of a parser is Err, or Ok with a value and the number of bytes   *)
(* it consumed.                                                            *)
(***************************************************************************)
EXTENDS Naturals, Sequences

CONSTANT Base   \* 256: a byte is one of 0 .. Base - 1

ASSUME BaseAssumption == Base \in Nat \ {0, 1}

Byte == 0 .. (Base - 1)

Err == [ok |-> FALSE]
Ok(value, consumed) == [ok |-> TRUE, value |-> value, consumed |-> consumed]

\* bytes.get(n..).unwrap_or(&[])
From(bytes, n) == SubSeq(bytes, n + 1, Len(bytes))

\* bytes.get(..n), where there are as many
First(bytes, n) == SubSeq(bytes, 1, n)

\* How many integers have the given width.
Limit(width) ==
  LET power[i \in 0 .. width] == IF i = 0 THEN 1 ELSE power[i - 1] * Base
  IN power[width]

\* to_le_bytes and to_be_bytes of an integer of the given width.
to_le_bytes(n, width) ==
  LET rest[i \in 0 .. width] == IF i = 0 THEN n ELSE rest[i - 1] \div Base
  IN [i \in 1 .. width |-> rest[i - 1] % Base]

to_be_bytes(n, width) ==
  [i \in 1 .. width |-> to_le_bytes(n, width)[width + 1 - i]]

from_be_bytes(bytes) ==
  LET value[i \in 0 .. Len(bytes)] ==
        IF i = 0 THEN 0 ELSE value[i - 1] * Base + bytes[i]
  IN value[Len(bytes)]

from_le_bytes(bytes) ==
  from_be_bytes([i \in DOMAIN bytes |-> bytes[Len(bytes) + 1 - i]])

-----------------------------------------------------------------------------
(* What the properties of the codecs quantify over                         *)

\* Byte strings that differ from s by one truncation, extension or
\* substitution, and s.
Near(s) ==
  {s} \cup {First(s, n) : n \in 0 .. Len(s)}
      \cup {s \o << b >> : b \in Byte}
      \cup {[s EXCEPT ![i] = b] : i \in DOMAIN s, b \in Byte}

\* Byte strings of at most n bytes.
Short(n) == UNION {[1 .. i -> Byte] : i \in 0 .. n}

=============================================================================
