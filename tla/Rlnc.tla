-------------------------------- MODULE Rlnc --------------------------------
(***************************************************************************)
(* What libp2p-cat-pubsub uses of the rlnc-cat-rs library: the coding      *)
(* vectors of pieces and the space that a receiver knows.                  *)
(*                                                                         *)
(* Coefficients are bits: a coding vector is the set of the original       *)
(* pieces it combines, and adding two vectors is symmetric difference.     *)
(* What matters of linear independence is the same over any field.         *)
(***************************************************************************)
EXTENDS Naturals, FiniteSets

CONSTANT piece_count   \* original pieces of a generation

ASSUME PieceCountAssumption == piece_count \in Nat \ {0}

Vectors == SUBSET (1 .. piece_count)

Add(v, w) == (v \ w) \cup (w \ v)

\* DecoderState::new: only the zero vector is known.
NothingKnown == {{}}

\* DecoderState::absorb: the space spanned by what was known and v.
absorb(known, v) == known \cup {Add(v, w) : w \in known}

\* DecoderState::is_complete
is_complete(known) == known = Vectors

\* DecoderState::useful_count: the dimension of a space.
useful_count(known) ==
  CHOOSE r \in 0 .. piece_count : 2 ^ r = Cardinality(known)

IsSpace(W) == {} \in W /\ \A v, w \in W : Add(v, w) \in W

\* Everything that vectors in S combine to: the least space they are in.
Span(S) ==
  {v \in Vectors :
     \A W \in SUBSET Vectors : IsSpace(W) /\ S \subseteq W => v \in W}

\* Recoder::recode_one: a random combination of the buffered pieces, which
\* may be any element of the space they span.
recode_one(known) == known

=============================================================================
