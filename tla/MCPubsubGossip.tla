--------------------------- MODULE MCPubsubGossip ---------------------------
(***************************************************************************)
(* Three relays in a triangle: "S" feeds one of them, and another feeds    *)
(* the decoder "D", which broadcasts a piece of another generation.        *)
(***************************************************************************)
EXTENDS PubsubGossip, FiniteSetsExt

MCLinks == {{"S", "A"}, {"A", "B"}, {"B", "C"}, {"A", "C"}, {"C", "D"}}

MCNumPieces == [n \in {"S", "D"} |-> IF n = "S" THEN 2 ELSE 1]

MCTopic == << 1, 2 >>

\* A fingerprint of the generation, and what no other piece has.
Bits(vec) == SumSet({2 ^ (i - 1) : i \in vec})
MCcombination(gen, vec) == << gen * Bits(vec) >>
MCcommit(a, gen) == IF a = "Null" THEN << >> ELSE << gen >>
MCtag(a, gen, vec) == IF a = "Null" THEN << >> ELSE << gen, Bits(vec) >>

=============================================================================
