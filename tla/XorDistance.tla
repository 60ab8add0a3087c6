---------------------------- MODULE XorDistance -----------------------------
(***************************************************************************)
(* Kademlia's identifiers and their XOR distance (libp2p-cat-kad:          *)
(* node_id.rs, distance.rs).                                               *)
(*                                                                         *)
(* A bit string is the set of the positions of its 1 bits, position 0      *)
(* being the least significant: a NodeId is a subset of the positions      *)
(* 0 .. NODE_ID_BITS - 1, and XOR is symmetric difference.                 *)
(***************************************************************************)
EXTENDS Naturals, FiniteSets, FiniteSetsExt

CONSTANTS NODE_ID_BITS,  \* 256 in the code
          self_id        \* the local node's NodeId

ASSUME BitsAssumption == NODE_ID_BITS \in Nat \ {0}

Positions == 0 .. (NODE_ID_BITS - 1)

NodeIds == SUBSET Positions

ASSUME SelfAssumption == self_id \in NodeIds

distance(a, b) == (a \ b) \cup (b \ a)

\* Ord of two distances as big-endian numbers: the highest bit in which they
\* differ decides.
Closer(d1, d2) == d1 # d2 /\ Max(distance(d1, d2)) \in d2

\* NODE_ID_BITS for the zero distance.
leading_zeros(d) == IF d = {} THEN NODE_ID_BITS ELSE NODE_ID_BITS - 1 - Max(d)

\* For a distance that is not zero; the local node has no bucket.
bucket_index(d) == NODE_ID_BITS - 1 - leading_zeros(d)

\* A distance as the number its bits stand for, the highest bit first.
Numeric(d) ==
  LET value[n \in 0 .. NODE_ID_BITS] ==
        IF n = 0 THEN 0
        ELSE 2 * value[n - 1] + (IF NODE_ID_BITS - n \in d THEN 1 ELSE 0)
  IN value[NODE_ID_BITS]

=============================================================================
