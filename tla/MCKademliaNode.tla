--------------------------- MODULE MCKademliaNode ---------------------------
(* An instance of KademliaNode for TLC, with bytes of 0 .. 7, so that an   *)
(* identifier is one of them.                                              *)
EXTENDS KademliaNode

\* 101 in binary; the identifiers of the others fall in two buckets, one of
\* which has more candidates than room.
LocalId == {0, 2}

\* 100, and 000, 010, 011.
SomePeers == {{2}, {}, {1}, {0, 1}}

\* The node itself, a peer, and two identifiers nobody has: 001 shares no
\* prefix with the node, 111 shares one bit.
SomeTargets == {{0, 2}, {0, 1}, {0}, {0, 1, 2}}

\* One of each family.
SomeAddrs == {UdpAddr(ADDR_KIND_V4, << 6 >>, 4, 0),
              UdpAddr(ADDR_KIND_V6, << 1, 7 >>, 63, 0)}

\* Two IPv6 entries, to the byte.
LongestPlaintext == 2 + 2 * ENTRY_V6_LEN

=============================================================================
