------------------------ MODULE MCMultiProtocolNode -------------------------
(* An instance of MultiProtocolNode for TLC, with bytes of 0 .. 7, so that *)
(* an identifier is one of them.                                           *)
EXTENDS MultiProtocolNode, TLC

LocalId == {}

V4(ip) == UdpAddr(ADDR_KIND_V4, << ip >>, 9, 0)

TwoAddrs == {V4(1), V4(2)}

NoRoute == {V4(0)}

TwoPeers == {{0}, {1}}

TheirPeers == V4(1) :> {0} @@ V4(2) :> {1}

SomeTargets == {{0, 1}}

\* An opcode, a count and two entries; a kind byte in front.
LongestKad == 2 + 2 * ENTRY_V6_LEN

LongestDatagram == KIND_LEN + LongestKad

=============================================================================
