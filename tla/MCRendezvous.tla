---------------------------- MODULE MCRendezvous ----------------------------
(* An instance of Rendezvous for TLC, with bytes of 0 .. 7, IPv4 addresses *)
(* of one octet and IPv6 addresses of two.                                 *)
EXTENDS Rendezvous, TLC

V4(ip) == UdpAddr(ADDR_KIND_V4, << ip >>, 9, 0)

PublicAddr == V4(0)
NatAddrs == {V4(1), V4(2), V4(3)}

CONSTANTS c1, c2
TwoClients == {c1, c2}
TwoAddrs == c1 :> V4(1) @@ c2 :> V4(2)
\* The second client has no route to one of the addresses.
OutOfReach == c1 :> {} @@ c2 :> {V4(3)} @@ Server :> {}
Reason == << 1 >>

\* A payload that fits, and one that does not.
TwoPayloads == {<< 0 >>, << 0, 1 >>}
LongestDatagram == Len(encode(Frame("RelayDataReq", V4(1), << 0 >>)))

SomeAddrs ==
  {UdpAddr(ADDR_KIND_V4, << ip >>, port, 0) : ip \in {0, 6}, port \in {0, 14}}
  \cup {UdpAddr(ADDR_KIND_V6, << 4, 6 >>, port, scope) :
          port \in {4, 63}, scope \in {0, 1}}

FramesOfAllKinds ==
  {ObserveReq} \cup {Frame(op, a, << >>) : op \in AddrBody, a \in SomeAddrs}
  \cup {Frame(op, a, data) :
          op \in {"RelayDataReq", "RelayDataDeliver", "RelayFail"},
          a \in SomeAddrs, data \in {<< >>, << 4 >>, << 6, 1 >>}}

\* Every string of up to three bytes, and every near miss of a frame.
StringsAndNearMisses ==
  Short(3) \cup UNION {Near(encode(f)) : f \in FramesOfAllKinds}

=============================================================================
