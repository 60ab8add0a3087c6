----------------------------- MODULE AddrCodec ------------------------------
(***************************************************************************)
(* Socket addresses on the wire, as the Kademlia and the rendezvous codec  *)
(* write them (their two copies of encode_addr and decode_addr agree):     *)
(* a kind byte, the octets of the IP, the port in big-endian order.        *)
(***************************************************************************)
EXTENDS ByteStrings

CONSTANTS V4_LEN,   \* 4: octets of an IPv4 address
          V6_LEN    \* 16: octets of an IPv6 address

ASSUME WidthsAssumption ==
  Base > 6 /\ V4_LEN \in Nat /\ V6_LEN \in Nat /\ V4_LEN <= V6_LEN

ADDR_KIND_V4 == 4
ADDR_KIND_V6 == 6
PORT_LEN == 2

\* scope stands for the flowinfo and the scope_id of an IPv6 address.
UdpAddr(kind, ip, port, scope) ==
  [kind |-> kind, ip |-> ip, port |-> port, scope |-> scope]

IsAddr(addr) ==
  /\ addr = UdpAddr(addr.kind, addr.ip, addr.port, addr.scope)
  /\ \/ addr.kind = ADDR_KIND_V4 /\ addr.ip \in [1 .. V4_LEN -> Byte]
     \/ addr.kind = ADDR_KIND_V6 /\ addr.ip \in [1 .. V6_LEN -> Byte]
  /\ addr.port \in 0 .. (Base * Base - 1) /\ addr.scope \in Nat

\* What the wire format keeps of an address.
Unscoped(addr) == [addr EXCEPT !.scope = 0]

encode_addr(addr) ==
  << addr.kind >> \o addr.ip \o to_be_bytes(addr.port, PORT_LEN)

\* decode_addr_v4 and decode_addr_v6, by the width of the IP.
decode_body(kind, width, body) ==
  IF Len(body) < width + PORT_LEN THEN Err
  ELSE Ok(UdpAddr(kind, First(body, width),
                  from_be_bytes(First(From(body, width), PORT_LEN)), 0),
          1 + width + PORT_LEN)

decode_addr(buf) ==
  IF buf = << >> THEN Err
  ELSE CASE Head(buf) = ADDR_KIND_V4 ->
              decode_body(ADDR_KIND_V4, V4_LEN, Tail(buf))
         [] Head(buf) = ADDR_KIND_V6 ->
              decode_body(ADDR_KIND_V6, V6_LEN, Tail(buf))
         [] OTHER -> Err

=============================================================================
