------------------------------ MODULE KadCodec ------------------------------
(***************************************************************************)
(* Kademlia frames and their wire encoding (libp2p-cat-kad, codec.rs).     *)
(***************************************************************************)
EXTENDS AddrCodec, XorDistance

CONSTANT NODE_ID_LEN   \* 32: bytes of a NodeId

BYTE_BITS == NODE_ID_BITS \div NODE_ID_LEN

ASSUME NodeIdLenAssumption ==
  /\ NODE_ID_LEN \in Nat \ {0} /\ BYTE_BITS \in Nat
  /\ NODE_ID_BITS = NODE_ID_LEN * BYTE_BITS /\ Base = 2 ^ BYTE_BITS

\* Opcode::to_byte
Opcode == [PingReq |-> 0, PingResp |-> 1, FindNodeReq |-> 2,
           FindNodeResp |-> 3]

Ping(op) == [op |-> op]
FindNodeReq(target) == [op |-> "FindNodeReq", target |-> target]
FindNodeResp(peers) == [op |-> "FindNodeResp", peers |-> peers]

\* The count of peers is one byte.
MAX_PEERS_PER_RESP == Base - 1

ENTRY_V6_LEN == NODE_ID_LEN + 1 + V6_LEN + PORT_LEN

\* NodeId::as_bytes, the most significant byte first, and its inverse.
as_bytes(id) ==
  [i \in 1 .. NODE_ID_LEN |->
     Numeric({p \in 0 .. (BYTE_BITS - 1) :
                (NODE_ID_LEN - i) * BYTE_BITS + p \in id})]

from_bytes(bytes) == CHOOSE id \in NodeIds : as_bytes(id) = bytes

-----------------------------------------------------------------------------

encode_entry(e) == as_bytes(e.id) \o encode_addr(e.addr)

\* One entry after the other.
encode_entries(peers) ==
  LET body[n \in 0 .. Len(peers)] ==
        IF n = 0 THEN << >> ELSE body[n - 1] \o encode_entry(peers[n])
  IN body[Len(peers)]

encode_find_node_resp(peers) ==
  IF Len(peers) > MAX_PEERS_PER_RESP THEN Err
  ELSE LET body == encode_entries(peers)
       IN Ok(<< Opcode.FindNodeResp, Len(peers) >> \o body, 2 + Len(body))

encode(frame) ==
  CASE frame.op = "FindNodeReq" ->
         Ok(<< Opcode.FindNodeReq >> \o as_bytes(frame.target),
            1 + NODE_ID_LEN)
    [] frame.op = "FindNodeResp" -> encode_find_node_resp(frame.peers)
    [] OTHER -> Ok(<< Opcode[frame.op] >>, 1)

decode_no_body(op, body) == IF body = << >> THEN Ok(Ping(op), 0) ELSE Err

decode_find_node_req(body) ==
  IF Len(body) = NODE_ID_LEN
  THEN Ok(FindNodeReq(from_bytes(body)), NODE_ID_LEN)
  ELSE Err

decode_entry(buf) ==
  LET addr == decode_addr(From(buf, NODE_ID_LEN)) IN
  IF Len(buf) < NODE_ID_LEN \/ ~ addr.ok THEN Err
  ELSE Ok([id |-> from_bytes(First(buf, NODE_ID_LEN)), addr |-> addr.value],
          NODE_ID_LEN + addr.consumed)

\* The entry after those of acc, from where the last of them ended.
decode_next(buf, acc) ==
  LET entry == decode_entry(From(buf, acc.consumed)) IN
  IF entry.ok
  THEN Ok(Append(acc.value, entry.value), acc.consumed + entry.consumed)
  ELSE Err

decode_entries(buf, count) ==
  LET entries[n \in 0 .. count] ==
        IF n = 0 THEN Ok(<< >>, 0)
        ELSE IF entries[n - 1].ok THEN decode_next(buf, entries[n - 1])
        ELSE Err
  IN entries[count]

decode_find_node_resp(body) ==
  IF body = << >> THEN Err
  ELSE LET peers == decode_entries(Tail(body), Head(body)) IN
       IF peers.ok /\ From(Tail(body), peers.consumed) = << >>
       THEN Ok(FindNodeResp(peers.value), Len(body))
       ELSE Err

\* Opcode::from_byte and the body of that opcode.
decode(bytes) ==
  IF bytes = << >> \/ ~ \E op \in DOMAIN Opcode : Opcode[op] = Head(bytes)
  THEN Err
  ELSE LET op == CHOOSE o \in DOMAIN Opcode : Opcode[o] = Head(bytes)
           body == Tail(bytes)
       IN CASE op = "FindNodeReq" -> decode_find_node_req(body)
            [] op = "FindNodeResp" -> decode_find_node_resp(body)
            [] OTHER -> decode_no_body(op, body)

=============================================================================
