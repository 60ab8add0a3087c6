-------------------------- MODULE RendezvousCodec ---------------------------
(***************************************************************************)
(* Rendezvous frames and their wire encoding (libp2p-cat-rendezvous,       *)
(* codec.rs).                                                              *)
(***************************************************************************)
EXTENDS AddrCodec

\* Opcode::to_byte
Opcode == [ObserveReq |-> 0, ObserveResp |-> 1, PunchReq |-> 2,
           PunchForward |-> 3, RelayDataReq |-> 4, RelayDataDeliver |-> 5,
           RelayFail |-> 6]

\* The address a frame carries, and its payload or reason.
Frame(op, addr, data) == [op |-> op, addr |-> addr, data |-> data]

ObserveReq == [op |-> "ObserveReq"]

\* Frames whose body is one address and nothing else.
AddrBody == {"ObserveResp", "PunchReq", "PunchForward"}

\* core::str::from_utf8 (external): the last byte stands for those that are
\* not text.
from_utf8(bytes) == \A i \in DOMAIN bytes : bytes[i] # Base - 1

IsFrame(frame) ==
  \/ frame = ObserveReq
  \/ /\ frame = Frame(frame.op, frame.addr, frame.data)
     /\ frame.op \in DOMAIN Opcode \ {"ObserveReq"}
     /\ IsAddr(frame.addr) /\ frame.data \in Seq(Byte)
     /\ frame.op \in AddrBody => frame.data = << >>
     /\ frame.op = "RelayFail" => from_utf8(frame.data)

encode(frame) ==
  << Opcode[frame.op] >> \o
    (IF frame.op = "ObserveReq" THEN << >>
     ELSE encode_addr(frame.addr) \o frame.data)

decode_observe_req(body) ==
  IF body = << >> THEN Ok(ObserveReq, 0) ELSE Err

\* Mutant: bytes after the address are ignored.
decode_addr_body_lax(op, body) ==
  LET addr == decode_addr(body) IN
  IF addr.ok THEN Ok(Frame(op, addr.value, << >>), Len(body)) ELSE Err

decode_addr_body(op, body) ==
  LET addr == decode_addr(body) IN
  IF addr.ok /\ From(body, addr.consumed) = << >>
  THEN Ok(Frame(op, addr.value, << >>), Len(body))
  ELSE Err

\* decode_relay_data_req, decode_relay_data_deliver and decode_relay_fail:
\* what follows the address is the payload, or the reason.
decode_relay(op, body) ==
  LET addr == decode_addr(body) IN
  IF /\ addr.ok
     /\ op = "RelayFail" => from_utf8(From(body, addr.consumed))
  THEN Ok(Frame(op, addr.value, From(body, addr.consumed)), Len(body))
  ELSE Err

\* Opcode::from_byte and the body of that opcode.
decode(bytes) ==
  IF bytes = << >> \/ ~ \E op \in DOMAIN Opcode : Opcode[op] = Head(bytes)
  THEN Err
  ELSE LET op == CHOOSE o \in DOMAIN Opcode : Opcode[o] = Head(bytes)
           body == Tail(bytes)
       IN CASE op = "ObserveReq" -> decode_observe_req(body)
            [] op \in AddrBody -> decode_addr_body(op, body)
            [] OTHER -> decode_relay(op, body)

-----------------------------------------------------------------------------
(* To state properties with                                                *)

\* decode inverts encode, up to the IPv6 scope that the wire drops.
Survives(frame) ==
  LET d == decode(encode(frame))
  IN d.ok /\ d.value = IF frame.op = "ObserveReq" THEN frame
                       ELSE [frame EXCEPT !.addr = Unscoped(@)]

\* What decode accepts is exactly what encode would have written.
ReadAsWritten(bytes) ==
  LET d == decode(bytes) IN d.ok => encode(d.value) = bytes

=============================================================================
