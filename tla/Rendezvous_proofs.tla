-------------------------- MODULE Rendezvous_proofs -------------------------
(***************************************************************************)
(* Proofs about Rendezvous, for any clients, addresses and payloads, and   *)
(* any number of calls, rebindings, evictions and losses: the codec reads  *)
(* what was written and nothing else, no request ends the server, and      *)
(* relayed payloads reach whom they are for or are reported.               *)
(***************************************************************************)
EXTENDS Rendezvous, Values_proofs

-----------------------------------------------------------------------------
(* Opcodes                                                                 *)

Ops == {"ObserveReq", "ObserveResp", "PunchReq", "PunchForward",
        "RelayDataReq", "RelayDataDeliver", "RelayFail"}

LEMMA OpcodeFacts ==
  /\ DOMAIN Opcode = Ops
  /\ \A op \in Ops : Opcode[op] \in Byte /\ Opcode[op] \in Nat
  /\ \A o, p \in Ops : Opcode[o] = Opcode[p] => o = p
<1>1. DOMAIN Opcode = Ops
  BY DEF Opcode, Ops
<1>2. /\ Opcode["ObserveReq"] = 0 /\ Opcode["ObserveResp"] = 1
      /\ Opcode["PunchReq"] = 2 /\ Opcode["PunchForward"] = 3
      /\ Opcode["RelayDataReq"] = 4 /\ Opcode["RelayDataDeliver"] = 5
      /\ Opcode["RelayFail"] = 6
  BY DEF Opcode
<1>3. 0 .. 6 \subseteq Byte
  BY BaseAssumption, WidthsAssumption DEF Byte
<1>4. \A op \in Ops : Opcode[op] \in 0 .. 6
  BY <1>2 DEF Ops
<1>5. \A o, p \in Ops : Opcode[o] = Opcode[p] => o = p
  BY <1>2 DEF Ops
<1> QED
  BY <1>1, <1>3, <1>4, <1>5

\* The opcode is read as it was written.
LEMMA ChosenOpcode ==
  ASSUME NEW op \in Ops
  PROVE  (CHOOSE o \in DOMAIN Opcode : Opcode[o] = Opcode[op]) = op
<1>1. \E o \in DOMAIN Opcode : Opcode[o] = Opcode[op]
  BY OpcodeFacts
<1> DEFINE x == CHOOSE o \in DOMAIN Opcode : Opcode[o] = Opcode[op]
<1>2. x \in DOMAIN Opcode /\ Opcode[x] = Opcode[op]
  BY <1>1
<1> HIDE DEF x
<1>3. x = op
  BY <1>2, OpcodeFacts
<1> QED
  BY <1>3 DEF x

LEMMA BytesAreNaturals ==
  ASSUME NEW s \in Seq(Byte)
  PROVE  s \in Seq(Nat)
<1>1. Byte \subseteq Nat
  BY BaseAssumption DEF Byte
<1>2. s \in [1 .. Len(s) -> Byte] /\ Len(s) \in Nat
  BY LenProperties
<1>3. s \in [1 .. Len(s) -> Nat]
  BY <1>1, <1>2
<1> QED
  BY <1>2, <1>3, FunctionIsSeq

-----------------------------------------------------------------------------
(* Frames                                                                  *)

\* An opcode and a body, taken apart.
LEMMA OpAndBody ==
  ASSUME NEW op \in Ops, NEW body \in Seq(Nat)
  PROVE  LET bytes == << Opcode[op] >> \o body
         IN /\ bytes # << >> /\ Head(bytes) = Opcode[op] /\ Tail(bytes) = body
            /\ bytes \in Seq(Nat) /\ Len(bytes) = 1 + Len(body)
<1> DEFINE o == << Opcode[op] >>
           bytes == o \o body
<1>1. o \in Seq(Nat) /\ Len(o) = 1 /\ o[1] = Opcode[op]
  BY OpcodeFacts
<1> HIDE DEF o
<1>2. /\ bytes \in Seq(Nat) /\ Len(bytes) = 1 + Len(body) /\ HasAt(bytes, 0, o)
      /\ From(bytes, 1) = body
  BY <1>1, ConcatParts
<1> HIDE DEF bytes
<1>3. bytes # << >>
  <2>1. Len(body) \in Nat
    OBVIOUS
  <2>2. Len(bytes) # 0
    BY <1>2, <2>1
  <2> QED
    BY <2>2
<1>4. Head(bytes) = bytes[1] /\ Tail(bytes) = From(bytes, 1)
  BY <1>2, <1>3, TailIsFrom
<1>5. bytes[1] = o[1]
  <2>1. 1 \in 1 .. Len(o) /\ 0 + 1 <= Len(bytes)
    BY <1>1, <1>2
  <2> QED
    BY <1>2, <2>1 DEF HasAt
<1> QED
  BY <1>1, <1>2, <1>3, <1>4, <1>5 DEF bytes, o

\* What is written for a frame with an address.
LEMMA FrameBytes ==
  ASSUME NEW frame, IsFrame(frame), frame # ObserveReq
  PROVE  LET body == encode_addr(frame.addr) \o frame.data
         IN /\ frame.op \in Ops \ {"ObserveReq"}
            /\ encode(frame) = << Opcode[frame.op] >> \o body
            /\ body \in Seq(Nat)
            /\ Len(encode(frame)) =
                 (1 + Len(encode_addr(frame.addr))) + Len(frame.data)
            /\ decode_addr(body) =
                 Ok(Unscoped(frame.addr), Len(encode_addr(frame.addr)))
            /\ From(body, Len(encode_addr(frame.addr))) = frame.data
<1> DEFINE addr == encode_addr(frame.addr)
           data == frame.data
           body == addr \o data
<1>1. /\ frame.op \in Ops \ {"ObserveReq"} /\ IsAddr(frame.addr)
      /\ data \in Seq(Byte)
  BY OpcodeFacts DEF IsFrame
<1>2. addr \in Seq(Nat) /\ Len(addr) \in Nat
  BY <1>1, AddrBytes
<1>3. data \in Seq(Nat) /\ Len(data) \in Nat
  BY <1>1, BytesAreNaturals
<1>4. encode(frame) = << Opcode[frame.op] >> \o body
  BY <1>1 DEF encode
<1> HIDE DEF addr, data
<1>5. /\ HasAt(body, 0, addr) /\ From(body, Len(addr)) = data
      /\ body \in Seq(Nat) /\ Len(body) = Len(addr) + Len(data)
  BY <1>2, <1>3, ConcatParts
<1> HIDE DEF body
<1>6. Len(<< Opcode[frame.op] >> \o body) = 1 + Len(body)
  BY <1>1, <1>5, OpAndBody
<1>7. Len(encode(frame)) = (1 + Len(addr)) + Len(data)
  BY <1>2, <1>3, <1>4, <1>5, <1>6
<1>8. Len(addr) <= Len(body)
  BY <1>2, <1>3, <1>5
<1>9. decode_addr(body) = Ok(Unscoped(frame.addr), Len(addr))
  BY <1>1, <1>5, <1>8, DecodeAddr DEF addr
<1> QED
  BY <1>1, <1>4, <1>5, <1>7, <1>9 DEF addr, data, body

\* Every frame is read as it was written, but for the scope of its address
\* (codec.rs, encode and decode).
THEOREM FramesSurvive == \A frame : IsFrame(frame) => Survives(frame)
<1> SUFFICES ASSUME NEW frame, IsFrame(frame) PROVE Survives(frame)
  OBVIOUS
<1>1. CASE frame = ObserveReq
  <2> DEFINE bytes == << Opcode["ObserveReq"] >> \o << >>
  <2>1. << >> \in Seq(Nat) /\ "ObserveReq" \in Ops
    BY DEF Ops
  <2>2. /\ bytes # << >> /\ Head(bytes) = Opcode["ObserveReq"]
        /\ Tail(bytes) = << >>
    BY <2>1, OpAndBody
  <2>3. ObserveReq.op = "ObserveReq"
    BY DEF ObserveReq
  <2>4. encode(ObserveReq) = bytes
    BY <2>3 DEF encode
  <2> HIDE DEF bytes
  <2>5. (CHOOSE o \in DOMAIN Opcode : Opcode[o] = Head(bytes)) = "ObserveReq"
    BY <2>1, <2>2, ChosenOpcode
  <2>6. \E op \in DOMAIN Opcode : Opcode[op] = Head(bytes)
    BY <2>1, <2>2, OpcodeFacts
  <2>7. decode(bytes) = Ok(ObserveReq, 0)
    BY <2>2, <2>5, <2>6 DEF decode, decode_observe_req, AddrBody
  <2> QED
    BY <1>1, <2>3, <2>4, <2>7 DEF Survives, Ok
<1>2. CASE frame # ObserveReq
  <2> DEFINE addr == encode_addr(frame.addr)
             body == addr \o frame.data
             bytes == << Opcode[frame.op] >> \o body
             read == [frame EXCEPT !.addr = Unscoped(@)]
  <2>1. /\ frame.op \in Ops \ {"ObserveReq"} /\ encode(frame) = bytes
        /\ body \in Seq(Nat) /\ decode_addr(body) = Ok(Unscoped(frame.addr), Len(addr))
        /\ From(body, Len(addr)) = frame.data
    BY <1>2, FrameBytes
  <2>2. /\ frame = Frame(frame.op, frame.addr, frame.data)
        /\ frame.op \in AddrBody => frame.data = << >>
        /\ frame.op = "RelayFail" => from_utf8(frame.data)
    BY <1>2 DEF IsFrame
  <2>3. read = Frame(frame.op, Unscoped(frame.addr), frame.data)
    BY <2>2 DEF Frame
  <2> HIDE DEF body, addr
  <2>4. bytes # << >> /\ Head(bytes) = Opcode[frame.op] /\ Tail(bytes) = body
    BY <2>1, OpAndBody
  <2> HIDE DEF bytes, read
  <2>5. (CHOOSE o \in DOMAIN Opcode : Opcode[o] = Head(bytes)) = frame.op
    BY <2>1, <2>4, ChosenOpcode
  <2>6. \E op \in DOMAIN Opcode : Opcode[op] = Head(bytes)
    BY <2>1, <2>4, OpcodeFacts
  <2>7. /\ decode_addr(body).ok /\ decode_addr(body).value = Unscoped(frame.addr)
        /\ decode_addr(body).consumed = Len(addr)
    BY <2>1 DEF Ok
  <2>8. CASE frame.op \in AddrBody
    <3>1. decode(bytes) = decode_addr_body(frame.op, body)
      BY <2>1, <2>4, <2>5, <2>6, <2>8 DEF decode
    <3>2. decode_addr_body(frame.op, body) = Ok(read, Len(body))
      BY <2>1, <2>2, <2>3, <2>7, <2>8 DEF decode_addr_body
    <3> QED
      BY <2>1, <3>1, <3>2 DEF Survives, Ok, read
  <2>9. CASE frame.op \notin AddrBody
    <3>1. decode(bytes) = decode_relay(frame.op, body)
      BY <2>1, <2>4, <2>5, <2>6, <2>9 DEF decode
    <3>2. decode_relay(frame.op, body) = Ok(read, Len(body))
      BY <2>1, <2>2, <2>3, <2>7, <2>9 DEF decode_relay
    <3> QED
      BY <2>1, <3>1, <3>2 DEF Survives, Ok, read
  <2> QED
    BY <2>8, <2>9
<1> QED
  BY <1>1, <1>2

\* Whatever is read as a frame is what would have been written for it: no
\* byte string but that passes for it (codec.rs, decode).
THEOREM StringsReadAsWritten == \A bytes \in Seq(Byte) : ReadAsWritten(bytes)
<1> SUFFICES ASSUME NEW bytes \in Seq(Byte), decode(bytes).ok
             PROVE  encode(decode(bytes).value) = bytes
  BY DEF ReadAsWritten
<1>1. bytes # << >> /\ \E op \in DOMAIN Opcode : Opcode[op] = Head(bytes)
  BY DEF decode, Err
<1> DEFINE op == CHOOSE o \in DOMAIN Opcode : Opcode[o] = Head(bytes)
           body == Tail(bytes)
           addr == decode_addr(body)
           rest == From(body, addr.consumed)
<1>2. op \in Ops /\ Opcode[op] = Head(bytes)
  BY <1>1, OpcodeFacts
<1>3. /\ body \in Seq(Byte) /\ Head(bytes) = bytes[1]
      /\ bytes = << bytes[1] >> \o body
  <2>1. body = From(bytes, 1) /\ Head(bytes) = bytes[1]
        /\ body \in Seq(Byte) /\ 1 \in 0 .. Len(bytes)
    BY <1>1, TailIsFrom
  <2>2. First(bytes, 1) = << bytes[1] >>
    <3>1. /\ First(bytes, 1) \in Seq(Byte) /\ Len(First(bytes, 1)) = 1
          /\ \A i \in 1 .. 1 : First(bytes, 1)[i] = bytes[i]
      BY <2>1, FirstFacts
    <3>2. << bytes[1] >> \in Seq(Byte) /\ Len(<< bytes[1] >>) = 1
          /\ \A i \in 1 .. 1 : << bytes[1] >>[i] = bytes[i]
      BY <2>1
    <3> QED
      BY <3>1, <3>2, SeqEqual
  <2>3. First(bytes, 1) \o From(bytes, 1) = bytes
    BY <2>1, FirstThenFrom
  <2> QED
    BY <2>1, <2>2, <2>3
<1>4. << Opcode[op] >> \o body = bytes
  BY <1>2, <1>3
<1>5. CASE op = "ObserveReq"
  <2>1. decode(bytes) = decode_observe_req(body)
    BY <1>1, <1>5 DEF decode, AddrBody
  <2> HIDE DEF op, body
  <2>2. body = << >> /\ decode(bytes).value = ObserveReq
    BY <2>1 DEF decode_observe_req, Ok, Err
  <2>3. encode(ObserveReq) = << Opcode["ObserveReq"] >> \o << >>
    BY DEF encode, ObserveReq
  <2> QED
    BY <1>4, <1>5, <2>2, <2>3
<1>6. ASSUME addr.ok PROVE encode_addr(addr.value) \o rest = body
  <2> HIDE DEF op, body
  <2>1. /\ addr.consumed \in 0 .. Len(body)
        /\ encode_addr(addr.value) = First(body, addr.consumed)
    BY <1>3, <1>6, AddrWritten
  <2> HIDE DEF addr
  <2> QED
    BY <1>3, <2>1, FirstThenFrom
<1>7. ASSUME op # "ObserveReq", addr.ok,
             decode(bytes).value = Frame(op, addr.value, rest)
      PROVE  encode(decode(bytes).value) = bytes
  <2> HIDE DEF op, body, addr, rest
  <2> DEFINE frame == Frame(op, addr.value, rest)
  <2>1. frame.op = op /\ frame.addr = addr.value /\ frame.data = rest
    BY DEF Frame
  <2> HIDE DEF frame
  <2>2. encode(frame) = << Opcode[op] >> \o (encode_addr(addr.value) \o rest)
    BY <1>7, <2>1 DEF encode
  <2> QED
    BY <1>4, <1>6, <1>7, <2>2 DEF frame
<1>8. CASE op # "ObserveReq" /\ op \in AddrBody
  <2>1. decode(bytes) = decode_addr_body(op, body)
    BY <1>1, <1>8 DEF decode
  <2> HIDE DEF op, body
  <2>2. addr.ok /\ rest = << >> /\ decode(bytes).value = Frame(op, addr.value, << >>)
    BY <2>1 DEF decode_addr_body, Ok, Err
  <2> QED
    BY <1>7, <1>8, <2>2
<1>9. CASE op # "ObserveReq" /\ op \notin AddrBody
  <2>1. decode(bytes) = decode_relay(op, body)
    BY <1>1, <1>9 DEF decode
  <2> HIDE DEF op, body
  <2>2. addr.ok /\ decode(bytes).value = Frame(op, addr.value, rest)
    BY <2>1 DEF decode_relay, Ok, Err
  <2> QED
    BY <1>7, <1>9, <2>2
<1> QED
  BY <1>5, <1>8, <1>9

\* An address that has lost its scope has none to lose.
LEMMA UnscopedTwice ==
  ASSUME NEW addr, IsAddr(addr)
  PROVE  Unscoped(Unscoped(addr)) = Unscoped(addr)
<1> DEFINE u == Unscoped(addr)
<1>1. u = UdpAddr(addr.kind, addr.ip, addr.port, 0)
  BY AddrFacts
<1>2. u.kind = addr.kind /\ u.ip = addr.ip /\ u.port = addr.port
  BY <1>1 DEF UdpAddr
<1>3. IsAddr(u)
  BY UnscopedIsAddr
<1> HIDE DEF u
<1>4. Unscoped(u) = UdpAddr(u.kind, u.ip, u.port, 0)
  BY <1>3, AddrFacts
<1>5. Unscoped(u) = u
  BY <1>1, <1>2, <1>4
<1> QED
  BY <1>5 DEF u

\* What the handlers need to know of a frame: that it can be read back, and
\* how long it is.
LEMMA FrameRead ==
  ASSUME NEW op \in Ops \ {"ObserveReq"}, NEW addr, IsAddr(addr),
         NEW data \in Seq(Byte), op \in AddrBody => data = << >>,
         op = "RelayFail" => from_utf8(data)
  PROVE  LET bytes == encode(Frame(op, addr, data))
         IN /\ decode(bytes).ok
            /\ decode(bytes).value = Frame(op, Unscoped(addr), data)
            /\ ReadAsWritten(bytes) /\ bytes # << >>
            /\ Len(bytes) = (1 + (1 + WidthOf(addr) + 2)) + Len(data)
<1> DEFINE frame == Frame(op, addr, data)
           read == Frame(op, Unscoped(addr), data)
           bytes == encode(frame)
<1>1. frame.op = op /\ frame.addr = addr /\ frame.data = data
  BY DEF Frame
<1>2. IsFrame(frame)
  BY <1>1, OpcodeFacts DEF IsFrame
<1>3. frame # ObserveReq
  <2>1. ObserveReq.op = "ObserveReq"
    BY DEF ObserveReq
  <2> QED
    BY <1>1, <2>1
<1>4. [frame EXCEPT !.addr = Unscoped(@)] = read
  BY DEF Frame
<1>5. read.op = op /\ read.addr = Unscoped(addr) /\ read.data = data
  BY DEF Frame
<1> HIDE DEF frame, read
<1>6. decode(bytes).ok /\ decode(bytes).value = read
  BY <1>1, <1>2, <1>4, FramesSurvive DEF Survives
<1>7. encode(read) = bytes
  <2>1. encode_addr(Unscoped(addr)) = encode_addr(addr)
    BY UnscopedIsAddr
  <2> QED
    BY <1>1, <1>5, <2>1 DEF encode
<1>8. /\ bytes = << Opcode[op] >> \o (encode_addr(addr) \o data)
      /\ encode_addr(addr) \o data \in Seq(Nat)
      /\ Len(bytes) = (1 + Len(encode_addr(addr))) + Len(data)
  BY <1>1, <1>2, <1>3, FrameBytes
<1>9. bytes # << >>
  BY <1>8, OpAndBody
<1>10. Len(encode_addr(addr)) = 1 + WidthOf(addr) + 2
  BY AddrBytes DEF PORT_LEN
<1>11. Len(bytes) = (1 + (1 + WidthOf(addr) + 2)) + Len(data)
  BY <1>8, <1>10
<1> QED
  BY <1>6, <1>7, <1>9, <1>11 DEF ReadAsWritten, frame, read

LEMMA ObserveReqRead ==
  LET bytes == encode(ObserveReq)
  IN /\ decode(bytes).ok /\ decode(bytes).value = ObserveReq
     /\ ReadAsWritten(bytes)
<1>1. IsFrame(ObserveReq) /\ ObserveReq.op = "ObserveReq"
  BY DEF IsFrame, ObserveReq
<1>2. decode(encode(ObserveReq)).ok
      /\ decode(encode(ObserveReq)).value = ObserveReq
  BY <1>1, FramesSurvive DEF Survives
<1> QED
  BY <1>2 DEF ReadAsWritten

-----------------------------------------------------------------------------
(* The inductive invariant                                                 *)

Sessions == [client : Clients, home : ClientAddrs, dial : Nat]

RTypes ==
  /\ at \in [Clients -> ClientAddrs]
  /\ DOMAIN established = Nodes
  /\ calling \in [Nodes -> {"idle", "observing", "lost"}]
  /\ calling[Server] # "lost"
  /\ dials \in [Clients -> Nat] /\ calls \in Nat /\ faults \in Nat

\* The server knows a session by the address it was dialled from, a client
\* has no session but its own with the server.
TablesTrue ==
  /\ \A a \in DOMAIN established[Server] :
       established[Server][a] \in Sessions /\ established[Server][a].home = a
  /\ \A c \in Clients : \A a \in DOMAIN established[c] :
       /\ a = ServerAddr /\ established[c][a] \in Sessions
       /\ established[c][a].client = c

Asked(r) == Frame(r.op, r.target, r.data)

RequestsTrue ==
  /\ \A r \in requests :
       /\ r.op \in {"PunchReq", "RelayDataReq"} /\ r.client \in Clients
       /\ r.session \in Sessions /\ r.session.client = r.client
       /\ r.target \in ClientAddrs /\ r.data \in Seq(Byte)
       /\ r.op = "PunchReq" => r.data = << >>
       /\ r.call \in 0 .. (calls - 1)
       /\ Len(encode(Asked(r))) <= MAX_DATAGRAM
  /\ \A r, q \in requests : r.call = q.call => r = q

NoRelay(call) == \A r \in Relays : r.call # call

\* d carries the payload of r to its target, or the failure of r back.
Forwards(r, d) ==
  /\ d.bytes = encode(Frame("RelayDataDeliver", r.session.home, r.data))
  /\ d.session.home = Unscoped(r.target)
Reports(r, d) ==
  /\ d.bytes = encode(Frame("RelayFail", Unscoped(r.target), no_session))
  /\ d.session = r.session

ToServer(d) ==
  /\ d.dst = ServerAddr
  /\ \/ d.bytes = encode(ObserveReq) /\ NoRelay(d.call)
     \/ \E r \in requests : /\ r.call = d.call /\ r.session = d.session
                            /\ d.bytes = encode(Asked(r))

FromServer(d) ==
  /\ d.src = ServerAddr /\ d.dst = d.session.home
  /\ \/ /\ NoRelay(d.call)
        /\ \E op \in {"ObserveResp", "PunchForward"}, a \in ClientAddrs :
             d.bytes = encode(Frame(op, a, << >>))
     \/ \E r \in Relays : r.call = d.call /\ (Forwards(r, d) \/ Reports(r, d))

\* A datagram on the path is a request that was made or its one answer.
OnPath(d) ==
  /\ d.session \in Sessions /\ d.call \in 0 .. (calls - 1)
  /\ ToServer(d) \/ FromServer(d)

PathTrue == \A d \in net : OnPath(d)

EventTrue(e) ==
  \E r \in Relays :
    e.call = r.call /\ (ReachedTarget(r, e) \/ ReportedFailed(r, e))

EventsTrue == \A e \in events : e.call \in 0 .. (calls - 1) /\ EventTrue(e)

\* A call is at one place: on its way, answered, or come to an event.
OnePlace ==
  /\ \A d, f \in net : d.call = f.call => d = f
  /\ \A e, f \in events : e.call = f.call => e = f
  /\ \A d \in net, e \in events : d.call # e.call

\* Client and server have this session, at the client's only address.
Live(s) ==
  /\ s.home = FirstAddr[s.client]
  /\ s.home \in DOMAIN established[Server] /\ established[Server][s.home] = s
  /\ ServerAddr \in DOMAIN established[s.client]
  /\ established[s.client][ServerAddr] = s

\* Before the first fault all sessions are live and no relay is forgotten.
Calm ==
  /\ at = FirstAddr
  /\ \A n \in Nodes : \A a \in DOMAIN established[n] : Live(established[n][a])
  /\ \A r \in requests : Live(r.session)
  /\ \A d \in net : /\ Live(d.session)
                    /\ d.dst = ServerAddr => d.src = d.session.home
  /\ \A r \in Relays : Undisturbed(r) =>
       \/ \E d \in net : d.call = r.call
       \/ \E e \in events : e.call = r.call

RInv ==
  /\ RTypes /\ TablesTrue /\ RequestsTrue /\ PathTrue /\ EventsTrue
  /\ OnePlace /\ (faults = 0 => Calm)

-----------------------------------------------------------------------------
(* What a node makes of a datagram                                         *)

LEMMA ClientAddrFacts ==
  /\ \A a \in ClientAddrs : /\ IsAddr(a) /\ IsAddr(Unscoped(a))
                            /\ a # ServerAddr /\ WidthOf(a) \in Nat
                            /\ WidthOf(Unscoped(a)) = WidthOf(a)
  /\ \A a, b \in ClientAddrs : WidthOf(a) = WidthOf(b)
  /\ \A a \in ClientAddrs :
       (1 + (1 + WidthOf(a) + 2)) + Len(no_session) <= MAX_DATAGRAM
  /\ Len(no_session) \in Nat /\ no_session \in Seq(Byte)
<1>1. \A a \in ClientAddrs : IsAddr(a) /\ a # ServerAddr
  BY AddrsAssumption
<1>2. \A a \in ClientAddrs : WidthOf(a) \in Nat
  BY <1>1, AddrFacts
<1>3. \A a, b \in ClientAddrs : WidthOf(a) = WidthOf(b)
  BY FamilyAssumption DEF WidthOf
<1>4. no_session \in Seq(Byte) /\ Len(no_session) \in Nat
  BY ReasonAssumption
<1>5. ASSUME NEW a \in ClientAddrs
      PROVE  (1 + (1 + WidthOf(a) + 2)) + Len(no_session) <= MAX_DATAGRAM
  <2>1. "RelayFail" \in Ops \ {"ObserveReq"} /\ "RelayFail" \notin AddrBody
    BY DEF Ops, AddrBody
  <2>2. Len(encode(Frame("RelayFail", a, no_session))) =
          (1 + (1 + WidthOf(a) + 2)) + Len(no_session)
    BY <1>1, <2>1, ReasonAssumption, FrameRead
  <2> QED
    BY <2>2, LimitAssumption
<1>6. \A a \in ClientAddrs : /\ IsAddr(Unscoped(a))
                             /\ WidthOf(Unscoped(a)) = WidthOf(a)
  BY <1>1, UnscopedIsAddr
<1> QED
  BY <1>1, <1>2, <1>3, <1>4, <1>5, <1>6

\* What the server reads of a request.
LEMMA AskedRead ==
  ASSUME RequestsTrue, NEW r \in requests
  PROVE  /\ decode(encode(Asked(r))).ok
         /\ decode(encode(Asked(r))).value =
              Frame(r.op, Unscoped(r.target), r.data)
         /\ ReadAsWritten(encode(Asked(r)))
         /\ (1 + (1 + WidthOf(r.target) + 2)) + Len(r.data) <= MAX_DATAGRAM
<1>1. /\ r.op \in Ops \ {"ObserveReq"} /\ r.op # "RelayFail"
      /\ r.op \in AddrBody => r.data = << >>
      /\ r.data \in Seq(Byte) /\ r.target \in ClientAddrs
      /\ Len(encode(Asked(r))) <= MAX_DATAGRAM
  BY DEF RequestsTrue, Ops, AddrBody
<1>2. IsAddr(r.target)
  BY <1>1, ClientAddrFacts
<1>3. LET bytes == encode(Frame(r.op, r.target, r.data))
      IN /\ decode(bytes).ok
         /\ decode(bytes).value = Frame(r.op, Unscoped(r.target), r.data)
         /\ ReadAsWritten(bytes)
         /\ Len(bytes) = (1 + (1 + WidthOf(r.target) + 2)) + Len(r.data)
  BY <1>1, <1>2, FrameRead
<1> QED
  BY <1>1, <1>3 DEF Asked

\* What a client reads of a forwarded payload and of a failure.
LEMMA AnswerRead ==
  ASSUME RequestsTrue, NEW r \in requests
  PROVE  /\ LET bytes == encode(Frame("RelayDataDeliver", r.session.home, r.data))
            IN /\ decode(bytes).ok
               /\ decode(bytes).value =
                    Frame("RelayDataDeliver", Unscoped(r.session.home), r.data)
               /\ ReadAsWritten(bytes) /\ bytes # << >>
               /\ Len(bytes) <= MAX_DATAGRAM
         /\ LET bytes == encode(Frame("RelayFail", Unscoped(r.target), no_session))
            IN /\ decode(bytes).ok
               /\ decode(bytes).value =
                    Frame("RelayFail", Unscoped(r.target), no_session)
               /\ ReadAsWritten(bytes) /\ bytes # << >>
               /\ Len(bytes) <= MAX_DATAGRAM
<1>1. /\ r.data \in Seq(Byte) /\ r.target \in ClientAddrs
      /\ r.session.home \in ClientAddrs
  BY DEF RequestsTrue, Sessions
<1> DEFINE home == r.session.home
           to == Unscoped(r.target)
<1>2. /\ IsAddr(home) /\ IsAddr(to) /\ IsAddr(r.target)
      /\ WidthOf(home) = WidthOf(r.target) /\ WidthOf(to) = WidthOf(r.target)
  BY <1>1, ClientAddrFacts
<1>3. Unscoped(to) = to
  BY <1>2, UnscopedTwice
<1> HIDE DEF home, to
<1>4. /\ "RelayDataDeliver" \in Ops \ {"ObserveReq"}
      /\ "RelayDataDeliver" \notin AddrBody
      /\ "RelayFail" \in Ops \ {"ObserveReq"} /\ "RelayFail" \notin AddrBody
  BY DEF Ops, AddrBody
<1>5. LET bytes == encode(Frame("RelayDataDeliver", home, r.data))
      IN /\ decode(bytes).ok
         /\ decode(bytes).value =
              Frame("RelayDataDeliver", Unscoped(home), r.data)
         /\ ReadAsWritten(bytes) /\ bytes # << >>
         /\ Len(bytes) = (1 + (1 + WidthOf(home) + 2)) + Len(r.data)
  BY <1>1, <1>2, <1>4, FrameRead
<1>6. LET bytes == encode(Frame("RelayFail", to, no_session))
      IN /\ decode(bytes).ok
         /\ decode(bytes).value = Frame("RelayFail", Unscoped(to), no_session)
         /\ ReadAsWritten(bytes) /\ bytes # << >>
         /\ Len(bytes) = (1 + (1 + WidthOf(to) + 2)) + Len(no_session)
  BY <1>2, <1>4, ReasonAssumption, FrameRead
<1>7. (1 + (1 + WidthOf(home) + 2)) + Len(r.data) <= MAX_DATAGRAM
  BY <1>2, AskedRead
<1>8. (1 + (1 + WidthOf(to) + 2)) + Len(no_session) <= MAX_DATAGRAM
  BY <1>1, <1>2, ClientAddrFacts
<1>9. Len(encode(Frame("RelayDataDeliver", home, r.data))) <= MAX_DATAGRAM
  BY <1>5, <1>7
<1>10. Len(encode(Frame("RelayFail", to, no_session))) <= MAX_DATAGRAM
  BY <1>6, <1>8
<1> QED
  BY <1>3, <1>5, <1>6, <1>9, <1>10 DEF home, to

\* An observed address, and a punch that is asked for.
LEMMA AddrFrameRead ==
  ASSUME NEW op \in {"ObserveResp", "PunchForward"}, NEW a \in ClientAddrs
  PROVE  LET bytes == encode(Frame(op, a, << >>))
         IN /\ decode(bytes).ok
            /\ decode(bytes).value = Frame(op, Unscoped(a), << >>)
            /\ ReadAsWritten(bytes) /\ bytes # << >>
            /\ Len(bytes) <= MAX_DATAGRAM
<1>1. op \in Ops \ {"ObserveReq"} /\ op # "RelayFail" /\ IsAddr(a)
      /\ << >> \in Seq(Byte) /\ Len(<< >>) = 0
  BY ClientAddrFacts DEF Ops
<1> DEFINE bytes == encode(Frame(op, a, << >>))
<1>2. /\ decode(bytes).ok
      /\ decode(bytes).value = Frame(op, Unscoped(a), << >>)
      /\ ReadAsWritten(bytes) /\ bytes # << >>
      /\ Len(bytes) = (1 + (1 + WidthOf(a) + 2)) + 0
  <2> DEFINE none == << >>
  <2>1. none \in Seq(Byte) /\ Len(none) = 0
    BY <1>1
  <2>2. /\ decode(bytes).ok
        /\ decode(bytes).value = Frame(op, Unscoped(a), none)
        /\ ReadAsWritten(bytes) /\ bytes # << >>
        /\ Len(bytes) = (1 + (1 + WidthOf(a) + 2)) + Len(none)
    BY <1>1, <2>1, FrameRead
  <2> QED
    BY <2>1, <2>2
<1> HIDE DEF bytes
<1>3. /\ (1 + (1 + WidthOf(a) + 2)) + Len(no_session) <= MAX_DATAGRAM
      /\ WidthOf(a) \in Nat /\ Len(no_session) \in Nat /\ MAX_DATAGRAM \in Nat
  BY ClientAddrFacts, LimitAssumption
<1>4. Len(bytes) <= MAX_DATAGRAM
  BY <1>2, <1>3
<1> QED
  BY <1>2, <1>4 DEF bytes

\* A request that the server accepts has one answer at most, which it can
\* send; a relay has exactly one.
LEMMA ServerReacts ==
  ASSUME RInv, NEW d \in net, d.dst = ServerAddr, Accepted(Server, d)
  PROVE  LET frame == decode(d.bytes).value
             reply == Reaction(Server, d.src, frame)
             out == Outgoing(Server, reply.dst, reply.bytes, d.call)
         IN /\ frame.op \notin {"PunchForward", "RelayDataDeliver", "RelayFail"}
            /\ reply = Nothing => NoRelay(d.call)
            /\ reply # Nothing =>
                 /\ CanSend(Server, reply.dst, reply.bytes)
                 /\ out.session \in Sessions /\ out.call = d.call
                 /\ out.dst # ServerAddr
                 /\ out.session = established[Server][reply.dst]
                 /\ FromServer(out)
<1> DEFINE frame == decode(d.bytes).value
           reply == Reaction(Server, d.src, frame)
           out == Outgoing(Server, reply.dst, reply.bytes, d.call)
           known == DOMAIN established[Server]
<1>1. /\ d.src \in known /\ established[Server][d.src] = d.session
      /\ decode(d.bytes).ok
  BY DEF Accepted
<1>2. \A a \in known : /\ established[Server][a] \in Sessions
                       /\ established[Server][a].home = a
                       /\ a \in ClientAddrs /\ a # ServerAddr
  BY ClientAddrFacts DEF RInv, TablesTrue, Sessions
<1>3. d.src = d.session.home /\ d.src \in ClientAddrs
  BY <1>1, <1>2
<1>4. /\ RequestsTrue /\ d.call \in 0 .. (calls - 1) /\ d.session \in Sessions
      /\ ToServer(d) \/ FromServer(d)
  BY DEF RInv, PathTrue, OnPath
<1>5. ToServer(d)
  <2>1. ASSUME FromServer(d) PROVE FALSE
    <3>1. d.session.home = ServerAddr /\ d.session.home \in ClientAddrs
      BY <1>4, <2>1 DEF FromServer, Sessions
    <3> QED
      BY <3>1, ClientAddrFacts
  <2> QED
    BY <1>4, <2>1
<1>6. ASSUME NEW dst, NEW f, reply = Reply(dst, f), dst \in known,
             encode(f) # << >>, Len(encode(f)) <= MAX_DATAGRAM,
             \/ /\ NoRelay(d.call)
                /\ \E op \in {"ObserveResp", "PunchForward"}, a \in ClientAddrs :
                     f = Frame(op, a, << >>)
             \/ \E r \in Relays :
                  /\ r.call = d.call
                  /\ \/ /\ f = Frame("RelayDataDeliver", r.session.home, r.data)
                        /\ dst = Unscoped(r.target)
                     \/ /\ f = Frame("RelayFail", Unscoped(r.target), no_session)
                        /\ r.session = established[Server][dst]
      PROVE  /\ reply # Nothing
             /\ CanSend(Server, reply.dst, reply.bytes)
             /\ out.session \in Sessions /\ out.call = d.call
             /\ out.dst # ServerAddr
             /\ out.session = established[Server][reply.dst]
             /\ FromServer(out)
  <2> HIDE DEF reply, frame
  <2>1. reply.dst = dst /\ reply.bytes = encode(f)
    BY <1>6 DEF Reply
  <2>2. reply # Nothing
    BY <1>6, <2>1 DEF Nothing
  <2>3. CanSend(Server, reply.dst, reply.bytes)
    BY <1>6, <2>1 DEF CanSend
  <2>4. /\ out.src = ServerAddr /\ out.dst = dst
        /\ out.session = established[Server][dst] /\ out.bytes = encode(f)
        /\ out.call = d.call
    BY <2>1 DEF Outgoing, Datagram, AddrOf
  <2> HIDE DEF out, known
  <2>5. /\ out.session \in Sessions /\ out.session.home = dst
        /\ dst # ServerAddr
    BY <1>2, <1>6, <2>4 DEF known
  <2>6. FromServer(out)
    <3>1. CASE /\ NoRelay(d.call)
               /\ \E op \in {"ObserveResp", "PunchForward"}, a \in ClientAddrs :
                    f = Frame(op, a, << >>)
      BY <2>4, <2>5, <3>1 DEF FromServer
    <3>2. ASSUME NEW r \in Relays, r.call = d.call,
                 f = Frame("RelayDataDeliver", r.session.home, r.data),
                 dst = Unscoped(r.target)
          PROVE  FromServer(out)
      BY <2>4, <2>5, <3>2 DEF FromServer, Forwards
    <3>3. ASSUME NEW r \in Relays, r.call = d.call,
                 f = Frame("RelayFail", Unscoped(r.target), no_session),
                 r.session = established[Server][dst]
          PROVE  FromServer(out)
      BY <2>4, <2>5, <3>3 DEF FromServer, Reports
    <3> QED
      BY <1>6, <3>1, <3>2, <3>3
  <2> QED
    BY <2>1, <2>2, <2>3, <2>4, <2>5, <2>6
<1>7. CASE d.bytes = encode(ObserveReq) /\ NoRelay(d.call)
  <2>1. frame = ObserveReq
    BY <1>7, ObserveReqRead
  <2>2. frame.op = "ObserveReq"
    BY <2>1 DEF ObserveReq
  <2> DEFINE f == Frame("ObserveResp", d.src, << >>)
  <2>3. reply = Reply(d.src, f)
    BY <2>2 DEF Reaction, auto_reply_observe
  <2>4. encode(f) # << >> /\ Len(encode(f)) <= MAX_DATAGRAM
    BY <1>3, AddrFrameRead
  <2>5. \E op \in {"ObserveResp", "PunchForward"}, a \in ClientAddrs :
          f = Frame(op, a, << >>)
    BY <1>3
  <2> HIDE DEF f, reply, out, frame
  <2>6. /\ reply # Nothing
        /\ CanSend(Server, reply.dst, reply.bytes)
        /\ out.session \in Sessions /\ out.call = d.call
        /\ out.dst # ServerAddr
        /\ out.session = established[Server][reply.dst]
        /\ FromServer(out)
    BY <1>1, <1>6, <1>7, <2>3, <2>4, <2>5
  <2> QED
    BY <2>2, <2>6 DEF frame, reply, out
<1>8. ASSUME NEW r \in requests, r.call = d.call, r.session = d.session,
             d.bytes = encode(Asked(r))
      PROVE  /\ frame.op \notin {"PunchForward", "RelayDataDeliver", "RelayFail"}
             /\ reply = Nothing => NoRelay(d.call)
             /\ reply # Nothing =>
                  /\ CanSend(Server, reply.dst, reply.bytes)
                  /\ out.session \in Sessions /\ out.call = d.call
                  /\ out.dst # ServerAddr
                  /\ out.session = established[Server][reply.dst]
                  /\ FromServer(out)
  <2> DEFINE to == Unscoped(r.target)
  <2>1. frame = Frame(r.op, to, r.data)
    BY <1>4, <1>8, AskedRead
  <2>2. frame.op = r.op /\ frame.addr = to /\ frame.data = r.data
    BY <2>1 DEF Frame
  <2>3. /\ r.op \in {"PunchReq", "RelayDataReq"} /\ r.target \in ClientAddrs
        /\ \A q \in requests : q.call = d.call => q = r
    BY <1>4, <1>8 DEF RequestsTrue
  <2>4. CASE r.op = "PunchReq"
    <3>1. NoRelay(d.call)
      BY <2>3, <2>4 DEF NoRelay, Relays
    <3>2. reply = auto_forward_punch(Server, d.src, to)
      BY <2>2, <2>4 DEF Reaction
    <3>3. CASE to \in known
      <4> DEFINE f == Frame("PunchForward", d.src, << >>)
      <4>1. reply = Reply(to, f)
        BY <3>2, <3>3 DEF auto_forward_punch
      <4>2. encode(f) # << >> /\ Len(encode(f)) <= MAX_DATAGRAM
        BY <1>3, AddrFrameRead
      <4>3. \E op \in {"ObserveResp", "PunchForward"}, a \in ClientAddrs :
              f = Frame(op, a, << >>)
        BY <1>3
      <4> HIDE DEF f, reply, out, frame, to
      <4> QED
        BY <1>6, <2>2, <2>4, <3>1, <3>3, <4>1, <4>2, <4>3
    <3>4. CASE to \notin known
      <4>1. reply = Nothing
        BY <3>2, <3>4 DEF auto_forward_punch
      <4> HIDE DEF reply, out, frame
      <4> QED
        BY <2>2, <2>4, <3>1, <4>1
    <3> QED
      BY <3>3, <3>4
  <2>5. CASE r.op = "RelayDataReq"
    <3>1. r \in Relays
      BY <2>5 DEF Relays
    <3>2. reply = auto_forward_relay(Server, d.src, to, r.data)
      BY <2>2, <2>5 DEF Reaction
    <3>3. CASE to \in known
      <4> DEFINE f == Frame("RelayDataDeliver", r.session.home, r.data)
      <4>1. reply = Reply(to, f)
        BY <1>3, <1>8, <3>2, <3>3 DEF auto_forward_relay
      <4>2. encode(f) # << >> /\ Len(encode(f)) <= MAX_DATAGRAM
        BY <1>4, AnswerRead
      <4> HIDE DEF reply, out, frame
      <4> QED
        BY <1>6, <1>8, <2>2, <2>5, <3>1, <3>3, <4>1, <4>2
    <3>4. CASE to \notin known
      <4> DEFINE f == Frame("RelayFail", to, no_session)
      <4>1. reply = Reply(d.src, f)
        BY <3>2, <3>4 DEF auto_forward_relay
      <4>2. encode(f) # << >> /\ Len(encode(f)) <= MAX_DATAGRAM
        BY <1>4, AnswerRead
      <4> HIDE DEF reply, out, frame
      <4> QED
        BY <1>1, <1>6, <1>8, <2>2, <2>5, <3>1, <4>1, <4>2
    <3> QED
      BY <3>3, <3>4
  <2> QED
    BY <2>3, <2>4, <2>5
<1> QED
  BY <1>5, <1>7, <1>8 DEF ToServer

\* What a client accepts is an answer: it sends nothing, and of a relay there
\* is the event that tells the truth.
LEMMA ClientReacts ==
  ASSUME RInv, NEW c \in Clients, NEW d \in net, d.dst = at[c], Accepted(c, d)
  PROVE  LET frame == decode(d.bytes).value
         IN /\ Reaction(c, d.src, frame) = Nothing
            /\ frame.op \in {"RelayDataDeliver", "RelayFail"} =>
                 EventTrue(EventOf(c, d, frame))
            /\ frame.op \notin {"RelayDataDeliver", "RelayFail"} =>
                 NoRelay(d.call)
<1> DEFINE frame == decode(d.bytes).value
           e == EventOf(c, d, frame)
<1>1. /\ RequestsTrue /\ d.session \in Sessions
      /\ ToServer(d) \/ FromServer(d)
  BY DEF RInv, PathTrue, OnPath
<1>2. FromServer(d)
  <2>1. at[c] \in ClientAddrs
    BY DEF RInv, RTypes
  <2>2. ~ ToServer(d)
    BY <2>1, ClientAddrFacts DEF ToServer
  <2> QED
    BY <1>1, <2>2
<1>3. d.session.client = c
  BY DEF Accepted, RInv, TablesTrue
<1>4. e.node = c /\ e.session = d.session /\ e.frame = frame /\ e.call = d.call
  BY DEF EventOf
<1> HIDE DEF e
<1>5. CASE /\ NoRelay(d.call)
           /\ \E op \in {"ObserveResp", "PunchForward"}, a \in ClientAddrs :
                d.bytes = encode(Frame(op, a, << >>))
  <2>1. PICK op \in {"ObserveResp", "PunchForward"}, a \in ClientAddrs :
          d.bytes = encode(Frame(op, a, << >>))
    BY <1>5
  <2>2. frame = Frame(op, Unscoped(a), << >>)
    BY <2>1, AddrFrameRead
  <2>3. frame.op = op
    BY <2>2 DEF Frame
  <2> HIDE DEF frame
  <2> QED
    BY <1>5, <2>3 DEF Reaction, frame
<1>6. ASSUME NEW r \in Relays, r.call = d.call, Forwards(r, d)
      PROVE  /\ Reaction(c, d.src, frame) = Nothing
             /\ frame.op = "RelayDataDeliver" /\ EventTrue(e)
  <2>1. frame = Frame("RelayDataDeliver", Unscoped(r.session.home), r.data)
    BY <1>1, <1>6, AnswerRead DEF Forwards, Relays
  <2>2. frame.op = "RelayDataDeliver"
    BY <2>1 DEF Frame
  <2> HIDE DEF frame
  <2>3. ReachedTarget(r, e)
    BY <1>3, <1>4, <1>6, <2>1 DEF ReachedTarget, Forwards
  <2> QED
    BY <1>4, <1>6, <2>2, <2>3 DEF Reaction, EventTrue
<1>7. ASSUME NEW r \in Relays, r.call = d.call, Reports(r, d)
      PROVE  /\ Reaction(c, d.src, frame) = Nothing
             /\ frame.op = "RelayFail" /\ EventTrue(e)
  <2>1. frame = Frame("RelayFail", Unscoped(r.target), no_session)
    BY <1>1, <1>7, AnswerRead DEF Reports, Relays
  <2>2. frame.op = "RelayFail"
    BY <2>1 DEF Frame
  <2> HIDE DEF frame
  <2>3. r.session.client = r.client
    BY <1>1 DEF RequestsTrue, Relays
  <2>4. ReportedFailed(r, e)
    BY <1>3, <1>4, <1>7, <2>1, <2>3 DEF ReportedFailed, Reports
  <2> QED
    BY <1>4, <1>7, <2>2, <2>4 DEF Reaction, EventTrue
<1> QED
  BY <1>2, <1>5, <1>6, <1>7 DEF FromServer, e

-----------------------------------------------------------------------------
(* The steps                                                               *)

LEMMA FirstAddrFacts ==
  /\ FirstAddr \in [Clients -> ClientAddrs]
  /\ \A a, b \in Clients : FirstAddr[a] = FirstAddr[b] => a = b
BY FirstAddrAssumption DEF Injection, IsInjective

LEMMA RInit == Init => RInv
<1> SUFFICES ASSUME Init PROVE RInv
  OBVIOUS
<1>1. RTypes
  BY FirstAddrFacts DEF Init, RTypes, Nodes
<1>2. \A n \in Nodes : established[n] = << >>
  BY DEF Init
<1>3. TablesTrue /\ Calm
  <2>1. \A n \in Nodes : DOMAIN established[n] = {}
    BY <1>2
  <2>2. Server \in Nodes /\ Clients \subseteq Nodes
    BY DEF Nodes
  <2>3. TablesTrue
    BY <2>1, <2>2 DEF TablesTrue
  <2>4. Calm
    BY <2>1 DEF Calm, Init, Relays
  <2> QED
    BY <2>3, <2>4
<1>4. RequestsTrue /\ PathTrue /\ EventsTrue /\ OnePlace
  BY DEF Init, RequestsTrue, PathTrue, EventsTrue, OnePlace
<1> QED
  BY <1>1, <1>3, <1>4 DEF RInv

\* As long as nobody asks for anything, what is said of datagrams and events
\* stays true.
LEMMA NothingAsked ==
  ASSUME requests' = requests, calls' = calls
  PROVE  /\ RequestsTrue => RequestsTrue'
         /\ \A d : OnPath(d) => OnPath(d)'
         /\ \A d : FromServer(d) => FromServer(d)'
         /\ \A e : EventTrue(e) => EventTrue(e)'
         /\ \A call : NoRelay(call) => NoRelay(call)'
<1>1. Relays' = Relays
  BY DEF Relays
<1>2. RequestsTrue => RequestsTrue'
  BY DEF RequestsTrue, Asked
<1>3. \A call : NoRelay(call) => NoRelay(call)'
  BY <1>1 DEF NoRelay
<1>4. \A d : FromServer(d) => FromServer(d)'
  BY <1>1, <1>3 DEF FromServer, Forwards, Reports
<1>5. \A d : ToServer(d) => ToServer(d)'
  BY <1>3 DEF ToServer, Asked
<1>6. \A d : OnPath(d) => OnPath(d)'
  BY <1>4, <1>5 DEF OnPath
<1>7. \A e : EventTrue(e) => EventTrue(e)'
  BY <1>1 DEF EventTrue, ReachedTarget, ReportedFailed
<1> QED
  BY <1>2, <1>3, <1>4, <1>6, <1>7

LEMMA Shrinks ==
  ASSUME RInv, requests' = requests, calls' = calls, events' = events,
         net' \subseteq net
  PROVE  RequestsTrue' /\ PathTrue' /\ EventsTrue' /\ OnePlace'
<1>1. RequestsTrue'
  BY NothingAsked DEF RInv
<1>2. PathTrue'
  BY NothingAsked DEF RInv, PathTrue
<1>3. EventsTrue'
  BY NothingAsked DEF RInv, EventsTrue
<1>4. OnePlace'
  BY DEF RInv, OnePlace
<1> QED
  BY <1>1, <1>2, <1>3, <1>4

LEMMA DialStep ==
  ASSUME RInv, NEW c \in Clients, dial(c)
  PROVE  RInv'
<1>0. PICK s : s = Session(c, at[c], dials[c])
  OBVIOUS
<1>1. /\ c \in Nodes /\ Server \in Nodes /\ c # Server /\ Clients \subseteq Nodes
      /\ \A b \in Clients : b # Server
  BY NodesAssumption DEF Nodes
<1>2. /\ DOMAIN established = Nodes /\ at[c] \in ClientAddrs /\ dials[c] \in Nat
  BY DEF RInv, RTypes
<1>3. s \in Sessions /\ s.client = c /\ s.home = at[c]
  BY <1>0, <1>2 DEF Session, Sessions
<1>4. /\ ServerAddr \notin DOMAIN established[c]
      /\ at[c] \notin DOMAIN established[Server]
      /\ established' = [established EXCEPT
                           ![c] = With(@, ServerAddr, s),
                           ![Server] = With(@, at[c], s)]
      /\ dials' = [dials EXCEPT ![c] = @ + 1]
      /\ UNCHANGED << at, opened, calling, net, events, requests,
                      disturbed, calls, faults >>
  BY <1>0 DEF dial
<1>5. /\ established'[c] = With(established[c], ServerAddr, s)
      /\ established'[Server] = With(established[Server], at[c], s)
      /\ \A n \in Nodes \ {c, Server} : established'[n] = established[n]
      /\ DOMAIN established' = Nodes
  BY <1>1, <1>2, <1>4
<1>6. /\ DOMAIN established'[c] = DOMAIN established[c] \cup {ServerAddr}
      /\ established'[c][ServerAddr] = s
      /\ \A a \in DOMAIN established[c] : a # ServerAddr =>
           established'[c][a] = established[c][a]
  BY <1>5 DEF With
<1>7. /\ DOMAIN established'[Server] = DOMAIN established[Server] \cup {at[c]}
      /\ established'[Server][at[c]] = s
      /\ \A a \in DOMAIN established[Server] : a # at[c] =>
           established'[Server][a] = established[Server][a]
  BY <1>5 DEF With
<1>8. RTypes'
  BY <1>4, <1>5 DEF RInv, RTypes
<1>9. TablesTrue'
  <2>1. \A a \in DOMAIN established'[Server] :
          /\ established'[Server][a] \in Sessions
          /\ established'[Server][a].home = a
    BY <1>3, <1>7 DEF RInv, TablesTrue
  <2>2. ASSUME NEW b \in Clients, NEW a \in DOMAIN established'[b]
        PROVE  /\ a = ServerAddr /\ established'[b][a] \in Sessions
               /\ established'[b][a].client = b
    <3>1. CASE b = c
      BY <1>3, <1>6, <3>1 DEF RInv, TablesTrue
    <3>2. CASE b # c
      <4>1. established'[b] = established[b]
        BY <1>1, <1>5, <3>2
      <4> QED
        BY <4>1 DEF RInv, TablesTrue
    <3> QED
      BY <3>1, <3>2
  <2> QED
    BY <2>1, <2>2 DEF TablesTrue
<1>10. RequestsTrue' /\ PathTrue' /\ EventsTrue' /\ OnePlace'
  BY <1>4, Shrinks
<1>11. ASSUME faults' = 0 PROVE Calm'
  <2>1. Calm
    BY <1>4, <1>11 DEF RInv
  <2>2. at[c] = FirstAddr[c]
    BY <2>1 DEF Calm
  <2>3. Live(s)'
    BY <1>3, <1>6, <1>7, <2>2 DEF Live
  <2>4. ASSUME NEW t, Live(t), t.client \in Clients PROVE Live(t)'
    <3>1. t.client # c
      BY <1>4, <2>4 DEF Live
    <3>2. t.home # at[c] /\ t.home \in DOMAIN established[Server]
      BY <1>4, <2>4 DEF Live
    <3>3. established'[t.client] = established[t.client]
      BY <1>1, <1>5, <2>4, <3>1
    <3>4. /\ t.home \in DOMAIN established'[Server]
          /\ established'[Server][t.home] = established[Server][t.home]
      BY <1>7, <3>2
    <3> QED
      BY <2>4, <3>3, <3>4 DEF Live
  <2>5. ASSUME NEW n \in Nodes, NEW a \in DOMAIN established'[n],
               NEW t, t = established'[n][a]
        PROVE  Live(t)'
    <3>1. \/ t = s
          \/ a \in DOMAIN established[n] /\ t = established[n][a]
      <4>1. CASE n = c
        BY <1>6, <2>5, <4>1
      <4>2. CASE n = Server
        BY <1>7, <2>5, <4>2
      <4>3. CASE n # c /\ n # Server
        BY <1>5, <2>5, <4>3
      <4> QED
        BY <4>1, <4>2, <4>3
    <3>2. CASE t = s
      BY <2>3, <3>2
    <3>3. CASE a \in DOMAIN established[n] /\ t = established[n][a]
      <4>1. t.client \in Clients
        BY <3>3 DEF RInv, TablesTrue, Sessions, Nodes
      <4>2. Live(t)
        BY <2>1, <3>3 DEF Calm
      <4> QED
        BY <2>4, <4>1, <4>2
    <3> QED
      BY <3>1, <3>2, <3>3
  <2>6. \A r \in requests : Live(r.session)'
    <3> TAKE r \in requests
    <3>1. r.session.client \in Clients /\ Live(r.session)
      BY <2>1 DEF RInv, RequestsTrue, Calm
    <3> QED
      BY <2>4, <3>1
  <2>7. \A d \in net : Live(d.session)'
    <3> TAKE d \in net
    <3>1. d.session.client \in Clients /\ Live(d.session)
      BY <2>1 DEF RInv, PathTrue, OnPath, Sessions, Calm
    <3> QED
      BY <2>4, <3>1
  <2>8. (\A r \in Relays : Undisturbed(r) =>
           \/ \E d \in net : d.call = r.call
           \/ \E e \in events : e.call = r.call)'
    BY <1>4, <2>1 DEF Calm, Relays, Undisturbed
  <2>9. (\A n \in Nodes : \A a \in DOMAIN established[n] :
           Live(established[n][a]))'
    BY <2>5 DEF Live
  <2> QED
    BY <1>4, <2>1, <2>6, <2>7, <2>8, <2>9 DEF Calm
<1> QED
  BY <1>8, <1>9, <1>10, <1>11 DEF RInv

LEMMA EvictStep ==
  ASSUME RInv, NEW n \in Nodes, NEW addr, evict(n, addr)
  PROVE  RInv'
<1>1. /\ established' = [established EXCEPT
                           ![n] = Restrict(@, DOMAIN @ \ {addr})]
      /\ faults' = faults + 1
      /\ UNCHANGED << at, calling, net, events, requests, dials, calls >>
  BY DEF evict
<1>2. DOMAIN established = Nodes /\ faults \in Nat
  BY DEF RInv, RTypes
<1>3. RTypes'
  BY <1>1, <1>2 DEF RInv, RTypes
<1>4. /\ established'[n] =
           Restrict(established[n], DOMAIN established[n] \ {addr})
      /\ \A m \in Nodes \ {n} : established'[m] = established[m]
  BY <1>1, <1>2
<1>5. ASSUME NEW m \in Nodes, NEW a \in DOMAIN established'[m]
      PROVE  /\ a \in DOMAIN established[m]
             /\ established'[m][a] = established[m][a]
  BY <1>4 DEF Restrict
<1>6. TablesTrue'
  <2>1. Server \in Nodes /\ Clients \subseteq Nodes
    BY DEF Nodes
  <2> QED
    BY <1>5, <2>1 DEF RInv, TablesTrue
<1>7. RequestsTrue' /\ PathTrue' /\ EventsTrue' /\ OnePlace'
  BY <1>1, Shrinks
<1>8. faults' # 0
  BY <1>1, <1>2
<1> QED
  BY <1>3, <1>6, <1>7, <1>8 DEF RInv

LEMMA RebindStep ==
  ASSUME RInv, NEW c \in Clients, NEW addr \in ClientAddrs, rebind(c, addr)
  PROVE  RInv'
<1>1. /\ at' = [at EXCEPT ![c] = addr] /\ faults' = faults + 1
      /\ UNCHANGED << established, calling, net, events, requests, dials,
                      calls >>
  BY DEF rebind
<1>2. RTypes' /\ TablesTrue'
  BY <1>1 DEF RInv, RTypes, TablesTrue
<1>3. RequestsTrue' /\ PathTrue' /\ EventsTrue' /\ OnePlace'
  BY <1>1, Shrinks
<1>4. faults' # 0
  BY <1>1 DEF RInv, RTypes
<1> QED
  BY <1>2, <1>3, <1>4 DEF RInv

LEMMA LoseStep ==
  ASSUME RInv, NEW d \in net, lose(d)
  PROVE  RInv'
<1>1. /\ net' = net \ {d} /\ faults' = faults + 1
      /\ UNCHANGED << at, established, calling, events, requests, dials,
                      calls >>
  BY DEF lose
<1>2. RTypes' /\ TablesTrue'
  BY <1>1 DEF RInv, RTypes, TablesTrue
<1>3. RequestsTrue' /\ PathTrue' /\ EventsTrue' /\ OnePlace'
  BY <1>1, Shrinks
<1>4. faults' # 0
  BY <1>1 DEF RInv, RTypes
<1> QED
  BY <1>2, <1>3, <1>4 DEF RInv

\* A new request leaves what is said of the earlier ones true.
LEMMA MoreAsked ==
  ASSUME RInv, NEW asks, requests' = requests \cup asks, calls' = calls + 1,
         \A r \in asks : r.call = calls
  PROVE  /\ \A d : OnPath(d) => OnPath(d)'
         /\ \A e : EventTrue(e) => EventTrue(e)'
<1>1. calls \in Nat
  BY DEF RInv, RTypes
<1>2. requests \subseteq requests' /\ Relays \subseteq Relays'
  BY DEF Relays
<1>3. ASSUME NEW call \in 0 .. (calls - 1), NoRelay(call) PROVE NoRelay(call)'
  <2>1. call # calls
    BY <1>1
  <2> QED
    BY <1>3, <2>1 DEF NoRelay, Relays
<1>4. ASSUME NEW d, OnPath(d) PROVE OnPath(d)'
  <2>1. d.call \in 0 .. (calls - 1) /\ d.session \in Sessions
    BY <1>4 DEF OnPath
  <2>2. d.call \in 0 .. (calls' - 1)
    BY <1>1, <2>1
  <2>3. ToServer(d) => ToServer(d)'
    BY <1>2, <1>3, <2>1 DEF ToServer, Asked
  <2>4. FromServer(d) => FromServer(d)'
    BY <1>2, <1>3, <2>1 DEF FromServer, Forwards, Reports
  <2> QED
    BY <1>4, <2>1, <2>2, <2>3, <2>4 DEF OnPath
<1>5. \A e : EventTrue(e) => EventTrue(e)'
  BY <1>2 DEF EventTrue, ReachedTarget, ReportedFailed
<1> QED
  BY <1>4, <1>5

\* A request r that client c can make now.
CanAsk(c, r) ==
  /\ r.op \in {"PunchReq", "RelayDataReq"} /\ r.client = c
  /\ r.session = established[c][ServerAddr]
  /\ r.target \in ClientAddrs /\ r.data \in Seq(Byte)
  /\ r.op = "PunchReq" => r.data = << >>
  /\ r.call = calls

\* A call, of any kind: asks is what is noted of it in requests.
LEMMA CallStep ==
  ASSUME RInv, NEW c \in Clients, NEW f, NEW then \in {"idle", "observing"},
         NEW asks, calling[c] = "idle", calls' = calls + 1,
         Transmit(c, f, then),
         UNCHANGED << at, established, events, dials, faults >>,
         requests' = IF CanSend(c, ServerAddr, encode(f))
                     THEN requests \cup asks ELSE requests,
         \/ f = ObserveReq /\ asks = {}
         \/ \E r : asks = {r} /\ f = Asked(r) /\ CanAsk(c, r)
  PROVE  RInv'
<1>1. /\ calls \in Nat /\ calling \in [Nodes -> {"idle", "observing", "lost"}]
      /\ c \in Nodes /\ c # Server /\ DOMAIN established = Nodes
      /\ Server \in Nodes
  BY NodesAssumption DEF RInv, RTypes, Nodes
<1>2. /\ \A r \in requests : r.call \in 0 .. (calls - 1)
      /\ \A d \in net : d.call \in 0 .. (calls - 1)
      /\ \A e \in events : e.call \in 0 .. (calls - 1)
  BY DEF RInv, RequestsTrue, PathTrue, OnPath, EventsTrue
<1>3. \A call \in 0 .. (calls - 1) : call # calls /\ call \in 0 .. (calls' - 1)
  BY <1>1
<1>4. \A r \in asks : r.call = calls
  BY DEF CanAsk
<1>5. TablesTrue'
  BY DEF RInv, TablesTrue
<1>6. ASSUME NEW x \in {"idle", "observing", "lost"},
             calling' = [calling EXCEPT ![c] = x]
      PROVE  /\ RTypes'
             /\ \A r \in Relays : Undisturbed(r)' => Undisturbed(r)
  <2>1. \A n \in Nodes : calling'[n] # "lost" => calling[n] # "lost"
    BY <1>1, <1>6
  <2>2. RTypes'
    BY <1>1, <1>6 DEF RInv, RTypes
  <2>3. \A r \in Relays : Undisturbed(r)' => Undisturbed(r)
    <3>1. \A r \in Relays : r.client \in Nodes
      BY DEF RInv, RequestsTrue, Relays, Nodes
    <3> QED
      BY <2>1, <3>1 DEF Undisturbed, Nodes
  <2> QED
    BY <2>2, <2>3
<1>7. CASE ~ CanSend(c, ServerAddr, encode(f))
  <2>1. calling' = [calling EXCEPT ![c] = "lost"] /\ net' = net
        /\ requests' = requests
    BY <1>7 DEF Transmit
  <2>2. \A r \in Relays : Undisturbed(r)' => Undisturbed(r)
    BY <1>6, <2>1
  <2>3. RTypes'
    BY <1>6, <2>1
  <2>4. /\ \A d : OnPath(d) => OnPath(d)'
        /\ \A e : EventTrue(e) => EventTrue(e)'
    <3> DEFINE none == {}
    <3>1. requests' = requests \cup none /\ \A r \in none : r.call = calls
      BY <2>1
    <3> HIDE DEF none
    <3> QED
      BY <3>1, MoreAsked
  <2>5. RequestsTrue'
    BY <1>2, <1>3, <2>1 DEF RInv, RequestsTrue, Asked
  <2>6. PathTrue' /\ EventsTrue'
    BY <1>2, <1>3, <2>1, <2>4 DEF RInv, PathTrue, EventsTrue
  <2>7. OnePlace'
    BY <2>1 DEF RInv, OnePlace
  <2>8. (faults = 0 => Calm)'
    <3> SUFFICES ASSUME faults = 0 PROVE Calm'
      OBVIOUS
    <3>1. Calm
      BY DEF RInv
    <3>2. Relays' = Relays
      BY <2>1 DEF Relays
    <3> QED
      BY <2>1, <2>2, <3>1, <3>2 DEF Calm, Live
  <2> QED
    BY <1>5, <2>3, <2>5, <2>6, <2>7, <2>8 DEF RInv
<1>8. CASE CanSend(c, ServerAddr, encode(f))
  <2>1. PICK d : d = Outgoing(c, ServerAddr, encode(f), calls)
    OBVIOUS
  <2>2. /\ net' = net \cup {d} /\ calling' = [calling EXCEPT ![c] = then]
        /\ requests' = requests \cup asks
    BY <1>8, <2>1 DEF Transmit
  <2>3. /\ d.src = at[c] /\ d.dst = ServerAddr /\ d.bytes = encode(f)
        /\ d.session = established[c][ServerAddr] /\ d.call = calls
    BY <1>1, <2>1 DEF Outgoing, Datagram, AddrOf
  <2>4. /\ ServerAddr \in DOMAIN established[c]
        /\ Len(encode(f)) <= MAX_DATAGRAM
    BY <1>8 DEF CanSend
  <2>5. d.session \in Sessions /\ d.session.client = c
    BY <2>3, <2>4 DEF RInv, TablesTrue
  <2>6. \A r \in Relays : Undisturbed(r)' => Undisturbed(r)
    BY <1>6, <2>2
  <2>7. RTypes'
    BY <1>6, <2>2
  <2>8. /\ \A g : OnPath(g) => OnPath(g)'
        /\ \A e : EventTrue(e) => EventTrue(e)'
    BY <1>4, <2>2, MoreAsked
  <2>9. ASSUME NEW r, asks = {r}, f = Asked(r), CanAsk(c, r)
        PROVE  /\ r.op \in {"PunchReq", "RelayDataReq"} /\ r.client \in Clients
               /\ r.session \in Sessions /\ r.session.client = r.client
               /\ r.target \in ClientAddrs /\ r.data \in Seq(Byte)
               /\ r.op = "PunchReq" => r.data = << >>
               /\ r.call \in 0 .. (calls' - 1)
               /\ Len(encode(Asked(r))) <= MAX_DATAGRAM
               /\ r.session = d.session
    <3>1. calls \in 0 .. (calls' - 1)
      BY <1>1
    <3> QED
      BY <2>3, <2>4, <2>5, <2>9, <3>1 DEF CanAsk
  <2>10. RequestsTrue'
    <3>1. CASE asks = {}
      BY <1>2, <1>3, <2>2, <3>1 DEF RInv, RequestsTrue, Asked
    <3>2. ASSUME NEW r, asks = {r}, f = Asked(r), CanAsk(c, r)
          PROVE  RequestsTrue'
      <4>1. ASSUME NEW q \in requests'
            PROVE  /\ q.op \in {"PunchReq", "RelayDataReq"}
                   /\ q.client \in Clients
                   /\ q.session \in Sessions /\ q.session.client = q.client
                   /\ q.target \in ClientAddrs /\ q.data \in Seq(Byte)
                   /\ q.op = "PunchReq" => q.data = << >>
                   /\ q.call \in 0 .. (calls' - 1)
                   /\ Len(encode(Asked(q))) <= MAX_DATAGRAM
        <5>1. CASE q \in requests
          BY <1>2, <1>3, <5>1 DEF RInv, RequestsTrue
        <5>2. CASE q = r
          BY <2>9, <3>2, <5>2
        <5> QED
          BY <2>2, <3>2, <5>1, <5>2
      <4>2. ASSUME NEW q \in requests', NEW p \in requests', q.call = p.call
            PROVE  q = p
        <5>1. r.call = calls
          BY <1>4, <3>2
        <5> QED
          BY <1>2, <1>3, <2>2, <3>2, <4>2, <5>1 DEF RInv, RequestsTrue
      <4> QED
        BY <4>1, <4>2 DEF RequestsTrue, Asked
    <3> QED
      BY <3>1, <3>2
  <2>11. OnPath(d)'
    <3>1. d.call \in 0 .. (calls' - 1)
      BY <1>1, <2>3
    <3>2. CASE f = ObserveReq /\ asks = {}
      <4>1. NoRelay(d.call)'
        BY <1>2, <1>3, <2>2, <2>3, <3>2 DEF NoRelay, Relays
      <4> QED
        BY <2>3, <2>5, <3>1, <3>2, <4>1 DEF OnPath, ToServer
    <3>3. ASSUME NEW r, asks = {r}, f = Asked(r), CanAsk(c, r)
          PROVE  OnPath(d)'
      <4>1. r \in requests' /\ r.call = d.call /\ r.session = d.session
        BY <1>4, <2>2, <2>3, <2>9, <3>3
      <4>2. ToServer(d)'
        BY <2>3, <3>3, <4>1 DEF ToServer, Asked
      <4> QED
        BY <2>5, <3>1, <4>2 DEF OnPath
    <3> QED
      BY <3>2, <3>3
  <2>12. PathTrue' /\ EventsTrue'
    BY <1>2, <1>3, <2>2, <2>8, <2>11 DEF RInv, PathTrue, EventsTrue
  <2>13. OnePlace'
    BY <1>2, <1>3, <2>2, <2>3 DEF RInv, OnePlace
  <2>14. (faults = 0 => Calm)'
    <3> SUFFICES ASSUME faults = 0 PROVE Calm'
      OBVIOUS
    <3>1. Calm
      BY DEF RInv
    <3>2. Live(d.session)
      BY <1>1, <2>3, <2>4, <3>1 DEF Calm
    <3>3. d.src = d.session.home
      BY <2>3, <2>5, <3>1, <3>2 DEF Calm, Live
    <3>4. \A s : Live(s) => Live(s)'
      BY DEF Live
    <3>5. (\A n \in Nodes : \A a \in DOMAIN established[n] :
             Live(established[n][a]))'
      BY <3>1 DEF Calm, Live
    <3>6. \A r \in requests' : Live(r.session)'
      <4>1. \A r \in requests : Live(r.session)'
        BY <3>1, <3>4 DEF Calm
      <4>2. \A r \in asks : r.session = d.session
        BY <2>9
      <4> QED
        BY <2>2, <3>2, <3>4, <4>1, <4>2
    <3>7. \A g \in net' : /\ Live(g.session)'
                          /\ g.dst = ServerAddr => g.src = g.session.home
      BY <2>2, <3>1, <3>2, <3>3, <3>4 DEF Calm
    <3>8. ASSUME NEW r \in Relays', Undisturbed(r)'
          PROVE  \/ \E g \in net' : g.call = r.call
                 \/ \E e \in events' : e.call = r.call
      <4>1. CASE r \in Relays
        BY <2>2, <2>6, <3>1, <3>8, <4>1 DEF Calm
      <4>2. CASE r \notin Relays
        <5>1. r \in asks
          BY <2>2, <3>8, <4>2 DEF Relays
        <5> QED
          BY <1>4, <2>2, <2>3, <5>1
      <4> QED
        BY <4>1, <4>2
    <3>9. at' = FirstAddr
      BY <3>1 DEF Calm
    <3> QED
      BY <3>5, <3>6, <3>7, <3>8, <3>9 DEF Calm
  <2> QED
    BY <1>5, <2>7, <2>10, <2>12, <2>13, <2>14 DEF RInv
<1> QED
  BY <1>7, <1>8

LEMMA ObserveStep ==
  ASSUME RInv, NEW c \in Clients, observe_self(c)
  PROVE  RInv'
<1> DEFINE none == {}
           frame == ObserveReq
<1>1. /\ calling[c] = "idle" /\ calls' = calls + 1
      /\ Transmit(c, frame, "observing")
      /\ UNCHANGED << at, established, events, dials, faults >>
      /\ requests' = IF CanSend(c, ServerAddr, encode(frame))
                     THEN requests \cup none ELSE requests
      /\ frame = ObserveReq /\ none = {}
  BY DEF observe_self, Call
<1> HIDE DEF none, frame
<1> QED
  BY <1>1, CallStep

LEMMA RequestStep ==
  ASSUME RInv, NEW c \in Clients, NEW op \in {"PunchReq", "RelayDataReq"},
         NEW target \in ClientAddrs, NEW data \in Seq(Byte),
         op = "PunchReq" => data = << >>, request(c, op, target, data)
  PROVE  RInv'
<1> DEFINE frame == Frame(op, target, data)
<1>1. PICK r : r = [op |-> op, client |-> c, data |-> data, call |-> calls,
                    session |-> established[c][ServerAddr], target |-> target,
                    known |-> target \in DOMAIN established[Server]]
  OBVIOUS
<1>2. PICK asks : asks = {r}
  OBVIOUS
<1>3. /\ calling[c] = "idle" /\ calls' = calls + 1
      /\ Transmit(c, frame, "idle")
      /\ UNCHANGED << at, established, events, dials, faults >>
      /\ requests' = IF CanSend(c, ServerAddr, encode(frame))
                     THEN requests \cup asks ELSE requests
  BY <1>1, <1>2 DEF request, Call
<1>4. CanAsk(c, r) /\ frame = Asked(r)
  BY <1>1 DEF CanAsk, Asked
<1> HIDE DEF frame
<1>5. "idle" \in {"idle", "observing"}
  OBVIOUS
<1> QED
  BY <1>2, <1>3, <1>4, <1>5, CallStep

\* A datagram that nobody reads: before the first fault it is none that a
\* relay depends on.
LEMMA DropStep ==
  ASSUME RInv, NEW d \in net, net' = net \ {d},
         UNCHANGED << at, established, opened, calling, events, requests,
                      disturbed, dials, calls, faults >>,
         faults = 0 => \A r \in Relays : Undisturbed(r) => r.call # d.call
  PROVE  RInv'
<1>1. RTypes' /\ TablesTrue'
  BY DEF RInv, RTypes, TablesTrue
<1>2. RequestsTrue' /\ PathTrue' /\ EventsTrue' /\ OnePlace'
  BY Shrinks
<1>3. ASSUME faults = 0 PROVE Calm'
  <2>1. Calm
    BY <1>3 DEF RInv
  <2>2. Relays' = Relays /\ \A r : Undisturbed(r)' => Undisturbed(r)
    BY DEF Relays, Undisturbed
  <2>3. \A s : Live(s) => Live(s)'
    BY DEF Live
  <2>4. (\A n \in Nodes : \A a \in DOMAIN established[n] :
           Live(established[n][a]))'
    BY <2>1 DEF Calm, Live
  <2>5. \A r \in requests' : Live(r.session)'
    BY <2>1, <2>3 DEF Calm
  <2>6. \A g \in net' : /\ Live(g.session)'
                        /\ g.dst = ServerAddr => g.src = g.session.home
    BY <2>1, <2>3 DEF Calm
  <2>7. ASSUME NEW r \in Relays, Undisturbed(r)'
        PROVE  \/ \E g \in net' : g.call = r.call
               \/ \E e \in events' : e.call = r.call
    <3>1. Undisturbed(r) /\ r.call # d.call
      BY <1>3, <2>2, <2>7
    <3> QED
      BY <2>1, <3>1 DEF Calm
  <2>8. at' = FirstAddr
    BY <2>1 DEF Calm
  <2> QED
    BY <2>2, <2>4, <2>5, <2>6, <2>7, <2>8 DEF Calm
<1> QED
  BY <1>1, <1>2, <1>3 DEF RInv

\* What is on the path can be read.
LEMMA PathRead ==
  ASSUME RInv, NEW d \in net
  PROVE  decode(d.bytes).ok /\ ReadAsWritten(d.bytes)
<1>1. RequestsTrue /\ (ToServer(d) \/ FromServer(d))
  BY DEF RInv, PathTrue, OnPath
<1>2. CASE d.bytes = encode(ObserveReq)
  BY <1>2, ObserveReqRead
<1>3. ASSUME NEW r \in requests, d.bytes = encode(Asked(r))
      PROVE  decode(d.bytes).ok /\ ReadAsWritten(d.bytes)
  BY <1>1, <1>3, AskedRead
<1>4. ASSUME NEW op \in {"ObserveResp", "PunchForward"}, NEW a \in ClientAddrs,
             d.bytes = encode(Frame(op, a, << >>))
      PROVE  decode(d.bytes).ok /\ ReadAsWritten(d.bytes)
  BY <1>4, AddrFrameRead
<1>5. ASSUME NEW r \in Relays, Forwards(r, d) \/ Reports(r, d)
      PROVE  decode(d.bytes).ok /\ ReadAsWritten(d.bytes)
  <2>1. r \in requests
    BY DEF Relays
  <2> QED
    BY <1>1, <1>5, <2>1, AnswerRead DEF Forwards, Reports
<1> QED
  BY <1>1, <1>2, <1>3, <1>4, <1>5 DEF ToServer, FromServer

\* Before the first fault every node accepts what arrives.
LEMMA CalmAccepts ==
  ASSUME RInv, faults = 0, NEW n \in Nodes, NEW d \in net, d.dst = AddrOf(n)
  PROVE  Accepted(n, d)
<1>1. Calm /\ d.session \in Sessions /\ (ToServer(d) \/ FromServer(d))
  BY DEF RInv, PathTrue, OnPath
<1>2. Live(d.session) /\ decode(d.bytes).ok
  BY <1>1, PathRead DEF Calm
<1>3. CASE n = Server
  <2>1. d.dst = ServerAddr /\ d.src = d.session.home
    BY <1>1, <1>3 DEF AddrOf, Calm
  <2> QED
    BY <1>2, <1>3, <2>1 DEF Accepted, Live
<1>4. CASE n \in Clients /\ n # Server
  <2>1. d.dst = FirstAddr[n] /\ d.dst \in ClientAddrs
    BY <1>1, <1>4, FirstAddrFacts DEF AddrOf, Calm
  <2>2. d.dst # ServerAddr
    BY <2>1, ClientAddrFacts
  <2>3. d.src = ServerAddr /\ d.dst = d.session.home
    BY <1>1, <2>2 DEF ToServer, FromServer
  <2>4. d.session.client \in Clients
    BY <1>1 DEF Sessions
  <2>5. d.session.client = n
    BY <1>2, <1>4, <2>1, <2>3, <2>4, FirstAddrFacts DEF Live
  <2> QED
    BY <1>2, <2>3, <2>5 DEF Accepted, Live
<1> QED
  BY <1>3, <1>4 DEF Nodes

LEMMA UndeliverableStep ==
  ASSUME RInv, Undeliverable
  PROVE  RInv'
<1>1. PICK d \in net :
        /\ d.dst \notin {AddrOf(n) : n \in {m \in Nodes : calling[m] # "lost"}}
        /\ net' = net \ {d}
        /\ UNCHANGED << at, established, opened, calling, events, requests,
                        disturbed, dials, calls, faults >>
  BY DEF Undeliverable
<1>2. ASSUME faults = 0, NEW r \in Relays, Undisturbed(r), r.call = d.call
      PROVE  FALSE
  <2>1. Calm /\ d.session \in Sessions /\ (ToServer(d) \/ FromServer(d))
        /\ RequestsTrue
    BY <1>2 DEF RInv, PathTrue, OnPath
  <2>2. \A n \in Nodes : calling[n] # "lost" => d.dst # AddrOf(n)
    BY <1>1
  <2>3. d.dst # ServerAddr
    BY <2>2 DEF AddrOf, Nodes, RInv, RTypes
  <2>4. FromServer(d)
    BY <2>1, <2>3 DEF ToServer
  <2>5. PICK q \in Relays : q.call = d.call /\ (Forwards(q, d) \/ Reports(q, d))
    BY <1>2, <2>4 DEF FromServer, NoRelay
  <2>6. q = r
    BY <1>2, <2>1, <2>5 DEF RequestsTrue, Relays
  <2> DEFINE c == d.session.client
  <2>7. c \in Clients /\ d.dst = at[c] /\ at[c] = d.session.home
    BY <2>1, <2>4 DEF Calm, Live, FromServer, Sessions
  <2>8. calling[c] # "lost"
    <3>1. CASE Forwards(r, d)
      <4>1. at[c] = Unscoped(r.target)
        BY <2>7, <3>1 DEF Forwards
      <4> QED
        BY <1>2, <2>7, <4>1 DEF Undisturbed
    <3>2. CASE Reports(r, d)
      <4>1. c = r.client
        BY <2>1, <3>2 DEF Reports, RequestsTrue, Relays
      <4> QED
        BY <1>2, <4>1 DEF Undisturbed
    <3> QED
      BY <2>5, <2>6, <3>1, <3>2
  <2>9. AddrOf(c) = at[c] /\ c \in Nodes
    BY <2>7, NodesAssumption DEF AddrOf, Nodes
  <2> QED
    BY <2>2, <2>7, <2>8, <2>9
<1> QED
  BY <1>1, <1>2, DropStep

LEMMA ServerStep ==
  ASSUME RInv, NEW d \in net, d.dst = ServerAddr, Accepted(Server, d),
         NEW frame, frame = decode(d.bytes).value,
         NEW reply, reply = Reaction(Server, d.src, frame),
         handle_datagram(Server, d, frame, reply)
  PROVE  RInv'
<1>1. PICK out : out = Outgoing(Server, reply.dst, reply.bytes, d.call)
  OBVIOUS
<1>2. /\ frame.op \notin {"PunchForward", "RelayDataDeliver", "RelayFail"}
      /\ reply = Nothing => NoRelay(d.call)
      /\ reply # Nothing =>
           /\ CanSend(Server, reply.dst, reply.bytes)
           /\ out.session \in Sessions /\ out.call = d.call
           /\ out.dst # ServerAddr
           /\ out.session = established[Server][reply.dst]
           /\ FromServer(out)
  BY <1>1, ServerReacts
<1> DEFINE sent == IF reply = Nothing THEN {} ELSE {out}
<1>3. /\ events' = events /\ net' = (net \ {d}) \cup sent
      /\ UNCHANGED << at, established, requests, dials, calls, faults >>
  BY <1>1, <1>2 DEF handle_datagram
<1>4. /\ Server \in Nodes /\ calling \in [Nodes -> {"idle", "observing", "lost"}]
      /\ calling[Server] # "lost"
  BY DEF RInv, RTypes, Nodes
<1>5. PICK x \in {"idle", "observing"} : calling' = [calling EXCEPT ![Server] = x]
  <2>1. calling' = [calling EXCEPT ![Server] =
                      IF Answers(Server, d.src, frame) THEN "idle" ELSE @]
    BY <1>2 DEF handle_datagram, PunchFails
  <2>2. CASE Answers(Server, d.src, frame)
    BY <2>1, <2>2
  <2>3. CASE ~ Answers(Server, d.src, frame)
    BY <1>4, <2>1, <2>3
  <2> QED
    BY <2>2, <2>3
<1>6. ASSUME NEW g \in sent
      PROVE  /\ g.session \in Sessions /\ g.call = d.call
             /\ g.dst # ServerAddr /\ FromServer(g)
             /\ reply.dst \in DOMAIN established[Server]
             /\ g.session = established[Server][reply.dst]
  BY <1>2 DEF CanSend
<1>7. ASSUME NEW g \in sent, NEW h \in sent PROVE g = h
  OBVIOUS
<1>8. sent = {} => NoRelay(d.call)
  BY <1>2
<1> HIDE DEF sent
<1>9. RTypes'
  BY <1>3, <1>4, <1>5 DEF RInv, RTypes
<1>10. TablesTrue'
  BY <1>3 DEF RInv, TablesTrue
<1>11. RequestsTrue'
  BY <1>3, NothingAsked DEF RInv
<1>12. EventsTrue'
  BY <1>3, NothingAsked DEF RInv, EventsTrue
<1>13. PathTrue'
  <2>1. ASSUME NEW g \in sent PROVE OnPath(g)'
    <3>1. g.call \in 0 .. (calls - 1)
      BY <1>6 DEF RInv, PathTrue, OnPath
    <3>2. FromServer(g)'
      BY <1>3, <1>6, NothingAsked
    <3> QED
      BY <1>3, <1>6, <3>1, <3>2 DEF OnPath
  <2>2. \A g \in net : OnPath(g)'
    BY <1>3, NothingAsked DEF RInv, PathTrue
  <2> QED
    BY <1>3, <2>1, <2>2 DEF PathTrue
<1>14. OnePlace'
  <2>1. \A g \in net \ {d} : g.call # d.call
    BY DEF RInv, OnePlace
  <2>2. \A e \in events : e.call # d.call
    BY DEF RInv, OnePlace
  <2>3. \A g, h \in net' : g.call = h.call => g = h
    BY <1>3, <1>6, <1>7, <2>1 DEF RInv, OnePlace
  <2>4. \A g \in net', e \in events' : g.call # e.call
    BY <1>3, <1>6, <2>2 DEF RInv, OnePlace
  <2> QED
    BY <1>3, <2>3, <2>4 DEF RInv, OnePlace
<1>15. ASSUME faults' = 0 PROVE Calm'
  <2>1. Calm
    BY <1>3, <1>15 DEF RInv
  <2>2. Relays' = Relays
    BY <1>3 DEF Relays
  <2>3. \A r \in Relays : Undisturbed(r)' => Undisturbed(r)
    <3>1. \A r \in Relays : r.client \in Clients
      BY DEF RInv, RequestsTrue, Relays
    <3>2. \A c \in Clients : calling'[c] = calling[c]
      BY <1>4, <1>5, NodesAssumption DEF Nodes
    <3> QED
      BY <1>3, <3>1, <3>2 DEF Undisturbed
  <2>4. \A s : Live(s) => Live(s)'
    BY <1>3 DEF Live
  <2>5. (\A n \in Nodes : \A a \in DOMAIN established[n] :
           Live(established[n][a]))'
    BY <1>3, <2>1 DEF Calm, Live
  <2>6. \A r \in requests' : Live(r.session)'
    BY <1>3, <2>1, <2>4 DEF Calm
  <2>7. \A g \in net' : /\ Live(g.session)'
                        /\ g.dst = ServerAddr => g.src = g.session.home
    <3>1. \A g \in sent : Live(g.session) /\ g.dst # ServerAddr
      BY <1>4, <1>6, <2>1 DEF Calm
    <3> QED
      BY <1>3, <2>1, <2>4, <3>1 DEF Calm
  <2>8. ASSUME NEW r \in Relays, Undisturbed(r)'
        PROVE  \/ \E g \in net' : g.call = r.call
               \/ \E e \in events' : e.call = r.call
    <3>1. \/ \E g \in net : g.call = r.call
          \/ \E e \in events : e.call = r.call
      BY <2>1, <2>3, <2>8 DEF Calm
    <3>2. CASE d.call = r.call
      <4>1. sent # {}
        BY <1>8, <3>2 DEF NoRelay
      <4> QED
        BY <1>3, <1>6, <3>2, <4>1
    <3>3. CASE d.call # r.call
      BY <1>3, <3>1, <3>3
    <3> QED
      BY <3>2, <3>3
  <2>9. at' = FirstAddr
    BY <1>3, <2>1 DEF Calm
  <2> QED
    BY <2>2, <2>5, <2>6, <2>7, <2>8, <2>9 DEF Calm
<1> QED
  BY <1>9, <1>10, <1>11, <1>12, <1>13, <1>14, <1>15 DEF RInv

LEMMA ClientStep ==
  ASSUME RInv, NEW c \in Clients, NEW d \in net, d.dst = at[c],
         Accepted(c, d), calling[c] # "lost",
         NEW frame, frame = decode(d.bytes).value,
         NEW reply, reply = Reaction(c, d.src, frame),
         handle_datagram(c, d, frame, reply)
  PROVE  RInv'
<1>1. PICK e : e = EventOf(c, d, frame)
  OBVIOUS
<1>2. /\ reply = Nothing
      /\ frame.op \in {"RelayDataDeliver", "RelayFail"} => EventTrue(e)
      /\ frame.op \notin {"RelayDataDeliver", "RelayFail"} => NoRelay(d.call)
  BY <1>1, ClientReacts
<1>3. e.call = d.call
  BY <1>1 DEF EventOf
<1> DEFINE told == IF frame.op \in {"RelayDataDeliver", "RelayFail"}
                   THEN {e} ELSE {}
<1>4. /\ events' = events \cup told /\ net' = net \ {d}
      /\ UNCHANGED << at, established, requests, dials, calls, faults >>
  BY <1>1, <1>2 DEF handle_datagram
<1>5. /\ \A f \in told : f = e /\ EventTrue(f) /\ f.call = d.call
      /\ told = {} => NoRelay(d.call)
  BY <1>2, <1>3
<1> HIDE DEF told
<1>6. /\ c \in Nodes /\ c # Server /\ Clients \subseteq Nodes
      /\ calling \in [Nodes -> {"idle", "observing", "lost"}]
  BY NodesAssumption DEF RInv, RTypes, Nodes
<1>7. PICK x \in {"idle", "observing", "lost"} :
        calling' = [calling EXCEPT ![c] = x]
  <2>1. calling' = [calling EXCEPT ![c] =
                      IF PunchFails(c, frame) THEN "lost"
                      ELSE IF Answers(c, d.src, frame) THEN "idle" ELSE @]
    BY <1>2 DEF handle_datagram
  <2>2. CASE PunchFails(c, frame)
    BY <2>1, <2>2
  <2>3. CASE ~ PunchFails(c, frame) /\ Answers(c, d.src, frame)
    BY <2>1, <2>3
  <2>4. CASE ~ PunchFails(c, frame) /\ ~ Answers(c, d.src, frame)
    BY <1>6, <2>1, <2>4
  <2> QED
    BY <2>2, <2>3, <2>4
<1>8. RTypes'
  BY <1>4, <1>6, <1>7 DEF RInv, RTypes
<1>9. TablesTrue'
  BY <1>4 DEF RInv, TablesTrue
<1>10. RequestsTrue'
  BY <1>4, NothingAsked DEF RInv
<1>11. PathTrue'
  BY <1>4, NothingAsked DEF RInv, PathTrue
<1>12. EventsTrue'
  <2>1. d.call \in 0 .. (calls - 1)
    BY DEF RInv, PathTrue, OnPath
  <2>2. \A f \in told : EventTrue(f)' /\ f.call \in 0 .. (calls - 1)
    BY <1>4, <1>5, <2>1, NothingAsked
  <2>3. \A f \in events : EventTrue(f)' /\ f.call \in 0 .. (calls - 1)
    BY <1>4, NothingAsked DEF RInv, EventsTrue
  <2> QED
    BY <1>4, <2>2, <2>3 DEF EventsTrue
<1>13. OnePlace'
  <2>1. \A g \in net \ {d} : g.call # d.call
    BY DEF RInv, OnePlace
  <2>2. \A f \in events : f.call # d.call
    BY DEF RInv, OnePlace
  <2>3. \A f, g \in events' : f.call = g.call => f = g
    BY <1>4, <1>5, <2>2 DEF RInv, OnePlace
  <2>4. \A g \in net', f \in events' : g.call # f.call
    BY <1>4, <1>5, <2>1 DEF RInv, OnePlace
  <2> QED
    BY <1>4, <2>3, <2>4 DEF RInv, OnePlace
<1>14. ASSUME faults' = 0 PROVE Calm'
  <2>1. Calm
    BY <1>4, <1>14 DEF RInv
  <2>2. Relays' = Relays
    BY <1>4 DEF Relays
  <2>3. \A r \in Relays : Undisturbed(r)' => Undisturbed(r)
    <3>1. \A r \in Relays : r.client \in Nodes
      BY <1>6 DEF RInv, RequestsTrue, Relays
    <3>2. \A n \in Nodes : calling'[n] # "lost" => calling[n] # "lost"
      BY <1>6, <1>7
    <3> QED
      BY <1>4, <1>6, <3>1, <3>2 DEF Undisturbed
  <2>4. \A s : Live(s) => Live(s)'
    BY <1>4 DEF Live
  <2>5. (\A n \in Nodes : \A a \in DOMAIN established[n] :
           Live(established[n][a]))'
    BY <1>4, <2>1 DEF Calm, Live
  <2>6. \A r \in requests' : Live(r.session)'
    BY <1>4, <2>1, <2>4 DEF Calm
  <2>7. \A g \in net' : /\ Live(g.session)'
                        /\ g.dst = ServerAddr => g.src = g.session.home
    BY <1>4, <2>1, <2>4 DEF Calm
  <2>8. ASSUME NEW r \in Relays, Undisturbed(r)'
        PROVE  \/ \E g \in net' : g.call = r.call
               \/ \E f \in events' : f.call = r.call
    <3>1. \/ \E g \in net : g.call = r.call
          \/ \E f \in events : f.call = r.call
      BY <2>1, <2>3, <2>8 DEF Calm
    <3>2. CASE d.call = r.call
      <4>1. told # {}
        BY <1>5, <3>2 DEF NoRelay
      <4> QED
        BY <1>4, <1>5, <3>2, <4>1
    <3>3. CASE d.call # r.call
      BY <1>4, <3>1, <3>3
    <3> QED
      BY <3>2, <3>3
  <2>9. at' = FirstAddr
    BY <1>4, <2>1 DEF Calm
  <2> QED
    BY <2>2, <2>5, <2>6, <2>7, <2>8, <2>9 DEF Calm
<1> QED
  BY <1>8, <1>9, <1>10, <1>11, <1>12, <1>13, <1>14 DEF RInv

LEMMA ReceiveStep ==
  ASSUME RInv, NEW n \in Nodes, Receive(n)
  PROVE  RInv'
<1>1. PICK d \in net :
        /\ d.dst = AddrOf(n)
        /\ \/ /\ Accepted(n, d)
              /\ \E frame \in {decode(d.bytes).value} :
                   \E reply \in {Reaction(n, d.src, frame)} :
                     handle_datagram(n, d, frame, reply)
           \/ /\ ~ Accepted(n, d)
              /\ net' = net \ {d}
              /\ UNCHANGED << at, established, opened, calling, events,
                              requests, disturbed, dials, calls, faults >>
  BY DEF Receive
<1>2. CASE Accepted(n, d)
  <2>1. PICK frame : /\ frame = decode(d.bytes).value
                     /\ \E reply \in {Reaction(n, d.src, frame)} :
                          handle_datagram(n, d, frame, reply)
    BY <1>1, <1>2
  <2>2. PICK reply : /\ reply = Reaction(n, d.src, frame)
                     /\ handle_datagram(n, d, frame, reply)
    BY <2>1
  <2>3. CASE n = Server
    <3>1. d.dst = ServerAddr
      BY <1>1, <2>3 DEF AddrOf
    <3> QED
      BY <1>2, <2>1, <2>2, <2>3, <3>1, ServerStep
  <2>4. CASE n \in Clients /\ n # Server
    <3>1. d.dst = at[n] /\ calling[n] # "lost"
      BY <1>1, <2>4 DEF AddrOf, Receive
    <3> QED
      BY <1>2, <2>1, <2>2, <2>4, <3>1, ClientStep
  <2> QED
    BY <2>3, <2>4 DEF Nodes
<1>3. CASE ~ Accepted(n, d)
  <2>1. faults # 0
    BY <1>1, <1>3, CalmAccepts
  <2>2. /\ net' = net \ {d}
        /\ UNCHANGED << at, established, opened, calling, events,
                        requests, disturbed, dials, calls, faults >>
    BY <1>1, <1>3
  <2> QED
    BY <2>1, <2>2, DropStep
<1> QED
  BY <1>2, <1>3

-----------------------------------------------------------------------------
(* The theorems                                                            *)

\* The inductive invariant: sessions and tables tell who dialled from where,
\* every datagram and every event is due to one request, and before the
\* first fault none is forgotten (node.rs, handle_datagram).
THEOREM RInvHolds == Spec => []RInv
<1>1. RInv /\ [Next]_vars => RInv'
  <2> SUFFICES ASSUME RInv, [Next]_vars PROVE RInv'
    OBVIOUS
  <2>1. ASSUME NEW c \in Clients, dial(c) PROVE RInv'
    BY <2>1, DialStep
  <2>2. ASSUME NEW c \in Clients, observe_self(c) PROVE RInv'
    BY <2>2, ObserveStep
  <2>3. ASSUME NEW c \in Clients, NEW a \in ClientAddrs, punch_via(c, a)
        PROVE  RInv'
    <3> DEFINE none == << >>
    <3>1. none \in Seq(Byte) /\ none = << >> /\ request(c, "PunchReq", a, none)
      BY <2>3 DEF punch_via
    <3> HIDE DEF none
    <3> QED
      BY <3>1, RequestStep
  <2>4. ASSUME NEW c \in Clients, NEW a \in ClientAddrs, NEW p \in Payloads,
               relay_via(c, a, p)
        PROVE  RInv'
    <3>1. p \in Seq(Byte) /\ request(c, "RelayDataReq", a, p)
      BY <2>4, PayloadsAssumption DEF relay_via
    <3> QED
      BY <3>1, RequestStep
  <2>5. ASSUME NEW c \in Clients, NEW a \in ClientAddrs, rebind(c, a)
        PROVE  RInv'
    BY <2>5, RebindStep
  <2>6. ASSUME NEW n \in Nodes, Receive(n) PROVE RInv'
    BY <2>6, ReceiveStep
  <2>7. ASSUME NEW n \in Nodes, NEW a, evict(n, a) PROVE RInv'
    BY <2>7, EvictStep
  <2>8. ASSUME NEW d \in net, lose(d) PROVE RInv'
    BY <2>8, LoseStep
  <2>9. CASE Undeliverable
    BY <2>9, UndeliverableStep
  <2>10. CASE UNCHANGED vars
    <3>1. /\ UNCHANGED << at, established, calling, net, events, requests,
                          dials, calls, faults >>
      BY <2>10 DEF vars
    <3>2. RTypes' /\ TablesTrue'
      BY <3>1 DEF RInv, RTypes, TablesTrue
    <3>3. RequestsTrue' /\ PathTrue' /\ EventsTrue' /\ OnePlace'
      BY <3>1, Shrinks
    <3>4. ASSUME faults' = 0 PROVE Calm'
      <4>1. Calm
        BY <3>1, <3>4 DEF RInv
      <4> QED
        BY <3>1, <4>1 DEF Calm, Live, Relays, Undisturbed
    <3> QED
      BY <3>2, <3>3, <3>4 DEF RInv
  <2> QED
    BY <2>1, <2>2, <2>3, <2>4, <2>5, <2>6, <2>7, <2>8, <2>9, <2>10 DEF Next
<1> QED
  BY <1>1, RInit, PTL DEF Spec

\* Whatever clients ask, of whatever length, the server can send its answers
\* and forwards (auto_reply_observe, auto_forward_punch, auto_forward_relay).
THEOREM ServerSurvivesHolds == Spec => []ServerSurvives
<1>1. RInv => ServerSurvives
  BY DEF RInv, RTypes, ServerSurvives
<1> QED
  BY <1>1, RInvHolds, PTL

\* However often the NATs hand their addresses around: a relayed payload
\* reaches its target once, with its sender's address, or its sender is told
\* once that it failed; one of the two happens as long as nothing goes wrong
\* (auto_forward_relay).
THEOREM RelayTrueHolds == Spec => []RelayTrue
<1>1. RInv => RelayTrue
  <2> SUFFICES ASSUME RInv PROVE RelayTrue
    OBVIOUS
  <2>1. ASSUME NEW r \in Relays, NEW e \in Outcomes(r)
        PROVE  ReachedTarget(r, e) \/ ReportedFailed(r, e)
    <3>1. e \in events /\ e.call = r.call
      BY DEF Outcomes
    <3>2. PICK q \in Relays :
            e.call = q.call /\ (ReachedTarget(q, e) \/ ReportedFailed(q, e))
      BY <3>1 DEF RInv, EventsTrue, EventTrue
    <3>3. q = r
      BY <3>1, <3>2 DEF RInv, RequestsTrue, Relays
    <3> QED
      BY <3>2, <3>3
  <2>2. ASSUME NEW r \in Relays, NEW e \in Outcomes(r), NEW f \in Outcomes(r)
        PROVE  e = f
    BY DEF RInv, OnePlace, Outcomes
  <2>3. ASSUME NEW r \in Relays, net = {}, Undisturbed(r)
        PROVE  Outcomes(r) # {}
    <3>1. Calm
      BY <2>3 DEF RInv, Undisturbed
    <3>2. \E e \in events : e.call = r.call
      BY <2>3, <3>1 DEF Calm
    <3> QED
      BY <3>2 DEF Outcomes
  <2>4. \A e \in events : \E r \in Relays : e.call = r.call
    BY DEF RInv, EventsTrue, EventTrue
  <2> QED
    BY <2>1, <2>2, <2>3, <2>4 DEF RelayTrue
<1> QED
  BY <1>1, RInvHolds, PTL

\* What a node puts on the path is read as what was written; and so is every
\* frame, and no string is read that would have been written otherwise,
\* whichever the codec is tried on (codec.rs, encode and decode).
THEOREM WireExactHolds == Spec => []WireExact
<1>1. Corrupted = {}
  BY FramesSurvive, SamplesAssumption DEF Corrupted
<1>2. Misread = {}
  BY StringsReadAsWritten, SamplesAssumption DEF Misread
<1>3. RInv => WireExact
  BY <1>1, <1>2, PathRead DEF WireExact
<1> QED
  BY <1>3, RInvHolds, PTL

=============================================================================
