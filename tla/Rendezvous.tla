----------------------------- MODULE Rendezvous -----------------------------
(***************************************************************************)
(* RendezvousNodes (libp2p-cat-rendezvous, node.rs): clients behind NATs   *)
(* that ask a public server what address it sees (observe_self), to have   *)
(* another client punch (punch_via), or to relay a payload (relay_via).    *)
(*                                                                         *)
(* Every node runs the same handlers over its own Host, which is external: *)
(* it holds a session per address, a handshake takes one step (HostNetwork *)
(* is about the steps), a datagram of another session is rejected and none *)
(* is delivered twice (NoiseTransport).  The path loses and reorders.      *)
(*                                                                         *)
(* A NAT gives a client one external address, which it may change at any   *)
(* time; the address may then go to another client.                        *)
(***************************************************************************)
EXTENDS RendezvousCodec, Functions

CONSTANTS Clients, Server,
          ServerAddr,    \* where the server is
          ClientAddrs,   \* external addresses of the NATs
          FirstAddr,     \* client -> the address it starts with
          Unroutable,    \* node -> addresses its socket refuses to send to
          MAX_DATAGRAM,  \* longest plaintext that Host::send takes
          no_session,    \* the reason of a RELAY_FAIL
          Payloads,      \* what a relay_via may carry
          SomeFrames,    \* what the codec is tried on: frames to encode
          SomeStrings,   \* and byte strings to decode
          MaxDials,      \* bound: dials of a client
          MaxCalls,      \* bound: calls of all clients
          MaxFaults      \* bound: losses, rebindings and evictions

ASSUME NodesAssumption == Server \notin Clients
ASSUME AddrsAssumption ==
  /\ ServerAddr \notin ClientAddrs
  /\ \A a \in ClientAddrs : IsAddr(a)
\* The server has one socket, which is of one family.
ASSUME FamilyAssumption == \A a, b \in ClientAddrs : a.kind = b.kind
ASSUME FirstAddrAssumption == FirstAddr \in Injection(Clients, ClientAddrs)
ASSUME UnroutableAssumption ==
  Unroutable \in [Clients \cup {Server} -> SUBSET ClientAddrs]
ASSUME ReasonAssumption == no_session \in Seq(Byte) /\ from_utf8(no_session)
ASSUME PayloadsAssumption == \A p \in Payloads : p \in Seq(Byte)
\* A failure can be reported: the limit is far above its length.
ASSUME LimitAssumption ==
  /\ MAX_DATAGRAM \in Nat
  /\ \A a \in ClientAddrs :
       Len(encode(Frame("RelayFail", a, no_session))) <= MAX_DATAGRAM
ASSUME SamplesAssumption ==
  /\ \A f \in SomeFrames : IsFrame(f)
  /\ \A s \in SomeStrings : s \in Seq(Byte)
ASSUME BoundsAssumption ==
  MaxDials \in Nat /\ MaxCalls \in Nat /\ MaxFaults \in Nat

VARIABLES at,           \* client -> its external address
          established,  \* node -> (address -> session), the Host's table
          opened,       \* client -> addresses its NAT lets in
          calling,      \* node -> "idle", "observing" or "lost"
          net,          \* the datagrams on the path
          events,       \* history: RelayReceived and RelayFailed
          requests,     \* history: the calls of relay_via and punch_via
          disturbed,    \* history: clients out of touch with the server when
                        \* they called, or hit by a fault since
          dials, calls, faults

vars == << at, established, opened, calling, net, events, requests,
           disturbed, dials, calls, faults >>

Nodes == Clients \cup {Server}

\* A session, named by who dialled, from where, and which dial it was.
Session(c, home, n) == [client |-> c, home |-> home, dial |-> n]

\* call is history: the number of the call that it is due to.
Datagram(src, dst, session, bytes, call) ==
  [src |-> src, dst |-> dst, session |-> session, bytes |-> bytes,
   call |-> call]

\* The event of a datagram that node n decoded as frame.
EventOf(n, d, frame) ==
  [node |-> n, session |-> d.session, frame |-> frame, call |-> d.call]

Init ==
  /\ at = FirstAddr
  /\ established = [n \in Nodes |-> << >>]
  /\ opened = [c \in Clients |-> {}]
  /\ calling = [n \in Nodes |-> "idle"]
  /\ net = {} /\ events = {} /\ requests = {}
  /\ disturbed = [c \in Clients |-> FALSE]
  /\ dials = [c \in Clients |-> 0] /\ calls = 0 /\ faults = 0

\* The table with one more session in it.
With(sessions, addr, s) ==
  [a \in DOMAIN sessions \cup {addr} |-> IF a = addr THEN s ELSE sessions[a]]

AddrOf(n) == IF n = Server THEN ServerAddr ELSE at[n]

\* Host::send: the plaintext must fit and the peer be established.
CanSend(n, dst, bytes) ==
  dst \in DOMAIN established[n] /\ Len(bytes) <= MAX_DATAGRAM

\* The datagram that Host::send puts on the path.
Outgoing(n, dst, bytes, call) ==
  Datagram(AddrOf(n), dst, established[n][dst], bytes, call)

-----------------------------------------------------------------------------
(* Sessions, NATs and faults                                               *)

\* A dial that completes, before any call or between two.
dial(c) ==
  /\ calling[c] = "idle" /\ calling[Server] = "idle"
  /\ dials[c] < MaxDials
  /\ ServerAddr \notin DOMAIN established[c]
  /\ at[c] \notin DOMAIN established[Server]
  /\ LET s == Session(c, at[c], dials[c]) IN
     established' = [established EXCEPT
                       ![c] = With(@, ServerAddr, s),
                       ![Server] = With(@, at[c], s)]
  /\ dials' = [dials EXCEPT ![c] = @ + 1]
  /\ UNCHANGED << at, opened, calling, net, events, requests,
                  disturbed, calls, faults >>

\* A Host forgets a session: the client by itself only between calls.
evict(n, addr) ==
  /\ calling[n] = "idle"
  /\ addr \in DOMAIN established[n]
  /\ faults < MaxFaults /\ faults' = faults + 1
  /\ disturbed' = [disturbed EXCEPT ![established[n][addr].client] = TRUE]
  /\ established' = [established EXCEPT
                       ![n] = Restrict(@, DOMAIN @ \ {addr})]
  /\ UNCHANGED << at, opened, calling, net, events, requests,
                  dials, calls >>

\* The NAT maps the client to another address, and forgets whom it let in.
rebind(c, addr) ==
  /\ addr \notin Range(at)
  /\ faults < MaxFaults /\ faults' = faults + 1
  /\ at' = [at EXCEPT ![c] = addr]
  /\ opened' = [opened EXCEPT ![c] = {}]
  /\ disturbed' = [disturbed EXCEPT ![c] = TRUE]
  /\ UNCHANGED << established, calling, net, events, requests, dials, calls >>

lose(d) ==
  /\ faults < MaxFaults /\ faults' = faults + 1
  /\ net' = net \ {d}
  /\ disturbed' = [disturbed EXCEPT ![d.session.client] = TRUE]
  /\ UNCHANGED << at, established, opened, calling, events, requests,
                  dials, calls >>

-----------------------------------------------------------------------------
(* The calls of a client                                                   *)

\* Encode and send to the server; an Err takes the node with it.
Transmit(c, frame, then) ==
  IF CanSend(c, ServerAddr, encode(frame))
  THEN /\ net' = net \cup {Outgoing(c, ServerAddr, encode(frame), calls)}
       /\ calling' = [calling EXCEPT ![c] = then]
  ELSE /\ calling' = [calling EXCEPT ![c] = "lost"]
       /\ UNCHANGED net

\* Client and server have the same session at the present address.
InTouch(c) ==
  /\ ServerAddr \in DOMAIN established[c]
  /\ at[c] \in DOMAIN established[Server]
  /\ established[c][ServerAddr] = established[Server][at[c]]

Call(c) ==
  /\ calling[c] = "idle"
  /\ calls < MaxCalls /\ calls' = calls + 1
  /\ disturbed' = [disturbed EXCEPT ![c] = ~ InTouch(c)]

\* send_observe_req; what follows is drain_for_observe_response.
observe_self(c) ==
  /\ Call(c)
  /\ Transmit(c, ObserveReq, "observing")
  /\ UNCHANGED << at, established, opened, events, requests, dials, faults >>

\* What punch_via and relay_via do.
request(c, op, target, data) ==
  /\ Call(c)
  /\ LET frame == Frame(op, target, data)
     IN /\ Transmit(c, frame, "idle")
        /\ requests' =
             IF CanSend(c, ServerAddr, encode(frame))
             THEN requests \cup {[op |-> op, client |-> c, data |-> data,
                                  call |-> calls,
                                  session |-> established[c][ServerAddr],
                                  target |-> target,
                                  known |-> target \in
                                              DOMAIN established[Server]]}
             ELSE requests
  /\ UNCHANGED << at, established, opened, events, dials,
                  faults >>

punch_via(c, target) == request(c, "PunchReq", target, << >>)
relay_via(c, target, payload) == request(c, "RelayDataReq", target, payload)

-----------------------------------------------------------------------------
(* handle_datagram: what a frame from an established address makes a node  *)
(* send, or punch                                                          *)

Nothing == [dst |-> << >>, bytes |-> << >>]
Reply(dst, frame) == [dst |-> dst, bytes |-> encode(frame)]

auto_reply_observe(from) == Reply(from, Frame("ObserveResp", from, << >>))

\* Mutant: the target is asked to punch at itself.
auto_forward_punch_back(n, from, target) ==
  IF target \in DOMAIN established[n]
  THEN Reply(target, Frame("PunchForward", target, << >>))
  ELSE Nothing

\* Nobody hears of a punch to an unknown target.
auto_forward_punch(n, from, target) ==
  IF target \in DOMAIN established[n]
  THEN Reply(target, Frame("PunchForward", from, << >>))
  ELSE Nothing

\* Mutant: the target is named as the originator.
auto_forward_relay_swapped(n, from, target, payload) ==
  IF target \in DOMAIN established[n]
  THEN Reply(target, Frame("RelayDataDeliver", target, payload))
  ELSE Reply(from, Frame("RelayFail", target, no_session))

\* Mutant: the requester gets its payload back with the failure.
auto_forward_relay_echo(n, from, target, payload) ==
  IF target \in DOMAIN established[n]
  THEN Reply(target, Frame("RelayDataDeliver", from, payload))
  ELSE Reply(from, Frame("RelayFail", target, no_session \o payload))

auto_forward_relay(n, from, target, payload) ==
  IF target \in DOMAIN established[n]
  THEN Reply(target, Frame("RelayDataDeliver", from, payload))
  ELSE Reply(from, Frame("RelayFail", target, no_session))

Reaction(n, from, frame) ==
  CASE frame.op = "ObserveReq" -> auto_reply_observe(from)
    [] frame.op = "PunchReq" -> auto_forward_punch(n, from, frame.addr)
    [] frame.op = "RelayDataReq" ->
         auto_forward_relay(n, from, frame.addr, frame.data)
    [] OTHER -> Nothing

\* auto_send_punch: a bare byte to the initiator, wherever the frame says it
\* is.  All it does is open the NAT of the sender, unless the socket fails;
\* whoever receives it rejects it.
PunchFails(n, frame) ==
  frame.op = "PunchForward" /\ frame.addr \in Unroutable[n]

Punched(n, frame) ==
  IF frame.op = "PunchForward" /\ ~ PunchFails(n, frame)
  THEN [opened EXCEPT ![n] = @ \cup {frame.addr}] ELSE opened

\* Mutant: the observed address is compared with the server's.
Answers_observed(n, from, frame) ==
  /\ calling[n] = "observing"
  /\ frame.op = "ObserveResp" /\ frame.addr = ServerAddr

\* Whether the frame ends drain_for_observe_response.
Answers(n, from, frame) ==
  /\ calling[n] = "observing"
  /\ frame.op = "ObserveResp" /\ from = ServerAddr

\* recv_one, by the caller or by the drain of observe_self, which drops every
\* event but the answer; what cannot be sent takes the node with it.
handle_datagram(n, d, frame, reply) ==
  /\ events' = events \cup
       (IF frame.op \in {"RelayDataDeliver", "RelayFail"}
        THEN {EventOf(n, d, frame)} ELSE {})
  /\ opened' = Punched(n, frame)
  /\ net' = (net \ {d}) \cup
       (IF reply # Nothing /\ CanSend(n, reply.dst, reply.bytes)
        THEN {Outgoing(n, reply.dst, reply.bytes, d.call)} ELSE {})
  /\ calling' = [calling EXCEPT ![n] =
       IF \/ PunchFails(n, frame)
          \/ reply # Nothing /\ ~ CanSend(n, reply.dst, reply.bytes)
       THEN "lost"
       ELSE IF Answers(n, d.src, frame) THEN "idle" ELSE @]
  /\ UNCHANGED << at, established, requests, disturbed, dials, calls,
                  faults >>

\* The Host rejects what is not of the session it has with the sender, and
\* the node what does not decode.
Accepted(n, d) ==
  /\ d.src \in DOMAIN established[n]
  /\ established[n][d.src] = d.session
  /\ decode(d.bytes).ok

Receive(n) ==
  /\ calling[n] # "lost"
  /\ \E d \in net :
       /\ d.dst = AddrOf(n)
       /\ \/ /\ Accepted(n, d)
             /\ \E frame \in {decode(d.bytes).value} :
                  \E reply \in {Reaction(n, d.src, frame)} :
                    handle_datagram(n, d, frame, reply)
          \/ /\ ~ Accepted(n, d)
             /\ net' = net \ {d}
             /\ UNCHANGED << at, established, opened, calling, events,
                             requests, disturbed, dials,
                             calls, faults >>

\* A datagram to an address that is nobody's any more, or a lost node's.
Undeliverable ==
  \E d \in net :
    /\ d.dst \notin {AddrOf(n) : n \in {m \in Nodes : calling[m] # "lost"}}
    /\ net' = net \ {d}
    /\ UNCHANGED << at, established, opened, calling, events, requests,
                    disturbed, dials, calls, faults >>

-----------------------------------------------------------------------------

Next ==
  \/ \E c \in Clients :
       \/ dial(c)
       \/ observe_self(c)
       \/ \E a \in ClientAddrs :
            \/ punch_via(c, a)
            \/ \E p \in Payloads : relay_via(c, a, p)
            \/ rebind(c, a)
  \/ \E n \in Nodes : Receive(n)
  \/ \E n \in Nodes, a \in ClientAddrs \cup {ServerAddr} : evict(n, a)
  \/ \E d \in net : lose(d)
  \/ Undeliverable

\* As long as a datagram can be received, one is: drivers call recv_one in a
\* loop, and observe_self is one.  With finitely many calls, and one datagram
\* at most in answer to one, no node is left out for ever.
Spec == Init /\ [][Next]_vars /\ WF_vars(\E n \in Nodes : Receive(n))

-----------------------------------------------------------------------------
(* Properties                                                              *)

Relays == {r \in requests : r.op = "RelayDataReq"}

Outcomes(r) == {e \in events : e.call = r.call}

\* The client whose session the server has at the target got the payload,
\* with the address its sender dialled from.  Addresses have been over the
\* wire, which drops their scope.
ReachedTarget(r, e) ==
  /\ e.frame = Frame("RelayDataDeliver", Unscoped(r.session.home), r.data)
  /\ e.session.home = Unscoped(r.target) /\ e.session.client = e.node

\* The caller was told, in the session it called in.
ReportedFailed(r, e) ==
  /\ e.frame = Frame("RelayFail", Unscoped(r.target), no_session)
  /\ e.session = r.session /\ e.node = r.client

\* Nothing went wrong that this relay depends on.
Undisturbed(r) ==
  /\ faults = 0 /\ calling[r.client] # "lost"
  /\ \A c \in Clients : at[c] = Unscoped(r.target) => calling[c] # "lost"

\* However the NATs hand their addresses around: a relayed payload reaches
\* its target once and names its sender, or its sender is told once that it
\* failed, and never both; as long as nothing goes wrong it is one or the
\* other once the path is empty; and nobody receives, or is told of, what
\* was not asked for (auto_forward_relay).
RelayTrue ==
  /\ \A r \in Relays :
       /\ \A e, f \in Outcomes(r) : e = f
       /\ \A e \in Outcomes(r) : ReachedTarget(r, e) \/ ReportedFailed(r, e)
       /\ net = {} /\ Undisturbed(r) => Outcomes(r) # {}
  /\ \A e \in events : \E r \in Relays : e.call = r.call

\* Whatever clients ask, the server's answers and forwards can be sent: no
\* request, of the greatest length too, ends the server with an Err.  (What
\* ends a node is a PUNCH_FORWARD, and the clients' API sends none.)
ServerSurvives == calling[Server] # "lost"

\* Frames that do not survive the wire, and strings read as something that
\* would have been written otherwise.
Corrupted == {f \in SomeFrames : ~ Survives(f)}
Misread == {s \in SomeStrings : ~ ReadAsWritten(s)}

\* What a node puts on the path is read as what was written, and so is every
\* frame up to the IPv6 scope; nothing that lacks a byte, or has one too many
\* or a wrong one, passes for a frame that is written otherwise.
WireExact ==
  /\ \A d \in net : decode(d.bytes).ok /\ ReadAsWritten(d.bytes)
  /\ Corrupted = {} /\ Misread = {}

\* observe_self comes to an end, whatever else arrives meanwhile, unless the
\* client is out of touch with the server: the drain has no limit, and the
\* code no timer.
ObserveReturns ==
  \A c \in Clients :
    (calling[c] = "observing" /\ ~ disturbed[c])
      ~> (calling[c] # "observing" \/ disturbed[c])

\* A punch_via opens the NAT of its target for the caller, also while the
\* target is busy in observe_self, as long as nothing goes wrong and the
\* target does not end with an error: of its own calls, or of its socket,
\* which may refuse the caller's address.
PunchOpens ==
  \A c \in Clients : \A other \in Clients \ {c} :
    (faults = 0 /\ \E r \in requests :
       r.op = "PunchReq" /\ r.client = c /\ r.target = at[other] /\ r.known)
      ~> (at[c] \in opened[other] \/ faults > 0 \/ calling[other] = "lost")

=============================================================================
