-------------------------------- MODULE Rpc ---------------------------------
(***************************************************************************)
(* RPC over Hosts (libp2p-cat-rpc: serve.rs, transport.rs): nodes that     *)
(* loop over serve_one, and nodes that make calls through a HostTransport. *)
(* A node does one thing at a time, and some do both in turn.              *)
(*                                                                         *)
(* All nodes are established with each other; the Host delivers what a     *)
(* peer sent at most once, late or never.  Its other events pass through   *)
(* serve_one, or are absorbed by a drain, and change nothing here.  A      *)
(* payload is the call it was made for: << caller, number >>.  The client  *)
(* and the service are tarpc's (external).                                 *)
(***************************************************************************)
EXTENDS Naturals, FiniteSets

CONSTANTS Nodes,
          Servers,   \* nodes that loop over serve_one between their calls
          Ids,       \* RequestIds that clients choose from
          MaxCalls,  \* bound: calls of a node
          MaxOther   \* bound: datagrams that are not RPC envelopes

ASSUME NodesAssumption == Servers \subseteq Nodes
ASSUME RpcBoundsAssumption == MaxCalls \in Nat /\ MaxOther \in Nat

VARIABLES state,    \* node -> "free", "waiting" or, its Host gone, "lost"
          peer,     \* node -> the peer its HostTransport is anchored to
          id,       \* node -> the RequestId of its last call
          calls,    \* node -> calls made
          returned, \* node -> the envelope its last call ended with
          net,      \* datagrams on their way
          others,   \* datagrams so far that are not RPC envelopes
          handled,  \* history: << server, call >>
          harmed    \* history: calls whose request or answer went astray

rpc_vars ==
  << state, peer, id, calls, returned, net, others, handled, harmed >>

Call(n) == << n, calls[n] >>

Envelope(op, i, payload) == [op |-> op, id |-> i, payload |-> payload]

\* What a body that is not an Envelope, or no answer at all, stands for.
NoEnvelope == Envelope("none", 0, << >>)

\* kind: MUX_KIND_RPC, another kind byte, or no byte at all.
RpcDatagram(src, dst, kind, body) ==
  [src |-> src, dst |-> dst, kind |-> kind, body |-> body]

RpcInit ==
  /\ state = [n \in Nodes |-> "free"]
  /\ peer = [n \in Nodes |-> n]
  /\ id = [n \in Nodes |-> 0]
  /\ calls = [n \in Nodes |-> 0]
  /\ returned = [n \in Nodes |-> NoEnvelope]
  /\ net = {} /\ others = 0 /\ handled = {} /\ harmed = {}

-----------------------------------------------------------------------------
(* A client: HostTransport and tarpc's call_on                             *)

\* call_on: Transport::send of the request, then Transport::recv.  A request
\* too large for a datagram, or to a peer that the Host has evicted, is an
\* error of Host::send, which takes the transport with it.
send_request(n, p, i) ==
  /\ state[n] = "free" /\ calls[n] < MaxCalls
  /\ peer' = [peer EXCEPT ![n] = p]
  /\ id' = [id EXCEPT ![n] = i]
  /\ calls' = [calls EXCEPT ![n] = @ + 1]
  /\ returned' = [returned EXCEPT ![n] = NoEnvelope]
  /\ \/ /\ state' = [state EXCEPT ![n] = "waiting"]
        /\ net' = net \cup
             {RpcDatagram(n, p, "RPC",
                          Envelope("Request", i, << n, calls[n] + 1 >>))}
     \/ state' = [state EXCEPT ![n] = "lost"] /\ UNCHANGED net
  /\ UNCHANGED << others, handled, harmed >>

\* call_on takes an answer; any other envelope is an error to it, as is a
\* body that does not parse, and the transport with its Host is dropped.
Return(n, d) ==
  /\ state' = [state EXCEPT ![n] = IF d.body.op \in {"Response", "Error"}
                                   THEN "free" ELSE "lost"]
  /\ returned' = [returned EXCEPT ![n] = d.body]
  /\ net' = net \ {d}
  /\ harmed' = harmed \cup (IF d.body.op = "Request" THEN {d.body.payload}
                            ELSE {})
  /\ UNCHANGED << peer, id, calls, others, handled >>

\* Everything else is absorbed, the requests of other clients included.
Absorb(d) ==
  /\ net' = net \ {d}
  /\ harmed' = harmed \cup (IF d.body.op = "Request" THEN {d.body.payload}
                            ELSE {})
  /\ UNCHANGED << state, peer, id, calls, returned, others, handled >>

\* Mutant: an envelope of anybody ends the call.
drain_for_rpc_any(n, d) ==
  /\ state[n] = "waiting"
  /\ \/ d.kind = "RPC" /\ Return(n, d)
     \/ d.kind # "RPC" /\ Absorb(d)

\* Only an RPC datagram of the anchored peer ends the wait.
drain_for_rpc(n, d) ==
  /\ state[n] = "waiting"
  /\ \/ d.src = peer[n] /\ d.kind = "RPC" /\ Return(n, d)
     \/ ~ (d.src = peer[n] /\ d.kind = "RPC") /\ Absorb(d)

-----------------------------------------------------------------------------
(* A server: serve_one                                                     *)

\* Mutant: a handler's error is reported to nobody.
dispatch_request_mute(n, d) ==
  /\ handled' = handled \cup {<< n, d.body.payload >>}
  /\ \/ /\ net' = (net \ {d}) \cup
                   {RpcDatagram(n, d.src, "RPC",
                      Envelope("Response", d.body.id, d.body.payload))}
        /\ UNCHANGED << state, harmed >>
     \/ /\ net' = net \ {d}
        /\ UNCHANGED << state, harmed >>
  /\ UNCHANGED << peer, id, calls, returned, others >>

\* The service answers, or its error is the answer.  A response too large
\* for a datagram is an error of Host::send, which ends the server.
dispatch_request(n, d) ==
  /\ handled' = handled \cup {<< n, d.body.payload >>}
  /\ \/ \E op \in {"Response", "Error"} :
          /\ net' = (net \ {d}) \cup
               {RpcDatagram(n, d.src, "RPC",
                            Envelope(op, d.body.id, d.body.payload))}
          /\ UNCHANGED << state, harmed >>
     \/ /\ net' = net \ {d}
        /\ state' = [state EXCEPT ![n] = "lost"]
        /\ harmed' = harmed \cup {d.body.payload}
  /\ UNCHANGED << peer, id, calls, returned, others >>

\* Requests are dispatched; whatever else arrives is Rejected.
handle_rpc_datagram(n, d) ==
  /\ state[n] = "free" /\ n \in Servers
  /\ \/ /\ d.kind = "RPC" /\ d.body.op = "Request"
        /\ dispatch_request(n, d)
     \/ /\ ~ (d.kind = "RPC" /\ d.body.op = "Request")
        /\ net' = net \ {d}
        /\ UNCHANGED << state, peer, id, calls, returned, others, handled,
                        harmed >>

-----------------------------------------------------------------------------

\* Host::recv_one, inside serve_one or inside a drain.
serve_or_drain(n) ==
  \E d \in net :
    d.dst = n /\ (handle_rpc_datagram(n, d) \/ drain_for_rpc(n, d))

\* Another protocol sends to a node, or the body is not JSON.
SendOther(n, p, kind) ==
  /\ others < MaxOther /\ state[n] = "free"
  /\ others' = others + 1
  /\ net' = net \cup {RpcDatagram(n, p, kind, NoEnvelope)}
  /\ UNCHANGED << state, peer, id, calls, returned, handled, harmed >>

\* A datagram is lost.
Lose(d) ==
  /\ net' = net \ {d}
  /\ harmed' = harmed \cup (IF d.body.op = "none" THEN {} ELSE {d.body.payload})
  /\ UNCHANGED << state, peer, id, calls, returned, others, handled >>

RpcNext ==
  \/ \E n \in Nodes : \E p \in Nodes \ {n} :
       \/ p \in Servers /\ \E i \in Ids : send_request(n, p, i)
       \/ \E kind \in {"RPC", "other", "none"} : SendOther(n, p, kind)
  \/ \E n \in Nodes : serve_or_drain(n)
  \/ \E d \in net : Lose(d)

\* A server goes on serving, a client goes on draining.
RpcSpec ==
  /\ RpcInit /\ [][RpcNext]_rpc_vars
  /\ \A n \in Nodes : WF_rpc_vars(serve_or_drain(n))

-----------------------------------------------------------------------------
(* Properties                                                              *)

\* The answer a call returns was made by the peer that was called, for this
\* very call, although answers are told apart by nothing but the peer they
\* come from; and a request that ends a call, because it is no answer, is that
\* peer's own, crossing the call: a third node's never does (drain_for_rpc).
AnswerOwn ==
  \A n \in Nodes :
    /\ returned[n].op \in {"Response", "Error"} =>
         /\ returned[n].payload = Call(n) /\ returned[n].id = id[n]
         /\ << peer[n], Call(n) >> \in handled
    /\ state[n] = "lost" /\ returned[n].op = "Request" =>
         returned[n].payload[1] = peer[n]

\* A call returns, whatever other clients and protocols send meanwhile and
\* whether or not the handler succeeds, unless its request or answer is lost,
\* reaches a server that is itself waiting, or is too large to send, or the
\* server is gone.
CallReturns ==
  \A n \in Nodes :
    (state[n] = "waiting") ~>
      (state[n] # "waiting" \/ Call(n) \in harmed \/ state[peer[n]] = "lost")

=============================================================================
