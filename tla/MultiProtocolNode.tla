------------------------- MODULE MultiProtocolNode --------------------------
(***************************************************************************)
(* A MultiProtocolNode (libp2p-cat-mux, node.rs): one Host shared by a     *)
(* Kademlia routing table, the roles of pubsub topics, rendezvous and RPC. *)
(* Plaintexts are dispatched by their kind byte; a lookup, which the node  *)
(* drives by itself, drains the traffic of all protocols.                  *)
(*                                                                         *)
(* What a protocol does with its frame is what its own module has it do.   *)
(* The methods of Lookup are those of module Lookup; the rounds and the    *)
(* drain are the node's own and are shown to implement that module's.      *)
(* Rendezvous frames change none of the state kept here unless they end    *)
(* the node; RPC frames, application data, and a broadcast of pieces to    *)
(* whoever is established never do.                                        *)
(***************************************************************************)
EXTENDS KademliaNode

CONSTANTS PeerAt,         \* address -> identity that a handshake verifies
          MaxDatagram,    \* the bytes that Host::send can put in a datagram
          alpha, lookup_k, max_rounds, max_recv_per_round,  \* LookupConfig
          Unroutable,     \* addresses that the socket refuses to send to
          MaxLookups,
          piece_count, Topics, Generations, WellFormed, MaxTick, MaxIdle

\* Every plaintext has its kind byte in front (prefix_kind, kind_wrap).
KIND_LEN == 1

ASSUME PeerAtAssumption == PeerAt \in [Addrs -> Peers]
ASSUME MaxDatagramAssumption == MaxDatagram = KIND_LEN + MaxPlaintext
ASSUME LookupConfigAssumption == lookup_k \in Nat

VARIABLES established, in_flight,                  \* the Host
          decoders, recoders, tick,                \* PubsubState
          absorbed, delivered, emitted,
          phase, target, entries, pending_queries, \* a lookup
          pending_dials, rounds_left, budget, result, heard, touched, lost,
          lookups

\* What a lookup may meet: peers at the addresses where the Host sees them,
\* which seed it, and at those the wire returns.
LookupContacts ==
  [id : Peers \cup {self_id}, addr : Addrs \cup {Unscoped(a) : a \in Addrs}]

L == INSTANCE Lookup WITH k <- lookup_k, Contacts <- LookupContacts

P == INSTANCE PubsubMux

host_vars == << established, in_flight, lost >>
kad_vars == << table, offered >>
pubsub_vars == << decoders, recoders, tick, absorbed, delivered, emitted >>
lookup_vars == << phase, target, entries, pending_queries, pending_dials,
                  rounds_left, budget, result, heard, touched, lookups >>
multi_vars == << host_vars, kad_vars, pubsub_vars, event, lookup_vars >>

\* An event of the node that is none of a protocol's; "Err" stands for the
\* loss of the node to an error.
NodeEvent(kind) == [kind |-> kind]

MultiInit ==
  /\ L!Init /\ established = {}
  /\ Init
  /\ decoders = P!EmptyTable /\ recoders = P!EmptyTable /\ tick = 0
  /\ absorbed = [t \in Topics |-> {}]
  /\ delivered = [t \in Topics |-> 0] /\ emitted = [t \in Topics |-> 0]

\* The application has the node.
idle == phase = "idle" /\ event.kind # "Err" /\ lookups < MaxLookups

draining ==
  phase = "drain" /\ event.kind # "Err" /\ budget > 0 /\ L!has_pending

-----------------------------------------------------------------------------
(* What the application does between lookups                               *)

\* A dial of an address that is established or in flight, or that the socket
\* refuses, is an error, and the node is gone with the effect.
dial(addr, gone) ==
  /\ idle
  /\ \/ L!HandshakeBegins(addr, gone) /\ event' = NodeEvent("dial")
     \/ /\ addr \in established \cup in_flight \cup Unroutable
        /\ event' = NodeEvent("Err")
        /\ UNCHANGED host_vars
  /\ UNCHANGED << kad_vars, pubsub_vars, lookup_vars >>

\* register_topic, register_relay, unregister_* and evict_idle_*, which
\* pass through to PubsubState.
pubsub_lifecycle ==
  /\ idle /\ tick < MaxTick
  /\ \/ \E t \in Topics, gen \in Generations :
          P!register_topic(t, gen, TRUE) \/ P!register_relay(t, gen, TRUE)
     \/ \E t \in Topics : P!unregister_topic(t) \/ P!unregister_relay(t)
     \/ \E max_idle \in 0 .. MaxIdle :
          P!evict_idle_topics(max_idle) \/ P!evict_idle_relays(max_idle)
  /\ UNCHANGED << host_vars, kad_vars, lookup_vars >>

\* send_app, kad_ping, kad_find_node, send_rpc, send_observe_req and
\* send_punch_req: to a peer that is not established (any more) they fail,
\* and the node is gone with the effect.
send_with_kind(addr) ==
  /\ idle
  /\ event' = NodeEvent(IF addr \in established THEN "sent" ELSE "Err")
  /\ UNCHANGED << host_vars, kad_vars, pubsub_vars, lookup_vars >>

-----------------------------------------------------------------------------
(* recv_one: what each protocol makes of its frame                         *)

dispatch_kad(addr, received) ==
  /\ handle_datagram(PeerAt[addr], addr, received)
  /\ UNCHANGED pubsub_vars

\* A lookup drains with unused_relay_rng: a relay cannot recode meanwhile.
dispatch_pubsub(piece) ==
  /\ tick < MaxTick
  /\ P!handle_pubsub_body(piece)
  /\ phase = "drain" => event'.kind # "PubsubRelayed"
  /\ UNCHANGED kad_vars

\* The frames of rendezvous, and those that make a node send nothing.
RendezvousFrames ==
  [op : {"ObserveReq", "PunchReq", "PunchForward", "RelayDataReq", "other"},
   addr : Addrs \cup Unroutable]

\* Mutant: the target of a PUNCH_REQ is not looked for among the peers.
AnswersTo_unchecked(from, frame) ==
  CASE frame.op = "ObserveReq" -> {from}
    [] frame.op = "PunchReq" -> {frame.addr}
    [] frame.op = "RelayDataReq" ->
         {IF frame.addr \in established THEN frame.addr ELSE from}
    [] OTHER -> {}

\* Whom an answer or a forward goes to, by Host::send.
AnswersTo(from, frame) ==
  CASE frame.op = "ObserveReq" -> {from}
    [] frame.op = "PunchReq" -> {frame.addr} \cap established
    [] frame.op = "RelayDataReq" ->
         {IF frame.addr \in established THEN frame.addr ELSE from}
    [] OTHER -> {}

\* Host::send takes established peers only.  (That answers and forwards fit in
\* a datagram is ServerSurvives of module Rendezvous.)  The byte of a punch
\* goes by send_raw, wherever the frame says.
Unsendable(from, frame) ==
  \/ ~ (AnswersTo(from, frame) \subseteq established)
  \/ frame.op = "PunchForward" /\ frame.addr \in Unroutable

\* The loss of the node to the reaction to a frame.
ReactionFails(frame) == [kind |-> "Err", frame |-> frame]

dispatch_rendezvous(from, frame) ==
  /\ event' = IF Unsendable(from, frame) THEN ReactionFails(frame)
              ELSE NodeEvent("Rendezvous")
  /\ UNCHANGED << kad_vars, pubsub_vars >>

\* RPC envelopes, application data, and plaintexts with no kind byte or one
\* that is unknown.
dispatch_other(kind) ==
  /\ event' = NodeEvent(kind)
  /\ UNCHANGED << kad_vars, pubsub_vars >>

\* Mutant: the table is not told of the peer.
kad_handshake_complete_untold(addr) ==
  /\ event' = NodeEvent("HandshakeComplete")
  /\ UNCHANGED << kad_vars, pubsub_vars >>

\* handle_host_event for HandshakeComplete.
kad_handshake_complete(addr) ==
  /\ handshake_complete(PeerAt[addr], addr)
  /\ UNCHANGED pubsub_vars

-----------------------------------------------------------------------------
(* lookup_node: rounds                                                     *)

lookup_node(t) ==
  /\ idle
  /\ LET seeds == closest_to(table, t, lookup_k)
     IN L!run_lookup(t, {seeds[i] : i \in DOMAIN seeds})
  /\ event' = NodeEvent("lookup_node")
  /\ UNCHANGED << kad_vars, pubsub_vars >>

\* drive_lookup_rounds ends, or finds nobody to act on.
drive_lookup_rounds ==
  /\ phase = "round"
  /\ \/ rounds_left = 0 \/ L!is_done
     \/ L!pick_next_alpha = {}
  /\ phase' = "idle"
  /\ result' = L!top_k
  /\ event' = NodeEvent("lookup returned")
  /\ UNCHANGED << target, entries, pending_queries, pending_dials,
                  rounds_left, budget, heard, touched, lookups, host_vars,
                  kad_vars, pubsub_vars >>

\* Mutant: peers are dialled whether or not they are established.
drive_lookup_round_pick_dial ==
  /\ phase = "round" /\ rounds_left > 0 /\ ~ L!is_done
  /\ event.kind # "Err"
  /\ L!pick_next_alpha # {}
  /\ L!mark({}, L!pick_next_alpha)
  /\ in_flight' =
       in_flight \cup {entries[i].addr : i \in L!pick_next_alpha}
  /\ phase' = "drain"
  /\ budget' = max_recv_per_round
  /\ event' = NodeEvent("sent")
  /\ UNCHANGED << target, rounds_left, established, lost, result, heard,
                  lookups, kad_vars, pubsub_vars >>

\* Those picked are queried where they are established and dialled where
\* they are not, in turn: the first dial that fails ends it all.
drive_lookup_round_pick ==
  /\ phase = "round" /\ rounds_left > 0 /\ ~ L!is_done
  /\ event.kind # "Err"
  /\ L!pick_next_alpha # {}
  /\ LET queries == {i \in L!pick_next_alpha :
                       entries[i].addr \in established}
         dials == L!pick_next_alpha \ queries
     IN \/ /\ L!mark(queries, dials)
           /\ L!DialAll(dials)
           /\ phase' = "drain"
           /\ budget' = max_recv_per_round
           /\ event' = NodeEvent("sent")
        \/ /\ L!DialRefused(dials)
           /\ phase' = "failed"
           /\ event' = NodeEvent("Err")
           /\ UNCHANGED << entries, pending_queries, pending_dials, touched,
                           in_flight, lost, budget >>
  /\ UNCHANGED << target, rounds_left, established, result, heard, lookups,
                  kad_vars, pubsub_vars >>

\* The drain of a round is over.
end_of_drain ==
  /\ phase = "drain" /\ event.kind # "Err"
  /\ budget = 0 \/ ~ L!has_pending
  /\ L!skip_pending
  /\ rounds_left' = rounds_left - 1
  /\ phase' = "round"
  /\ UNCHANGED << target, budget, result, heard, touched, lookups, host_vars,
                  kad_vars, pubsub_vars, event >>

-----------------------------------------------------------------------------
(* recv_one, by the application or by the drain of a lookup                *)

\* Of a lookup, only the budget changes; nothing does if the node is lost.
absorb_other ==
  /\ budget' = IF phase = "drain" /\ event'.kind # "Err" THEN budget - 1
               ELSE budget
  /\ UNCHANGED << phase, target, entries, pending_queries, pending_dials,
                  rounds_left, result, heard, touched, lookups >>

\* absorb_lookup_event for KadFindNodeResponseReceived.
absorb_response(from, list) ==
  IF phase = "drain"
  THEN /\ L!record_response(from, list)
       /\ budget' = budget - 1
       /\ UNCHANGED << phase, target, pending_dials, rounds_left, result,
                       touched, lookups >>
  ELSE absorb_other

\* absorb_lookup_event for HandshakeComplete.
absorb_handshake(addr) ==
  IF phase = "drain" /\ addr \in DOMAIN pending_dials
  THEN /\ L!complete_dial(addr)
       /\ budget' = budget - 1
       /\ UNCHANGED << phase, target, pending_queries, rounds_left, result,
                       heard, touched, lookups >>
  ELSE absorb_other

recv_handshake(addr) ==
  \/ \E gone \in L!AtMostOne(in_flight) :
       /\ L!HandshakeBegins(addr, gone)
       /\ dispatch_other("HandshakeProgress")
       /\ absorb_other
  \/ \E gone \in L!AtMostOne(established) :
       /\ L!HandshakeCompletes(addr, gone)
       /\ kad_handshake_complete(addr)
       /\ absorb_handshake(addr)

\* Of a response that names a peer more than once, record_response keeps the
\* first mention (or_insert).
FirstMentions(peers) ==
  {peers[i] : i \in {j \in DOMAIN peers :
                      \A h \in DOMAIN peers :
                        peers[h].id = peers[j].id => j <= h}}

\* dispatch_plaintext for the kinds of kad, pubsub, rendezvous, and all others.
recv_plaintext(addr) ==
  /\ addr \in established
  /\ \/ \E received \in Received :
          /\ dispatch_kad(addr, received)
          /\ IF received.ok /\ received.value.op = "FindNodeResp"
             THEN absorb_response(addr, FirstMentions(received.value.peers))
             ELSE absorb_other
     \/ \E piece \in P!Pieces : dispatch_pubsub(piece) /\ absorb_other
     \/ \E frame \in RendezvousFrames :
          dispatch_rendezvous(addr, frame) /\ absorb_other
     \/ \E kind \in {"AppData", "RpcDatagram", "Rejected"} :
          dispatch_other(kind) /\ absorb_other
  /\ UNCHANGED host_vars

\* Any other HandshakeProgress or Rejected of the Host.
recv_rejected ==
  /\ dispatch_other("Rejected")
  /\ absorb_other
  /\ UNCHANGED host_vars

recv_one ==
  /\ idle \/ draining
  /\ \/ \E addr \in Addrs : recv_handshake(addr) \/ recv_plaintext(addr)
     \/ recv_rejected

MultiNext ==
  \/ \E addr \in Addrs :
       \/ \E gone \in L!AtMostOne(in_flight) : dial(addr, gone)
       \/ send_with_kind(addr)
  \/ pubsub_lifecycle
  \/ \E t \in Targets : lookup_node(t)
  \/ drive_lookup_rounds \/ drive_lookup_round_pick \/ end_of_drain
  \/ recv_one

MultiSpec == MultiInit /\ [][MultiNext]_multi_vars

-----------------------------------------------------------------------------
(* Properties                                                              *)

\* The lookups of the node, whose driver is a second one beside the one of
\* the Kademlia crate ("Mirrors KademliaNode::lookup_node"), are lookups as
\* module Lookup describes them, whatever other protocols do meanwhile.
LookupSpec == L!Spec

\* Whoever the Host is established with, and whoever a lookup considers or
\* returns, has been offered to the routing table: the two views of who is
\* out there, filled from different events, do not drift apart.
PeersOffered ==
  {PeerAt[a] : a \in established} \cup DOMAIN entries \cup result
    \subseteq EverOffered(offered)

\* While a lookup drains, two things that arrive can end the node, and it is
\* in the hands of whoever is established to send them: a piece for a topic
\* that is registered for relay (the limitation lookup_node documents), and a
\* PUNCH_FORWARD that names an address the socket refuses ("socket / Noise
\* errors propagate transparently").  Nothing else does, of whatever protocol
\* and from whomever, if k entries with IPv6 addresses fit in a datagram.
DrainSurvives ==
  [][KIND_LEN + 2 + k * ENTRY_V6_LEN <= MaxDatagram /\ k <= MAX_PEERS_PER_RESP
       => (draining /\ event'.kind = "Err" =>
             \/ \E t \in DOMAIN recoders : event' = P!Event("Err", t)
             \/ \E addr \in Unroutable :
                  event' = ReactionFails([op |-> "PunchForward",
                                          addr |-> addr]))]_multi_vars

=============================================================================
