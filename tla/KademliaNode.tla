---------------------------- MODULE KademliaNode ----------------------------
(***************************************************************************)
(* A KademliaNode (libp2p-cat-kad, node.rs): how the events of its Host    *)
(* and the RPCs of its peers change the routing table, and what it answers *)
(* to FIND_NODE.                                                           *)
(*                                                                         *)
(* The Host is external here: it delivers events about any peer at any     *)
(* address, the identity being the one its handshake verified.             *)
(***************************************************************************)
EXTENDS RoutingTable, KadCodec

CONSTANTS Peers,          \* the other nodes
          Addrs,          \* the addresses they are seen at
          Targets,        \* what peers ask for
          MaxAdvertised,  \* bound: peers in a FIND_NODE response
          MaxPlaintext    \* the bytes that Host::send can put in a datagram

ASSUME PeersAssumption ==
  Peers \subseteq NodeIds \ {self_id} /\ Targets \subseteq NodeIds
ASSUME AddrsAssumption == \A addr \in Addrs : IsAddr(addr)
ASSUME MaxAdvertisedAssumption ==
  MaxAdvertised \in 0 .. MAX_PEERS_PER_RESP /\ MaxPlaintext \in Nat

VARIABLES table,    \* the RoutingTable
          event,    \* the last KadEvent
          offered   \* history: << a, b >> if a was offered and b has not been
                    \* offered since, a = b included

vars == << table, event, offered >>

\* What a response may advertise.
Contacts ==
  {Entry(id, Unscoped(addr)) : id \in Peers \cup {self_id}, addr \in Addrs}

Frames ==
  {Ping("PingReq"), Ping("PingResp")}
  \cup {FindNodeReq(target) : target \in Targets}
  \cup {FindNodeResp(peers) :
          peers \in UNION {[1 .. n -> Contacts] : n \in 0 .. MaxAdvertised}}

\* The frames of the peers, and what is left of a frame that lacks its last
\* byte: what decode makes of each.
Received ==
  LET wire == {encode(f).value : f \in Frames}
  IN {decode(bytes) : bytes \in wire \cup {First(w, Len(w) - 1) : w \in wire}}

\* Only a FindNodeRequestReceived has a target and an answer, in bytes.
Event(kind, id) == [kind |-> kind, id |-> id, target |-> {}, answer |-> << >>]

EverOffered(history) == {p[1] : p \in history}

\* The history after a peer was offered to the table.
OfferOne(history, id) ==
  IF id = self_id THEN history
  ELSE {p \in history : p[2] # id}
       \cup ({id} \X (EverOffered(history) \cup {id}))

\* The history after peers were offered one after the other.
Offer(history, peers) ==
  LET after[n \in 0 .. Len(peers)] ==
        IF n = 0 THEN history ELSE OfferOne(after[n - 1], peers[n].id)
  IN after[Len(peers)]

insert_all(tab, peers) ==
  LET after[n \in 0 .. Len(peers)] ==
        IF n = 0 THEN tab
        ELSE insert(after[n - 1], peers[n].id, peers[n].addr)
  IN after[Len(peers)]

Init ==
  /\ table = EmptyRoutingTable
  /\ event = Event("none", self_id)
  /\ offered = {}

-----------------------------------------------------------------------------
(* recv_one, by the event of the Host                                      *)

\* HandshakeProgress and Rejected pass through; so does a datagram that does
\* not decode.
pass_through(kind) ==
  /\ event' = Event(kind, self_id)
  /\ UNCHANGED << table, offered >>

handshake_complete(id, addr) ==
  /\ table' = insert(table, id, addr)
  /\ offered' = Offer(offered, << Entry(id, addr) >>)
  /\ event' = Event("HandshakeComplete", id)

\* PING_REQ (answered with PING_RESP) and PING_RESP.
handle_ping(id, addr, kind) ==
  /\ table' = insert(table, id, addr)
  /\ offered' = Offer(offered, << Entry(id, addr) >>)
  /\ event' = Event(kind, id)

\* Mutant: one peer more than a bucket holds is returned.
auto_reply_find_node_wide(id, addr, target) ==
  /\ table' = insert(table, id, addr)
  /\ offered' = Offer(offered, << Entry(id, addr) >>)
  /\ LET bytes == encode(FindNodeResp(closest_to(table', target, k + 1))) IN
     event' = IF bytes.ok /\ Len(bytes.value) <= MaxPlaintext
              THEN [Event("FindNodeRequestReceived", id) EXCEPT
                       !.target = target, !.answer = bytes.value]
              ELSE Event("Err", id)

\* FIND_NODE_REQ: the peer is inserted first, then the table is searched.
\* An answer that cannot be encoded or sent is an error, which takes the
\* node with it.
auto_reply_find_node(id, addr, target) ==
  /\ table' = insert(table, id, addr)
  /\ offered' = Offer(offered, << Entry(id, addr) >>)
  /\ LET bytes == encode(FindNodeResp(closest_to(table', target, k))) IN
     event' = IF bytes.ok /\ Len(bytes.value) <= MaxPlaintext
              THEN [Event("FindNodeRequestReceived", id) EXCEPT
                       !.target = target, !.answer = bytes.value]
              ELSE Event("Err", id)

\* FIND_NODE_RESP: the sender and everybody it advertises are inserted.
find_node_response(id, addr, peers) ==
  /\ table' = insert_all(table, << Entry(id, addr) >> \o peers)
  /\ offered' = Offer(offered, << Entry(id, addr) >> \o peers)
  /\ event' = Event("FindNodeResponseReceived", id)

\* A datagram of the peer id, at addr: decoded, and dispatched by its frame.
handle_datagram(id, addr, received) ==
  \/ ~ received.ok /\ pass_through("Rejected")
  \/ /\ received.ok /\ received.value.op = "PingReq"
     /\ handle_ping(id, addr, "PingRequestReceived")
  \/ /\ received.ok /\ received.value.op = "PingResp"
     /\ handle_ping(id, addr, "PingResponseReceived")
  \/ /\ received.ok /\ received.value.op = "FindNodeReq"
     /\ auto_reply_find_node(id, addr, received.value.target)
  \/ /\ received.ok /\ received.value.op = "FindNodeResp"
     /\ find_node_response(id, addr, received.value.peers)

\* RoutingTable::remove, by an application that took the node apart.
remove_peer(id) ==
  /\ table' = remove(table, id)
  /\ event' = Event("remove", id)
  /\ UNCHANGED offered

Next ==
  /\ event.kind # "Err"
  /\ \/ \E kind \in {"HandshakeProgress", "Rejected"} : pass_through(kind)
     \/ \E id \in Peers, addr \in Addrs :
          \/ handshake_complete(id, addr)
          \/ \E received \in Received : handle_datagram(id, addr, received)
     \/ \E id \in Peers : remove_peer(id)

Spec == Init /\ [][Next]_vars

-----------------------------------------------------------------------------
(* Properties                                                              *)

\* No bucket outgrows k, and a peer is in the table at most once, in the
\* bucket of its distance to the local node: remove, contains and the
\* address that closest_to reports all rely on it.
BucketsSound ==
  \A i \in Positions :
    /\ Len(table[i]) <= k
    /\ \A m, n \in DOMAIN table[i] :
         /\ table[i][m].id \in Peers
         /\ distance(self_id, table[i][m].id) \in
              {d \in NodeIds : i \in d /\ \A j \in d : j <= i}
         /\ table[i][m].id = table[i][n].id => m = n

\* Each bucket is ordered by how recently a peer was offered, so that the
\* last one is the least recently seen (Bucket::entries, lru_candidate).
RecencyOrder ==
  \A i \in Positions : \A m, n \in DOMAIN table[i] :
    m <= n => << table[i][m].id, table[i][n].id >> \in offered

\* The answer to FIND_NODE, as the peer that asked reads it off the wire:
\* the peers named are in ascending order of their numeric distance to the
\* target, at the addresses where they are tracked, as many as the node knows
\* up to k, and none that is left out is nearer.
AnswerExact ==
  event.kind = "FindNodeRequestReceived" =>
    LET Dist(id) == Numeric(distance(id, event.target))
        answer == decode(event.answer).value.peers
        named == {answer[i].id : i \in DOMAIN answer}
    IN /\ decode(event.answer).ok
       /\ Range(answer) \subseteq
            {Entry(e.id, Unscoped(e.addr)) : e \in Tracked(table)}
       /\ Len(answer) = Min({k, Cardinality(TrackedIds(table))})
       /\ \A i, j \in DOMAIN answer :
            i < j => Dist(answer[i].id) < Dist(answer[j].id)
       /\ \A id \in TrackedIds(table) \ named, near \in named :
            Dist(near) < Dist(id)

\* No request ends the node, wherever its peers are, if k entries with IPv6
\* addresses fit in a datagram ("well within Noise's per-datagram budget",
\* codec.rs): an answer is never longer than that.
NodeSurvives ==
  2 + k * ENTRY_V6_LEN <= MaxPlaintext /\ k <= MAX_PEERS_PER_RESP
    => event.kind # "Err"

StaysTracked ==
  \A id \in TrackedIds(table) :
    id \in TrackedIds(table') \/ (event'.kind = "remove" /\ event'.id = id)

\* Whoever is in the table stays there until it is removed by hand: no
\* newcomer, met or advertised, pushes a peer out (BucketFull).
OldPeersKept == [][StaysTracked]_vars

=============================================================================
