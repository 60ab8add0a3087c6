# TLA+ specifications of libp2p-cat-rs

libp2p-cat-rs is a peer-to-peer stack over UDP: Noise XX sessions, a `Host` that
keeps them by address, and Kademlia, RLNC pubsub, rendezvous and RPC on top of it.
Every operation consumes its node and returns it inside an effect (`Io`), so a
node has no internal concurrency; what is hard is what happens *between* nodes
and between the calls of one node: lost, repeated, reordered and forged
datagrams, tables at their limits, entries that vanish under a running protocol,
and errors that take the node with them.

Paths below are relative to `src/crates/`.

## Inventory

| Part | State | Operations | Interacts with | What makes it correct |
|---|---|---|---|---|
| Noise session (`libp2p-cat-noise/src/transport.rs`) | two keys, send counter, highest received nonce, 64-bit replay mask | `encrypt`, `decrypt` | peer session over UDP | no nonce reuse, at-most-once delivery, a failed datagram changes nothing |
| Noise XX handshake (`handshake.rs`) | typestates of both roles | `write_e`, `read_response`, `write_s`, `read_e`, `write_response`, `read_s` | Host, identity trailer | both ends hold the same keys and the right peer |
| Host (`libp2p-cat-host/src/host.rs`) | handshakes in flight and established connections by address, logical clock, capacities | `dial`, `send`, `send_raw`, `recv_one`, `evict`, `evict_idle` | socket, sessions, every protocol | tables disjoint and bounded, loss only for a cause, rejected datagrams harmless |
| Cookies (`cookie.rs`) | one secret | `mint`, `verify`, `challenge` | Host | no slot for an address that cannot receive |
| Identity (`libp2p-cat-identity`) | Ed25519 key, signed static key | `sign`, `verify` | handshake payloads | a peer id is its owner's |
| Routing table (`libp2p-cat-kad/src/bucket.rs`, `routing_table.rs`, `distance.rs`) | buckets by XOR distance | `insert`, `remove`, `closest_to` | Kademlia node | right bucket, recency order, exact answers |
| Kademlia node (`node.rs`) | Host, routing table | reactions to host events, `PING`, `FIND_NODE` | Host, lookup | table follows what was met and heard |
| Lookup (`lookup.rs`) | shortlist with statuses, pending queries and dials, budgets | rounds and drains | Kademlia node, Host | ends, asks nobody twice, returns the nearest |
| Pubsub (`libp2p-cat-pubsub/src/state.rs`, `mux.rs`) | decoders and recoders by topic, clock | register, unregister, sweep, broadcast, arriving pieces | Host, rlnc-cat-rs | bounded relays, delivered once, circulation ends |
| Rendezvous (`libp2p-cat-rendezvous`) | none of its own beyond the Host | observe, punch, relay | Host | payloads reach whom they name, failures are reported, no request ends the server |
| Multi-protocol node (`libp2p-cat-mux`) | Host, pubsub state, routing table | dispatch by kind byte, lookup | all of the above | no protocol loses its state to another, its lookups are lookups |
| RPC (`libp2p-cat-rpc`) | Host, peer | `send`, `recv`, `serve_one` | Host, tarpc-cat | an answer belongs to its call, and comes |
| Codecs (`codec.rs` of kad, pubsub and rendezvous, `auth.rs`, `topic.rs`) | none | `encode`, `decode` | the nodes above | read as written, nothing else read |
| UDP, types, facade | socket; values | I/O | everything | |

The behaviours that are hard to test are listed, each with its line, under
`hazards` in `PROJECT.json`.

## Modules

```
AtMostOnceDelivery <-- NoiseTransport
ConnectionTables <-- Host
                 <-- HostNetwork <-- MCHostNetwork, HostNetwork_proofs
NoiseTransport, Host, Rpc <-- Transport_proofs
ByteStrings <-- AddrCodec <-- KadCodec
                          <-- RendezvousCodec <-- Rendezvous <-- MCRendezvous
            <-- PubsubCodec
XorDistance <-- RoutingTable, KadCodec <-- KademliaNode <-- MCKademliaNode
            <-- Lookup <-- MCLookup
Rlnc <-- PubsubMux (also ConnectionTables) <-- PubsubMux_proofs
     <-- PubsubGossip (also PubsubCodec) <-- MCPubsubGossip
KademliaNode, Lookup, PubsubMux <-- MultiProtocolNode <-- MCMultiProtocolNode
XorDistance, AddrCodec <-- Values_proofs
Lookup, Values_proofs <-- Lookup_proofs
MultiProtocolNode, Values_proofs <-- Kademlia_proofs
PubsubGossip, Values_proofs <-- PubsubGossip_proofs
Rendezvous, Values_proofs <-- Rendezvous_proofs
```

Operators whose comment begins with "Mutant:" are deliberately wrong variants of
the operator that follows them. No specification uses them; each stands for a
plausible bug and shows that a property notices it.

**NoiseTransport** has both ends of a session (`send_nonce`, `recv_max_nonce`,
`recv_replay_window`, as the fields of `TransportState`) and the set of all
datagrams ever put on the wire; an end may receive any of them at any time, as
often as the path likes, and also datagrams made by nobody. Its specification is
`SessionSpec`, because one proof module extends several specifications. The replay
mask is the set of its one bits, as wide as `WindowBits` (64 in the code); `NonceMax` is
`u64::MAX`. An `Err` of `encrypt` consumes the session. **AtMostOnceDelivery** is
what a session promises: of the messages sent, some are delivered, each at most
once, in any order.

**ConnectionTables** and **Host** are one host against an arbitrary network. A
datagram is reduced to what the dispatcher can tell of it, its length class and
whether the cryptographic check of its path succeeds, and all combinations arrive.
Entries keep `last_activity`; `insert_with_lru` and `sweep_idle` stand for both
typed copies of these helpers.

**HostNetwork** is several hosts with the contents of messages: bare `msg1`,
challenge, `msg1` with cookie, `msg2`, `msg3`, data. Cryptography is symbolic: a
message carries the transcript it was made in and is accepted by a receiver with the
same one. Eviction may hit any entry at any time. `history` records what hosts did
(dialled, answered, completed) and outlives the entries. `trailers` says whose
identity bindings a host presents. The flags `Unreliable`, `Spoofing` and `Forgetting`
switch the environment's powers: `net_safe` has them all, `net_live` none.

**ByteStrings**, **AddrCodec**, **KadCodec**, **RendezvousCodec** and
**PubsubCodec** are the wire formats. A byte has `Base` values and a field the number
of bytes that its constant says (32 for a node id, 4 for an IPv4 address and so on in
the code), so that a codec can be examined over all short strings and all near misses
of its frames. A parser returns `Err`, or `Ok` with a value and the bytes it consumed,
as the code's `Result<(T, usize), Error>` does. The nodes below exchange these bytes.

**XorDistance**, **RoutingTable** and **KademliaNode**: an id is the set of
positions of its one bits, XOR is symmetric difference, and the derived order of
`Distance` is "the highest differing bit decides", compared with the numeric order
in the properties that use it. The Host below the node is external: any event may
come at any time. Frames arrive through `decode`, whole or one byte short, and an
answer is what `encode` makes of it; one that does not fit in `MaxPlaintext` bytes is
the `Err` that takes the node with it.

**Lookup** has the shortlist (`entries`), the pending maps, `rounds_left` and the
drain's `budget`. The Host is its two sets of addresses, which change under the
lookup: handshakes begin, complete and evict others, and between lookups the
application dials. A response may come from anybody, name anybody, and be late. A
round's dials are made nearest first (`DialAll`), each evicting the oldest handshake
of a full table, those of the same round included. `Unroutable` are addresses that the
socket refuses to send to (another family than its own, port 0): a dial there, or to an
address with a handshake in flight, is the `Err` that ends the lookup and the node
(`DialRefused`). `alpha` may be 0, which nothing in the code prevents.

**Rlnc** is what pubsub uses of rlnc-cat-rs (external), with coefficients reduced to
bits: a coding vector is a set, addition is symmetric difference, and a receiver's
knowledge is a space of vectors, to which `absorb` adds. `Span` is the definition this
is compared with: the least space that contains what was absorbed. **PubsubMux** is
one mux with its lifecycle operations and both paths of an arriving piece;
registration may give dimensions that the pieces do not have (`fits`), and the pieces
of a generation outside `WellFormed` verify but do not decode once they are complete:
the decoder is then gone with `Rejected`, and nothing is delivered.
**PubsubGossip** composes nodes: a source, relays in a graph with cycles, a decoder
that also broadcasts another generation. What they send are the bytes of `PubsubCodec`
under one of the three authenticators. The authenticators are external: `commit`,
`tag` and the data of a combination are constants, of which `AuthenticatorAssumption`
says that they have the widths the codec writes and that a tag of one generation is
none of another's, except where there are no tags (`NullAuthenticator`). Verification
is against the commitment of the registration.

**Rendezvous** is a server and clients behind NATs. A session is known to each end by
the address it sees; `rebind` moves a client to another address, `evict` forgets one
end of a session, a new dial makes another session under the same address, datagrams
get lost. A datagram is sealed by its session and refused under any other. `opened`
is what a client's NAT lets in: `auto_send_punch` is what adds to it. `Unroutable`
gives for each node the addresses its socket refuses; a PUNCH_FORWARD to one of them
fails, and the `Err` takes the node with its sessions (`PunchFails`). Calls
(`observe_self`, `punch_via`, `relay_via`) and the reactions of
`process_plaintext` are one action each. Sessions, datagrams and events carry who
dialled and which call they are due to, as history: that is what `RelayTrue` compares.
Addresses are of one family, that of the server's socket. `disturbed` marks a client that was not in
touch with the server, or lost something, since its last call: the promises of
`ObserveReturns` and `PunchOpens` are for the others.

**Rpc** is nodes that call through a `HostTransport`, nodes that loop over
`serve_one`, and nodes that do both in turn. tarpc's client is external: it takes one
envelope and fails on one that is no answer. Request ids may collide, because the
transport does not look at them. `Host::send` may fail at any request, and takes the
transport with it.

**MultiProtocolNode** is the composition: it extends `KademliaNode` by the Host's two
sets of addresses, the roles of `PubsubMux` and a lookup, all sharing `event`. It uses
the reactions of `KademliaNode` and `PubsubMux` and the methods of `Lookup` (`mark`,
`record_response`, `complete_dial`, `skip_pending`, and `DialAll` for the dials); the
driver of the rounds, the drain and the dispatch are its own, as they are in the code.
A rendezvous frame is reduced to whom the reaction to it is sent (`AnswersTo`): the
peer it came from, a peer it names, or, for PUNCH_FORWARD, any address at all. The
first two go by `Host::send`, and a named peer that is not established is not sent to;
the third is a raw send, and an address the socket refuses ends the node
(`dispatch_rendezvous`). So does a `dial` that the Host refuses.

The exact correspondence of definitions to source lines is `map` in `PROJECT.json`.

## Runs

| Run | Question | Bounds |
|---|---|---|
| `noise_transport` | Is every nonce used once, every message delivered at most once, and does the window refuse exactly what it must? Does the session implement `AtMostOnceDelivery`? | window of 3 bits, counter ending at 6: nonces fall off the window on both ends and the counter runs out |
| `host_tables` | Are the tables sound (typed, disjoint, bounded, activities unique), is rejection harmless and loss only for a cause? | 3 addresses for 2 slots in each table, 7 ticks: both tables overflow and are swept |
| `net_safe` | Nonce reuse and disagreement under mutual dials, replays and evictions; whose `msg1` can take a slot, and who is reported as the peer? | 2 hosts, 2 ephemerals each, 2 sends each: a stale handshake beside a new one; forged sources, either host presenting either identity; one answer to a forged datagram stays on the path (`FewForgedAnswers`) |
| `net_live` | Does a dial complete in every order of arrival? | 3 hosts, one dialler with 2 ephemerals, data overtaking `msg3` |
| `kad_table` | Buckets, recency, nobody pushed out; are answers exact as the peer reads them, and do they always fit? | 3-bit ids, k = 2, a bucket with 3 candidates, targets that are the node, a peer and nobody, an IPv4 and an IPv6 address, a datagram that holds two IPv6 entries to the byte |
| `lookup` | Statuses, no repeated questions, what may fail a lookup, nearest results; does everything that arrives bring a lookup nearer to its end? | 3 peers, one at an address the socket refuses, alpha = k = 2, 3 rounds of 2 datagrams, 2 lookups: a peer is dialled, asked, and what it names is asked; leftovers of one lookup meet the next |
| `lookup_quiet` | Does a lookup return when its peers do not answer? Expected violation: no | as `lookup` |
| `pubsub_mux` | Relay bound, exact delivery, roles end for cause | 2 topics, 2 generations of 2 pieces, one of which does not decode, 5 ticks: one more piece than a generation needs |
| `pubsub_gossip` | Does circulation end, and stay within the source's pieces? Are frames exact under every authenticator? | a triangle of relays, 2 pieces, loss and reordering, frames cut short |
| `rendezvous` | Do payloads reach whom they name, are failures told, does the server survive, do observations return and punches open? Is the codec exact? | 2 clients, 3 client addresses, 2 dials each, 2 calls, 2 faults: a client moves to the address another had; an address that one client cannot send to; a payload that fits and one that does not; strings of up to 3 bytes and near misses of all frames |
| `rpc` | Is the answer that a call returns its own, and does it come? | a client, two servers that also call, 2 calls each, equal request ids, a foreign datagram, sends that fail |
| `mux` | Are the node's lookups those of `Lookup`? Does the routing table know whom the Host and the lookup know? What ends a node while a lookup drains? | 2 peers, a lookup of 2 rounds of 2 datagrams, one topic in either role, a generation that decodes and one that does not, every rendezvous frame, an address the socket refuses, 2 ticks |

`HostNetwork`, `KademliaNode`, `Lookup`, `PubsubMux`, `PubsubGossip`, `Rendezvous`,
`Rpc` and `MultiProtocolNode` have no invariant that only states types: their
variables are functions and records that TLC would fail to evaluate outside of them.

### Where code and documentation disagree

The models take the code's side of each. One is a finding: the documented behaviour
is stated as a property, and `lookup_quiet` shows that the code does not have it.

- `Host::tick` says that the clock is "Incremented on every state-touching operation"
  (`host.rs:170`); a datagram that is rejected on the handshake paths advances it, too
  (`host.rs:1053`), so that junk ages quiet connections (`Host!try_responder_msg1`).
- `KadEvent::HandshakeComplete` says "The local routing table has already been updated
  to include this peer" (`event.rs:30`); with a full bucket it is not
  (`RoutingTable!bucket_insert`).
- `LookupConfig::max_rounds` "Caps the worst-case latency in the face of unresponsive
  peers" (`lookup.rs:48`), and of `skip_pending_queries` it is said that "without
  this, an unresponsive peer would block the lookup forever" (`lookup.rs:382`); the
  drain counts datagrams, and waits for ever when none arrives. `LookupReturns` states
  the claim, and `lookup_quiet` refutes it. What the budgets do give is
  `LookupAdvances`: a lookup handles at most
  `max_rounds` times `max_recv_per_round` datagrams.
- `capacity.rs` says that datagrams of an evicted peer are rejected.
  `try_responder_msg1` tells messages apart by length, so a transport datagram of 32
  bytes from such a peer is answered with a cookie challenge
  (`HostNetwork!LooksLikeMsg1`).
- `lookup.rs` says that a picked peer without an established connection is dialled.
  If its handshake is already in flight, `Host::dial` returns `Err`, and with it the
  lookup fails as a whole. `OwnDialsNeverFail` says whose handshake that can be: the
  peer's, or a leftover of an earlier lookup. The other cause is an address that the
  socket refuses, which any response can name.
- `KademliaNode::lookup_node` says that newly discovered peers "are not contacted in
  this lookup" (`node.rs:169`); they are dialled and then asked (`Lookup!act`).
- `lib.rs` of the multi-protocol crate says (line 52) that it re-implements the dispatch of
  Kademlia and rendezvous frames; it delegates to their `process_plaintext_with_wrap`.
- `mux.rs` (pubsub) says that of a decoder and a relay for one topic the second
  registration replaces the first. The two maps are separate and both entries stay; the
  relay is always looked up first (`PubsubMux!handle_pubsub_body`), so the decoder
  starves. The same comment calls the case undefined, and `RolesEndForCause` permits
  either.
- `codec.rs` (pubsub) says that `decode` fails "if the piece bytes do not match
  `k + b`" (line 111); `b` is not compared with anything
  (`PubsubCodec!decode_wire_piece`). The commitment in a frame is parsed and then
  ignored: `verify` uses the one of the registration.
- `serve.rs` says of `dispatch_request` that "Only socket / Noise failures propagate as
  `Err`" (line 199); a response that is too large for a datagram does, too, and ends the
  server (`Rpc!dispatch_request`).

Deadlock is not checked where a bound, or an `Err` that consumes the node, really
ends a behaviour. `kad_table` checks it.

### Fairness

- `HostNetwork!FairSpec`: weak fairness of each host's `Receive`. Drivers call
  `recv_one` in a loop, and this run's path loses nothing.
- `Lookup!QuietSpec`: weak fairness of the node's own steps only, since a call runs to
  completion. Nothing says that datagrams arrive, and the finding is about just that.
- `PubsubGossip!Spec`: weak fairness of taking some frame off the network, by receipt or
  loss. It is written without ENABLED, which TLC would evaluate by decoding every
  frame in every state.
- `Rendezvous!Spec` (of all nodes together) and `Rpc!RpcSpec` (of each node): weak fairness
  of receiving. A call drains until its answer is there, and drivers loop over
  `recv_one` and `serve_one`. Loss is possible but never required.

Nothing else is assumed; in particular no retry, because the code has none.

## Proofs

The `_proofs` modules prove, for every value of the constants, every invariant and
every action property that a passing run checks, and both refinements: that a session
implements `AtMostOnceDelivery`, and that the multi-protocol node's own lookups
implement `Lookup`. Each proof has the same shape: an inductive invariant,
established by the initial states and preserved by every action, which implies the
properties. The assumptions are the named `ASSUME`s of the component's module, which
TLC evaluates on each run; where a theorem needs more, it says so.

`Values_proofs` holds the lemmas about values that several components share (numbers,
distances, byte strings, addresses), `Transport_proofs` the proofs of sessions, of the
Host and of RPC, and `Kademlia_proofs` those of the Kademlia node and of the
multi-protocol node that extends it.

- *NoiseTransport.* At-most-once delivery is not inductive: it says nothing of the
  window. `IInv` adds that every datagram on the wire has a nonce below its sender's
  counter and the message sent with that nonce, that nothing beyond the highest
  nonce was delivered, and that within the window a bit is set exactly when its
  nonce was delivered. `AdvanceWindow` says what shifting does to
  that correspondence, `AcceptedIsFresh` that an accepted nonce was never delivered;
  the theorems, the refinement step included, follow from these. Assumptions:
  `WindowBits` is a positive natural and `NonceMax` a natural.
- *Host.* `HInv` joins types, disjointness, capacities and unique activity, with
  every activity at most the clock: the last is what makes a fresh tick differ from
  all stored ones. `LruExists` and `InsertWithLru` show that the evicting insertion
  stays within the capacity; `RestoreIsIdentity` shows that a failed attempt, which
  takes its entry out and puts it back through that same insertion, changes nothing,
  because the removal left room. Assumptions: addresses are naturals, capacities
  positive. `TablesSound`, what the run checks, joins the parts of `HInv` that a user
  of the Host relies on; each part has its own theorem as well.
- *HostNetwork.* Nothing about two hosts can be read off their present entries,
  because either may have been evicted; `NInv` is therefore about `history`. Every
  record has its cause in another one (a completion by the responder in one by the
  initiator, that in an answer, that in a dial), an ephemeral key completes one
  handshake, what a host holds is the latest it did with that address, and a
  datagram of a host says what its sender did. This gives `PeersAgree`,
  `SlotsOnlyForReachable` and, with "the next nonce of a connection is unused",
  `NonceNeverReused`. `MutualConnectionsAgree` is the deep one: keys number the steps
  of each host, and `CompletedBeforeAnswered`, `AnsweredInTurn` and
  `CompletedInTurn` say that what two hosts do with each other happens in one order
  at both; two different sessions held by both would each have to be the later one.
  Assumptions: hosts are positive naturals (0 is nobody's address), `trailers` gives
  each host a set of identities.
- *Values.* Lemmas only: a set of naturals has a least element, so a property of
  naturals has a least counterexample, and a recursive function has the value its
  equation says. With these, `NumericValue` gives the number of an identifier bit by
  bit, and `CloserIffLess` shows that "the highest differing bit decides" is the
  numeric order of distances, for identifiers of any width. `BeRoundTrip`,
  `BeWritten` and their little-endian twins show that integers of any width are read
  as they were written and written as they were read, digit by digit; `DecodeAddr` and
  `AddrWritten` the same for socket addresses. `HasAt` (a string is found at an
  offset, as far as the buffer goes) is how the codec proofs speak of whole and of
  truncated frames at once.
- *Lookup.* `LInv` adds to the properties that a pending address belongs to an entry
  with the status that says so, that a peer that was asked is never `Unqueried` again
  and one that was dialled is so only once established (unless the Host evicted
  somebody), and that the shortlist is what the lookup heard of.
  `TouchedTwice` needs no more. `PendingExact`, `OwnDialsNeverFail` and `ResultNearest`
  take the hypothesis `OwnAddresses` (each contact has an address of its own), which
  is what the run's contacts satisfy; without it they are false. `LookupAdvances`
  compares `StepsLeft` of two states, and rests on budgets that stay naturals.
- *KademliaNode.* `KTable` says of every bucket that it holds at most `k` distinct
  peers, all at its distance, ordered as the offers were; `KEvent` that the last
  answer is what `encode` made of `closest_to`. `closest_to` is shown to sort (the
  number of closer peers is a peer's place), and `KadFramesExact` that the codec reads
  every frame as it was written and refuses every proper prefix, whatever the widths
  of its fields and up to 255 entries: the entries are peeled off one at a time,
  since an entry is read the same whatever follows it. Assumptions: a byte's values
  are the `BYTE_BITS`-bit numbers and an id is a whole number of bytes, addresses fit
  their fields (`IsAddr`), an IPv6 address is at least as long as an IPv4 one, a peer
  advertises no more than the count byte can say.
- *MultiProtocolNode.* `MInv` says that the table is one of a `KademliaNode`, as
  above, that its `pending_dials` is a map, and `PeersOffered` itself. Both protocols
  fill the table, so the lemmas about `insert` carry over and `MultiTableHolds`
  follows. The refinement of `Lookup` is shown step by step: every step of the node's
  own driver is the step of `Lookup` that it mirrors, a frame of another protocol that
  the drain absorbs is `drain_other`, and an answer is a response of `Lookup` because
  what the codec reads from a datagram names contacts, each once (`FirstMentions`). With this the
  theorems of `Lookup_proofs` describe the second driver too. `DrainSurvives` goes
  through the protocols: of Kademlia's frames only an answer can fail, and it fits;
  rendezvous answers and forwards go to peers the Host is established with, so that of
  its frames only PUNCH_FORWARD is left, and its `Err` names the address; of pubsub's
  the relay path is left, because a decoder returns `Rejected` for whatever is wrong
  with a piece. Assumptions: those of
  `KademliaNode`, and that `MaxDatagram` leaves one byte for the kind.
- *PubsubMux.* `PInv` says that a decoder knows exactly the `Span` of what it
  absorbed, and a relay a space of as many dimensions as pieces it buffered and
  emitted. `AbsorbSpace` shows that absorbing a vector makes the least space with it,
  `AbsorbDoubles` that it doubles a space that lacked the vector; since the space of
  all vectors has 2^piece_count elements (`PowerIsCardinality`), a relay runs out
  of new vectors after `piece_count` pieces: `RelayBound`. `AbsorbedSpan` shows that a
  decoder which becomes complete is one whose pieces span everything: only then is it
  gone, by delivery, or by `Rejected` if its generation does not decode. Assumption: `piece_count`
  is a positive natural.
- *PubsubGossip.* First the codec: `PubsubFramesSurvive` (every frame is read as it
  was written) and `PubsubStringsReadAsWritten` (whatever is read is what would be
  written) hold under all three authenticators and for any widths. A lattice tag is
  the hard part: a count and as many integers, each found at its offset. `CutFrame`
  says that a frame that ends inside its coefficients is not read. These give
  `FramesExact`. `OnlySourcePieces` is not inductive, because it says nothing of what
  is in flight. `GInv` adds that what the source knows is a space, trivial until it
  has broadcast, and that each frame in flight is the encoding of a vector of that
  space, or a stranger's: then its tag does not verify, or it does not parse. Recoding
  stays inside the space, and a frame encoded anew carries a vector of it. Hypothesis:
  `ToldApart`, which is that the authenticator has tags or that nobody broadcasts
  another generation; under `NullAuthenticator` with a stranger the property is false.
- *Rendezvous.* `FramesSurvive` and `StringsReadAsWritten` are the codec, for any
  widths and bodies. `RelayTrue` compares events with requests made by sessions that
  may be gone, under addresses that may have passed to somebody else. `RInv` therefore
  ties both ends to history: the server knows a session by the address it was dialled
  from and a client has no session but its own, every datagram is the request of one
  call, or its forward or failure report, and a call is at one place, on the path or
  in one event. For the last part, that nothing is forgotten as long as nothing goes
  wrong, it adds that before the first fault all sessions are live at both ends.
  `ServerSurvives` rests on lengths: a forward is as long as its request, since all
  addresses are of one family, and the failure report fits; and nobody sends the server
  a PUNCH_FORWARD, so it makes no raw send that could fail. Assumptions: the failure
  report fits in a datagram, client addresses are of one family and not the server's.
- *Rpc.* `RpcInv` says of each envelope on the net that it is about its caller's
  current call, between the caller and the peer it called, and that a call has one
  envelope at most, the request or its answer: an earlier call's answer cannot be left
  over. Assumption: servers are nodes.

Only model-checked: liveness (`DialCompletes`, `CirculationEnds`, `ObserveReturns`,
`PunchOpens`, `CallReturns`), which is out of this prover's reach together with
fairness and ENABLED. The proofs use no induction over data as a rule of its own,
which the provers cannot apply; where one was needed (values of recursive functions,
entries of a frame) it is an argument about a least counterexample.

## Limits of the models

- `DialCompletes` assumes one dialler and no loss. After a lost `msg3` the responder
  waits for ever, and after simultaneous dials both sides do, until somebody
  evicts: the code has no timer or tie-break.
- `PendingExact`, `OwnDialsNeverFail` and `ResultNearest` are checked and proved for
  peers with addresses of their own (`OwnAddresses`). Two ids at one address overwrite
  each other's pending entry, and the entry that lost its own stays `InFlight`.
- The pubsub models take a tag to verify for its own generation only. That is the
  contract of the keyed-hash and lattice authenticators; `NullAuthenticator`
  verifies everything: its frames are exact, but it keeps nobody's pieces out. What it
  lets into a decoder is, in `PubsubMux`, a generation that is not in `WellFormed`.
- In the runs bytes are narrow: with `Base` = 8 and fields of one or two bytes every
  boundary of a length, a count and a prefix is reached, but not a field's real width.
  The proofs of the codecs are for all widths.
- The entries of a lattice tag are unsigned numbers where the code has `i64`; both
  have the same bytes, and nothing computes with them here.
- Addresses in `Rendezvous` are of one family. If a server saw clients of both, a
  forward could be longer than its request.
- In `MultiProtocolNode` RPC is its kind byte, and a rendezvous frame the addresses its
  reaction is sent to: they touch nothing that the others keep, but a rendezvous
  reaction can end the node, and then does so here. Whether a forward is too long for a
  datagram is `ServerSurvives`, in `Rendezvous`.
- The operating system is taken to accept what is sent to an established peer, and to
  whoever a datagram came from. Only addresses that a peer or the application chose
  (dials and punches) can be `Unroutable`. In `Rpc`, sends of requests can fail.
- `NodeSurvives` and `DrainSurvives` have a condition on `k`: that many IPv6 entries
  fit in a datagram. Nothing validates `k` in the code, and beyond it an ordinary
  FIND_NODE is answered with a datagram that the Host refuses, which ends the node.
- Several hazards are facts of the code that no property excludes, because the code
  does not exclude them: unresponsive peers stay in a full bucket, a session gone
  between a lookup in a table and its use loses a relayed payload, a client's drain
  absorbs requests meant for its own server. The list of hazards in `PROJECT.json`
  keeps these apart from the parts that properties catch.
- The service behind RPC, tarpc's client, network coding and authenticators are
  external and modelled from how the code uses them.
- Bit coefficients keep linear dependence but make unlucky combinations more likely
  than GF(256) does; no property depends on how likely they are.
- Cryptographic primitives, key generation and socket I/O are left out: the models
  take their guarantees (a sealed datagram opens in its session only, a signature is
  its owner's, a datagram arrives or does not) as symbolic assumptions.

### Not modelled

`primitives.rs` and `symmetric.rs` (byte-level cryptography), `keypair.rs` and the byte
layout of `signed_static_key.rs`, the UDP socket (it appears as the path of the
networks above), the value types of `libp2p-cat-types` beyond socket addresses, and the
facade crate, which re-exports.

## Plan

Done: sessions, host, handshake network, Kademlia, pubsub, rendezvous, RPC, the
multi-protocol node and the codecs, with proofs of every safety property that is
checked. What would be worth adding:

1. `Lookup` with two ids at one address, where one pending entry overwrites another.
2. An abstract specification of a lookup (a set of asked peers that only grows), with
   `Lookup` refining it.
3. Rendezvous over addresses of both families, where a forward that is longer than its
   request may not fit.
