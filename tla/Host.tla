-------------------------------- MODULE Host --------------------------------
(***************************************************************************)
(* One Host (libp2p-cat-host, host.rs) against an arbitrary network: its   *)
(* two tables, its logical clock, and every operation that changes them.   *)
(*                                                                         *)
(* A datagram is what the dispatcher can tell of it: its shape (the        *)
(* lengths the code compares) and whether the cryptographic check that its *)
(* path applies to it succeeds.  What the messages contain is the subject  *)
(* of HostNetwork.                                                         *)
(***************************************************************************)
EXTENDS ConnectionTables

CONSTANTS Addrs,                     \* peer addresses, in BTreeMap order
          max_handshakes_in_flight,  \* Capacity
          max_established,           \* Capacity
          MaxTick,                   \* bound: how many ticks a run lasts
          MaxIdle                    \* bound: thresholds given to evict_idle

ASSUME AddrsAssumption == Addrs \subseteq Nat
ASSUME CapacityAssumption ==
  /\ max_handshakes_in_flight \in Nat \ {0}
  /\ max_established \in Nat \ {0}
ASSUME BoundsAssumption == MaxTick \in Nat /\ MaxIdle \in Nat

NoAddr == "none"

VARIABLES handshakes,   \* addr -> [role, last_activity]
          established,  \* addr -> [last_activity]
          tick,         \* the host's logical clock
          event,        \* the last operation and its HostEvent
          running       \* FALSE once an Err consumed the host

vars == << handshakes, established, tick, event, running >>

Roles == {"initiator", "responder"}

\* "challenge": COOKIE_REPLY_LEN bytes with the marker; "msg1": MESSAGE_1_LEN
\* bytes; "msg1_cookie": MSG1_WITH_COOKIE_LEN bytes; "other": anything else.
Shapes == {"challenge", "msg1", "msg1_cookie", "other"}

Datagrams == [shape : Shapes, genuine : BOOLEAN]

\* A challenge is shorter than TRANSPORT_OVERHEAD; transport datagrams of
\* every other length exist.
Decrypts(d) == d.genuine /\ d.shape # "challenge"

\* msg2 and msg3 are longer than the three lengths told apart.
Advances(d) == d.genuine /\ d.shape = "other"

Event(op, addr, kind, idle) ==
  [op |-> op, addr |-> addr, kind |-> kind, idle |-> idle]

Received(from, kind) == Event("recv_one", from, kind, 0)

InFlight(role, now) == [role |-> role, last_activity |-> now]

Connection(now) == [last_activity |-> now]

Tick == tick' = tick + 1

-----------------------------------------------------------------------------
(* Operations of the application                                           *)

Init ==
  /\ handshakes = EmptyTable
  /\ established = EmptyTable
  /\ tick = 0
  /\ event = Event("new", NoAddr, "none", 0)
  /\ running = TRUE

\* An Err consumes the host: dial to a known address, send to one that is
\* not established, a failing socket.
Fails(op, addr) ==
  /\ running' = FALSE
  /\ event' = Event(op, addr, "Err", 0)
  /\ UNCHANGED << handshakes, established, tick >>

dial(addr) ==
  IF addr \in DOMAIN handshakes \/ addr \in DOMAIN established
  THEN Fails("dial", addr)
  ELSE /\ handshakes' = insert_with_lru(handshakes, addr,
                                        InFlight("initiator", tick + 1),
                                        max_handshakes_in_flight)
       /\ Tick
       /\ event' = Event("dial", addr, "none", 0)
       /\ UNCHANGED << established, running >>

send(addr) ==
  IF addr \notin DOMAIN established
  THEN Fails("send", addr)
  ELSE /\ established' = Put(established, addr, Connection(tick + 1))
       /\ Tick
       /\ event' = Event("send", addr, "none", 0)
       /\ UNCHANGED << handshakes, running >>

send_raw(addr) ==
  /\ Tick
  /\ event' = Event("send_raw", addr, "none", 0)
  /\ UNCHANGED << handshakes, established, running >>

evict(addr) ==
  /\ handshakes' = Remove(handshakes, addr)
  /\ established' = Remove(established, addr)
  /\ event' = Event("evict", addr, "none", 0)
  /\ UNCHANGED << tick, running >>

evict_idle(max_idle) ==
  LET cutoff == saturating_sub(tick, max_idle) IN
  /\ handshakes' = sweep_idle(handshakes, cutoff)
  /\ established' = sweep_idle(established, cutoff)
  /\ event' = Event("evict_idle", NoAddr, "none", max_idle)
  /\ UNCHANGED << tick, running >>

-----------------------------------------------------------------------------
(* recv_one                                                                *)

\* A datagram that does not decrypt leaves the entry, its last_activity and
\* the clock alone.
decrypt_established(from, d) ==
  /\ IF Decrypts(d)
     THEN /\ established' = Put(established, from, Connection(tick + 1))
          /\ Tick
          /\ event' = Received(from, "DatagramDelivered")
     ELSE /\ event' = Received(from, "Rejected")
          /\ UNCHANGED << established, tick >>
  /\ UNCHANGED << handshakes, running >>

\* The entry taken out of the table is put back through the same insertion
\* that bounds the table.
Restore(from, entry) ==
  insert_with_lru(Remove(handshakes, from), from, entry,
                  max_handshakes_in_flight)

\* The challenge is answered with msg1 || cookie; the dial keeps its age.
answer_cookie_challenge(from) ==
  /\ handshakes' = Restore(from, handshakes[from])
  /\ event' = Received(from, "HandshakeProgress")
  /\ UNCHANGED << established, tick, running >>

\* Mutant: the handshake stays in its table.
consume_keep_entry(from, d) ==
  /\ Tick
  /\ IF Advances(d)
     THEN /\ established' = insert_with_lru(established, from,
                                            Connection(tick + 1),
                                            max_established)
          /\ UNCHANGED handshakes
          /\ event' = Received(from, "HandshakeComplete")
     ELSE /\ handshakes' = Restore(from, handshakes[from])
          /\ event' = Received(from, "Rejected")
          /\ UNCHANGED established
  /\ UNCHANGED running

\* Mutant: a failed attempt loses the entry.
consume_drop_on_error(from, d) ==
  /\ Tick
  /\ handshakes' = Remove(handshakes, from)
  /\ IF Advances(d)
     THEN /\ established' = insert_with_lru(established, from,
                                            Connection(tick + 1),
                                            max_established)
          /\ event' = Received(from, "HandshakeComplete")
     ELSE /\ event' = Received(from, "Rejected")
          /\ UNCHANGED established
  /\ UNCHANGED running

\* initiator_consume_msg2 (which also sends msg3) and responder_consume_msg3:
\* the entry moves to the established table, or is put back as it was.
consume_final_message(from, d) ==
  /\ Tick
  /\ IF Advances(d)
     THEN /\ handshakes' = Remove(handshakes, from)
          /\ established' = insert_with_lru(established, from,
                                            Connection(tick + 1),
                                            max_established)
          /\ event' = Received(from, "HandshakeComplete")
     ELSE /\ handshakes' = Restore(from, handshakes[from])
          /\ event' = Received(from, "Rejected")
          /\ UNCHANGED established
  /\ UNCHANGED running

advance_in_flight(from, d) ==
  IF handshakes[from].role = "initiator" /\ d.shape = "challenge"
  THEN answer_cookie_challenge(from)
  ELSE consume_final_message(from, d)

\* A bare msg1 is answered with a stateless challenge, a msg1 whose cookie
\* verifies with msg2 and an entry (respond_to_validated_msg1: read_e and
\* write_response cannot fail on the 32 bytes they are given).
try_responder_msg1(from, d) ==
  /\ Tick
  /\ IF d.shape = "msg1_cookie" /\ d.genuine
     THEN handshakes' = insert_with_lru(handshakes, from,
                                        InFlight("responder", tick + 1),
                                        max_handshakes_in_flight)
     ELSE UNCHANGED handshakes
  /\ event' = Received(from,
                IF d.shape = "msg1" \/ (d.shape = "msg1_cookie" /\ d.genuine)
                THEN "HandshakeProgress" ELSE "Rejected")
  /\ UNCHANGED << established, running >>

\* dispatch_inbound: the established table is looked up first.
recv_one(from, d) ==
  \/ /\ from \in DOMAIN established
     /\ decrypt_established(from, d)
  \/ /\ from \notin DOMAIN established
     /\ from \in DOMAIN handshakes
     /\ advance_in_flight(from, d)
  \/ /\ from \notin DOMAIN established
     /\ from \notin DOMAIN handshakes
     /\ try_responder_msg1(from, d)

-----------------------------------------------------------------------------

Next ==
  /\ running
  /\ \/ /\ tick < MaxTick
        /\ \E addr \in Addrs :
             \/ dial(addr)
             \/ send(addr)
             \/ send_raw(addr)
             \/ \E d \in Datagrams : recv_one(addr, d)
     \/ \E addr \in Addrs : evict(addr)
     \/ \E max_idle \in 0 .. MaxIdle : evict_idle(max_idle)
     \/ Fails("socket", NoAddr)

Spec == Init /\ [][Next]_vars

-----------------------------------------------------------------------------
(* Properties                                                              *)

TypeOK ==
  /\ DOMAIN handshakes \subseteq Addrs
  /\ handshakes \in [DOMAIN handshakes ->
                       [role : Roles, last_activity : 0 .. tick]]
  /\ DOMAIN established \subseteq Addrs
  /\ established \in [DOMAIN established -> [last_activity : 0 .. tick]]
  /\ tick \in 0 .. MaxTick
  /\ running \in BOOLEAN

\* An address is in at most one of the two tables: an established address
\* never has a handshake in flight beside it (dial's guard, the removal in
\* advance_in_flight, the order of dispatch_inbound).
Disjoint == DOMAIN handshakes \cap DOMAIN established = {}

\* Neither table outgrows its Capacity.
WithinCapacity ==
  /\ Size(handshakes) <= max_handshakes_in_flight
  /\ Size(established) <= max_established

Known == DOMAIN handshakes \cup DOMAIN established

Activity(a) ==
  IF a \in DOMAIN handshakes
  THEN handshakes[a].last_activity ELSE established[a].last_activity

\* No two entries of the host were last touched at the same tick, so that
\* "least recently used" always names one entry and the tie-break of
\* min_by_key on the address never decides who is evicted.
ActivityUnique ==
  \A a, b \in Known : Activity(a) = Activity(b) => a = b

\* The two tables after any sequence of operations and datagrams: well
\* formed, never both holding one address, within their capacities, and with
\* no two entries of one age for the evicting insertion to choose between.
TablesSound == TypeOK /\ Disjoint /\ WithinCapacity /\ ActivityUnique

RejectionChangesNothing ==
  event'.kind = "Rejected" => UNCHANGED << handshakes, established >>

\* "An inbound datagram was rejected.  The host's connection state is
\* unchanged" (event.rs): no rejected datagram adds, removes, ages or
\* refreshes an entry, although the handshake paths take the entry out of
\* its table and put it back through the evicting insertion.
RejectedKeepsState == [][RejectionChangesNothing]_vars

LeastRecent(map, a, cap) ==
  /\ a \in DOMAIN map
  /\ Size(map) = cap
  /\ \A b \in DOMAIN map : map[a].last_activity <= map[b].last_activity

LossExplained ==
  \A a \in Known \ Known' :
    \/ event'.op = "evict" /\ event'.addr = a
    \/ event'.op = "evict_idle" /\ tick > Activity(a) + event'.idle
    \/ event'.op \in {"dial", "recv_one"} /\ event'.addr \notin Known
       /\ LeastRecent(handshakes, a, max_handshakes_in_flight)
    \/ event'.kind = "HandshakeComplete"
       /\ LeastRecent(established, a, max_established)

\* The host forgets an address only by an explicit evict, by an idle sweep
\* whose threshold it exceeds, or because a new entry needed its slot in a
\* full table of which it was the least recently active entry.
ForgetsOnlyForCause == [][LossExplained]_vars

=============================================================================
