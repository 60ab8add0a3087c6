----------------------------- MODULE HostNetwork ----------------------------
(***************************************************************************)
(* Hosts that dial, answer and talk to each other over UDP: the stateless  *)
(* cookie exchange (libp2p-cat-host, cookie.rs), the Noise XX handshake    *)
(* (libp2p-cat-noise, handshake.rs), the binding of static keys to peer    *)
(* identities (libp2p-cat-identity, signed_static_key.rs) and their use by *)
(* Host (host.rs).                                                         *)
(*                                                                         *)
(* Cryptography is symbolic.  A Diffie-Hellman result, and with it an AEAD *)
(* tag, is right exactly when both sides hold the keys of the same         *)
(* transcript, so that a handshake message carries its transcript and is   *)
(* accepted iff it is the receiver's own.  A host is named by its address, *)
(* which also names its static key and its peer identity.                  *)
(*                                                                         *)
(* Eviction, by the application, by an idle sweep or to make room, is one  *)
(* action that may forget any entry at any time; Host says when it really  *)
(* happens.  The replay window is reduced to the set of nonces received:   *)
(* NoiseTransport shows that it is one.                                    *)
(***************************************************************************)
EXTENDS ConnectionTables

CONSTANTS Hosts,         \* the hosts, named by their addresses
          Dialers,       \* those that dial
          trailers,      \* trailers[h]: whose bindings h presents
          MaxEphemeral,  \* bound: ephemeral keys a host may draw
          MaxSends,      \* bound: messages a host may send
          Unreliable,    \* datagrams may be lost and duplicated
          Spoofing,      \* datagrams may arrive that no host sent
          Forgetting     \* entries may be evicted

ASSUME HostsAssumption == Hosts \subseteq Nat \ {0} /\ Dialers \subseteq Hosts
ASSUME TrailersAssumption == trailers \in [Hosts -> SUBSET Hosts]
ASSUME BoundsAssumption == MaxEphemeral \in Nat /\ MaxSends \in Nat
ASSUME ModesAssumption ==
  Unreliable \in BOOLEAN /\ Spoofing \in BOOLEAN /\ Forgetting \in BOOLEAN

VARIABLES handshakes,   \* handshakes[h]: addr -> [role, session]
          established,  \* established[h]: addr -> EstablishedConnection
          net,          \* datagrams on their way: [src, dst, body]
          drawn,        \* drawn[h]: how many ephemeral keys h has drawn
          sends,        \* sends[h]: how many messages h has sent
          history       \* the handshakes dialled, answered and completed so far

vars == << handshakes, established, net, drawn, sends, history >>

Nobody == 0

Addrs == Hosts \cup {Nobody}

-----------------------------------------------------------------------------
(* Keys, cookies and messages                                              *)

\* The k-th ephemeral key of a host; seeds are fresh by contract.
Ephemeral(h, k) == [owner |-> h, k |-> k]

NoKey == Ephemeral(Nobody, 0)

\* Thirty-two bytes that are the public part of no host's key.
OpaqueBytes == Ephemeral(Nobody, 1)

\* The two ephemerals determine the keys that split derives.
Session(ei, er) == [ei |-> ei, er |-> er]

\* Mutant: the cookie covers neither address nor key.
mint_addressless(secret, from, e) ==
  [secret |-> secret, from |-> Nobody, e |-> NoKey]

\* A keyed hash over the source address and the ephemeral key.
mint(secret, from, e) == [secret |-> secret, from |-> from, e |-> e]

NoMac == mint(Nobody, Nobody, NoKey)

verify(secret, from, e, mac) == mac = mint(secret, from, e)

Msg1(e) == [type |-> "msg1", e |-> e]

Challenge(mac) == [type |-> "challenge", mac |-> mac]

Msg1WithCookie(e, mac) == [type |-> "msg1_cookie", e |-> e, mac |-> mac]

\* The XX replies: transcript, sender's static key, binding trailer.
Msg2(session, s, binding) ==
  [type |-> "msg2", session |-> session, s |-> s, binding |-> binding]

Msg3(session, responder, s, binding) ==
  [type |-> "msg3", session |-> session, responder |-> responder, s |-> s,
   binding |-> binding]

\* A transport datagram: session, sending role, nonce, message.
Data(session, role, nonce, msg) ==
  [type |-> "data", session |-> session, role |-> role, nonce |-> nonce,
   msg |-> msg]

\* What the dispatcher takes for a bare msg1: anything of MESSAGE_1_LEN
\* bytes, the transport datagram of an 8-byte message included.
LooksLikeMsg1(m) == m.type \in {"msg1", "data"}

First32(m) == IF m.type = "msg1" THEN m.e ELSE OpaqueBytes

\* Mutant: any trailer is accepted.
verify_binding_skipped(binding, remote_static) == TRUE

\* The trailer must bind the very static key that Noise authenticated.
verify_binding(binding, remote_static) == binding = remote_static

\* Mutant: any msg2 is accepted.
read_response_any(e, m) == m.type = "msg2"

\* Initiator reading msg2: the transcript must start with its own ephemeral.
read_response(e, m) == m.type = "msg2" /\ m.session.ei = e

\* Responder reading msg3: the transcript must be the one of its msg2.
read_s(h, session, m) ==
  m.type = "msg3" /\ m.session = session /\ m.responder = h

-----------------------------------------------------------------------------

Datagram(src, dst, body) == [src |-> src, dst |-> dst, body |-> body]

\* What a host can receive from the network, and what is left of it.
Arriving(h) == {d \in net : d.dst = h}

Rest(d) == IF Unreliable \/ d \notin net THEN net ELSE net \ {d}

\* Datagrams of no host, with any source address: a bare msg1, a made-up
\* challenge or cookie, and any msg1 || cookie that was on the wire.
Spoofed(h) ==
  IF Spoofing
  THEN {Datagram(src, h, m) : src \in Addrs \ {h},
        m \in {Msg1(OpaqueBytes), Msg1WithCookie(OpaqueBytes, NoMac),
               Challenge(NoMac)}
             \cup {d.body : d \in {c \in net : c.body.type = "msg1_cookie"}}}
  ELSE {}

Record(what, session, host, role, peer) ==
  [what |-> what, session |-> session, host |-> host, role |-> role,
   peer |-> peer]

Connected(session, role, peer) ==
  [session |-> session, role |-> role, peer |-> peer, send_nonce |-> 0,
   received |-> {}]

Known(h) == DOMAIN handshakes[h] \cup DOMAIN established[h]

Init ==
  /\ handshakes = [h \in Hosts |-> EmptyTable]
  /\ established = [h \in Hosts |-> EmptyTable]
  /\ net = {}
  /\ drawn = [h \in Hosts |-> 0]
  /\ sends = [h \in Hosts |-> 0]
  /\ history = {}

-----------------------------------------------------------------------------
(* Operations of the application                                           *)

\* write_e and the msg1 datagram.
dial(h, addr) ==
  /\ addr \notin Known(h)
  /\ drawn[h] < MaxEphemeral
  /\ LET e == Ephemeral(h, drawn[h] + 1) IN
     /\ handshakes' = [handshakes EXCEPT ![h] =
          Put(@, addr, [role |-> "initiator", session |-> Session(e, NoKey)])]
     /\ net' = net \cup {Datagram(h, addr, Msg1(e))}
     /\ history' = history \cup
          {Record("dialled", Session(e, NoKey), h, "initiator", addr)}
  /\ drawn' = [drawn EXCEPT ![h] = @ + 1]
  /\ UNCHANGED << established, sends >>

send(h, addr) ==
  /\ addr \in DOMAIN established[h]
  /\ sends[h] < MaxSends
  /\ LET conn == established[h][addr] IN
     /\ net' = net \cup {Datagram(h, addr,
                 Data(conn.session, conn.role, conn.send_nonce, sends[h]))}
     /\ established' = [established EXCEPT ![h] =
          Put(@, addr, [conn EXCEPT !.send_nonce = @ + 1])]
  /\ sends' = [sends EXCEPT ![h] = @ + 1]
  /\ UNCHANGED << handshakes, drawn, history >>

\* evict, evict_idle, and the eviction that makes room for another entry.
forget(h, addr) ==
  /\ Forgetting
  /\ addr \in Known(h)
  /\ handshakes' = [handshakes EXCEPT ![h] = Remove(@, addr)]
  /\ established' = [established EXCEPT ![h] = Remove(@, addr)]
  /\ UNCHANGED << net, drawn, sends, history >>

-----------------------------------------------------------------------------
(* recv_one at host h of a datagram d                                      *)

\* The datagram is dropped; the host's tables do not change.
reject(d) ==
  /\ net' = Rest(d)
  /\ UNCHANGED << handshakes, established, drawn, sends, history >>

\* Mutant: a delivery starts the sending counter anew.
decrypt_established_reset(h, d) ==
  LET conn == established[h][d.src]
      m == d.body
  IN IF /\ m.type = "data"
        /\ m.session = conn.session
        /\ m.role # conn.role
        /\ m.nonce \notin conn.received
     THEN /\ established' = [established EXCEPT ![h] =
               Put(@, d.src, [conn EXCEPT !.send_nonce = 0,
                                          !.received = @ \cup {m.nonce}])]
          /\ net' = Rest(d)
          /\ UNCHANGED << handshakes, drawn, sends, history >>
     ELSE reject(d)

decrypt_established(h, d) ==
  LET conn == established[h][d.src]
      m == d.body
  IN IF /\ m.type = "data"
        /\ m.session = conn.session
        /\ m.role # conn.role
        /\ m.nonce \notin conn.received
     THEN /\ established' = [established EXCEPT ![h] =
               Put(@, d.src, [conn EXCEPT !.received = @ \cup {m.nonce}])]
          /\ net' = Rest(d)
          /\ UNCHANGED << handshakes, drawn, sends, history >>
     ELSE reject(d)

\* Mutant: the entry is lost when the cookie is echoed.
answer_challenge_drop(h, d) ==
  /\ net' = Rest(d) \cup
       {Datagram(h, d.src, Msg1WithCookie(handshakes[h][d.src].session.ei,
                                          d.body.mac))}
  /\ handshakes' = [handshakes EXCEPT ![h] = Remove(@, d.src)]
  /\ UNCHANGED << established, drawn, sends, history >>

\* The stored msg1 is sent again with the cookie; the dial goes on waiting.
answer_cookie_challenge(h, d) ==
  /\ net' = Rest(d) \cup
       {Datagram(h, d.src, Msg1WithCookie(handshakes[h][d.src].session.ei,
                                          d.body.mac))}
  /\ UNCHANGED << handshakes, established, drawn, sends, history >>

\* The entry moves from one table to the other.
complete(h, addr, session, role, peer) ==
  /\ handshakes' = [handshakes EXCEPT ![h] = Remove(@, addr)]
  /\ established' = [established EXCEPT ![h] =
       Put(@, addr, Connected(session, role, peer))]
  /\ history' = history \cup {Record("completed", session, h, role, peer)}
  /\ UNCHANGED << drawn, sends >>

initiator_consume_msg2(h, d) ==
  LET e == handshakes[h][d.src].session.ei
      m == d.body
  IN IF read_response(e, m) /\ verify_binding(m.binding, m.s)
     THEN LET session == Session(e, m.session.er) IN
          /\ complete(h, d.src, session, "initiator", m.binding)
          /\ \E binding \in trailers[h] :
               net' = Rest(d) \cup
                      {Datagram(h, d.src, Msg3(session, m.s, h, binding))}
     ELSE reject(d)

responder_consume_msg3(h, d) ==
  LET session == handshakes[h][d.src].session
      m == d.body
  IN IF read_s(h, session, m) /\ verify_binding(m.binding, m.s)
     THEN /\ complete(h, d.src, session, "responder", m.binding)
          /\ net' = Rest(d)
     ELSE reject(d)

advance_in_flight(h, d) ==
  IF handshakes[h][d.src].role = "responder"
  THEN responder_consume_msg3(h, d)
  ELSE IF d.body.type = "challenge"
       THEN answer_cookie_challenge(h, d)
       ELSE initiator_consume_msg2(h, d)

\* read_e and write_response, with a fresh ephemeral key.
respond_to_validated_msg1(h, d) ==
  /\ drawn[h] < MaxEphemeral
  /\ LET session == Session(d.body.e, Ephemeral(h, drawn[h] + 1)) IN
     /\ handshakes' = [handshakes EXCEPT ![h] =
          Put(@, d.src, [role |-> "responder", session |-> session])]
     /\ \E binding \in trailers[h] :
          net' = Rest(d) \cup {Datagram(h, d.src, Msg2(session, h, binding))}
     /\ history' = history \cup
          {Record("answered", session, h, "responder", d.src)}
  /\ drawn' = [drawn EXCEPT ![h] = @ + 1]
  /\ UNCHANGED << established, sends >>

try_responder_msg1(h, d) ==
  LET m == d.body IN
  \/ /\ LooksLikeMsg1(m)
     /\ net' = Rest(d) \cup
          {Datagram(h, d.src, Challenge(mint(h, d.src, First32(m))))}
     /\ UNCHANGED << handshakes, established, drawn, sends, history >>
  \/ /\ m.type = "msg1_cookie"
     /\ IF verify(h, d.src, m.e, m.mac)
        THEN respond_to_validated_msg1(h, d) ELSE reject(d)
  \/ /\ ~ LooksLikeMsg1(m) /\ m.type # "msg1_cookie"
     /\ reject(d)

recv_one(h, d) ==
  \/ /\ d.src \in DOMAIN established[h]
     /\ decrypt_established(h, d)
  \/ /\ d.src \notin DOMAIN established[h]
     /\ d.src \in DOMAIN handshakes[h]
     /\ advance_in_flight(h, d)
  \/ /\ d.src \notin Known(h)
     /\ try_responder_msg1(h, d)

-----------------------------------------------------------------------------

Receive(h) == \E d \in Arriving(h) : recv_one(h, d)

Next ==
  \E h \in Hosts :
    \/ \E addr \in Hosts \ {h} :
         \/ h \in Dialers /\ dial(h, addr)
         \/ send(h, addr)
         \/ forget(h, addr)
    \/ Receive(h)
    \/ \E d \in Spoofed(h) : recv_one(h, d)

Spec == Init /\ [][Next]_vars

\* Every host keeps calling recv_one, and the path delivers what it carries.
FairSpec == Spec /\ \A h \in Hosts : WF_vars(Receive(h))

-----------------------------------------------------------------------------
(* Properties                                                              *)

\* A handshake slot is spent only on an address that proved it can receive:
\* whatever arrives with a forged source, a responder entry exists only for
\* a host that drew that very ephemeral key and dialled (cookie.rs).
SlotsOnlyForReachable ==
  \A h \in Hosts : \A addr \in DOMAIN handshakes[h] :
    handshakes[h][addr].role = "responder" =>
      handshakes[h][addr].session.ei.owner = addr

\* The peer a host reports is the one at the other end: the holder of the
\* identity answered this very handshake, or, for a responder, completed it
\* as initiator and reports the responder in turn (verify_binding, the XX
\* transcript).  In particular a peer that presents somebody else's binding
\* is never reported as that somebody.
PeersAgree ==
  \A c \in history :
    c.what = "completed" =>
      IF c.role = "initiator"
      THEN Record("answered", c.session, c.peer, "responder", c.host)
             \in history
      ELSE Record("completed", c.session, c.peer, "initiator", c.host)
             \in history

\* No two messages are ever sealed under one key and nonce, although
\* handshake states are cloned before they are tried, messages are replayed
\* and entries are evicted and dialled again.
NonceNeverReused ==
  \A d1, d2 \in net :
    /\ d1.body.type = "data" /\ d2.body.type = "data"
    /\ d1.body.session = d2.body.session
    /\ d1.body.role = d2.body.role
    /\ d1.body.nonce = d2.body.nonce
    => d1 = d2

\* Two hosts that are established with each other hold the two ends of one
\* session, in opposite roles: no interleaving of lost, stale and repeated
\* handshake messages with evictions and new dials leaves them connected
\* under different keys, each rejecting all the other sends.
MutualConnectionsAgree ==
  \A g, h \in Hosts :
    h \in DOMAIN established[g] /\ g \in DOMAIN established[h] =>
      /\ established[g][h].session = established[h][g].session
      /\ established[g][h].role # established[h][g].role

\* On a path that loses nothing, and without evictions, a dial by the only
\* dialler ends with both hosts established with each other, in whatever
\* order datagrams arrive.
DialCompletes ==
  \A h \in Dialers, p \in Hosts :
    (p \in DOMAIN handshakes[h]) ~>
      (p \in DOMAIN established[h] /\ h \in DOMAIN established[p])

=============================================================================
