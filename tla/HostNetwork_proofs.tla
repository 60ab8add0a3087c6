------------------------- MODULE HostNetwork_proofs -------------------------
(***************************************************************************)
(* Proofs about HostNetwork, for any hosts, dials, losses, duplicates,     *)
(* forged sources and evictions: what a host believes of its peers follows *)
(* from what those peers have done, and keys and nonces are never reused.  *)
(*                                                                         *)
(* The parts of the invariant are about a history H, numbers of drawn keys *)
(* D, tables T and datagrams N, which in NInv are the variables.           *)
(***************************************************************************)
EXTENDS HostNetwork, TLAPS

-----------------------------------------------------------------------------
(* The inductive invariant                                                 *)

Keys == [owner : Addrs, k : Nat]
Sessions == [ei : Keys, er : Keys]
Roles == {"initiator", "responder"}

Records == [what : {"dialled", "answered", "completed"}, session : Sessions,
            host : Hosts, role : Roles, peer : Hosts]

Dialled(e, host, peer) ==
  Record("dialled", Session(e, NoKey), host, "initiator", peer)

Answered(session, host, peer) ==
  Record("answered", session, host, "responder", peer)

Completed(session, host, role, peer) ==
  Record("completed", session, host, role, peer)

\* The ephemeral key of the host itself in a record, an entry of its
\* handshakes or a connection.
Own(x) == IF x.role = "initiator" THEN x.session.ei ELSE x.session.er

\* A record has its cause: a key that its host drew, a dial that was
\* answered, an answer that was completed, a completion by the initiator.
HasCause(H, D, r) ==
  /\ r.host # r.peer /\ Own(r).owner = r.host /\ Own(r).k <= D[r.host]
  /\ r.what = "dialled" => r.role = "initiator" /\ r.session.er = NoKey
  /\ r.what = "answered" =>
       r.role = "responder" /\ Dialled(r.session.ei, r.peer, r.host) \in H
  /\ r.what = "completed" /\ r.role = "initiator" =>
       Answered(r.session, r.peer, r.host) \in H
  /\ r.what = "completed" /\ r.role = "responder" =>
       Completed(r.session, r.peer, "initiator", r.host) \in H

Caused(H, D) == H \subseteq Records /\ \A r \in H : HasCause(H, D, r)

\* A key opens one handshake, and completes at most one.
KeysUsedOnce(H) ==
  \A r, q \in H :
    /\ r.host = q.host /\ Own(r) = Own(q)
    /\ r.what = "completed" <=> q.what = "completed"
    => r = q

Mutual(r, q) == r.host = q.peer /\ r.peer = q.host

\* What two hosts do with each other happens in one order.  Whoever completes
\* a handshake and dials again is answered with a later key.
CompletedBeforeAnswered(H) ==
  \A r, q \in H :
    /\ Mutual(r, q) /\ r.what = "answered"
    /\ q.what = "completed" /\ q.role = "initiator"
    /\ q.session.ei.k < r.session.ei.k
    => q.session.er.k < r.session.er.k

\* Whoever answers a dial and dials afterwards is answered after that dial.
AnsweredInTurn(H) ==
  \A r, q \in H :
    /\ Mutual(r, q) /\ r.what = "answered" /\ q.what = "answered"
    /\ q.session.er.k < r.session.ei.k
    => q.session.ei.k < r.session.er.k

\* Of two dials in opposite directions that are completed, one was dropped
\* before the other was answered.
CompletedInTurn(H) ==
  \A r, q \in H :
    /\ Mutual(r, q) /\ r.what = "completed" /\ q.what = "completed"
    /\ r.role = "initiator" /\ q.role = "initiator"
    => ~ (/\ q.session.ei.k < r.session.er.k
          /\ r.session.ei.k < q.session.er.k)

Ordered(H) ==
  CompletedBeforeAnswered(H) /\ AnsweredInTurn(H) /\ CompletedInTurn(H)

\* An entry is the host's latest with that peer.
Latest(H, x, h, a) ==
  \A r \in H : r.host = h /\ r.peer = a => Own(r).k <= Own(x).k

\* A handshake in flight was dialled or answered, and is not completed yet.
EntrySound(H, x, h, a) ==
  /\ x.role \in Roles
  /\ Record(IF x.role = "initiator" THEN "dialled" ELSE "answered",
            x.session, h, x.role, a) \in H
  /\ \A r \in H : r.what = "completed" /\ r.host = h => Own(r) # Own(x)
  /\ Latest(H, x, h, a)

InFlight(H, T) ==
  /\ DOMAIN T = Hosts
  /\ \A h \in Hosts : \A a \in DOMAIN T[h] : EntrySound(H, T[h][a], h, a)

ConnFields == {"session", "role", "peer", "send_nonce", "received"}

\* A connection was completed.
ConnSound(H, x, h, a) ==
  /\ DOMAIN x = ConnFields /\ x.send_nonce \in Nat
  /\ Completed(x.session, h, x.role, a) \in H
  /\ Latest(H, x, h, a)

Connections(H, T) ==
  /\ DOMAIN T = Hosts
  /\ \A h \in Hosts : \A a \in DOMAIN T[h] : ConnSound(H, T[h][a], h, a)

\* What a datagram of a host says is so.
True(H, d) ==
  LET m == d.body
  IN /\ m.type = "challenge" => m.mac.secret = d.src /\ m.mac.from = d.dst
     /\ m.type = "msg1_cookie" =>
          /\ Dialled(m.e, d.src, d.dst) \in H
          /\ \/ m.mac.secret = Nobody
             \/ m.mac.secret = d.dst /\ m.mac.from = d.src
     /\ m.type = "msg2" =>
          m.s = d.src /\ Answered(m.session, d.src, d.dst) \in H
     /\ m.type = "msg3" =>
          /\ m.s = d.src
          /\ Completed(m.session, d.src, "initiator", m.responder) \in H
     /\ m.type = "data" =>
          m.nonce \in Nat /\ Completed(m.session, d.src, m.role, d.dst) \in H

Truthful(H, N) == \A d \in N : True(H, d)

\* A connection has not used the nonce it will use next.
NonceUnused(x, N) ==
  \A d \in N :
    /\ d.body.type = "data" /\ d.body.session = x.session
    /\ d.body.role = x.role
    => d.body.nonce < x.send_nonce

NoncesUnused(T, N) ==
  \A h \in Hosts : \A a \in DOMAIN T[h] : NonceUnused(T[h][a], N)

History(H, D) ==
  D \in [Hosts -> Nat] /\ Caused(H, D) /\ KeysUsedOnce(H) /\ Ordered(H)

NInv ==
  /\ History(history, drawn)
  /\ InFlight(history, handshakes) /\ Connections(history, established)
  /\ Truthful(history, net)
  /\ NoncesUnused(established, net) /\ NonceNeverReused

-----------------------------------------------------------------------------
(* Tables                                                                  *)

\* U is T after an entry is put in one host's table.
IsPut(U, T, h, a, x) ==
  /\ DOMAIN T = Hosts /\ DOMAIN U = Hosts /\ U[h] = Put(T[h], a, x)
  /\ \A g \in Hosts : g # h => U[g] = T[g]

\* Its entries are that one and others of T.
AfterPut(U, T, h, a, x) ==
  /\ DOMAIN U = Hosts
  /\ \A g \in Hosts : \A b \in DOMAIN U[g] :
       \/ g = h /\ b = a /\ U[g][b] = x
       \/ /\ b \in DOMAIN T[g] /\ U[g][b] = T[g][b]
          /\ << g, b >> # << h, a >>

LEMMA PutAt ==
  ASSUME NEW T, NEW U, NEW h \in Hosts, NEW a, NEW x, IsPut(U, T, h, a, x)
  PROVE  AfterPut(U, T, h, a, x)
<1> DEFINE P == Put(T[h], a, x)
<1>1. DOMAIN U = Hosts /\ U[h] = P /\ \A g \in Hosts : g # h => U[g] = T[g]
  BY DEF IsPut
<1>2. /\ DOMAIN P = DOMAIN T[h] \cup {a}
      /\ \A b \in DOMAIN P : P[b] = IF b = a THEN x ELSE T[h][b]
  BY DEF Put
<1> HIDE DEF P
<1>3. ASSUME NEW g \in Hosts, NEW b \in DOMAIN U[g]
      PROVE  \/ g = h /\ b = a /\ U[g][b] = x
             \/ /\ b \in DOMAIN T[g] /\ U[g][b] = T[g][b]
                /\ << g, b >> # << h, a >>
  <2>1. CASE g = h
    <3>1. U[g] = P /\ b \in DOMAIN P
      BY <1>1, <1>3, <2>1
    <3> QED
      BY <1>2, <2>1, <3>1
  <2>2. CASE g # h
    BY <1>1, <1>3, <2>2
  <2> QED
    BY <2>1, <2>2
<1> QED
  BY <1>1, <1>3 DEF AfterPut

\* U is T after an entry is removed from one host's table.
IsRemove(U, T, h, a) ==
  /\ DOMAIN T = Hosts /\ DOMAIN U = Hosts /\ U[h] = Remove(T[h], a)
  /\ \A g \in Hosts : g # h => U[g] = T[g]

\* Its entries are the others of T.
AfterRemove(U, T, h, a) ==
  /\ DOMAIN U = Hosts
  /\ \A g \in Hosts : \A b \in DOMAIN U[g] :
       /\ b \in DOMAIN T[g] /\ U[g][b] = T[g][b]
       /\ << g, b >> # << h, a >>

LEMMA RemoveAt ==
  ASSUME NEW T, NEW U, NEW h \in Hosts, NEW a, IsRemove(U, T, h, a)
  PROVE  AfterRemove(U, T, h, a)
<1> DEFINE P == Remove(T[h], a)
<1>1. DOMAIN U = Hosts /\ U[h] = P /\ \A g \in Hosts : g # h => U[g] = T[g]
  BY DEF IsRemove
<1>2. DOMAIN P = DOMAIN T[h] \ {a} /\ \A b \in DOMAIN P : P[b] = T[h][b]
  BY DEF Remove, Restrict
<1> HIDE DEF P
<1>3. ASSUME NEW g \in Hosts, NEW b \in DOMAIN U[g]
      PROVE  /\ b \in DOMAIN T[g] /\ U[g][b] = T[g][b]
             /\ << g, b >> # << h, a >>
  <2>1. CASE g = h
    <3>1. U[g] = P /\ b \in DOMAIN P
      BY <1>1, <1>3, <2>1
    <3> QED
      BY <1>2, <2>1, <3>1
  <2>2. CASE g # h
    BY <1>1, <1>3, <2>2
  <2> QED
    BY <2>1, <2>2
<1> QED
  BY <1>1, <1>3 DEF AfterRemove

-----------------------------------------------------------------------------
(* Records                                                                 *)

LEMMA RecordFields ==
  ASSUME NEW w, NEW s, NEW h, NEW r, NEW p
  PROVE  /\ Record(w, s, h, r, p).what = w /\ Record(w, s, h, r, p).session = s
         /\ Record(w, s, h, r, p).host = h /\ Record(w, s, h, r, p).role = r
         /\ Record(w, s, h, r, p).peer = p
         /\ Own(Record(w, s, h, r, p)) = IF r = "initiator" THEN s.ei ELSE s.er
BY DEF Record, Own

LEMMA KeyFields ==
  /\ \A h, k : Ephemeral(h, k).owner = h /\ Ephemeral(h, k).k = k
  /\ \A ei, er : Session(ei, er).ei = ei /\ Session(ei, er).er = er
  /\ NoKey \in Keys
  /\ \A h \in Addrs, k \in Nat : Ephemeral(h, k) \in Keys
  /\ \A ei, er \in Keys : Session(ei, er) \in Sessions
BY DEF Ephemeral, Session, NoKey, Keys, Sessions, Addrs

LEMMA RecordTypes ==
  ASSUME NEW H, NEW D, D \in [Hosts -> Nat], Caused(H, D), NEW r \in H
  PROVE  /\ r.host \in Hosts /\ r.peer \in Hosts /\ r.role \in Roles
         /\ r.what \in {"dialled", "answered", "completed"}
         /\ r.session \in Sessions /\ r.session.ei \in Keys
         /\ r.session.er \in Keys /\ r.session.ei.k \in Nat
         /\ r.session.er.k \in Nat /\ Own(r) \in Keys /\ Own(r).k \in Nat
         /\ r = Record(r.what, r.session, r.host, r.role, r.peer)
         /\ D[r.host] \in Nat /\ HasCause(H, D, r)
<1>1. r \in Records
  BY DEF Caused
<1>2. /\ r.host \in Hosts /\ r.peer \in Hosts /\ r.role \in Roles
      /\ r.what \in {"dialled", "answered", "completed"}
      /\ r.session \in Sessions
      /\ r = Record(r.what, r.session, r.host, r.role, r.peer)
  BY <1>1 DEF Records, Record
<1>3. r.session.ei \in Keys /\ r.session.er \in Keys
  BY <1>2 DEF Sessions
<1>4. r.session.ei.k \in Nat /\ r.session.er.k \in Nat
  BY <1>3 DEF Keys
<1>5. Own(r) \in Keys /\ Own(r).k \in Nat
  BY <1>3, <1>4 DEF Own
<1> QED
  BY <1>2, <1>3, <1>4, <1>5 DEF Caused

\* A cause remains one.
LEMMA CauseKept ==
  ASSUME NEW H, NEW D, D \in [Hosts -> Nat], Caused(H, D),
         NEW E \in [Hosts -> Nat], \A h \in Hosts : D[h] <= E[h],
         NEW r0 \in Records, HasCause(H \cup {r0}, E, r0)
  PROVE  Caused(H \cup {r0}, E)
<1>1. ASSUME NEW r \in H PROVE HasCause(H \cup {r0}, E, r)
  <2>1. HasCause(H, D, r) /\ r.host \in Hosts /\ Own(r).k \in Nat
    BY RecordTypes
  <2>2. Own(r).k <= E[r.host]
    BY <2>1 DEF HasCause
  <2> QED
    BY <2>1, <2>2 DEF HasCause
<1> QED
  BY <1>1 DEF Caused

\* What a record in the history tells of the keys drawn by either host.
LEMMA DrawnKeys ==
  ASSUME NEW H, NEW D, History(H, D), NEW r \in H
  PROVE  /\ r.what = "answered" =>
              /\ r.session.er.k <= D[r.host] /\ r.session.ei.k <= D[r.peer]
              /\ Dialled(r.session.ei, r.peer, r.host) \in H
              /\ r.role = "responder"
         /\ r.what = "completed" /\ r.role = "initiator" =>
              /\ r.session.ei.k <= D[r.host] /\ r.session.er.k <= D[r.peer]
              /\ Answered(r.session, r.peer, r.host) \in H
<1>1. D \in [Hosts -> Nat] /\ Caused(H, D)
  BY DEF History
<1>2. HasCause(H, D, r)
  BY <1>1, RecordTypes
<1>3. ASSUME r.what = "answered"
      PROVE  /\ r.session.er.k <= D[r.host] /\ r.session.ei.k <= D[r.peer]
             /\ Dialled(r.session.ei, r.peer, r.host) \in H
             /\ r.role = "responder"
  <2> DEFINE q == Dialled(r.session.ei, r.peer, r.host)
  <2>1. r.role = "responder" /\ q \in H /\ Own(r).k <= D[r.host]
    BY <1>2, <1>3 DEF HasCause
  <2>2. HasCause(H, D, q)
    BY <1>1, <2>1, RecordTypes
  <2>3. q.host = r.peer /\ Own(q) = r.session.ei
    BY RecordFields, KeyFields DEF Dialled
  <2>4. r.session.ei.k <= D[r.peer]
    BY <2>2, <2>3 DEF HasCause
  <2> QED
    BY <2>1, <2>4 DEF Own
<1>4. ASSUME r.what = "completed", r.role = "initiator"
      PROVE  /\ r.session.ei.k <= D[r.host] /\ r.session.er.k <= D[r.peer]
             /\ Answered(r.session, r.peer, r.host) \in H
  <2> DEFINE q == Answered(r.session, r.peer, r.host)
  <2>1. q \in H /\ Own(r).k <= D[r.host]
    BY <1>2, <1>4 DEF HasCause
  <2>2. HasCause(H, D, q)
    BY <1>1, <2>1, RecordTypes
  <2>3. q.host = r.peer /\ Own(q) = r.session.er
    BY RecordFields DEF Answered
  <2>4. r.session.er.k <= D[r.peer]
    BY <2>2, <2>3 DEF HasCause
  <2> QED
    BY <1>4, <2>1, <2>4 DEF Own
<1> QED
  BY <1>3, <1>4

\* A handshake is dialled or answered with a fresh key.
LEMMA HistoryOpens ==
  ASSUME NEW H, NEW D, History(H, D), NEW h \in Hosts,
         NEW E, E = [D EXCEPT ![h] = @ + 1],
         NEW r0 \in Records, r0.host = h, r0.what \in {"dialled", "answered"},
         Own(r0) = Ephemeral(h, D[h] + 1),
         HasCause(H \cup {r0}, E, r0)
  PROVE  History(H \cup {r0}, E)
<1> DEFINE G == H \cup {r0}
<1>1. /\ D \in [Hosts -> Nat] /\ Caused(H, D) /\ KeysUsedOnce(H) /\ Ordered(H)
      /\ D[h] \in Nat
  BY DEF History
<1>2. /\ E \in [Hosts -> Nat] /\ E[h] = D[h] + 1
      /\ \A g \in Hosts : D[g] <= E[g]
  BY <1>1
<1>3. Caused(G, E)
  BY <1>1, <1>2, CauseKept
<1>4. /\ Own(r0).k = D[h] + 1 /\ r0.host # r0.peer
      /\ r0.what = "answered" => r0.session.er.k = D[h] + 1
      /\ r0.what # "completed"
  BY KeyFields DEF HasCause, Own
<1>5. \A q \in H : q.host = h => Own(q).k \in Nat /\ Own(q).k <= D[h]
  BY <1>1, RecordTypes DEF HasCause
<1>6. KeysUsedOnce(G)
  <2>1. ASSUME NEW q \in H, q.host = h PROVE Own(q) # Own(r0)
    <3>1. Own(q).k # Own(r0).k
      BY <1>1, <1>4, <1>5, <2>1
    <3> QED
      BY <3>1
  <2> QED
    BY <1>1, <2>1 DEF KeysUsedOnce
<1>7. ASSUME NEW q \in H
      PROVE  q.session.ei.k \in Nat /\ q.session.er.k \in Nat
  BY <1>1, RecordTypes
<1>8. CompletedBeforeAnswered(G)
  <2>1. ASSUME NEW q \in H, Mutual(r0, q), r0.what = "answered",
               q.what = "completed", q.role = "initiator"
        PROVE  q.session.er.k < r0.session.er.k
    <3>1. q.session.er.k <= D[h]
      BY <2>1, DrawnKeys DEF Mutual
    <3> QED
      BY <1>1, <1>4, <1>7, <2>1, <3>1
  <2> QED
    BY <1>1, <1>4, <2>1 DEF CompletedBeforeAnswered, Ordered
<1>9. AnsweredInTurn(G)
  <2>1. ASSUME NEW q \in H, Mutual(r0, q), r0.what = "answered",
               q.what = "answered"
        PROVE  /\ q.session.ei.k < r0.session.er.k
               /\ ~ (r0.session.er.k < q.session.ei.k)
    <3>1. q.session.ei.k <= D[h]
      BY <2>1, DrawnKeys DEF Mutual
    <3> QED
      BY <1>1, <1>4, <1>7, <2>1, <3>1
  <2>2. ~ Mutual(r0, r0)
    BY <1>4 DEF Mutual
  <2>3. \A q \in H : Mutual(q, r0) <=> Mutual(r0, q)
    BY DEF Mutual
  <2> QED
    BY <1>1, <2>1, <2>2, <2>3 DEF AnsweredInTurn, Ordered
<1>10. CompletedInTurn(G)
  BY <1>1, <1>4 DEF CompletedInTurn, Ordered
<1> QED
  BY <1>2, <1>3, <1>6, <1>8, <1>9, <1>10 DEF History, Ordered

\* A handshake is completed with a key that has completed none and is the
\* latest of its host with that peer.
LEMMA HistoryCloses ==
  ASSUME NEW H, NEW D, History(H, D),
         NEW r0 \in Records, r0.what = "completed",
         HasCause(H \cup {r0}, D, r0),
         \A r \in H : r.what = "completed" /\ r.host = r0.host =>
                        Own(r) # Own(r0),
         Latest(H, r0, r0.host, r0.peer)
  PROVE  History(H \cup {r0}, D)
<1> DEFINE G == H \cup {r0}
<1>1. D \in [Hosts -> Nat] /\ Caused(H, D) /\ KeysUsedOnce(H) /\ Ordered(H)
  BY DEF History
<1>2. Caused(G, D)
  <2>1. \A g \in Hosts : D[g] <= D[g]
    BY <1>1
  <2> QED
    BY <1>1, <2>1, CauseKept
<1>3. KeysUsedOnce(G)
  BY <1>1 DEF KeysUsedOnce
<1>4. /\ r0.host # r0.peer
      /\ r0.session.ei.k \in Nat /\ r0.session.er.k \in Nat
  BY <1>1, <1>2, RecordTypes DEF HasCause
<1>5. ASSUME NEW q \in H
      PROVE  q.session.ei.k \in Nat /\ q.session.er.k \in Nat
  BY <1>1, RecordTypes
<1>6. CompletedBeforeAnswered(G)
  <2>1. ASSUME NEW r \in H, Mutual(r, r0), r.what = "answered",
               r0.role = "initiator"
        PROVE  ~ (r0.session.ei.k < r.session.ei.k)
    <3> DEFINE q == Dialled(r.session.ei, r.peer, r.host)
    <3>1. q \in H
      BY <2>1, DrawnKeys
    <3>2. q.host = r0.host /\ q.peer = r0.peer /\ Own(q) = r.session.ei
      BY <2>1, RecordFields, KeyFields DEF Dialled, Mutual
    <3>3. r.session.ei.k <= r0.session.ei.k
      BY <2>1, <3>1, <3>2 DEF Latest, Own
    <3> QED
      BY <1>4, <1>5, <3>3
  <2> QED
    BY <1>1, <2>1 DEF CompletedBeforeAnswered, Ordered
<1>7. AnsweredInTurn(G)
  BY <1>1 DEF AnsweredInTurn, Ordered
<1>8. CompletedInTurn(G)
  <2>1. ASSUME NEW q \in H, Mutual(r0, q), q.what = "completed",
               r0.role = "initiator", q.role = "initiator"
        PROVE  ~ (r0.session.ei.k < q.session.er.k)
    <3> DEFINE r == Answered(q.session, q.peer, q.host)
    <3>1. r \in H
      BY <2>1, DrawnKeys
    <3>2. r.host = r0.host /\ r.peer = r0.peer /\ Own(r) = q.session.er
      BY <2>1, RecordFields DEF Answered, Mutual
    <3>3. q.session.er.k <= r0.session.ei.k
      BY <2>1, <3>1, <3>2 DEF Latest, Own
    <3> QED
      BY <1>4, <1>5, <3>3
  <2>2. ~ Mutual(r0, r0)
    BY <1>4 DEF Mutual
  <2>3. \A q \in H : Mutual(q, r0) <=> Mutual(r0, q)
    BY DEF Mutual
  <2> QED
    BY <1>1, <2>1, <2>2, <2>3 DEF CompletedInTurn, Ordered
<1> QED
  BY <1>1, <1>2, <1>3, <1>6, <1>7, <1>8 DEF History, Ordered

\* A host completes one handshake with one key, and so holds one end of a
\* session at most once, with one peer.
LEMMA OneEnd ==
  ASSUME NEW H, NEW D, History(H, D), NEW s, NEW r, NEW h, NEW g, NEW a, NEW b,
         Completed(s, h, r, a) \in H, Completed(s, g, r, b) \in H
  PROVE  h = g /\ a = b
<1> DEFINE x == Completed(s, h, r, a)
           y == Completed(s, g, r, b)
<1>1. /\ x.what = "completed" /\ y.what = "completed"
      /\ x.host = h /\ y.host = g /\ x.peer = a /\ y.peer = b
      /\ Own(x) = Own(y)
  BY RecordFields DEF Completed
<1>2. D \in [Hosts -> Nat] /\ Caused(H, D) /\ KeysUsedOnce(H)
  BY DEF History
<1>3. HasCause(H, D, x) /\ HasCause(H, D, y)
  BY <1>2, RecordTypes
<1>4. h = g
  BY <1>1, <1>3 DEF HasCause
<1>5. x = y
  BY <1>1, <1>2, <1>4 DEF KeysUsedOnce
<1> QED
  BY <1>1, <1>4, <1>5

-----------------------------------------------------------------------------
(* What outlives a new record                                              *)

LEMMA EntryKept ==
  ASSUME NEW H, NEW r0, NEW x, NEW h, NEW a, EntrySound(H, x, h, a),
         << h, a >> # << r0.host, r0.peer >>,
         r0.what = "completed" /\ r0.host = h => Own(r0) # Own(x)
  PROVE  EntrySound(H \cup {r0}, x, h, a)
BY DEF EntrySound, Latest

LEMMA ConnKept ==
  ASSUME NEW H, NEW r0, NEW x, NEW h, NEW a, ConnSound(H, x, h, a),
         << h, a >> # << r0.host, r0.peer >>
  PROVE  ConnSound(H \cup {r0}, x, h, a)
BY DEF ConnSound, Latest

LEMMA TruthKept ==
  ASSUME NEW H, NEW G, H \subseteq G, NEW N, Truthful(H, N), NEW d0, True(G, d0),
         NEW M, M \subseteq N \cup {d0}
  PROVE  Truthful(G, M)
<1>1. ASSUME NEW d \in N PROVE True(G, d)
  BY DEF Truthful, True
<1> QED
  BY <1>1 DEF Truthful

\* The entry's opening record, and what tells it from other entries.
LEMMA EntryOpened ==
  ASSUME NEW H, NEW D, History(H, D), NEW x, NEW h, NEW a, EntrySound(H, x, h, a)
  PROVE  /\ h \in Hosts /\ a \in Hosts /\ h # a
         /\ x.role \in Roles /\ x.session \in Sessions
         /\ Own(x).owner = h /\ Own(x).k <= D[h] /\ Own(x).k \in Nat
         /\ x.role = "initiator" => Dialled(x.session.ei, h, a) \in H
         /\ x.role = "responder" => Answered(x.session, h, a) \in H
         /\ \A y, b : EntrySound(H, y, h, b) /\ Own(y) = Own(x) => b = a
<1> DEFINE Opening(y, b) ==
             Record(IF y.role = "initiator" THEN "dialled" ELSE "answered",
                    y.session, h, y.role, b)
<1>1. D \in [Hosts -> Nat] /\ Caused(H, D) /\ KeysUsedOnce(H)
  BY DEF History
<1>2. ASSUME NEW y, NEW b
      PROVE  /\ Opening(y, b).what = IF y.role = "initiator" THEN "dialled"
                                                             ELSE "answered"
             /\ Opening(y, b).session = y.session /\ Opening(y, b).host = h
             /\ Opening(y, b).role = y.role /\ Opening(y, b).peer = b
             /\ Own(Opening(y, b)) = Own(y)
  BY RecordFields DEF Own
<1>3. \A y, b : EntrySound(H, y, h, b) => Opening(y, b) \in H /\ y.role \in Roles
  BY DEF EntrySound
<1> DEFINE q == Opening(x, a)
<1>4. q \in H /\ x.role \in Roles
  BY <1>3
<1>5. /\ q.host \in Hosts /\ q.peer \in Hosts /\ q.session \in Sessions
      /\ Own(q).k \in Nat /\ HasCause(H, D, q)
  BY <1>1, <1>4, RecordTypes
<1>6. /\ q.host = h /\ q.peer = a /\ q.session = x.session /\ q.role = x.role
      /\ Own(q) = Own(x)
      /\ q.what = IF x.role = "initiator" THEN "dialled" ELSE "answered"
  BY <1>2
<1>7. ASSUME NEW y, NEW b, EntrySound(H, y, h, b), Own(y) = Own(x) PROVE b = a
  <2> DEFINE p == Opening(y, b)
  <2>1. p \in H /\ p.host = h /\ p.peer = b /\ Own(p) = Own(y)
        /\ p.what \in {"dialled", "answered"}
    BY <1>2, <1>3, <1>7
  <2> HIDE DEF Opening
  <2>2. p = q
    BY <1>1, <1>4, <1>6, <1>7, <2>1 DEF KeysUsedOnce
  <2> QED
    BY <1>6, <2>1, <2>2
<1>8. ASSUME x.role = "initiator" PROVE Dialled(x.session.ei, h, a) \in H
  <2>1. x.session.er = NoKey /\ x.session \in Sessions
    BY <1>5, <1>6, <1>8 DEF HasCause
  <2>2. x.session = Session(x.session.ei, NoKey)
    BY <2>1 DEF Sessions, Session
  <2> QED
    BY <1>4, <1>8, <2>2 DEF Dialled
<1>9. ASSUME x.role = "responder" PROVE Answered(x.session, h, a) \in H
  BY <1>4, <1>9 DEF Answered
<1> HIDE DEF Opening
<1>10. /\ h \in Hosts /\ a \in Hosts /\ h # a
       /\ x.role \in Roles /\ x.session \in Sessions
       /\ Own(x).owner = h /\ Own(x).k <= D[h] /\ Own(x).k \in Nat
  BY <1>4, <1>5, <1>6 DEF HasCause
<1> QED
  BY <1>7, <1>8, <1>9, <1>10

-----------------------------------------------------------------------------
(* Steps                                                                   *)

\* Datagrams come and go that are no transport data.
LEMMA OtherDatagrams ==
  ASSUME NEW N, NEW T, NoncesUnused(T, N),
         \A d1, d2 \in N :
           /\ d1.body.type = "data" /\ d2.body.type = "data"
           /\ d1.body.session = d2.body.session
           /\ d1.body.role = d2.body.role
           /\ d1.body.nonce = d2.body.nonce
           => d1 = d2,
         NEW d0, d0.body.type # "data", NEW M, M \subseteq N \cup {d0}
  PROVE  /\ NoncesUnused(T, M)
         /\ \A d1, d2 \in M :
              /\ d1.body.type = "data" /\ d2.body.type = "data"
              /\ d1.body.session = d2.body.session
              /\ d1.body.role = d2.body.role
              /\ d1.body.nonce = d2.body.nonce
              => d1 = d2
<1>1. \A d \in M : d.body.type = "data" => d \in N
  OBVIOUS
<1> QED
  BY <1>1 DEF NoncesUnused, NonceUnused

\* A step that leaves tables and history alone.
LEMMA QuietStep ==
  ASSUME NInv, NEW d0, d0.body.type # "data", True(history, d0),
         net' \subseteq net \cup {d0},
         UNCHANGED << handshakes, established, drawn, history >>
  PROVE  NInv'
<1>1. Truthful(history, net')
  BY TruthKept DEF NInv
<1>2. NoncesUnused(established, net') /\ NonceNeverReused'
  BY OtherDatagrams DEF NInv, NonceNeverReused
<1> QED
  BY <1>1, <1>2 DEF NInv

LEMMA RestShrinks ==
  \A d : Rest(d) \subseteq net
BY DEF Rest

LEMMA RejectStep ==
  ASSUME NInv, NEW d, reject(d)
  PROVE  NInv'
<1> DEFINE d0 == Datagram(Nobody, Nobody, Msg1(NoKey))
<1>1. d0.body.type # "data" /\ True(history, d0)
  BY DEF Datagram, Msg1, True
<1>2. net' \subseteq net \cup {d0}
  BY RestShrinks DEF reject
<1> QED
  BY <1>1, <1>2, QuietStep DEF reject

\* A handshake is opened with a fresh key, where the host knew nothing.
LEMMA OpenStep ==
  ASSUME NInv, NEW h \in Hosts, NEW a, a \notin Known(h), NEW r0 \in Records,
         r0.host = h, r0.peer = a,
         r0.what = (IF r0.role = "initiator" THEN "dialled" ELSE "answered"),
         Own(r0) = Ephemeral(h, drawn[h] + 1),
         drawn' = [drawn EXCEPT ![h] = @ + 1],
         HasCause(history \cup {r0}, drawn', r0),
         handshakes' = [handshakes EXCEPT ![h] =
           Put(@, a, [role |-> r0.role, session |-> r0.session])],
         history' = history \cup {r0},
         NEW d0, d0.body.type # "data", True(history', d0),
         net' \subseteq net \cup {d0},
         UNCHANGED established
  PROVE  NInv'
<1> DEFINE x == [role |-> r0.role, session |-> r0.session]
<1>1. /\ History(history, drawn)
      /\ InFlight(history, handshakes) /\ Connections(history, established)
      /\ Truthful(history, net)
  BY DEF NInv
<1>2. History(history', drawn')
  BY <1>1, HistoryOpens
<1>3. Truthful(history', net')
  BY <1>1, TruthKept
<1>4. NoncesUnused(established, net') /\ NonceNeverReused'
  BY OtherDatagrams DEF NInv, NonceNeverReused
<1>5. Connections(history', established')
  <2>1. ASSUME NEW g \in Hosts, NEW b \in DOMAIN established[g]
        PROVE  ConnSound(history', established[g][b], g, b)
    <3>1. << g, b >> # << r0.host, r0.peer >>
      BY DEF Known
    <3>2. ConnSound(history, established[g][b], g, b)
      BY <1>1 DEF Connections
    <3> QED
      BY <3>1, <3>2, ConnKept
  <2> QED
    BY <1>1, <2>1 DEF Connections
<1>6. InFlight(history', handshakes')
  <2>1. AfterPut(handshakes', handshakes, h, a, x)
    <3>1. DOMAIN handshakes = Hosts
      BY <1>1 DEF InFlight
    <3>2. IsPut(handshakes', handshakes, h, a, x)
      BY <3>1 DEF IsPut
    <3> QED
      BY <3>2, PutAt
  <2>2. EntrySound(history', x, h, a)
    <3>1. x.role = r0.role /\ x.session = r0.session /\ Own(x) = Own(r0)
      BY DEF Own
    <3>2. r0.role \in Roles /\ r0 = Record(r0.what, r0.session, h, r0.role, a)
      BY DEF Records, Record
    <3>3. \A r \in history : r.host = h => Own(r).k \in Nat /\ Own(r).k <= drawn[h]
      BY <1>1, RecordTypes DEF HasCause, History
    <3>4. Own(r0).k = drawn[h] + 1 /\ drawn[h] \in Nat
      BY <1>1, KeyFields DEF History
    <3>5. r0.what # "completed"
      OBVIOUS
    <3>6. \A r \in history' : r.host = h => Own(r).k <= Own(x).k
      BY <3>1, <3>3, <3>4
    <3>7. \A r \in history' : r.what = "completed" /\ r.host = h => Own(r) # Own(x)
      <4>1. ASSUME NEW r \in history, r.host = h PROVE Own(r).k # Own(x).k
        BY <3>1, <3>3, <3>4, <4>1
      <4> QED
        BY <3>5, <4>1
    <3> HIDE DEF x
    <3> QED
      BY <3>1, <3>2, <3>6, <3>7 DEF EntrySound, Latest
  <2>3. ASSUME NEW g \in Hosts, NEW b \in DOMAIN handshakes[g],
               << g, b >> # << h, a >>
        PROVE  EntrySound(history', handshakes[g][b], g, b)
    <3>1. EntrySound(history, handshakes[g][b], g, b)
      BY <1>1 DEF InFlight
    <3> QED
      BY <2>3, <3>1, EntryKept
  <2> HIDE DEF x
  <2> QED
    BY ONLY <2>1, <2>2, <2>3 DEF InFlight, AfterPut
<1> QED
  BY <1>2, <1>3, <1>4, <1>5, <1>6 DEF NInv

\* A handshake in flight is completed.
LEMMA CloseStep ==
  ASSUME NInv, NEW h \in Hosts, NEW a \in DOMAIN handshakes[h],
         NEW s \in Sessions, NEW r, r = handshakes[h][a].role,
         Own(handshakes[h][a]) = (IF r = "initiator" THEN s.ei ELSE s.er),
         r = "initiator" => Answered(s, a, h) \in history,
         r = "responder" => Completed(s, a, "initiator", h) \in history,
         complete(h, a, s, r, a),
         NEW d0, d0.body.type # "data", True(history', d0),
         net' \subseteq net \cup {d0}
  PROVE  NInv'
<1> DEFINE x == handshakes[h][a]
           r0 == Completed(s, h, r, a)
           conn == Connected(s, r, a)
<1>1. /\ History(history, drawn)
      /\ InFlight(history, handshakes) /\ Connections(history, established)
      /\ Truthful(history, net)
  BY DEF NInv
<1>2. EntrySound(history, x, h, a)
  BY <1>1 DEF InFlight
<1>3. /\ a \in Hosts /\ h # a /\ r \in Roles
      /\ Own(x).owner = h /\ Own(x).k <= drawn[h] /\ Own(x).k \in Nat
      /\ \A y, b : EntrySound(history, y, h, b) /\ Own(y) = Own(x) => b = a
  BY <1>1, <1>2, EntryOpened
<1>4. /\ r0.what = "completed" /\ r0.session = s /\ r0.host = h /\ r0.role = r
      /\ r0.peer = a /\ Own(r0) = Own(x)
  BY RecordFields DEF Completed
<1>5. /\ history' = history \cup {r0} /\ drawn' = drawn
      /\ handshakes' = [handshakes EXCEPT ![h] = Remove(@, a)]
      /\ established' = [established EXCEPT ![h] = Put(@, a, conn)]
  BY DEF complete, Completed
<1>6. r0 \in Records
  BY <1>3 DEF Completed, Record, Records
<1>7. /\ conn.session = s /\ conn.role = r /\ conn.send_nonce = 0
      /\ DOMAIN conn = ConnFields /\ Own(conn) = Own(x)
  BY DEF Connected, ConnFields, Own
<1> HIDE DEF x, r0, conn
<1>8. HasCause(history', drawn, r0)
  BY <1>3, <1>4, <1>5 DEF HasCause
<1>9. /\ \A q \in history : q.what = "completed" /\ q.host = h => Own(q) # Own(x)
      /\ Latest(history, x, h, a)
  BY <1>2 DEF EntrySound
<1>10. Latest(history, r0, r0.host, r0.peer)
  BY <1>4, <1>9 DEF Latest
<1>11. History(history', drawn')
  BY <1>1, <1>4, <1>5, <1>6, <1>8, <1>9, <1>10, HistoryCloses
<1>12. Truthful(history', net')
  BY <1>1, <1>5, TruthKept
<1>13. InFlight(history', handshakes')
  <2>1. AfterRemove(handshakes', handshakes, h, a)
    <3>1. DOMAIN handshakes = Hosts
      BY <1>1 DEF InFlight
    <3>2. IsRemove(handshakes', handshakes, h, a)
      BY <1>5, <3>1 DEF IsRemove
    <3> QED
      BY <3>2, RemoveAt
  <2>2. ASSUME NEW g \in Hosts, NEW b \in DOMAIN handshakes[g],
               << g, b >> # << h, a >>
        PROVE  EntrySound(history', handshakes[g][b], g, b)
    <3>1. EntrySound(history, handshakes[g][b], g, b)
      BY <1>1 DEF InFlight
    <3>2. g = h => Own(x) # Own(handshakes[g][b])
      BY <1>3, <2>2, <3>1
    <3> QED
      BY <1>4, <1>5, <2>2, <3>1, <3>2, EntryKept
  <2> QED
    BY <2>1, <2>2 DEF InFlight, AfterRemove
<1>14. AfterPut(established', established, h, a, conn)
  <2>1. DOMAIN established = Hosts
    BY <1>1 DEF Connections
  <2>2. IsPut(established', established, h, a, conn)
    BY <1>5, <2>1 DEF IsPut
  <2> QED
    BY <2>2, PutAt
<1>15. Connections(history', established')
  <2>1. ConnSound(history', conn, h, a)
    <3>1. r0 \in history' /\ 0 \in Nat
      BY <1>5
    <3>2. Latest(history', conn, h, a)
      BY <1>3, <1>4, <1>5, <1>7, <1>9 DEF Latest
    <3> QED
      BY <1>7, <3>1, <3>2 DEF ConnSound, r0
  <2>2. ASSUME NEW g \in Hosts, NEW b \in DOMAIN established[g],
               << g, b >> # << h, a >>
        PROVE  ConnSound(history', established[g][b], g, b)
    <3>1. ConnSound(history, established[g][b], g, b)
      BY <1>1 DEF Connections
    <3> QED
      BY <1>4, <1>5, <2>2, <3>1, ConnKept
  <2> QED
    BY <1>14, <2>1, <2>2 DEF Connections, AfterPut
<1>16. NoncesUnused(established, net') /\ NonceNeverReused'
  BY OtherDatagrams DEF NInv, NonceNeverReused
<1>17. NoncesUnused(established', net')
  <2>1. ASSUME NEW d \in net, d.body.type = "data", d.body.session = s,
               d.body.role = r
        PROVE  FALSE
    <3> DEFINE q == Completed(s, d.src, r, d.dst)
    <3>1. q \in history
      BY <1>1, <2>1 DEF Truthful, True
    <3>2. q.what = "completed" /\ q.host = d.src /\ Own(q) = Own(x)
      BY RecordFields DEF Completed, x
    <3>3. Own(q).owner = q.host
      BY <1>1, <3>1, RecordTypes DEF History, HasCause
    <3> QED
      BY <1>3, <1>9, <3>1, <3>2, <3>3
  <2>2. NonceUnused(conn, net')
    BY <1>7, <2>1 DEF NonceUnused
  <2> QED
    BY <1>14, <1>16, <2>2 DEF NoncesUnused, AfterPut
<1> QED
  BY <1>11, <1>12, <1>13, <1>15, <1>16, <1>17 DEF NInv

-----------------------------------------------------------------------------
(* What arrives                                                            *)

\* Forged or not, what a host acts on is so.
Credible(H, d, h) ==
  LET m == d.body
  IN /\ m.type = "challenge" =>
          \/ m.mac.secret = Nobody
          \/ m.mac.secret = d.src /\ m.mac.from = h
     /\ m.type = "msg1_cookie" /\ verify(h, d.src, m.e, m.mac) =>
          Dialled(m.e, d.src, h) \in H
     /\ m.type = "msg2" => m.s = d.src /\ Answered(m.session, d.src, h) \in H
     /\ m.type = "msg3" =>
          /\ m.s = d.src
          /\ Completed(m.session, d.src, "initiator", m.responder) \in H

\* A forged source passes no cookie check: the cookie in a datagram that is
\* replayed covers the address of the host that dialled.
LEMMA ArrivesCredible ==
  ASSUME Truthful(history, net), NEW h \in Hosts,
         NEW d \in Arriving(h) \cup Spoofed(h)
  PROVE  Credible(history, d, h)
<1> DEFINE m == d.body
<1>1. h # Nobody
  BY HostsAssumption DEF Nobody
<1>2. ASSUME NEW c \in net, c.body = m, m.type = "msg1_cookie",
             verify(h, d.src, m.e, m.mac)
      PROVE  Dialled(m.e, d.src, h) \in history
  <2>1. m.mac.secret = h /\ m.mac.from = d.src
    BY <1>2 DEF verify, mint
  <2>2. /\ Dialled(m.e, c.src, c.dst) \in history
        /\ \/ m.mac.secret = Nobody
           \/ m.mac.secret = c.dst /\ m.mac.from = c.src
    BY <1>2 DEF Truthful, True
  <2>3. c.dst = h /\ c.src = d.src
    BY <1>1, <2>1, <2>2
  <2> QED
    BY <2>2, <2>3
<1>3. CASE d \in net /\ d.dst = h
  <2>1. True(history, d)
    BY <1>3 DEF Truthful
  <2> QED
    BY <1>2, <1>3, <2>1 DEF Credible, True
<1>4. CASE d \in Spoofed(h)
  <2>1. \/ m = Msg1(OpaqueBytes)
        \/ m = Msg1WithCookie(OpaqueBytes, NoMac)
        \/ m = Challenge(NoMac)
        \/ \E c \in net : c.body = m /\ m.type = "msg1_cookie"
    BY <1>4 DEF Spoofed, Datagram
  <2>2. CASE m = Msg1(OpaqueBytes)
    BY <2>2 DEF Msg1, Credible
  <2>3. CASE m = Msg1WithCookie(OpaqueBytes, NoMac)
    <3>1. m.type = "msg1_cookie" /\ m.mac.secret = Nobody
      BY <2>3 DEF Msg1WithCookie, NoMac, mint
    <3>2. ~ verify(h, d.src, m.e, m.mac)
      BY <1>1, <3>1 DEF verify, mint
    <3> QED
      BY <3>1, <3>2 DEF Credible
  <2>4. CASE m = Challenge(NoMac)
    <3>1. m.type = "challenge" /\ m.mac.secret = Nobody
      BY <2>4 DEF Challenge, NoMac, mint
    <3> QED
      BY <3>1 DEF Credible
  <2>5. CASE \E c \in net : c.body = m /\ m.type = "msg1_cookie"
    BY <1>2, <2>5 DEF Credible
  <2> QED
    BY <2>1, <2>2, <2>3, <2>4, <2>5
<1> QED
  BY <1>3, <1>4 DEF Arriving

-----------------------------------------------------------------------------
(* The actions                                                             *)

LEMMA DialStep ==
  ASSUME NInv, NEW h \in Hosts, NEW a \in Hosts \ {h}, dial(h, a)
  PROVE  NInv'
<1> DEFINE e == Ephemeral(h, drawn[h] + 1)
           r0 == Dialled(e, h, a)
           d0 == Datagram(h, a, Msg1(e))
<1>1. drawn \in [Hosts -> Nat] /\ drawn[h] \in Nat
  BY DEF NInv, History
<1>2. e \in Keys /\ e.owner = h /\ e.k = drawn[h] + 1
  BY <1>1, KeyFields DEF Addrs
<1> HIDE DEF e
<1>3. /\ r0.what = "dialled" /\ r0.session = Session(e, NoKey) /\ r0.host = h
      /\ r0.role = "initiator" /\ r0.peer = a /\ Own(r0) = e
  BY RecordFields, KeyFields DEF Dialled
<1>4. Session(e, NoKey) \in Sessions /\ Session(e, NoKey).er = NoKey
  BY <1>2, KeyFields
<1>5. r0 \in Records
  BY <1>4 DEF Dialled, Record, Records, Roles
<1>6. d0.body.type # "data" /\ True(history', d0)
  BY DEF Datagram, Msg1, True
<1>7. /\ a \notin Known(h)
      /\ handshakes' = [handshakes EXCEPT ![h] =
           Put(@, a, [role |-> r0.role, session |-> r0.session])]
      /\ net' \subseteq net \cup {d0} /\ history' = history \cup {r0}
      /\ drawn' = [drawn EXCEPT ![h] = @ + 1]
      /\ established' = established
  BY <1>3 DEF dial, e, Dialled
<1> HIDE DEF r0, d0
<1>8. HasCause(history \cup {r0}, drawn', r0)
  <2>1. drawn'[h] = drawn[h] + 1
    BY <1>1, <1>7
  <2> QED
    BY <1>1, <1>2, <1>3, <1>4, <2>1 DEF HasCause
<1> QED
  BY <1>3, <1>5, <1>6, <1>7, <1>8, OpenStep DEF e

LEMMA ForgetStep ==
  ASSUME NInv, NEW h \in Hosts, NEW a, forget(h, a)
  PROVE  NInv'
<1>1. /\ DOMAIN handshakes = Hosts /\ DOMAIN established = Hosts
      /\ \A g \in Hosts : \A b \in DOMAIN handshakes[g] :
           EntrySound(history, handshakes[g][b], g, b)
      /\ \A g \in Hosts : \A b \in DOMAIN established[g] :
           ConnSound(history, established[g][b], g, b)
  BY DEF NInv, InFlight, Connections
<1>2. UNCHANGED << net, drawn, history >>
  BY DEF forget
<1>3. AfterRemove(handshakes', handshakes, h, a)
  <2>1. IsRemove(handshakes', handshakes, h, a)
    BY <1>1 DEF forget, IsRemove
  <2> QED
    BY <2>1, RemoveAt
<1>4. AfterRemove(established', established, h, a)
  <2>1. IsRemove(established', established, h, a)
    BY <1>1 DEF forget, IsRemove
  <2> QED
    BY <2>1, RemoveAt
<1>5. InFlight(history', handshakes')
  BY <1>1, <1>2, <1>3 DEF InFlight, AfterRemove
<1>6. Connections(history', established')
  BY <1>1, <1>2, <1>4 DEF Connections, AfterRemove
<1>7. NoncesUnused(established', net') /\ NonceNeverReused'
  BY <1>2, <1>4 DEF NInv, NoncesUnused, NonceNeverReused, AfterRemove
<1>8. History(history', drawn') /\ Truthful(history', net')
  BY <1>2 DEF NInv
<1> QED
  BY <1>5, <1>6, <1>7, <1>8 DEF NInv

\* A connection sends or receives: its keys stay, its counter does not fall.
LEMMA ConnectionStep ==
  ASSUME NInv, NEW h \in Hosts, NEW a \in DOMAIN established[h],
         NEW y, y.session = established[h][a].session,
         y.role = established[h][a].role, DOMAIN y = ConnFields,
         y.send_nonce \in Nat,
         established' = [established EXCEPT ![h] = Put(@, a, y)],
         UNCHANGED << handshakes, drawn, history >>
  PROVE  /\ AfterPut(established', established, h, a, y)
         /\ History(history', drawn') /\ InFlight(history', handshakes')
         /\ Connections(history', established')
<1>1. /\ DOMAIN established = Hosts
      /\ \A g \in Hosts : \A b \in DOMAIN established[g] :
           ConnSound(history, established[g][b], g, b)
  BY DEF NInv, Connections
<1>2. AfterPut(established', established, h, a, y)
  <2>1. IsPut(established', established, h, a, y)
    BY <1>1 DEF IsPut
  <2> QED
    BY <2>1, PutAt
<1>3. ConnSound(history, y, h, a)
  <2>1. ConnSound(history, established[h][a], h, a)
    BY <1>1
  <2>2. Own(y) = Own(established[h][a])
    BY DEF Own
  <2> QED
    BY <2>1, <2>2 DEF ConnSound, Latest
<1>4. Connections(history', established')
  BY <1>1, <1>2, <1>3 DEF Connections, AfterPut
<1> QED
  BY <1>2, <1>4 DEF NInv

LEMMA SendStep ==
  ASSUME NInv, NEW h \in Hosts, NEW a, send(h, a)
  PROVE  NInv'
<1> DEFINE x == established[h][a]
           y == [x EXCEPT !.send_nonce = @ + 1]
           d0 == Datagram(h, a, Data(x.session, x.role, x.send_nonce, sends[h]))
<1>1. /\ a \in DOMAIN established[h]
      /\ net' = net \cup {d0}
      /\ established' = [established EXCEPT ![h] = Put(@, a, y)]
      /\ UNCHANGED << handshakes, drawn, history >>
  BY DEF send
<1>2. ConnSound(history, x, h, a)
  BY <1>1 DEF NInv, Connections
<1>3. x.send_nonce \in Nat /\ Completed(x.session, h, x.role, a) \in history
  BY <1>2 DEF ConnSound
<1>4. /\ y.session = x.session /\ y.role = x.role /\ DOMAIN y = ConnFields
      /\ y.send_nonce = x.send_nonce + 1 /\ y.send_nonce \in Nat
  BY <1>2, <1>3 DEF ConnSound, ConnFields
<1>5. /\ d0.src = h /\ d0.dst = a /\ d0.body.type = "data"
      /\ d0.body.session = x.session /\ d0.body.role = x.role
      /\ d0.body.nonce = x.send_nonce
  BY DEF Datagram, Data
<1> HIDE DEF x, y, d0
<1>6. /\ AfterPut(established', established, h, a, y)
      /\ History(history', drawn') /\ InFlight(history', handshakes')
      /\ Connections(history', established')
  BY <1>1, <1>4, ConnectionStep DEF x
<1>7. Truthful(history', net')
  <2>1. True(history', d0)
    BY <1>1, <1>3, <1>5 DEF True
  <2> QED
    BY <1>1, <2>1, TruthKept DEF NInv
<1>8. \A d \in net :
        d.body.type = "data" /\ d.body.session = x.session /\ d.body.role = x.role
        => d.body.nonce < x.send_nonce
  BY <1>1 DEF NInv, NoncesUnused, NonceUnused, x
<1>9. \A d \in net : d.body.type = "data" => d.body.nonce \in Nat
  BY DEF NInv, Truthful, True
<1>10. NonceNeverReused'
  <2>1. ASSUME NEW d \in net, d.body.type = "data",
               d.body.session = x.session, d.body.role = x.role
        PROVE  d.body.nonce # x.send_nonce
    BY <1>3, <1>8, <1>9, <2>1
  <2> QED
    BY <1>1, <1>5, <2>1 DEF NInv, NonceNeverReused
<1>11. NoncesUnused(established', net')
  <2>1. NonceUnused(y, net')
    BY <1>1, <1>3, <1>4, <1>5, <1>8, <1>9 DEF NonceUnused
  <2>2. ASSUME NEW g \in Hosts, NEW b \in DOMAIN established[g],
               << g, b >> # << h, a >>
        PROVE  NonceUnused(established[g][b], net')
    <3> DEFINE z == established[g][b]
    <3>1. Completed(z.session, g, z.role, b) \in history
      BY DEF NInv, Connections, ConnSound
    <3>2. ~ (z.session = x.session /\ z.role = x.role)
      BY <1>3, <2>2, <3>1, OneEnd DEF NInv
    <3>3. NonceUnused(z, net)
      BY DEF NInv, NoncesUnused
    <3> HIDE DEF z
    <3> QED
      BY <1>1, <1>5, <3>2, <3>3 DEF NonceUnused, z
  <2> QED
    BY <1>6, <2>1, <2>2 DEF NoncesUnused, AfterPut
<1> QED
  BY <1>6, <1>7, <1>10, <1>11 DEF NInv

LEMMA DecryptStep ==
  ASSUME NInv, NEW h \in Hosts, NEW d, d.src \in DOMAIN established[h],
         decrypt_established(h, d)
  PROVE  NInv'
<1> DEFINE x == established[h][d.src]
           y == [x EXCEPT !.received = @ \cup {d.body.nonce}]
<1>1. CASE reject(d)
  BY <1>1, RejectStep
<1>2. CASE ~ reject(d)
  <2>1. /\ established' = [established EXCEPT ![h] = Put(@, d.src, y)]
        /\ net' \subseteq net
        /\ UNCHANGED << handshakes, drawn, history >>
    BY <1>2, RestShrinks DEF decrypt_established
  <2>2. ConnSound(history, x, h, d.src)
    BY DEF NInv, Connections
  <2>3. /\ y.session = x.session /\ y.role = x.role /\ DOMAIN y = ConnFields
        /\ y.send_nonce = x.send_nonce /\ y.send_nonce \in Nat
    BY <2>2 DEF ConnSound, ConnFields
  <2> HIDE DEF x, y
  <2>4. /\ AfterPut(established', established, h, d.src, y)
        /\ History(history', drawn') /\ InFlight(history', handshakes')
        /\ Connections(history', established')
    BY <2>1, <2>3, ConnectionStep DEF x
  <2>5. Truthful(history', net')
    BY <2>1 DEF NInv, Truthful
  <2>6. NonceNeverReused' /\ NoncesUnused(established, net')
    BY <2>1 DEF NInv, NonceNeverReused, NoncesUnused, NonceUnused
  <2>7. NonceUnused(y, net')
    <3>1. NonceUnused(x, net')
      BY <2>6 DEF NoncesUnused, x
    <3> QED
      BY <2>3, <3>1 DEF NonceUnused
  <2>8. NoncesUnused(established', net')
    BY <2>4, <2>6, <2>7 DEF NoncesUnused, AfterPut
  <2> QED
    BY <2>4, <2>5, <2>6, <2>8 DEF NInv
<1> QED
  BY <1>1, <1>2

LEMMA AnswerChallengeStep ==
  ASSUME NInv, NEW h \in Hosts, NEW d, Credible(history, d, h),
         d.src \in DOMAIN handshakes[h],
         handshakes[h][d.src].role # "responder", d.body.type = "challenge",
         answer_cookie_challenge(h, d)
  PROVE  NInv'
<1> DEFINE x == handshakes[h][d.src]
           d0 == Datagram(h, d.src, Msg1WithCookie(x.session.ei, d.body.mac))
<1>1. History(history, drawn) /\ EntrySound(history, x, h, d.src)
  BY DEF NInv, InFlight
<1>2. Dialled(x.session.ei, h, d.src) \in history
  BY <1>1, EntryOpened DEF Roles
<1>3. \/ d.body.mac.secret = Nobody
      \/ d.body.mac.secret = d.src /\ d.body.mac.from = h
  BY DEF Credible
<1>4. /\ d0.src = h /\ d0.dst = d.src /\ d0.body.type = "msg1_cookie"
      /\ d0.body.e = x.session.ei /\ d0.body.mac = d.body.mac
  BY DEF Datagram, Msg1WithCookie
<1>5. /\ net' \subseteq net \cup {d0}
      /\ UNCHANGED << handshakes, established, drawn, history >>
  BY RestShrinks DEF answer_cookie_challenge
<1> HIDE DEF x, d0
<1>6. True(history, d0)
  BY <1>2, <1>3, <1>4 DEF True
<1> QED
  BY <1>4, <1>5, <1>6, QuietStep

LEMMA InitiatorStep ==
  ASSUME NInv, NEW h \in Hosts, NEW d, Credible(history, d, h),
         d.src \in DOMAIN handshakes[h],
         handshakes[h][d.src].role # "responder", initiator_consume_msg2(h, d)
  PROVE  NInv'
<1> DEFINE x == handshakes[h][d.src]
           m == d.body
           s == Session(x.session.ei, m.session.er)
<1>1. CASE reject(d)
  BY <1>1, RejectStep
<1>2. CASE ~ reject(d)
  <2>1. PICK b \in trailers[h] :
          /\ m.type = "msg2" /\ m.session.ei = x.session.ei /\ m.binding = m.s
          /\ complete(h, d.src, s, "initiator", m.binding)
          /\ net' = Rest(d) \cup {Datagram(h, d.src, Msg3(s, m.s, h, b))}
    BY <1>2 DEF initiator_consume_msg2, read_response, verify_binding
  <2> DEFINE d0 == Datagram(h, d.src, Msg3(s, m.s, h, b))
  <2>2. m.s = d.src /\ Answered(m.session, d.src, h) \in history
    BY <2>1 DEF Credible
  <2>3. m.session \in Sessions
    <3>1. Answered(m.session, d.src, h).session \in Sessions
      BY <2>2, RecordTypes DEF NInv, History
    <3> QED
      BY <3>1, RecordFields DEF Answered
  <2>4. s = m.session /\ s.ei = x.session.ei
    BY <2>1, <2>3 DEF Sessions, Session
  <2>5. x.role = "initiator" /\ Own(x) = s.ei
    <3>1. EntrySound(history, x, h, d.src)
      BY DEF NInv, InFlight
    <3>2. x.role = "initiator"
      BY <3>1 DEF EntrySound, Roles
    <3> QED
      BY <2>4, <3>2 DEF Own
  <2>6. /\ d0.src = h /\ d0.body.type = "msg3" /\ d0.body.session = s
        /\ d0.body.responder = d.src /\ d0.body.s = h
    BY <2>2 DEF Datagram, Msg3
  <2>7. net' \subseteq net \cup {d0}
    BY <2>1, RestShrinks
  <2>8. complete(h, d.src, s, "initiator", d.src)
    BY <2>1, <2>2
  <2> HIDE DEF x, m, s, d0
  <2>9. True(history', d0)
    <3>1. Completed(s, h, "initiator", d.src) \in history'
      BY <2>8 DEF complete, Completed
    <3> QED
      BY <2>6, <3>1 DEF True
  <2> QED
    BY <2>2, <2>3, <2>4, <2>5, <2>6, <2>7, <2>8, <2>9, CloseStep DEF x
<1> QED
  BY <1>1, <1>2

LEMMA ResponderStep ==
  ASSUME NInv, NEW h \in Hosts, NEW d, Credible(history, d, h),
         d.src \in DOMAIN handshakes[h],
         handshakes[h][d.src].role = "responder", responder_consume_msg3(h, d)
  PROVE  NInv'
<1> DEFINE x == handshakes[h][d.src]
           m == d.body
           d0 == Datagram(Nobody, Nobody, Msg1(NoKey))
<1>1. CASE reject(d)
  BY <1>1, RejectStep
<1>2. CASE ~ reject(d)
  <2>1. /\ m.type = "msg3" /\ m.session = x.session /\ m.responder = h
        /\ m.binding = m.s
        /\ complete(h, d.src, x.session, "responder", m.binding)
        /\ net' \subseteq net
    BY <1>2, RestShrinks DEF responder_consume_msg3, read_s, verify_binding
  <2>2. m.s = d.src /\ Completed(x.session, d.src, "initiator", h) \in history
    BY <2>1 DEF Credible
  <2>3. x.session \in Sessions /\ Own(x) = x.session.er
    <3>1. EntrySound(history, x, h, d.src) /\ History(history, drawn)
      BY DEF NInv, InFlight
    <3> QED
      BY <3>1, EntryOpened DEF Own
  <2>4. complete(h, d.src, x.session, "responder", d.src)
    BY <2>1, <2>2
  <2>5. d0.body.type # "data" /\ True(history', d0) /\ net' \subseteq net \cup {d0}
    BY <2>1 DEF Datagram, Msg1, True
  <2> HIDE DEF x, m, d0
  <2> QED
    BY <2>2, <2>3, <2>4, <2>5, CloseStep DEF x
<1> QED
  BY <1>1, <1>2

LEMMA RespondStep ==
  ASSUME NInv, NEW h \in Hosts, NEW d, Credible(history, d, h),
         d.src \notin Known(h), d.body.type = "msg1_cookie",
         verify(h, d.src, d.body.e, d.body.mac), respond_to_validated_msg1(h, d)
  PROVE  NInv'
<1> DEFINE a == d.src
           e == d.body.e
           k == Ephemeral(h, drawn[h] + 1)
           s == Session(e, k)
           r0 == Answered(s, h, a)
<1>1. drawn \in [Hosts -> Nat] /\ drawn[h] \in Nat /\ Caused(history, drawn)
  BY DEF NInv, History
<1>2. Dialled(e, a, h) \in history
  BY DEF Credible
<1>3. a \in Hosts /\ a # h /\ e \in Keys
  <2> DEFINE q == Dialled(e, a, h)
  <2>1. q.host \in Hosts /\ Own(q) \in Keys /\ q.host # q.peer
    BY <1>1, <1>2, RecordTypes DEF HasCause
  <2>2. q.host = a /\ q.peer = h /\ Own(q) = e
    BY RecordFields, KeyFields DEF Dialled
  <2> QED
    BY <2>1, <2>2
<1>4. k \in Keys /\ k.owner = h /\ k.k = drawn[h] + 1
  BY <1>1, KeyFields DEF Addrs
<1>5. PICK b \in trailers[h] :
        net' = Rest(d) \cup {Datagram(h, a, Msg2(s, h, b))}
  BY DEF respond_to_validated_msg1
<1>6. /\ handshakes' = [handshakes EXCEPT ![h] =
           Put(@, a, [role |-> "responder", session |-> s])]
      /\ history' = history \cup {r0}
      /\ drawn' = [drawn EXCEPT ![h] = @ + 1]
      /\ established' = established
  BY DEF respond_to_validated_msg1, Answered
<1> DEFINE d0 == Datagram(h, a, Msg2(s, h, b))
<1>7. /\ d0.src = h /\ d0.dst = a /\ d0.body.type = "msg2"
      /\ d0.body.session = s /\ d0.body.s = h
  BY DEF Datagram, Msg2
<1>8. s \in Sessions /\ s.ei = e /\ s.er = k
  BY <1>3, <1>4, KeyFields
<1>9. net' \subseteq net \cup {d0}
  BY <1>5, RestShrinks
<1> HIDE DEF k, s, d0
<1>10. /\ r0.what = "answered" /\ r0.session = s /\ r0.host = h
       /\ r0.role = "responder" /\ r0.peer = a /\ Own(r0) = k
  BY <1>8, RecordFields DEF Answered
<1>11. r0 \in Records
  BY <1>3, <1>8 DEF Answered, Record, Records, Roles
<1>12. True(history', d0)
  BY <1>6, <1>7 DEF True
<1> HIDE DEF r0
<1>13. HasCause(history \cup {r0}, drawn', r0)
  <2>1. drawn'[h] = drawn[h] + 1
    BY <1>1, <1>6
  <2> QED
    BY <1>1, <1>2, <1>3, <1>4, <1>8, <1>10, <2>1 DEF HasCause
<1> QED
  BY <1>6, <1>7, <1>9, <1>10, <1>11, <1>12, <1>13, OpenStep DEF k

LEMMA ReceiveStep ==
  ASSUME NInv, NEW h \in Hosts, NEW d, Credible(history, d, h), recv_one(h, d)
  PROVE  NInv'
<1>1. CASE d.src \in DOMAIN established[h] /\ decrypt_established(h, d)
  BY <1>1, DecryptStep
<1>2. CASE d.src \in DOMAIN handshakes[h] /\ advance_in_flight(h, d)
  BY <1>2, ResponderStep, AnswerChallengeStep, InitiatorStep
     DEF advance_in_flight
<1>3. CASE d.src \notin Known(h) /\ try_responder_msg1(h, d)
  <2> DEFINE d0 == Datagram(h, d.src, Challenge(mint(h, d.src, First32(d.body))))
  <2>1. CASE /\ net' = Rest(d) \cup {d0}
             /\ UNCHANGED << handshakes, established, drawn, sends, history >>
    <3>1. d0.body.type # "data" /\ True(history, d0)
      BY DEF Datagram, Challenge, mint, True
    <3>2. net' \subseteq net \cup {d0}
      BY <2>1, RestShrinks
    <3> QED
      BY <2>1, <3>1, <3>2, QuietStep
  <2>2. CASE reject(d)
    BY <2>2, RejectStep
  <2>3. CASE /\ d.body.type = "msg1_cookie"
             /\ verify(h, d.src, d.body.e, d.body.mac)
             /\ respond_to_validated_msg1(h, d)
    BY <1>3, <2>3, RespondStep
  <2> QED
    BY <1>3, <2>1, <2>2, <2>3 DEF try_responder_msg1
<1> QED
  BY <1>1, <1>2, <1>3 DEF recv_one

-----------------------------------------------------------------------------
(* The theorems                                                            *)

\* The network of hosts keeps NInv: every record of the history has its
\* cause, keys are drawn afresh and complete one handshake, entries and
\* connections are the latest of their host, datagrams of hosts are truthful.
THEOREM NInvHolds == Spec => []NInv
<1>1. Init => NInv
  <2> SUFFICES ASSUME Init PROVE NInv
    OBVIOUS
  <2>1. History(history, drawn)
    BY DEF Init, History, Caused, KeysUsedOnce, Ordered,
           CompletedBeforeAnswered, AnsweredInTurn, CompletedInTurn
  <2>2. \A h \in Hosts : DOMAIN handshakes[h] = {} /\ DOMAIN established[h] = {}
    BY DEF Init, EmptyTable
  <2>3. DOMAIN handshakes = Hosts /\ DOMAIN established = Hosts /\ net = {}
    BY DEF Init
  <2> QED
    BY <2>1, <2>2, <2>3 DEF NInv, InFlight, Connections, Truthful, NoncesUnused,
                            NonceNeverReused
<1>2. NInv /\ [Next]_vars => NInv'
  <2> SUFFICES ASSUME NInv, [Next]_vars PROVE NInv'
    OBVIOUS
  <2>1. ASSUME NEW h \in Hosts, NEW a \in Hosts \ {h}, dial(h, a) PROVE NInv'
    BY <2>1, DialStep
  <2>2. ASSUME NEW h \in Hosts, NEW a \in Hosts \ {h}, send(h, a) PROVE NInv'
    BY <2>2, SendStep
  <2>3. ASSUME NEW h \in Hosts, NEW a \in Hosts \ {h}, forget(h, a) PROVE NInv'
    BY <2>3, ForgetStep
  <2>4. ASSUME NEW h \in Hosts, NEW d \in Arriving(h) \cup Spoofed(h),
               recv_one(h, d)
        PROVE  NInv'
    <3>1. Credible(history, d, h)
      BY ArrivesCredible DEF NInv
    <3> QED
      BY <2>4, <3>1, ReceiveStep
  <2>5. CASE UNCHANGED vars
    BY <2>5 DEF vars, NInv, NonceNeverReused
  <2> QED
    BY <2>1, <2>2, <2>3, <2>4, <2>5 DEF Next, Receive
<1> QED
  BY <1>1, <1>2, PTL DEF Spec

\* SlotsOnlyForReachable: a responder entry of respond_to_validated_msg1 is
\* only ever for a host that drew the ephemeral key and dialled, however many
\* datagrams with forged sources arrive.
THEOREM SlotsOnlyForReachableHolds == Spec => []SlotsOnlyForReachable
<1>1. NInv => SlotsOnlyForReachable
  <2> SUFFICES ASSUME NInv, NEW h \in Hosts, NEW a \in DOMAIN handshakes[h],
                      handshakes[h][a].role = "responder"
               PROVE  handshakes[h][a].session.ei.owner = a
    BY DEF SlotsOnlyForReachable
  <2> DEFINE x == handshakes[h][a]
             q == Dialled(x.session.ei, a, h)
  <2>1. History(history, drawn) /\ EntrySound(history, x, h, a)
    BY DEF NInv, InFlight
  <2>2. Answered(x.session, h, a) \in history
    BY <2>1, EntryOpened
  <2>3. q \in history
    BY <2>1, <2>2, DrawnKeys, RecordFields DEF Answered
  <2>4. HasCause(history, drawn, q)
    BY <2>1, <2>3, RecordTypes DEF History
  <2>5. q.host = a /\ Own(q) = x.session.ei
    BY RecordFields, KeyFields DEF Dialled
  <2> QED
    BY <2>4, <2>5 DEF HasCause
<1> QED
  BY <1>1, NInvHolds, PTL

\* PeersAgree: the peer that initiator_consume_msg2 or responder_consume_msg3
\* reports is the host at the other end of this very handshake.
THEOREM PeersAgreeHolds == Spec => []PeersAgree
<1>1. NInv => PeersAgree
  <2> SUFFICES ASSUME NInv, NEW c \in history, c.what = "completed"
               PROVE  IF c.role = "initiator"
                      THEN Answered(c.session, c.peer, c.host) \in history
                      ELSE Completed(c.session, c.peer, "initiator", c.host)
                             \in history
    BY DEF PeersAgree, Answered, Completed
  <2>1. HasCause(history, drawn, c) /\ c.role \in Roles
    BY RecordTypes DEF NInv, History
  <2> QED
    BY <2>1 DEF HasCause, Roles
<1> QED
  BY <1>1, NInvHolds, PTL

\* NonceNeverReused: no two transport datagrams are sealed under one key and
\* nonce, however messages are replayed and connections evicted and remade.
THEOREM NonceNeverReusedHolds == Spec => []NonceNeverReused
<1>1. NInv => NonceNeverReused
  BY DEF NInv
<1> QED
  BY <1>1, NInvHolds, PTL

\* What a completed handshake tells of both its hosts.
LEMMA BothEnds ==
  ASSUME NEW H, NEW D, History(H, D), NEW s, NEW g, NEW h, NEW r,
         Completed(s, g, r, h) \in H
  PROVE  LET i == IF r = "initiator" THEN g ELSE h
             p == IF r = "initiator" THEN h ELSE g
         IN /\ g # h /\ r \in Roles
            /\ Completed(s, i, "initiator", p) \in H
            /\ Answered(s, p, i) \in H /\ Dialled(s.ei, i, p) \in H
            /\ s \in Sessions /\ s.ei.owner = i /\ s.er.owner = p
            /\ s.ei.k \in Nat /\ s.er.k \in Nat
<1> DEFINE i == IF r = "initiator" THEN g ELSE h
           p == IF r = "initiator" THEN h ELSE g
           c == Completed(s, g, r, h)
           u == Completed(s, i, "initiator", p)
           v == Answered(s, p, i)
           w == Dialled(s.ei, i, p)
<1>1. D \in [Hosts -> Nat] /\ Caused(H, D)
  BY DEF History
<1>2. /\ c.what = "completed" /\ c.session = s /\ c.host = g /\ c.peer = h
      /\ c.role = r
  BY RecordFields DEF Completed
<1>3. /\ g # h /\ r \in Roles /\ s \in Sessions
      /\ s.ei.k \in Nat /\ s.er.k \in Nat /\ HasCause(H, D, c)
  BY <1>1, <1>2, RecordTypes DEF HasCause
<1>4. u \in H
  BY <1>2, <1>3 DEF HasCause, Roles
<1> HIDE DEF i, p
<1>5. /\ u.what = "completed" /\ u.session = s /\ u.host = i /\ u.peer = p
      /\ u.role = "initiator" /\ Own(u) = s.ei
  BY RecordFields DEF Completed
<1>6. HasCause(H, D, u)
  BY <1>1, <1>4, RecordTypes
<1>7. v \in H /\ s.ei.owner = i
  BY <1>5, <1>6 DEF HasCause
<1>8. /\ v.what = "answered" /\ v.session = s /\ v.host = p /\ v.peer = i
      /\ Own(v) = s.er
  BY RecordFields DEF Answered
<1>9. HasCause(H, D, v)
  BY <1>1, <1>7, RecordTypes
<1>10. w \in H /\ s.er.owner = p
  BY <1>8, <1>9 DEF HasCause
<1> QED
  BY <1>3, <1>4, <1>7, <1>10 DEF i, p

\* A key that answers dials nothing.
LEMMA KeysApart ==
  ASSUME NEW H, NEW D, History(H, D), NEW s, NEW e, NEW h, NEW a, NEW b,
         Answered(s, h, a) \in H, Dialled(e, h, b) \in H
  PROVE  s.er.k # e.k
<1> DEFINE u == Answered(s, h, a)
           v == Dialled(e, h, b)
<1>1. D \in [Hosts -> Nat] /\ Caused(H, D) /\ KeysUsedOnce(H)
  BY DEF History
<1>2. /\ u.what = "answered" /\ u.host = h /\ Own(u) = s.er
      /\ v.what = "dialled" /\ v.host = h /\ Own(v) = e
  BY RecordFields, KeyFields DEF Answered, Dialled
<1>3. s.er # e
  BY <1>1, <1>2 DEF KeysUsedOnce
<1>4. s.er \in Keys /\ e \in Keys /\ s.er.owner = h /\ e.owner = h
  BY <1>1, <1>2, RecordTypes DEF HasCause
<1> QED
  BY <1>3, <1>4 DEF Keys

\* MutualConnectionsAgree: two hosts established with each other by dial and
\* recv_one hold the two ends of one session.  Each holds the latest it
\* completed; of two sessions one would be older at both ends.
THEOREM MutualConnectionsAgreeHolds == Spec => []MutualConnectionsAgree
<1>1. ASSUME NInv, NEW g \in Hosts, NEW h \in Hosts,
             h \in DOMAIN established[g], g \in DOMAIN established[h]
      PROVE  /\ established[g][h].session = established[h][g].session
             /\ established[g][h].role # established[h][g].role
  <2> DEFINE H == history
             x == established[g][h]
             y == established[h][g]
             s == x.session
             t == y.session
  <2>1. /\ History(H, drawn) /\ KeysUsedOnce(H) /\ CompletedBeforeAnswered(H)
        /\ AnsweredInTurn(H) /\ CompletedInTurn(H)
    BY <1>1 DEF NInv, History, Ordered
  <2>2. ConnSound(H, x, g, h) /\ ConnSound(H, y, h, g)
    BY <1>1 DEF NInv, Connections
  <2>3. /\ Completed(s, g, x.role, h) \in H /\ Completed(t, h, y.role, g) \in H
        /\ \A r \in H : r.host = g /\ r.peer = h => Own(r).k <= Own(x).k
        /\ \A r \in H : r.host = h /\ r.peer = g => Own(r).k <= Own(y).k
    BY <2>2 DEF ConnSound, Latest
  <2>4. Own(x) = (IF x.role = "initiator" THEN s.ei ELSE s.er)
        /\ Own(y) = (IF y.role = "initiator" THEN t.ei ELSE t.er)
    BY DEF Own
  <2> HIDE DEF H, x, y, s, t
  \* One of the sessions was dialled by its owner i, the other answered.
  <2>5. ASSUME NEW i, NEW p, NEW a, NEW b,
               Completed(a, i, "initiator", p) \in H,
               Completed(b, p, "responder", i) \in H,
               \A r \in H : r.host = i /\ r.peer = p => Own(r).k <= a.ei.k,
               \A r \in H : r.host = p /\ r.peer = i => Own(r).k <= b.er.k
        PROVE  a = b
    <3> DEFINE u == Completed(a, i, "initiator", p)
               v == Answered(a, p, i)
               w == Completed(b, i, "initiator", p)
    <3>1. /\ v \in H /\ a \in Sessions /\ a.ei.owner = i
          /\ a.ei.k \in Nat /\ a.er.k \in Nat
      BY <2>1, <2>5, BothEnds
    <3>2. /\ w \in H /\ b \in Sessions /\ b.ei.owner = i
          /\ b.ei.k \in Nat /\ b.er.k \in Nat
      BY <2>1, <2>5, BothEnds
    <3>3. /\ u.what = "completed" /\ u.host = i /\ Own(u) = a.ei /\ u.session = a
          /\ w.what = "completed" /\ w.host = i /\ Own(w) = b.ei /\ w.session = b
          /\ w.role = "initiator" /\ w.peer = p
          /\ v.what = "answered" /\ v.host = p /\ v.peer = i /\ v.session = a
          /\ Own(v) = a.er
      BY RecordFields DEF Completed, Answered
    <3> HIDE DEF u, v, w
    <3>4. b.ei.k <= a.ei.k /\ a.er.k <= b.er.k
      BY <2>5, <3>1, <3>2, <3>3
    <3>5. ~ (b.ei.k < a.ei.k)
      <4>1. Mutual(v, w)
        BY <3>3 DEF Mutual
      <4>2. b.ei.k < a.ei.k => b.er.k < a.er.k
        BY <2>1, <3>1, <3>2, <3>3, <4>1 DEF CompletedBeforeAnswered
      <4> QED
        BY <3>1, <3>2, <3>4, <4>2
    <3>6. b.ei = a.ei
      <4>1. b.ei.k = a.ei.k
        BY <3>1, <3>2, <3>4, <3>5
      <4>2. a.ei \in Keys /\ b.ei \in Keys
        BY <3>1, <3>2 DEF Sessions
      <4> QED
        BY <3>1, <3>2, <4>1, <4>2 DEF Keys
    <3>7. u = w
      BY <2>1, <2>5, <3>2, <3>3, <3>6 DEF KeysUsedOnce, u
    <3> QED
      BY <3>3, <3>7
  <2>6. x.role \in Roles /\ y.role \in Roles
    BY <2>1, <2>3, BothEnds
  <2>7. CASE x.role = "initiator" /\ y.role = "responder"
    BY <2>3, <2>4, <2>5, <2>7 DEF x, y, s, t
  <2>8. CASE x.role = "responder" /\ y.role = "initiator"
    BY <2>3, <2>4, <2>5, <2>8 DEF x, y, s, t
  <2>9. CASE x.role = "initiator" /\ y.role = "initiator"
    <3> DEFINE u == Answered(s, h, g)
               v == Answered(t, g, h)
    <3>1. u \in H /\ Dialled(s.ei, g, h) \in H /\ s.ei.k \in Nat /\ s.er.k \in Nat
      BY <2>1, <2>3, <2>9, BothEnds
    <3>2. v \in H /\ Dialled(t.ei, h, g) \in H /\ t.ei.k \in Nat /\ t.er.k \in Nat
      BY <2>1, <2>3, <2>9, BothEnds
    <3>3. /\ u.what = "answered" /\ u.host = h /\ u.peer = g /\ u.session = s
          /\ Own(u) = s.er
          /\ v.what = "answered" /\ v.host = g /\ v.peer = h /\ v.session = t
          /\ Own(v) = t.er
      BY RecordFields DEF Answered
    <3>4. s.er.k # t.ei.k /\ t.er.k # s.ei.k
      BY <2>1, <3>1, <3>2, KeysApart
    <3> HIDE DEF u, v
    <3>5. s.er.k <= t.ei.k /\ t.er.k <= s.ei.k
      BY <2>3, <2>4, <2>9, <3>1, <3>2, <3>3
    <3>6. Mutual(v, u)
      BY <3>3 DEF Mutual
    <3>7. s.er.k < t.ei.k => s.ei.k < t.er.k
      BY <2>1, <3>1, <3>2, <3>3, <3>6 DEF AnsweredInTurn
    <3> QED
      BY <3>1, <3>2, <3>4, <3>5, <3>7
  <2>10. CASE x.role = "responder" /\ y.role = "responder"
    <3> DEFINE u == Completed(s, h, "initiator", g)
               v == Completed(t, g, "initiator", h)
    <3>1. /\ u \in H /\ Answered(s, g, h) \in H /\ Dialled(s.ei, h, g) \in H
          /\ s.ei.k \in Nat /\ s.er.k \in Nat
      BY <2>1, <2>3, <2>10, BothEnds
    <3>2. /\ v \in H /\ Answered(t, h, g) \in H /\ Dialled(t.ei, g, h) \in H
          /\ t.ei.k \in Nat /\ t.er.k \in Nat
      BY <2>1, <2>3, <2>10, BothEnds
    <3>3. /\ u.what = "completed" /\ u.host = h /\ u.peer = g /\ u.session = s
          /\ u.role = "initiator" /\ Own(u) = s.ei
          /\ v.what = "completed" /\ v.host = g /\ v.peer = h /\ v.session = t
          /\ v.role = "initiator" /\ Own(v) = t.ei
      BY RecordFields DEF Completed
    <3>4. s.er.k # t.ei.k /\ t.er.k # s.ei.k
      BY <2>1, <3>1, <3>2, KeysApart
    <3> HIDE DEF u, v
    <3>5. t.ei.k <= s.er.k /\ s.ei.k <= t.er.k
      BY <2>3, <2>4, <2>10, <3>1, <3>2, <3>3
    <3>6. Mutual(u, v)
      BY <3>3 DEF Mutual
    <3>7. ~ (t.ei.k < s.er.k /\ s.ei.k < t.er.k)
      BY <2>1, <3>1, <3>2, <3>3, <3>6 DEF CompletedInTurn
    <3> QED
      BY <3>1, <3>2, <3>4, <3>5, <3>7
  <2> QED
    BY <2>6, <2>7, <2>8, <2>9, <2>10 DEF Roles
<1>2. NInv => MutualConnectionsAgree
  BY <1>1 DEF MutualConnectionsAgree
<1> QED
  BY <1>2, NInvHolds, PTL

=============================================================================
