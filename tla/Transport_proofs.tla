-------------------------- MODULE Transport_proofs --------------------------
(***************************************************************************)
(* Proofs about the layers between a datagram and a caller: sessions       *)
(* (NoiseTransport), for every window width and every largest nonce; the   *)
(* tables of a Host, for any set of addresses and any capacities, which    *)
(* stay disjoint and bounded, are not changed by rejected datagrams and    *)
(* lose entries only for cause; and RPC over a Host (Rpc), for any nodes,  *)
(* RequestIds and number of calls: the answer a call returns is its own.   *)
(***************************************************************************)
EXTENDS NoiseTransport, Host, Rpc, FiniteSetTheorems, WellFoundedInduction,
        TLAPS

-----------------------------------------------------------------------------
(* A session: the inductive invariant                                      *)

\* Which nonces a receiver has accepted is what its window says, as far as
\* the window reaches; nothing newer than recv_max_nonce was accepted.
WindowTracksDelivered ==
  \A e \in Ends, m \in Messages :
    /\ delivered[e][m] <= 1
    /\ m > recv_max_nonce[e] => delivered[e][m] = 0
    /\ m <= recv_max_nonce[e] /\ recv_max_nonce[e] - m < WindowBits =>
         ( recv_max_nonce[e] - m \in recv_replay_window[e]
           <=> delivered[e][m] = 1 )

\* Message k of an end travels under nonce k.
WireTracksSent ==
  /\ \A e \in Ends : sent[e] = send_nonce[e]
  /\ \A d \in wire : d.msg = d.nonce /\ d.nonce < send_nonce[d.key]

\* The inductive invariant.
IInv ==
  /\ SessionTypeOK
  /\ WireTracksSent
  /\ WindowTracksDelivered
  /\ OnlySentDelivered

-----------------------------------------------------------------------------

LEMMA PeerType ==
  \A e \in Ends : Peer(e) \in Ends /\ Peer(e) # e /\ Peer(Peer(e)) = e
BY DEF Ends, Peer

\* What advance_window computes: the new maximum, and a window that holds
\* the incoming nonce and whatever the old one held that is still in reach.
LEMMA AdvanceWindow ==
  ASSUME NEW window \in SUBSET Bits, NEW max \in Nat, NEW n \in Nat,
         nonce_acceptable(window, max, n)
  PROVE  LET next == advance_window(window, max, n)
         IN /\ next[1] \in SUBSET Bits
            /\ next[2] = IF n > max THEN n ELSE max
            /\ \A m \in Nat :
                 m <= next[2] /\ next[2] - m < WindowBits =>
                   ( next[2] - m \in next[1]
                     <=> \/ m = n
                         \/ /\ m <= max
                            /\ max - m < WindowBits
                            /\ max - m \in window )
<1> USE WindowBitsAssumption
<1>1. CASE n > max /\ n - max >= WindowBits
  <2>1. advance_window(window, max, n) = << {0}, n >>
    BY <1>1 DEF advance_window
  <2>2. 0 \in Bits
    BY DEF Bits
  <2> QED
    BY <1>1, <2>1, <2>2
<1>2. CASE n > max /\ ~(n - max >= WindowBits)
  <2>1. advance_window(window, max, n)
          = << ShiftLeft(window, n - max) \cup {0}, n >>
    BY <1>2 DEF advance_window
  <2>2. ShiftLeft(window, n - max) \cup {0} \in SUBSET Bits
    BY DEF Bits, ShiftLeft
  <2>3. ASSUME NEW m \in Nat, m <= n, n - m < WindowBits
        PROVE  n - m \in ShiftLeft(window, n - max) \cup {0}
               <=> \/ m = n
                   \/ m <= max /\ max - m < WindowBits /\ max - m \in window
    <3>1. n - m \in Bits
      BY <2>3 DEF Bits
    <3>2. n - m \in ShiftLeft(window, n - max)
          <=> m <= max /\ max - m \in window
      <4>1. (n - m) - (n - max) = max - m
        OBVIOUS
      <4>2. n - m >= n - max <=> m <= max
        OBVIOUS
      <4> QED
        BY <3>1, <4>1, <4>2 DEF ShiftLeft
    <3>3. m <= max => max - m < WindowBits
      BY <2>3, <1>2
    <3>4. n - m = 0 <=> m = n
      OBVIOUS
    <3> QED
      BY <3>2, <3>3, <3>4
  <2> QED
    BY <1>2, <2>1, <2>2, <2>3
<1>3. CASE ~(n > max)
  <2>1. advance_window(window, max, n) = << window \cup {max - n}, max >>
    BY <1>3 DEF advance_window
  <2>2. max - n \in Bits
    BY <1>3 DEF nonce_acceptable, Bits
  <2>3. \A m \in Nat : m <= max => (max - m = max - n <=> m = n)
    BY <1>3
  <2> QED
    BY <1>3, <2>1, <2>2, <2>3
<1> QED
  BY <1>1, <1>2, <1>3

-----------------------------------------------------------------------------

LEMMA InitIInv == SessionInit => IInv
<1> SUFFICES ASSUME SessionInit PROVE IInv
  OBVIOUS
<1> USE WindowBitsAssumption, NonceMaxAssumption DEF SessionInit
<1>1. SessionTypeOK
  BY DEF SessionTypeOK, Nonces, Messages, Bits
<1>2. WireTracksSent
  BY DEF WireTracksSent
<1>3. WindowTracksDelivered
  BY DEF WindowTracksDelivered, Messages
<1>4. OnlySentDelivered
  BY PeerType DEF OnlySentDelivered
<1> QED
  BY <1>1, <1>2, <1>3, <1>4 DEF IInv

\* Sealing a datagram preserves the invariant.
LEMMA EncryptIInv ==
  ASSUME IInv, NEW e \in Ends, encrypt(e)
  PROVE  IInv'
<1> USE NonceMaxAssumption
<1>1. CASE send_nonce[e] < NonceMax
  <2>1. /\ wire' = wire \cup {Datagram(e, send_nonce[e], sent[e])}
        /\ sent' = [sent EXCEPT ![e] = @ + 1]
        /\ send_nonce' = [send_nonce EXCEPT ![e] = @ + 1]
        /\ UNCHANGED << alive, recv_max_nonce, recv_replay_window,
                        delivered >>
    BY <1>1 DEF encrypt, send_key
  <2>2. /\ sent[e] = send_nonce[e]
        /\ send_nonce[e] \in Nonces
        /\ send_nonce[e] + 1 \in Nonces
    BY <1>1 DEF IInv, SessionTypeOK, WireTracksSent, Nonces
  <2> DEFINE new == Datagram(e, send_nonce[e], sent[e])
  <2>3. /\ new \in [full : {TRUE}, key : Ends, nonce : Nonces, msg : Messages]
        /\ new.key = e /\ new.nonce = send_nonce[e] /\ new.msg = sent[e]
    BY <2>2 DEF Datagram, Nonces, Messages
  <2>4. send_nonce' \in [Ends -> Nonces] /\ sent' \in [Ends -> Nat]
    BY <2>1, <2>2 DEF IInv, SessionTypeOK
  <2>5. wire' = wire \cup {new}
    BY <2>1
  <2> HIDE DEF new
  <2>6. SessionTypeOK'
    BY <2>1, <2>3, <2>4, <2>5 DEF IInv, SessionTypeOK
  <2>7. WireTracksSent'
    <3>1. \A f \in Ends : sent'[f] = send_nonce'[f]
      BY <2>1 DEF IInv, SessionTypeOK, WireTracksSent
    <3>2. ASSUME NEW d \in wire
          PROVE  d.msg = d.nonce /\ d.nonce < send_nonce'[d.key]
      <4>1. d.key \in Ends /\ d.nonce \in Nonces
            /\ d.msg = d.nonce /\ d.nonce < send_nonce[d.key]
        BY DEF IInv, SessionTypeOK, WireTracksSent
      <4> QED
        BY <2>1, <4>1 DEF IInv, SessionTypeOK, Nonces
    <3>3. new.msg = new.nonce /\ new.nonce < send_nonce'[new.key]
      BY <2>1, <2>2, <2>3 DEF IInv, SessionTypeOK, Nonces
    <3> QED
      BY <3>1, <3>2, <3>3, <2>5 DEF WireTracksSent
  <2>8. WindowTracksDelivered'
    BY <2>1 DEF IInv, WindowTracksDelivered
  <2>9. \A f \in Ends : sent[f] <= sent'[f]
    BY <2>1 DEF IInv, SessionTypeOK
  <2>10. OnlySentDelivered'
    <3>1. ASSUME NEW f \in Ends, NEW m \in Messages, delivered[f][m] > 0
          PROVE  m < sent'[Peer(f)]
      <4>1. m < sent[Peer(f)]
        BY <3>1 DEF IInv, OnlySentDelivered
      <4>2. sent[Peer(f)] <= sent'[Peer(f)]
        BY <2>9, PeerType
      <4>3. sent[Peer(f)] \in Nat /\ sent'[Peer(f)] \in Nat
        BY <2>4, PeerType DEF IInv, SessionTypeOK
      <4>4. m \in Int
        BY DEF Messages
      <4> QED
        BY <4>1, <4>2, <4>3, <4>4
    <3>2. delivered' = delivered
      BY <2>1
    <3> QED
      BY <3>1, <3>2 DEF OnlySentDelivered
  <2> QED
    BY <2>6, <2>7, <2>8, <2>10 DEF IInv
<1>2. CASE ~(send_nonce[e] < NonceMax)
  <2>1. /\ alive' = [alive EXCEPT ![e] = FALSE]
        /\ UNCHANGED << wire, sent, send_nonce, recv_max_nonce,
                        recv_replay_window, delivered >>
    BY <1>2 DEF encrypt
  <2> QED
    BY <2>1 DEF IInv, SessionTypeOK, WireTracksSent, WindowTracksDelivered,
                OnlySentDelivered
<1> QED
  BY <1>1, <1>2

\* What a successful decrypt is: a datagram of the peer, never delivered
\* before, whose message the peer has sent.
LEMMA AcceptedIsFresh ==
  ASSUME IInv, NEW e \in Ends, NEW d \in wire \cup Foreign,
         decrypt_checked(e, d)
  PROVE  /\ d \in wire
         /\ d.key = Peer(e)
         /\ d.msg = d.nonce
         /\ d.nonce \in Nonces
         /\ d.msg \in Messages
         /\ d.msg < sent[Peer(e)]
         /\ delivered[e][d.msg] = 0
<1> USE NonceMaxAssumption, WindowBitsAssumption
<1>1. d.key = Peer(e) /\ d \in wire
  BY PeerType DEF decrypt_checked, recv_key, Foreign, Ends
<1>2. d.msg = d.nonce /\ d.nonce \in Nonces /\ d.msg \in Messages
      /\ d.msg < sent[Peer(e)]
  BY <1>1, PeerType DEF IInv, SessionTypeOK, WireTracksSent
<1>3. nonce_acceptable(recv_replay_window[e], recv_max_nonce[e], d.nonce)
  BY DEF decrypt_checked
<1>4. delivered[e][d.msg] \in Nat /\ delivered[e][d.msg] <= 1
      /\ recv_max_nonce[e] \in Nat
  BY <1>2 DEF IInv, SessionTypeOK, WindowTracksDelivered, Nonces
<1>5. delivered[e][d.msg] = 0
  BY <1>2, <1>3, <1>4 DEF IInv, WindowTracksDelivered, nonce_acceptable,
     Nonces
<1> QED
  BY <1>1, <1>2, <1>5

\* Receiving a datagram preserves the invariant.
LEMMA DecryptIInv ==
  ASSUME IInv, NEW e \in Ends, NEW d \in wire \cup Foreign, decrypt(e, d)
  PROVE  IInv'
<1> USE NonceMaxAssumption, WindowBitsAssumption
<1>1. CASE decrypt_checked(e, d)
  <2> DEFINE win == recv_replay_window[e]
             max == recv_max_nonce[e]
             next == advance_window(win, max, d.nonce)
  <2>1. /\ recv_replay_window' = [recv_replay_window EXCEPT ![e] = next[1]]
        /\ recv_max_nonce' = [recv_max_nonce EXCEPT ![e] = next[2]]
        /\ delivered' = [delivered EXCEPT ![e][d.msg] = @ + 1]
        /\ UNCHANGED << send_nonce, wire, sent, alive >>
    BY <1>1 DEF decrypt
  <2>2. /\ d.msg = d.nonce
        /\ d.nonce \in Nonces
        /\ d.msg \in Messages
        /\ d.msg < sent[Peer(e)]
        /\ delivered[e][d.msg] = 0
    BY <1>1, AcceptedIsFresh
  <2>3. win \in SUBSET Bits /\ max \in Nonces /\ max \in Nat
        /\ d.nonce \in Nat /\ d.nonce <= NonceMax
    BY <2>2 DEF IInv, SessionTypeOK, Nonces
  <2>4. nonce_acceptable(win, max, d.nonce)
    BY <1>1 DEF decrypt_checked
  <2> HIDE DEF win, max, next
  <2>5. /\ next[1] \in SUBSET Bits
        /\ next[2] = IF d.nonce > max THEN d.nonce ELSE max
        /\ \A m \in Nat :
             m <= next[2] /\ next[2] - m < WindowBits =>
               ( next[2] - m \in next[1]
                 <=> \/ m = d.nonce
                     \/ /\ m <= max
                        /\ max - m < WindowBits
                        /\ max - m \in win )
    BY <2>3, <2>4, AdvanceWindow DEF next
  <2>6. next[2] \in Nonces /\ max <= next[2]
    BY <2>2, <2>3, <2>5 DEF Nonces
  <2>7. SessionTypeOK'
    <3>1. delivered' \in [Ends -> [Messages -> Nat]]
      BY <2>1, <2>2 DEF IInv, SessionTypeOK
    <3> QED
      BY <2>1, <2>5, <2>6, <3>1 DEF IInv, SessionTypeOK
  <2>8. WireTracksSent'
    BY <2>1 DEF IInv, WireTracksSent
  <2>9. WindowTracksDelivered'
    <3> SUFFICES ASSUME NEW f \in Ends, NEW m \in Messages
        PROVE  /\ delivered'[f][m] <= 1
               /\ m > recv_max_nonce'[f] => delivered'[f][m] = 0
               /\ m <= recv_max_nonce'[f]
                  /\ recv_max_nonce'[f] - m < WindowBits =>
                    ( recv_max_nonce'[f] - m \in recv_replay_window'[f]
                      <=> delivered'[f][m] = 1 )
      BY DEF WindowTracksDelivered
    <3>1. CASE f # e
      <4>1. /\ recv_max_nonce'[f] = recv_max_nonce[f]
            /\ recv_replay_window'[f] = recv_replay_window[f]
            /\ delivered'[f][m] = delivered[f][m]
        BY <3>1, <2>1 DEF IInv, SessionTypeOK
      <4> QED
        BY <4>1 DEF IInv, WindowTracksDelivered
    <3>2. CASE f = e
      <4>1. /\ recv_max_nonce'[f] = next[2]
            /\ recv_replay_window'[f] = next[1]
            /\ delivered'[f][m] = IF m = d.nonce THEN 1 ELSE delivered[e][m]
        BY <3>2, <2>1, <2>2 DEF IInv, SessionTypeOK
      <4>2. /\ delivered[e][m] <= 1
            /\ m > max => delivered[e][m] = 0
            /\ m <= max /\ max - m < WindowBits =>
                 (max - m \in win <=> delivered[e][m] = 1)
        BY DEF IInv, WindowTracksDelivered, win, max
      <4>3. m \in Nat
        BY DEF Messages
      <4>4. m > next[2] => m # d.nonce /\ m > max
        BY <4>3, <2>3, <2>5
      <4>5. m > recv_max_nonce'[f] => delivered'[f][m] = 0
        BY <4>1, <4>2, <4>4
      <4>6. ASSUME m <= next[2], next[2] - m < WindowBits
            PROVE  next[2] - m \in next[1] <=> delivered'[f][m] = 1
        <5>1. m <= max => max - m < WindowBits
          BY <4>3, <4>6, <2>3, <2>5
        <5>2. m <= max \/ delivered[e][m] = 0
          BY <4>2, <4>3, <2>3
        <5> QED
          BY <4>1, <4>2, <4>3, <4>6, <5>1, <5>2, <2>5
      <4> QED
        BY <4>1, <4>2, <4>5, <4>6
    <3> QED
      BY <3>1, <3>2
  <2>10. OnlySentDelivered'
    BY <2>1, <2>2, PeerType DEF IInv, SessionTypeOK, OnlySentDelivered
  <2> QED
    BY <2>7, <2>8, <2>9, <2>10 DEF IInv
<1>2. CASE ~ decrypt_checked(e, d)
  <2>1. UNCHANGED session_vars
    BY <1>2 DEF decrypt, session_vars
  <2> QED
    BY <2>1 DEF IInv, SessionTypeOK, WireTracksSent, WindowTracksDelivered,
                OnlySentDelivered, session_vars
<1> QED
  BY <1>1, <1>2

\* The inductive invariant holds in every reachable state.
THEOREM IInvHolds == SessionSpec => []IInv
<1>1. SessionInit => IInv
  BY InitIInv
<1>2. IInv /\ [SessionNext]_session_vars => IInv'
  <2> SUFFICES ASSUME IInv, [SessionNext]_session_vars PROVE IInv'
    OBVIOUS
  <2>1. CASE \E e \in Ends : encrypt(e)
    BY <2>1, EncryptIInv
  <2>2. CASE \E e \in Ends : \E d \in wire \cup Foreign : decrypt(e, d)
    BY <2>2, DecryptIInv
  <2>3. CASE UNCHANGED session_vars
    BY <2>3 DEF IInv, SessionTypeOK, WireTracksSent, WindowTracksDelivered,
                OnlySentDelivered, session_vars
  <2> QED
    BY <2>1, <2>2, <2>3 DEF SessionNext
<1> QED
  BY <1>1, <1>2, PTL DEF SessionSpec

\* TransportState keeps its type: every counter stays in the range of a u64,
\* the window in its WindowBits bits.
THEOREM TypeCorrect == SessionSpec => []SessionTypeOK
BY IInvHolds, PTL DEF IInv

\* No end ever seals two datagrams with one nonce (encrypt), not even when
\* its counter is exhausted.
THEOREM NonceUniqueHolds == SessionSpec => []NonceUnique
<1>1. IInv => NonceUnique
  <2> SUFFICES ASSUME IInv, NEW d1 \in wire, NEW d2 \in wire,
                      d1.key = d2.key, d1.nonce = d2.nonce
               PROVE  d1 = d2
    BY DEF NonceUnique
  <2>1. d1.msg = d2.msg
    BY DEF IInv, WireTracksSent
  <2>2. \A d \in wire :
          d = [full |-> TRUE, key |-> d.key, nonce |-> d.nonce,
               msg |-> d.msg]
    <3> SUFFICES ASSUME NEW d \in wire
                 PROVE  d = [full |-> TRUE, key |-> d.key, nonce |-> d.nonce,
                             msg |-> d.msg]
      OBVIOUS
    <3>1. d \in [full : {TRUE}, key : Ends, nonce : Nonces, msg : Messages]
      BY DEF IInv, SessionTypeOK
    <3> QED
      BY <3>1
  <2> QED
    BY <2>1, <2>2
<1> QED
  BY <1>1, IInvHolds, PTL

\* decrypt hands up no message twice, on any path.
THEOREM AtMostOnceHolds == SessionSpec => []AtMostOnce
<1>1. IInv => AtMostOnce
  BY DEF IInv, WindowTracksDelivered, AtMostOnce
<1> QED
  BY <1>1, IInvHolds, PTL

\* decrypt hands up only what the peer sealed.
THEOREM OnlySentDeliveredHolds == SessionSpec => []OnlySentDelivered
BY IInvHolds, PTL DEF IInv

\* The replay check refuses exactly the delivered and the too old.
THEOREM ReplayCheckExactHolds == SessionSpec => []ReplayCheckExact
<1>1. IInv => ReplayCheckExact
  <2> SUFFICES ASSUME IInv, NEW e \in Ends, NEW d \in wire, d.key = Peer(e)
               PROVE  nonce_acceptable(recv_replay_window[e],
                                       recv_max_nonce[e], d.nonce)
                      <=> /\ delivered[e][d.msg] = 0
                          /\ recv_max_nonce[e] < d.nonce + WindowBits
    BY DEF ReplayCheckExact
  <2> USE NonceMaxAssumption, WindowBitsAssumption
  <2>1. d.msg = d.nonce /\ d.nonce \in Messages /\ d.nonce \in Nat
    <3>1. d.msg = d.nonce /\ d.msg \in Messages
      BY DEF IInv, SessionTypeOK, WireTracksSent
    <3> QED
      BY <3>1 DEF Messages
  <2>2. recv_max_nonce[e] \in Nat /\ delivered[e][d.msg] \in Nat
    BY <2>1 DEF IInv, SessionTypeOK, Nonces
  <2>3. /\ delivered[e][d.nonce] <= 1
        /\ d.nonce > recv_max_nonce[e] => delivered[e][d.nonce] = 0
        /\ d.nonce <= recv_max_nonce[e]
           /\ recv_max_nonce[e] - d.nonce < WindowBits =>
             ( recv_max_nonce[e] - d.nonce \in recv_replay_window[e]
               <=> delivered[e][d.nonce] = 1 )
    BY <2>1 DEF IInv, WindowTracksDelivered
  <2>4. CASE d.nonce > recv_max_nonce[e]
    BY <2>1, <2>2, <2>3, <2>4 DEF nonce_acceptable
  <2>5. CASE ~(d.nonce > recv_max_nonce[e])
    <3>1. recv_max_nonce[e] - d.nonce < WindowBits
          <=> recv_max_nonce[e] < d.nonce + WindowBits
      BY <2>1, <2>2, <2>5
    <3> QED
      BY <2>1, <2>2, <2>3, <2>5, <3>1 DEF nonce_acceptable
  <2> QED
    BY <2>4, <2>5
<1> QED
  BY <1>1, IInvHolds, PTL

\* What the window refuses it refuses for good.
THEOREM RefusedForGoodHolds == SessionSpec => RefusedForGood
<1> DEFINE Refused(e, n) ==
      ~ nonce_acceptable(recv_replay_window[e], recv_max_nonce[e], n)
<1>1. IInv /\ [SessionNext]_session_vars => [RefusalKept]_session_vars
  <2> SUFFICES ASSUME IInv, [SessionNext]_session_vars, NEW f \in Ends, NEW n \in Nonces,
                      Refused(f, n)
               PROVE  Refused(f, n)'
    BY DEF RefusalKept
  <2>1. CASE UNCHANGED << recv_replay_window, recv_max_nonce >>
    BY <2>1
  <2>2. ASSUME NEW e \in Ends, NEW d \in wire \cup Foreign,
               decrypt(e, d), decrypt_checked(e, d)
        PROVE  Refused(f, n)'
    <3> DEFINE win == recv_replay_window[e]
               max == recv_max_nonce[e]
               next == advance_window(win, max, d.nonce)
    <3>1. /\ recv_replay_window' = [recv_replay_window EXCEPT ![e] = next[1]]
          /\ recv_max_nonce' = [recv_max_nonce EXCEPT ![e] = next[2]]
      BY <2>2 DEF decrypt
    <3>2. CASE f # e
      BY <3>1, <3>2 DEF IInv, SessionTypeOK
    <3>3. CASE f = e
      <4>1. recv_replay_window'[f] = next[1] /\ recv_max_nonce'[f] = next[2]
        BY <3>1, <3>3 DEF IInv, SessionTypeOK
      <4>2. /\ win \in SUBSET Bits /\ max \in Nat /\ d.nonce \in Nat
            /\ nonce_acceptable(win, max, d.nonce)
        <5>1. d.nonce \in Nonces
          BY <2>2, AcceptedIsFresh
        <5>2. nonce_acceptable(win, max, d.nonce)
          BY <2>2 DEF decrypt_checked
        <5> QED
          BY <5>1, <5>2, NonceMaxAssumption DEF IInv, SessionTypeOK, Nonces
      <4>3. n \in Nat
        BY NonceMaxAssumption DEF Nonces
      <4> HIDE DEF next, win, max
      <4>4. /\ next[2] = IF d.nonce > max THEN d.nonce ELSE max
            /\ \A m \in Nat :
                 m <= next[2] /\ next[2] - m < WindowBits =>
                   ( next[2] - m \in next[1]
                     <=> \/ m = d.nonce
                         \/ /\ m <= max
                            /\ max - m < WindowBits
                            /\ max - m \in win )
        BY <4>2, AdvanceWindow DEF next
      <4>5. n <= max /\ (max - n < WindowBits => max - n \in win)
        BY <3>3, <4>2, <4>3 DEF nonce_acceptable, win, max
      <4>6. n <= next[2] /\ max <= next[2] /\ next[2] \in Nat
        BY <4>2, <4>3, <4>4, <4>5
      <4>7. next[2] - n < WindowBits => next[2] - n \in next[1]
        <5>1. next[2] - n < WindowBits => max - n < WindowBits
          BY <4>2, <4>3, <4>5, <4>6, WindowBitsAssumption
        <5> QED
          BY <4>3, <4>4, <4>5, <4>6, <5>1
      <4> QED
        BY <4>1, <4>3, <4>6, <4>7 DEF nonce_acceptable
    <3> QED
      BY <3>2, <3>3
  <2> QED
    BY <2>1, <2>2 DEF SessionNext, session_vars, encrypt, decrypt
<1> QED
  BY <1>1, IInvHolds, PTL DEF SessionSpec, RefusedForGood

\* NoiseTransport implements AtMostOnceDelivery.
THEOREM ImplementsPromise == SessionSpec => PromiseSpec
<1>1. SessionInit => Promise!Init
  BY DEF SessionInit, Promise!Init
<1>2. IInv /\ [SessionNext]_session_vars => [Promise!Next]_(Promise!vars)
  <2> SUFFICES ASSUME IInv, [SessionNext]_session_vars
               PROVE  Promise!Next \/ UNCHANGED Promise!vars
    OBVIOUS
  <2>1. ASSUME NEW e \in Ends, encrypt(e)
        PROVE  Promise!Send(e) \/ UNCHANGED Promise!vars
    BY <2>1 DEF encrypt, Promise!Send, Promise!vars
  <2>2. ASSUME NEW e \in Ends, NEW d \in wire \cup Foreign, decrypt(e, d)
        PROVE  \/ \E m \in Messages : Promise!Deliver(e, m)
               \/ UNCHANGED Promise!vars
    <3>1. CASE decrypt_checked(e, d)
      <4>1. /\ d.msg \in Messages /\ d.msg < sent[Peer(e)]
            /\ delivered[e][d.msg] = 0
        BY <2>2, <3>1, AcceptedIsFresh
      <4>2. /\ delivered' = [delivered EXCEPT ![e][d.msg] = @ + 1]
            /\ UNCHANGED sent
        BY <2>2, <3>1 DEF decrypt
      <4>3. delivered' = [delivered EXCEPT ![e][d.msg] = 1]
        BY <4>1, <4>2 DEF IInv, SessionTypeOK
      <4> QED
        BY <4>1, <4>2, <4>3 DEF Promise!Deliver
    <3>2. CASE ~ decrypt_checked(e, d)
      BY <2>2, <3>2 DEF decrypt, Promise!vars
    <3> QED
      BY <3>1, <3>2
  <2>3. CASE UNCHANGED session_vars
    BY <2>3 DEF session_vars, Promise!vars
  <2> QED
    BY <2>1, <2>2, <2>3 DEF SessionNext, Promise!Next
<1> QED
  BY <1>1, <1>2, IInvHolds, PTL DEF SessionSpec, PromiseSpec, Promise!Spec

-----------------------------------------------------------------------------
(* The least recently used entry                                           *)

LEMMA NatMin ==
  ASSUME NEW T \in SUBSET Nat, T # {}
  PROVE  \E x \in T : \A y \in T : x <= y
<1>1. PICK x \in T : \A y \in T : ~ (<< y, x >> \in OpToRel(<, Nat))
  BY WFMin, NatLessThanWellFounded
<1>2. \A y \in T : ~ (y < x)
  BY <1>1 DEF OpToRel
<1>3. \A y \in T : x <= y
  BY <1>2
<1> QED
  BY <1>3

\* A table as the lemmas below need it.
Table(map) ==
  /\ DOMAIN map \subseteq Nat
  /\ IsFiniteSet(DOMAIN map)
  /\ \A a \in DOMAIN map : map[a].last_activity \in Nat

\* A nonempty table has a least recently used entry, and lru_addr finds it.
LEMMA LruExists ==
  ASSUME NEW map, Table(map), DOMAIN map # {}
  PROVE  IsLru(map, lru_addr(map))
<1> DEFINE T == {map[a].last_activity : a \in DOMAIN map}
<1>1. PICK t \in T : \A u \in T : t <= u
  <2>1. T \in SUBSET Nat /\ T # {}
    BY DEF Table
  <2> HIDE DEF T
  <2> QED
    BY <2>1, NatMin
<1> DEFINE U == {a \in DOMAIN map : map[a].last_activity = t}
<1>2. PICK a \in U : \A b \in U : a <= b
  <2>1. U \in SUBSET Nat /\ U # {}
    BY <1>1 DEF Table
  <2> HIDE DEF U
  <2> QED
    BY <2>1, NatMin
<1>3. IsLru(map, a)
  <2> SUFFICES ASSUME NEW b \in DOMAIN map
               PROVE \/ map[a].last_activity < map[b].last_activity
                     \/ map[a].last_activity = map[b].last_activity /\ a <= b
    BY <1>2 DEF IsLru
  <2>1. map[a].last_activity = t /\ t <= map[b].last_activity
    BY <1>1, <1>2
  <2>2. map[b].last_activity = t => a <= b
    BY <1>2
  <2>3. t \in Nat /\ map[b].last_activity \in Nat
    BY <1>1 DEF Table
  <2> QED
    BY <2>1, <2>2, <2>3
<1> QED
  BY <1>3 DEF lru_addr, IsLru

\* What inserting into a bounded table does: the new entry is there, the
\* others are as they were, the bound holds, and an entry that left was the
\* least recently used one of a full table that did not know addr.
InsertFacts(map, addr, entry, cap, r) ==
  /\ addr \in DOMAIN r
  /\ r[addr] = entry
  /\ DOMAIN r \subseteq DOMAIN map \cup {addr}
  /\ \A a \in DOMAIN r \ {addr} : a \in DOMAIN map /\ r[a] = map[a]
  /\ IsFiniteSet(DOMAIN r)
  /\ Size(r) <= cap
  /\ \A a \in DOMAIN map \ DOMAIN r :
       /\ addr \notin DOMAIN map
       /\ Size(map) = cap
       /\ IsLru(map, a)

LEMMA InsertWithLru ==
  ASSUME NEW map, Table(map), NEW addr \in Nat, NEW entry,
         NEW cap \in Nat \ {0}, Size(map) <= cap
  PROVE  InsertFacts(map, addr, entry, cap,
                     insert_with_lru(map, addr, entry, cap))
<1> DEFINE r == insert_with_lru(map, addr, entry, cap)
           v == lru_addr(map)
<1>1. IsFiniteSet(DOMAIN map) /\ Size(map) \in Nat
  BY FS_CardinalityType DEF Table, Size
<1>2. CASE addr \notin DOMAIN map /\ Size(map) >= cap
  <2>1. DOMAIN map # {}
    BY <1>1, <1>2, FS_EmptySet DEF Size
  <2>2. IsLru(map, v)
    BY <2>1, LruExists
  <2>3. v \in DOMAIN map
    BY <2>2 DEF IsLru
  <2>4. DOMAIN r = (DOMAIN map \ {v}) \cup {addr}
        /\ \A a \in DOMAIN r :
             r[a] = IF a = addr THEN entry ELSE map[a]
    BY <1>2 DEF insert_with_lru, Put, Remove, Restrict
  <2>5. IsFiniteSet(DOMAIN map \ {v})
        /\ Cardinality(DOMAIN map \ {v}) = Size(map) - 1
    BY <1>1, <2>3, FS_RemoveElement DEF Size
  <2>6. IsFiniteSet(DOMAIN r) /\ Size(r) = Size(map)
    BY <1>1, <1>2, <2>4, <2>5, FS_AddElement DEF Size
  <2> HIDE DEF r, v
  <2> QED
    BY <1>1, <1>2, <2>2, <2>3, <2>4, <2>6 DEF r, InsertFacts
<1>3. CASE ~(addr \notin DOMAIN map /\ Size(map) >= cap)
  <2>1. DOMAIN r = DOMAIN map \cup {addr}
        /\ \A a \in DOMAIN r :
             r[a] = IF a = addr THEN entry ELSE map[a]
    BY <1>3 DEF insert_with_lru, Put
  <2>2. IsFiniteSet(DOMAIN r) /\ Size(r) <= cap
    BY <1>1, <1>3, <2>1, FS_AddElement DEF Size
  <2> HIDE DEF r
  <2> QED
    BY <2>1, <2>2 DEF r, InsertFacts
<1> QED
  BY <1>2, <1>3

\* Removing an entry leaves the others as they were.
LEMMA RemoveEntry ==
  ASSUME NEW map, Table(map), NEW addr
  PROVE  LET r == Remove(map, addr)
         IN /\ DOMAIN r = DOMAIN map \ {addr}
            /\ \A a \in DOMAIN r : r[a] = map[a]
            /\ Table(r)
            /\ Size(r) = IF addr \in DOMAIN map THEN Size(map) - 1
                                                ELSE Size(map)
BY FS_RemoveElement DEF Remove, Restrict, Table, Size

-----------------------------------------------------------------------------
(* The inductive invariant                                                 *)

HInv ==
  /\ TypeOK
  /\ IsFiniteSet(DOMAIN handshakes)
  /\ IsFiniteSet(DOMAIN established)
  /\ Disjoint
  /\ WithinCapacity
  /\ ActivityUnique

LEMMA HInvTables ==
  ASSUME HInv
  PROVE  /\ Table(handshakes) /\ Table(established)
         /\ tick \in Nat
         /\ \A a \in DOMAIN handshakes :
              /\ handshakes[a].last_activity \in Nat
              /\ handshakes[a].last_activity <= tick
         /\ \A a \in DOMAIN established :
              /\ established[a].last_activity \in Nat
              /\ established[a].last_activity <= tick
<1>1. tick \in Nat
  BY BoundsAssumption DEF HInv, TypeOK
<1>2. \A a \in DOMAIN handshakes : handshakes[a].last_activity \in 0 .. tick
  BY DEF HInv, TypeOK
<1>3. \A a \in DOMAIN established : established[a].last_activity \in 0 .. tick
  BY DEF HInv, TypeOK
<1>4. DOMAIN handshakes \subseteq Nat /\ DOMAIN established \subseteq Nat
  BY AddrsAssumption DEF HInv, TypeOK
<1> QED
  BY <1>1, <1>2, <1>3, <1>4 DEF Table, HInv

\* Distinct entries, wherever they are, have distinct activities.
LEMMA ActivityUniqueByTable ==
  ASSUME Disjoint
  PROVE  ActivityUnique <=>
           /\ \A a, b \in DOMAIN handshakes :
                handshakes[a].last_activity = handshakes[b].last_activity
                => a = b
           /\ \A a, b \in DOMAIN established :
                established[a].last_activity = established[b].last_activity
                => a = b
           /\ \A a \in DOMAIN handshakes, b \in DOMAIN established :
                handshakes[a].last_activity # established[b].last_activity
BY DEF Disjoint, ActivityUnique, Known, Activity

\* A step that only drops entries, and lets the clock stand or tick,
\* preserves the invariant.
LEMMA ShrinkHInv ==
  ASSUME HInv,
         NEW H \in SUBSET DOMAIN handshakes,
         NEW E \in SUBSET DOMAIN established,
         handshakes' = Restrict(handshakes, H),
         established' = Restrict(established, E),
         tick' \in Nat, tick <= tick', tick' <= MaxTick,
         running' \in BOOLEAN
  PROVE  HInv'
<1>1. /\ DOMAIN handshakes' = H /\ DOMAIN established' = E
      /\ \A a \in H : handshakes'[a] = handshakes[a]
      /\ \A a \in E : established'[a] = established[a]
  BY DEF Restrict
<1>2. TypeOK'
  <2>1. \A a \in H :
          handshakes[a] \in [role : Roles, last_activity : 0 .. tick']
    BY HInvTables DEF HInv, TypeOK
  <2>2. \A a \in E : established[a] \in [last_activity : 0 .. tick']
    BY HInvTables DEF HInv, TypeOK
  <2>3. tick' \in 0 .. MaxTick
    BY BoundsAssumption
  <2> QED
    BY <1>1, <2>1, <2>2, <2>3 DEF Restrict, HInv, TypeOK
<1>3. IsFiniteSet(H) /\ IsFiniteSet(E)
      /\ Cardinality(H) <= Size(handshakes)
      /\ Cardinality(E) <= Size(established)
  BY FS_Subset DEF HInv, Size
<1>4. Disjoint'
  BY <1>1 DEF HInv, Disjoint
<1>5. WithinCapacity'
  <2>1. /\ Cardinality(H) \in Nat /\ Cardinality(E) \in Nat
        /\ Size(handshakes) \in Nat /\ Size(established) \in Nat
    BY <1>3, FS_CardinalityType DEF HInv, Size
  <2> QED
    BY <1>1, <1>3, <2>1, CapacityAssumption DEF HInv, WithinCapacity, Size
<1>6. ActivityUnique'
  <2>1. ActivityUnique /\ Disjoint
    BY DEF HInv
  <2> QED
    BY <1>1, <2>1 DEF Disjoint, ActivityUnique, Known, Activity
<1> QED
  BY <1>1, <1>2, <1>3, <1>4, <1>5, <1>6 DEF HInv

LEMMA RestrictAll ==
  ASSUME HInv
  PROVE  /\ handshakes = Restrict(handshakes, DOMAIN handshakes)
         /\ established = Restrict(established, DOMAIN established)
BY DEF HInv, TypeOK, Restrict

\* A new handshake, for an address the host does not know, preserves it.
LEMMA NewHandshakeHInv ==
  ASSUME HInv, tick < MaxTick,
         NEW addr \in Addrs, addr \notin Known, NEW role \in Roles,
         handshakes' = insert_with_lru(handshakes, addr,
                                       InFlight(role, tick + 1),
                                       max_handshakes_in_flight),
         tick' = tick + 1, UNCHANGED << established, running >>
  PROVE  HInv'
<1> DEFINE entry == InFlight(role, tick + 1)
<1>1. tick \in Nat /\ tick + 1 \in 0 .. MaxTick
  BY HInvTables, BoundsAssumption
<1>2. /\ addr \in DOMAIN handshakes'
      /\ handshakes'[addr] = entry
      /\ DOMAIN handshakes' \subseteq DOMAIN handshakes \cup {addr}
      /\ \A a \in DOMAIN handshakes' \ {addr} :
           a \in DOMAIN handshakes /\ handshakes'[a] = handshakes[a]
      /\ IsFiniteSet(DOMAIN handshakes')
      /\ Size(handshakes') <= max_handshakes_in_flight
  <2>1. /\ Table(handshakes) /\ addr \in Nat
        /\ max_handshakes_in_flight \in Nat \ {0}
        /\ Size(handshakes) <= max_handshakes_in_flight
    BY HInvTables, AddrsAssumption, CapacityAssumption
       DEF HInv, WithinCapacity
  <2>2. InsertFacts(handshakes, addr, entry, max_handshakes_in_flight,
                    handshakes')
    BY <2>1, InsertWithLru
  <2> QED
    BY <2>2 DEF InsertFacts
<1>3. entry \in [role : Roles, last_activity : 0 .. tick']
      /\ entry.last_activity = tick + 1
  BY <1>1 DEF InFlight
<1> HIDE DEF entry
<1>4. TypeOK'
  <2>1. \A a \in DOMAIN handshakes' :
          handshakes'[a] \in [role : Roles, last_activity : 0 .. tick']
    BY <1>1, <1>2, <1>3 DEF HInv, TypeOK
  <2>2. handshakes' = [a \in DOMAIN handshakes' |-> handshakes'[a]]
    BY DEF insert_with_lru, Put
  <2>3. established \in [DOMAIN established -> [last_activity : 0 .. tick']]
    BY <1>1 DEF HInv, TypeOK
  <2> QED
    BY <1>1, <1>2, <2>1, <2>2, <2>3 DEF HInv, TypeOK
<1>5. Disjoint'
  BY <1>2 DEF HInv, Disjoint, Known
<1>6. WithinCapacity'
  BY <1>2 DEF HInv, WithinCapacity
<1>7. ActivityUnique'
  <2>1. /\ \A a, b \in DOMAIN handshakes :
             handshakes[a].last_activity = handshakes[b].last_activity
             => a = b
        /\ \A a, b \in DOMAIN established :
             established[a].last_activity = established[b].last_activity
             => a = b
        /\ \A a \in DOMAIN handshakes, b \in DOMAIN established :
             handshakes[a].last_activity # established[b].last_activity
    BY ActivityUniqueByTable DEF HInv
  <2>2. /\ \A a \in DOMAIN handshakes :
             handshakes[a].last_activity # tick + 1
        /\ \A a \in DOMAIN established :
             established[a].last_activity # tick + 1
    BY HInvTables
  <2>3. (/\ \A a, b \in DOMAIN handshakes :
             handshakes[a].last_activity = handshakes[b].last_activity
             => a = b
         /\ \A a, b \in DOMAIN established :
             established[a].last_activity = established[b].last_activity
             => a = b
         /\ \A a \in DOMAIN handshakes, b \in DOMAIN established :
             handshakes[a].last_activity # established[b].last_activity)'
    BY <2>1, <2>2, <1>2, <1>3
  <2> QED
    BY <2>3, <1>5 DEF Disjoint, ActivityUnique, Known, Activity
<1> QED
  BY <1>2, <1>4, <1>5, <1>6, <1>7 DEF HInv

\* A completed handshake preserves it: the entry leaves one table and a new
\* one enters the other.
LEMMA EstablishHInv ==
  ASSUME HInv, tick < MaxTick, NEW from \in DOMAIN handshakes,
         handshakes' = Remove(handshakes, from),
         established' = insert_with_lru(established, from,
                                        Connection(tick + 1),
                                        max_established),
         tick' = tick + 1, UNCHANGED running
  PROVE  HInv'
<1> DEFINE conn == Connection(tick + 1)
<1>1. /\ tick \in Nat /\ tick + 1 \in 0 .. MaxTick
      /\ from \in Addrs /\ from \in Nat
  BY HInvTables, BoundsAssumption, AddrsAssumption DEF HInv, TypeOK
<1>2. /\ from \in DOMAIN established'
      /\ established'[from] = conn
      /\ DOMAIN established' \subseteq DOMAIN established \cup {from}
      /\ \A a \in DOMAIN established' \ {from} :
           a \in DOMAIN established /\ established'[a] = established[a]
      /\ IsFiniteSet(DOMAIN established')
      /\ Size(established') <= max_established
  <2>1. /\ Table(established)
        /\ max_established \in Nat \ {0}
        /\ Size(established) <= max_established
    BY HInvTables, CapacityAssumption DEF HInv, WithinCapacity
  <2>2. InsertFacts(established, from, conn, max_established, established')
    BY <1>1, <2>1, InsertWithLru
  <2> QED
    BY <2>2 DEF InsertFacts
<1>3. /\ DOMAIN handshakes' = DOMAIN handshakes \ {from}
      /\ \A a \in DOMAIN handshakes' : handshakes'[a] = handshakes[a]
      /\ IsFiniteSet(DOMAIN handshakes')
      /\ Size(handshakes') <= max_handshakes_in_flight
  <2>1. Table(handshakes) /\ Size(handshakes) <= max_handshakes_in_flight
        /\ Size(handshakes) \in Nat
    BY HInvTables, FS_CardinalityType DEF HInv, WithinCapacity, Size
  <2>2. /\ DOMAIN handshakes' = DOMAIN handshakes \ {from}
        /\ \A a \in DOMAIN handshakes' : handshakes'[a] = handshakes[a]
        /\ Table(handshakes')
        /\ Size(handshakes') = Size(handshakes) - 1
    BY <2>1, RemoveEntry
  <2> QED
    BY <2>1, <2>2, CapacityAssumption DEF Table
<1>4. conn \in [last_activity : 0 .. tick'] /\ conn.last_activity = tick + 1
  BY <1>1 DEF Connection
<1> HIDE DEF conn
<1>5. TypeOK'
  <2>1. \A a \in DOMAIN established' :
          established'[a] \in [last_activity : 0 .. tick']
    BY <1>1, <1>2, <1>4 DEF HInv, TypeOK
  <2>2. established' = [a \in DOMAIN established' |-> established'[a]]
    BY DEF insert_with_lru, Put
  <2>3. \A a \in DOMAIN handshakes' :
          handshakes'[a] \in [role : Roles, last_activity : 0 .. tick']
    BY <1>1, <1>3 DEF HInv, TypeOK
  <2>4. handshakes' = [a \in DOMAIN handshakes' |-> handshakes'[a]]
    BY DEF Remove, Restrict
  <2> QED
    BY <1>1, <1>2, <1>3, <2>1, <2>2, <2>3, <2>4 DEF HInv, TypeOK
<1>6. Disjoint'
  BY <1>2, <1>3 DEF HInv, Disjoint
<1>7. WithinCapacity'
  BY <1>2, <1>3 DEF WithinCapacity
<1>8. ActivityUnique'
  <2>1. /\ \A a, b \in DOMAIN handshakes :
             handshakes[a].last_activity = handshakes[b].last_activity
             => a = b
        /\ \A a, b \in DOMAIN established :
             established[a].last_activity = established[b].last_activity
             => a = b
        /\ \A a \in DOMAIN handshakes, b \in DOMAIN established :
             handshakes[a].last_activity # established[b].last_activity
    BY ActivityUniqueByTable DEF HInv
  <2>2. /\ \A a \in DOMAIN handshakes :
             handshakes[a].last_activity # tick + 1
        /\ \A a \in DOMAIN established :
             established[a].last_activity # tick + 1
    BY HInvTables
  <2>3. (/\ \A a, b \in DOMAIN handshakes :
             handshakes[a].last_activity = handshakes[b].last_activity
             => a = b
         /\ \A a, b \in DOMAIN established :
             established[a].last_activity = established[b].last_activity
             => a = b
         /\ \A a \in DOMAIN handshakes, b \in DOMAIN established :
             handshakes[a].last_activity # established[b].last_activity)'
    BY <2>1, <2>2, <1>2, <1>3, <1>4
  <2> QED
    BY <2>3, <1>6 DEF Disjoint, ActivityUnique, Known, Activity
<1> QED
  BY <1>2, <1>3, <1>5, <1>6, <1>7, <1>8 DEF HInv

\* So does a use of an established connection.
LEMMA TouchHInv ==
  ASSUME HInv, tick < MaxTick, NEW addr \in DOMAIN established,
         established' = Put(established, addr, Connection(tick + 1)),
         tick' = tick + 1, UNCHANGED << handshakes, running >>
  PROVE  HInv'
<1> DEFINE conn == Connection(tick + 1)
<1>1. tick \in Nat /\ tick + 1 \in 0 .. MaxTick
  BY HInvTables, BoundsAssumption
<1>2. /\ DOMAIN established' = DOMAIN established
      /\ \A a \in DOMAIN established :
           established'[a] = IF a = addr THEN conn ELSE established[a]
      /\ established' = [a \in DOMAIN established' |-> established'[a]]
  BY DEF Put
<1>3. conn \in [last_activity : 0 .. tick'] /\ conn.last_activity = tick + 1
  BY <1>1 DEF Connection
<1> HIDE DEF conn
<1>4. TypeOK'
  <2>1. \A a \in DOMAIN established' :
          established'[a] \in [last_activity : 0 .. tick']
    BY <1>1, <1>2, <1>3 DEF HInv, TypeOK
  <2>2. handshakes \in [DOMAIN handshakes ->
                          [role : Roles, last_activity : 0 .. tick']]
    BY <1>1 DEF HInv, TypeOK
  <2> QED
    BY <1>1, <1>2, <2>1, <2>2 DEF HInv, TypeOK
<1>5. Disjoint' /\ WithinCapacity'
  BY <1>2 DEF HInv, Disjoint, WithinCapacity, Size
<1>6. ActivityUnique'
  <2>1. /\ \A a, b \in DOMAIN handshakes :
             handshakes[a].last_activity = handshakes[b].last_activity
             => a = b
        /\ \A a, b \in DOMAIN established :
             established[a].last_activity = established[b].last_activity
             => a = b
        /\ \A a \in DOMAIN handshakes, b \in DOMAIN established :
             handshakes[a].last_activity # established[b].last_activity
    BY ActivityUniqueByTable DEF HInv
  <2>2. /\ \A a \in DOMAIN handshakes :
             handshakes[a].last_activity # tick + 1
        /\ \A a \in DOMAIN established :
             established[a].last_activity # tick + 1
    BY HInvTables
  <2>3. (/\ \A a, b \in DOMAIN handshakes :
             handshakes[a].last_activity = handshakes[b].last_activity
             => a = b
         /\ \A a, b \in DOMAIN established :
             established[a].last_activity = established[b].last_activity
             => a = b
         /\ \A a \in DOMAIN handshakes, b \in DOMAIN established :
             handshakes[a].last_activity # established[b].last_activity)'
    BY <2>1, <2>2, <1>2, <1>3
  <2> QED
    BY <2>3, <1>5 DEF Disjoint, ActivityUnique, Known, Activity
<1> QED
  BY <1>2, <1>4, <1>5, <1>6 DEF HInv

\* Putting an entry back where it was taken from evicts nobody.
LEMMA RestoreIsIdentity ==
  ASSUME HInv, NEW from \in DOMAIN handshakes
  PROVE  Restore(from, handshakes[from]) = handshakes
<1> DEFINE rest == Remove(handshakes, from)
<1>1. /\ DOMAIN rest = DOMAIN handshakes \ {from}
      /\ \A a \in DOMAIN rest : rest[a] = handshakes[a]
      /\ Size(rest) = Size(handshakes) - 1
  BY HInvTables, RemoveEntry
<1>2. Size(handshakes) \in Nat
      /\ Size(handshakes) <= max_handshakes_in_flight
  BY FS_CardinalityType DEF HInv, WithinCapacity, Size
<1>3. ~(Size(rest) >= max_handshakes_in_flight)
  BY <1>1, <1>2, CapacityAssumption
<1>4. Restore(from, handshakes[from]) = Put(rest, from, handshakes[from])
  BY <1>3 DEF Restore, insert_with_lru
<1> HIDE DEF rest
<1>5. Put(rest, from, handshakes[from])
        = [a \in DOMAIN handshakes |-> handshakes[a]]
  BY <1>1 DEF Put
<1> QED
  BY <1>4, <1>5 DEF HInv, TypeOK

\* A step that leaves both tables alone preserves the invariant.
LEMMA IdleHInv ==
  ASSUME HInv, UNCHANGED << handshakes, established >>,
         tick' = tick \/ (tick < MaxTick /\ tick' = tick + 1),
         running' \in BOOLEAN
  PROVE  HInv'
<1>1. tick \in Nat /\ tick <= MaxTick
  BY BoundsAssumption DEF HInv, TypeOK
<1>2. tick' \in Nat /\ tick <= tick' /\ tick' <= MaxTick
  BY <1>1, BoundsAssumption
<1> QED
  BY <1>2, RestrictAll, ShrinkHInv

\* Every way recv_one handles a datagram preserves the invariant.
LEMMA RecvHInv ==
  ASSUME HInv, running, tick < MaxTick, NEW from \in Addrs,
         NEW d \in Datagrams, recv_one(from, d)
  PROVE  HInv'
<1>1. CASE from \in DOMAIN established /\ decrypt_established(from, d)
  <2>1. CASE Decrypts(d)
    BY <1>1, <2>1, TouchHInv DEF decrypt_established, Tick
  <2>2. CASE ~ Decrypts(d)
    BY <1>1, <2>2, IdleHInv DEF decrypt_established, HInv, TypeOK
  <2> QED
    BY <2>1, <2>2
<1>2. CASE /\ from \notin DOMAIN established
           /\ from \in DOMAIN handshakes
           /\ advance_in_flight(from, d)
  <2>1. CASE answer_cookie_challenge(from)
    BY <1>2, <2>1, RestoreIsIdentity, IdleHInv
       DEF answer_cookie_challenge, HInv, TypeOK
  <2>2. CASE consume_final_message(from, d) /\ Advances(d)
    BY <1>2, <2>2, EstablishHInv DEF consume_final_message, Tick
  <2>3. CASE consume_final_message(from, d) /\ ~ Advances(d)
    BY <1>2, <2>3, RestoreIsIdentity, IdleHInv
       DEF consume_final_message, Tick, HInv, TypeOK
  <2> QED
    BY <1>2, <2>1, <2>2, <2>3 DEF advance_in_flight
<1>3. CASE /\ from \notin DOMAIN established
           /\ from \notin DOMAIN handshakes
           /\ try_responder_msg1(from, d)
  <2>1. CASE d.shape = "msg1_cookie" /\ d.genuine
    BY <1>3, <2>1, NewHandshakeHInv
       DEF try_responder_msg1, Tick, Known, Roles
  <2>2. CASE ~(d.shape = "msg1_cookie" /\ d.genuine)
    BY <1>3, <2>2, IdleHInv DEF try_responder_msg1, Tick, HInv, TypeOK
  <2> QED
    BY <2>1, <2>2
<1> QED
  BY <1>1, <1>2, <1>3 DEF recv_one

\* The inductive invariant of the host.
THEOREM HInvHolds == Spec => []HInv
<1>1. Init => HInv
  <2> SUFFICES ASSUME Init PROVE HInv
    OBVIOUS
  <2>1. DOMAIN handshakes = {} /\ DOMAIN established = {}
    BY DEF Init, EmptyTable
  <2>2. IsFiniteSet({}) /\ Cardinality({}) = 0
    BY FS_EmptySet
  <2>3. TypeOK
    BY <2>1, BoundsAssumption DEF Init, TypeOK, EmptyTable
  <2>4. WithinCapacity
    BY <2>1, <2>2, CapacityAssumption DEF WithinCapacity, Size
  <2>5. Disjoint /\ ActivityUnique
    BY <2>1 DEF Disjoint, ActivityUnique, Known
  <2> QED
    BY <2>1, <2>2, <2>3, <2>4, <2>5 DEF HInv
<1>2. HInv /\ [Next]_vars => HInv'
  <2> SUFFICES ASSUME HInv, [Next]_vars PROVE HInv'
    OBVIOUS
  <2>1. ASSUME NEW op, NEW addr, Fails(op, addr) PROVE HInv'
    BY <2>1, IdleHInv DEF Fails
  <2>2. ASSUME tick < MaxTick, NEW addr \in Addrs, dial(addr) PROVE HInv'
    <3>1. CASE addr \in Known
      BY <2>1, <2>2, <3>1 DEF dial, Known
    <3>2. CASE addr \notin Known
      BY <2>2, <3>2, NewHandshakeHInv DEF dial, Known, Tick, Roles
    <3> QED
      BY <3>1, <3>2
  <2>3. ASSUME tick < MaxTick, NEW addr \in Addrs, send(addr) PROVE HInv'
    <3>1. CASE addr \in DOMAIN established
      BY <2>3, <3>1, TouchHInv DEF send, Tick
    <3>2. CASE addr \notin DOMAIN established
      BY <2>1, <2>3, <3>2 DEF send
    <3> QED
      BY <3>1, <3>2
  <2>4. ASSUME tick < MaxTick, NEW addr \in Addrs, send_raw(addr) PROVE HInv'
    BY <2>4, IdleHInv DEF send_raw, Tick, HInv, TypeOK
  <2>5. ASSUME running, tick < MaxTick, NEW addr \in Addrs,
               NEW d \in Datagrams, recv_one(addr, d)
        PROVE  HInv'
    BY <2>5, RecvHInv
  <2>6. tick \in Nat /\ tick <= MaxTick /\ running \in BOOLEAN
    BY BoundsAssumption DEF HInv, TypeOK
  <2>7. ASSUME NEW addr \in Addrs, evict(addr) PROVE HInv'
    <3>1. /\ handshakes' = Restrict(handshakes, DOMAIN handshakes \ {addr})
          /\ established' = Restrict(established, DOMAIN established \ {addr})
          /\ tick' = tick /\ running' = running
      BY <2>7 DEF evict, Remove
    <3> QED
      BY <3>1, <2>6, ShrinkHInv
  <2>8. ASSUME NEW max_idle \in 0 .. MaxIdle, evict_idle(max_idle)
        PROVE  HInv'
    <3> DEFINE cutoff == saturating_sub(tick, max_idle)
               Kept(map) == {a \in DOMAIN map : map[a].last_activity >= cutoff}
    <3>1. /\ handshakes' = Restrict(handshakes, Kept(handshakes))
          /\ established' = Restrict(established, Kept(established))
          /\ tick' = tick /\ running' = running
      BY <2>8 DEF evict_idle, sweep_idle
    <3>2. /\ Kept(handshakes) \in SUBSET DOMAIN handshakes
          /\ Kept(established) \in SUBSET DOMAIN established
      OBVIOUS
    <3> HIDE DEF Kept
    <3> QED
      BY <3>1, <3>2, <2>6, ShrinkHInv
  <2>9. CASE UNCHANGED vars
    BY <2>6, <2>9, IdleHInv DEF vars
  <2> QED
    BY <2>1, <2>2, <2>3, <2>4, <2>5, <2>7, <2>8, <2>9 DEF Next
<1> QED
  BY <1>1, <1>2, PTL DEF Spec

\* The host's tables, their entries and its clock keep their types; no entry
\* is newer than the clock.
THEOREM HostTypeCorrect == Spec => []TypeOK
BY HInvHolds, PTL DEF HInv

\* No address is ever in both tables.
THEOREM DisjointHolds == Spec => []Disjoint
BY HInvHolds, PTL DEF HInv

\* No table ever outgrows its capacity, whatever datagrams arrive.
THEOREM WithinCapacityHolds == Spec => []WithinCapacity
BY HInvHolds, PTL DEF HInv

\* The least recently used entry is always unambiguous.
THEOREM ActivityUniqueHolds == Spec => []ActivityUnique
BY HInvHolds, PTL DEF HInv

\* Whatever arrives and whatever the application calls, the two tables of a
\* Host stay well formed, disjoint, within capacity and unambiguous in age.
THEOREM TablesSoundHolds == Spec => []TablesSound
<1>1. HInv => TablesSound
  BY DEF HInv, TablesSound
<1> QED
  BY <1>1, HInvHolds, PTL

\* A rejected datagram changes neither table.
THEOREM RejectedKeepsStateHolds == Spec => RejectedKeepsState
<1>1. HInv /\ [Next]_vars => [RejectionChangesNothing]_vars
  <2> SUFFICES ASSUME HInv, Next, event'.kind = "Rejected"
               PROVE  UNCHANGED << handshakes, established >>
    BY DEF RejectionChangesNothing
  <2>1. ASSUME NEW from \in Addrs, NEW d \in Datagrams, recv_one(from, d)
        PROVE  UNCHANGED << handshakes, established >>
    <3>1. CASE from \in DOMAIN established /\ decrypt_established(from, d)
      BY <3>1 DEF decrypt_established, Received, Event
    <3>2. CASE /\ from \in DOMAIN handshakes
               /\ advance_in_flight(from, d)
      BY <3>2, RestoreIsIdentity
         DEF advance_in_flight, answer_cookie_challenge,
             consume_final_message, Received, Event
    <3>3. CASE try_responder_msg1(from, d)
      BY <3>3 DEF try_responder_msg1, Received, Event
    <3> QED
      BY <2>1, <3>1, <3>2, <3>3 DEF recv_one
  <2>2. \A op, addr : ~ Fails(op, addr)
    BY DEF Fails, Event
  <2>3. \A addr : ~ dial(addr)
    BY <2>2 DEF dial, Event
  <2>4. \A addr : ~ send(addr)
    BY <2>2 DEF send, Event
  <2>5. \A addr : ~ send_raw(addr) /\ ~ evict(addr)
    BY DEF send_raw, evict, Event
  <2>6. \A max_idle : ~ evict_idle(max_idle)
    BY DEF evict_idle, Event
  <2> QED
    BY <2>1, <2>2, <2>3, <2>4, <2>5, <2>6 DEF Next
<1> QED
  BY <1>1, HInvHolds, PTL DEF Spec, RejectedKeepsState

\* Losing the least recently used entry of a full table is the loss that
\* LossExplained speaks of.
LEMMA LruIsLeastRecent ==
  ASSUME NEW map, Table(map), NEW a, IsLru(map, a),
         NEW cap, Size(map) = cap
  PROVE  LeastRecent(map, a, cap)
BY DEF Table, IsLru, LeastRecent

LEMMA NewHandshakeLoss ==
  ASSUME HInv, NEW addr \in Addrs, addr \notin Known, NEW entry,
         handshakes' = insert_with_lru(handshakes, addr, entry,
                                       max_handshakes_in_flight),
         UNCHANGED established,
         event'.op \in {"dial", "recv_one"}, event'.addr = addr
  PROVE  LossExplained
<1>1. InsertFacts(handshakes, addr, entry, max_handshakes_in_flight,
                  handshakes')
  <2>1. /\ Table(handshakes) /\ addr \in Nat
        /\ max_handshakes_in_flight \in Nat \ {0}
        /\ Size(handshakes) <= max_handshakes_in_flight
    BY HInvTables, AddrsAssumption, CapacityAssumption
       DEF HInv, WithinCapacity
  <2> QED
    BY <2>1, InsertWithLru
<1> SUFFICES ASSUME NEW a \in Known \ Known'
             PROVE  LeastRecent(handshakes, a, max_handshakes_in_flight)
  BY DEF LossExplained
<1>2. a \in DOMAIN handshakes \ DOMAIN handshakes'
  BY DEF Known
<1>3. Size(handshakes) = max_handshakes_in_flight /\ IsLru(handshakes, a)
  BY <1>1, <1>2 DEF InsertFacts
<1> QED
  BY <1>3, HInvTables, LruIsLeastRecent

LEMMA EstablishLoss ==
  ASSUME HInv, NEW from \in DOMAIN handshakes, NEW conn,
         handshakes' = Remove(handshakes, from),
         established' = insert_with_lru(established, from, conn,
                                        max_established),
         event'.kind = "HandshakeComplete"
  PROVE  LossExplained
<1>1. InsertFacts(established, from, conn, max_established, established')
  <2>1. /\ Table(established) /\ from \in Nat
        /\ max_established \in Nat \ {0}
        /\ Size(established) <= max_established
    BY HInvTables, AddrsAssumption, CapacityAssumption
       DEF HInv, TypeOK, WithinCapacity
  <2> QED
    BY <2>1, InsertWithLru
<1>2. DOMAIN handshakes' = DOMAIN handshakes \ {from}
  BY DEF Remove, Restrict
<1> SUFFICES ASSUME NEW a \in Known \ Known'
             PROVE  LeastRecent(established, a, max_established)
  BY DEF LossExplained
<1>3. a \in DOMAIN established \ DOMAIN established'
  BY <1>1, <1>2 DEF Known, InsertFacts
<1>4. Size(established) = max_established /\ IsLru(established, a)
  BY <1>1, <1>3 DEF InsertFacts
<1> QED
  BY <1>4, HInvTables, LruIsLeastRecent

\* The host forgets an address only for cause.
THEOREM ForgetsOnlyForCauseHolds == Spec => ForgetsOnlyForCause
<1>1. HInv /\ [Next]_vars => [LossExplained]_vars
  <2> SUFFICES ASSUME HInv, Next PROVE LossExplained
    OBVIOUS
  <2>1. ASSUME Known \subseteq Known' PROVE LossExplained
    BY <2>1 DEF LossExplained
  <2>2. ASSUME NEW op, NEW addr, Fails(op, addr) PROVE LossExplained
    BY <2>1, <2>2 DEF Fails, Known
  <2>3. ASSUME NEW addr \in Addrs, dial(addr) PROVE LossExplained
    <3>1. CASE addr \in Known
      BY <2>2, <2>3, <3>1 DEF dial, Known
    <3>2. CASE addr \notin Known
      BY <2>3, <3>2, NewHandshakeLoss DEF dial, Known, Event
    <3> QED
      BY <3>1, <3>2
  <2>4. ASSUME NEW addr \in Addrs, send(addr) PROVE LossExplained
    <3>1. CASE addr \in DOMAIN established
      BY <2>1, <2>4, <3>1 DEF send, Put, Known
    <3>2. CASE addr \notin DOMAIN established
      BY <2>2, <2>4, <3>2 DEF send
    <3> QED
      BY <3>1, <3>2
  <2>5. ASSUME NEW addr \in Addrs, send_raw(addr) PROVE LossExplained
    BY <2>1, <2>5 DEF send_raw, Known
  <2>6. ASSUME NEW from \in Addrs, NEW d \in Datagrams, recv_one(from, d)
        PROVE  LossExplained
    <3>1. CASE from \in DOMAIN established /\ decrypt_established(from, d)
      BY <2>1, <3>1 DEF decrypt_established, Put, Known
    <3>2. CASE /\ from \in DOMAIN handshakes
               /\ advance_in_flight(from, d)
      <4>1. CASE consume_final_message(from, d) /\ Advances(d)
        BY <3>2, <4>1, EstablishLoss
           DEF consume_final_message, Received, Event
      <4>2. CASE consume_final_message(from, d) /\ ~ Advances(d)
        BY <2>1, <3>2, <4>2, RestoreIsIdentity
           DEF consume_final_message, Known
      <4>3. CASE answer_cookie_challenge(from)
        BY <2>1, <3>2, <4>3, RestoreIsIdentity
           DEF answer_cookie_challenge, Known
      <4> QED
        BY <3>2, <4>1, <4>2, <4>3 DEF advance_in_flight
    <3>3. CASE /\ from \notin DOMAIN established
               /\ from \notin DOMAIN handshakes
               /\ try_responder_msg1(from, d)
      <4>1. CASE d.shape = "msg1_cookie" /\ d.genuine
        BY <3>3, <4>1, NewHandshakeLoss
           DEF try_responder_msg1, Known, Received, Event
      <4>2. CASE ~(d.shape = "msg1_cookie" /\ d.genuine)
        BY <2>1, <3>3, <4>2 DEF try_responder_msg1, Known
      <4> QED
        BY <4>1, <4>2
    <3> QED
      BY <2>6, <3>1, <3>2, <3>3 DEF recv_one
  <2>7. ASSUME NEW addr \in Addrs, evict(addr) PROVE LossExplained
    <3>1. event'.op = "evict" /\ event'.addr = addr
          /\ DOMAIN handshakes' = DOMAIN handshakes \ {addr}
          /\ DOMAIN established' = DOMAIN established \ {addr}
      BY <2>7 DEF evict, Event, Remove, Restrict
    <3> QED
      BY <3>1 DEF LossExplained, Known
  <2>8. ASSUME NEW max_idle \in 0 .. MaxIdle, evict_idle(max_idle)
        PROVE  LossExplained
    <3> DEFINE cutoff == saturating_sub(tick, max_idle)
    <3>1. /\ event'.op = "evict_idle" /\ event'.idle = max_idle
          /\ DOMAIN handshakes' = {a \in DOMAIN handshakes :
                                     handshakes[a].last_activity >= cutoff}
          /\ DOMAIN established' = {a \in DOMAIN established :
                                      established[a].last_activity >= cutoff}
      BY <2>8 DEF evict_idle, Event, sweep_idle, Restrict
    <3> SUFFICES ASSUME NEW a \in Known \ Known'
                 PROVE  tick > Activity(a) + max_idle
      BY <3>1 DEF LossExplained
    <3>2. tick \in Nat /\ max_idle \in Nat /\ Activity(a) \in Nat
      BY HInvTables, BoundsAssumption DEF Known, Activity
    <3>3. ~(Activity(a) >= cutoff)
      BY <3>1 DEF Known, Activity
    <3> QED
      BY <3>2, <3>3 DEF saturating_sub
  <2> QED
    BY <2>2, <2>3, <2>4, <2>5, <2>6, <2>7, <2>8 DEF Next
<1> QED
  BY <1>1, HInvHolds, PTL DEF Spec, ForgetsOnlyForCause

-----------------------------------------------------------------------------
(* RPC: the inductive invariant                                            *)
(*                                                                         *)
(* Nothing in drain_for_rpc compares an answer with the request.  What     *)
(* makes it the right one is that at most one datagram is about a call,    *)
(* and that none is left when its caller is free to make another.          *)

Envelopes ==
  {e \in [op : {"none", "Request", "Response", "Error"}, id : Ids \cup {0},
          payload : (Nodes \X Nat) \cup {<< >>}] :
     e.op # "none" => e.payload \in Nodes \X Nat}

RpcDatagrams ==
  [src : Nodes, dst : Nodes, kind : {"RPC", "other", "none"}, body : Envelopes]

RpcTypeOK ==
  /\ state \in [Nodes -> {"free", "waiting", "lost"}]
  /\ peer \in [Nodes -> Nodes]
  /\ id \in [Nodes -> Ids \cup {0}]
  /\ calls \in [Nodes -> Nat]
  /\ returned \in [Nodes -> Envelopes]
  /\ net \subseteq RpcDatagrams

IsAnswer(d) == d.body.op \in {"Response", "Error"}

\* d is about the last call of n, which is not over.
About(d, n) ==
  /\ d.kind = "RPC"
  /\ d.body.payload = Call(n) /\ d.body.id = id[n]
  /\ state[n] # "free"

\* A request is on its way from the caller to the peer it called ...
RequestsCurrent ==
  \A d \in net : d.body.op = "Request" =>
    About(d, d.src) /\ d.dst = peer[d.src]

\* ... and an answer on its way back, from a server that handled the call.
AnswersCurrent ==
  \A d \in net : IsAnswer(d) =>
    /\ About(d, d.dst) /\ d.src = peer[d.dst]
    /\ << d.src, d.body.payload >> \in handled

\* A call has one datagram at most: the request, or the answer to it.
OneInFlight ==
  \A d, e \in net :
    /\ d.body.op # "none" /\ e.body.op # "none"
    /\ d.body.payload = e.body.payload
    => d = e

\* A request ends a call for good, with the Host of the caller.
RequestEnds ==
  \A n \in Nodes : returned[n].op = "Request" =>
    state[n] = "lost" /\ returned[n].payload[1] = peer[n]

RpcInv ==
  /\ RpcTypeOK
  /\ RequestsCurrent /\ AnswersCurrent /\ OneInFlight
  /\ RequestEnds /\ AnswerOwn

-----------------------------------------------------------------------------

LEMMA RpcInitInv == RpcInit => RpcInv
BY DEF RpcInit, RpcInv, RpcTypeOK, RequestsCurrent, AnswersCurrent,
       OneInFlight, RequestEnds, AnswerOwn, NoEnvelope, Envelope, Envelopes

\* Datagrams that leave the net disturb nothing that is said of the others.
LEMMA RpcRemoval ==
  ASSUME RpcInv, NEW d, net' = net \ {d},
         UNCHANGED << state, peer, id, calls, returned, handled >>
  PROVE  RpcInv'
<1>1. RpcTypeOK' /\ RequestEnds' /\ AnswerOwn'
  BY DEF RpcInv, RpcTypeOK, RequestEnds, AnswerOwn, Call
<1>2. RequestsCurrent' /\ AnswersCurrent' /\ OneInFlight'
  BY DEF RpcInv, RequestsCurrent, AnswersCurrent, OneInFlight, About,
         IsAnswer, Call
<1> QED
  BY <1>1, <1>2 DEF RpcInv

\* A free node has nothing in flight, so that its next call has the only
\* datagram about it.
LEMMA RpcSend ==
  ASSUME RpcInv, NEW n \in Nodes, NEW p \in Nodes \ {n}, NEW i \in Ids,
         send_request(n, p, i)
  PROVE  RpcInv'
<1> DEFINE new == RpcDatagram(n, p, "RPC",
                              Envelope("Request", i, << n, calls[n] + 1 >>))
<1> USE DEF RpcInv
<1>1. RpcTypeOK'
  <2>1. new \in RpcDatagrams
    BY DEF RpcTypeOK, RpcDatagrams, RpcDatagram, Envelope, Envelopes
  <2>2. NoEnvelope \in Envelopes
    BY DEF NoEnvelope, Envelope, Envelopes
  <2> HIDE DEF new
  <2>3. net' \subseteq net \cup {new}
    BY DEF send_request, new
  <2>4. state' \in [Nodes -> {"free", "waiting", "lost"}]
    BY DEF send_request, RpcTypeOK
  <2> QED
    BY <2>1, <2>2, <2>3, <2>4 DEF send_request, RpcTypeOK
<1>2. net' \subseteq net \cup {new}
  BY DEF send_request
<1>3. /\ new.src = n /\ new.dst = p /\ new.kind = "RPC"
      /\ new.body.op = "Request" /\ new.body.id = i
      /\ new.body.payload = << n, calls[n] + 1 >>
  BY DEF RpcDatagram, Envelope
<1>4. /\ Call(n)' = << n, calls[n] + 1 >>
      /\ peer'[n] = p /\ id'[n] = i /\ state'[n] # "free"
      /\ returned'[n] = NoEnvelope
      /\ \A m \in Nodes \ {n} :
           /\ Call(m)' = Call(m) /\ peer'[m] = peer[m] /\ id'[m] = id[m]
           /\ state'[m] = state[m] /\ returned'[m] = returned[m]
      /\ handled' = handled
  <2>1. \E x \in {"waiting", "lost"} : state' = [state EXCEPT ![n] = x]
    BY DEF send_request
  <2> QED
    BY <2>1 DEF send_request, RpcTypeOK, Call
<1>5. \A d \in net : /\ d.body.op = "Request" => d.src # n
                     /\ IsAnswer(d) => d.dst # n
  BY DEF RequestsCurrent, AnswersCurrent, About, send_request
<1>6. \A d \in net : d.src \in Nodes /\ d.dst \in Nodes
  BY DEF RpcTypeOK, RpcDatagrams
<1> HIDE DEF new
<1>7. RequestsCurrent' /\ AnswersCurrent'
  BY <1>2, <1>3, <1>4, <1>5, <1>6
     DEF RequestsCurrent, AnswersCurrent, About, IsAnswer
<1>8. \A d \in net : d.body.op # "none" => d.body.payload # new.body.payload
  <2> SUFFICES ASSUME NEW d \in net, d.body.op # "none"
               PROVE  d.body.payload # new.body.payload
    OBVIOUS
  <2>1. d.body.op = "Request" \/ IsAnswer(d)
    BY DEF RpcTypeOK, RpcDatagrams, Envelopes, IsAnswer
  <2>2. \E m \in Nodes \ {n} : d.body.payload = << m, calls[m] >>
    BY <1>5, <1>6, <2>1 DEF RequestsCurrent, AnswersCurrent, About, Call
  <2> QED
    BY <1>3, <2>2
<1>9. OneInFlight'
  BY <1>2, <1>8 DEF OneInFlight
<1>10. RequestEnds' /\ AnswerOwn'
  BY <1>4 DEF RequestEnds, AnswerOwn, NoEnvelope, Envelope, send_request
<1> QED
  BY <1>1, <1>7, <1>9, <1>10

\* An answer of the peer is about the call that waits for it.
LEMMA RpcReturn ==
  ASSUME RpcInv, NEW n \in Nodes, NEW d \in net, d.dst = n,
         state[n] = "waiting", d.src = peer[n], d.kind = "RPC", Return(n, d)
  PROVE  RpcInv'
<1> USE DEF RpcInv
<1>1. /\ RpcTypeOK' /\ net' = net \ {d}
      /\ UNCHANGED << peer, id, calls, handled >>
      /\ returned' = [returned EXCEPT ![n] = d.body]
      /\ \A m \in Nodes : Call(m)' = Call(m)
  BY DEF RpcTypeOK, Return, RpcDatagrams, Call
<1>2. \A m \in Nodes \ {n} : state'[m] = state[m] /\ returned'[m] = returned[m]
  BY <1>1 DEF Return, RpcTypeOK
<1>3. returned'[n] = d.body
  BY <1>1 DEF RpcTypeOK
<1>4. \A e \in net : e.src \in Nodes /\ e.dst \in Nodes
  BY DEF RpcTypeOK, RpcDatagrams
<1>5. CASE IsAnswer(d)
  <2>1. About(d, n) /\ << peer[n], Call(n) >> \in handled
    BY <1>5 DEF AnswersCurrent, About
  <2>2. \A e \in net' : /\ e.body.op = "Request" => e.src # n
                        /\ IsAnswer(e) => e.dst # n
    <3> SUFFICES ASSUME NEW e \in net, e # d,
                        \/ e.body.op = "Request" /\ e.src = n
                        \/ IsAnswer(e) /\ e.dst = n
                 PROVE  FALSE
      BY <1>1
    <3>1. e.body.payload = Call(n) /\ d.body.payload = Call(n)
      BY <2>1 DEF RequestsCurrent, AnswersCurrent, About
    <3> QED
      BY <1>5, <3>1 DEF OneInFlight, IsAnswer
  <2>3. RequestsCurrent' /\ AnswersCurrent'
    BY <1>1, <1>2, <1>4, <2>2
       DEF RequestsCurrent, AnswersCurrent, About, IsAnswer
  <2>4. RequestEnds'
    BY <1>1, <1>2, <1>3, <1>5 DEF RequestEnds, IsAnswer
  <2>5. AnswerOwn'
    BY <1>1, <1>2, <1>3, <1>5, <2>1 DEF AnswerOwn, About, IsAnswer
  <2> QED
    BY <1>1, <2>3, <2>4, <2>5 DEF OneInFlight
<1>6. CASE ~ IsAnswer(d)
  <2>1. state'[n] = "lost"
    BY <1>6 DEF Return, IsAnswer, RpcTypeOK
  <2>2. RequestsCurrent' /\ AnswersCurrent'
    BY <1>1, <1>2, <1>4, <2>1
       DEF RequestsCurrent, AnswersCurrent, About, IsAnswer
  <2>3. d.body.op = "Request" => d.body.payload[1] = peer[n]
    BY DEF RequestsCurrent, About, Call
  <2>4. RequestEnds'
    BY <1>1, <1>2, <1>3, <2>1, <2>3 DEF RequestEnds
  <2>5. AnswerOwn'
    BY <1>1, <1>2, <1>3, <1>6, <2>3 DEF AnswerOwn, IsAnswer
  <2> QED
    BY <1>1, <2>2, <2>4, <2>5 DEF OneInFlight
<1> QED
  BY <1>5, <1>6

\* The answer takes the place of the request.
LEMMA RpcDispatch ==
  ASSUME RpcInv, NEW n \in Nodes, NEW d \in net, d.dst = n,
         state[n] = "free", d.body.op = "Request", dispatch_request(n, d)
  PROVE  RpcInv'
<1> USE DEF RpcInv
<1>1. /\ UNCHANGED << peer, id, calls, returned >>
      /\ handled' = handled \cup {<< n, d.body.payload >>}
      /\ \A m \in Nodes : Call(m)' = Call(m)
      /\ \A m \in Nodes : state[m] # "free" => state'[m] = state[m]
  BY DEF dispatch_request, Call, RpcTypeOK
<1>2. \A e \in net : e.src \in Nodes /\ e.dst \in Nodes
  BY DEF RpcTypeOK, RpcDatagrams
<1>3. RequestEnds' /\ AnswerOwn'
  <2>1. RequestEnds'
    BY <1>1 DEF RequestEnds
  <2>2. \A m \in Nodes : state'[m] = "lost" => state[m] # "waiting"
    BY DEF dispatch_request, RpcTypeOK
  <2>3. AnswerOwn'
    BY <1>1, <2>2 DEF AnswerOwn, RequestEnds
  <2> QED
    BY <2>1, <2>3
<1>4. CASE net' = net \ {d}
  <2>1. RpcTypeOK'
    BY <1>4, <1>1 DEF RpcTypeOK, dispatch_request
  <2>2. RequestsCurrent' /\ AnswersCurrent'
    BY <1>1, <1>2, <1>4 DEF RequestsCurrent, AnswersCurrent, About, IsAnswer
  <2>3. OneInFlight'
    BY <1>4 DEF OneInFlight
  <2> QED
    BY <1>3, <2>1, <2>2, <2>3
<1>5. ASSUME NEW op \in {"Response", "Error"}, UNCHANGED state,
             net' = (net \ {d}) \cup
               {RpcDatagram(n, d.src, "RPC",
                            Envelope(op, d.body.id, d.body.payload))}
      PROVE  RpcInv'
  <2> DEFINE new == RpcDatagram(n, d.src, "RPC",
                                Envelope(op, d.body.id, d.body.payload))
  <2>1. /\ new.src = n /\ new.dst = d.src /\ new.kind = "RPC"
        /\ new.body.op = op /\ new.body.id = d.body.id
        /\ new.body.payload = d.body.payload
    BY DEF RpcDatagram, Envelope
  <2>2. new \in RpcDatagrams
    BY <1>2 DEF RpcDatagram, Envelope, RpcDatagrams, Envelopes, RpcTypeOK
  <2>3. net' = (net \ {d}) \cup {new}
    BY <1>5
  <2> HIDE DEF new
  <2>4. RpcTypeOK'
    BY <1>1, <1>5, <2>2, <2>3 DEF RpcTypeOK
  <2>5. About(d, d.src) /\ peer[d.src] = n
    BY DEF RequestsCurrent
  <2>6. RequestsCurrent'
    BY <1>1, <1>2, <1>5, <2>1, <2>3 DEF RequestsCurrent, About
  <2>7. AnswersCurrent'
    BY <1>1, <1>2, <1>5, <2>1, <2>3, <2>5 DEF AnswersCurrent, About, IsAnswer
  <2>8. OneInFlight'
    BY <2>1, <2>3 DEF OneInFlight
  <2> QED
    BY <1>3, <2>4, <2>6, <2>7, <2>8
<1> QED
  BY <1>4, <1>5 DEF dispatch_request

LEMMA RpcReceive ==
  ASSUME RpcInv, NEW n \in Nodes, serve_or_drain(n)
  PROVE  RpcInv'
<1>1. PICK d \in net : d.dst = n
                       /\ (handle_rpc_datagram(n, d) \/ drain_for_rpc(n, d))
  BY DEF serve_or_drain
<1>2. ASSUME handle_rpc_datagram(n, d) PROVE RpcInv'
  BY <1>1, <1>2, RpcDispatch, RpcRemoval DEF handle_rpc_datagram
<1>3. ASSUME drain_for_rpc(n, d) PROVE RpcInv'
  BY <1>1, <1>3, RpcReturn, RpcRemoval DEF drain_for_rpc, Absorb
<1> QED
  BY <1>1, <1>2, <1>3

LEMMA RpcOther ==
  ASSUME RpcInv, NEW n \in Nodes, NEW p \in Nodes,
         NEW kind \in {"RPC", "other", "none"}, SendOther(n, p, kind)
  PROVE  RpcInv'
<1> USE DEF RpcInv
<1> DEFINE new == RpcDatagram(n, p, kind, NoEnvelope)
<1>1. new \in RpcDatagrams /\ new.body.op = "none"
  BY DEF RpcDatagrams, RpcDatagram, NoEnvelope, Envelope, Envelopes
<1>2. /\ net' = net \cup {new}
      /\ UNCHANGED << state, peer, id, calls, returned, handled >>
  BY DEF SendOther
<1> HIDE DEF new
<1>3. RpcTypeOK' /\ RequestEnds' /\ AnswerOwn'
  BY <1>1, <1>2 DEF RpcTypeOK, RequestEnds, AnswerOwn, Call
<1>4. RequestsCurrent' /\ AnswersCurrent' /\ OneInFlight'
  BY <1>1, <1>2 DEF RequestsCurrent, AnswersCurrent, OneInFlight, About,
                    IsAnswer, Call
<1> QED
  BY <1>3, <1>4

-----------------------------------------------------------------------------

\* The inductive invariant: every datagram about a call is the current call's
\* own, between the caller and the peer it called, and there is one at most.
THEOREM RpcInvHolds == RpcSpec => []RpcInv
<1>1. RpcInit => RpcInv
  BY RpcInitInv
<1>2. RpcInv /\ [RpcNext]_rpc_vars => RpcInv'
  <2> SUFFICES ASSUME RpcInv, [RpcNext]_rpc_vars PROVE RpcInv'
    OBVIOUS
  <2>1. ASSUME NEW n \in Nodes, NEW p \in Nodes \ {n}, NEW i \in Ids,
               send_request(n, p, i)
        PROVE  RpcInv'
    BY <2>1, RpcSend
  <2>2. ASSUME NEW n \in Nodes, NEW p \in Nodes \ {n},
               NEW kind \in {"RPC", "other", "none"}, SendOther(n, p, kind)
        PROVE  RpcInv'
    BY <2>2, RpcOther
  <2>3. ASSUME NEW n \in Nodes, serve_or_drain(n) PROVE RpcInv'
    BY <2>3, RpcReceive
  <2>4. ASSUME NEW d \in net, Lose(d) PROVE RpcInv'
    BY <2>4, RpcRemoval DEF Lose
  <2>5. CASE UNCHANGED rpc_vars
    BY <2>5 DEF rpc_vars, RpcInv, RpcTypeOK, RequestsCurrent, AnswersCurrent,
                OneInFlight, RequestEnds, AnswerOwn, About, IsAnswer, Call
  <2> QED
    BY <2>1, <2>2, <2>3, <2>4, <2>5 DEF RpcNext
<1> QED
  BY <1>1, <1>2, PTL DEF RpcSpec

\* Whatever clients and other protocols send, and whatever is lost: the
\* answer that drain_for_rpc takes was made by the peer that was called, for
\* this very call.
THEOREM AnswerOwnHolds == RpcSpec => []AnswerOwn
<1>1. RpcInv => AnswerOwn
  BY DEF RpcInv
<1> QED
  BY <1>1, RpcInvHolds, PTL

=============================================================================
