--------------------------- MODULE NoiseTransport ---------------------------
(***************************************************************************)
(* One established Noise session (libp2p-cat-noise, transport.rs): the two *)
(* TransportStates that the XX handshake split, and the datagrams between  *)
(* them on a UDP path that loses, duplicates, delays and reorders, and on  *)
(* which anybody may put datagrams of his own.                             *)
(*                                                                         *)
(* The u64 receive window is the set of the positions of its 1 bits, bit d *)
(* standing for the nonce recv_max_nonce - d.  The AEAD is symbolic: a     *)
(* datagram authenticates under the key it was sealed with and no other.   *)
(*                                                                         *)
(* u64::MAX is the constant NonceMax, REPLAY_WINDOW_BITS is WindowBits.    *)
(***************************************************************************)
EXTENDS Naturals

CONSTANTS WindowBits,   \* REPLAY_WINDOW_BITS, 64 in the code
          NonceMax      \* largest nonce, u64::MAX in the code

ASSUME WindowBitsAssumption == WindowBits \in Nat \ {0}
ASSUME NonceMaxAssumption == NonceMax \in Nat

Ends == {"initiator", "responder"}

Peer(e) == IF e = "initiator" THEN "responder" ELSE "initiator"

Nonces == 0 .. NonceMax

\* Every encrypt call carries its own message: the k-th call of an end seals
\* message k.  Messages are therefore what must not be delivered twice.
Messages == 0 .. NonceMax

Bits == 0 .. (WindowBits - 1)

VARIABLES send_nonce,         \* send_nonce[e]
          recv_max_nonce,     \* recv_max_nonce[e]
          recv_replay_window, \* recv_replay_window[e], a set of bit positions
          wire,               \* every datagram an end ever sent
          sent,               \* sent[e]: how many messages e has sent
          delivered,          \* delivered[e][m]: how often e was handed m
          alive               \* FALSE once an Err consumed the state

session_vars == << send_nonce, recv_max_nonce, recv_replay_window, wire,
                   sent, delivered, alive >>

-----------------------------------------------------------------------------
(* Keys and datagrams                                                      *)

\* Split gives each direction a key of its own, named here by the end that
\* seals with it.
send_key(e) == e

\* TransportState::new(initiator_to_responder, responder_to_initiator) at
\* the initiator, the same two keys swapped at the responder.
recv_key(e) == Peer(e)

\* A datagram on the wire: long enough to hold a nonce and a tag, the key it
\* was sealed with, the nonce prefix, the message.
Datagram(key, nonce, m) ==
  [full |-> TRUE, key |-> key, nonce |-> nonce, msg |-> m]

\* What anybody can send: any nonce prefix, no key; or a runt shorter than
\* TRANSPORT_OVERHEAD.
Foreign ==
  [full : BOOLEAN, key : {"none"}, nonce : Nonces, msg : {0}]

-----------------------------------------------------------------------------
(* The replay window                                                       *)

\* Mutant: the window is one nonce too wide.
nonce_acceptable_edge(window, max_nonce, incoming) ==
  \/ incoming > max_nonce
  \/ /\ max_nonce - incoming <= WindowBits
     /\ max_nonce - incoming \notin window

nonce_acceptable(window, max_nonce, incoming) ==
  \/ incoming > max_nonce
  \/ /\ max_nonce - incoming < WindowBits
     /\ max_nonce - incoming \notin window

\* window << shift, the bits that leave the word lost.
ShiftLeft(window, shift) == {d \in Bits : d >= shift /\ d - shift \in window}

\* Mutant: the bits of earlier nonces are dropped.
advance_window_forget(window, max_nonce, incoming) ==
  IF incoming > max_nonce
  THEN << {0}, incoming >>
  ELSE << window \cup {max_nonce - incoming}, max_nonce >>

\* Mutant: the highest nonce may go down.
advance_window_regress(window, max_nonce, incoming) ==
  IF incoming > max_nonce
  THEN << ShiftLeft(window, incoming - max_nonce) \cup {0}, incoming >>
  ELSE << window \cup {max_nonce - incoming}, incoming >>

advance_window(window, max_nonce, incoming) ==
  IF incoming > max_nonce
  THEN << IF incoming - max_nonce >= WindowBits
          THEN {0}
          ELSE ShiftLeft(window, incoming - max_nonce) \cup {0},
          incoming >>
  ELSE << window \cup {max_nonce - incoming}, max_nonce >>

\* The length check, the window check and the AEAD, none of which changes
\* any state.
decrypt_checked(e, d) ==
  /\ d.full
  /\ nonce_acceptable(recv_replay_window[e], recv_max_nonce[e], d.nonce)
  /\ d.key = recv_key(e)

-----------------------------------------------------------------------------
(* The operations                                                          *)

SessionInit ==
  /\ send_nonce = [e \in Ends |-> 0]
  /\ recv_max_nonce = [e \in Ends |-> 0]
  /\ recv_replay_window = [e \in Ends |-> {}]
  /\ wire = {}
  /\ sent = [e \in Ends |-> 0]
  /\ delivered = [e \in Ends |-> [m \in Messages |-> 0]]
  /\ alive = [e \in Ends |-> TRUE]

\* Mutant: the counter wraps.
encrypt_wrapping(e) ==
  /\ alive[e]
  /\ wire' = wire \cup {Datagram(send_key(e), send_nonce[e], sent[e])}
  /\ sent' = [sent EXCEPT ![e] = @ + 1]
  /\ send_nonce' = [send_nonce EXCEPT ![e] = (@ + 1) % (NonceMax + 1)]
  /\ UNCHANGED << recv_max_nonce, recv_replay_window, delivered, alive >>

\* Seals message sent[e] under the current nonce.  checked_add fails on the
\* last nonce: the datagram sealed with it is dropped, and with it the
\* TransportState the call consumed.
encrypt(e) ==
  /\ alive[e]
  /\ IF send_nonce[e] < NonceMax
     THEN /\ wire' = wire \cup {Datagram(send_key(e), send_nonce[e], sent[e])}
          /\ sent' = [sent EXCEPT ![e] = @ + 1]
          /\ send_nonce' = [send_nonce EXCEPT ![e] = @ + 1]
          /\ UNCHANGED alive
     ELSE /\ alive' = [alive EXCEPT ![e] = FALSE]
          /\ UNCHANGED << wire, sent, send_nonce >>
  /\ UNCHANGED << recv_max_nonce, recv_replay_window, delivered >>

\* Mutant: the window moves before the tag is checked.
decrypt_eager(e, d) ==
  /\ alive[e]
  /\ d.full
  /\ nonce_acceptable(recv_replay_window[e], recv_max_nonce[e], d.nonce)
  /\ LET next == advance_window(recv_replay_window[e], recv_max_nonce[e],
                                d.nonce)
     IN /\ recv_replay_window' = [recv_replay_window EXCEPT ![e] = next[1]]
        /\ recv_max_nonce' = [recv_max_nonce EXCEPT ![e] = next[2]]
  /\ delivered' = IF d.key = recv_key(e)
                  THEN [delivered EXCEPT ![e][d.msg] = @ + 1]
                  ELSE delivered
  /\ UNCHANGED << send_nonce, wire, sent, alive >>

\* One datagram reaches e.  Any failure leaves the TransportState as it was.
decrypt(e, d) ==
  /\ alive[e]
  /\ IF decrypt_checked(e, d)
     THEN /\ LET next == advance_window(recv_replay_window[e],
                                        recv_max_nonce[e], d.nonce)
             IN /\ recv_replay_window' =
                     [recv_replay_window EXCEPT ![e] = next[1]]
                /\ recv_max_nonce' = [recv_max_nonce EXCEPT ![e] = next[2]]
          /\ delivered' = [delivered EXCEPT ![e][d.msg] = @ + 1]
     ELSE UNCHANGED << recv_replay_window, recv_max_nonce, delivered >>
  /\ UNCHANGED << send_nonce, wire, sent, alive >>

SessionNext ==
  \E e \in Ends :
    \/ encrypt(e)
    \/ \E d \in wire \cup Foreign : decrypt(e, d)

SessionSpec == SessionInit /\ [][SessionNext]_session_vars

-----------------------------------------------------------------------------
(* Properties                                                              *)

SessionTypeOK ==
  /\ send_nonce \in [Ends -> Nonces]
  /\ recv_max_nonce \in [Ends -> Nonces]
  /\ recv_replay_window \in [Ends -> SUBSET Bits]
  /\ wire \subseteq [full : {TRUE}, key : Ends, nonce : Nonces, msg : Messages]
  /\ sent \in [Ends -> Nat]
  /\ delivered \in [Ends -> [Messages -> Nat]]
  /\ alive \in [Ends -> BOOLEAN]

\* No nonce is used twice under one key, the exhaustion of the counter
\* included (encrypt): two datagrams of one direction with the same nonce
\* are the same datagram.
NonceUnique ==
  \A d1, d2 \in wire :
    d1.key = d2.key /\ d1.nonce = d2.nonce => d1 = d2

\* decrypt hands up no message twice, however the path duplicates and
\* reorders datagrams.
AtMostOnce ==
  \A e \in Ends, m \in Messages : delivered[e][m] <= 1

\* decrypt hands up only what the peer sealed: neither a foreign datagram
\* nor one of this end's own, reflected by the path.
OnlySentDelivered ==
  \A e \in Ends, m \in Messages : delivered[e][m] > 0 => m < sent[Peer(e)]

\* The replay check refuses exactly what it must: of the peer's datagrams,
\* those already delivered and those at least WindowBits behind the newest
\* one.  A datagram that was merely overtaken, or that foreign datagrams
\* preceded, is still accepted.
ReplayCheckExact ==
  \A e \in Ends : \A d \in wire :
    d.key = Peer(e) =>
      ( nonce_acceptable(recv_replay_window[e], recv_max_nonce[e], d.nonce)
        <=> /\ delivered[e][d.msg] = 0
            /\ recv_max_nonce[e] < d.nonce + WindowBits )

RefusalKept ==
  \A e \in Ends, n \in Nonces :
    ~ nonce_acceptable(recv_replay_window[e], recv_max_nonce[e], n)
    => ~ nonce_acceptable(recv_replay_window'[e], recv_max_nonce'[e], n)

\* A datagram that the window refuses is refused for good: no later traffic
\* reopens it (advance_window only ever moves forward).
RefusedForGood == [][RefusalKept]_session_vars

Promise == INSTANCE AtMostOnceDelivery
             WITH Ends <- Ends, Peer <- Peer, Messages <- Messages,
                  sent <- sent, delivered <- delivered

\* The session implements AtMostOnceDelivery: each step of the detailed
\* specification is a step of the promise, or changes nothing it speaks of.
PromiseSpec == Promise!Spec

=============================================================================
