------------------------- MODULE AtMostOnceDelivery -------------------------
(***************************************************************************)
(* What an established Noise session promises to the layer above it, in    *)
(* each direction: a message is handed up only if the other end sent it,   *)
(* and never twice.  Order and eventual delivery are not promised.         *)
(*                                                                         *)
(* NoiseTransport implements this specification.                           *)
(***************************************************************************)
EXTENDS Naturals

CONSTANTS Ends,         \* the two ends of the session
          Peer(_),      \* the other end
          Messages      \* identifiers of messages, numbered per sending end

VARIABLES sent,         \* sent[e]: how many messages end e has sent
          delivered     \* delivered[e][m]: how often e was handed message m

vars == << sent, delivered >>

Init ==
  /\ sent = [e \in Ends |-> 0]
  /\ delivered = [e \in Ends |-> [m \in Messages |-> 0]]

Send(e) ==
  /\ sent' = [sent EXCEPT ![e] = @ + 1]
  /\ UNCHANGED delivered

\* Message m of the peer is handed to e for the first and only time.
Deliver(e, m) ==
  /\ m < sent[Peer(e)]
  /\ delivered[e][m] = 0
  /\ delivered' = [delivered EXCEPT ![e][m] = 1]
  /\ UNCHANGED sent

Next ==
  \E e \in Ends : Send(e) \/ \E m \in Messages : Deliver(e, m)

Spec == Init /\ [][Next]_vars

=============================================================================
