---------------------------- MODULE PubsubGossip ----------------------------
(***************************************************************************)
(* One generation spreading over PubsubMux nodes (libp2p-cat-pubsub,       *)
(* mux.rs): a source, relays that recode what they hear, decoders, and     *)
(* peers that broadcast another generation.  What a node does with a piece *)
(* is what PubsubMux has it do for a topic it stays registered for.        *)
(*                                                                         *)
(* Every link is an established connection, so that a datagram is          *)
(* delivered at most once; it may be lost or overtaken.  Two equal pieces  *)
(* in flight on a link are one element of net: whoever takes the first     *)
(* learns nothing from the second.                                         *)
(***************************************************************************)
EXTENDS Rlnc, PubsubCodec

CONSTANTS source, Relays, Decoders, Strangers,
          Links,       \* set of sets of two nodes: established connections
          NumPieces,   \* node -> what it passes to broadcast, at most
          auth,        \* the authenticator of all nodes
          Topic,
          piece_byte_len,
          combination(_, _), \* generation, vector -> the data of the piece
          commit(_, _),      \* Authenticator::commit: of a generation
          tag(_, _, _)       \* Authenticator::tag: of a piece

Nodes == {source} \cup Relays \cup Decoders \cup Strangers

ASSUME GossipAssumption ==
  /\ Links \subseteq {l \in SUBSET Nodes : Cardinality(l) = 2}
  /\ source \notin Relays \cup Decoders
  /\ NumPieces \in [{source} \cup Strangers -> Nat]
  /\ auth \in Authenticators
  /\ IsTopic(Topic) /\ Topic \in Seq(Byte)
  /\ piece_count < Limit(U32_LEN)
  /\ piece_byte_len \in 0 .. (Limit(U32_LEN) - 1)

VARIABLES net,     \* frames in flight
          known,   \* node -> space spanned by what it accepted
          pending  \* nodes that are still to broadcast

vars == << net, known, pending >>

established_addrs(n) == {m \in Nodes : {n, m} \in Links}

-----------------------------------------------------------------------------
(* Generations and their pieces                                            *)

\* The generation of the source, for which everybody is registered, and the
\* one that strangers broadcast.
Ours == 1
Theirs == 2

\* The authenticators (external) write what the codec has room for, and a tag
\* of one generation is none of another's, except where there are none.
ASSUME AuthenticatorAssumption ==
  /\ \A gen \in {Ours, Theirs}, vec \in Vectors :
       /\ combination(gen, vec) \in [1 .. piece_byte_len -> Byte]
       /\ \A a \in Authenticators :
            IsCommitment(a, commit(a, gen)) /\ IsTag(a, tag(a, gen, vec))
  /\ \A a \in Authenticators \ {"Null"}, v, w \in Vectors :
       tag(a, Theirs, v) # tag(a, Ours, w)

\* A combination of the original pieces.
Coded(gen, vec) ==
  CodedPiece([i \in 1 .. piece_count |-> IF i \in vec THEN 1 ELSE 0],
             combination(gen, vec))

Frame(a, gen, vec) ==
  PubsubFrame(Topic, piece_count, piece_byte_len,
              WirePiece(commit(a, gen), Coded(gen, vec), tag(a, gen, vec)))

\* Authenticator::verify (external) against the registered commitment, the
\* one in the frame being ignored: tags verify for the pieces of the
\* generation, recoded ones included.
verify(wire_piece) ==
  \/ auth = "Null"
  \/ \E vec \in Vectors :
       /\ wire_piece.piece = Coded(Ours, vec)
       /\ wire_piece.tag = tag(auth, Ours, vec)

CodingVector(piece) == {i \in 1 .. piece_count : piece.coefficients[i] # 0}

\* fan_out_all and send_frame_excluding: each frame to each address.
Sent(n, to, frames) ==
  {[from |-> n, to |-> m, bytes |-> f] : m \in to, f \in frames}

Init ==
  /\ net = {}
  /\ known = [n \in Nodes |-> NothingKnown]
  /\ pending = {source} \cup Strangers

\* Coded pieces to every established peer.  Those of a stranger are of
\* another generation, and may end before the coefficients do.
broadcast(n) ==
  /\ n \in pending
  /\ pending' = pending \ {n}
  /\ \E vecs \in SUBSET Vectors, cut \in {0, piece_byte_len + 1} :
       LET gen == IF n = source THEN Ours ELSE Theirs
           Wire(v) == encode(auth, Frame(auth, gen, v)).value
       IN /\ Cardinality(vecs) \in 1 .. NumPieces[n]
          /\ n = source => cut = 0
          /\ net' = net \cup
               Sent(n, established_addrs(n),
                    {First(Wire(v), Len(Wire(v)) - cut) : v \in vecs})
          /\ known' = IF n = source THEN [known EXCEPT ![n] = Span(vecs)]
                      ELSE known

-----------------------------------------------------------------------------
(* A frame arrives                                                         *)

reject(d) == net' = net \ {d} /\ UNCHANGED known

decoder_path(d, wire_piece) ==
  /\ net' = net \ {d}
  /\ known' = [known EXCEPT ![d.to] =
                 IF verify(wire_piece)
                 THEN absorb(@, CodingVector(wire_piece.piece)) ELSE @]

\* A recoded piece, tagged and encoded anew, goes to everybody but the
\* sender.
recode_and_forward(d, next) ==
  \E v \in recode_one(next) :
    /\ known' = [known EXCEPT ![d.to] = next]
    /\ net' = (net \ {d}) \cup
         Sent(d.to, established_addrs(d.to) \ {d.from},
              {encode(auth, Frame(auth, Ours, v)).value})

\* Mutant: every piece that verifies is recoded and forwarded.
relay_path_ungated(d, wire_piece) ==
  IF verify(wire_piece)
  THEN recode_and_forward(d, absorb(known[d.to],
                                    CodingVector(wire_piece.piece)))
  ELSE reject(d)

\* Mutant: a relay leaves the tags to the decoders.
relay_path_trusting(d, wire_piece) ==
  LET next == absorb(known[d.to], CodingVector(wire_piece.piece))
  IN IF useful_count(next) > useful_count(known[d.to])
     THEN recode_and_forward(d, next)
     ELSE reject(d)

relay_path(d, wire_piece) ==
  LET next == absorb(known[d.to], CodingVector(wire_piece.piece))
      redundant == \/ is_complete(known[d.to])
                   \/ useful_count(next) = useful_count(known[d.to])
  IN IF verify(wire_piece) /\ ~ redundant
     THEN recode_and_forward(d, next)
     ELSE reject(d)

\* The source has no role for the topic and rejects.
handle_pubsub_body(d) ==
  /\ \E frame \in {decode(auth, d.bytes)} :
       \/ /\ frame.ok /\ d.to \in Relays
          /\ relay_path(d, frame.value.wire_piece)
       \/ /\ frame.ok /\ d.to \in Decoders
          /\ decoder_path(d, frame.value.wire_piece)
       \/ ~ (frame.ok /\ d.to \in Relays \cup Decoders) /\ reject(d)
  /\ UNCHANGED pending

lose(d) == net' = net \ {d} /\ UNCHANGED << known, pending >>

Receive == \E d \in net : handle_pubsub_body(d)

Lose == \E d \in net : lose(d)

Next == Receive \/ Lose \/ \E n \in pending : broadcast(n)

\* A frame leaves the network: Receive or Lose.
Taken == \E d \in net : d \notin net'

\* The caller of a node keeps calling recv_one.  This is weak fairness of
\* Receive \/ Lose, which is enabled while there are frames in flight, spelt
\* out so that TLC need not decode every frame to find out whether it is.
Fairness == []<>(net = {}) \/ []<><<Taken>>_vars

Spec == Init /\ [][Next]_vars /\ Fairness

-----------------------------------------------------------------------------
(* Properties                                                              *)

\* What a relay or a decoder knows is a combination of pieces the source has
\* broadcast, however often it was recoded, tagged and encoded anew on the
\* way: a piece of another generation, which has the same coefficients, is
\* never mixed in (verify before absorb), nor is what is left of a frame that
\* was cut short.
OnlySourcePieces ==
  \A n \in Relays \cup Decoders : known[n] \subseteq known[source]

\* Under each of the three authenticators, what the source broadcasts is read
\* as it was written, and nothing that differs from it by a byte is read as
\* something that encode would not write: no field borrows bytes from the
\* next one, and no frame has two forms.
FramesExact ==
  [][(source \in pending \ pending') =>
       \A vec \in known'[source], a \in Authenticators :
         Exact(a, Frame(a, Ours, vec))]_vars

\* The rank gate "terminates multi-relay circulation" (register_relay): in
\* a graph with cycles of relays, recoded pieces do not feed each other for
\* ever.
CirculationEnds == <>[](net = {})

=============================================================================
