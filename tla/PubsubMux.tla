----------------------------- MODULE PubsubMux ------------------------------
(***************************************************************************)
(* One PubsubMux (libp2p-cat-pubsub: state.rs, mux.rs): the decoders and   *)
(* recoders of its topics, their lifecycle under a logical clock, and what *)
(* an arriving piece does to them.                                         *)
(*                                                                         *)
(* A generation stands for its commitment: the authenticator accepts a     *)
(* piece under a commitment iff it is a piece of that generation.  What    *)
(* it accepts need not have been cut from a source's data, though (with    *)
(* NullAuthenticator, nothing need be): complete, it may fail to decode.   *)
(* The Host is external: it delivers any piece at any time.                *)
(***************************************************************************)
EXTENDS Rlnc, ConnectionTables

CONSTANTS Topics, Generations,
          WellFormed,  \* generations whose pieces all come of a source's data
          MaxTick,     \* bound: how many ticks a run lasts
          MaxIdle      \* bound: thresholds given to evict_idle

ASSUME TopicsAssumption == Topics \subseteq Nat
ASSUME WellFormedAssumption == WellFormed \subseteq Generations
ASSUME BoundsAssumption == MaxTick \in Nat /\ MaxIdle \in Nat

VARIABLES decoders,   \* topic -> DecoderEntry
          recoders,   \* topic -> RecoderEntry
          tick,
          event,      \* the last operation, MuxEvent or "Err"
          absorbed,   \* history: pieces absorbed since the topic's decoder
                      \* was registered
          delivered,  \* history: deliveries since then
          emitted     \* history: pieces recoded since the topic's relay was
                      \* registered

vars == << decoders, recoders, tick, event, absorbed, delivered, emitted >>

history == << absorbed, delivered, emitted >>

Event(kind, topic) == [kind |-> kind, topic |-> topic]

\* fits: the dimensions given at registration are those of the generation.
DecoderEntry(gen, fits, known, now) ==
  [gen |-> gen, fits |-> fits, known |-> known, last_activity |-> now]

\* known: what the rank tracker knows; stored: pieces the recoder buffers.
RecoderEntry(gen, fits, known, stored, now) ==
  [gen |-> gen, fits |-> fits, known |-> known, stored |-> stored,
   last_activity |-> now]

\* The tag of a piece proves the generation it belongs to.
verify(gen, piece) == piece.gen = gen

Pieces == [topic : Topics, gen : Generations, vec : Vectors]

Init ==
  /\ decoders = EmptyTable /\ recoders = EmptyTable
  /\ tick = 0
  /\ event = Event("new", 0)
  /\ absorbed = [t \in Topics |-> {}]
  /\ delivered = [t \in Topics |-> 0]
  /\ emitted = [t \in Topics |-> 0]

Tick == tick' = tick + 1

-----------------------------------------------------------------------------
(* Lifecycle of the roles: state.rs                                        *)

register_topic(t, gen, fits) ==
  /\ decoders' = Put(decoders, t,
                     DecoderEntry(gen, fits, NothingKnown, tick + 1))
  /\ Tick
  /\ event' = Event("register_topic", t)
  /\ absorbed' = [absorbed EXCEPT ![t] = {}]
  /\ delivered' = [delivered EXCEPT ![t] = 0]
  /\ UNCHANGED << recoders, emitted >>

register_relay(t, gen, fits) ==
  /\ recoders' = Put(recoders, t,
                     RecoderEntry(gen, fits, NothingKnown, 0, tick + 1))
  /\ Tick
  /\ event' = Event("register_relay", t)
  /\ emitted' = [emitted EXCEPT ![t] = 0]
  /\ UNCHANGED << decoders, absorbed, delivered >>

unregister_topic(t) ==
  /\ decoders' = Remove(decoders, t)
  /\ Tick
  /\ event' = Event("unregister_topic", t)
  /\ UNCHANGED << recoders, history >>

unregister_relay(t) ==
  /\ recoders' = Remove(recoders, t)
  /\ Tick
  /\ event' = Event("unregister_relay", t)
  /\ UNCHANGED << decoders, history >>

\* Sweeps advance the clock as well, after they have read it.
evict_idle_topics(max_idle) ==
  /\ decoders' = sweep_idle(decoders, saturating_sub(tick, max_idle))
  /\ Tick
  /\ event' = Event("evict_idle_topics", 0)
  /\ UNCHANGED << recoders, history >>

evict_idle_relays(max_idle) ==
  /\ recoders' = sweep_idle(recoders, saturating_sub(tick, max_idle))
  /\ Tick
  /\ event' = Event("evict_idle_relays", 0)
  /\ UNCHANGED << decoders, history >>

-----------------------------------------------------------------------------
(* An arriving piece: mux.rs                                               *)

reject(t) ==
  /\ event' = Event("Rejected", t)
  /\ UNCHANGED << decoders, recoders, tick, history >>

\* Mutant: the decoder of a complete generation stays registered.
absorb_or_deliver_keep(t, entry, piece) ==
  LET known == absorb(entry.known, piece.vec)
  IN /\ Tick
     /\ absorbed' = [absorbed EXCEPT ![t] = @ \cup {piece}]
     /\ decoders' = Put(decoders, t, DecoderEntry(entry.gen, entry.fits,
                                                  known, tick + 1))
     /\ \/ /\ is_complete(known)
           /\ event' = Event("PubsubDelivered", t)
           /\ delivered' = [delivered EXCEPT ![t] = @ + 1]
        \/ /\ ~ is_complete(known)
           /\ event' = Event("PubsubAbsorbed", t)
           /\ UNCHANGED delivered
     /\ UNCHANGED << recoders, emitted >>

\* The decoder absorbs the piece; with the last one it is gone, whether or
\* not what it has decodes.
absorb_or_deliver(t, entry, piece) ==
  LET known == absorb(entry.known, piece.vec)
  IN /\ Tick
     /\ absorbed' = [absorbed EXCEPT ![t] = @ \cup {piece}]
     /\ \/ /\ is_complete(known)
           /\ decoders' = Remove(decoders, t)
           /\ event' = Event("PubsubDelivered", t)
           /\ delivered' = [delivered EXCEPT ![t] = @ + 1]
        \/ /\ is_complete(known) /\ entry.gen \notin WellFormed
           /\ decoders' = Remove(decoders, t)
           /\ event' = Event("Rejected", t)
           /\ UNCHANGED delivered
        \/ /\ ~ is_complete(known)
           /\ decoders' = Put(decoders, t, DecoderEntry(entry.gen, entry.fits,
                                                        known, tick + 1))
           /\ event' = Event("PubsubAbsorbed", t)
           /\ UNCHANGED delivered
     /\ UNCHANGED << recoders, emitted >>

\* Mutant: a piece that does not verify takes the decoder with it.
decoder_path_drop(piece) ==
  LET t == piece.topic
      entry == decoders[t]
  IN \/ /\ ~ (verify(entry.gen, piece) /\ entry.fits)
        /\ decoders' = Remove(decoders, t)
        /\ event' = Event("Rejected", t)
        /\ UNCHANGED << recoders, tick, history >>
     \/ /\ verify(entry.gen, piece) /\ entry.fits
        /\ absorb_or_deliver(t, entry, piece)

\* A verified piece that does not fit takes the decoder with it: the entry
\* was taken out of the map and absorb has consumed its state.
decoder_path(piece) ==
  LET t == piece.topic
      entry == decoders[t]
  IN \/ /\ ~ verify(entry.gen, piece)
        /\ reject(t)
     \/ /\ verify(entry.gen, piece) /\ ~ entry.fits
        /\ decoders' = Remove(decoders, t)
        /\ event' = Event("Rejected", t)
        /\ UNCHANGED << recoders, tick, history >>
     \/ /\ verify(entry.gen, piece) /\ entry.fits
        /\ absorb_or_deliver(t, entry, piece)

\* Dependent pieces keep the relay alive and change nothing else.
redundant_piece(t, entry) ==
  /\ Tick
  /\ recoders' = Put(recoders, t, [entry EXCEPT !.last_activity = tick + 1])
  /\ event' = Event("PubsubRedundant", t)
  /\ UNCHANGED << decoders, history >>

\* The piece is buffered and a recoded one sent to every other peer.
recode_and_forward(t, entry, known) ==
  /\ Tick
  /\ recoders' = Put(recoders, t, RecoderEntry(entry.gen, entry.fits, known,
                                               entry.stored + 1, tick + 1))
  /\ event' = Event("PubsubRelayed", t)
  /\ emitted' = [emitted EXCEPT ![t] = @ + 1]
  /\ UNCHANGED << decoders, absorbed, delivered >>

\* Randomness, the frame or the socket fails: the effect ends in Err, and
\* the mux it owned is gone.
fail(t) ==
  /\ event' = Event("Err", t)
  /\ UNCHANGED << decoders, recoders, tick, history >>

\* Mutant: only a full rank silences the relay.
relay_path_ungated(piece) ==
  LET t == piece.topic
      entry == recoders[t]
      known == absorb(entry.known, piece.vec)
      accepted == verify(entry.gen, piece) /\ entry.fits
  IN \/ ~ accepted /\ reject(t)
     \/ /\ accepted /\ is_complete(entry.known)
        /\ redundant_piece(t, entry)
     \/ /\ accepted /\ ~ is_complete(entry.known)
        /\ recode_and_forward(t, entry, known)

relay_path(piece) ==
  LET t == piece.topic
      entry == recoders[t]
      known == absorb(entry.known, piece.vec)
      redundant == \/ is_complete(entry.known)
                   \/ useful_count(known) = useful_count(entry.known)
      accepted == verify(entry.gen, piece) /\ entry.fits
  IN \/ ~ accepted /\ reject(t)
     \/ accepted /\ redundant /\ redundant_piece(t, entry)
     \/ accepted /\ ~ redundant /\ recode_and_forward(t, entry, known)
     \/ accepted /\ ~ redundant /\ fail(t)

\* The relay role is looked up first.
handle_pubsub_body(piece) ==
  \/ /\ piece.topic \in DOMAIN recoders
     /\ relay_path(piece)
  \/ /\ piece.topic \notin DOMAIN recoders
     /\ piece.topic \in DOMAIN decoders
     /\ decoder_path(piece)
  \/ /\ piece.topic \notin DOMAIN recoders \cup DOMAIN decoders
     /\ reject(piece.topic)

\* Handshake events, application data, and plaintexts or frames that do not
\* parse.
pass_through ==
  /\ event' = Event("other", 0)
  /\ UNCHANGED << decoders, recoders, tick, history >>

Next ==
  /\ event.kind # "Err"
  /\ tick < MaxTick
  /\ \/ \E t \in Topics, gen \in Generations, fits \in BOOLEAN :
          register_topic(t, gen, fits) \/ register_relay(t, gen, fits)
     \/ \E t \in Topics : unregister_topic(t) \/ unregister_relay(t)
     \/ \E max_idle \in 0 .. MaxIdle :
          evict_idle_topics(max_idle) \/ evict_idle_relays(max_idle)
     \/ \E piece \in Pieces : handle_pubsub_body(piece)
     \/ pass_through

Spec == Init /\ [][Next]_vars

-----------------------------------------------------------------------------
(* Properties                                                              *)

\* A relay buffers at most piece_count pieces and emits at most piece_count
\* recoded ones for a registration, however many pieces arrive and however
\* they depend on each other (the rank gate of relay_path): what it buffers
\* is a basis of what it knows.
RelayBound ==
  \A t \in DOMAIN recoders :
    /\ emitted[t] <= piece_count
    /\ recoders[t].stored = emitted[t]
    /\ recoders[t].stored = useful_count(recoders[t].known)

\* What a topic's decoder has absorbed since its registration determines the
\* generation.
Whole(t) == is_complete(Span({p.vec : p \in absorbed[t]}))

\* A generation is delivered at most once for a registration, from pieces of
\* the registered generation alone, and not before those absorbed since the
\* registration determine it: then at once, if they come of a source's data
\* (decoder_path).
DeliveredExactly ==
  \A t \in Topics :
    /\ delivered[t] <= IF Whole(t) THEN 1 ELSE 0
    /\ Whole(t) /\ (\A p \in absorbed[t] : p.gen \in WellFormed) =>
         delivered[t] = 1
    /\ Whole(t) => t \notin DOMAIN decoders
    /\ t \in DOMAIN decoders =>
         \A p \in absorbed[t] : p.gen = decoders[t].gen

\* A topic's role ends only for a cause: its own unregister, a sweep while it
\* was idle, a delivery, pieces that are complete and do not decode, or a
\* decoder registered with dimensions that the pieces do not have.  A piece
\* that does not verify never ends one, nor does one too many, nor anything
\* that happens to another topic.  A registration of the topic's other role
\* may: the module comment of mux.rs has "the second registration replaces
\* the first", and calls it undefined.  (In the code both stay.)
RolesEndForCause ==
  [][/\ \A t \in DOMAIN decoders \ DOMAIN decoders' :
          \/ event' \in {Event("unregister_topic", t),
                         Event("PubsubDelivered", t),
                         Event("register_relay", t)}
          \/ /\ event'.kind = "evict_idle_topics"
             /\ decoders[t].last_activity < tick
          \/ /\ event' = Event("Rejected", t)
             /\ \/ ~ decoders[t].fits
                \/ decoders[t].gen \notin WellFormed /\ Whole(t)'
     /\ \A t \in DOMAIN recoders \ DOMAIN recoders' :
          \/ event' \in {Event("unregister_relay", t),
                         Event("register_topic", t)}
          \/ /\ event'.kind = "evict_idle_relays"
             /\ recoders[t].last_activity < tick]_vars

=============================================================================
