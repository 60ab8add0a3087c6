------------------------------- MODULE Lookup -------------------------------
(***************************************************************************)
(* The iterative FIND_NODE lookup (libp2p-cat-kad, lookup.rs): the         *)
(* shortlist and its state machine, the rounds that drive it, and the      *)
(* drain of each round, over a Host whose tables change underneath it.     *)
(*                                                                         *)
(* The shortlist is keyed by the distance to the target, which determines  *)
(* the identifier: here it is keyed by the identifier.  A lookup is seeded *)
(* from the routing table, which may hold anybody.  Several lookups follow *)
(* each other on one node.                                                 *)
(***************************************************************************)
EXTENDS XorDistance

CONSTANTS alpha, k, max_rounds, max_recv_per_round,  \* LookupConfig
          Contacts,       \* the [id, addr] pairs that circulate
          Unroutable,     \* addresses that the socket refuses to send to: of
                          \* another family, with port 0, out of reach
          Targets,        \* what is looked up
          MaxAdvertised,  \* bound: peers in a FIND_NODE response
          MaxLookups      \* bound: lookups of a run

ASSUME ConfigAssumption ==
  /\ alpha \in Nat /\ k \in Nat
  /\ max_rounds \in Nat /\ max_recv_per_round \in Nat
ASSUME TargetsAssumption == Targets \subseteq NodeIds
ASSUME ContactsAssumption ==
  IsFiniteSet(Contacts) /\ \A c \in Contacts : c.id \in NodeIds
ASSUME LimitsAssumption == MaxAdvertised \in Nat /\ MaxLookups \in Nat

VARIABLES phase,            \* "idle", "round", "drain" or "failed"
          target, entries, pending_queries, pending_dials,   \* Lookup
          rounds_left, budget,
          established,      \* addresses with a connection of the Host
          in_flight,        \* addresses with a handshake of the Host
          result,           \* what the last lookup returned
          heard,            \* history: identifiers this lookup was told of
          touched,          \* history: what it sent, [act, id] -> times
          lost,             \* history: an entry of the Host was evicted
          lookups           \* lookups started so far

lookup_vars == << target, entries, pending_queries, pending_dials >>
host_vars == << established, in_flight, lost >>
vars == << phase, lookup_vars, rounds_left, budget, host_vars, result, heard,
           touched, lookups >>

Ids == {c.id : c \in Contacts}
ContactAddrs == {c.addr : c \in Contacts}

\* Lists of contacts that name each identifier once: seeds and responses.
Lists(max) ==
  {S \in SUBSET Contacts : /\ Cardinality(S) <= max
                           /\ \A c, d \in S : c.id = d.id => c = d}

EmptyMap == << >>

\* What may go to make room for an entry in a full table of the Host.
AtMostOne(S) == {gone \in SUBSET S : Cardinality(gone) <= 1}

-----------------------------------------------------------------------------
(* The shortlist                                                           *)

Nearer(i, j) == Closer(distance(i, target), distance(j, target))

\* The first n of S in ascending distance to the target.
Nearest(n, S) == {i \in S : Cardinality({j \in S : Nearer(j, i)}) < n}

Farthest(S) == CHOOSE i \in S : \A j \in S : j = i \/ Nearer(j, i)

WithStatus(S, status) ==
  [i \in DOMAIN entries |->
     IF i \in S THEN [entries[i] EXCEPT !.status = status] ELSE entries[i]]

\* Mutant: an advertisement resets the entry.
merge_overwrite(old, list) ==
  [i \in DOMAIN old \cup ({c.id : c \in list} \ {self_id}) |->
     IF \E c \in list : c.id = i
     THEN [addr |-> (CHOOSE c \in list : c.id = i).addr,
           status |-> "Unqueried"]
     ELSE old[i]]

\* Entries for the contacts of list that are new, the others as they are;
\* never one for the local node.
merge(old, list) ==
  [i \in DOMAIN old \cup ({c.id : c \in list} \ {self_id}) |->
     IF i \in DOMAIN old THEN old[i]
     ELSE [addr |-> (CHOOSE c \in list : c.id = i).addr,
           status |-> "Unqueried"]]

top_k == Nearest(k, DOMAIN entries)

Unqueried(S) == {i \in S : entries[i].status = "Unqueried"}

has_pending ==
  pending_queries # EmptyMap \/ pending_dials # EmptyMap

\* Mutant: one of the nearest having been asked is enough.
is_done_hasty ==
  ~ has_pending /\ \E i \in top_k : entries[i].status # "Unqueried"

is_done == ~ has_pending /\ Unqueried(top_k) = {}

pick_next_alpha == Nearest(alpha, Unqueried(top_k))

\* Address -> identifier, the later mark of an address replacing the former;
\* marks are made in ascending order of distance.
MarkAll(S) ==
  [a \in {entries[i].addr : i \in S} |->
     Farthest({i \in S : entries[i].addr = a})]

\* mark_in_flight and mark_dialing, for everybody picked.
mark(queries, dials) ==
  /\ entries' =
       [i \in DOMAIN entries |-> [entries[i] EXCEPT !.status =
          CASE i \in queries -> "InFlight"
            [] i \in dials -> "Dialing"
            [] OTHER -> @]]
  /\ pending_queries' = MarkAll(queries)
  /\ pending_dials' = MarkAll(dials)
  /\ touched' = [x \in DOMAIN touched |-> touched[x] +
       IF x \in ({"query"} \X queries) \cup ({"dial"} \X dials)
       THEN 1 ELSE 0]

\* Mutant: a dial that was not answered is tried again.
skip_pending_retry ==
  /\ entries' = [i \in DOMAIN entries |-> [entries[i] EXCEPT !.status =
                   CASE i \in Range(pending_queries) -> "Skipped"
                     [] i \in Range(pending_dials) -> "Unqueried"
                     [] OTHER -> @]]
  /\ pending_queries' = EmptyMap /\ pending_dials' = EmptyMap

\* skip_pending_queries and skip_pending_dials.
skip_pending ==
  /\ entries' = WithStatus(Range(pending_queries) \cup Range(pending_dials),
                           "Skipped")
  /\ pending_queries' = EmptyMap /\ pending_dials' = EmptyMap

\* The list is merged whether or not the response was waited for; only a
\* response that was is attributed to a peer.
record_response(from, list) ==
  /\ LET merged == merge(entries, list) IN
     entries' = IF from \in DOMAIN pending_queries
                THEN [merged EXCEPT ![pending_queries[from]].status = "Done"]
                ELSE merged
  /\ pending_queries' = Restrict(pending_queries,
                                 DOMAIN pending_queries \ {from})
  /\ heard' = heard \cup ({c.id : c \in list} \ {self_id})

\* Mutant: the dial is no longer pending, its entry stays Dialing.
complete_dial_unqueue(addr) ==
  /\ pending_dials' = Restrict(pending_dials, DOMAIN pending_dials \ {addr})
  /\ UNCHANGED entries

\* A dialled peer is eligible again, now for a query; the handshake of
\* anybody else does not concern the lookup.
complete_dial(addr) ==
  /\ entries' = IF addr \in DOMAIN pending_dials
                THEN WithStatus({pending_dials[addr]}, "Unqueried")
                ELSE entries
  /\ pending_dials' = Restrict(pending_dials, DOMAIN pending_dials \ {addr})

-----------------------------------------------------------------------------
(* run_lookup and drive_rounds                                             *)

Init ==
  /\ phase = "idle" /\ target \in Targets /\ entries = EmptyMap
  /\ pending_queries = EmptyMap /\ pending_dials = EmptyMap
  /\ rounds_left = 0 /\ budget = 0
  /\ established \in SUBSET (ContactAddrs \ Unroutable)
  /\ in_flight = {} /\ lost = FALSE
  /\ result = {} /\ heard = {} /\ touched = [t \in {} |-> 0]
  /\ lookups = 0

\* Lookup::new, from the k known peers closest to the target.
run_lookup(t, seeds) ==
  /\ phase = "idle" /\ lookups < MaxLookups
  /\ phase' = "round"
  /\ target' = t
  /\ entries' = merge(EmptyMap, seeds)
  /\ rounds_left' = max_rounds
  /\ heard' = {c.id : c \in seeds} \ {self_id}
  /\ touched' = [x \in {"query", "dial"} \X Ids |-> 0]
  /\ lookups' = lookups + 1
  /\ lost' = FALSE
  /\ result' = {}
  /\ UNCHANGED << pending_queries, pending_dials, budget, established,
                  in_flight >>

\* The lookup ends: no round is left, or nobody remains to be asked.
finish ==
  /\ phase = "round"
  /\ rounds_left = 0 \/ is_done \/ pick_next_alpha = {}
  /\ phase' = "idle"
  /\ result' = top_k
  /\ UNCHANGED << lookup_vars, rounds_left, budget, host_vars, heard,
                  touched, lookups >>

AddrsOf(S) == {entries[i].addr : i \in S}

\* Host::dial fails for an address that has a handshake in flight, an earlier
\* one of the same round included, and for one that the socket refuses.
DialRefused(dials) ==
  \/ AddrsOf(dials) \cap (in_flight \cup Unroutable) # {}
  \/ Cardinality(AddrsOf(dials)) < Cardinality(dials)

\* Host::dial for everybody in dials, nearest first.  A full table drops its
\* oldest handshake for each: those of before (gone), which may be what lets
\* a later dial of the round pass, and then, in a table smaller than alpha,
\* those of the round itself (undone), all but the last.
DialAll(dials) ==
  /\ AddrsOf(dials) \cap Unroutable = {}
  /\ \E gone \in SUBSET in_flight, undone \in SUBSET AddrsOf(dials) :
       /\ Cardinality(gone) + Cardinality(undone) <= Cardinality(dials)
       /\ undone # {} => gone = in_flight /\ undone # AddrsOf(dials)
       /\ \A i \in dials : entries[i].addr \in in_flight =>
            entries[i].addr \in gone /\ \E j \in dials : Nearer(j, i)
       /\ Cardinality(AddrsOf(dials)) < Cardinality(dials) => undone # {}
       /\ in_flight' = (in_flight \ gone) \cup (AddrsOf(dials) \ undone)
       /\ lost' = (lost \/ gone \cup undone # {})

\* Everybody picked is marked, then the requests are sent; if a dial is
\* refused, the whole lookup fails and the node is lost.
act ==
  /\ phase = "round" /\ rounds_left > 0 /\ ~ is_done
  /\ pick_next_alpha # {}
  /\ LET queries == {i \in pick_next_alpha : entries[i].addr \in established}
         dials == pick_next_alpha \ queries
     IN \/ /\ DialRefused(dials)
           /\ phase' = "failed"
           /\ UNCHANGED << lookup_vars, budget, in_flight, lost, touched >>
        \/ /\ phase' = "drain"
           /\ mark(queries, dials)
           /\ DialAll(dials)
           /\ budget' = max_recv_per_round
           /\ UNCHANGED target
  /\ UNCHANGED << rounds_left, established, result, heard, lookups >>

end_round ==
  /\ phase = "drain"
  /\ budget = 0 \/ ~ has_pending
  /\ phase' = "round"
  /\ skip_pending
  /\ rounds_left' = rounds_left - 1
  /\ UNCHANGED << target, budget, host_vars, result, heard, touched,
                  lookups >>

-----------------------------------------------------------------------------
(* What recv_one does to the Host                                          *)

HandshakeCompletes(addr, gone) ==
  /\ addr \in in_flight
  /\ established' = (established \ gone) \cup {addr}
  /\ in_flight' = in_flight \ {addr}
  /\ lost' = (lost \/ gone # {})

\* A handshake, inbound or dialled, takes a slot for addr.
HandshakeBegins(addr, gone) ==
  /\ addr \notin established \cup in_flight \cup Unroutable
  /\ in_flight' = (in_flight \ gone) \cup {addr}
  /\ lost' = (lost \/ gone # {})
  /\ UNCHANGED established

-----------------------------------------------------------------------------
(* drain_responses                                                         *)

draining == phase = "drain" /\ budget > 0 /\ has_pending

drain_response(from, list) ==
  /\ draining
  /\ from \in established
  /\ record_response(from, list)
  /\ budget' = budget - 1
  /\ UNCHANGED << phase, target, pending_dials, rounds_left, host_vars,
                  result, touched, lookups >>

drain_handshake(addr, gone) ==
  /\ draining
  /\ HandshakeCompletes(addr, gone)
  /\ complete_dial(addr)
  /\ budget' = budget - 1
  /\ UNCHANGED << phase, target, pending_queries, rounds_left, result, heard,
                  touched, lookups >>

\* Mutant: unrelated events cost no budget.
drain_other_free ==
  /\ draining
  /\ \/ \E addr \in ContactAddrs, gone \in AtMostOne(in_flight) :
          HandshakeBegins(addr, gone)
     \/ UNCHANGED host_vars
  /\ UNCHANGED << phase, lookup_vars, rounds_left, budget, result, heard,
                  touched, lookups >>

\* Every other event leaves the lookup alone, and counts.
drain_other ==
  /\ draining
  /\ \/ \E addr \in ContactAddrs, gone \in AtMostOne(in_flight) :
          HandshakeBegins(addr, gone)
     \/ UNCHANGED host_vars
  /\ budget' = budget - 1
  /\ UNCHANGED << phase, lookup_vars, rounds_left, result, heard, touched,
                  lookups >>

\* Between lookups the application receives, dials and evicts.
application ==
  /\ phase = "idle" /\ lookups < MaxLookups
  /\ \E addr \in ContactAddrs :
       \/ \E gone \in AtMostOne(established) : HandshakeCompletes(addr, gone)
       \/ \E gone \in AtMostOne(in_flight) : HandshakeBegins(addr, gone)
       \/ /\ addr \in established \cup in_flight
          /\ established' = established \ {addr}
          /\ in_flight' = in_flight \ {addr}
          /\ lost' = TRUE
  /\ UNCHANGED << phase, lookup_vars, rounds_left, budget, result, heard,
                  touched, lookups >>

-----------------------------------------------------------------------------

Start == \E t \in Targets, seeds \in Lists(k) : run_lookup(t, seeds)

\* The steps a lookup takes by itself.
Step == finish \/ act \/ end_round

\* The steps for which a datagram must arrive.
Recv ==
  \/ \E from \in ContactAddrs, list \in Lists(MaxAdvertised) :
       drain_response(from, list)
  \/ \E addr \in ContactAddrs, gone \in AtMostOne(established) :
       drain_handshake(addr, gone)
  \/ drain_other

Next == Start \/ Step \/ Recv \/ application

Spec == Init /\ [][Next]_vars

\* The node runs; nothing is said of the network, whose datagrams nobody can
\* promise.
QuietSpec == Spec /\ WF_vars(Step)

-----------------------------------------------------------------------------
(* Properties                                                              *)

Waiting(status) == {i \in DOMAIN entries : entries[i].status = status}

\* Where every peer has an address of its own: an entry is InFlight exactly
\* as long as its query is pending and Dialing exactly as long as its dial
\* is, and none of either survives the round (skip_pending_queries,
\* skip_pending_dials).
PendingExact ==
  phase # "failed" =>
    /\ Waiting("InFlight") = Range(pending_queries)
    /\ Waiting("Dialing") = Range(pending_dials)
    /\ phase # "drain" => ~ has_pending

\* No peer is asked twice in one lookup, or dialled twice unless the Host
\* evicted somebody meanwhile ("each peer is touched at most twice", module
\* comment), however often it is advertised again and however late its
\* answers come.
TouchedTwice ==
  \A x \in DOMAIN touched :
    touched[x] <= 1 \/ (x[1] = "dial" /\ lost)

Returned == phase = "idle" /\ lookups > 0

\* What a lookup returns are the k nearest of everybody it was told of, by
\* the numeric distance, without the local node; unless max_rounds cut it
\* short, or alpha is 0, which nothing forbids, it has asked or given up on
\* every one of them (is_done).
ResultNearest ==
  Returned =>
    LET Dist(i) == Numeric(distance(i, target)) IN
    /\ result \subseteq heard
    /\ Cardinality(result) = Min({k, Cardinality(heard)})
    /\ \A i \in result, j \in heard \ result : Dist(i) < Dist(j)
    /\ alpha > 0 /\ rounds_left > 0 =>
         \A i \in result : entries[i].status \in {"Done", "Skipped"}

\* Where every peer has an address of its own, and the Host evicted nobody
\* meanwhile: when a lookup fails, because Host::dial refuses an address, the
\* socket does not serve it, or the handshake in flight there is the peer's or
\* a leftover of an earlier lookup.  A dial of its own that nobody answered
\* never ends it.
OwnDialsNeverFail ==
  phase = "failed" =>
    \/ lost
    \/ \E i \in pick_next_alpha :
         /\ entries[i].addr \in in_flight \cup Unroutable
         /\ touched[<< "dial", i >>] = 0

\* An upper bound of the steps that a lookup still takes: one to start a
\* round, one for each datagram of its budget, and one to end it.
StepsLeft ==
  rounds_left * (max_recv_per_round + 2)
    + IF phase = "drain" THEN budget ELSE max_recv_per_round + 1

\* Every step that a lookup takes, or that a datagram makes it take, brings it
\* nearer to its end, whatever the datagram is and whomever it is from ("each
\* recv_one call counts", LookupConfig): it handles at most max_rounds times
\* max_recv_per_round of them, and no response or handshake starts it afresh.
LookupAdvances ==
  [][(phase \in {"round", "drain"}) =>
        \/ phase' \in {"idle", "failed"}
        \/ StepsLeft' < StepsLeft]_vars

\* Every lookup comes to an end: max_rounds "caps the worst-case latency in
\* the face of unresponsive peers" (LookupConfig), and skipping is there
\* because "without this, an unresponsive peer would block the lookup forever"
\* (skip_pending_queries).  The code does not do that: the drain waits for a
\* datagram, and has no clock.
LookupReturns ==
  (phase \in {"round", "drain"}) ~> (phase \in {"idle", "failed"})

=============================================================================
