-------------------------- MODULE ConnectionTables --------------------------
(***************************************************************************)
(* The address-keyed tables of a Host (libp2p-cat-host, host.rs) and the   *)
(* helpers that bound and sweep them.                                      *)
(*                                                                         *)
(* A table is a function whose domain is the set of addresses it knows;    *)
(* every entry is a record with a last_activity tick.  Addresses are       *)
(* numbers, in the order in which a BTreeMap iterates over them.           *)
(***************************************************************************)
EXTENDS Naturals, FiniteSets, Functions

EmptyTable == << >>

Size(map) == Cardinality(DOMAIN map)

Put(map, addr, entry) ==
  [a \in DOMAIN map \cup {addr} |-> IF a = addr THEN entry ELSE map[a]]

Remove(map, addr) == Restrict(map, DOMAIN map \ {addr})

\* The address min_by_key settles on: lowest last_activity, the first such
\* address in iteration order.
IsLru(map, a) ==
  /\ a \in DOMAIN map
  /\ \A b \in DOMAIN map :
       \/ map[a].last_activity < map[b].last_activity
       \/ map[a].last_activity = map[b].last_activity /\ a <= b

\* Mutant: the most recently used entry.
lru_addr_newest(map) ==
  CHOOSE a \in DOMAIN map :
    \A b \in DOMAIN map : map[b].last_activity <= map[a].last_activity

lru_addr(map) == CHOOSE a \in DOMAIN map : IsLru(map, a)

\* Both insert_handshake_with_lru and insert_established_with_lru.
insert_with_lru(map, addr, entry, cap) ==
  Put(IF addr \notin DOMAIN map /\ Size(map) >= cap
      THEN Remove(map, lru_addr(map)) ELSE map,
      addr, entry)

\* Both sweep_idle_handshakes and sweep_idle_established.
sweep_idle(map, cutoff) ==
  Restrict(map, {a \in DOMAIN map : map[a].last_activity >= cutoff})

saturating_sub(x, y) == IF x >= y THEN x - y ELSE 0

=============================================================================
