---------------------------- MODULE Lookup_proofs ---------------------------
(***************************************************************************)
(* Proofs about Lookup: what is pending is exactly what is waited for, no  *)
(* peer is touched more often than the module comment allows, and what a   *)
(* lookup returns are the nearest peers -- for any configuration, any      *)
(* contacts and any number of lookups.                                     *)
(***************************************************************************)
EXTENDS Lookup, Values_proofs

\* Every peer has an address of its own.  Without it a pending query can be
\* overwritten by that of another peer, and its entry waits for ever.
OwnAddresses == \A c, d \in Contacts : c.addr = d.addr => c.id = d.id

-----------------------------------------------------------------------------
(* The inductive invariant                                                 *)

Statuses == {"Unqueried", "InFlight", "Dialing", "Done", "Skipped"}

\* An entry is for a contact.
EntryOf(i, e) ==
  /\ e \in [addr : ContactAddrs, status : Statuses]
  /\ i # self_id
  /\ \E c \in Contacts : c.id = i /\ c.addr = e.addr

Shortlist(map) == \A i \in DOMAIN map : EntryOf(i, map[i])

LTypeOK ==
  /\ phase \in {"idle", "round", "drain", "failed"}
  /\ target \in NodeIds
  /\ Shortlist(entries)
  /\ lookups \in Nat
  /\ lost \in BOOLEAN

\* What is pending at an address waits for the peer whose entry says so.
PendingAt(pending, status) ==
  \A a \in DOMAIN pending :
    /\ pending[a] \in DOMAIN entries
    /\ entries[pending[a]].addr = a
    /\ entries[pending[a]].status = status

PendingSound ==
  /\ PendingAt(pending_queries, "InFlight")
  /\ PendingAt(pending_dials, "Dialing")
  /\ phase # "drain" =>
       pending_queries = EmptyMap /\ pending_dials = EmptyMap

Acts == {"query", "dial"} \X Ids

\* A peer that was asked is past it, and so is one that was dialled, unless
\* it is now connected.
History ==
  \/ lookups = 0 /\ phase = "idle" /\ DOMAIN touched = {}
  \/ /\ touched \in [Acts -> Nat]
     /\ \A i \in Ids : touched[<< "query", i >>] # 0 =>
          /\ touched[<< "query", i >>] = 1
          /\ i \in DOMAIN entries
          /\ entries[i].status \in {"InFlight", "Done", "Skipped"}
     /\ \A i \in Ids : touched[<< "dial", i >>] # 0 /\ ~ lost =>
          /\ touched[<< "dial", i >>] = 1
          /\ i \in DOMAIN entries
          /\ entries[i].status = "Unqueried" =>
               entries[i].addr \in established

\* Everybody heard of is on the shortlist; what was returned is its top.
ResultTop ==
  /\ DOMAIN entries = heard
  /\ Returned => /\ result = top_k
                 /\ alpha > 0 /\ rounds_left > 0 => Unqueried(top_k) = {}

\* With an address each, whoever is waited for is pending at its address.
WaitsAt(pending, status) ==
  \A i \in DOMAIN entries : entries[i].status = status =>
    entries[i].addr \in DOMAIN pending /\ pending[entries[i].addr] = i

WaitsExact ==
  OwnAddresses =>
    WaitsAt(pending_queries, "InFlight") /\ WaitsAt(pending_dials, "Dialing")

FailsForCause == OwnAddresses => OwnDialsNeverFail

LInv ==
  /\ LTypeOK /\ PendingSound /\ History /\ ResultTop
  /\ WaitsExact /\ FailsForCause

-----------------------------------------------------------------------------
(* Operators of the shortlist                                              *)

LEMMA ShortlistIds ==
  ASSUME NEW map, Shortlist(map)
  PROVE  /\ DOMAIN map \subseteq Ids /\ DOMAIN map \subseteq NodeIds
         /\ IsFiniteSet(DOMAIN map)
<1>1. DOMAIN map \subseteq Ids
  BY DEF Shortlist, EntryOf, Ids
<1>2. Ids \subseteq NodeIds
  BY ContactsAssumption DEF Ids
<1>3. IsFiniteSet(Ids)
  <2> DEFINE f == [c \in Contacts |-> c.id]
  <2>1. f \in Surjection(Contacts, Ids)
    BY DEF Surjection, Ids
  <2> HIDE DEF f
  <2> QED
    BY <2>1, ContactsAssumption, FS_Surjection
<1> QED
  BY <1>1, <1>2, <1>3, FS_Subset

\* Nearest is the first of a finite set, by the number of the distance.
LEMMA NearestFacts ==
  ASSUME NEW S, IsFiniteSet(S), S \subseteq NodeIds, target \in NodeIds,
         NEW n \in Nat
  PROVE  /\ Nearest(n, S) \subseteq S
         /\ Cardinality(Nearest(n, S)) =
              IF n <= Cardinality(S) THEN n ELSE Cardinality(S)
         /\ \A i \in Nearest(n, S), j \in S \ Nearest(n, S) :
              Numeric(distance(i, target)) < Numeric(distance(j, target))
<1> DEFINE key == [i \in S |-> Numeric(distance(i, target))]
<1>1. key \in [S -> Nat]
  BY NumericType
<1>2. \A i, j \in S : key[i] = key[j] => i = j
  BY NumericInjective
<1>3. \A i, j \in S : Nearer(j, i) <=> key[j] < key[i]
  BY CloserIffLess, DistanceType DEF Nearer
<1>4. ASSUME NEW i \in S
      PROVE  {j \in S : Nearer(j, i)} = Below(S, key, i)
  <2> HIDE DEF key
  <2> QED
    BY <1>3 DEF Below
<1>5. Nearest(n, S) = FirstOf(n, S, key)
  <2> HIDE DEF key
  <2> QED
    BY <1>4 DEF Nearest, FirstOf
<1>6. /\ Cardinality(FirstOf(n, S, key)) =
           IF n <= Cardinality(S) THEN n ELSE Cardinality(S)
      /\ \A i \in FirstOf(n, S, key), j \in S \ FirstOf(n, S, key) :
           key[i] < key[j]
  <2> HIDE DEF key
  <2> QED
    BY <1>1, <1>2, FirstN
<1>7. Nearest(n, S) \subseteq S
  BY DEF Nearest
<1> QED
  BY <1>5, <1>6, <1>7

LEMMA TopFacts ==
  ASSUME LTypeOK
  PROVE  /\ top_k \subseteq DOMAIN entries
         /\ IsFiniteSet(top_k) /\ top_k \subseteq NodeIds
         /\ pick_next_alpha \subseteq Unqueried(top_k)
         /\ alpha > 0 /\ pick_next_alpha = {} => Unqueried(top_k) = {}
<1>1. /\ DOMAIN entries \subseteq NodeIds
      /\ IsFiniteSet(DOMAIN entries)
  BY ShortlistIds DEF LTypeOK
<1>2. top_k \subseteq DOMAIN entries
  BY DEF top_k, Nearest
<1>3. IsFiniteSet(top_k) /\ top_k \subseteq NodeIds
  BY <1>1, <1>2, FS_Subset
<1>4. Unqueried(top_k) \subseteq top_k
  BY DEF Unqueried
<1>5. IsFiniteSet(Unqueried(top_k)) /\ Unqueried(top_k) \subseteq NodeIds
  BY <1>3, <1>4, FS_Subset
<1> DEFINE U == Unqueried(top_k)
<1>6. /\ Nearest(alpha, U) \subseteq U
      /\ Cardinality(Nearest(alpha, U)) =
           IF alpha <= Cardinality(U) THEN alpha ELSE Cardinality(U)
  <2> HIDE DEF U
  <2> QED
    BY <1>5, NearestFacts, ConfigAssumption DEF LTypeOK, U
<1>7. alpha > 0 /\ Nearest(alpha, U) = {} => U = {}
  <2> SUFFICES ASSUME alpha > 0, Nearest(alpha, U) = {} PROVE U = {}
    OBVIOUS
  <2> HIDE DEF U
  <2>1. Cardinality(Nearest(alpha, U)) = 0
    BY FS_EmptySet
  <2>2. Cardinality(U) \in Nat /\ alpha \in Nat
    BY <1>5, FS_CardinalityType, ConfigAssumption DEF U
  <2>3. Cardinality(U) = 0
    BY <1>6, <2>1, <2>2
  <2> QED
    BY <1>5, <2>3, FS_EmptySet DEF U
<1> QED
  BY <1>2, <1>3, <1>6, <1>7 DEF pick_next_alpha

\* merge keeps what is on the shortlist and adds contacts to be asked.
LEMMA MergeFacts ==
  ASSUME NEW old, Shortlist(old), NEW list, list \subseteq Contacts
  PROVE  LET new == merge(old, list)
         IN /\ DOMAIN new = DOMAIN old \cup ({c.id : c \in list} \ {self_id})
            /\ \A i \in DOMAIN old : new[i] = old[i]
            /\ \A i \in DOMAIN new \ DOMAIN old : new[i].status = "Unqueried"
            /\ Shortlist(new)
<1> DEFINE new == merge(old, list)
<1>1. /\ DOMAIN new = DOMAIN old \cup ({c.id : c \in list} \ {self_id})
      /\ \A i \in DOMAIN old : new[i] = old[i]
      /\ \A i \in DOMAIN new \ DOMAIN old : new[i].status = "Unqueried"
  BY DEF merge
<1>2. ASSUME NEW i \in DOMAIN new PROVE EntryOf(i, new[i])
  <2>1. CASE i \in DOMAIN old
    BY <1>1, <2>1 DEF Shortlist
  <2>2. CASE i \notin DOMAIN old
    <3> DEFINE c == CHOOSE c \in list : c.id = i
    <3>1. c \in list /\ c.id = i /\ i # self_id
      BY <1>1, <2>2
    <3>2. new[i] = [addr |-> c.addr, status |-> "Unqueried"]
      BY <2>2 DEF merge
    <3> HIDE DEF c, new
    <3> QED
      BY <3>1, <3>2 DEF EntryOf, ContactAddrs, Statuses
  <2> QED
    BY <2>1, <2>2
<1> HIDE DEF new
<1> QED
  BY <1>1, <1>2 DEF new, Shortlist

LEMMA ListContacts ==
  ASSUME NEW n, NEW list \in Lists(n)
  PROVE  list \subseteq Contacts
BY DEF Lists

-----------------------------------------------------------------------------
(* Every step preserves it                                                 *)

LEMMA LInit == Init => LInv
<1> SUFFICES ASSUME Init PROVE LInv
  OBVIOUS
<1>1. LTypeOK
  <2>1. phase = "idle" /\ target \in NodeIds /\ lookups = 0
    BY TargetsAssumption DEF Init
  <2>2. lost \in BOOLEAN
    BY DEF Init
  <2>3. Shortlist(entries)
    BY DEF Init, Shortlist, EmptyMap
  <2> QED
    BY <2>1, <2>2, <2>3 DEF LTypeOK
<1>3. PendingSound
  BY DEF Init, PendingSound, PendingAt, EmptyMap
<1>2. History /\ ResultTop
  BY DEF Init, History, ResultTop, Returned, EmptyMap
<1>4. WaitsExact /\ FailsForCause
  BY DEF Init, WaitsExact, WaitsAt, EmptyMap, FailsForCause,
         OwnDialsNeverFail
<1> QED
  BY <1>1, <1>2, <1>3, <1>4 DEF LInv

LEMMA LStart ==
  ASSUME LInv, NEW t \in Targets, NEW seeds \in Lists(k), run_lookup(t, seeds)
  PROVE  LInv'
<1> USE DEF LInv
<1>1. Shortlist(EmptyMap) /\ DOMAIN EmptyMap = {}
  BY DEF Shortlist, EmptyMap
<1>2. /\ DOMAIN entries' = {c.id : c \in seeds} \ {self_id}
      /\ Shortlist(entries')
      /\ \A i \in DOMAIN entries' : entries'[i].status = "Unqueried"
  <2> DEFINE new == merge(EmptyMap, seeds)
  <2>1. /\ DOMAIN new = DOMAIN EmptyMap \cup ({c.id : c \in seeds} \ {self_id})
        /\ \A i \in DOMAIN new \ DOMAIN EmptyMap :
             new[i].status = "Unqueried"
        /\ Shortlist(new)
    BY <1>1, MergeFacts, ListContacts
  <2>2. entries' = new
    BY DEF run_lookup
  <2> HIDE DEF new
  <2> QED
    BY <1>1, <2>1, <2>2
<1>3. LTypeOK'
  <2>1. phase' = "round" /\ target' \in NodeIds /\ lookups' \in Nat
    BY TargetsAssumption DEF run_lookup, LTypeOK
  <2>2. lost' \in BOOLEAN
    BY DEF run_lookup
  <2>3. Shortlist(entries)'
    BY <1>2 DEF Shortlist
  <2> QED
    BY <2>1, <2>2, <2>3 DEF LTypeOK
<1>4. PendingSound'
  <2>1. pending_queries' = EmptyMap /\ pending_dials' = EmptyMap
    BY DEF run_lookup, PendingSound
  <2> QED
    BY <1>1, <2>1 DEF PendingSound, PendingAt
<1>5. History'
  BY DEF run_lookup, History, Acts
<1>6. ResultTop'
  BY <1>2 DEF run_lookup, ResultTop, Returned
<1>7. WaitsExact' /\ FailsForCause'
  BY <1>2 DEF run_lookup, WaitsExact, WaitsAt, FailsForCause,
              OwnDialsNeverFail
<1> QED
  BY <1>3, <1>4, <1>5, <1>6, <1>7

LEMMA LFinish ==
  ASSUME LInv, finish
  PROVE  LInv'
<1> USE DEF LInv
<1>1. UNCHANGED << target, entries, pending_queries, pending_dials,
                   rounds_left, established, lost, heard, touched, lookups >>
      /\ phase' = "idle" /\ phase = "round" /\ result' = top_k
  BY DEF finish, lookup_vars, host_vars
<1>2. LTypeOK' /\ PendingSound'
  BY <1>1 DEF LTypeOK, PendingSound, PendingAt, Shortlist
<1>3. History'
  BY <1>1 DEF History
<1>4. alpha > 0 => Unqueried(top_k) = {} \/ rounds_left = 0
  BY TopFacts DEF finish, is_done
<1>5. ResultTop'
  BY <1>1, <1>4
     DEF ResultTop, Returned, top_k, Nearest, Nearer, Unqueried
<1>6. WaitsExact' /\ FailsForCause'
  BY <1>1 DEF WaitsExact, WaitsAt, FailsForCause, OwnDialsNeverFail
<1> QED
  BY <1>2, <1>3, <1>5, <1>6

\* The addresses that MarkAll takes from entries.
LEMMA MarkFacts ==
  ASSUME LTypeOK, NEW S \in SUBSET DOMAIN entries
  PROVE  /\ DOMAIN MarkAll(S) = {entries[i].addr : i \in S}
         /\ \A a \in DOMAIN MarkAll(S) :
              MarkAll(S)[a] \in S /\ entries[MarkAll(S)[a]].addr = a
<1>1. DOMAIN MarkAll(S) = {entries[i].addr : i \in S}
  BY DEF MarkAll
<1>2. ASSUME NEW a \in DOMAIN MarkAll(S)
      PROVE  MarkAll(S)[a] \in {i \in S : entries[i].addr = a}
  <2> DEFINE A == {i \in S : entries[i].addr = a}
  <2>1. A # {} /\ A \subseteq S
    BY <1>1
  <2>2. A \subseteq NodeIds /\ IsFiniteSet(A)
    BY <2>1, ShortlistIds, FS_Subset DEF LTypeOK
  <2>3. \E i \in A : \A j \in A : j = i \/ Nearer(j, i)
    <3>1. Cardinality(A) \in Nat \ {0}
      BY <2>1, <2>2, FS_CardinalityType, FS_EmptySet
    \* All but one are nearer than the last.
    <3> DEFINE n == Cardinality(A) - 1
               B == Nearest(n, A)
    <3>2. /\ B \subseteq A /\ Cardinality(B) = n
          /\ \A i \in B, j \in A \ B :
               Numeric(distance(i, target)) < Numeric(distance(j, target))
      <4>1. n \in Nat /\ n <= Cardinality(A)
        BY <3>1
      <4> HIDE DEF n, A
      <4> QED
        BY <2>2, <4>1, NearestFacts DEF LTypeOK
    <3>3. IsFiniteSet(A \ B) /\ Cardinality(A \ B) = 1
      <4>1. A \cap B = B
        BY <3>2
      <4> HIDE DEF A, B
      <4>2. /\ IsFiniteSet(A \ B)
            /\ Cardinality(A \ B) = Cardinality(A) - Cardinality(A \cap B)
        BY <2>2, FS_Difference
      <4> QED
        BY <3>1, <3>2, <4>1, <4>2
    <3>4. PICK i : A \ B = {i}
      <4> HIDE DEF A, B
      <4> QED
        BY <3>3, FS_Singleton
    <3>5. ASSUME NEW j \in A, j # i PROVE Nearer(j, i)
      <4>1. j \in B /\ i \in A \ B /\ i \in A
        BY <3>4, <3>5
      <4>2. Numeric(distance(j, target)) < Numeric(distance(i, target))
        BY <3>2, <4>1
      <4>3. i \in NodeIds /\ j \in NodeIds /\ target \in NodeIds
        BY <2>2, <4>1 DEF LTypeOK
      <4>4. /\ distance(i, target) \in NodeIds
            /\ distance(j, target) \in NodeIds
        BY <4>3, DistanceType
      <4> QED
        BY <4>2, <4>4, CloserIffLess DEF Nearer
    <3> HIDE DEF A
    <3> QED
      BY <3>4, <3>5
  <2>4. Farthest(A) \in A
    <3> HIDE DEF A
    <3> QED
      BY <2>3 DEF Farthest
  <2>5. MarkAll(S)[a] = Farthest(A)
    BY <1>1 DEF MarkAll
  <2> QED
    BY <2>4, <2>5
<1> QED
  BY <1>1, <1>2

\* Addresses of entries are told apart where contacts' are.
LEMMA OneAddress ==
  ASSUME LTypeOK, OwnAddresses, NEW i \in DOMAIN entries,
         NEW j \in DOMAIN entries, entries[i].addr = entries[j].addr
  PROVE  i = j
BY DEF LTypeOK, Shortlist, EntryOf, OwnAddresses

LEMMA OneAddressEach ==
  ASSUME LTypeOK, OwnAddresses, NEW S \in SUBSET DOMAIN entries
  PROVE  ~ (Cardinality({entries[i].addr : i \in S}) < Cardinality(S))
<1> DEFINE T == {entries[i].addr : i \in S}
           f == [i \in S |-> entries[i].addr]
<1>1. IsFiniteSet(S)
  BY ShortlistIds, FS_Subset DEF LTypeOK
<1>2. f \in Bijection(S, T)
  <2>1. \A i, j \in S : f[i] = f[j] => i = j
    BY OneAddress
  <2> QED
    BY <2>1 DEF Bijection, Injection, Surjection, IsInjective
<1> HIDE DEF f, T
<1>3. Cardinality(T) = Cardinality(S)
  BY <1>1, <1>2, FS_Bijection DEF ExistsBijection
<1> QED
  BY <1>1, <1>3, FS_CardinalityType DEF T

LEMMA LAct ==
  ASSUME LInv, act
  PROVE  LInv'
<1> USE DEF LInv
<1> DEFINE queries == {i \in pick_next_alpha : entries[i].addr \in established}
           dials == pick_next_alpha \ queries
<1>1. /\ phase = "round" /\ phase' \in {"drain", "failed"}
      /\ UNCHANGED << target, rounds_left, established, result, heard,
                      lookups >>
  BY DEF act, lookup_vars
<1>2. /\ pick_next_alpha \subseteq DOMAIN entries
      /\ \A i \in pick_next_alpha : entries[i].status = "Unqueried"
  BY TopFacts DEF Unqueried
<1>3. pick_next_alpha \subseteq Ids
  BY <1>2, ShortlistIds DEF LTypeOK
<1>4. CASE phase' = "failed"
  <2>1. UNCHANGED << entries, pending_queries, pending_dials, lost, touched >>
    BY <1>4 DEF act, lookup_vars
  <2>2. LTypeOK' /\ PendingSound'
    BY <1>1, <1>4, <2>1 DEF LTypeOK, PendingSound, PendingAt, Shortlist
  <2>3. History' /\ ResultTop'
    BY <1>1, <1>4, <2>1 DEF History, ResultTop, Returned
  <2>4. WaitsExact'
    BY <2>1 DEF WaitsExact, WaitsAt
  <2>5. FailsForCause'
    <3> SUFFICES ASSUME OwnAddresses, ~ lost
                 PROVE  \E i \in pick_next_alpha :
                          /\ entries[i].addr \in in_flight \cup Unroutable
                          /\ touched[<< "dial", i >>] = 0
      BY <1>1, <1>4, <2>1
         DEF act, FailsForCause, OwnDialsNeverFail, pick_next_alpha, top_k,
             Nearest, Nearer, Unqueried
    <3> DEFINE addrs == {entries[i].addr : i \in dials}
    <3>1. \/ addrs \cap (in_flight \cup Unroutable) # {}
          \/ Cardinality(addrs) < Cardinality(dials)
      BY <1>4 DEF act, DialRefused, AddrsOf
    <3>2. ~ (Cardinality(addrs) < Cardinality(dials))
      BY OneAddressEach, <1>2
    <3>3. PICK i \in dials : entries[i].addr \in in_flight \cup Unroutable
      BY <3>1, <3>2
    <3>4. /\ i \in pick_next_alpha /\ entries[i].addr \notin established
          /\ i \in Ids /\ entries[i].status = "Unqueried"
      BY <1>2, <1>3
    <3>5. touched[<< "dial", i >>] = 0
      BY <1>1, <3>4 DEF History
    <3> QED
      BY <3>3, <3>4, <3>5
  <2> QED
    BY <2>2, <2>3, <2>4, <2>5
<1>5. CASE phase' = "drain"
  <2>1. /\ mark(queries, dials)
        /\ lost' \in BOOLEAN /\ (~ lost' => ~ lost)
    BY <1>5 DEF act, DialAll, LTypeOK
  <2> HIDE DEF queries, dials
  <2>2. /\ queries \subseteq pick_next_alpha /\ dials \subseteq pick_next_alpha
        /\ queries \cap dials = {}
        /\ \A i \in dials : entries[i].addr \notin established
        /\ \A i \in queries : entries[i].addr \in established
    BY DEF queries, dials
  <2>3. /\ DOMAIN entries' = DOMAIN entries
        /\ \A i \in DOMAIN entries :
             /\ entries'[i] \in [addr : ContactAddrs, status : Statuses]
             /\ entries'[i].addr = entries[i].addr
             /\ entries'[i].status = IF i \in queries THEN "InFlight"
                                     ELSE IF i \in dials THEN "Dialing"
                                     ELSE entries[i].status
    <3>1. entries' = [i \in DOMAIN entries |->
             [entries[i] EXCEPT !.status =
                CASE i \in queries -> "InFlight"
                  [] i \in dials -> "Dialing"
                  [] OTHER -> @]]
      BY <2>1 DEF mark
    <3>2. \A i \in DOMAIN entries :
            entries[i] \in [addr : ContactAddrs, status : Statuses]
      BY DEF LTypeOK, Shortlist, EntryOf
    <3> QED
      BY <2>2, <3>1, <3>2 DEF Statuses
  <2>4. LTypeOK'
    <3>1. Shortlist(entries')
      BY <2>3 DEF LTypeOK, Shortlist, EntryOf
    <3> QED
      BY <1>1, <1>5, <2>1, <3>1 DEF LTypeOK, Shortlist
  <2>5. PendingSound'
    <3>1. /\ pending_queries' = MarkAll(queries)
          /\ pending_dials' = MarkAll(dials)
      BY <2>1 DEF mark
    <3>2. \A a \in DOMAIN pending_queries' :
            /\ pending_queries'[a] \in queries
            /\ entries[pending_queries'[a]].addr = a
      BY <1>2, <2>2, <3>1, MarkFacts
    <3>3. \A a \in DOMAIN pending_dials' :
            /\ pending_dials'[a] \in dials
            /\ entries[pending_dials'[a]].addr = a
      BY <1>2, <2>2, <3>1, MarkFacts
    <3> QED
      BY <1>2, <1>5, <2>2, <2>3, <3>2, <3>3 DEF PendingSound, PendingAt
  <2>6. History'
    <3>1. touched \in [Acts -> Nat]
      BY <1>1 DEF History
    <3>2. /\ touched' \in [Acts -> Nat]
          /\ \A i \in Ids :
               /\ touched'[<< "query", i >>] =
                    touched[<< "query", i >>] + (IF i \in queries THEN 1 ELSE 0)
               /\ touched'[<< "dial", i >>] =
                    touched[<< "dial", i >>] + (IF i \in dials THEN 1 ELSE 0)
      BY <2>1, <3>1 DEF mark, Acts
    <3>3. \A i \in Ids : touched'[<< "query", i >>] # 0 =>
            /\ touched'[<< "query", i >>] = 1
            /\ i \in DOMAIN entries'
            /\ entries'[i].status \in {"InFlight", "Done", "Skipped"}
      <4> SUFFICES ASSUME NEW i \in Ids, touched'[<< "query", i >>] # 0
                   PROVE  /\ touched'[<< "query", i >>] = 1
                          /\ i \in DOMAIN entries'
                          /\ entries'[i].status
                               \in {"InFlight", "Done", "Skipped"}
        OBVIOUS
      <4>1. touched[<< "query", i >>] \in Nat
        BY <3>1 DEF Acts
      <4>2. touched[<< "query", i >>] # 0 =>
              /\ touched[<< "query", i >>] = 1 /\ i \in DOMAIN entries
              /\ entries[i].status \in {"InFlight", "Done", "Skipped"}
        BY <1>1 DEF History
      <4>3. i \in queries => i \in DOMAIN entries
                             /\ entries[i].status = "Unqueried"
        BY <1>2, <2>2
      <4>4. touched'[<< "query", i >>] =
              touched[<< "query", i >>] + (IF i \in queries THEN 1 ELSE 0)
        BY <3>2
      <4>5. i \in queries => touched[<< "query", i >>] = 0
        BY <4>2, <4>3
      <4>6. touched'[<< "query", i >>] = 1 /\ i \in DOMAIN entries
        BY <4>1, <4>2, <4>3, <4>4, <4>5
      <4>7. i \in dials => entries[i].status = "Unqueried"
        BY <1>2, <2>2
      <4>8. i \notin queries => touched[<< "query", i >>] # 0
        BY <4>1, <4>4
      <4>9. entries'[i].status \in {"InFlight", "Done", "Skipped"}
        BY <2>3, <4>2, <4>6, <4>7, <4>8
      <4> QED
        BY <2>3, <4>6, <4>9
    <3>4. \A i \in Ids : touched'[<< "dial", i >>] # 0 /\ ~ lost' =>
            /\ touched'[<< "dial", i >>] = 1
            /\ i \in DOMAIN entries'
            /\ entries'[i].status = "Unqueried" =>
                 entries'[i].addr \in established'
      <4> SUFFICES ASSUME NEW i \in Ids, touched'[<< "dial", i >>] # 0,
                          ~ lost'
                   PROVE  /\ touched'[<< "dial", i >>] = 1
                          /\ i \in DOMAIN entries'
                          /\ entries'[i].status = "Unqueried" =>
                               entries'[i].addr \in established'
        OBVIOUS
      <4>1. touched[<< "dial", i >>] \in Nat
        BY <3>1 DEF Acts
      <4>2. touched[<< "dial", i >>] # 0 =>
              /\ touched[<< "dial", i >>] = 1 /\ i \in DOMAIN entries
              /\ entries[i].status = "Unqueried" =>
                   entries[i].addr \in established
        BY <1>1, <2>1 DEF History
      <4>3. i \in dials => /\ i \in DOMAIN entries
                            /\ entries[i].status = "Unqueried"
                            /\ entries[i].addr \notin established
        BY <1>2, <2>2
      <4>4. touched'[<< "dial", i >>] =
              touched[<< "dial", i >>] + (IF i \in dials THEN 1 ELSE 0)
        BY <3>2
      <4>5. i \in dials => touched[<< "dial", i >>] = 0
        BY <4>2, <4>3
      <4>6. touched'[<< "dial", i >>] = 1 /\ i \in DOMAIN entries
        BY <4>1, <4>2, <4>3, <4>4, <4>5
      <4>7. i \notin dials => touched[<< "dial", i >>] # 0
        BY <4>1, <4>4
      <4>8. entries'[i].status = "Unqueried" =>
              entries'[i].addr \in established
        BY <2>3, <4>2, <4>6, <4>7
      <4> QED
        BY <1>1, <2>3, <4>6, <4>8
    <3> QED
      BY <3>2, <3>3, <3>4 DEF History
  <2>7. ResultTop'
    BY <1>1, <1>5, <2>3 DEF ResultTop, Returned
  <2>8. WaitsExact'
    <3> SUFFICES ASSUME OwnAddresses
                 PROVE  /\ WaitsAt(pending_queries, "InFlight")'
                        /\ WaitsAt(pending_dials, "Dialing")'
      BY DEF WaitsExact
    \* Nobody was waited for.
    <3>1. \A i \in DOMAIN entries :
            entries[i].status # "InFlight" /\ entries[i].status # "Dialing"
      BY <1>1 DEF PendingSound, WaitsExact, WaitsAt, EmptyMap
    <3>2. /\ pending_queries' = MarkAll(queries)
          /\ pending_dials' = MarkAll(dials)
      BY <2>1 DEF mark
    <3>3. ASSUME NEW S \in SUBSET DOMAIN entries, NEW i \in S
          PROVE  /\ entries[i].addr \in DOMAIN MarkAll(S)
                 /\ MarkAll(S)[entries[i].addr] = i
      <4>1. entries[i].addr \in DOMAIN MarkAll(S)
        BY DEF MarkAll
      <4> DEFINE j == MarkAll(S)[entries[i].addr]
      <4>2. j \in S /\ entries[j].addr = entries[i].addr
        BY <4>1, MarkFacts
      <4> HIDE DEF j
      <4>3. j = i
        BY <4>2, OneAddress
      <4> QED
        BY <4>1, <4>3 DEF j
    <3>4. queries \subseteq DOMAIN entries /\ dials \subseteq DOMAIN entries
      BY <1>2, <2>2
    <3>5. \A i \in DOMAIN entries :
            /\ entries'[i].status = "InFlight" => i \in queries
            /\ entries'[i].status = "Dialing" => i \in dials
      BY <2>3, <3>1
    <3> QED
      BY <2>3, <3>2, <3>3, <3>4, <3>5 DEF WaitsAt
  <2>9. FailsForCause'
    BY <1>5 DEF FailsForCause, OwnDialsNeverFail
  <2> QED
    BY <2>4, <2>5, <2>6, <2>7, <2>8, <2>9
<1> QED
  BY <1>1, <1>4, <1>5

\* Entries change their status only.
SameEntries(S, status) ==
  /\ DOMAIN entries' = DOMAIN entries
  /\ \A i \in DOMAIN entries :
       /\ entries'[i] \in [addr : ContactAddrs, status : Statuses]
       /\ entries'[i].addr = entries[i].addr
       /\ entries'[i].status = IF i \in S THEN status ELSE entries[i].status

LEMMA WithStatusFacts ==
  ASSUME LTypeOK, NEW S, NEW status \in Statuses,
         entries' = WithStatus(S, status)
  PROVE  SameEntries(S, status) /\ Shortlist(entries)'
<1>1. \A i \in DOMAIN entries :
        entries[i] \in [addr : ContactAddrs, status : Statuses]
  BY DEF LTypeOK, Shortlist, EntryOf
<1>2. SameEntries(S, status)
  BY <1>1 DEF WithStatus, SameEntries
<1>3. Shortlist(entries)'
  BY <1>2 DEF SameEntries, LTypeOK, Shortlist, EntryOf
<1> QED
  BY <1>2, <1>3

LEMMA LEndRound ==
  ASSUME LInv, end_round
  PROVE  LInv'
<1> USE DEF LInv
<1> DEFINE S == Range(pending_queries) \cup Range(pending_dials)
<1>1. /\ phase = "drain" /\ phase' = "round"
      /\ UNCHANGED << target, established, lost, heard, touched, lookups >>
      /\ pending_queries' = EmptyMap /\ pending_dials' = EmptyMap
      /\ entries' = WithStatus(S, "Skipped")
  BY DEF end_round, skip_pending, host_vars
<1>2. SameEntries(S, "Skipped") /\ Shortlist(entries)'
  BY <1>1, WithStatusFacts DEF Statuses
<1>3. LTypeOK'
  BY <1>1, <1>2 DEF LTypeOK
<1>4. PendingSound'
  BY <1>1 DEF PendingSound, PendingAt, EmptyMap
<1>5. History'
  BY <1>1, <1>2 DEF History, SameEntries
<1>6. ResultTop'
  BY <1>1, <1>2 DEF ResultTop, Returned, SameEntries
<1>7. WaitsExact'
  <2> SUFFICES ASSUME OwnAddresses
               PROVE  \A i \in DOMAIN entries' :
                        /\ entries'[i].status # "InFlight"
                        /\ entries'[i].status # "Dialing"
    BY DEF WaitsExact, WaitsAt
  <2>1. \A i \in DOMAIN entries :
          entries[i].status \in {"InFlight", "Dialing"} => i \in S
    BY DEF WaitsExact, WaitsAt, Range
  <2> HIDE DEF S
  <2> QED
    BY <1>2, <2>1 DEF SameEntries
<1>8. FailsForCause'
  BY <1>1 DEF FailsForCause, OwnDialsNeverFail
<1> QED
  BY <1>3, <1>4, <1>5, <1>6, <1>7, <1>8

\* A response adds entries and makes an entry InFlight Done, if any.
LEMMA LResponse ==
  ASSUME LInv, NEW from \in ContactAddrs, NEW list \in Lists(MaxAdvertised),
         drain_response(from, list)
  PROVE  LInv'
<1> USE DEF LInv
<1> DEFINE merged == merge(entries, list)
           done == IF from \in DOMAIN pending_queries
                   THEN {pending_queries[from]} ELSE {}
<1>1. /\ phase = "drain"
      /\ UNCHANGED << phase, target, pending_dials, established, lost,
                      touched, lookups >>
      /\ pending_queries' = Restrict(pending_queries,
                                     DOMAIN pending_queries \ {from})
      /\ heard' = heard \cup ({c.id : c \in list} \ {self_id})
      /\ entries' = IF from \in DOMAIN pending_queries
                    THEN [merged EXCEPT ![pending_queries[from]].status
                                          = "Done"]
                    ELSE merged
  BY DEF drain_response, draining, record_response, host_vars
<1>2. /\ DOMAIN merged = DOMAIN entries \cup ({c.id : c \in list} \ {self_id})
      /\ \A i \in DOMAIN entries : merged[i] = entries[i]
      /\ \A i \in DOMAIN merged \ DOMAIN entries :
           merged[i].status = "Unqueried"
      /\ Shortlist(merged)
  BY MergeFacts, ListContacts DEF LTypeOK
<1>3. \A i \in done : i \in DOMAIN entries /\ entries[i].addr = from
                     /\ entries[i].status = "InFlight"
  BY DEF PendingSound, PendingAt
<1> HIDE DEF merged
<1>4. \A i \in DOMAIN merged : merged[i] \in [addr : ContactAddrs, status : Statuses]
  BY <1>2 DEF Shortlist, EntryOf
<1>5. /\ DOMAIN entries' = DOMAIN merged
      /\ \A i \in DOMAIN merged :
           /\ entries'[i] \in [addr : ContactAddrs, status : Statuses]
           /\ entries'[i].addr = merged[i].addr
           /\ entries'[i].status = IF i \in done THEN "Done"
                                   ELSE merged[i].status
  BY <1>1, <1>2, <1>3, <1>4 DEF Statuses
<1> HIDE DEF done
<1>6. Shortlist(entries)'
  BY <1>2, <1>5 DEF Shortlist, EntryOf
<1>7. LTypeOK'
  BY <1>1, <1>6 DEF LTypeOK
<1>8. \A i \in DOMAIN entries :
        /\ i \in DOMAIN entries' /\ entries'[i].addr = entries[i].addr
        /\ entries'[i].status = IF i \in done THEN "Done"
                                ELSE entries[i].status
  BY <1>2, <1>5
<1>9. PendingSound'
  <2>1. PendingAt(pending_queries, "InFlight")'
    <3> SUFFICES ASSUME NEW a \in DOMAIN pending_queries'
                 PROVE  /\ pending_queries'[a] \in DOMAIN entries'
                        /\ entries'[pending_queries'[a]].addr = a
                        /\ entries'[pending_queries'[a]].status = "InFlight"
      BY DEF PendingAt
    <3>1. /\ a \in DOMAIN pending_queries /\ a # from
          /\ pending_queries'[a] = pending_queries[a]
      BY <1>1 DEF Restrict
    <3>2. /\ pending_queries[a] \in DOMAIN entries
          /\ entries[pending_queries[a]].addr = a
          /\ entries[pending_queries[a]].status = "InFlight"
      BY <3>1 DEF PendingSound, PendingAt
    <3>3. pending_queries[a] \notin done
      BY <1>3, <3>1, <3>2
    <3> QED
      BY <1>8, <3>1, <3>2, <3>3
  <2>2. PendingAt(pending_dials, "Dialing")'
    BY <1>1, <1>3, <1>8 DEF PendingSound, PendingAt
  <2> QED
    BY <1>1, <2>1, <2>2 DEF PendingSound
<1>10. History'
  BY <1>1, <1>3, <1>8 DEF History
<1>11. ResultTop'
  BY <1>1, <1>2, <1>5 DEF ResultTop, Returned
<1>12. WaitsExact'
  <2> SUFFICES ASSUME OwnAddresses, NEW i \in DOMAIN entries'
               PROVE  /\ entries'[i].status = "InFlight" =>
                           /\ entries'[i].addr \in DOMAIN pending_queries'
                           /\ pending_queries'[entries'[i].addr] = i
                      /\ entries'[i].status = "Dialing" =>
                           /\ entries'[i].addr \in DOMAIN pending_dials
                           /\ pending_dials[entries'[i].addr] = i
    BY <1>1 DEF WaitsExact, WaitsAt
  <2>1. CASE i \notin DOMAIN entries
    BY <1>2, <1>3, <1>5, <2>1
  <2>2. CASE i \in done
    BY <1>5, <2>2
  <2>3. CASE i \in DOMAIN entries \ done
    <3>1. /\ entries'[i].addr = entries[i].addr
          /\ entries'[i].status = entries[i].status
      BY <1>8, <2>3
    <3>2. entries[i].status = "InFlight" =>
            /\ entries[i].addr \in DOMAIN pending_queries
            /\ pending_queries[entries[i].addr] = i
            /\ entries[i].addr # from
      BY <2>3 DEF WaitsExact, WaitsAt, done
    <3>3. entries[i].status = "Dialing" =>
            /\ entries[i].addr \in DOMAIN pending_dials
            /\ pending_dials[entries[i].addr] = i
      BY <2>3 DEF WaitsExact, WaitsAt
    <3> QED
      BY <1>1, <3>1, <3>2, <3>3 DEF Restrict
  <2> QED
    BY <2>1, <2>2, <2>3
<1>13. FailsForCause'
  BY <1>1 DEF FailsForCause, OwnDialsNeverFail
<1> QED
  BY <1>7, <1>9, <1>10, <1>11, <1>12, <1>13

\* A dialled peer is to be asked, now that it is connected.
LEMMA LHandshake ==
  ASSUME LInv, NEW addr \in ContactAddrs, NEW gone \in AtMostOne(established),
         drain_handshake(addr, gone)
  PROVE  LInv'
<1> USE DEF LInv
<1> DEFINE S == IF addr \in DOMAIN pending_dials THEN {pending_dials[addr]}
                ELSE {}
<1>1. /\ phase = "drain"
      /\ UNCHANGED << phase, target, pending_queries, heard, touched, lookups >>
      /\ pending_dials' = Restrict(pending_dials, DOMAIN pending_dials \ {addr})
      /\ established' = (established \ gone) \cup {addr}
      /\ lost' = (lost \/ gone # {})
  BY DEF drain_handshake, draining, complete_dial, HandshakeCompletes
<1>2. SameEntries(S, "Unqueried") /\ Shortlist(entries)'
  <2>1. CASE addr \in DOMAIN pending_dials
    <3>1. entries' = WithStatus(S, "Unqueried")
      BY <2>1 DEF drain_handshake, complete_dial
    <3> HIDE DEF S
    <3> QED
      BY <3>1, WithStatusFacts DEF Statuses
  <2>2. CASE addr \notin DOMAIN pending_dials
    <3>1. entries' = entries /\ S = {}
      BY <2>2 DEF drain_handshake, complete_dial
    <3> QED
      BY <3>1 DEF SameEntries, LTypeOK, Shortlist, EntryOf
  <2> QED
    BY <2>1, <2>2
<1>3. \A i \in S : i \in DOMAIN entries /\ entries[i].addr = addr
                  /\ entries[i].status = "Dialing"
  BY DEF PendingSound, PendingAt
<1> HIDE DEF S
<1>4. lost' \in BOOLEAN /\ (~ lost' => ~ lost /\ gone = {})
  BY <1>1 DEF LTypeOK
<1>5. LTypeOK'
  BY <1>1, <1>2, <1>4 DEF LTypeOK
<1>6. PendingSound'
  <2>1. PendingAt(pending_dials, "Dialing")'
    <3> SUFFICES ASSUME NEW a \in DOMAIN pending_dials'
                 PROVE  /\ pending_dials'[a] \in DOMAIN entries'
                        /\ entries'[pending_dials'[a]].addr = a
                        /\ entries'[pending_dials'[a]].status = "Dialing"
      BY DEF PendingAt
    <3>1. /\ a \in DOMAIN pending_dials /\ a # addr
          /\ pending_dials'[a] = pending_dials[a]
      BY <1>1 DEF Restrict
    <3>2. /\ pending_dials[a] \in DOMAIN entries
          /\ entries[pending_dials[a]].addr = a
          /\ entries[pending_dials[a]].status = "Dialing"
      BY <3>1 DEF PendingSound, PendingAt
    <3>3. pending_dials[a] \notin S
      BY <1>3, <3>1, <3>2
    <3> QED
      BY <1>2, <3>1, <3>2, <3>3 DEF SameEntries
  <2>2. PendingAt(pending_queries, "InFlight")'
    BY <1>1, <1>2, <1>3 DEF PendingSound, PendingAt, SameEntries
  <2> QED
    BY <1>1, <2>1, <2>2 DEF PendingSound
<1>7. History'
  <2>1. /\ touched \in [Acts -> Nat] /\ touched' = touched
        /\ phase' = "drain"
    BY <1>1 DEF History
  <2>2. \A i \in Ids : touched[<< "query", i >>] # 0 =>
          /\ touched[<< "query", i >>] = 1
          /\ i \in DOMAIN entries'
          /\ entries'[i].status \in {"InFlight", "Done", "Skipped"}
    BY <1>1, <1>2, <1>3 DEF History, SameEntries
  <2>3. \A i \in Ids : touched[<< "dial", i >>] # 0 /\ ~ lost' =>
          /\ touched[<< "dial", i >>] = 1
          /\ i \in DOMAIN entries'
          /\ entries'[i].status = "Unqueried" =>
               entries'[i].addr \in established'
    <3> SUFFICES ASSUME NEW i \in Ids, touched[<< "dial", i >>] # 0, ~ lost'
                 PROVE  /\ touched[<< "dial", i >>] = 1
                        /\ i \in DOMAIN entries'
                        /\ entries'[i].status = "Unqueried" =>
                             entries'[i].addr \in established'
      OBVIOUS
    <3>1. /\ touched[<< "dial", i >>] = 1 /\ i \in DOMAIN entries
          /\ entries[i].status = "Unqueried" =>
               entries[i].addr \in established
      BY <1>1, <1>4 DEF History
    <3>2. established \subseteq established' /\ addr \in established'
      BY <1>1, <1>4
    <3> QED
      BY <1>2, <1>3, <3>1, <3>2 DEF SameEntries
  <2> QED
    BY <2>1, <2>2, <2>3 DEF History
<1>8. ResultTop'
  BY <1>1, <1>2 DEF ResultTop, Returned, SameEntries
<1>9. WaitsExact'
  <2> SUFFICES ASSUME OwnAddresses, NEW i \in DOMAIN entries'
               PROVE  /\ entries'[i].status = "InFlight" =>
                           /\ entries'[i].addr \in DOMAIN pending_queries
                           /\ pending_queries[entries'[i].addr] = i
                      /\ entries'[i].status = "Dialing" =>
                           /\ entries'[i].addr \in DOMAIN pending_dials'
                           /\ pending_dials'[entries'[i].addr] = i
    BY <1>1 DEF WaitsExact, WaitsAt
  <2>1. /\ i \in DOMAIN entries
        /\ entries'[i].addr = entries[i].addr
        /\ entries'[i].status = IF i \in S THEN "Unqueried"
                                ELSE entries[i].status
    BY <1>2 DEF SameEntries
  <2>2. entries[i].status = "InFlight" =>
          /\ entries[i].addr \in DOMAIN pending_queries
          /\ pending_queries[entries[i].addr] = i
    BY <2>1 DEF WaitsExact, WaitsAt
  <2>3. entries[i].status = "Dialing" /\ i \notin S =>
          /\ entries[i].addr \in DOMAIN pending_dials
          /\ pending_dials[entries[i].addr] = i
          /\ entries[i].addr # addr
    BY <2>1 DEF WaitsExact, WaitsAt, S
  <2> QED
    BY <1>1, <2>1, <2>2, <2>3 DEF Restrict
<1>10. FailsForCause'
  BY <1>1 DEF FailsForCause, OwnDialsNeverFail
<1> QED
  BY <1>5, <1>6, <1>7, <1>8, <1>9, <1>10

\* The Host's tables change; a connection it had is lost only with lost.
LEMMA LHost ==
  ASSUME LInv, phase' = phase,
         phase = "failed" => UNCHANGED host_vars,
         UNCHANGED << lookup_vars, rounds_left, result, heard, touched,
                      lookups >>,
         lost' \in BOOLEAN, ~ lost' => ~ lost /\ established \subseteq established'
  PROVE  LInv'
<1> USE DEF LInv, lookup_vars
<1>1. LTypeOK' /\ PendingSound'
  BY DEF LTypeOK, PendingSound, PendingAt, Shortlist
<1>2. History'
  BY DEF History
<1>3. ResultTop'
  BY DEF ResultTop, Returned, top_k, Nearest, Nearer, Unqueried
<1>4. WaitsExact'
  BY DEF WaitsExact, WaitsAt
<1>5. FailsForCause'
  BY DEF FailsForCause, OwnDialsNeverFail, host_vars, pick_next_alpha,
         top_k, Nearest, Nearer, Unqueried
<1> QED
  BY <1>1, <1>2, <1>3, <1>4, <1>5

LEMMA LHostSteps ==
  ASSUME LInv, drain_other \/ application
  PROVE  LInv'
<1>1. /\ phase' = phase /\ phase # "failed"
      /\ UNCHANGED << lookup_vars, rounds_left, result, heard, touched,
                      lookups >>
  BY DEF drain_other, draining, application
<1>2. \/ UNCHANGED host_vars
      \/ \E addr, gone : HandshakeBegins(addr, gone)
      \/ \E addr, gone : HandshakeCompletes(addr, gone)
      \/ lost' = TRUE
  BY DEF drain_other, application
<1>3. lost' \in BOOLEAN
  BY <1>2 DEF LInv, LTypeOK, host_vars, HandshakeBegins, HandshakeCompletes
<1>4. ~ lost' => ~ lost /\ established \subseteq established'
  BY <1>2 DEF LInv, LTypeOK, host_vars, HandshakeBegins, HandshakeCompletes
<1> QED
  BY <1>1, <1>3, <1>4, LHost

-----------------------------------------------------------------------------
(* Theorems                                                                *)

LEMMA LNext ==
  ASSUME LInv, [Next]_vars
  PROVE  LInv'
<1>1. CASE Start
  BY <1>1, LStart DEF Start
<1>2. CASE Step
  BY <1>2, LFinish, LAct, LEndRound DEF Step
<1>3. CASE Recv
  BY <1>3, LResponse, LHandshake, LHostSteps DEF Recv
<1>4. CASE application
  BY <1>4, LHostSteps
<1>5. CASE UNCHANGED vars
  <2>1. lost \in BOOLEAN
    BY DEF LInv, LTypeOK
  <2> QED
    BY <1>5, <2>1, LHost DEF vars, host_vars
<1> QED
  BY <1>1, <1>2, <1>3, <1>4, <1>5 DEF Next

\* The inductive invariant: pending queries and dials belong to entries that
\* say so, a peer that was asked or dialled is past it, what was returned
\* are the nearest entries and, with an address each, whoever is waited for
\* is pending and no dial of the lookup's own makes it fail.
THEOREM LInvHolds == Spec => []LInv
BY LInit, LNext, PTL DEF Spec

\* For any contacts, advertised as often and answering as late as they like:
\* no peer is asked twice in a lookup, nor dialled twice unless the Host
\* evicted somebody meanwhile.
THEOREM TouchedTwiceHolds == Spec => []TouchedTwice
<1>1. LInv => TouchedTwice
  <2> SUFFICES ASSUME LInv, NEW x \in DOMAIN touched
               PROVE  touched[x] <= 1 \/ (x[1] = "dial" /\ lost)
    BY DEF TouchedTwice
  <2>1. /\ touched \in [Acts -> Nat]
        /\ \A i \in Ids : touched[<< "query", i >>] # 0 =>
             touched[<< "query", i >>] = 1
        /\ \A i \in Ids : touched[<< "dial", i >>] # 0 /\ ~ lost =>
             touched[<< "dial", i >>] = 1
    BY DEF LInv, History
  <2>2. PICK a \in {"query", "dial"}, i \in Ids : x = << a, i >>
    BY <2>1 DEF Acts
  <2>3. x[1] = a /\ touched[x] \in Nat
    BY <2>1, <2>2
  <2>4. CASE a = "query"
    BY <2>1, <2>2, <2>3, <2>4
  <2>5. CASE a = "dial"
    BY <2>1, <2>2, <2>3, <2>5
  <2> QED
    BY <2>2, <2>4, <2>5
<1> QED
  BY <1>1, LInvHolds, PTL

\* Where every contact has an address of its own: an entry is InFlight, or
\* Dialing, exactly as long as its query, or its dial, is pending, and none
\* survives its round.  (Without the hypothesis the second mark of an address
\* replaces the first, whose entry then stays as it is.)
THEOREM PendingExactHolds ==
  ASSUME OwnAddresses
  PROVE  Spec => []PendingExact
<1>1. LInv => PendingExact
  <2> SUFFICES ASSUME LInv
               PROVE  /\ Waiting("InFlight") = Range(pending_queries)
                      /\ Waiting("Dialing") = Range(pending_dials)
                      /\ phase # "drain" => ~ has_pending
    BY DEF PendingExact
  <2>1. phase # "drain" => ~ has_pending
    BY DEF LInv, PendingSound, has_pending
  <2>2. ASSUME NEW pending, NEW status, PendingAt(pending, status),
               WaitsAt(pending, status)
        PROVE  Waiting(status) = Range(pending)
    BY <2>2 DEF PendingAt, WaitsAt, Waiting, Range
  <2> QED
    BY <2>1, <2>2 DEF LInv, PendingSound, WaitsExact
<1> QED
  BY <1>1, LInvHolds, PTL

\* Where every contact has an address of its own: a lookup that fails, and
\* takes the node with it, lost an entry of the Host to an eviction, or met a
\* handshake that is not its own.
THEOREM OwnDialsNeverFailHolds ==
  ASSUME OwnAddresses
  PROVE  Spec => []OwnDialsNeverFail
<1>1. LInv => OwnDialsNeverFail
  BY DEF LInv, FailsForCause
<1> QED
  BY <1>1, LInvHolds, PTL

\* What a lookup returns are the k nearest of everybody it was told of, for
\* identifiers of any width; and, where every contact has an address of its
\* own, all of them were asked or given up unless the rounds ran out, or alpha
\* is 0.
THEOREM ResultNearestHolds ==
  ASSUME OwnAddresses
  PROVE  Spec => []ResultNearest
<1>1. LInv => ResultNearest
  <2> SUFFICES ASSUME LInv, Returned
               PROVE  /\ result \subseteq heard
                      /\ Cardinality(result) = Min({k, Cardinality(heard)})
                      /\ \A i \in result, j \in heard \ result :
                           Numeric(distance(i, target))
                             < Numeric(distance(j, target))
                      /\ alpha > 0 /\ rounds_left > 0 => \A i \in result :
                           entries[i].status \in {"Done", "Skipped"}
    BY DEF ResultNearest
  <2>1. /\ result = Nearest(k, heard) /\ heard = DOMAIN entries
        /\ alpha > 0 /\ rounds_left > 0 => Unqueried(result) = {}
    BY DEF LInv, ResultTop, top_k
  <2>2. heard \subseteq NodeIds /\ IsFiniteSet(heard) /\ target \in NodeIds
    BY <2>1, ShortlistIds DEF LInv, LTypeOK
  <2>3. /\ result \subseteq heard
        /\ Cardinality(result) =
             IF k <= Cardinality(heard) THEN k ELSE Cardinality(heard)
        /\ \A i \in result, j \in heard \ result :
             Numeric(distance(i, target)) < Numeric(distance(j, target))
    BY <2>1, <2>2, NearestFacts, ConfigAssumption
  <2>4. Cardinality(result) = Min({k, Cardinality(heard)})
    <3>1. k \in Nat /\ Cardinality(heard) \in Nat
      BY <2>2, FS_CardinalityType, ConfigAssumption
    <3> QED
      BY <2>3, <3>1 DEF Min
  <2>5. ASSUME alpha > 0, rounds_left > 0, NEW i \in result
        PROVE  entries[i].status \in {"Done", "Skipped"}
    <3>1. i \in DOMAIN entries /\ entries[i].status # "Unqueried"
      BY <2>1, <2>3, <2>5 DEF Unqueried
    <3>2. pending_queries = EmptyMap /\ pending_dials = EmptyMap
      BY DEF Returned, LInv, PendingSound
    <3>3. entries[i].status # "InFlight" /\ entries[i].status # "Dialing"
      BY <3>1, <3>2 DEF LInv, WaitsExact, WaitsAt, EmptyMap
    <3> QED
      BY <3>1, <3>3 DEF LInv, LTypeOK, Shortlist, EntryOf, Statuses
  <2> QED
    BY <2>3, <2>4, <2>5
<1> QED
  BY <1>1, LInvHolds, PTL

\* The counters of the rounds and of the drain of each.
Counted ==
  /\ rounds_left \in Nat /\ budget \in Nat
  /\ phase = "drain" => rounds_left > 0

LEMMA CountedHolds == Spec => []Counted
<1>1. Init => Counted
  BY DEF Init, Counted
<1>2. Counted /\ [Next]_vars => Counted'
  <2> SUFFICES ASSUME Counted, [Next]_vars PROVE Counted'
    OBVIOUS
  <2> USE ConfigAssumption DEF Counted
  <2>1. CASE Start
    BY <2>1 DEF Start, run_lookup
  <2>2. CASE finish
    BY <2>2 DEF finish
  <2>3. CASE act
    BY <2>3 DEF act
  <2>4. CASE end_round
    BY <2>4 DEF end_round
  <2>5. CASE Recv
    BY <2>5 DEF Recv, draining, drain_response, drain_handshake, drain_other
  <2>6. CASE application
    BY <2>6 DEF application
  <2>7. CASE UNCHANGED vars
    BY <2>7 DEF vars
  <2> QED
    BY <2>1, <2>2, <2>3, <2>4, <2>5, <2>6, <2>7 DEF Next, Step
<1> QED
  BY <1>1, <1>2, PTL DEF Spec

\* LookupAdvances: whatever arrives in its drains, a lookup takes at most
\* StepsLeft steps more, each one a step nearer to its end.
THEOREM LookupAdvancesHolds == Spec => LookupAdvances
<1> DEFINE R == max_recv_per_round + 2
           Advance ==
             (phase \in {"round", "drain"}) =>
               \/ phase' \in {"idle", "failed"}
               \/ StepsLeft' < StepsLeft
<1>1. R \in Nat /\ max_recv_per_round \in Nat
  BY ConfigAssumption
<1>2. ASSUME Counted, [Next]_vars PROVE [Advance]_vars
  <2> SUFFICES ASSUME Next, phase \in {"round", "drain"} PROVE Advance
    BY <1>2
  <2> USE <1>1, <1>2 DEF Counted
  <2>1. rounds_left * R \in Nat
    BY SMT
  <2>2. CASE finish
    BY <2>2 DEF finish
  <2>3. CASE act
    <3>1. CASE phase' = "failed"
      BY <3>1
    <3>2. CASE phase = "round" /\ phase' = "drain" /\ rounds_left' = rounds_left
               /\ budget' = max_recv_per_round
      BY <2>1, <3>2 DEF StepsLeft
    <3> QED
      BY <2>3, <3>1, <3>2 DEF act
  <2>4. CASE end_round
    <3>1. /\ phase = "drain" /\ phase' = "round"
          /\ rounds_left' = rounds_left - 1 /\ rounds_left > 0
      BY <2>4 DEF end_round
    <3>2. rounds_left' * R = rounds_left * R - R
      BY <3>1
    <3> QED
      BY <2>1, <3>1, <3>2 DEF StepsLeft
  <2>5. CASE Recv
    <3>1. /\ phase = "drain" /\ phase' = "drain" /\ rounds_left' = rounds_left
          /\ budget' = budget - 1
      BY <2>5 DEF Recv, draining, drain_response, drain_handshake, drain_other
    <3> QED
      BY <2>1, <3>1 DEF StepsLeft
  <2> QED
    BY <2>2, <2>3, <2>4, <2>5
       DEF Next, Start, run_lookup, Step, application
<1>3. [][Advance]_vars => LookupAdvances
  BY PTL DEF LookupAdvances
<1> QED
  BY <1>2, <1>3, CountedHolds, PTL DEF Spec

=============================================================================
