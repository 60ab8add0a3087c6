---------------------------- MODULE RoutingTable ----------------------------
(***************************************************************************)
(* Kademlia's k-buckets and routing table (libp2p-cat-kad: bucket.rs,      *)
(* routing_table.rs).                                                      *)
(*                                                                         *)
(* A bucket is a sequence of entries, the most recently seen first; a      *)
(* table has one bucket for every bit position.                            *)
(***************************************************************************)
EXTENDS XorDistance, Sequences

CONSTANTS k   \* replication factor: the capacity of a bucket

ASSUME KAssumption == k \in Nat

-----------------------------------------------------------------------------
(* bucket.rs                                                               *)

Entry(id, addr) == [id |-> id, addr |-> addr]

\* Whether the bucket (or any sequence of entries) has node.
contains(bucket, node) == \E i \in DOMAIN bucket : bucket[i].id = node

bucket_remove(bucket, node) ==
  LET kept[n \in 0 .. Len(bucket)] ==
        IF n = 0 THEN << >>
        ELSE IF bucket[n].id = node THEN kept[n - 1]
        ELSE Append(kept[n - 1], bucket[n])
  IN kept[Len(bucket)]

\* Mutant: a known peer keeps its place.
bucket_insert_in_place(bucket, node, addr) ==
  IF contains(bucket, node)
  THEN [i \in DOMAIN bucket |->
          IF bucket[i].id = node THEN Entry(node, addr) ELSE bucket[i]]
  ELSE IF Len(bucket) < k
       THEN << Entry(node, addr) >> \o bucket
       ELSE bucket

\* Mutant: a newcomer replaces the last peer.
bucket_insert_evict(bucket, node, addr) ==
  LET others == bucket_remove(bucket, node) IN
  << Entry(node, addr) >> \o
    (IF Len(others) < k THEN others ELSE SubSeq(others, 1, k - 1))

\* A known node moves to the front with the address just given (Updated), a
\* new one is put there if there is room (Added); a full bucket stays as it
\* is (BucketFull).
bucket_insert(bucket, node, addr) ==
  IF contains(bucket, node)
  THEN << Entry(node, addr) >> \o bucket_remove(bucket, node)
  ELSE IF Len(bucket) < k
       THEN << Entry(node, addr) >> \o bucket
       ELSE bucket

-----------------------------------------------------------------------------
(* routing_table.rs                                                        *)

EmptyRoutingTable == [i \in Positions |-> << >>]

\* Mutant: buckets are counted from the other end.
insert_reversed(table, peer, addr) ==
  IF peer = self_id THEN table
  ELSE [table EXCEPT ![leading_zeros(distance(self_id, peer))] =
          bucket_insert(@, peer, addr)]

\* Inserting self_id changes nothing.
insert(table, peer, addr) ==
  IF peer = self_id THEN table
  ELSE [table EXCEPT ![bucket_index(distance(self_id, peer))] =
          bucket_insert(@, peer, addr)]

remove(table, peer) ==
  IF peer = self_id THEN table
  ELSE [table EXCEPT ![bucket_index(distance(self_id, peer))] =
          bucket_remove(@, peer)]

\* Every entry of every bucket.
Tracked(table) == UNION {Range(table[i]) : i \in Positions}

TrackedIds(table) == {e.id : e \in Tracked(table)}

\* The entries of S that are closer to target than e.
CloserThan(S, target, e) ==
  {f \in S : Closer(distance(f.id, target), distance(e.id, target))}

\* S sorted by distance to target, the first max_count of them.
SortedByDistance(S, target, max_count) ==
  [n \in 1 .. Min({max_count, Cardinality(S)}) |->
     CHOOSE e \in S : Cardinality(CloserThan(S, target, e)) = n - 1]

\* Mutant: only the target's own bucket is searched.
closest_to_bucketwise(table, target, max_count) ==
  LET home == IF target = self_id THEN 0
              ELSE bucket_index(distance(self_id, target))
  IN SortedByDistance(Range(table[home]), target, max_count)

closest_to(table, target, max_count) ==
  SortedByDistance(Tracked(table), target, max_count)

=============================================================================
