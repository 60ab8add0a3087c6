-------------------------- MODULE Kademlia_proofs ---------------------------
(***************************************************************************)
(* Proofs about KademliaNode, for identifiers of any width, buckets of any *)
(* size and any peers, addresses and frames: the codec returns what was    *)
(* encoded and refuses a frame that was cut short, the routing table stays *)
(* sound, and answers are exact.                                           *)
(*                                                                         *)
(* And about MultiProtocolNode, which is one with a lookup and other       *)
(* protocols beside it, for any lookup configuration and any traffic: the  *)
(* lookups that the node drives are those of module Lookup, its routing    *)
(* table stays sound, and nothing but a piece for a relay ends the node    *)
(* while a lookup drains.                                                  *)
(***************************************************************************)
EXTENDS MultiProtocolNode, Values_proofs

\* The addresses of the peers, as they are and as the wire returns them.
KnownAddrs == Addrs \cup {Unscoped(addr) : addr \in Addrs}

\* The nodes that a frame may come from or name.
Known == Peers \cup {self_id}

Entries == [id : Known, addr : KnownAddrs]

LEMMA KnownIds == Known \subseteq NodeIds
BY PeersAssumption, SelfAssumption DEF Known

-----------------------------------------------------------------------------
(* The inductive invariant                                                 *)

\* The identifiers that belong in bucket i.
Home(i) ==
  {id \in Known : /\ i \in distance(self_id, id)
                  /\ \A j \in distance(self_id, id) : j <= i}

BucketAt(bucket, i) ==
  /\ bucket \in Seq(Entries) /\ Len(bucket) <= k
  /\ \A m \in 1 .. Len(bucket) : bucket[m].id \in Home(i)
  /\ \A m, n \in 1 .. Len(bucket) : bucket[m].id = bucket[n].id => m = n

TableOK(tab) ==
  /\ tab \in [Positions -> Seq(Entries)]
  /\ \A i \in Positions : BucketAt(tab[i], i)

BucketRecent(bucket, history) ==
  \A m, n \in 1 .. Len(bucket) :
    m <= n => << bucket[m].id, bucket[n].id >> \in history

Recent(tab, history) == \A i \in Positions : BucketRecent(tab[i], history)

\* Whoever is in one table is in the other.
Kept(tab, next) ==
  \A i \in Positions : \A m \in 1 .. Len(tab[i]) :
    \E n \in 1 .. Len(next[i]) : next[i][n].id = tab[i][m].id

-----------------------------------------------------------------------------
(* Buckets                                                                 *)

LEMMA ConsFacts ==
  ASSUME NEW S, NEW e \in S, NEW s \in Seq(S)
  PROVE  /\ << e >> \o s \in Seq(S) /\ Len(<< e >> \o s) = Len(s) + 1
         /\ (<< e >> \o s)[1] = e
         /\ \A m \in 2 .. (Len(s) + 1) : (<< e >> \o s)[m] = s[m - 1]
<1>1. << e >> \in Seq(S) /\ Len(<< e >>) = 1 /\ << e >>[1] = e
  OBVIOUS
<1>2. Len(s) \in Nat
  OBVIOUS
<1> QED
  BY <1>1, <1>2, ConcatProperties

\* What q keeps of the first n entries of bucket: all but node's, in order.
KeptOf(bucket, node, n, q) ==
  /\ q \in Seq(Entries) /\ Len(q) <= n
  /\ (\E p \in 1 .. n : bucket[p].id = node) => Len(q) < n
  /\ \A m \in 1 .. Len(q) : \E p \in 1 .. n : q[m] = bucket[p] /\ q[m].id # node
  /\ \A m, m2 \in 1 .. Len(q) : m < m2 =>
       \E p, p2 \in 1 .. n : p < p2 /\ q[m] = bucket[p] /\ q[m2] = bucket[p2]
  /\ \A p \in 1 .. n : bucket[p].id # node =>
       \E m \in 1 .. Len(q) : q[m] = bucket[p]

LEMMA KeptNext ==
  ASSUME NEW bucket \in Seq(Entries), NEW node, NEW n \in 0 .. (Len(bucket) - 1),
         NEW q, KeptOf(bucket, node, n, q)
  PROVE  KeptOf(bucket, node, n + 1,
                IF bucket[n + 1].id = node THEN q ELSE Append(q, bucket[n + 1]))
<1>1. /\ q \in Seq(Entries) /\ Len(q) \in Nat /\ Len(q) <= n
      /\ bucket[n + 1] \in Entries /\ n \in Nat
  BY DEF KeptOf
<1>2. 1 .. (n + 1) = (1 .. n) \cup {n + 1}
  BY <1>1
<1>3. CASE bucket[n + 1].id = node
  BY <1>1, <1>2, <1>3 DEF KeptOf
<1>4. CASE bucket[n + 1].id # node
  <2> DEFINE r == Append(q, bucket[n + 1])
  <2>1. /\ r \in Seq(Entries) /\ Len(r) = Len(q) + 1
        /\ r[Len(q) + 1] = bucket[n + 1]
        /\ \A m \in 1 .. Len(q) : r[m] = q[m]
    BY <1>1, AppendProperties
  <2>2. 1 .. Len(r) = (1 .. Len(q)) \cup {Len(q) + 1}
    BY <1>1, <2>1
  <2> HIDE DEF r
  <2>3. (\E p \in 1 .. (n + 1) : bucket[p].id = node) => Len(r) < n + 1
    BY <1>1, <1>2, <1>4, <2>1 DEF KeptOf
  <2>4. \A m \in 1 .. Len(r) :
          \E p \in 1 .. (n + 1) : r[m] = bucket[p] /\ r[m].id # node
    <3> TAKE m \in 1 .. Len(r)
    <3>1. CASE m \in 1 .. Len(q)
      <4>1. PICK p \in 1 .. n : q[m] = bucket[p] /\ q[m].id # node
        BY <3>1 DEF KeptOf
      <4> QED
        BY <1>2, <2>1, <3>1, <4>1
    <3>2. CASE m = Len(q) + 1
      BY <1>2, <1>4, <2>1, <3>2
    <3> QED
      BY <2>2, <3>1, <3>2
  <2>5. ASSUME NEW m \in 1 .. Len(r), NEW m2 \in 1 .. Len(r), m < m2
        PROVE  \E p, p2 \in 1 .. (n + 1) :
                 p < p2 /\ r[m] = bucket[p] /\ r[m2] = bucket[p2]
    <3>1. m \in 1 .. Len(q) /\ r[m] = q[m]
      BY <1>1, <2>1, <2>2, <2>5
    <3>2. CASE m2 \in 1 .. Len(q)
      <4>1. PICK p \in 1 .. n, p2 \in 1 .. n :
              p < p2 /\ q[m] = bucket[p] /\ q[m2] = bucket[p2]
        BY <2>5, <3>1, <3>2 DEF KeptOf
      <4> QED
        BY <1>2, <2>1, <3>1, <3>2, <4>1
    <3>3. CASE m2 = Len(q) + 1
      <4>1. PICK p \in 1 .. n : q[m] = bucket[p]
        BY <3>1 DEF KeptOf
      <4>2. p < n + 1 /\ p \in 1 .. (n + 1) /\ n + 1 \in 1 .. (n + 1)
        BY <1>1
      <4> QED
        BY <2>1, <3>1, <3>3, <4>1, <4>2
    <3> QED
      BY <2>2, <3>2, <3>3
  <2>6. \A p \in 1 .. (n + 1) : bucket[p].id # node =>
          \E m \in 1 .. Len(r) : r[m] = bucket[p]
    BY <1>2, <2>1, <2>2 DEF KeptOf
  <2>7. Len(r) <= n + 1
    BY <1>1, <2>1
  <2>8. KeptOf(bucket, node, n + 1, r)
    BY <2>1, <2>3, <2>4, <2>5, <2>6, <2>7 DEF KeptOf
  <2> QED
    BY <1>4, <2>8 DEF r
<1> QED
  BY <1>3, <1>4

LEMMA RemoveFacts ==
  ASSUME NEW bucket \in Seq(Entries), NEW node
  PROVE  KeptOf(bucket, node, Len(bucket), bucket_remove(bucket, node))
<1> DEFINE N == Len(bucket)
           Def(f) == f = [n \in 0 .. N |->
                       IF n = 0 THEN << >>
                       ELSE IF bucket[n].id = node THEN f[n - 1]
                       ELSE Append(f[n - 1], bucket[n])]
           step == [x \in (1 .. N) \X Seq(Entries) |->
                       IF bucket[x[1]].id = node THEN x[2]
                       ELSE Append(x[2], bucket[x[1]])]
           kept == CHOOSE f : Def(f)
<1>1. N \in Nat /\ << >> \in Seq(Entries)
  OBVIOUS
<1>2. step \in [(1 .. N) \X Seq(Entries) -> Seq(Entries)]
  OBVIOUS
<1>3. \E f : Def(f)
  <2>1. PICK f : Computes(f, N, Seq(Entries), << >>, step)
    <3> HIDE DEF N, step
    <3> QED
      BY <1>1, <1>2, Recursion
  <2>2. \A n \in 1 .. N :
          f[n] = IF bucket[n].id = node THEN f[n - 1]
                 ELSE Append(f[n - 1], bucket[n])
    <3> TAKE n \in 1 .. N
    <3>1. f[n - 1] \in Seq(Entries) /\ f[n] = step[<< n, f[n - 1] >>]
      <4> HIDE DEF N, step, Def, kept
      <4>1. n - 1 \in 0 .. N
        BY <1>1
      <4>2. f \in [0 .. N -> Seq(Entries)] /\ f[n] = step[<< n, f[n - 1] >>]
        BY <2>1 DEF Computes
      <4> HIDE DEF Computes
      <4> QED
        BY <4>1, <4>2
    <3> QED
      BY <3>1
  <2>3. Def(f)
    <3>1. f = [n \in 0 .. N |-> f[n]] /\ f[0] = << >>
      BY <2>1 DEF Computes
    <3>2. \A n \in 0 .. N :
            f[n] = IF n = 0 THEN << >>
                   ELSE IF bucket[n].id = node THEN f[n - 1]
                   ELSE Append(f[n - 1], bucket[n])
      BY <1>1, <2>2, <3>1
    <3> HIDE DEF N
    <3> QED
      BY <3>1, <3>2
  <2> QED
    BY <2>3
<1>4. Def(kept)
  <2> HIDE DEF Def
  <2> QED
    BY <1>3
<1>5. bucket_remove(bucket, node) = kept[N]
  BY DEF bucket_remove
<1> HIDE DEF kept
<1> DEFINE T == {n \in 0 .. N : KeptOf(bucket, node, n, kept[n])}
<1>6. 0 \in T
  <2>1. kept[0] = << >>
    BY <1>1, <1>4
  <2>2. KeptOf(bucket, node, 0, << >>)
    BY <1>1 DEF KeptOf
  <2> QED
    BY <1>1, <2>1, <2>2
<1>7. ASSUME NEW n \in 0 .. (N - 1), n \in T PROVE n + 1 \in T
  <2>1. /\ n + 1 \in 0 .. N /\ n + 1 # 0 /\ (n + 1) - 1 = n
    BY <1>1
  <2>2. kept[n + 1] = IF bucket[n + 1].id = node THEN kept[n]
                      ELSE Append(kept[n], bucket[n + 1])
    <3> HIDE DEF N
    <3> QED
      BY <1>4, <2>1
  <2>3. KeptOf(bucket, node, n + 1, kept[n + 1])
    BY <1>7, <2>2, KeptNext
  <2> QED
    BY <2>1, <2>3
<1>8. 0 .. N \subseteq T
  <2> HIDE DEF T, N
  <2> QED
    BY <1>1, <1>6, <1>7, Induction
<1> QED
  BY <1>1, <1>5, <1>8

\* What a bucket becomes: sound, nobody pushed out, ordered by recency.
LEMMA BucketInsert ==
  ASSUME NEW i \in Positions, NEW bucket, BucketAt(bucket, i),
         NEW node \in Home(i), NEW addr \in KnownAddrs,
         NEW history, BucketRecent(bucket, history)
  PROVE  LET next == bucket_insert(bucket, node, addr)
         IN /\ BucketAt(next, i)
            /\ \A m \in 1 .. Len(bucket) :
                 \E n \in 1 .. Len(next) : next[n].id = bucket[m].id
            /\ BucketRecent(next, OfferOne(history, node))
<1> DEFINE next == bucket_insert(bucket, node, addr)
           e == Entry(node, addr)
           N == Len(bucket)
           h == OfferOne(history, node)
<1>1. /\ bucket \in Seq(Entries) /\ N \in Nat /\ N <= k
      /\ e \in Entries /\ e.id = node /\ node \in Known
  BY DEF BucketAt, Entry, Entries, Home
<1>2. node # self_id
  BY DEF Home, distance
<1>3. /\ h = {p \in history : p[2] # node}
             \cup ({node} \X (EverOffered(history) \cup {node}))
  BY <1>2 DEF OfferOne
<1>4. ASSUME NEW x, NEW y, << x, y >> \in history, y # node
      PROVE  << x, y >> \in h
  BY <1>3, <1>4
<1>5. << node, node >> \in h
  BY <1>3
<1>6. ASSUME NEW y, << y, y >> \in history PROVE << node, y >> \in h
  BY <1>3, <1>6 DEF EverOffered
<1>7. ASSUME NEW q, KeptOf(bucket, node, N, q), Len(q) < k,
             next = << e >> \o q
      PROVE  /\ BucketAt(next, i)
             /\ \A m \in 1 .. N : \E n \in 1 .. Len(next) :
                  next[n].id = bucket[m].id
             /\ BucketRecent(next, h)
  <2>0. q \in Seq(Entries) /\ Len(q) \in Nat
    BY <1>7 DEF KeptOf
  <2>1. /\ q \in Seq(Entries) /\ Len(q) \in Nat
        /\ \A m \in 1 .. Len(q) : \E p \in 1 .. N :
             q[m] = bucket[p] /\ q[m].id # node
        /\ \A m, m2 \in 1 .. Len(q) : m < m2 =>
             \E p, p2 \in 1 .. N :
               p < p2 /\ q[m] = bucket[p] /\ q[m2] = bucket[p2]
        /\ \A p \in 1 .. N : bucket[p].id # node =>
             \E m \in 1 .. Len(q) : q[m] = bucket[p]
    BY <1>7, <2>0, Zenon DEF KeptOf
  <2>2. /\ next \in Seq(Entries) /\ Len(next) = Len(q) + 1 /\ next[1] = e
        /\ \A m \in 2 .. (Len(q) + 1) : next[m] = q[m - 1]
    BY <1>1, <1>7, <2>1, ConsFacts
  <2> HIDE DEF next, e, N, h
  <2>3. \A m \in 1 .. Len(next) :
          m = 1 \/ (m \in 2 .. (Len(q) + 1) /\ m - 1 \in 1 .. Len(q))
    BY <2>1, <2>2
  <2>4. Len(next) <= k
    BY <1>7, <2>1, <2>2, KAssumption
  <2>5. ASSUME NEW m \in 1 .. Len(next) PROVE next[m].id \in Home(i)
    <3>1. CASE m = 1
      BY <1>1, <2>2, <3>1
    <3>2. CASE m # 1
      <4>1. PICK p \in 1 .. N : q[m - 1] = bucket[p]
        BY <2>1, <2>3, <3>2
      <4> QED
        BY <2>2, <2>3, <3>2, <4>1 DEF BucketAt, N
    <3> QED
      BY <3>1, <3>2
  <2>6. ASSUME NEW m \in 1 .. Len(next), NEW n \in 1 .. Len(next), m < n
        PROVE  /\ next[m].id # next[n].id
               /\ << next[m].id, next[n].id >> \in h
    <3>1. n # 1 /\ n \in 2 .. (Len(q) + 1) /\ n - 1 \in 1 .. Len(q)
      BY <2>1, <2>2, <2>3, <2>6
    <3>2. CASE m = 1
      <4>1. PICK p \in 1 .. N : q[n - 1] = bucket[p] /\ q[n - 1].id # node
        BY <2>1, <3>1
      <4>2. next[m].id = node /\ next[n].id = bucket[p].id
        BY <1>1, <2>2, <3>1, <3>2, <4>1
      <4>3. << bucket[p].id, bucket[p].id >> \in history
        BY <1>1 DEF BucketRecent, N
      <4> QED
        BY <1>6, <4>1, <4>2, <4>3
    <3>3. CASE m # 1
      <4>1. m \in 2 .. (Len(q) + 1) /\ m - 1 \in 1 .. Len(q) /\ m - 1 < n - 1
        BY <2>1, <2>2, <2>3, <2>6, <3>1, <3>3
      <4>2. PICK p \in 1 .. N, p2 \in 1 .. N :
              p < p2 /\ q[m - 1] = bucket[p] /\ q[n - 1] = bucket[p2]
        BY <2>1, <3>1, <4>1
      <4>3. next[m].id = bucket[p].id /\ next[n].id = bucket[p2].id
        BY <2>2, <3>1, <4>1, <4>2
      <4>4. bucket[p2].id # node
        BY <2>1, <3>1, <4>2
      <4>5. bucket[p].id # bucket[p2].id
        BY <1>1, <4>2 DEF BucketAt, N
      <4>6. << bucket[p].id, bucket[p2].id >> \in history
        BY <1>1, <4>2 DEF BucketRecent, N
      <4> QED
        BY <1>4, <4>3, <4>4, <4>5, <4>6
    <3> QED
      BY <3>2, <3>3
  <2>7. ASSUME NEW m \in 1 .. Len(next)
        PROVE  << next[m].id, next[m].id >> \in h
    <3>1. CASE m = 1
      BY <1>1, <1>5, <2>2, <3>1
    <3>2. CASE m # 1
      <4>1. PICK p \in 1 .. N : q[m - 1] = bucket[p] /\ q[m - 1].id # node
        BY <2>1, <2>3, <3>2
      <4>2. << bucket[p].id, bucket[p].id >> \in history
        BY <1>1 DEF BucketRecent, N
      <4>3. next[m].id = bucket[p].id /\ bucket[p].id # node
        BY <2>2, <2>3, <3>2, <4>1
      <4> QED
        BY <1>4, <4>2, <4>3
    <3> QED
      BY <3>1, <3>2
  <2>8. \A m, n \in 1 .. Len(next) : m \in Int /\ n \in Int
    OBVIOUS
  <2>9. BucketAt(next, i)
    <3>1. \A m, n \in 1 .. Len(next) : next[m].id = next[n].id => m = n
      <4> SUFFICES ASSUME NEW m \in 1 .. Len(next), NEW n \in 1 .. Len(next),
                          m # n
                   PROVE  next[m].id # next[n].id
        OBVIOUS
      <4>1. m < n \/ n < m
        BY <2>8
      <4> QED
        BY <2>6, <4>1
    <3> QED
      BY <2>2, <2>4, <2>5, <3>1 DEF BucketAt
  <2>10. BucketRecent(next, h)
    BY <2>6, <2>7, <2>8 DEF BucketRecent
  <2>11. ASSUME NEW m \in 1 .. N
         PROVE  \E n \in 1 .. Len(next) : next[n].id = bucket[m].id
    <3>1. CASE bucket[m].id = node
      <4>1. 1 \in 1 .. Len(next)
        BY <2>1, <2>2
      <4> QED
        BY <1>1, <2>2, <3>1, <4>1
    <3>2. CASE bucket[m].id # node
      <4>1. PICK n \in 1 .. Len(q) : q[n] = bucket[m]
        BY <2>1, <3>2
      <4>2. n + 1 \in 2 .. (Len(q) + 1) /\ (n + 1) - 1 = n
            /\ n + 1 \in 1 .. Len(next)
        BY <2>1, <2>2
      <4> QED
        BY <2>2, <4>1, <4>2
    <3> QED
      BY <3>1, <3>2
  <2> QED
    BY <2>9, <2>10, <2>11
<1>8. DOMAIN bucket = 1 .. N
  BY <1>1
<1>9. CASE contains(bucket, node)
  <2> DEFINE q == bucket_remove(bucket, node)
  <2>1. KeptOf(bucket, node, N, q)
    BY <1>1, RemoveFacts
  <2>2. Len(q) < k
    <3> HIDE DEF q
    <3>1. Len(q) < N /\ Len(q) \in Nat
      BY <1>8, <1>9, <2>1 DEF contains, KeptOf
    <3> QED
      BY <1>1, <3>1, KAssumption
  <2>3. next = << e >> \o q
    BY <1>9 DEF bucket_insert
  <2> HIDE DEF q, next, e, N, h
  <2> QED
    BY <1>7, <2>1, <2>2, <2>3 DEF next, N, h
<1>10. CASE ~ contains(bucket, node) /\ N < k
  <2>1. KeptOf(bucket, node, N, bucket)
    BY <1>1, <1>8, <1>10 DEF contains, KeptOf
  <2>2. next = << e >> \o bucket
    BY <1>10 DEF bucket_insert
  <2> HIDE DEF next, e, N, h
  <2> QED
    BY <1>7, <1>10, <2>1, <2>2 DEF next, N, h
<1>11. CASE ~ contains(bucket, node) /\ ~ N < k
  <2>1. next = bucket
    BY <1>11 DEF bucket_insert
  <2>2. BucketRecent(bucket, h)
    <3> HIDE DEF h
    <3> QED
      BY <1>4, <1>8, <1>11 DEF BucketRecent, contains
  <2> HIDE DEF next, h
  <2> QED
    BY <2>1, <2>2 DEF next, h
<1> QED
  BY <1>9, <1>10, <1>11

\* What is left of a bucket.
LEMMA BucketRemove ==
  ASSUME NEW i \in Positions, NEW bucket, BucketAt(bucket, i), NEW node,
         NEW history, BucketRecent(bucket, history)
  PROVE  LET next == bucket_remove(bucket, node)
         IN /\ BucketAt(next, i)
            /\ \A m \in 1 .. Len(bucket) : bucket[m].id # node =>
                 \E n \in 1 .. Len(next) : next[n].id = bucket[m].id
            /\ BucketRecent(next, history)
<1> DEFINE next == bucket_remove(bucket, node)
           N == Len(bucket)
<1>1. bucket \in Seq(Entries) /\ N \in Nat /\ N <= k
  BY DEF BucketAt
<1>2. KeptOf(bucket, node, N, next)
  BY <1>1, RemoveFacts
<1> HIDE DEF next
<1>3. /\ next \in Seq(Entries) /\ Len(next) \in Nat /\ Len(next) <= N
      /\ \A m \in 1 .. Len(next) : \E p \in 1 .. N : next[m] = bucket[p]
      /\ \A m, m2 \in 1 .. Len(next) : m < m2 =>
           \E p, p2 \in 1 .. N :
             p < p2 /\ next[m] = bucket[p] /\ next[m2] = bucket[p2]
      /\ \A p \in 1 .. N : bucket[p].id # node =>
           \E m \in 1 .. Len(next) : next[m] = bucket[p]
  BY <1>2 DEF KeptOf
<1> HIDE DEF N
<1>4. Len(next) <= k
  BY <1>1, <1>3, KAssumption
<1>5. \A m \in 1 .. Len(next) : next[m].id \in Home(i)
  BY <1>3 DEF BucketAt, N
<1>6. ASSUME NEW m \in 1 .. Len(next), NEW n \in 1 .. Len(next), m < n
      PROVE  /\ next[m].id # next[n].id
             /\ << next[m].id, next[n].id >> \in history
  <2>1. PICK p \in 1 .. N, p2 \in 1 .. N :
          p < p2 /\ next[m] = bucket[p] /\ next[n] = bucket[p2]
    BY <1>3, <1>6
  <2>2. bucket[p].id # bucket[p2].id
    BY <1>1, <2>1 DEF BucketAt, N
  <2>3. << bucket[p].id, bucket[p2].id >> \in history
    BY <1>1, <2>1 DEF BucketRecent, N
  <2> QED
    BY <2>1, <2>2, <2>3
<1>7. ASSUME NEW m \in 1 .. Len(next)
      PROVE  << next[m].id, next[m].id >> \in history
  <2>1. PICK p \in 1 .. N : next[m] = bucket[p]
    BY <1>3
  <2>2. << bucket[p].id, bucket[p].id >> \in history
    BY <1>1 DEF BucketRecent, N
  <2> QED
    BY <2>1, <2>2
<1>8. \A m, n \in 1 .. Len(next) : m < n \/ m = n \/ n < m
  OBVIOUS
<1>9. \A m, n \in 1 .. Len(next) : next[m].id = next[n].id => m = n
  BY <1>6, <1>8
<1>10. BucketAt(next, i)
  BY <1>3, <1>4, <1>5, <1>9 DEF BucketAt
<1>11. \A m, n \in 1 .. Len(next) : m <= n => m < n \/ m = n
  OBVIOUS
<1>12. BucketRecent(next, history)
  BY <1>6, <1>7, <1>11 DEF BucketRecent
<1>13. \A m \in 1 .. Len(bucket) : bucket[m].id # node =>
         \E n \in 1 .. Len(next) : next[n].id = bucket[m].id
  <2> SUFFICES ASSUME NEW m \in 1 .. N, bucket[m].id # node
               PROVE  \E n \in 1 .. Len(next) : next[n].id = bucket[m].id
    BY DEF N
  <2>1. PICK n \in 1 .. Len(next) : next[n] = bucket[m]
    BY <1>3
  <2> QED
    BY <2>1
<1> QED
  BY <1>10, <1>12, <1>13 DEF next

-----------------------------------------------------------------------------
(* The routing table                                                       *)

LEMMA BucketIndex ==
  ASSUME NEW peer \in Known, peer # self_id
  PROVE  /\ bucket_index(distance(self_id, peer)) \in Positions
         /\ peer \in Home(bucket_index(distance(self_id, peer)))
<1> DEFINE d == distance(self_id, peer)
<1>1. d \in NodeIds /\ d # {}
  BY KnownIds, DistanceType, SelfAssumption DEF distance
<1>2. Max(d) \in d /\ (\A j \in d : j <= Max(d)) /\ Max(d) \in Positions
  BY <1>1, MaxPosition DEF NodeIds
<1>3. bucket_index(d) = Max(d)
  <2>1. Max(d) \in Int /\ NODE_ID_BITS \in Int
    BY <1>2, BitsAssumption DEF Positions
  <2> HIDE DEF d
  <2> QED
    BY <1>1, <2>1 DEF bucket_index, leading_zeros
<1> QED
  BY <1>2, <1>3 DEF Home

LEMMA HomeUnique ==
  ASSUME NEW i \in Positions, NEW j \in Positions, NEW peer \in Home(i),
         peer \in Home(j)
  PROVE  i = j
<1>1. i <= j /\ j <= i
  BY DEF Home
<1> QED
  BY <1>1 DEF Positions

\* A peer is offered to the table.
LEMMA TableInsert ==
  ASSUME NEW tab, TableOK(tab), NEW history, Recent(tab, history),
         NEW peer \in Known, NEW addr \in KnownAddrs
  PROVE  /\ TableOK(insert(tab, peer, addr))
         /\ Recent(insert(tab, peer, addr), OfferOne(history, peer))
         /\ Kept(tab, insert(tab, peer, addr))
<1>1. CASE peer = self_id
  BY <1>1 DEF insert, OfferOne, Kept
<1>2. CASE peer # self_id
  <2> DEFINE x == bucket_index(distance(self_id, peer))
             next == insert(tab, peer, addr)
             h == OfferOne(history, peer)
             new == bucket_insert(tab[x], peer, addr)
  <2>1. x \in Positions /\ peer \in Home(x)
    BY <1>2, BucketIndex
  <2>2. /\ BucketAt(new, x)
        /\ \A m \in 1 .. Len(tab[x]) :
             \E n \in 1 .. Len(new) : new[n].id = tab[x][m].id
        /\ BucketRecent(new, h)
    <3>1. BucketAt(tab[x], x) /\ BucketRecent(tab[x], history)
      BY <2>1 DEF TableOK, Recent
    <3> HIDE DEF x
    <3> QED
      BY <2>1, <3>1, BucketInsert
  <2>3. /\ next = [tab EXCEPT ![x] = new]
        /\ tab \in [Positions -> Seq(Entries)]
    BY <1>2 DEF insert, TableOK
  <2>4. h = {p \in history : p[2] # peer}
              \cup ({peer} \X (EverOffered(history) \cup {peer}))
    BY <1>2 DEF OfferOne
  <2> HIDE DEF x, next, new, h
  <2>5. /\ next \in [Positions -> Seq(Entries)] /\ next[x] = new
        /\ \A i \in Positions : i # x => next[i] = tab[i]
    BY <2>1, <2>2, <2>3 DEF BucketAt
  <2>6. ASSUME NEW i \in Positions, i # x
        PROVE  BucketAt(next[i], i) /\ BucketRecent(next[i], h)
    <3>1. next[i] = tab[i] /\ BucketAt(tab[i], i)
          /\ BucketRecent(tab[i], history)
      BY <2>5, <2>6 DEF TableOK, Recent
    <3>2. \A m \in 1 .. Len(tab[i]) : tab[i][m].id # peer
      BY <2>1, <2>6, <3>1, HomeUnique DEF BucketAt
    <3>3. BucketRecent(tab[i], h)
      BY <2>4, <3>1, <3>2 DEF BucketRecent
    <3> QED
      BY <3>1, <3>3
  <2>7. TableOK(next)
    BY <2>2, <2>5, <2>6 DEF TableOK
  <2>8. Recent(next, h)
    BY <2>2, <2>5, <2>6 DEF Recent
  <2>9. Kept(tab, next)
    BY <2>2, <2>5 DEF Kept
  <2> QED
    BY <2>7, <2>8, <2>9 DEF next, h
<1> QED
  BY <1>1, <1>2

LEMMA TableRemove ==
  ASSUME NEW tab, TableOK(tab), NEW history, Recent(tab, history),
         NEW peer \in Known
  PROVE  /\ TableOK(remove(tab, peer))
         /\ Recent(remove(tab, peer), history)
         /\ \A i \in Positions : \A m \in 1 .. Len(tab[i]) :
              \/ tab[i][m].id = peer
              \/ \E n \in 1 .. Len(remove(tab, peer)[i]) :
                   remove(tab, peer)[i][n].id = tab[i][m].id
<1>1. CASE peer = self_id
  BY <1>1 DEF remove
<1>2. CASE peer # self_id
  <2> DEFINE x == bucket_index(distance(self_id, peer))
             next == remove(tab, peer)
             new == bucket_remove(tab[x], peer)
  <2>1. x \in Positions
    BY <1>2, BucketIndex
  <2>2. /\ BucketAt(new, x)
        /\ \A m \in 1 .. Len(tab[x]) : tab[x][m].id # peer =>
             \E n \in 1 .. Len(new) : new[n].id = tab[x][m].id
        /\ BucketRecent(new, history)
    <3>1. BucketAt(tab[x], x) /\ BucketRecent(tab[x], history)
      BY <2>1 DEF TableOK, Recent
    <3> HIDE DEF x
    <3> QED
      BY <2>1, <3>1, BucketRemove
  <2>3. /\ next = [tab EXCEPT ![x] = new]
        /\ tab \in [Positions -> Seq(Entries)]
    BY <1>2 DEF remove, TableOK
  <2> HIDE DEF x, next, new
  <2>4. /\ next \in [Positions -> Seq(Entries)] /\ next[x] = new
        /\ \A i \in Positions : i # x => next[i] = tab[i]
    BY <2>1, <2>2, <2>3 DEF BucketAt
  <2>5. TableOK(next)
    BY <2>2, <2>4 DEF TableOK
  <2>6. Recent(next, history)
    BY <2>2, <2>4 DEF Recent
  <2>7. \A i \in Positions : \A m \in 1 .. Len(tab[i]) :
          \/ tab[i][m].id = peer
          \/ \E n \in 1 .. Len(next[i]) : next[i][n].id = tab[i][m].id
    BY <2>2, <2>4
  <2> QED
    BY <2>5, <2>6, <2>7 DEF next
<1> QED
  BY <1>1, <1>2

Histories == SUBSET (Known \X Known)

LEMMA OfferType ==
  ASSUME NEW history \in Histories, NEW id \in Known
  PROVE  OfferOne(history, id) \in Histories
<1>1. EverOffered(history) \subseteq Known
  BY DEF EverOffered, Histories
<1> QED
  BY <1>1 DEF OfferOne, Histories

LEMMA EntryFields ==
  ASSUME NEW peers \in Seq(Entries), NEW n \in 1 .. Len(peers)
  PROVE  peers[n].id \in Known /\ peers[n].addr \in KnownAddrs
<1>1. peers[n] \in Entries
  OBVIOUS
<1> QED
  BY <1>1 DEF Entries

\* insert_all, one peer after the other.
InsertsAll(f, tab, peers) ==
  f = [n \in 0 .. Len(peers) |->
         IF n = 0 THEN tab
         ELSE insert(f[n - 1], peers[n].id, peers[n].addr)]

LEMMA InsertAllComputed ==
  ASSUME NEW tab, TableOK(tab), NEW peers \in Seq(Entries)
  PROVE  \E f : InsertsAll(f, tab, peers)
                /\ insert_all(tab, peers) = f[Len(peers)]
<1> DEFINE N == Len(peers)
           D == {t \in [Positions -> Seq(Entries)] : TableOK(t)}
           step == [x \in (1 .. N) \X D |->
                      insert(x[2], peers[x[1]].id, peers[x[1]].addr)]
<1>1. N \in Nat /\ tab \in D
  BY DEF TableOK
<1>2. step \in [(1 .. N) \X D -> D]
  <2> SUFFICES ASSUME NEW x \in (1 .. N) \X D
               PROVE  insert(x[2], peers[x[1]].id, peers[x[1]].addr) \in D
    OBVIOUS
  <2>1. /\ TableOK(x[2]) /\ peers[x[1]].id \in Known
        /\ peers[x[1]].addr \in KnownAddrs
    BY EntryFields
  <2>2. Recent(x[2], Known \X Known)
    BY <2>1 DEF TableOK, BucketAt, Recent, BucketRecent, Home
  <2>3. TableOK(insert(x[2], peers[x[1]].id, peers[x[1]].addr))
    BY <2>1, <2>2, TableInsert
  <2> QED
    BY <2>3 DEF TableOK
<1>3. PICK g : Computes(g, N, D, tab, step)
  <2> HIDE DEF N, D, step
  <2> QED
    BY <1>1, <1>2, Recursion
<1>4. \A n \in 1 .. N :
        g[n] = insert(g[n - 1], peers[n].id, peers[n].addr)
  <2> TAKE n \in 1 .. N
  <2>1. g[n - 1] \in D /\ g[n] = step[<< n, g[n - 1] >>]
    <3> HIDE DEF N, D, step
    <3> QED
      BY <1>1, <1>3 DEF Computes
  <2> HIDE DEF D
  <2> QED
    BY <2>1
<1>5. InsertsAll(g, tab, peers)
  <2>1. g = [n \in 0 .. N |-> g[n]] /\ g[0] = tab
    <3> HIDE DEF N, D, step
    <3> QED
      BY <1>3 DEF Computes
  <2>2. \A n \in 0 .. N :
          g[n] = IF n = 0 THEN tab
                 ELSE insert(g[n - 1], peers[n].id, peers[n].addr)
    <3> HIDE DEF D, step
    <3> QED
      BY <1>1, <1>4, <2>1
  <2> HIDE DEF D, step
  <2> QED
    BY <2>1, <2>2 DEF InsertsAll
<1> DEFINE f == CHOOSE f : InsertsAll(f, tab, peers)
<1>6. InsertsAll(f, tab, peers)
  BY <1>5
<1>7. insert_all(tab, peers) = f[N]
  BY DEF insert_all, InsertsAll
<1> HIDE DEF f
<1> QED
  BY <1>6, <1>7

\* Offer, one peer after the other.
OffersAll(f, history, peers) ==
  f = [n \in 0 .. Len(peers) |->
         IF n = 0 THEN history ELSE OfferOne(f[n - 1], peers[n].id)]

LEMMA OfferComputed ==
  ASSUME NEW history \in Histories, NEW peers \in Seq(Entries)
  PROVE  \E f : OffersAll(f, history, peers)
                /\ Offer(history, peers) = f[Len(peers)]
<1> DEFINE N == Len(peers)
           step == [x \in (1 .. N) \X Histories |->
                      OfferOne(x[2], peers[x[1]].id)]
<1>1. N \in Nat
  OBVIOUS
<1>2. step \in [(1 .. N) \X Histories -> Histories]
  <2> SUFFICES ASSUME NEW x \in (1 .. N) \X Histories
               PROVE  OfferOne(x[2], peers[x[1]].id) \in Histories
    OBVIOUS
  <2>1. peers[x[1]].id \in Known
    BY EntryFields
  <2> QED
    BY <2>1, OfferType
<1>3. PICK g : Computes(g, N, Histories, history, step)
  <2> HIDE DEF N, step
  <2> QED
    BY <1>1, <1>2, Recursion
<1>4. \A n \in 1 .. N : g[n] = OfferOne(g[n - 1], peers[n].id)
  <2> TAKE n \in 1 .. N
  <2>1. g[n - 1] \in Histories /\ g[n] = step[<< n, g[n - 1] >>]
    <3> HIDE DEF N, step
    <3> QED
      BY <1>1, <1>3 DEF Computes
  <2> QED
    BY <2>1
<1>5. OffersAll(g, history, peers)
  <2>1. g = [n \in 0 .. N |-> g[n]] /\ g[0] = history
    <3> HIDE DEF N, step
    <3> QED
      BY <1>3 DEF Computes
  <2>2. \A n \in 0 .. N :
          g[n] = IF n = 0 THEN history ELSE OfferOne(g[n - 1], peers[n].id)
    BY <1>1, <1>4, <2>1
  <2> HIDE DEF step
  <2> QED
    BY <2>1, <2>2 DEF OffersAll
<1> DEFINE f == CHOOSE f : OffersAll(f, history, peers)
<1>6. OffersAll(f, history, peers)
  BY <1>5
<1>7. Offer(history, peers) = f[N]
  BY DEF Offer, OffersAll
<1> HIDE DEF f
<1> QED
  BY <1>6, <1>7

LEMMA KeptTransitive ==
  ASSUME NEW t, NEW u, NEW v, Kept(t, u), Kept(u, v)
  PROVE  Kept(t, v)
<1> SUFFICES ASSUME NEW i \in Positions, NEW m \in 1 .. Len(t[i])
             PROVE  \E n \in 1 .. Len(v[i]) : v[i][n].id = t[i][m].id
  BY DEF Kept
<1>1. PICK n \in 1 .. Len(u[i]) : u[i][n].id = t[i][m].id
  BY DEF Kept
<1>2. PICK n2 \in 1 .. Len(v[i]) : v[i][n2].id = u[i][n].id
  BY DEF Kept
<1> QED
  BY <1>1, <1>2

\* Peers are offered to the table one after the other.
LEMMA TableInsertAll ==
  ASSUME NEW tab, TableOK(tab), NEW history \in Histories,
         Recent(tab, history), NEW peers \in Seq(Entries)
  PROVE  /\ TableOK(insert_all(tab, peers))
         /\ Offer(history, peers) \in Histories
         /\ Recent(insert_all(tab, peers), Offer(history, peers))
         /\ Kept(tab, insert_all(tab, peers))
<1> DEFINE N == Len(peers)
<1>1. PICK f : InsertsAll(f, tab, peers) /\ insert_all(tab, peers) = f[N]
  BY InsertAllComputed
<1>2. PICK g : OffersAll(g, history, peers) /\ Offer(history, peers) = g[N]
  BY OfferComputed
<1>3. N \in Nat
  OBVIOUS
<1> DEFINE T == {n \in 0 .. N : /\ TableOK(f[n]) /\ g[n] \in Histories
                                /\ Recent(f[n], g[n]) /\ Kept(tab, f[n])}
<1>4. 0 \in T
  <2>1. f[0] = tab /\ g[0] = history
    BY <1>1, <1>2, <1>3 DEF InsertsAll, OffersAll
  <2>2. Kept(tab, tab)
    BY DEF Kept
  <2> QED
    BY <1>3, <2>1, <2>2
<1>5. ASSUME NEW n \in 0 .. (N - 1), n \in T PROVE n + 1 \in T
  <2>1. n + 1 \in 0 .. N /\ n + 1 # 0 /\ (n + 1) - 1 = n /\ n + 1 \in 1 .. N
    BY <1>3
  <2> DEFINE e == peers[n + 1]
  <2>2. /\ f[n + 1] = insert(f[n], e.id, e.addr)
        /\ g[n + 1] = OfferOne(g[n], e.id)
    BY <1>1, <1>2, <2>1 DEF InsertsAll, OffersAll
  <2>3. e.id \in Known /\ e.addr \in KnownAddrs
    BY <2>1, EntryFields
  <2> HIDE DEF e
  <2>4. /\ TableOK(f[n]) /\ g[n] \in Histories
        /\ Recent(f[n], g[n]) /\ Kept(tab, f[n])
    BY <1>5
  <2>5. /\ TableOK(f[n + 1]) /\ Recent(f[n + 1], g[n + 1])
        /\ Kept(f[n], f[n + 1])
    BY <2>2, <2>3, <2>4, TableInsert
  <2>6. g[n + 1] \in Histories
    BY <2>2, <2>3, <2>4, OfferType
  <2>7. Kept(tab, f[n + 1])
    BY <2>4, <2>5, KeptTransitive
  <2> QED
    BY <2>1, <2>5, <2>6, <2>7
<1>6. 0 .. N \subseteq T
  <2> HIDE DEF N, T
  <2> QED
    BY <1>3, <1>4, <1>5, Induction
<1>7. N \in T
  BY <1>3, <1>6
<1> QED
  BY <1>1, <1>2, <1>7

-----------------------------------------------------------------------------
(* Identifiers                                                             *)

LEMMA ByteBits ==
  /\ BYTE_BITS \in Nat \ {0} /\ NODE_ID_LEN \in Nat \ {0}
  /\ NODE_ID_BITS = NODE_ID_LEN * BYTE_BITS /\ BYTE_BITS <= NODE_ID_BITS
<1>1. /\ BYTE_BITS \in Nat /\ NODE_ID_LEN \in Nat \ {0}
      /\ NODE_ID_BITS = NODE_ID_LEN * BYTE_BITS /\ NODE_ID_BITS \in Nat \ {0}
  BY NodeIdLenAssumption, BitsAssumption
<1>2. BYTE_BITS # 0
  BY <1>1
<1>3. BYTE_BITS <= NODE_ID_LEN * BYTE_BITS
  BY <1>1
<1> QED
  BY <1>1, <1>2, <1>3

\* Every position is one of a byte.
LEMMA PositionInByte ==
  ASSUME NEW w \in Nat \ {0}, NEW len \in Nat, NEW x \in Nat, x < len * w
  PROVE  \E q \in 0 .. (len - 1), p \in 0 .. (w - 1) : x = q * w + p
<1> DEFINE T == {n \in 0 .. len : x < n * w =>
                   \E q \in 0 .. (n - 1), p \in 0 .. (w - 1) : x = q * w + p}
<1>1. 0 \in T
  OBVIOUS
<1>2. ASSUME NEW n \in 0 .. (len - 1), n \in T PROVE n + 1 \in T
  <2> SUFFICES ASSUME x < (n + 1) * w
               PROVE  \E q \in 0 .. ((n + 1) - 1), p \in 0 .. (w - 1) :
                        x = q * w + p
    OBVIOUS
  <2>1. CASE x < n * w
    <3>1. PICK q \in 0 .. (n - 1), p \in 0 .. (w - 1) : x = q * w + p
      BY <1>2, <2>1
    <3>2. q \in 0 .. ((n + 1) - 1)
      OBVIOUS
    <3> QED
      BY <3>1, <3>2
  <2>2. CASE ~ (x < n * w)
    <3>1. n * w \in Nat /\ (n + 1) * w = n * w + w
      OBVIOUS
    <3> DEFINE p == x - n * w
    <3>2. p \in 0 .. (w - 1) /\ x = n * w + p /\ n \in 0 .. ((n + 1) - 1)
      BY <2>2, <3>1
    <3> HIDE DEF p
    <3> QED
      BY <3>2
  <2> QED
    BY <2>1, <2>2
<1>3. 0 .. len \subseteq T
  <2> HIDE DEF T
  <2> QED
    BY <1>1, <1>2, Induction
<1> QED
  BY <1>3

LEMMA IdBytes ==
  ASSUME NEW id
  PROVE  as_bytes(id) \in Seq(Nat) /\ Len(as_bytes(id)) = NODE_ID_LEN
<1>1. as_bytes(id) \in [1 .. NODE_ID_LEN -> Nat]
  BY NumericType DEF as_bytes
<1> QED
  BY <1>1, ByteBits, FunctionIsSeq

\* An identifier is read as it was written.
LEMMA IdRoundTrip ==
  ASSUME NEW id \in NodeIds
  PROVE  from_bytes(as_bytes(id)) = id
<1> SUFFICES ASSUME NEW other \in NodeIds, as_bytes(other) = as_bytes(id)
             PROVE  other = id
  BY DEF from_bytes
<1> DEFINE Block(a, i) == {p \in 0 .. (BYTE_BITS - 1) :
                             (NODE_ID_LEN - i) * BYTE_BITS + p \in a}
<1>1. ASSUME NEW i \in 1 .. NODE_ID_LEN
      PROVE  Block(id, i) = Block(other, i)
  <2>1. as_bytes(id)[i] = Numeric(Block(id, i))
        /\ as_bytes(other)[i] = Numeric(Block(other, i))
    BY DEF as_bytes
  <2>2. Block(id, i) \in NodeIds /\ Block(other, i) \in NodeIds
    BY ByteBits DEF NodeIds, Positions
  <2> HIDE DEF Block
  <2>3. Numeric(Block(id, i)) = Numeric(Block(other, i))
    BY <2>1
  <2>4. /\ distance(Block(id, i), {}) = Block(id, i)
        /\ distance(Block(other, i), {}) = Block(other, i) /\ {} \in NodeIds
    BY DEF distance, NodeIds
  <2> QED
    BY <2>2, <2>3, <2>4, NumericInjective
<1>2. ASSUME NEW x \in Positions PROVE x \in id <=> x \in other
  <2>1. x \in Nat /\ x < NODE_ID_LEN * BYTE_BITS
    BY ByteBits DEF Positions
  <2>2. PICK q \in 0 .. (NODE_ID_LEN - 1), p \in 0 .. (BYTE_BITS - 1) :
          x = q * BYTE_BITS + p
    BY <2>1, ByteBits, PositionInByte
  <2> DEFINE i == NODE_ID_LEN - q
  <2>3. i \in 1 .. NODE_ID_LEN /\ NODE_ID_LEN - i = q
    BY ByteBits
  <2>4. p \in Block(id, i) <=> p \in Block(other, i)
    BY <1>1, <2>3
  <2>5. \A a : p \in Block(a, i) <=> x \in a
    BY <2>2, <2>3
  <2> QED
    BY <2>4, <2>5
<1> QED
  BY <1>2 DEF NodeIds

LEMMA KnownAreAddrs ==
  ASSUME NEW addr \in KnownAddrs
  PROVE  IsAddr(addr)
<1>1. PICK a \in Addrs : addr = a \/ addr = Unscoped(a)
  BY DEF KnownAddrs
<1> QED
  BY <1>1, AddrsAssumption, UnscopedIsAddr

-----------------------------------------------------------------------------
(* Entries                                                                 *)

\* An entry as the wire returns it.
OnWire(e) == Entry(e.id, Unscoped(e.addr))

LEMMA EntryBytes ==
  ASSUME NEW e \in Entries
  PROVE  /\ encode_entry(e) \in Seq(Nat)
         /\ Len(encode_entry(e)) = NODE_ID_LEN + Len(encode_addr(e.addr))
         /\ Len(encode_entry(e)) \in Nat \ {0}
<1>1. e.addr \in KnownAddrs
  BY DEF Entries
<1> DEFINE id == as_bytes(e.id)
           addr == encode_addr(e.addr)
<1>2. id \in Seq(Nat) /\ Len(id) = NODE_ID_LEN /\ addr \in Seq(Nat)
  BY <1>1, IdBytes, AddrBytes, KnownAreAddrs
<1>3. Len(addr) \in Nat
  BY <1>2
<1>4. encode_entry(e) = id \o addr
  BY DEF encode_entry
<1> HIDE DEF id, addr
<1>5. id \o addr \in Seq(Nat) /\ Len(id \o addr) = Len(id) + Len(addr)
  BY <1>2, ConcatProperties
<1>6. Len(encode_entry(e)) = NODE_ID_LEN + Len(addr)
  BY <1>2, <1>4, <1>5
<1> QED
  BY <1>3, <1>4, <1>5, <1>6, ByteBits DEF addr

LEMMA DecodeEntry ==
  ASSUME NEW e \in Entries, NEW buf \in Seq(Nat),
         HasAt(buf, 0, encode_entry(e))
  PROVE  decode_entry(buf) =
           IF Len(encode_entry(e)) <= Len(buf)
           THEN Ok(OnWire(e), Len(encode_entry(e))) ELSE Err
<1> DEFINE id == as_bytes(e.id)
           addr == encode_addr(e.addr)
           rest == From(buf, NODE_ID_LEN)
<1>1. e.addr \in KnownAddrs /\ e.id \in NodeIds
  BY KnownIds DEF Entries
<1>2. /\ id \in Seq(Nat) /\ Len(id) = NODE_ID_LEN /\ addr \in Seq(Nat)
      /\ NODE_ID_LEN \in Nat /\ from_bytes(id) = e.id
  BY <1>1, IdBytes, IdRoundTrip, AddrBytes, KnownAreAddrs, ByteBits
<1>3. Len(addr) \in Nat /\ Len(buf) \in Nat
  BY <1>2
<1>4. Len(encode_entry(e)) = NODE_ID_LEN + Len(addr)
  BY EntryBytes
<1>5. CASE Len(buf) < NODE_ID_LEN
  <2> HIDE DEF addr
  <2>1. ~ (Len(encode_entry(e)) <= Len(buf))
    BY <1>2, <1>3, <1>4, <1>5
  <2> QED
    BY <1>5, <2>1 DEF decode_entry
<1>6. CASE ~ (Len(buf) < NODE_ID_LEN)
  <2>1. NODE_ID_LEN \in 0 .. Len(buf) /\ NODE_ID_LEN <= Len(buf)
    BY <1>2, <1>3, <1>6
  <2>2. HasAt(buf, 0, id) /\ HasAt(buf, NODE_ID_LEN + 0, addr)
    <3>1. HasAt(buf, 0, id \o addr)
      BY DEF encode_entry
    <3> HIDE DEF id, addr
    <3>2. HasAt(buf, 0, id) /\ HasAt(buf, 0 + Len(id), addr)
      BY <1>2, <3>1, HasAtConcat
    <3>3. 0 + Len(id) = NODE_ID_LEN + 0
      BY <1>2
    <3> QED
      BY <3>2, <3>3
  <2>3. First(buf, NODE_ID_LEN) = id
    <3> HIDE DEF id
    <3> QED
      BY <1>2, <2>1, <2>2, HasAtFirst
  <2>4. rest \in Seq(Nat) /\ Len(rest) = Len(buf) - NODE_ID_LEN
    BY <2>1, FromFacts
  <2>5. HasAt(rest, 0, addr)
    <3> HIDE DEF addr
    <3> QED
      BY <1>2, <2>1, <2>2, HasAtFrom
  <2>6. decode_addr(rest) =
          IF Len(addr) <= Len(rest) THEN Ok(Unscoped(e.addr), Len(addr)) ELSE Err
    <3> HIDE DEF rest
    <3> QED
      BY <1>1, <2>4, <2>5, DecodeAddr, KnownAreAddrs
  <2>7. Len(addr) <= Len(rest) <=> Len(encode_entry(e)) <= Len(buf)
    <3> HIDE DEF addr, rest
    <3> QED
      BY <1>2, <1>3, <1>4, <2>4
  <2> HIDE DEF addr, rest
  <2>8. CASE Len(addr) <= Len(rest)
    <3>1. decode_addr(rest) = Ok(Unscoped(e.addr), Len(addr))
      BY <2>6, <2>8
    <3>2. /\ decode_addr(rest).ok /\ decode_addr(rest).value = Unscoped(e.addr)
          /\ decode_addr(rest).consumed = Len(addr)
      BY <3>1 DEF Ok
    <3>3. decode_entry(buf) = Ok(OnWire(e), NODE_ID_LEN + Len(addr))
      BY <1>2, <1>6, <2>3, <3>2 DEF decode_entry, OnWire, Entry, rest
    <3> QED
      BY <1>4, <2>7, <2>8, <3>3
  <2>9. CASE ~ (Len(addr) <= Len(rest))
    <3>1. ~ decode_addr(rest).ok
      BY <2>6, <2>9 DEF Err
    <3> QED
      BY <2>7, <2>9, <3>1 DEF decode_entry, rest
  <2> QED
    BY <2>8, <2>9
<1> QED
  BY <1>5, <1>6

\* encode_entries, one entry after the other.
EncodesAll(b, peers) ==
  b = [n \in 0 .. Len(peers) |->
         IF n = 0 THEN << >> ELSE b[n - 1] \o encode_entry(peers[n])]

LEMMA EncodeComputed ==
  ASSUME NEW peers \in Seq(Entries)
  PROVE  \E b : EncodesAll(b, peers) /\ encode_entries(peers) = b[Len(peers)]
<1> DEFINE N == Len(peers)
           Bytes == Seq(Nat)
           step == [x \in (1 .. N) \X Bytes |-> x[2] \o encode_entry(peers[x[1]])]
<1>1. N \in Nat /\ << >> \in Bytes
  OBVIOUS
<1>2. step \in [(1 .. N) \X Bytes -> Bytes]
  <2> SUFFICES ASSUME NEW x \in (1 .. N) \X Bytes
               PROVE  x[2] \o encode_entry(peers[x[1]]) \in Bytes
    OBVIOUS
  <2>1. peers[x[1]] \in Entries /\ x[2] \in Seq(Nat)
    OBVIOUS
  <2>2. encode_entry(peers[x[1]]) \in Seq(Nat)
    BY <2>1, EntryBytes
  <2> QED
    BY <2>1, <2>2, ConcatProperties
<1>3. PICK g : Computes(g, N, Bytes, << >>, step)
  <2> HIDE DEF N, step, Bytes
  <2> QED
    BY <1>1, <1>2, Recursion
<1>4. \A n \in 1 .. N : g[n] = g[n - 1] \o encode_entry(peers[n])
  <2> TAKE n \in 1 .. N
  <2>1. g[n - 1] \in Bytes /\ g[n] = step[<< n, g[n - 1] >>]
    <3> HIDE DEF N, step, Bytes
    <3> QED
      BY <1>1, <1>3 DEF Computes
  <2> QED
    BY <2>1
<1>5. EncodesAll(g, peers)
  <2>1. g = [n \in 0 .. N |-> g[n]] /\ g[0] = << >>
    <3> HIDE DEF N, step, Bytes
    <3> QED
      BY <1>3 DEF Computes
  <2>2. \A n \in 0 .. N :
          g[n] = IF n = 0 THEN << >> ELSE g[n - 1] \o encode_entry(peers[n])
    BY <1>1, <1>4, <2>1
  <2> HIDE DEF step
  <2> QED
    BY <2>1, <2>2 DEF EncodesAll
<1> DEFINE b == CHOOSE b : EncodesAll(b, peers)
<1>6. EncodesAll(b, peers)
  BY <1>5
<1>7. encode_entries(peers) = b[N]
  BY DEF encode_entries, EncodesAll
<1> HIDE DEF b
<1> QED
  BY <1>6, <1>7

\* The bytes of the first entries, and how their number grows.
LEMMA EncodedLengths ==
  ASSUME NEW peers \in Seq(Entries), NEW b, EncodesAll(b, peers)
  PROVE  /\ b[0] = << >>
         /\ \A n \in 0 .. Len(peers) : b[n] \in Seq(Nat) /\ Len(b[n]) \in Nat
         /\ \A n \in 1 .. Len(peers) :
              /\ b[n] = b[n - 1] \o encode_entry(peers[n])
              /\ Len(b[n]) = Len(b[n - 1]) + Len(encode_entry(peers[n]))
<1> DEFINE N == Len(peers)
           T == {n \in 0 .. N : b[n] \in Seq(Nat)}
<1>1. N \in Nat
  OBVIOUS
<1>2. b[0] = << >> /\ 0 \in T
  BY <1>1 DEF EncodesAll
<1>3. ASSUME NEW n \in 1 .. N
      PROVE  /\ b[n] = b[n - 1] \o encode_entry(peers[n])
             /\ encode_entry(peers[n]) \in Seq(Nat)
  <2>1. n \in 0 .. N /\ n # 0 /\ peers[n] \in Entries
    BY <1>1
  <2> QED
    BY <2>1, EntryBytes DEF EncodesAll
<1>4. ASSUME NEW n \in 0 .. (N - 1), n \in T PROVE n + 1 \in T
  <2>1. n + 1 \in 1 .. N /\ n + 1 \in 0 .. N /\ (n + 1) - 1 = n
    BY <1>1
  <2>2. b[n + 1] = b[n] \o encode_entry(peers[n + 1])
        /\ encode_entry(peers[n + 1]) \in Seq(Nat)
    BY <1>3, <2>1
  <2> QED
    BY <1>4, <2>1, <2>2, ConcatProperties
<1>5. 0 .. N \subseteq T
  <2> HIDE DEF N, T
  <2> QED
    BY <1>1, <1>2, <1>4, Induction
<1>6. \A n \in 0 .. N : b[n] \in Seq(Nat) /\ Len(b[n]) \in Nat
  BY <1>5
<1>7. ASSUME NEW n \in 1 .. N
      PROVE  Len(b[n]) = Len(b[n - 1]) + Len(encode_entry(peers[n]))
  <2>1. n - 1 \in 0 .. N
    BY <1>1
  <2> QED
    BY <1>3, <1>6, <2>1, ConcatProperties
<1> QED
  BY <1>2, <1>3, <1>6, <1>7

\* What begins like the whole begins like the first entries.
LEMMA EncodedPrefixes ==
  ASSUME NEW peers \in Seq(Entries), NEW b, EncodesAll(b, peers),
         NEW buf \in Seq(Nat), HasAt(buf, 0, b[Len(peers)])
  PROVE  \A n \in 1 .. Len(peers) :
           HasAt(buf, Len(b[n - 1]), encode_entry(peers[n]))
<1> DEFINE N == Len(peers)
           T == {i \in 0 .. N : HasAt(buf, 0, b[N - i])}
<1>1. N \in Nat
  OBVIOUS
<1>2. ASSUME NEW n \in 1 .. N, HasAt(buf, 0, b[n])
      PROVE  /\ HasAt(buf, 0, b[n - 1])
             /\ HasAt(buf, Len(b[n - 1]), encode_entry(peers[n]))
  <2> DEFINE s == b[n - 1]
             t == encode_entry(peers[n])
  <2>1. n - 1 \in 0 .. N /\ peers[n] \in Entries
    BY <1>1
  <2>2. b[n] = s \o t /\ s \in Seq(Nat) /\ Len(s) \in Nat /\ t \in Seq(Nat)
    BY <2>1, EncodedLengths, EntryBytes
  <2> HIDE DEF s, t
  <2>3. HasAt(buf, 0, s) /\ HasAt(buf, 0 + Len(s), t)
    BY <1>2, <2>2, HasAtConcat
  <2>4. 0 + Len(s) = Len(s)
    BY <2>2
  <2> QED
    BY <2>3, <2>4 DEF s, t
<1>3. 0 \in T
  BY <1>1
<1>4. ASSUME NEW i \in 0 .. (N - 1), i \in T PROVE i + 1 \in T
  <2>1. N - i \in 1 .. N /\ (N - i) - 1 = N - (i + 1) /\ i + 1 \in 0 .. N
    BY <1>1
  <2> QED
    BY <1>2, <1>4, <2>1
<1>5. 0 .. N \subseteq T
  <2> HIDE DEF N, T
  <2> QED
    BY <1>1, <1>3, <1>4, Induction
<1>6. ASSUME NEW n \in 1 .. N PROVE HasAt(buf, 0, b[n])
  <2>1. N - n \in 0 .. N /\ N - (N - n) = n
    BY <1>1
  <2> QED
    BY <1>5, <2>1
<1> QED
  BY <1>2, <1>6

\* decode_entries, one entry after the other.
DecodesAll(f, buf, count) ==
  f = [n \in 0 .. count |->
         IF n = 0 THEN Ok(<< >>, 0)
         ELSE IF f[n - 1].ok THEN decode_next(buf, f[n - 1])
         ELSE Err]

\* There is one way to decode entries one after the other.
LEMMA DecodeUnique ==
  ASSUME NEW buf, NEW count \in Nat, NEW f, DecodesAll(f, buf, count)
  PROVE  decode_entries(buf, count) = f[count]
<1> DEFINE g == CHOOSE g : DecodesAll(g, buf, count)
           T == {n \in 0 .. count : g[n] = f[n]}
<1>1. DecodesAll(g, buf, count)
  OBVIOUS
<1>2. decode_entries(buf, count) = g[count]
  BY DEF decode_entries, DecodesAll
<1> HIDE DEF g
<1>3. 0 \in T
  BY <1>1 DEF DecodesAll
<1>4. ASSUME NEW n \in 0 .. (count - 1), n \in T PROVE n + 1 \in T
  <2>1. n + 1 \in 0 .. count /\ n + 1 # 0 /\ (n + 1) - 1 = n
    OBVIOUS
  <2>2. \A h : DecodesAll(h, buf, count) =>
          h[n + 1] = IF h[n].ok THEN decode_next(buf, h[n]) ELSE Err
    BY <2>1 DEF DecodesAll
  <2>3. g[n] = f[n]
    BY <1>4
  <2> QED
    BY <1>1, <2>1, <2>2, <2>3
<1>5. 0 .. count \subseteq T
  <2> HIDE DEF T
  <2> QED
    BY <1>3, <1>4, Induction
<1> QED
  BY <1>2, <1>5

\* The peers of a response as they are read.
AllOnWire(peers) == [m \in 1 .. Len(peers) |-> OnWire(peers[m])]

\* Entries are read as they were written, and refused if one is cut short.
LEMMA DecodeEntries ==
  ASSUME NEW peers \in Seq(Entries), NEW buf \in Seq(Nat),
         HasAt(buf, 0, encode_entries(peers))
  PROVE  decode_entries(buf, Len(peers)) =
           IF Len(encode_entries(peers)) <= Len(buf)
           THEN Ok(AllOnWire(peers), Len(encode_entries(peers))) ELSE Err
<1> DEFINE N == Len(peers)
<1>1. PICK b : EncodesAll(b, peers) /\ encode_entries(peers) = b[N]
  BY EncodeComputed
<1> DEFINE Upto(n) == [m \in 1 .. n |-> OnWire(peers[m])]
           Result(n) == IF Len(b[n]) <= Len(buf)
                        THEN Ok(Upto(n), Len(b[n])) ELSE Err
           f == [n \in 0 .. N |-> Result(n)]
<1>2. N \in Nat /\ Len(buf) \in Nat
  OBVIOUS
<1>3. /\ b[0] = << >>
      /\ \A n \in 0 .. N : b[n] \in Seq(Nat) /\ Len(b[n]) \in Nat
      /\ \A n \in 1 .. N :
           Len(b[n]) = Len(b[n - 1]) + Len(encode_entry(peers[n]))
  BY <1>1, EncodedLengths
<1>4. Result(0) = Ok(<< >>, 0)
  <2>1. Len(b[0]) = 0 /\ Upto(0) = << >>
    BY <1>3
  <2> QED
    BY <1>2, <2>1
<1>5. ASSUME NEW n \in 1 .. N
      PROVE  Result(n) = IF Result(n - 1).ok
                         THEN decode_next(buf, Result(n - 1)) ELSE Err
  <2> DEFINE e == peers[n]
             len == Len(encode_entry(e))
             off == Len(b[n - 1])
             rest == From(buf, off)
  <2>1. /\ n - 1 \in 0 .. N /\ n \in 0 .. N /\ e \in Entries
        /\ off \in Nat /\ len \in Nat /\ Len(b[n]) = off + len
    <3>1. n - 1 \in 0 .. N /\ n \in 0 .. N /\ e \in Entries
      BY <1>2
    <3>2. len \in Nat
      BY <3>1, EntryBytes
    <3> HIDE DEF N
    <3> QED
      BY <1>3, <3>1, <3>2
  <2>2. CASE ~ (off <= Len(buf))
    <3>1. ~ Result(n - 1).ok
      BY <2>2 DEF Err
    <3>2. ~ (Len(b[n]) <= Len(buf))
      <4> HIDE DEF off, len
      <4> QED
        BY <1>2, <2>1, <2>2
    <3>3. Result(n) = Err
      BY <3>2
    <3> HIDE DEF Result
    <3> QED
      BY <3>1, <3>3
  <2>3. CASE off <= Len(buf)
    <3>1. /\ Result(n - 1) = Ok(Upto(n - 1), off) /\ Result(n - 1).ok
          /\ Result(n - 1).value = Upto(n - 1) /\ Result(n - 1).consumed = off
      BY <2>3 DEF Ok
    <3>2. rest \in Seq(Nat) /\ Len(rest) = Len(buf) - off /\ off \in 0 .. Len(buf)
      <4>1. off \in 0 .. Len(buf)
        BY <1>2, <2>1, <2>3
      <4> HIDE DEF off
      <4> QED
        BY <4>1, FromFacts
    <3>3. HasAt(rest, 0, encode_entry(e))
      <4>1. HasAt(buf, off, encode_entry(e))
        BY <1>1, EncodedPrefixes
      <4> HIDE DEF off, e, len, rest, f, Result, Upto
      <4>2. encode_entry(e) \in Seq(Nat)
        BY <2>1, EntryBytes
      <4>3. off + 0 = off
        BY <2>1
      <4> QED
        BY <3>2, <4>1, <4>2, <4>3, HasAtFrom DEF rest
    <3>4. decode_entry(rest) = IF len <= Len(rest) THEN Ok(OnWire(e), len) ELSE Err
      <4> HIDE DEF rest, e
      <4> QED
        BY <2>1, <3>2, <3>3, DecodeEntry
    <3>5. len <= Len(rest) <=> Len(b[n]) <= Len(buf)
      <4> HIDE DEF off, len, rest
      <4> QED
        BY <1>2, <2>1, <3>2
    <3>6. CASE len <= Len(rest)
      <4>1. /\ decode_entry(rest).ok /\ decode_entry(rest).value = OnWire(e)
            /\ decode_entry(rest).consumed = len
        BY <3>4, <3>6 DEF Ok
      <4>2. Append(Upto(n - 1), OnWire(e)) = Upto(n)
        <5> DEFINE All == {OnWire(peers[m]) : m \in 1 .. N}
                   s == Upto(n - 1)
                   x == OnWire(e)
        <5>1. n - 1 \in Nat /\ (n - 1) + 1 = n /\ n \in Nat
              /\ 1 .. n \subseteq 1 .. N /\ 1 .. (n - 1) \subseteq 1 .. N
          BY <1>2
        <5>2. s \in [1 .. (n - 1) -> All] /\ Upto(n) \in [1 .. n -> All]
              /\ x \in All
          BY <5>1
        <5>3. s \in Seq(All) /\ Len(s) = n - 1
              /\ Upto(n) \in Seq(All) /\ Len(Upto(n)) = n
          <6> HIDE DEF All, s, Upto
          <6> QED
            BY <5>1, <5>2, FunctionIsSeq
        <5>4. /\ Append(s, x) \in Seq(All) /\ Len(Append(s, x)) = n
              /\ Append(s, x)[n] = x
              /\ \A m \in 1 .. (n - 1) : Append(s, x)[m] = s[m]
          <6> HIDE DEF All, s, x
          <6> QED
            BY <5>1, <5>2, <5>3, AppendProperties
        <5>5. \A m \in 1 .. n : Append(s, x)[m] = Upto(n)[m]
          <6> TAKE m \in 1 .. n
          <6>1. CASE m = n
            BY <5>4, <6>1
          <6>2. CASE m # n
            <7>1. m \in 1 .. (n - 1)
              BY <5>1, <6>2
            <7>2. s[m] = OnWire(peers[m]) /\ Upto(n)[m] = OnWire(peers[m])
              BY <7>1
            <7> HIDE DEF s, x, Upto
            <7> QED
              BY <5>4, <7>1, <7>2
          <6> QED
            BY <6>1, <6>2
        <5> HIDE DEF All, Upto, x, s
        <5>6. Append(s, x) = Upto(n)
          BY <5>3, <5>4, <5>5, SeqEqual
        <5> QED
          BY <5>6 DEF s, x
      <4>3. Result(n) = Ok(Upto(n), off + len)
        BY <2>1, <3>5, <3>6
      <4>4. decode_next(buf, Result(n - 1)) = Ok(Upto(n), off + len)
        <5> HIDE DEF Result, Upto, off, len, e
        <5> QED
          BY <3>1, <4>1, <4>2 DEF decode_next
      <4> HIDE DEF Result
      <4> QED
        BY <3>1, <4>3, <4>4
    <3>7. CASE ~ (len <= Len(rest))
      <4>1. ~ decode_entry(rest).ok
        BY <3>4, <3>7 DEF Err
      <4>2. Result(n) = Err
        BY <3>5, <3>7
      <4> HIDE DEF Result, off
      <4>3. decode_next(buf, Result(n - 1)) = Err
        BY <3>1, <4>1 DEF decode_next
      <4> QED
        BY <3>1, <4>2, <4>3
    <3> QED
      BY <3>6, <3>7
  <2> QED
    BY <2>2, <2>3
<1>6. \A n \in 0 .. N : f[n] = Result(n)
  OBVIOUS
<1>7. f = [n \in 0 .. N |-> f[n]]
  OBVIOUS
<1> HIDE DEF f, Result
<1>8. DecodesAll(f, buf, N)
  <2>1. \A n \in 0 .. N :
          f[n] = IF n = 0 THEN Ok(<< >>, 0)
                 ELSE IF f[n - 1].ok THEN decode_next(buf, f[n - 1]) ELSE Err
    <3> TAKE n \in 0 .. N
    <3>1. CASE n = 0
      BY <1>4, <1>6, <3>1
    <3>2. CASE n # 0
      <4>1. n \in 1 .. N /\ n - 1 \in 0 .. N
        BY <1>2, <3>2
      <4> QED
        BY <1>5, <1>6, <3>2, <4>1
    <3> QED
      BY <3>1, <3>2
  <2> QED
    BY <1>7, <2>1 DEF DecodesAll
<1>9. decode_entries(buf, N) = Result(N)
  BY <1>2, <1>6, <1>8, DecodeUnique
<1> QED
  BY <1>1, <1>9 DEF Result, AllOnWire

-----------------------------------------------------------------------------
(* Frames                                                                  *)

\* Opcode::from_byte finds the opcode that was written.
LEMMA DecodeOpcode ==
  ASSUME NEW buf \in Seq(Nat), buf # << >>, NEW op \in DOMAIN Opcode,
         Head(buf) = Opcode[op]
  PROVE  decode(buf) =
           CASE op = "FindNodeReq" -> decode_find_node_req(Tail(buf))
             [] op = "FindNodeResp" -> decode_find_node_resp(Tail(buf))
             [] OTHER -> decode_no_body(op, Tail(buf))
<1>1. \A o, p \in DOMAIN Opcode : Opcode[o] = Opcode[p] => o = p
  BY DEF Opcode
<1>2. (CHOOSE o \in DOMAIN Opcode : Opcode[o] = Head(buf)) = op
  BY <1>1
<1> QED
  BY <1>2 DEF decode

LEMMA PrefixHead ==
  ASSUME NEW x \in Nat, NEW t \in Seq(Nat), NEW buf \in Seq(Nat),
         HasAt(buf, 0, << x >> \o t), buf # << >>
  PROVE  /\ Head(buf) = x /\ Tail(buf) \in Seq(Nat) /\ HasAt(Tail(buf), 0, t)
         /\ Len(Tail(buf)) = Len(buf) - 1
<1>1. << x >> \in Seq(Nat) /\ Len(<< x >>) = 1 /\ << x >>[1] = x
  OBVIOUS
<1>2. /\ Tail(buf) = From(buf, 1) /\ Head(buf) = buf[1]
      /\ Len(buf) \in Nat \ {0} /\ Tail(buf) \in Seq(Nat)
      /\ Len(Tail(buf)) = Len(buf) - 1 /\ 1 \in 0 .. Len(buf)
  BY TailIsFrom
<1>3. HasAt(buf, 0, << x >>) /\ HasAt(buf, 1 + 0, t)
  <2>1. HasAt(buf, 0, << x >>) /\ HasAt(buf, 0 + Len(<< x >>), t)
    BY <1>1, HasAtConcat
  <2> QED
    BY <1>1, <2>1
<1>4. Head(buf) = x
  <2>1. 1 \in 1 .. Len(<< x >>) /\ 0 + 1 <= Len(buf)
    BY <1>1, <1>2
  <2> QED
    BY <1>1, <1>2, <1>3, <2>1 DEF HasAt
<1>5. HasAt(From(buf, 1), 0, t)
  BY <1>2, <1>3, HasAtFrom
<1> QED
  BY <1>2, <1>4, <1>5

LEMMA DecodePing ==
  ASSUME NEW op \in {"PingReq", "PingResp"}, NEW buf \in Seq(Nat),
         HasAt(buf, 0, << Opcode[op] >>), Len(buf) <= 1
  PROVE  decode(buf) = IF Len(buf) = 1 THEN Ok(Ping(op), 0) ELSE Err
<1>1. Opcode[op] \in Nat /\ op \in DOMAIN Opcode
  BY DEF Opcode
<1>2. CASE buf = << >>
  BY <1>2 DEF decode
<1>3. CASE buf # << >>
  <2>1. Len(buf) = 1
    BY <1>3, EmptySeq
  <2>2. HasAt(buf, 0, << Opcode[op] >> \o << >>)
    <3>1. << Opcode[op] >> \in Seq(Nat)
      BY <1>1
    <3>2. << Opcode[op] >> \o << >> = << Opcode[op] >>
      BY <3>1, ConcatEmptySeq
    <3> QED
      BY <3>2
  <2>3. Head(buf) = Opcode[op] /\ Len(Tail(buf)) = Len(buf) - 1
        /\ Tail(buf) \in Seq(Nat)
    <3>1. << >> \in Seq(Nat)
      OBVIOUS
    <3> QED
      BY <1>1, <1>3, <2>2, <3>1, PrefixHead
  <2>4. Tail(buf) = << >>
    <3> DEFINE body == Tail(buf)
    <3>1. body \in Seq(Nat) /\ Len(body) = 0
      BY <2>1, <2>3
    <3> HIDE DEF body
    <3>2. body = << >>
      BY <3>1, EmptySeq
    <3> QED
      BY <3>2 DEF body
  <2>5. decode(buf) = decode_no_body(op, Tail(buf))
    BY <1>1, <1>3, <2>3, DecodeOpcode
  <2> QED
    BY <2>1, <2>4, <2>5 DEF decode_no_body
<1> QED
  BY <1>2, <1>3

LEMMA DecodeFindNodeReq ==
  ASSUME NEW goal \in NodeIds, NEW buf \in Seq(Nat),
         HasAt(buf, 0, << Opcode.FindNodeReq >> \o as_bytes(goal)),
         Len(buf) <= 1 + NODE_ID_LEN
  PROVE  decode(buf) = IF Len(buf) = 1 + NODE_ID_LEN
                       THEN Ok(FindNodeReq(goal), NODE_ID_LEN) ELSE Err
<1> DEFINE id == as_bytes(goal)
<1>1. /\ id \in Seq(Nat) /\ Len(id) = NODE_ID_LEN /\ from_bytes(id) = goal
      /\ NODE_ID_LEN \in Nat \ {0} /\ Len(buf) \in Nat
  BY IdBytes, IdRoundTrip, ByteBits
<1>2. CASE buf = << >>
  <2>1. Len(buf) # 1 + NODE_ID_LEN
    BY <1>1, <1>2
  <2> QED
    BY <1>2, <2>1 DEF decode
<1>3. CASE buf # << >>
  <2>1. /\ Head(buf) = Opcode.FindNodeReq /\ Tail(buf) \in Seq(Nat)
        /\ HasAt(Tail(buf), 0, id) /\ Len(Tail(buf)) = Len(buf) - 1
    <3>1. Opcode.FindNodeReq \in Nat
      BY DEF Opcode
    <3> HIDE DEF id
    <3> QED
      BY <1>1, <1>3, <3>1, PrefixHead DEF id
  <2>2. decode(buf) = decode_find_node_req(Tail(buf))
    <3>1. "FindNodeReq" \in DOMAIN Opcode
      BY DEF Opcode
    <3> QED
      BY <1>3, <2>1, <3>1, DecodeOpcode
  <2> DEFINE body == Tail(buf)
  <2> HIDE DEF body
  <2>3. /\ body \in Seq(Nat) /\ HasAt(body, 0, id) /\ Len(body) = Len(buf) - 1
        /\ decode(buf) = decode_find_node_req(body)
    BY <2>1, <2>2 DEF body
  <2>4. CASE Len(buf) = 1 + NODE_ID_LEN
    <3>1. Len(body) = NODE_ID_LEN
      BY <1>1, <2>3, <2>4
    <3>2. First(body, NODE_ID_LEN) = id /\ First(body, NODE_ID_LEN) = body
      <4> HIDE DEF id
      <4>1. First(body, Len(id)) = id
        BY <1>1, <2>3, <3>1, HasAtFirst
      <4>2. NODE_ID_LEN \in 0 .. Len(body)
        BY <1>1, <3>1
      <4>3. /\ First(body, NODE_ID_LEN) \in Seq(Nat)
            /\ Len(First(body, NODE_ID_LEN)) = NODE_ID_LEN
            /\ \A i \in 1 .. NODE_ID_LEN :
                 First(body, NODE_ID_LEN)[i] = body[i]
        BY <2>3, <4>2, FirstFacts
      <4> QED
        BY <1>1, <2>3, <3>1, <4>1, <4>3, SeqEqual
    <3> QED
      BY <1>1, <2>3, <2>4, <3>1, <3>2 DEF decode_find_node_req
  <2>5. CASE Len(buf) # 1 + NODE_ID_LEN
    <3>1. Len(body) # NODE_ID_LEN
      BY <1>1, <2>3, <2>5
    <3> QED
      BY <2>3, <2>5, <3>1 DEF decode_find_node_req
  <2> QED
    BY <2>4, <2>5
<1> QED
  BY <1>2, <1>3

LEMMA EncodedEntries ==
  ASSUME NEW peers \in Seq(Entries)
  PROVE  /\ encode_entries(peers) \in Seq(Nat)
         /\ Len(encode_entries(peers)) \in Nat
<1>1. PICK b : EncodesAll(b, peers) /\ encode_entries(peers) = b[Len(peers)]
  BY EncodeComputed
<1>2. Len(peers) \in 0 .. Len(peers)
  OBVIOUS
<1> QED
  BY <1>1, <1>2, EncodedLengths

LEMMA DecodeFindNodeResp ==
  ASSUME NEW peers \in Seq(Entries), NEW buf \in Seq(Nat),
         HasAt(buf, 0, << Opcode.FindNodeResp, Len(peers) >>
                         \o encode_entries(peers)),
         Len(buf) <= 2 + Len(encode_entries(peers))
  PROVE  decode(buf) =
           IF Len(buf) = 2 + Len(encode_entries(peers))
           THEN Ok(FindNodeResp(AllOnWire(peers)),
                   1 + Len(encode_entries(peers)))
           ELSE Err
<1> DEFINE op == Opcode.FindNodeResp
           n == Len(peers)
           t == encode_entries(peers)
<1>1. op \in Nat /\ n \in Nat /\ t \in Seq(Nat) /\ Len(t) \in Nat
      /\ Len(buf) \in Nat
  BY EncodedEntries DEF Opcode
<1>2. << op, n >> \o t = << op >> \o (<< n >> \o t) /\ << n >> \o t \in Seq(Nat)
  <2> HIDE DEF op, n, t
  <2>1. << op >> \in Seq(Nat) /\ << n >> \in Seq(Nat)
        /\ << op, n >> = << op >> \o << n >>
    <3>1. << op >> \in Seq(Nat) /\ << n >> \in Seq(Nat)
          /\ << op, n >> \in Seq(Nat) /\ Len(<< op, n >>) = 2
          /\ Len(<< op >>) = 1 /\ Len(<< n >>) = 1
      BY <1>1
    <3>2. /\ << op >> \o << n >> \in Seq(Nat) /\ Len(<< op >> \o << n >>) = 2
          /\ (<< op >> \o << n >>)[1] = op /\ (<< op >> \o << n >>)[2] = n
      BY <3>1, ConcatProperties
    <3>3. << op, n >>[1] = op /\ << op, n >>[2] = n
      OBVIOUS
    <3>4. \A i \in 1 .. 2 : << op, n >>[i] = (<< op >> \o << n >>)[i]
      BY <3>2, <3>3
    <3> QED
      BY <3>1, <3>2, <3>4, SeqEqual
  <2>2. << n >> \o t \in Seq(Nat)
    BY <1>1, <2>1, ConcatProperties
  <2>3. (<< op >> \o << n >>) \o t = << op >> \o (<< n >> \o t)
    BY <1>1, <2>1, ConcatAssociative
  <2> QED
    BY <2>1, <2>2, <2>3
<1> HIDE DEF n, t
<1>3. CASE buf = << >>
  <2>1. Len(buf) # 2 + Len(t)
    BY <1>1, <1>3
  <2> QED
    BY <1>3, <2>1 DEF decode, t
<1>4. CASE buf # << >>
  <2> DEFINE body == Tail(buf)
  <2>1. /\ Head(buf) = op /\ body \in Seq(Nat)
        /\ HasAt(body, 0, << n >> \o t) /\ Len(body) = Len(buf) - 1
    <3>1. HasAt(buf, 0, << op >> \o (<< n >> \o t))
      BY <1>2 DEF n, t
    <3> QED
      BY <1>1, <1>2, <1>4, <3>1, PrefixHead
  <2>2. decode(buf) = decode_find_node_resp(body)
    <3>1. "FindNodeResp" \in DOMAIN Opcode
      BY DEF Opcode
    <3> QED
      BY <1>4, <2>1, <3>1, DecodeOpcode
  <2> HIDE DEF body
  <2>3. CASE body = << >>
    <3>1. Len(buf) # 2 + Len(t)
      <4>1. Len(body) = 0
        BY <2>3
      <4> QED
        BY <1>1, <2>1, <4>1
    <3> QED
      BY <2>2, <2>3, <3>1 DEF decode_find_node_resp, t
  <2>4. CASE body # << >>
    <3> DEFINE rest == Tail(body)
    <3>1. /\ Head(body) = n /\ rest \in Seq(Nat)
          /\ HasAt(rest, 0, t) /\ Len(rest) = Len(body) - 1
      BY <1>1, <2>1, <2>4, PrefixHead
    <3>2. decode_find_node_resp(body) =
            LET got == decode_entries(rest, n) IN
            IF got.ok /\ From(rest, got.consumed) = << >>
            THEN Ok(FindNodeResp(got.value), Len(body)) ELSE Err
      BY <2>4, <3>1 DEF decode_find_node_resp
    <3> HIDE DEF rest
    <3>3. decode_entries(rest, n) =
            IF Len(t) <= Len(rest) THEN Ok(AllOnWire(peers), Len(t)) ELSE Err
      BY <3>1, DecodeEntries DEF n, t
    <3>4. CASE Len(buf) = 2 + Len(t)
      <4>1. Len(rest) = Len(t) /\ Len(body) = 1 + Len(t)
            /\ Len(t) <= Len(rest) /\ Len(t) \in 0 .. Len(rest)
        BY <1>1, <2>1, <3>1, <3>4
      <4>2. /\ From(rest, Len(t)) \in Seq(Nat)
            /\ Len(From(rest, Len(t))) = Len(rest) - Len(t)
        BY <3>1, <4>1, FromFacts
      <4>3. From(rest, Len(t)) = << >>
        <5>1. Len(From(rest, Len(t))) = 0
          BY <1>1, <4>1, <4>2
        <5> QED
          BY <4>2, <5>1, EmptySeq
      <4>4. decode_entries(rest, n) = Ok(AllOnWire(peers), Len(t))
        BY <3>3, <4>1
      <4>5. decode_find_node_resp(body)
              = Ok(FindNodeResp(AllOnWire(peers)), Len(body))
        BY <3>2, <4>3, <4>4 DEF Ok
      <4> QED
        BY <2>2, <3>4, <4>1, <4>5 DEF t
    <3>5. CASE Len(buf) # 2 + Len(t)
      <4>1. ~ (Len(t) <= Len(rest))
        <5>1. Len(buf) <= 2 + Len(t)
          BY DEF t
        <5> QED
          BY <1>1, <2>1, <3>1, <3>5, <5>1
      <4>2. ~ decode_entries(rest, n).ok
        BY <3>3, <4>1 DEF Err
      <4>3. decode_find_node_resp(body) = Err
        BY <3>2, <4>2
      <4> QED
        BY <2>2, <3>5, <4>3 DEF t
    <3> QED
      BY <3>4, <3>5
  <2> QED
    BY <2>3, <2>4
<1> QED
  BY <1>3, <1>4

LEMMA FirstHasAt ==
  ASSUME NEW w \in Seq(Nat), NEW n \in 0 .. Len(w)
  PROVE  /\ First(w, n) \in Seq(Nat) /\ Len(First(w, n)) = n
         /\ HasAt(First(w, n), 0, w)
<1>1. /\ First(w, n) \in Seq(Nat) /\ Len(First(w, n)) = n
      /\ \A i \in 1 .. n : First(w, n)[i] = w[i]
  BY FirstFacts
<1>2. ASSUME NEW i \in 1 .. Len(w), 0 + i <= n PROVE First(w, n)[0 + i] = w[i]
  BY <1>1, <1>2
<1> QED
  BY <1>1, <1>2 DEF HasAt

\* A frame is encoded, the whole of its bytes decodes to it, and less than
\* the whole is refused.
Exact(frame) ==
  LET w == encode(frame).value
  IN /\ encode(frame).ok /\ w \in Seq(Nat) /\ Len(w) \in Nat \ {0}
     /\ decode(First(w, Len(w))).ok /\ decode(First(w, Len(w))).value = frame
     /\ \A n \in 0 .. (Len(w) - 1) : decode(First(w, n)) = Err

LEMMA PingExact ==
  ASSUME NEW op \in {"PingReq", "PingResp"}
  PROVE  Exact(Ping(op))
<1> DEFINE w == << Opcode[op] >>
<1>1. encode(Ping(op)) = Ok(w, 1)
  BY DEF encode, Ping
<1>2. w \in Seq(Nat) /\ Len(w) = 1
  BY DEF Opcode
<1> HIDE DEF w
<1>3. ASSUME NEW n \in 0 .. 1
      PROVE  decode(First(w, n)) = IF n = 1 THEN Ok(Ping(op), 0) ELSE Err
  <2>1. First(w, n) \in Seq(Nat) /\ Len(First(w, n)) = n /\ HasAt(First(w, n), 0, w)
    BY <1>2, FirstHasAt
  <2> QED
    BY <2>1, DecodePing DEF w
<1>4. /\ Len(w) \in Nat \ {0} /\ decode(First(w, Len(w))) = Ok(Ping(op), 0)
      /\ \A n \in 0 .. (Len(w) - 1) : decode(First(w, n)) = Err
  BY <1>2, <1>3
<1>5. encode(Ping(op)).ok /\ encode(Ping(op)).value = w
  BY <1>1 DEF Ok
<1>6. decode(First(w, Len(w))).ok /\ decode(First(w, Len(w))).value = Ping(op)
  BY <1>4 DEF Ok
<1> QED
  BY <1>2, <1>4, <1>5, <1>6 DEF Exact

LEMMA FindNodeReqExact ==
  ASSUME NEW goal \in NodeIds
  PROVE  Exact(FindNodeReq(goal))
<1> DEFINE t == as_bytes(goal)
           w == << Opcode.FindNodeReq >> \o t
           N == 1 + NODE_ID_LEN
<1>1. encode(FindNodeReq(goal)) = Ok(w, 1 + NODE_ID_LEN)
  BY DEF encode, FindNodeReq
<1>2. w \in Seq(Nat) /\ Len(w) = N /\ N \in Nat \ {0}
  <2>1. t \in Seq(Nat) /\ Len(t) = NODE_ID_LEN /\ NODE_ID_LEN \in Nat
    BY IdBytes, ByteBits
  <2>2. Opcode.FindNodeReq \in Nat
    BY DEF Opcode
  <2> HIDE DEF t
  <2>3. w \in Seq(Nat) /\ Len(w) = Len(t) + 1
    BY <2>1, <2>2, ConsFacts
  <2> HIDE DEF w
  <2> QED
    BY <2>1, <2>3
<1> HIDE DEF w
<1>3. ASSUME NEW n \in 0 .. N
      PROVE  decode(First(w, n)) =
               IF n = N THEN Ok(FindNodeReq(goal), NODE_ID_LEN) ELSE Err
  <2>1. First(w, n) \in Seq(Nat) /\ Len(First(w, n)) = n /\ HasAt(First(w, n), 0, w)
    BY <1>2, FirstHasAt
  <2>2. n <= N
    BY <1>2
  <2> QED
    BY <2>1, <2>2, DecodeFindNodeReq DEF w
<1> HIDE DEF N
<1>4. N \in 0 .. N /\ \A n \in 0 .. (N - 1) : n \in 0 .. N /\ n # N
  BY <1>2
<1> QED
  BY <1>1, <1>2, <1>3, <1>4 DEF Exact, Ok

LEMMA ContactFacts ==
  ASSUME NEW e \in Contacts
  PROVE  e \in Entries /\ OnWire(e) = e
<1>1. PICK id \in Known, addr \in Addrs : e = Entry(id, Unscoped(addr))
  BY DEF Contacts, Known
<1>2. Unscoped(addr) \in KnownAddrs
  BY DEF KnownAddrs
<1>3. e.id = id /\ e.addr = Unscoped(addr) /\ e \in Entries
  BY <1>1, <1>2 DEF Entries, Entry
<1>4. Unscoped(Unscoped(addr)) = Unscoped(addr)
  <2>1. addr \in KnownAddrs
    BY DEF KnownAddrs
  <2>2. Unscoped(addr) = UdpAddr(addr.kind, addr.ip, addr.port, 0)
    BY <2>1, AddrFacts, KnownAreAddrs
  <2> QED
    BY <2>2 DEF Unscoped, UdpAddr
<1> QED
  BY <1>1, <1>3, <1>4 DEF OnWire

\* A response is encoded if its peers can be counted.
LEMMA EncodeResp ==
  ASSUME NEW peers \in Seq(Entries)
  PROVE  /\ Len(peers) <= MAX_PEERS_PER_RESP
              => encode(FindNodeResp(peers)) =
                   Ok(<< Opcode.FindNodeResp, Len(peers) >>
                        \o encode_entries(peers),
                      2 + Len(encode_entries(peers)))
         /\ LET w == << Opcode.FindNodeResp, Len(peers) >>
                       \o encode_entries(peers)
            IN w \in Seq(Nat) /\ Len(w) = 2 + Len(encode_entries(peers))
<1> DEFINE h == << Opcode.FindNodeResp, Len(peers) >>
           t == encode_entries(peers)
<1>1. h \in Seq(Nat) /\ Len(h) = 2 /\ t \in Seq(Nat) /\ Len(t) \in Nat
  BY EncodedEntries DEF Opcode
<1>2. h \o t \in Seq(Nat) /\ Len(h \o t) = 2 + Len(t)
  <2> HIDE DEF h, t
  <2>1. h \o t \in Seq(Nat) /\ Len(h \o t) = Len(h) + Len(t)
    BY <1>1, ConcatProperties
  <2> QED
    BY <1>1, <2>1
<1>3. ASSUME Len(peers) <= MAX_PEERS_PER_RESP
      PROVE  encode(FindNodeResp(peers)) = Ok(h \o t, 2 + Len(t))
  <2>1. ~ (Len(peers) > MAX_PEERS_PER_RESP)
    BY <1>3, BaseAssumption DEF MAX_PEERS_PER_RESP
  <2> QED
    BY <2>1 DEF encode, FindNodeResp, encode_find_node_resp
<1> QED
  BY <1>2, <1>3

\* The bytes of a response decode to its peers, as the wire returns them.
LEMMA RespDecodes ==
  ASSUME NEW peers \in Seq(Entries), Len(peers) <= MAX_PEERS_PER_RESP
  PROVE  LET w == encode(FindNodeResp(peers)).value
             N == 2 + Len(encode_entries(peers))
         IN /\ encode(FindNodeResp(peers)).ok /\ w \in Seq(Nat) /\ Len(w) = N
            /\ N \in Nat \ {0}
            /\ \A n \in 0 .. N :
                 decode(First(w, n)) =
                   IF n = N
                   THEN Ok(FindNodeResp(AllOnWire(peers)),
                           1 + Len(encode_entries(peers)))
                   ELSE Err
<1> DEFINE w == << Opcode.FindNodeResp, Len(peers) >> \o encode_entries(peers)
           N == 2 + Len(encode_entries(peers))
<1>1. w \in Seq(Nat) /\ Len(w) = N /\ N \in Nat \ {0}
      /\ encode(FindNodeResp(peers)) = Ok(w, N)
  <2>1. Len(encode_entries(peers)) \in Nat
    BY EncodedEntries
  <2>2. w \in Seq(Nat) /\ Len(w) = N
        /\ encode(FindNodeResp(peers)) = Ok(w, N)
    BY EncodeResp
  <2> QED
    BY <2>1, <2>2
<1>2. ASSUME NEW n \in 0 .. N
      PROVE  decode(First(w, n)) =
               IF n = N
               THEN Ok(FindNodeResp(AllOnWire(peers)),
                       1 + Len(encode_entries(peers)))
               ELSE Err
  <2>1. First(w, n) \in Seq(Nat) /\ Len(First(w, n)) = n /\ HasAt(First(w, n), 0, w)
    <3> HIDE DEF w, N
    <3> QED
      BY <1>1, FirstHasAt
  <2>2. n <= N
    BY <1>1
  <2> QED
    BY <2>1, <2>2, DecodeFindNodeResp
<1> HIDE DEF w, N
<1>3. encode(FindNodeResp(peers)).ok /\ encode(FindNodeResp(peers)).value = w
  BY <1>1 DEF Ok
<1> QED
  BY <1>1, <1>2, <1>3 DEF N

LEMMA FindNodeRespExact ==
  ASSUME NEW n \in 0 .. MaxAdvertised, NEW peers \in [1 .. n -> Contacts]
  PROVE  Exact(FindNodeResp(peers)) /\ peers \in Seq(Entries)
<1>1. n \in Nat /\ n <= MAX_PEERS_PER_RESP
  BY MaxAdvertisedAssumption, BaseAssumption DEF MAX_PEERS_PER_RESP
<1>2. \A m \in 1 .. n : peers[m] \in Entries /\ OnWire(peers[m]) = peers[m]
  BY ContactFacts
<1>3. peers \in [1 .. n -> Entries]
  BY <1>2
<1>4. peers \in Seq(Entries) /\ Len(peers) = n
  BY <1>1, <1>3, FunctionIsSeq
<1>5. AllOnWire(peers) = peers
  BY <1>2, <1>3, <1>4 DEF AllOnWire
<1> DEFINE frame == FindNodeResp(peers)
           w == encode(frame).value
           N == 2 + Len(encode_entries(peers))
<1>6. /\ encode(frame).ok /\ w \in Seq(Nat) /\ Len(w) = N /\ N \in Nat \ {0}
      /\ \A m \in 0 .. N :
           decode(First(w, m)) =
             IF m = N THEN Ok(frame, 1 + Len(encode_entries(peers))) ELSE Err
  BY <1>1, <1>4, <1>5, RespDecodes
<1> HIDE DEF frame, w, N
<1>7. N \in 0 .. N /\ \A m \in 0 .. (N - 1) : m \in 0 .. N /\ m # N
  BY <1>6
<1>8. decode(First(w, N)) = Ok(frame, 1 + Len(encode_entries(peers)))
      /\ \A m \in 0 .. (N - 1) : decode(First(w, m)) = Err
  BY <1>6, <1>7
<1>9. Exact(frame)
  BY <1>6, <1>8 DEF Exact, Ok, w
<1> QED
  BY <1>4, <1>9 DEF frame

\* Whatever the widths of identifiers and addresses: every frame of a peer can
\* be encoded, decode reads it back as it was, and it refuses what is left of
\* the frame if any of its last bytes are missing (codec.rs: encode,
\* decode).
THEOREM KadFramesExact == \A frame \in Frames : Exact(frame)
<1> SUFFICES ASSUME NEW frame \in Frames PROVE Exact(frame)
  OBVIOUS
<1>1. CASE frame \in {Ping("PingReq"), Ping("PingResp")}
  BY <1>1, PingExact
<1>2. CASE \E goal \in Targets : frame = FindNodeReq(goal)
  BY <1>2, PeersAssumption, FindNodeReqExact
<1>3. CASE \E n \in 0 .. MaxAdvertised :
             \E peers \in [1 .. n -> Contacts] : frame = FindNodeResp(peers)
  BY <1>3, FindNodeRespExact
<1> QED
  BY <1>1, <1>2, <1>3 DEF Frames

LEMMA WholeIsFirst ==
  ASSUME NEW w \in Seq(Nat)
  PROVE  First(w, Len(w)) = w
<1>1. Len(w) \in 0 .. Len(w)
  OBVIOUS
<1>2. /\ First(w, Len(w)) \in Seq(Nat) /\ Len(First(w, Len(w))) = Len(w)
      /\ \A i \in 1 .. Len(w) : First(w, Len(w))[i] = w[i]
  BY <1>1, FirstFacts
<1> QED
  BY <1>2, SeqEqual

\* What the node receives is refused, or a frame of a peer.
LEMMA ReceivedFacts ==
  ASSUME NEW received \in Received
  PROVE  ~ received.ok \/ received.value \in Frames
<1>1. PICK f \in Frames :
        \/ received = decode(encode(f).value)
        \/ received = decode(First(encode(f).value, Len(encode(f).value) - 1))
  BY DEF Received
<1> DEFINE w == encode(f).value
<1>2. /\ w \in Seq(Nat) /\ Len(w) \in Nat \ {0}
      /\ decode(First(w, Len(w))).value = f
      /\ \A n \in 0 .. (Len(w) - 1) : decode(First(w, n)) = Err
  BY KadFramesExact DEF Exact
<1> HIDE DEF w
<1>3. CASE received = decode(w)
  <2>1. decode(w).value = f
    BY <1>2, WholeIsFirst
  <2> QED
    BY <1>1, <1>3, <2>1
<1>4. CASE received = decode(First(w, Len(w) - 1))
  <2>1. Len(w) - 1 \in 0 .. (Len(w) - 1)
    BY <1>2
  <2> QED
    BY <1>1, <1>2, <1>4, <2>1 DEF Err
<1> QED
  BY <1>1, <1>3, <1>4 DEF w

LEMMA ReceivedPeers ==
  ASSUME NEW received \in Received, received.ok,
         received.value.op = "FindNodeResp"
  PROVE  /\ received.value.peers \in Seq(Entries)
         /\ Len(received.value.peers) <= MaxAdvertised
<1>1. received.value \in Frames
  BY ReceivedFacts
<1>2. PICK n \in 0 .. MaxAdvertised :
        \E peers \in [1 .. n -> Contacts] :
          received.value = FindNodeResp(peers)
  <2>1. /\ received.value \notin {Ping("PingReq"), Ping("PingResp")}
        /\ received.value \notin {FindNodeReq(goal) : goal \in Targets}
    BY DEF Ping, FindNodeReq
  <2>2. PICK peers \in UNION {[1 .. n -> Contacts] : n \in 0 .. MaxAdvertised} :
          received.value = FindNodeResp(peers)
    BY <1>1, <2>1 DEF Frames
  <2> QED
    BY <2>2
<1>3. PICK peers \in [1 .. n -> Contacts] :
        received.value = FindNodeResp(peers)
  BY <1>2
<1>4. received.value.peers = peers
  BY <1>3 DEF FindNodeResp
<1>5. peers \in Seq(Entries)
  BY FindNodeRespExact
<1>6. n \in Nat /\ n <= MaxAdvertised
  BY MaxAdvertisedAssumption
<1>7. Len(peers) = n
  BY <1>6, FunctionIsSeq
<1> QED
  BY <1>4, <1>5, <1>6, <1>7

LEMMA ReceivedTarget ==
  ASSUME NEW received \in Received, received.ok,
         received.value.op = "FindNodeReq"
  PROVE  received.value.target \in NodeIds
<1>1. received.value \in Frames
  BY ReceivedFacts
<1>2. PICK goal \in Targets : received.value = FindNodeReq(goal)
  BY <1>1 DEF Frames, Ping, FindNodeResp
<1> QED
  BY <1>2, PeersAssumption DEF FindNodeReq

-----------------------------------------------------------------------------
(* The routing table of a running node                                     *)

KTable == TableOK(table) /\ offered \in Histories /\ Recent(table, offered)

\* What the last event says of the table.
KEvent ==
  LET Reply(goal) == encode(FindNodeResp(closest_to(table, goal, k)))
  IN /\ event.kind = "FindNodeRequestReceived" =>
          /\ event.target \in NodeIds /\ Reply(event.target).ok
          /\ event.answer = Reply(event.target).value
     /\ event.kind = "Err" =>
          \E goal \in NodeIds :
            ~ (Reply(goal).ok /\ Len(Reply(goal).value) <= MaxPlaintext)

KInv == KTable /\ KEvent

LEMMA TrackedAt ==
  ASSUME NEW tab, TableOK(tab)
  PROVE  \A e : e \in Tracked(tab) <=>
           \E i \in Positions : \E m \in 1 .. Len(tab[i]) : e = tab[i][m]
<1>1. \A i \in Positions : DOMAIN tab[i] = 1 .. Len(tab[i])
  BY DEF TableOK, BucketAt
<1>2. \A e : \A i \in Positions :
        e \in Range(tab[i]) <=> \E m \in 1 .. Len(tab[i]) : e = tab[i][m]
  BY <1>1 DEF Range
<1>3. \A e : e \in Tracked(tab) <=> \E i \in Positions : e \in Range(tab[i])
  BY DEF Tracked
<1> QED
  BY <1>2, <1>3

LEMMA TrackedIdsAt ==
  ASSUME NEW tab, TableOK(tab)
  PROVE  \A id : id \in TrackedIds(tab) <=>
           \E i \in Positions : \E m \in 1 .. Len(tab[i]) : id = tab[i][m].id
BY TrackedAt DEF TrackedIds

LEMMA KeptTracked ==
  ASSUME NEW tab, NEW next, TableOK(tab), TableOK(next), Kept(tab, next)
  PROVE  TrackedIds(tab) \subseteq TrackedIds(next)
<1> SUFFICES ASSUME NEW id \in TrackedIds(tab) PROVE id \in TrackedIds(next)
  OBVIOUS
<1>1. PICK i \in Positions : \E m \in 1 .. Len(tab[i]) : id = tab[i][m].id
  BY TrackedIdsAt
<1>2. PICK m \in 1 .. Len(tab[i]) : id = tab[i][m].id
  BY <1>1
<1>3. PICK n \in 1 .. Len(next[i]) : next[i][n].id = id
  BY <1>2 DEF Kept
<1> QED
  BY <1>3, TrackedIdsAt

\* Offering one peer is one step of Offer.
LEMMA OfferSingle ==
  ASSUME NEW history \in Histories, NEW e \in Entries
  PROVE  Offer(history, << e >>) = OfferOne(history, e.id)
<1>1. << e >> \in Seq(Entries) /\ Len(<< e >>) = 1 /\ << e >>[1] = e
  OBVIOUS
<1>2. PICK f : OffersAll(f, history, << e >>)
               /\ Offer(history, << e >>) = f[Len(<< e >>)]
  BY <1>1, OfferComputed
<1> DEFINE s == << e >>
<1>3. Len(s) = 1 /\ s[1] = e /\ OffersAll(f, history, s)
      /\ Offer(history, s) = f[1]
  BY <1>1, <1>2
<1> HIDE DEF s
<1>4. f = [n \in 0 .. 1 |-> IF n = 0 THEN history ELSE OfferOne(f[n - 1], s[n].id)]
  BY <1>3 DEF OffersAll
<1>5. f[0] = history
  BY <1>4
<1>6. f[1] = OfferOne(f[1 - 1], s[1].id)
  BY <1>4
<1>7. 1 - 1 = 0
  OBVIOUS
<1> QED
  BY <1>3, <1>5, <1>6, <1>7 DEF s

LEMMA OneOffered ==
  ASSUME KTable, NEW id \in Peers, NEW addr \in Addrs,
         table' = insert(table, id, addr),
         offered' = Offer(offered, << Entry(id, addr) >>)
  PROVE  KTable' /\ Kept(table, table')
<1> DEFINE e == Entry(id, addr)
<1>1. e \in Entries /\ e.id = id /\ id \in Known /\ addr \in KnownAddrs
  BY DEF Entries, Entry, Known, KnownAddrs
<1> HIDE DEF e
<1>2. offered' = OfferOne(offered, id)
  BY <1>1, OfferSingle DEF KTable, e
<1>3. /\ TableOK(insert(table, id, addr)) /\ Kept(table, insert(table, id, addr))
      /\ Recent(insert(table, id, addr), OfferOne(offered, id))
  BY <1>1, TableInsert DEF KTable
<1>4. OfferOne(offered, id) \in Histories
  BY <1>1, OfferType DEF KTable
<1>5. TableOK(table') /\ Kept(table, table') /\ Recent(table', offered')
      /\ offered' \in Histories
  BY <1>2, <1>3, <1>4
<1> QED
  BY <1>5 DEF KTable, TableOK, Recent, BucketAt, BucketRecent

LEMMA ManyOffered ==
  ASSUME KTable, NEW id \in Peers, NEW addr \in Addrs,
         NEW peers \in Seq(Entries), find_node_response(id, addr, peers)
  PROVE  KTable' /\ Kept(table, table')
<1> DEFINE e == Entry(id, addr)
           all == << e >> \o peers
<1>1. e \in Entries
  BY DEF Entries, Entry, Known, KnownAddrs
<1>2. all \in Seq(Entries)
  BY <1>1, ConsFacts
<1>3. table' = insert_all(table, all) /\ offered' = Offer(offered, all)
  BY DEF find_node_response
<1> HIDE DEF all
<1>4. TableOK(table') /\ Kept(table, table') /\ Recent(table', offered')
      /\ offered' \in Histories
  BY <1>2, <1>3, TableInsertAll DEF KTable
<1> QED
  BY <1>4 DEF KTable, TableOK, Recent, BucketAt, BucketRecent

\* What one step does to the table.
LEMMA StepTable ==
  ASSUME KTable, [Next]_vars
  PROVE  /\ KTable'
         /\ \/ Kept(table, table')
            \/ \E id \in Peers : remove_peer(id)
<1>1. CASE UNCHANGED table /\ UNCHANGED offered
  <2>1. Kept(table, table')
    BY <1>1 DEF Kept
  <2> QED
    BY <1>1, <2>1 DEF KTable, TableOK, Recent, BucketAt, BucketRecent
<1>2. ASSUME NEW id \in Peers, NEW addr \in Addrs,
             \/ handshake_complete(id, addr)
             \/ \E received \in Received : handle_datagram(id, addr, received)
      PROVE  KTable' /\ Kept(table, table')
  <2>1. CASE /\ table' = insert(table, id, addr)
             /\ offered' = Offer(offered, << Entry(id, addr) >>)
    BY <2>1, OneOffered
  <2>2. ASSUME NEW received \in Received, received.ok,
               received.value.op = "FindNodeResp",
               find_node_response(id, addr, received.value.peers)
        PROVE  KTable' /\ Kept(table, table')
    BY <2>2, ReceivedPeers, ManyOffered
  <2>3. CASE UNCHANGED << table, offered >>
    <3>1. Kept(table, table')
      BY <2>3 DEF Kept
    <3> QED
      BY <2>3, <3>1 DEF KTable, TableOK, Recent, BucketAt, BucketRecent
  <2>4. CASE handshake_complete(id, addr)
    BY <2>1, <2>4 DEF handshake_complete
  <2>5. ASSUME NEW received \in Received, handle_datagram(id, addr, received)
        PROVE  KTable' /\ Kept(table, table')
    BY <2>1, <2>2, <2>3, <2>5
       DEF handle_datagram, pass_through, handle_ping, auto_reply_find_node
  <2> QED
    BY <1>2, <2>4, <2>5
<1>3. ASSUME NEW id \in Peers, remove_peer(id)
      PROVE  KTable'
  <2>1. table' = remove(table, id) /\ offered' = offered /\ id \in Known
    BY <1>3 DEF remove_peer, Known
  <2>2. TableOK(table') /\ Recent(table', offered') /\ offered' \in Histories
    BY <2>1, TableRemove DEF KTable
  <2> QED
    BY <2>2 DEF KTable, TableOK, Recent, BucketAt, BucketRecent
<1> QED
  BY <1>1, <1>2, <1>3 DEF Next, vars, pass_through

\* What one step says of the table it leaves.
LEMMA StepEvent ==
  ASSUME KEvent, [Next]_vars
  PROVE  KEvent'
<1> DEFINE Reply(goal) == encode(FindNodeResp(closest_to(table, goal, k)))
           Quiet == event'.kind \notin {"FindNodeRequestReceived", "Err"}
<1>1. CASE UNCHANGED vars
  BY <1>1 DEF KEvent, vars
<1>2. CASE Quiet
  BY <1>2 DEF KEvent
<1>3. ASSUME NEW id \in Peers, NEW addr \in Addrs, NEW goal \in NodeIds,
             auto_reply_find_node(id, addr, goal)
      PROVE  KEvent'
  <2> DEFINE bytes == encode(FindNodeResp(closest_to(table', goal, k)))
  <2>1. event' = IF bytes.ok /\ Len(bytes.value) <= MaxPlaintext
                 THEN [Event("FindNodeRequestReceived", id) EXCEPT
                         !.target = goal, !.answer = bytes.value]
                 ELSE Event("Err", id)
    BY <1>3 DEF auto_reply_find_node
  <2> HIDE DEF bytes
  <2>2. CASE bytes.ok /\ Len(bytes.value) <= MaxPlaintext
    <3>1. /\ event'.kind = "FindNodeRequestReceived" /\ event'.target = goal
          /\ event'.answer = bytes.value
      BY <2>1, <2>2 DEF Event
    <3> QED
      BY <2>2, <3>1 DEF KEvent, bytes
  <2>3. CASE ~ (bytes.ok /\ Len(bytes.value) <= MaxPlaintext)
    <3>1. event'.kind = "Err"
      BY <2>1, <2>3 DEF Event
    <3> QED
      BY <2>3, <3>1 DEF KEvent, bytes
  <2> QED
    BY <2>2, <2>3
<1>4. ASSUME NEW id, NEW addr, NEW received,
             handle_datagram(id, addr, received)
      PROVE  \/ Quiet
             \/ /\ received.ok /\ received.value.op = "FindNodeReq"
                /\ auto_reply_find_node(id, addr, received.value.target)
  BY <1>4 DEF handle_datagram, pass_through, handle_ping, find_node_response,
              Event
<1>5. ASSUME NEW id \in Peers, NEW addr \in Addrs,
             \/ handshake_complete(id, addr)
             \/ \E received \in Received : handle_datagram(id, addr, received)
      PROVE  KEvent'
  <2>1. CASE handshake_complete(id, addr)
    BY <1>2, <2>1 DEF handshake_complete, Event
  <2>2. ASSUME NEW received \in Received, handle_datagram(id, addr, received)
        PROVE  KEvent'
    BY <1>2, <1>3, <1>4, <2>2, ReceivedTarget
  <2> QED
    BY <1>5, <2>1, <2>2
<1>6. ASSUME NEW kind \in {"HandshakeProgress", "Rejected"}, pass_through(kind)
      PROVE  KEvent'
  BY <1>2, <1>6 DEF pass_through, Event
<1>7. ASSUME NEW id \in Peers, remove_peer(id)
      PROVE  KEvent'
  BY <1>2, <1>7 DEF remove_peer, Event
<1> QED
  BY <1>1, <1>5, <1>6, <1>7 DEF Next

LEMMA KInit == Init => KInv
<1> SUFFICES ASSUME Init PROVE KInv
  OBVIOUS
<1>1. \A i \in Positions : table[i] = << >> /\ Len(table[i]) = 0
  BY DEF Init, EmptyRoutingTable
<1>2. table \in [Positions -> Seq(Entries)]
  BY DEF Init, EmptyRoutingTable
<1>3. TableOK(table)
  BY <1>1, <1>2, KAssumption DEF TableOK, BucketAt
<1>4. Recent(table, offered)
  BY <1>1 DEF Recent, BucketRecent
<1>5. offered \in Histories
  BY DEF Init, Histories
<1>6. KEvent
  BY DEF Init, Event, KEvent
<1> QED
  BY <1>3, <1>4, <1>5, <1>6 DEF KInv, KTable

\* The table is sound and ordered as the history says, and the last answer is
\* the encoded result of closest_to on the table as it is.
THEOREM KInvHolds == Spec => []KInv
<1>1. Init => KInv
  BY KInit
<1>2. KInv /\ [Next]_vars => KInv'
  BY StepTable, StepEvent DEF KInv
<1> QED
  BY <1>1, <1>2, PTL DEF Spec

LEMMA TableSound == KTable => BucketsSound
<1> SUFFICES ASSUME KTable, NEW i \in Positions PROVE
      /\ Len(table[i]) <= k
      /\ \A m, n \in DOMAIN table[i] :
           /\ table[i][m].id \in Peers
           /\ distance(self_id, table[i][m].id) \in
                {d \in NodeIds : i \in d /\ \A j \in d : j <= i}
           /\ table[i][m].id = table[i][n].id => m = n
  BY DEF BucketsSound
<1>1. BucketAt(table[i], i) /\ DOMAIN table[i] = 1 .. Len(table[i])
  BY DEF KTable, TableOK, BucketAt
<1>2. ASSUME NEW m \in DOMAIN table[i]
      PROVE  /\ table[i][m].id \in Peers
             /\ distance(self_id, table[i][m].id) \in
                  {d \in NodeIds : i \in d /\ \A j \in d : j <= i}
  <2>1. table[i][m].id \in Home(i)
    BY <1>1 DEF BucketAt
  <2>2. table[i][m].id # self_id
    BY <2>1 DEF Home, distance
  <2>3. distance(self_id, table[i][m].id) \in NodeIds
    BY <2>1, KnownIds, SelfAssumption, DistanceType DEF Home
  <2> QED
    BY <2>1, <2>2, <2>3 DEF Home, Known
<1> QED
  BY <1>1, <1>2 DEF BucketAt

\* For identifiers of any width and buckets of any size: no bucket outgrows k,
\* each peer is in the table at most once and in the bucket of its distance,
\* whatever the Host reports and whatever peers advertise.
THEOREM BucketsSoundHolds == Spec => []BucketsSound
<1>1. KInv => BucketsSound
  BY TableSound DEF KInv
<1> QED
  BY <1>1, KInvHolds, PTL

LEMMA TableRecent == KTable => RecencyOrder
<1> SUFFICES ASSUME KTable, NEW i \in Positions,
                    NEW m \in DOMAIN table[i], NEW n \in DOMAIN table[i],
                    m <= n
             PROVE  << table[i][m].id, table[i][n].id >> \in offered
  BY DEF RecencyOrder
<1>1. DOMAIN table[i] = 1 .. Len(table[i]) /\ BucketRecent(table[i], offered)
  BY DEF KTable, TableOK, BucketAt, Recent
<1> QED
  BY <1>1 DEF BucketRecent

\* For any peers and any order of their messages: each bucket is ordered by
\* how recently a peer was offered, the last one being the least recent.
THEOREM RecencyOrderHolds == Spec => []RecencyOrder
<1>1. KInv => RecencyOrder
  BY TableRecent DEF KInv
<1> QED
  BY <1>1, KInvHolds, PTL

\* For any peers: whoever is in the table stays there until it is removed by
\* hand, however many newcomers are met or advertised.
THEOREM OldPeersKeptHolds == Spec => OldPeersKept
<1>1. KTable /\ KTable' /\ [Next]_vars => [StaysTracked]_vars
  <2> SUFFICES ASSUME KTable, KTable', [Next]_vars,
                      NEW id \in TrackedIds(table)
               PROVE  \/ id \in TrackedIds(table')
                      \/ event'.kind = "remove" /\ event'.id = id
    BY DEF StaysTracked
  <2>1. TableOK(table) /\ TableOK(table')
    BY DEF KTable, TableOK, BucketAt
  <2>2. CASE Kept(table, table')
    BY <2>1, <2>2, KeptTracked
  <2>3. ASSUME NEW peer \in Peers, remove_peer(peer)
        PROVE  \/ id \in TrackedIds(table')
               \/ event'.kind = "remove" /\ event'.id = id
    <3>1. /\ table' = remove(table, peer) /\ event'.kind = "remove"
          /\ event'.id = peer /\ peer \in Known
      BY <2>3 DEF remove_peer, Event, Known
    <3>2. PICK i \in Positions : \E m \in 1 .. Len(table[i]) : id = table[i][m].id
      BY <2>1, TrackedIdsAt
    <3>3. PICK m \in 1 .. Len(table[i]) : id = table[i][m].id
      BY <3>2
    <3>4. \/ id = peer
          \/ \E n \in 1 .. Len(table'[i]) : table'[i][n].id = id
      BY <3>1, <3>3, TableRemove DEF KTable
    <3> QED
      BY <2>1, <3>1, <3>4, TrackedIdsAt
  <2> QED
    BY <2>2, <2>3, StepTable
<1>2. KInv => KTable
  BY DEF KInv
<1> QED
  BY <1>1, <1>2, KInvHolds, PTL DEF Spec, OldPeersKept

-----------------------------------------------------------------------------
(* Answers                                                                 *)

LEMMA MinTwo ==
  ASSUME NEW a \in Nat, NEW b \in Nat
  PROVE  Min({a, b}) = IF a <= b THEN a ELSE b
<1> DEFINE x == IF a <= b THEN a ELSE b
<1>1. x \in {a, b} /\ \A y \in {a, b} : x <= y
  OBVIOUS
<1>2. \A z \in {a, b} : (\A y \in {a, b} : z <= y) => z = x
  OBVIOUS
<1> QED
  BY <1>1, <1>2 DEF Min

\* Elements with different keys are ranked by their keys, and every rank is
\* taken.
LEMMA Ranks ==
  ASSUME NEW S, IsFiniteSet(S), NEW key \in [S -> Nat],
         \A i, j \in S : key[i] = key[j] => i = j
  PROVE  /\ \A e \in S : Cardinality(Below(S, key, e)) \in Nat
         /\ \A n \in 1 .. Cardinality(S) :
              \E e \in S : Cardinality(Below(S, key, e)) = n - 1
         /\ \A e, f \in S :
              key[e] < key[f] <=> Cardinality(Below(S, key, e))
                                    < Cardinality(Below(S, key, f))
<1> DEFINE rank(e) == Cardinality(Below(S, key, e))
<1>1. ASSUME NEW e \in S
      PROVE  IsFiniteSet(Below(S, key, e)) /\ rank(e) \in Nat
  <2>1. Below(S, key, e) \subseteq S
    BY DEF Below
  <2> QED
    BY <2>1, FS_Subset, FS_CardinalityType
<1>2. ASSUME NEW e \in S, NEW f \in S, key[e] < key[f]
      PROVE  rank(e) < rank(f)
  <2> DEFINE up == Below(S, key, e) \cup {e}
  <2>1. up \subseteq Below(S, key, f) /\ e \notin Below(S, key, e)
    BY <1>2 DEF Below
  <2>2. Cardinality(up) = rank(e) + 1
    BY <1>1, <2>1, FS_AddElement
  <2> HIDE DEF up
  <2>3. Cardinality(up) <= rank(f)
    BY <1>1, <2>1, FS_Subset
  <2> HIDE DEF rank
  <2> QED
    BY <1>1, <2>2, <2>3
<1>3. ASSUME NEW e \in S, NEW f \in S, rank(e) < rank(f)
      PROVE  key[e] < key[f]
  <2>1. CASE key[f] < key[e]
    <3>1. rank(f) < rank(e)
      BY <1>2, <2>1
    <3> HIDE DEF rank
    <3> QED
      BY <1>1, <1>3, <3>1
  <2>2. CASE key[f] = key[e]
    <3>1. e = f
      BY <2>2
    <3> HIDE DEF rank
    <3> QED
      BY <1>1, <1>3, <3>1
  <2> QED
    BY <2>1, <2>2
<1>4. ASSUME NEW n \in 1 .. Cardinality(S)
      PROVE  \E e \in S : rank(e) = n - 1
  <2>1. Cardinality(S) \in Nat
    BY FS_CardinalityType
  <2>2. n \in Nat /\ n - 1 \in Nat /\ n <= Cardinality(S)
        /\ n - 1 <= Cardinality(S)
    BY <2>1
  <2>3. /\ Cardinality(FirstOf(n, S, key)) = n
        /\ Cardinality(FirstOf(n - 1, S, key)) = n - 1
    BY <2>2, FirstN
  <2>4. FirstOf(n, S, key) \subseteq S /\ FirstOf(n - 1, S, key) \subseteq S
    BY DEF FirstOf
  <2>5. ~ (FirstOf(n, S, key) \subseteq FirstOf(n - 1, S, key))
    <3>1. SUFFICES ASSUME FirstOf(n, S, key) \subseteq FirstOf(n - 1, S, key)
                   PROVE  FALSE
      OBVIOUS
    <3>2. Cardinality(FirstOf(n, S, key)) <= Cardinality(FirstOf(n - 1, S, key))
      BY <2>4, <3>1, FS_Subset
    <3> QED
      BY <2>2, <2>3, <3>2
  <2>6. PICK e \in S : rank(e) < n /\ ~ (rank(e) < n - 1)
    BY <2>5 DEF FirstOf
  <2> HIDE DEF rank
  <2> QED
    BY <1>1, <2>2, <2>6
<1> QED
  BY <1>1, <1>2, <1>3, <1>4

LEMMA TrackedFacts ==
  ASSUME NEW tab, TableOK(tab)
  PROVE  /\ IsFiniteSet(Tracked(tab)) /\ Tracked(tab) \subseteq Entries
         /\ \A e, f \in Tracked(tab) : e.id = f.id => e = f
<1>1. IsFiniteSet(Tracked(tab))
  <2> DEFINE R == {Range(tab[i]) : i \in Positions}
             g == [i \in Positions |-> Range(tab[i])]
  <2>1. IsFiniteSet(Positions)
    BY BitsAssumption, FS_Interval DEF Positions
  <2>2. g \in Surjection(Positions, R)
    BY DEF Surjection
  <2> HIDE DEF g
  <2>3. IsFiniteSet(R)
    <3> HIDE DEF R
    <3> QED
      BY <2>1, <2>2, FS_Surjection
  <2>4. ASSUME NEW i \in Positions PROVE IsFiniteSet(Range(tab[i]))
    <3> DEFINE s == tab[i]
    <3>1. s \in Seq(Entries)
      BY DEF TableOK
    <3>2. s \in Surjection(1 .. Len(s), Range(s)) /\ Len(s) \in Nat
      BY <3>1 DEF Surjection, Range
    <3>3. IsFiniteSet(1 .. Len(s))
      BY <3>2, FS_Interval
    <3> HIDE DEF s
    <3> QED
      BY <3>2, <3>3, FS_Surjection DEF s
  <2>5. \A T \in R : IsFiniteSet(T)
    BY <2>4
  <2> HIDE DEF R
  <2>6. IsFiniteSet(UNION R)
    BY <2>3, <2>5, FS_UNION
  <2> QED
    BY <2>6 DEF R, Tracked
<1>2. ASSUME NEW e \in Tracked(tab) PROVE e \in Entries
  <2>1. PICK i \in Positions : \E m \in 1 .. Len(tab[i]) : e = tab[i][m]
    BY TrackedAt
  <2>2. tab[i] \in Seq(Entries)
    BY DEF TableOK
  <2> QED
    BY <2>1, <2>2
<1>3. ASSUME NEW e \in Tracked(tab), NEW f \in Tracked(tab), e.id = f.id
      PROVE  e = f
  <2>1. PICK i \in Positions : \E m \in 1 .. Len(tab[i]) : e = tab[i][m]
    BY TrackedAt
  <2>2. PICK m \in 1 .. Len(tab[i]) : e = tab[i][m]
    BY <2>1
  <2>3. PICK j \in Positions : \E n \in 1 .. Len(tab[j]) : f = tab[j][n]
    BY TrackedAt
  <2>4. PICK n \in 1 .. Len(tab[j]) : f = tab[j][n]
    BY <2>3
  <2>5. BucketAt(tab[i], i) /\ BucketAt(tab[j], j)
    BY DEF TableOK
  <2>6. e.id \in Home(i) /\ e.id \in Home(j)
    BY <1>3, <2>2, <2>4, <2>5 DEF BucketAt
  <2>7. i = j
    BY <2>6, HomeUnique
  <2> QED
    BY <1>3, <2>2, <2>4, <2>5, <2>7 DEF BucketAt
<1> QED
  BY <1>1, <1>2, <1>3

DistTo(goal, id) == Numeric(distance(id, goal))

\* closest_to sorts the tracked entries by their numeric distance to target
\* and keeps the first max_count.
LEMMA ClosestFacts ==
  ASSUME NEW tab, TableOK(tab), NEW goal \in NodeIds, NEW max_count \in Nat
  PROVE  LET c == closest_to(tab, goal, max_count)
             S == Tracked(tab)
         IN /\ c \in Seq(Entries) /\ Len(c) = Min({max_count, Cardinality(S)})
            /\ Len(c) <= max_count
            /\ \A n \in 1 .. Len(c) : c[n] \in S
            /\ \A m, n \in 1 .. Len(c) : m < n =>
                 DistTo(goal, c[m].id) < DistTo(goal, c[n].id)
            /\ \A e \in S : (\A n \in 1 .. Len(c) : c[n] # e) =>
                 \A n \in 1 .. Len(c) :
                   DistTo(goal, c[n].id) < DistTo(goal, e.id)
<1> DEFINE S == Tracked(tab)
           c == closest_to(tab, goal, max_count)
           key == [e \in S |-> DistTo(goal, e.id)]
           rank(e) == Cardinality(Below(S, key, e))
           Top == Min({max_count, Cardinality(S)})
<1>1. /\ IsFiniteSet(S) /\ S \subseteq Entries
      /\ \A e, f \in S : e.id = f.id => e = f
  BY TrackedFacts
<1>2. \A e \in S : e.id \in NodeIds
  BY <1>1, KnownIds DEF Entries
<1>3. key \in [S -> Nat]
  BY NumericType DEF DistTo
<1>4. \A e \in S : key[e] = DistTo(goal, e.id)
  OBVIOUS
<1> HIDE DEF S, key
<1>5. \A e, f \in S : key[e] = key[f] => e = f
  BY <1>1, <1>2, <1>4, NumericInjective DEF DistTo
<1>6. \A e \in S : CloserThan(S, goal, e) = Below(S, key, e)
  <2> TAKE e \in S
  <2>1. \A f \in S : Closer(distance(f.id, goal), distance(e.id, goal))
                       <=> key[f] < key[e]
    BY <1>2, <1>4, DistanceType, CloserIffLess DEF DistTo
  <2> QED
    BY <2>1 DEF CloserThan, Below
<1>7. /\ \A e \in S : rank(e) \in Nat
      /\ \A n \in 1 .. Cardinality(S) : \E e \in S : rank(e) = n - 1
      /\ \A e, f \in S : key[e] < key[f] <=> rank(e) < rank(f)
  BY <1>1, <1>3, <1>5, Ranks
<1>8. /\ Cardinality(S) \in Nat /\ Top \in Nat /\ Top <= max_count
      /\ Top <= Cardinality(S)
  <2>1. Cardinality(S) \in Nat
    BY <1>1, FS_CardinalityType
  <2> QED
    BY <2>1, MinTwo
<1>9. c = [n \in 1 .. Top |-> CHOOSE e \in S : rank(e) = n - 1]
  <2>1. c = [n \in 1 .. Top |->
               CHOOSE e \in S : Cardinality(CloserThan(S, goal, e)) = n - 1]
    BY DEF closest_to, SortedByDistance, S
  <2>2. ASSUME NEW n
        PROVE  (CHOOSE e \in S : Cardinality(CloserThan(S, goal, e)) = n - 1)
                 = CHOOSE e \in S : rank(e) = n - 1
    <3>1. \A e \in S : Cardinality(CloserThan(S, goal, e)) = n - 1
                         <=> rank(e) = n - 1
      BY <1>6
    <3> QED
      BY <3>1
  <2> HIDE DEF rank, c, Top
  <2> QED
    BY <2>1, <2>2
<1> HIDE DEF rank, c, Top
<1>10. ASSUME NEW n \in 1 .. Top PROVE c[n] \in S /\ rank(c[n]) = n - 1
  <2>1. n \in 1 .. Cardinality(S)
    BY <1>8
  <2>2. \E e \in S : rank(e) = n - 1
    BY <1>7, <2>1
  <2>3. c[n] = CHOOSE e \in S : rank(e) = n - 1
    BY <1>9
  <2> QED
    BY <2>2, <2>3
<1>11. c \in Seq(Entries) /\ Len(c) = Top
  <2>1. c \in [1 .. Top -> Entries]
    <3>1. \A n \in 1 .. Top : c[n] \in Entries
      BY <1>1, <1>10
    <3> QED
      BY <1>9, <3>1
  <2> QED
    BY <1>8, <2>1, FunctionIsSeq
<1>12. ASSUME NEW m \in 1 .. Top, NEW n \in 1 .. Top, m < n
       PROVE  DistTo(goal, c[m].id) < DistTo(goal, c[n].id)
  <2>1. rank(c[m]) < rank(c[n]) /\ c[m] \in S /\ c[n] \in S
    BY <1>8, <1>10, <1>12
  <2>2. key[c[m]] < key[c[n]]
    BY <1>7, <2>1
  <2> QED
    BY <1>4, <2>1, <2>2
<1>13. ASSUME NEW e \in S, \A n \in 1 .. Top : c[n] # e, NEW n \in 1 .. Top
       PROVE  DistTo(goal, c[n].id) < DistTo(goal, e.id)
  <2>1. ~ (rank(e) < Top)
    <3>1. SUFFICES ASSUME rank(e) < Top PROVE FALSE
      OBVIOUS
    <3> DEFINE m == rank(e) + 1
    <3>2. m \in 1 .. Top /\ m - 1 = rank(e)
      BY <1>7, <1>8, <3>1
    <3> HIDE DEF m
    <3>3. c[m] \in S /\ rank(c[m]) = rank(e)
      BY <1>10, <3>2
    <3>4. ~ (rank(c[m]) < rank(e)) /\ ~ (rank(e) < rank(c[m]))
      BY <1>7, <3>3
    <3>5. ~ (key[c[m]] < key[e]) /\ ~ (key[e] < key[c[m]])
      BY <1>7, <3>3, <3>4
    <3>6. key[c[m]] \in Nat /\ key[e] \in Nat
      BY <1>3, <3>3
    <3>7. key[c[m]] = key[e]
      BY <3>5, <3>6
    <3> QED
      BY <1>5, <1>13, <3>2, <3>3, <3>7
  <2>2. rank(c[n]) < rank(e) /\ c[n] \in S
    BY <1>7, <1>8, <1>10, <2>1
  <2>3. key[c[n]] < key[e]
    BY <1>7, <2>2
  <2> QED
    BY <1>4, <2>2, <2>3
<1> QED
  BY <1>8, <1>10, <1>11, <1>12, <1>13 DEF S, c, Top

\* An entry takes no more bytes than one with an IPv6 address.
LEMMA EntryLength ==
  ASSUME NEW e \in Entries
  PROVE  Len(encode_entry(e)) <= ENTRY_V6_LEN /\ ENTRY_V6_LEN \in Nat
<1>1. e.addr \in KnownAddrs
  BY DEF Entries
<1>2. /\ Len(encode_entry(e)) = NODE_ID_LEN + Len(encode_addr(e.addr))
      /\ Len(encode_addr(e.addr)) = 1 + WidthOf(e.addr) + PORT_LEN
  BY <1>1, EntryBytes, AddrBytes, KnownAreAddrs
<1>3. WidthOf(e.addr) \in Nat /\ V6_LEN \in Nat /\ WidthOf(e.addr) <= V6_LEN
  BY WidthsAssumption DEF WidthOf
<1>4. NODE_ID_LEN \in Nat
  BY ByteBits
<1> HIDE DEF WidthOf
<1> QED
  BY <1>2, <1>3, <1>4 DEF ENTRY_V6_LEN, PORT_LEN

LEMMA TimesNext ==
  ASSUME NEW a \in Nat, NEW b \in Nat, NEW c \in Nat
  PROVE  /\ (a + 1) * b = a * b + b /\ a * b \in Nat /\ 0 * b = 0
         /\ a <= c => a * b <= c * b
  OBVIOUS

LEMMA EntriesLength ==
  ASSUME NEW peers \in Seq(Entries)
  PROVE  /\ Len(encode_entries(peers)) <= Len(peers) * ENTRY_V6_LEN
         /\ Len(encode_entries(peers)) \in Nat /\ ENTRY_V6_LEN \in Nat
<1> DEFINE N == Len(peers)
           E == ENTRY_V6_LEN
<1>1. PICK b : EncodesAll(b, peers) /\ encode_entries(peers) = b[N]
  BY EncodeComputed
<1>2. N \in Nat /\ E \in Nat
  BY WidthsAssumption, ByteBits DEF ENTRY_V6_LEN, PORT_LEN
<1> DEFINE T == {n \in 0 .. N : Len(b[n]) <= n * E}
<1>3. /\ b[0] = << >>
      /\ \A n \in 0 .. N : Len(b[n]) \in Nat
      /\ \A n \in 1 .. N :
           Len(b[n]) = Len(b[n - 1]) + Len(encode_entry(peers[n]))
  BY <1>1, EncodedLengths
<1>4. 0 \in T
  <2>1. Len(b[0]) = 0
    BY <1>3
  <2> HIDE DEF E
  <2>2. 0 * E = 0
    BY <1>2, TimesNext
  <2> QED
    BY <1>2, <2>1, <2>2
<1>5. ASSUME NEW n \in 0 .. (N - 1), n \in T PROVE n + 1 \in T
  <2> DEFINE len == Len(encode_entry(peers[n + 1]))
  <2>1. n \in Nat /\ n + 1 \in 0 .. N /\ n + 1 \in 1 .. N /\ (n + 1) - 1 = n
        /\ n \in 0 .. N /\ peers[n + 1] \in Entries
    BY <1>2
  <2>2. len <= E /\ len \in Nat
    BY <2>1, EntryLength, EntryBytes
  <2>3. Len(b[n + 1]) = Len(b[n]) + len /\ Len(b[n]) \in Nat
    BY <1>3, <2>1
  <2> HIDE DEF len, E
  <2>4. (n + 1) * E = n * E + E /\ n * E \in Nat
    BY <1>2, <2>1, TimesNext
  <2>5. Len(b[n]) <= n * E
    BY <1>5
  <2>6. Len(b[n + 1]) <= (n + 1) * E
    BY <1>2, <2>2, <2>3, <2>4, <2>5
  <2> QED
    BY <2>1, <2>6
<1>6. 0 .. N \subseteq T
  <2> HIDE DEF N, T
  <2> QED
    BY <1>2, <1>4, <1>5, Induction
<1>7. N \in T /\ N \in 0 .. N
  BY <1>2, <1>6
<1> QED
  BY <1>1, <1>2, <1>3, <1>7

\* What k entries with IPv6 addresses would take bounds every answer.
LEMMA AnswerFits ==
  ASSUME NEW tab, TableOK(tab), NEW goal \in NodeIds,
         2 + k * ENTRY_V6_LEN <= MaxPlaintext, k <= MAX_PEERS_PER_RESP
  PROVE  LET reply == encode(FindNodeResp(closest_to(tab, goal, k)))
         IN reply.ok /\ Len(reply.value) <= MaxPlaintext
<1> DEFINE c == closest_to(tab, goal, k)
           reply == encode(FindNodeResp(c))
           len == Len(encode_entries(c))
           E == ENTRY_V6_LEN
<1>2. c \in Seq(Entries) /\ Len(c) <= k
  BY KAssumption, ClosestFacts
<1>3. Len(c) \in Nat /\ MAX_PEERS_PER_RESP \in Int /\ MaxPlaintext \in Nat
      /\ k \in Nat
  BY <1>2, KAssumption, BaseAssumption, MaxAdvertisedAssumption
     DEF MAX_PEERS_PER_RESP
<1> HIDE DEF c
<1>4. Len(c) <= MAX_PEERS_PER_RESP
  BY <1>2, <1>3
<1>5. reply.ok /\ Len(reply.value) = 2 + len
  BY <1>2, <1>4, RespDecodes DEF c
<1>6. len <= Len(c) * E /\ len \in Nat /\ E \in Nat
  BY <1>2, EntriesLength
<1> HIDE DEF len, E, reply
<1>7. Len(c) * E <= k * E /\ Len(c) * E \in Nat /\ k * E \in Nat
  BY <1>2, <1>3, <1>6, TimesNext
<1>8. 2 + k * E <= MaxPlaintext
  BY DEF E
<1>9. 2 + len <= MaxPlaintext
  BY <1>3, <1>6, <1>7, <1>8
<1>10. Len(reply.value) <= MaxPlaintext
  BY <1>5, <1>9
<1> QED
  BY <1>5, <1>10 DEF reply, c

\* Whatever the node knows and is asked: k entries with IPv6 addresses
\* fitting in a datagram, every answer to FIND_NODE can be encoded and sent,
\* so that no request ends the node.
THEOREM NodeSurvivesHolds == Spec => []NodeSurvives
<1>1. KInv => NodeSurvives
  BY AnswerFits DEF NodeSurvives, KInv, KTable, KEvent
<1> QED
  BY <1>1, KInvHolds, PTL

\* For identifiers of any width, buckets of any size and any history of the
\* table: what the asking peer decodes is the tracked peers nearest to the
\* target, nearest first, at the addresses where they are tracked, k of them
\* or all.
THEOREM AnswerExactHolds == Spec => []AnswerExact
<1>1. KInv => AnswerExact
  <2> SUFFICES ASSUME KInv, event.kind = "FindNodeRequestReceived"
               PROVE  AnswerExact
    BY DEF AnswerExact
  <2> DEFINE goal == event.target
             S == Tracked(table)
             c == closest_to(table, goal, k)
             bytes == encode(FindNodeResp(c))
             answer == decode(event.answer).value.peers
             named == {answer[i].id : i \in DOMAIN answer}
  <2>1. TableOK(table) /\ goal \in NodeIds /\ bytes.ok
        /\ event.answer = bytes.value
    BY DEF KInv, KTable, KEvent
  <2>2. /\ c \in Seq(Entries) /\ Len(c) = Min({k, Cardinality(S)})
        /\ \A n \in 1 .. Len(c) : c[n] \in S
        /\ \A m, n \in 1 .. Len(c) : m < n =>
             DistTo(goal, c[m].id) < DistTo(goal, c[n].id)
        /\ \A e \in S : (\A n \in 1 .. Len(c) : c[n] # e) =>
             \A n \in 1 .. Len(c) :
               DistTo(goal, c[n].id) < DistTo(goal, e.id)
    BY <2>1, KAssumption, ClosestFacts
  <2> HIDE DEF c
  <2>3. Len(c) <= MAX_PEERS_PER_RESP
    <3>1. SUFFICES ASSUME Len(c) > MAX_PEERS_PER_RESP PROVE FALSE
      BY <2>2, BaseAssumption DEF MAX_PEERS_PER_RESP
    <3>2. bytes = Err
      BY <3>1 DEF encode, FindNodeResp, encode_find_node_resp
    <3> QED
      BY <2>1, <3>2 DEF Err
  <2>4. /\ decode(event.answer).ok
        /\ decode(event.answer).value = FindNodeResp(AllOnWire(c))
    <3> DEFINE w == bytes.value
               N == 2 + Len(encode_entries(c))
    <3>1. /\ w \in Seq(Nat) /\ Len(w) = N /\ N \in Nat \ {0}
          /\ \A n \in 0 .. N :
               decode(First(w, n)) =
                 IF n = N THEN Ok(FindNodeResp(AllOnWire(c)),
                                  1 + Len(encode_entries(c)))
                 ELSE Err
      BY <2>2, <2>3, RespDecodes
    <3> HIDE DEF w, N
    <3>2. decode(w) = Ok(FindNodeResp(AllOnWire(c)), 1 + Len(encode_entries(c)))
      <4>1. First(w, N) = w /\ N \in 0 .. N
        BY <3>1, WholeIsFirst
      <4> QED
        BY <3>1, <4>1
    <3> QED
      BY <2>1, <3>2 DEF Ok, w
  <2>5. answer = AllOnWire(c)
    BY <2>4 DEF FindNodeResp
  <2>6. /\ Len(c) \in Nat /\ answer = [n \in 1 .. Len(c) |-> OnWire(c[n])]
    BY <2>2, <2>5 DEF AllOnWire
  <2> HIDE DEF answer, S, bytes
  <2>7. /\ DOMAIN answer = 1 .. Len(c) /\ Len(answer) = Len(c)
        /\ \A n \in 1 .. Len(c) :
             answer[n] = OnWire(c[n]) /\ answer[n].id = c[n].id
    <3>1. DOMAIN answer = 1 .. Len(c)
          /\ \A n \in 1 .. Len(c) : answer[n] = OnWire(c[n])
      BY <2>6
    <3>2. \A n \in 1 .. Len(c) : answer[n].id = c[n].id
      BY <3>1 DEF OnWire, Entry
    <3> DEFINE All == {OnWire(c[n]) : n \in 1 .. Len(c)}
    <3>3. answer \in [1 .. Len(c) -> All]
      BY <2>6
    <3>4. Len(answer) = Len(c)
      <4> HIDE DEF All
      <4> QED
        BY <2>6, <3>3, FunctionIsSeq
    <3> QED
      BY <3>1, <3>2, <3>4
  <2>8. Range(answer) \subseteq {Entry(e.id, Unscoped(e.addr)) : e \in S}
    BY <2>2, <2>7 DEF Range, OnWire
  <2>9. Cardinality(S) = Cardinality(TrackedIds(table))
    <3> DEFINE ids == TrackedIds(table)
               g == [e \in S |-> e.id]
    <3>1. IsFiniteSet(S) /\ \A e, f \in S : e.id = f.id => e = f
      BY <2>1, TrackedFacts DEF S
    <3>2. ids = {e.id : e \in S}
      BY DEF TrackedIds, S
    <3>3. g \in Surjection(S, ids) /\ g \in Injection(S, ids)
      <4>1. g \in [S -> ids] /\ \A e \in S : g[e] = e.id
        BY <3>2
      <4>2. DOMAIN g = S
        OBVIOUS
      <4> HIDE DEF g
      <4>3. \A id \in ids : \E e \in S : g[e] = id
        BY <3>2, <4>1
      <4>4. \A e, f \in S : g[e] = g[f] => e = f
        BY <3>1, <4>1
      <4> QED
        BY <4>1, <4>2, <4>3, <4>4 DEF Surjection, Injection, IsInjective
    <3> HIDE DEF g, ids
    <3>4. Cardinality(ids) = Cardinality(S)
      BY <3>1, <3>3, FS_Surjection
    <3> QED
      BY <3>4 DEF ids
  <2>10. Len(answer) = Min({k, Cardinality(TrackedIds(table))})
    BY <2>2, <2>7, <2>9
  <2>11. \A i, j \in DOMAIN answer : i < j =>
           DistTo(goal, answer[i].id) < DistTo(goal, answer[j].id)
    BY <2>2, <2>7
  <2>12. ASSUME NEW id \in TrackedIds(table) \ named, NEW near \in named
         PROVE  DistTo(goal, near) < DistTo(goal, id)
    <3>1. PICK e \in S : id = e.id
      BY DEF TrackedIds, S
    <3>2. PICK n \in 1 .. Len(c) : near = c[n].id
      BY <2>7
    <3>3. \A m \in 1 .. Len(c) : c[m] # e
      BY <2>7, <2>12, <3>1
    <3> QED
      BY <2>2, <3>1, <3>2, <3>3
  <2> HIDE DEF named
  <2> QED
    BY <2>4, <2>8, <2>10, <2>11, <2>12 DEF AnswerExact, DistTo, answer, named, S
<1> QED
  BY <1>1, KInvHolds, PTL

-----------------------------------------------------------------------------
(* The history of what was offered                                         *)

\* Whoever was offered has been since itself.
Reflexive(history) == \A p \in history : << p[1], p[1] >> \in history

LEMMA OfferOneFacts ==
  ASSUME NEW history \in Histories, Reflexive(history), NEW id \in Known
  PROVE  LET next == OfferOne(history, id)
         IN /\ Reflexive(next)
            /\ EverOffered(history) \subseteq EverOffered(next)
            /\ id # self_id => id \in EverOffered(next)
<1> DEFINE next == OfferOne(history, id)
<1>1. CASE id = self_id
  BY <1>1 DEF OfferOne
<1>2. CASE id # self_id
  <2>1. next = {p \in history : p[2] # id}
               \cup ({id} \X (EverOffered(history) \cup {id}))
    BY <1>2 DEF OfferOne
  <2>2. << id, id >> \in next
    BY <2>1
  <2>3. ASSUME NEW p \in history PROVE << p[1], p[1] >> \in next
    <3>1. << p[1], p[1] >> \in history
      BY DEF Reflexive
    <3>2. CASE p[1] = id
      BY <2>2, <3>2
    <3>3. CASE p[1] # id
      BY <2>1, <3>1, <3>3
    <3> QED
      BY <3>2, <3>3
  <2>4. \A p \in next : p \in history \/ p[1] = id
    BY <2>1
  <2> HIDE DEF next
  <2>5. Reflexive(next)
    BY <2>2, <2>3, <2>4 DEF Reflexive
  <2>6. EverOffered(history) \subseteq EverOffered(next)
    <3> SUFFICES ASSUME NEW p \in history PROVE p[1] \in EverOffered(next)
      BY DEF EverOffered
    <3>1. << p[1], p[1] >> \in next
      BY <2>3
    <3> QED
      BY <3>1 DEF EverOffered
  <2>7. id \in EverOffered(next)
    BY <2>2 DEF EverOffered
  <2> QED
    BY <2>5, <2>6, <2>7 DEF next
<1> QED
  BY <1>1, <1>2

LEMMA OfferFacts ==
  ASSUME NEW history \in Histories, Reflexive(history),
         NEW peers \in Seq(Entries)
  PROVE  LET next == Offer(history, peers)
         IN /\ Reflexive(next)
            /\ EverOffered(history) \subseteq EverOffered(next)
            /\ \A n \in 1 .. Len(peers) :
                 peers[n].id # self_id => peers[n].id \in EverOffered(next)
<1> DEFINE N == Len(peers)
<1>1. PICK g : OffersAll(g, history, peers) /\ Offer(history, peers) = g[N]
  BY OfferComputed
<1>2. N \in Nat
  OBVIOUS
<1> DEFINE Good(n) ==
             /\ g[n] \in Histories /\ Reflexive(g[n])
             /\ EverOffered(history) \subseteq EverOffered(g[n])
             /\ \A m \in 1 .. n :
                  peers[m].id # self_id => peers[m].id \in EverOffered(g[n])
           T == {n \in 0 .. N : Good(n)}
<1>3. 0 \in T
  <2>1. g[0] = history
    BY <1>1, <1>2 DEF OffersAll
  <2> QED
    BY <1>2, <2>1
<1>4. ASSUME NEW n \in 0 .. (N - 1), n \in T PROVE n + 1 \in T
  <2>1. /\ n + 1 \in 0 .. N /\ n + 1 # 0 /\ (n + 1) - 1 = n
        /\ n + 1 \in 1 .. N /\ 1 .. (n + 1) = (1 .. n) \cup {n + 1}
    BY <1>2
  <2> DEFINE id == peers[n + 1].id
  <2>2. g[n + 1] = OfferOne(g[n], id)
    BY <1>1, <2>1 DEF OffersAll
  <2>3. id \in Known
    BY <2>1, EntryFields
  <2>4. Good(n)
    BY <1>4
  <2>5. /\ Reflexive(g[n + 1])
        /\ EverOffered(g[n]) \subseteq EverOffered(g[n + 1])
        /\ id # self_id => id \in EverOffered(g[n + 1])
    BY <2>2, <2>3, <2>4, OfferOneFacts
  <2>6. g[n + 1] \in Histories
    BY <2>2, <2>3, <2>4, OfferType
  <2>7. ASSUME NEW m \in 1 .. (n + 1), peers[m].id # self_id
        PROVE  peers[m].id \in EverOffered(g[n + 1])
    <3>1. CASE m \in 1 .. n
      BY <2>4, <2>5, <2>7, <3>1
    <3>2. CASE m = n + 1
      BY <2>5, <2>7, <3>2
    <3> QED
      BY <2>1, <3>1, <3>2
  <2>8. Good(n + 1)
    BY <2>4, <2>5, <2>6, <2>7
  <2> QED
    BY <2>1, <2>8
<1>5. 0 .. N \subseteq T
  <2> HIDE DEF N, T
  <2> QED
    BY <1>2, <1>3, <1>4, Induction
<1>6. N \in T
  BY <1>2, <1>5
<1> QED
  BY <1>1, <1>6

-----------------------------------------------------------------------------
(* The routing table of the node                                           *)

\* What a step may do to the table: nothing, or what the Kademlia node does
\* on the event of a peer at its address.
Told(addr) ==
  \/ handshake_complete(PeerAt[addr], addr)
  \/ \E received \in Received : handle_datagram(PeerAt[addr], addr, received)

LEMMA KadSteps ==
  ASSUME [MultiNext]_multi_vars
  PROVE  UNCHANGED kad_vars \/ \E addr \in Addrs : Told(addr)
<1>1. CASE UNCHANGED multi_vars
  BY <1>1 DEF multi_vars
<1>2. ASSUME NEW addr \in Addrs, recv_handshake(addr) \/ recv_plaintext(addr)
      PROVE  UNCHANGED kad_vars \/ Told(addr)
  BY <1>2 DEF recv_handshake, recv_plaintext, dispatch_other, dispatch_kad,
              dispatch_pubsub, dispatch_rendezvous, kad_handshake_complete,
              Told
<1>3. CASE recv_rejected
  BY <1>3 DEF recv_rejected, dispatch_other
<1>4. CASE recv_one
  BY <1>2, <1>3, <1>4 DEF recv_one
<1>5. CASE \E addr \in Addrs :
             \/ \E gone \in L!AtMostOne(in_flight) : dial(addr, gone)
             \/ send_with_kind(addr)
  BY <1>5 DEF dial, send_with_kind
<1>6. CASE pubsub_lifecycle
  BY <1>6 DEF pubsub_lifecycle
<1>7. CASE \E t \in Targets : lookup_node(t)
  BY <1>7 DEF lookup_node
<1>8. CASE drive_lookup_rounds \/ drive_lookup_round_pick \/ end_of_drain
  BY <1>8 DEF drive_lookup_rounds, drive_lookup_round_pick, end_of_drain
<1> QED
  BY <1>1, <1>4, <1>5, <1>6, <1>7, <1>8 DEF MultiNext

MTable == KTable /\ Reflexive(offered)

LEMMA OneTold ==
  ASSUME MTable, NEW addr \in Addrs,
         table' = insert(table, PeerAt[addr], addr),
         offered' = Offer(offered, << Entry(PeerAt[addr], addr) >>)
  PROVE  /\ MTable' /\ Kept(table, table')
         /\ EverOffered(offered) \subseteq EverOffered(offered')
         /\ PeerAt[addr] \in EverOffered(offered')
<1> DEFINE id == PeerAt[addr]
           e == Entry(id, addr)
<1>1. id \in Peers /\ id # self_id
  BY PeerAtAssumption, PeersAssumption
<1>2. KTable' /\ Kept(table, table')
  BY <1>1, OneOffered DEF MTable
<1>3. e \in Entries /\ e.id = id /\ id \in Known
  BY <1>1 DEF Entries, Entry, Known, KnownAddrs
<1> HIDE DEF e
<1>4. offered' = OfferOne(offered, id)
  BY <1>3, OfferSingle DEF MTable, KTable, e
<1> HIDE DEF id
<1>5. /\ Reflexive(offered')
      /\ EverOffered(offered) \subseteq EverOffered(offered')
      /\ id \in EverOffered(offered')
  BY <1>1, <1>3, <1>4, OfferOneFacts DEF MTable, KTable
<1> QED
  BY <1>2, <1>5 DEF MTable, Reflexive, id

LEMMA ManyTold ==
  ASSUME MTable, NEW addr \in Addrs, NEW peers \in Seq(Entries),
         find_node_response(PeerAt[addr], addr, peers)
  PROVE  /\ MTable' /\ Kept(table, table')
         /\ EverOffered(offered) \subseteq EverOffered(offered')
         /\ \A n \in 1 .. Len(peers) : peers[n].id # self_id
              => peers[n].id \in EverOffered(offered')
<1> DEFINE id == PeerAt[addr]
           e == Entry(id, addr)
           all == << e >> \o peers
<1>1. id \in Peers
  BY PeerAtAssumption
<1>2. KTable' /\ Kept(table, table')
  BY <1>1, ManyOffered DEF MTable
<1>3. e \in Entries
  BY <1>1 DEF Entries, Entry, Known, KnownAddrs
<1>4. offered' = Offer(offered, all)
  BY DEF find_node_response
<1>5. /\ all \in Seq(Entries) /\ Len(all) = Len(peers) + 1
      /\ \A m \in 2 .. (Len(peers) + 1) : all[m] = peers[m - 1]
  BY <1>3, ConsFacts
<1> HIDE DEF all
<1>6. /\ Reflexive(offered')
      /\ EverOffered(offered) \subseteq EverOffered(offered')
      /\ \A m \in 1 .. Len(all) : all[m].id # self_id
           => all[m].id \in EverOffered(offered')
  BY <1>4, <1>5, OfferFacts DEF MTable, KTable
<1>7. ASSUME NEW n \in 1 .. Len(peers), peers[n].id # self_id
      PROVE  peers[n].id \in EverOffered(offered')
  <2>1. Len(peers) \in Nat
    OBVIOUS
  <2>2. n + 1 \in 2 .. (Len(peers) + 1) /\ n + 1 \in 1 .. Len(all)
        /\ (n + 1) - 1 = n
    BY <1>5, <2>1
  <2> QED
    BY <1>5, <1>6, <1>7, <2>2
<1> QED
  BY <1>2, <1>6, <1>7 DEF MTable, Reflexive

LEMMA TableStep ==
  ASSUME MTable, [MultiNext]_multi_vars
  PROVE  /\ MTable' /\ Kept(table, table')
         /\ EverOffered(offered) \subseteq EverOffered(offered')
<1>1. CASE UNCHANGED kad_vars
  <2>1. UNCHANGED << table, offered >>
    BY <1>1 DEF kad_vars
  <2>2. Kept(table, table')
    BY <2>1 DEF Kept
  <2> QED
    BY <2>1, <2>2 DEF MTable, KTable, TableOK, Recent, BucketAt, BucketRecent,
                      Reflexive
<1>2. ASSUME NEW addr \in Addrs, Told(addr)
      PROVE  /\ MTable' /\ Kept(table, table')
             /\ EverOffered(offered) \subseteq EverOffered(offered')
  <2>1. CASE /\ table' = insert(table, PeerAt[addr], addr)
             /\ offered' = Offer(offered, << Entry(PeerAt[addr], addr) >>)
    BY <2>1, OneTold
  <2>2. ASSUME NEW received \in Received, received.ok,
               received.value.op = "FindNodeResp",
               find_node_response(PeerAt[addr], addr, received.value.peers)
        PROVE  /\ MTable' /\ Kept(table, table')
               /\ EverOffered(offered) \subseteq EverOffered(offered')
    BY <2>2, ReceivedPeers, ManyTold
  <2>3. CASE UNCHANGED << table, offered >>
    BY <1>1, <2>3 DEF kad_vars
  <2>4. CASE handshake_complete(PeerAt[addr], addr)
    BY <2>1, <2>4 DEF handshake_complete
  <2>5. ASSUME NEW received \in Received,
               handle_datagram(PeerAt[addr], addr, received)
        PROVE  /\ MTable' /\ Kept(table, table')
               /\ EverOffered(offered) \subseteq EverOffered(offered')
    BY <2>1, <2>2, <2>3, <2>5
       DEF handle_datagram, pass_through, handle_ping, auto_reply_find_node
  <2> QED
    BY <1>2, <2>4, <2>5 DEF Told
<1> QED
  BY <1>1, <1>2, KadSteps

-----------------------------------------------------------------------------
(* What the node feeds its lookups                                         *)

\* The Cardinality that module Lookup takes from FiniteSets is the same.
LEMMA SameCardinality ==
  ASSUME NEW S
  PROVE  L!Cardinality(S) = Cardinality(S)
BY DEF L!Cardinality, Cardinality

\* A sequence has no more values than places.
LEMMA FewValues ==
  ASSUME NEW S, NEW s \in Seq(S), NEW I \in SUBSET (1 .. Len(s))
  PROVE  LET V == {s[i] : i \in I}
         IN Cardinality(V) \in Nat /\ Cardinality(V) <= Len(s)
<1> DEFINE V == {s[i] : i \in I}
           g == [i \in I |-> s[i]]
<1>1. Len(s) \in Nat
  OBVIOUS
<1>2. IsFiniteSet(1 .. Len(s)) /\ Cardinality(1 .. Len(s)) = Len(s)
  BY <1>1, FS_Interval
<1>3. IsFiniteSet(I) /\ Cardinality(I) <= Len(s) /\ Cardinality(I) \in Nat
  BY <1>2, FS_Subset, FS_CardinalityType
<1>4. g \in Surjection(I, V)
  <2>1. g \in [I -> V]
    OBVIOUS
  <2>2. \A v \in V : \E i \in I : g[i] = v
    OBVIOUS
  <2> HIDE DEF g, V
  <2> QED
    BY <2>1, <2>2 DEF Surjection
<1> HIDE DEF g, V
<1>5. IsFiniteSet(V) /\ Cardinality(V) <= Cardinality(I)
  BY <1>3, <1>4, FS_Surjection
<1>6. Cardinality(V) \in Nat
  BY <1>5, FS_CardinalityType
<1> QED
  BY <1>1, <1>3, <1>5, <1>6 DEF V

LEMMA ContactsAreEntries == LookupContacts = Entries
BY DEF LookupContacts, Entries, Known, KnownAddrs

\* Lookup::new is given peers of the table, each once.
LEMMA SeedsListed ==
  ASSUME NEW tab, TableOK(tab), NEW t \in NodeIds
  PROVE  LET seeds == closest_to(tab, t, lookup_k)
             S == {seeds[i] : i \in DOMAIN seeds}
         IN S \in L!Lists(lookup_k) /\ S \subseteq Tracked(tab)
<1> DEFINE seeds == closest_to(tab, t, lookup_k)
           S == {seeds[i] : i \in DOMAIN seeds}
<1>1. /\ seeds \in Seq(Entries) /\ Len(seeds) <= lookup_k
      /\ \A n \in 1 .. Len(seeds) : seeds[n] \in Tracked(tab)
  BY LookupConfigAssumption, ClosestFacts
<1>2. /\ Tracked(tab) \subseteq Entries
      /\ \A e, f \in Tracked(tab) : e.id = f.id => e = f
  BY TrackedFacts
<1> HIDE DEF seeds
<1>3. DOMAIN seeds = 1 .. Len(seeds) /\ Len(seeds) \in Nat
  BY <1>1
<1>4. S \subseteq Tracked(tab)
  BY <1>1, <1>3
<1>5. Cardinality(S) \in Nat /\ Cardinality(S) <= Len(seeds)
  BY <1>1, <1>3, FewValues
<1> HIDE DEF S
<1>6. Cardinality(S) <= lookup_k
  BY <1>1, <1>3, <1>5, LookupConfigAssumption
<1>7. S \in SUBSET LookupContacts
  BY <1>2, <1>4, ContactsAreEntries
<1>8. S \in L!Lists(lookup_k)
  BY <1>2, <1>4, <1>6, <1>7, SameCardinality DEF L!Lists
<1> QED
  BY <1>4, <1>8 DEF S, seeds

\* record_response makes of a response a list that names each peer once.
LEMMA ResponseListed ==
  ASSUME NEW peers \in Seq(Entries), Len(peers) <= MaxAdvertised
  PROVE  /\ FirstMentions(peers) \in L!Lists(MaxAdvertised)
         /\ \A c \in FirstMentions(peers) :
              \E n \in 1 .. Len(peers) : c = peers[n]
<1> DEFINE I == {j \in DOMAIN peers : \A h \in DOMAIN peers :
                   peers[h].id = peers[j].id => j <= h}
           S == {peers[i] : i \in I}
<1>1. DOMAIN peers = 1 .. Len(peers) /\ Len(peers) \in Nat
  OBVIOUS
<1>2. FirstMentions(peers) = S
  BY DEF FirstMentions
<1>3. I \subseteq 1 .. Len(peers)
        /\ \A i, j \in I : peers[i].id = peers[j].id => i = j
  BY <1>1
<1> HIDE DEF I
<1>4. Cardinality(S) \in Nat /\ Cardinality(S) <= Len(peers)
  BY <1>3, FewValues
<1>5. Cardinality(S) <= MaxAdvertised
  BY <1>1, <1>4, MaxAdvertisedAssumption
<1>6. S \in SUBSET LookupContacts
  <2>1. \A i \in I : peers[i] \in Entries
    BY <1>3
  <2> QED
    BY <2>1, ContactsAreEntries
<1>7. \A c, d \in S : c.id = d.id => c = d
  BY <1>3
<1>8. \A c \in S : \E n \in 1 .. Len(peers) : c = peers[n]
  BY <1>3
<1> HIDE DEF S
<1>9. S \in L!Lists(MaxAdvertised)
  BY <1>5, <1>6, <1>7, SameCardinality DEF L!Lists
<1> QED
  BY <1>2, <1>8, <1>9

-----------------------------------------------------------------------------
(* The lookups of the node are those of module Lookup                      *)

LEMMA AddrsCirculate == Addrs \subseteq L!ContactAddrs
<1> SUFFICES ASSUME NEW a \in Addrs PROVE a \in L!ContactAddrs
  OBVIOUS
<1> DEFINE c == Entry(PeerAt[a], a)
<1>1. c \in LookupContacts /\ c.addr = a
  BY PeerAtAssumption DEF LookupContacts, Entry
<1> HIDE DEF c
<1> QED
  BY <1>1 DEF L!ContactAddrs

\* complete_dial, for an address that is not pending, is no change.
DialsMap == pending_dials = [a \in DOMAIN pending_dials |-> pending_dials[a]]

LEMMA RefinesInit == MultiInit => L!Init
BY DEF MultiInit

LEMMA RefinesIdle ==
  ASSUME \/ \E addr \in Addrs :
              \/ \E gone \in L!AtMostOne(in_flight) : dial(addr, gone)
              \/ send_with_kind(addr)
         \/ pubsub_lifecycle
  PROVE  [L!Next]_(L!vars)
<1>1. ASSUME NEW addr \in Addrs, NEW gone \in L!AtMostOne(in_flight),
             dial(addr, gone)
      PROVE  L!application \/ UNCHANGED L!vars
  <2>1. CASE L!HandshakeBegins(addr, gone)
    BY <1>1, <2>1, AddrsCirculate
       DEF dial, idle, L!application, lookup_vars, L!lookup_vars
  <2>2. CASE UNCHANGED host_vars
    BY <1>1, <2>2 DEF dial, host_vars, lookup_vars, L!vars, L!lookup_vars,
                      L!host_vars
  <2> QED
    BY <1>1, <2>1, <2>2 DEF dial
<1>2. ASSUME NEW addr \in Addrs, send_with_kind(addr)
      PROVE  UNCHANGED L!vars
  BY <1>2 DEF send_with_kind, host_vars, lookup_vars, L!vars, L!lookup_vars,
              L!host_vars
<1>3. CASE pubsub_lifecycle
  <2>1. UNCHANGED << host_vars, lookup_vars >>
    BY <1>3 DEF pubsub_lifecycle
  <2> QED
    BY <2>1 DEF host_vars, lookup_vars, L!vars, L!lookup_vars, L!host_vars
<1> QED
  BY <1>1, <1>2, <1>3 DEF L!Next

LEMMA RefinesRounds ==
  ASSUME MTable,
         \/ \E t \in Targets : lookup_node(t)
         \/ drive_lookup_rounds \/ drive_lookup_round_pick \/ end_of_drain
  PROVE  L!Next
<1>1. ASSUME NEW t \in Targets, lookup_node(t)
      PROVE  L!Start
  <2> DEFINE seeds == closest_to(table, t, lookup_k)
             S == {seeds[i] : i \in DOMAIN seeds}
  <2>1. L!run_lookup(t, S)
    BY <1>1 DEF lookup_node
  <2>2. S \in L!Lists(lookup_k)
    BY PeersAssumption, SeedsListed DEF MTable, KTable
  <2> HIDE DEF S
  <2> QED
    BY <2>1, <2>2 DEF L!Start
<1>2. CASE drive_lookup_rounds
  BY <1>2 DEF drive_lookup_rounds, L!finish, L!Next, L!Step, L!lookup_vars,
              host_vars, L!host_vars
<1>3. CASE drive_lookup_round_pick
  <2> DEFINE queries == {i \in L!pick_next_alpha :
                           entries[i].addr \in established}
             dials == L!pick_next_alpha \ queries
  <2>1. /\ phase = "round" /\ rounds_left > 0 /\ ~ L!is_done
        /\ L!pick_next_alpha # {}
        /\ UNCHANGED << rounds_left, established, result, heard, lookups >>
        /\ UNCHANGED target
    BY <1>3 DEF drive_lookup_round_pick
  <2>2. \/ /\ L!mark(queries, dials) /\ L!DialAll(dials)
           /\ phase' = "drain" /\ budget' = max_recv_per_round
        \/ /\ L!DialRefused(dials)
           /\ phase' = "failed"
           /\ UNCHANGED << entries, pending_queries, pending_dials, touched,
                           in_flight, lost, budget >>
    BY <1>3 DEF drive_lookup_round_pick
  <2> HIDE DEF queries
  <2>3. L!act
    BY <2>1, <2>2 DEF L!act, L!lookup_vars, queries
  <2> QED
    BY <2>3 DEF L!Next, L!Step
<1>4. CASE end_of_drain
  BY <1>4 DEF end_of_drain, L!end_round, L!Next, L!Step, host_vars,
              L!host_vars
<1> QED
  BY <1>1, <1>2, <1>3, <1>4 DEF L!Next

\* An event that leaves the lookup alone, of a Host that stays as it is.
LEMMA RefinesOther ==
  ASSUME idle \/ draining, absorb_other, UNCHANGED host_vars
  PROVE  [L!Next]_(L!vars)
<1>1. UNCHANGED << established, in_flight, lost, phase, target, entries,
                   pending_queries, pending_dials, rounds_left, result,
                   heard, touched, lookups >>
  BY DEF absorb_other, host_vars
<1>2. CASE budget' = budget
  BY <1>1, <1>2 DEF L!vars, L!lookup_vars, L!host_vars
<1>3. CASE budget' # budget
  <2>1. draining /\ budget' = budget - 1
    BY <1>3 DEF absorb_other, idle
  <2>2. L!drain_other
    BY <1>1, <2>1 DEF L!drain_other, draining, L!draining, L!lookup_vars,
                      L!host_vars
  <2> QED
    BY <2>2 DEF L!Next, L!Recv
<1> QED
  BY <1>2, <1>3

LEMMA RefinesHandshake ==
  ASSUME idle \/ draining, DialsMap, NEW addr \in Addrs, recv_handshake(addr)
  PROVE  L!Next
<1>1. addr \in L!ContactAddrs
  BY AddrsCirculate
<1>2. ASSUME NEW gone \in L!AtMostOne(in_flight),
             L!HandshakeBegins(addr, gone), absorb_other,
             event'.kind # "Err"
      PROVE  L!Next
  <2>1. /\ budget' = IF phase = "drain" THEN budget - 1 ELSE budget
        /\ UNCHANGED << phase, target, entries, pending_queries,
                        pending_dials, rounds_left, result, heard, touched,
                        lookups >>
    BY <1>2 DEF absorb_other
  <2>2. CASE idle
    <3>1. L!application
      BY <1>1, <1>2, <2>1, <2>2 DEF L!application, idle, L!lookup_vars
    <3> QED
      BY <3>1 DEF L!Next
  <2>3. CASE draining
    <3>1. L!drain_other
      BY <1>1, <1>2, <2>1, <2>3
         DEF L!drain_other, draining, L!draining, L!lookup_vars
    <3> QED
      BY <3>1 DEF L!Next, L!Recv
  <2> QED
    BY <2>2, <2>3
<1>3. ASSUME NEW gone \in L!AtMostOne(established),
             L!HandshakeCompletes(addr, gone), absorb_handshake(addr),
             event'.kind # "Err"
      PROVE  L!Next
  <2>1. CASE draining /\ addr \in DOMAIN pending_dials
    <3>1. L!drain_handshake(addr, gone)
      BY <1>3, <2>1 DEF absorb_handshake, L!drain_handshake, draining,
                        L!draining
    <3> QED
      BY <1>1, <3>1 DEF L!Next, L!Recv
  <2>2. CASE draining /\ addr \notin DOMAIN pending_dials
    <3>1. /\ budget' = budget - 1
          /\ UNCHANGED << phase, target, entries, pending_queries,
                          pending_dials, rounds_left, result, heard, touched,
                          lookups >>
      BY <1>3, <2>2 DEF absorb_handshake, absorb_other, draining
    <3>2. L!complete_dial(addr)
      <4>1. DOMAIN pending_dials \ {addr} = DOMAIN pending_dials
        BY <2>2
      <4>2. L!Restrict(pending_dials, DOMAIN pending_dials \ {addr})
              = pending_dials
        BY <4>1 DEF L!Restrict, DialsMap
      <4> QED
        BY <2>2, <3>1, <4>2 DEF L!complete_dial
    <3>3. L!drain_handshake(addr, gone)
      BY <1>3, <2>2, <3>1, <3>2 DEF L!drain_handshake, draining, L!draining
    <3> QED
      BY <1>1, <3>3 DEF L!Next, L!Recv
  <2>3. CASE idle
    <3>1. UNCHANGED << phase, target, entries, pending_queries,
                       pending_dials, rounds_left, budget, result, heard,
                       touched, lookups >>
      BY <1>3, <2>3 DEF absorb_handshake, absorb_other, idle
    <3>2. L!application
      BY <1>1, <1>3, <2>3, <3>1 DEF L!application, idle, L!lookup_vars
    <3> QED
      BY <3>2 DEF L!Next
  <2> QED
    BY <2>1, <2>2, <2>3
<1>4. ASSUME dispatch_other("HandshakeProgress") PROVE event'.kind # "Err"
  BY <1>4 DEF dispatch_other, NodeEvent
<1>5. ASSUME kad_handshake_complete(addr) PROVE event'.kind # "Err"
  BY <1>5 DEF kad_handshake_complete, handshake_complete, Event
<1> QED
  BY <1>2, <1>3, <1>4, <1>5 DEF recv_handshake

LEMMA RefinesPlaintext ==
  ASSUME idle \/ draining, NEW addr \in Addrs, recv_plaintext(addr)
  PROVE  [L!Next]_(L!vars)
<1>1. UNCHANGED host_vars /\ addr \in established
  BY DEF recv_plaintext
<1>2. CASE absorb_other
  BY <1>1, <1>2, RefinesOther
<1>3. ASSUME NEW received \in Received, received.ok,
             received.value.op = "FindNodeResp", draining,
             absorb_response(addr, FirstMentions(received.value.peers))
      PROVE  L!Next
  <2> DEFINE list == FirstMentions(received.value.peers)
  <2>1. list \in L!Lists(MaxAdvertised)
    BY <1>3, ReceivedPeers, ResponseListed
  <2>2. addr \in L!ContactAddrs
    BY AddrsCirculate
  <2>3. L!drain_response(addr, list)
    BY <1>1, <1>3 DEF absorb_response, L!drain_response, draining, L!draining,
                      host_vars, L!host_vars
  <2> HIDE DEF list
  <2> QED
    BY <2>1, <2>2, <2>3 DEF L!Next, L!Recv
<1>4. ASSUME NEW list, idle, absorb_response(addr, list)
      PROVE  absorb_other
  BY <1>4 DEF absorb_response, idle
<1> QED
  BY <1>2, <1>3, <1>4 DEF recv_plaintext

LEMMA RefinesNext ==
  ASSUME MTable, DialsMap, [MultiNext]_multi_vars
  PROVE  [L!Next]_(L!vars)
<1>1. CASE UNCHANGED multi_vars
  BY <1>1 DEF multi_vars, host_vars, lookup_vars, L!vars, L!lookup_vars,
              L!host_vars
<1>2. CASE recv_one
  <2>1. idle \/ draining
    BY <1>2 DEF recv_one
  <2>2. CASE recv_rejected
    BY <2>1, <2>2, RefinesOther DEF recv_rejected
  <2> QED
    BY <1>2, <2>1, <2>2, RefinesHandshake, RefinesPlaintext DEF recv_one
<1> QED
  BY <1>1, <1>2, RefinesIdle, RefinesRounds DEF MultiNext

\* The next state of a lookup, as far as the invariant needs it.
LEMMA DialsMapStep ==
  ASSUME DialsMap, [L!Next]_(L!vars)
  PROVE  DialsMap'
<1>1. CASE UNCHANGED pending_dials
  BY <1>1 DEF DialsMap
<1>2. CASE pending_dials' = L!EmptyMap
  <2>1. DOMAIN pending_dials' = {}
    BY <1>2 DEF L!EmptyMap
  <2> QED
    BY <1>2, <2>1 DEF DialsMap, L!EmptyMap
<1>3. ASSUME NEW S, pending_dials' = L!MarkAll(S) PROVE DialsMap'
  BY <1>3 DEF L!MarkAll, DialsMap
<1>4. ASSUME NEW S, pending_dials' = L!Restrict(pending_dials, S)
      PROVE  DialsMap'
  BY <1>4 DEF L!Restrict, DialsMap
<1>5. CASE UNCHANGED L!vars
  BY <1>1, <1>5 DEF L!vars, L!lookup_vars
<1>6. CASE L!Start
  BY <1>1, <1>6 DEF L!Start, L!run_lookup
<1>7. CASE L!Step
  BY <1>1, <1>2, <1>3, <1>7
     DEF L!Step, L!finish, L!act, L!end_round, L!lookup_vars, L!mark,
         L!skip_pending
<1>8. CASE L!Recv
  BY <1>1, <1>4, <1>8
     DEF L!Recv, L!drain_response, L!drain_handshake, L!drain_other,
         L!complete_dial, L!lookup_vars
<1>9. CASE L!application
  BY <1>1, <1>9 DEF L!application, L!lookup_vars
<1> QED
  BY <1>5, <1>6, <1>7, <1>8, <1>9 DEF L!Next

-----------------------------------------------------------------------------
(* The peers of the Host and of a lookup have been offered to the table    *)

LEMMA EstablishedStep ==
  ASSUME [MultiNext]_multi_vars
  PROVE  \/ established' \subseteq established
         \/ \E addr \in Addrs :
              /\ established' \subseteq established \cup {addr}
              /\ handshake_complete(PeerAt[addr], addr)
<1>1. CASE UNCHANGED multi_vars
  BY <1>1 DEF multi_vars, host_vars
<1>2. ASSUME NEW addr \in Addrs, recv_handshake(addr)
      PROVE  \/ established' \subseteq established
             \/ /\ established' \subseteq established \cup {addr}
                /\ handshake_complete(PeerAt[addr], addr)
  BY <1>2 DEF recv_handshake, L!HandshakeBegins, L!HandshakeCompletes,
              kad_handshake_complete
<1>3. ASSUME NEW addr \in Addrs, recv_plaintext(addr)
      PROVE  established' = established
  BY <1>3 DEF recv_plaintext, host_vars
<1>4. CASE recv_rejected
  BY <1>4 DEF recv_rejected, host_vars
<1>5. CASE \E addr \in Addrs :
             \/ \E gone \in L!AtMostOne(in_flight) : dial(addr, gone)
             \/ send_with_kind(addr)
  BY <1>5 DEF dial, send_with_kind, L!HandshakeBegins, host_vars
<1>6. CASE pubsub_lifecycle
  BY <1>6 DEF pubsub_lifecycle, host_vars
<1>7. CASE \E t \in Targets : lookup_node(t)
  BY <1>7 DEF lookup_node, L!run_lookup
<1>8. CASE drive_lookup_rounds \/ drive_lookup_round_pick \/ end_of_drain
  BY <1>8 DEF drive_lookup_rounds, drive_lookup_round_pick, end_of_drain,
              host_vars
<1> QED
  BY <1>1, <1>2, <1>3, <1>4, <1>5, <1>6, <1>7, <1>8 DEF MultiNext, recv_one

\* What is new in the shortlist was advertised in a response.
Advertised(addr, received) ==
  /\ received.ok /\ received.value.op = "FindNodeResp"
  /\ find_node_response(PeerAt[addr], addr, received.value.peers)
  /\ DOMAIN entries' \subseteq DOMAIN entries \cup
       ({c.id : c \in FirstMentions(received.value.peers)} \ {self_id})

LEMMA ShortlistStep ==
  ASSUME [MultiNext]_multi_vars
  PROVE  \/ DOMAIN entries' \subseteq DOMAIN entries
         \/ \E t \in Targets : lookup_node(t)
         \/ \E addr \in Addrs, received \in Received :
              Advertised(addr, received)
<1>1. CASE UNCHANGED multi_vars
  BY <1>1 DEF multi_vars, lookup_vars
<1>2. ASSUME absorb_other PROVE DOMAIN entries' = DOMAIN entries
  BY <1>2 DEF absorb_other
<1>3. ASSUME NEW S, NEW status, entries' = L!WithStatus(S, status)
      PROVE  DOMAIN entries' = DOMAIN entries
  BY <1>3 DEF L!WithStatus
<1>4. ASSUME NEW addr \in Addrs, recv_handshake(addr)
      PROVE  DOMAIN entries' \subseteq DOMAIN entries
  BY <1>2, <1>3, <1>4
     DEF recv_handshake, absorb_handshake, L!complete_dial
<1>5. ASSUME NEW addr \in Addrs, NEW received \in Received,
             dispatch_kad(addr, received),
             received.ok, received.value.op = "FindNodeResp",
             absorb_response(addr, FirstMentions(received.value.peers))
      PROVE  \/ DOMAIN entries' \subseteq DOMAIN entries
             \/ Advertised(addr, received)
  <2> DEFINE list == FirstMentions(received.value.peers)
             merged == L!merge(entries, list)
  <2>1. CASE phase # "drain"
    BY <1>2, <1>5, <2>1 DEF absorb_response
  <2>2. CASE phase = "drain"
    <3>1. L!record_response(addr, list)
      BY <1>5, <2>2 DEF absorb_response
    <3>2. DOMAIN merged = DOMAIN entries \cup ({c.id : c \in list} \ {self_id})
      BY DEF L!merge
    <3> HIDE DEF list, merged
    <3>3. DOMAIN entries' = DOMAIN merged
      BY <3>1 DEF L!record_response, merged
    <3>4. find_node_response(PeerAt[addr], addr, received.value.peers)
      BY <1>5 DEF dispatch_kad, handle_datagram
    <3> QED
      BY <1>5, <3>2, <3>3, <3>4 DEF Advertised, list
  <2> QED
    BY <2>1, <2>2
<1>6. ASSUME NEW addr \in Addrs, recv_plaintext(addr)
      PROVE  \/ DOMAIN entries' \subseteq DOMAIN entries
             \/ \E received \in Received : Advertised(addr, received)
  BY <1>2, <1>5, <1>6 DEF recv_plaintext
<1>7. CASE recv_rejected
  BY <1>2, <1>7 DEF recv_rejected
<1>8. CASE \E addr \in Addrs :
             \/ \E gone \in L!AtMostOne(in_flight) : dial(addr, gone)
             \/ send_with_kind(addr)
  BY <1>8 DEF dial, send_with_kind, lookup_vars
<1>9. CASE pubsub_lifecycle
  BY <1>9 DEF pubsub_lifecycle, lookup_vars
<1>10. CASE drive_lookup_rounds
  BY <1>10 DEF drive_lookup_rounds
<1>11. CASE drive_lookup_round_pick
  BY <1>11 DEF drive_lookup_round_pick, L!mark
<1>12. CASE end_of_drain
  BY <1>3, <1>12 DEF end_of_drain, L!skip_pending
<1> QED
  BY <1>1, <1>4, <1>6, <1>7, <1>8, <1>9, <1>10, <1>11, <1>12
     DEF MultiNext, recv_one

LEMMA ResultStep ==
  ASSUME [L!Next]_(L!vars)
  PROVE  result' \subseteq result \cup DOMAIN entries
<1>1. L!top_k \subseteq DOMAIN entries
  BY DEF L!top_k, L!Nearest
<1>2. CASE UNCHANGED L!vars
  BY <1>2 DEF L!vars
<1>3. CASE L!Start
  BY <1>3 DEF L!Start, L!run_lookup
<1>4. CASE L!Step
  BY <1>1, <1>4 DEF L!Step, L!finish, L!act, L!end_round
<1>5. CASE L!Recv \/ L!application
  BY <1>5 DEF L!Recv, L!drain_response, L!drain_handshake, L!drain_other,
              L!application
<1> QED
  BY <1>2, <1>3, <1>4, <1>5 DEF L!Next

\* A peer of the table has been offered.
LEMMA TrackedOffered ==
  ASSUME MTable
  PROVE  \A e \in Tracked(table) : e.id \in EverOffered(offered)
<1> SUFFICES ASSUME NEW e \in Tracked(table)
             PROVE  e.id \in EverOffered(offered)
  OBVIOUS
<1>1. PICK i \in Positions : \E m \in 1 .. Len(table[i]) : e = table[i][m]
  BY TrackedAt DEF MTable, KTable
<1>2. PICK m \in 1 .. Len(table[i]) : e = table[i][m]
  BY <1>1
<1>3. Len(table[i]) \in Nat
  BY DEF MTable, KTable, TableOK
<1>4. m <= m
  BY <1>3
<1>5. << e.id, e.id >> \in offered
  BY <1>2, <1>4 DEF MTable, KTable, Recent, BucketRecent
<1> QED
  BY <1>5 DEF EverOffered

LEMMA SeedsOffered ==
  ASSUME MTable, NEW t \in Targets, lookup_node(t)
  PROVE  DOMAIN entries' \subseteq EverOffered(offered)
<1> DEFINE seeds == closest_to(table, t, lookup_k)
           S == {seeds[i] : i \in DOMAIN seeds}
<1>1. S \subseteq Tracked(table)
  BY PeersAssumption, SeedsListed DEF MTable, KTable
<1>2. entries' = L!merge(L!EmptyMap, S)
  BY DEF lookup_node, L!run_lookup
<1> HIDE DEF S
<1>3. DOMAIN L!EmptyMap = {}
  BY DEF L!EmptyMap
<1>4. DOMAIN entries' \subseteq {c.id : c \in S}
  BY <1>2, <1>3 DEF L!merge
<1> QED
  BY <1>1, <1>4, TrackedOffered

LEMMA PeersOfferedStep ==
  ASSUME MTable, DialsMap, PeersOffered, [MultiNext]_multi_vars
  PROVE  PeersOffered'
<1> DEFINE old == EverOffered(offered)
           new == EverOffered(offered')
<1>1. old \subseteq new /\ MTable'
  BY TableStep
<1>2. /\ \A a \in established : PeerAt[a] \in old
      /\ DOMAIN entries \subseteq old /\ result \subseteq old
  BY DEF PeersOffered
<1>3. ASSUME NEW a \in established' PROVE PeerAt[a] \in new
  <2>1. CASE established' \subseteq established
    BY <1>1, <1>2, <2>1
  <2>2. ASSUME NEW addr \in Addrs,
               established' \subseteq established \cup {addr},
               handshake_complete(PeerAt[addr], addr)
        PROVE  PeerAt[a] \in new
    <3>1. PeerAt[addr] \in new
      BY <2>2, OneTold DEF handshake_complete
    <3> QED
      BY <1>1, <1>2, <2>2, <3>1
  <2> QED
    BY <2>1, <2>2, EstablishedStep
<1>4. DOMAIN entries' \subseteq new
  <2>1. CASE DOMAIN entries' \subseteq DOMAIN entries
    BY <1>1, <1>2, <2>1
  <2>2. CASE \E t \in Targets : lookup_node(t)
    BY <1>1, <2>2, SeedsOffered
  <2>3. ASSUME NEW addr \in Addrs, NEW received \in Received,
               Advertised(addr, received)
        PROVE  DOMAIN entries' \subseteq new
    <3> DEFINE peers == received.value.peers
    <3>1. /\ received.ok /\ received.value.op = "FindNodeResp"
          /\ find_node_response(PeerAt[addr], addr, peers)
          /\ DOMAIN entries' \subseteq DOMAIN entries \cup
               ({c.id : c \in FirstMentions(peers)} \ {self_id})
      BY <2>3 DEF Advertised
    <3>2. peers \in Seq(Entries) /\ Len(peers) <= MaxAdvertised
      BY <3>1, ReceivedPeers
    <3> HIDE DEF peers
    <3>3. \A n \in 1 .. Len(peers) :
            peers[n].id # self_id => peers[n].id \in new
      BY <3>1, <3>2, ManyTold
    <3>4. \A c \in FirstMentions(peers) :
            \E n \in 1 .. Len(peers) : c = peers[n]
      BY <3>2, ResponseListed
    <3>5. \A c \in FirstMentions(peers) : c.id # self_id => c.id \in new
      BY <3>3, <3>4
    <3> QED
      BY <1>1, <1>2, <3>1, <3>5
  <2> QED
    BY <2>1, <2>2, <2>3, ShortlistStep
<1>5. result' \subseteq new
  BY <1>1, <1>2, RefinesNext, ResultStep
<1> QED
  BY <1>3, <1>4, <1>5 DEF PeersOffered

-----------------------------------------------------------------------------
(* What ends the node while a lookup drains                                *)

LEMMA KadKeepsNode ==
  ASSUME MTable, NEW addr \in Addrs, NEW received \in Received,
         handle_datagram(PeerAt[addr], addr, received),
         2 + k * ENTRY_V6_LEN <= MaxPlaintext, k <= MAX_PEERS_PER_RESP
  PROVE  event'.kind # "Err"
<1>1. ASSUME received.ok, received.value.op = "FindNodeReq",
             auto_reply_find_node(PeerAt[addr], addr, received.value.target)
      PROVE  event'.kind # "Err"
  <2> DEFINE id == PeerAt[addr]
             t == received.value.target
             bytes == encode(FindNodeResp(closest_to(table', t, k)))
  <2>1. t \in NodeIds
    BY <1>1, ReceivedTarget
  <2>2. MTable'
    BY <1>1, OneTold DEF auto_reply_find_node
  <2>3. bytes.ok /\ Len(bytes.value) <= MaxPlaintext
    <3>1. TableOK(table')
      BY <2>2 DEF MTable, KTable, TableOK, BucketAt
    <3> HIDE DEF t
    <3> QED
      BY <2>1, <3>1, AnswerFits
  <2>4. event' = [Event("FindNodeRequestReceived", id) EXCEPT
                    !.target = t, !.answer = bytes.value]
    BY <1>1, <2>3 DEF auto_reply_find_node
  <2> HIDE DEF t, bytes, id
  <2> QED
    BY <2>4 DEF Event
<1>2. CASE \/ pass_through("Rejected")
           \/ \E kind \in {"PingRequestReceived", "PingResponseReceived"} :
                handle_ping(PeerAt[addr], addr, kind)
           \/ \E peers : find_node_response(PeerAt[addr], addr, peers)
  BY <1>2 DEF pass_through, handle_ping, find_node_response, Event
<1> QED
  BY <1>1, <1>2 DEF handle_datagram

LEMMA PieceKeepsNode ==
  ASSUME NEW piece, P!handle_pubsub_body(piece), event'.kind = "Err"
  PROVE  \E t \in DOMAIN recoders : event' = P!Event("Err", t)
<1>1. ASSUME NEW t, P!reject(t) PROVE event'.kind # "Err"
  BY <1>1 DEF P!reject, P!Event
<1>2. ASSUME piece.topic \in DOMAIN recoders, P!relay_path(piece)
      PROVE  event' = P!Event("Err", piece.topic)
  BY <1>1, <1>2 DEF P!relay_path, P!redundant_piece, P!recode_and_forward,
                    P!fail, P!Event
<1>3. ASSUME NEW t, NEW entry, P!absorb_or_deliver(t, entry, piece)
      PROVE  event'.kind # "Err"
  BY <1>3 DEF P!absorb_or_deliver, P!Event
<1>4. ASSUME P!decoder_path(piece) PROVE event'.kind # "Err"
  BY <1>1, <1>3, <1>4 DEF P!decoder_path, P!Event
<1> QED
  BY <1>1, <1>2, <1>4 DEF P!handle_pubsub_body

\* Answers and forwards go to peers, punches anywhere.
LEMMA RendezvousKeepsNode ==
  ASSUME NEW addr \in established, NEW frame \in RendezvousFrames,
         dispatch_rendezvous(addr, frame), event'.kind = "Err"
  PROVE  \E a \in Unroutable :
           event' = ReactionFails([op |-> "PunchForward", addr |-> a])
<1>1. AnswersTo(addr, frame) \subseteq established
  BY DEF AnswersTo
<1>2. Unsendable(addr, frame) /\ event' = ReactionFails(frame)
  BY DEF dispatch_rendezvous, NodeEvent
<1>3. frame.op = "PunchForward" /\ frame.addr \in Unroutable
  BY <1>1, <1>2 DEF Unsendable
<1>4. frame = [op |-> "PunchForward", addr |-> frame.addr]
  BY <1>3 DEF RendezvousFrames
<1> QED
  BY <1>2, <1>3, <1>4

\* What ends the node.
EndsForCause ==
  \/ \E t \in DOMAIN recoders : event' = P!Event("Err", t)
  \/ \E addr \in Unroutable :
       event' = ReactionFails([op |-> "PunchForward", addr |-> addr])

LEMMA DrainStep ==
  ASSUME MTable, [MultiNext]_multi_vars, draining, event'.kind = "Err",
         2 + k * ENTRY_V6_LEN <= MaxPlaintext, k <= MAX_PEERS_PER_RESP
  PROVE  EndsForCause
<1>1. phase = "drain" /\ event.kind # "Err"
  BY DEF draining
<1>2. ~ UNCHANGED multi_vars /\ ~ end_of_drain
  BY <1>1 DEF multi_vars, end_of_drain
<1>3. /\ ~ idle /\ ~ drive_lookup_rounds /\ ~ drive_lookup_round_pick
  BY <1>1 DEF idle, drive_lookup_rounds, drive_lookup_round_pick
<1>4. recv_one
  BY <1>2, <1>3 DEF MultiNext, dial, send_with_kind, pubsub_lifecycle,
                    lookup_node
<1>5. ASSUME NEW kind \in {"AppData", "RpcDatagram", "Rejected",
                           "HandshakeProgress"}, dispatch_other(kind)
      PROVE  FALSE
  BY <1>5 DEF dispatch_other, NodeEvent
<1>6. ASSUME NEW addr \in Addrs, recv_handshake(addr) PROVE FALSE
  BY <1>5, <1>6 DEF recv_handshake, kad_handshake_complete,
                    handshake_complete, Event
<1>7. ASSUME NEW addr \in Addrs, recv_plaintext(addr)
      PROVE  EndsForCause
  BY <1>5, <1>7, KadKeepsNode, PieceKeepsNode, RendezvousKeepsNode
     DEF recv_plaintext, dispatch_kad, dispatch_pubsub, EndsForCause
<1> QED
  BY <1>4, <1>5, <1>6, <1>7 DEF recv_one, recv_rejected

-----------------------------------------------------------------------------
(* Theorems                                                                *)

MInv == MTable /\ DialsMap /\ PeersOffered

LEMMA MInit == MultiInit => MInv
<1> SUFFICES ASSUME MultiInit PROVE MInv
  OBVIOUS
<1>1. Init /\ offered = {}
  BY DEF MultiInit, Init
<1>2. MTable
  BY <1>1, KInit DEF MTable, KInv, Reflexive
<1>3. /\ established = {} /\ result = {}
      /\ pending_dials = << >> /\ entries = << >>
  BY DEF MultiInit, L!Init, L!EmptyMap
<1>4. DOMAIN entries = {} /\ DOMAIN pending_dials = {}
  BY <1>3
<1>5. DialsMap
  BY <1>3, <1>4 DEF DialsMap
<1>6. PeersOffered
  BY <1>3, <1>4 DEF PeersOffered
<1> QED
  BY <1>2, <1>5, <1>6 DEF MInv

LEMMA MNext ==
  ASSUME MInv, [MultiNext]_multi_vars
  PROVE  MInv'
BY TableStep, RefinesNext, DialsMapStep, PeersOfferedStep DEF MInv

THEOREM MInvHolds == MultiSpec => []MInv
BY MInit, MNext, PTL DEF MultiSpec

\* For any peers, configuration and traffic: the lookups that the node drives
\* by itself, between and beside the frames of all its protocols, are lookups
\* as module Lookup describes them (drive_lookup_rounds and absorb_lookup_event
\* mirror drive_rounds and drain_responses).
THEOREM LookupSpecHolds == MultiSpec => LookupSpec
<1>1. MultiInit => L!Init
  BY RefinesInit
<1>2. MInv /\ [MultiNext]_multi_vars => [L!Next]_(L!vars)
  BY RefinesNext DEF MInv
<1>3. MultiSpec => L!Spec
  BY <1>1, <1>2, MInvHolds, PTL DEF MultiSpec, L!Spec
<1> QED
  BY <1>3 DEF LookupSpec

\* For any peers and any order of what arrives: everybody the Host is
\* established with, and everybody in the shortlist or the result of a lookup,
\* has been offered to the routing table.
THEOREM PeersOfferedHolds == MultiSpec => []PeersOffered
<1>1. MInv => PeersOffered
  BY DEF MInv
<1> QED
  BY <1>1, MInvHolds, PTL

\* What is proved of the table of a Kademlia node holds of the table that the
\* multi-protocol node feeds from its own dispatch: sound, ordered by recency,
\* and nobody is pushed out of it.
THEOREM MultiTableHolds ==
  MultiSpec => /\ [](BucketsSound /\ RecencyOrder)
               /\ [][TrackedIds(table) \subseteq TrackedIds(table')]_multi_vars
<1>1. MInv => BucketsSound /\ RecencyOrder
  BY TableSound, TableRecent DEF MInv, MTable
<1>2. MInv /\ MInv' /\ [MultiNext]_multi_vars
        => [TrackedIds(table) \subseteq TrackedIds(table')]_multi_vars
  <2> SUFFICES ASSUME MInv, MInv', [MultiNext]_multi_vars
               PROVE  TrackedIds(table) \subseteq TrackedIds(table')
    OBVIOUS
  <2>1. Kept(table, table')
    BY TableStep DEF MInv
  <2>2. TableOK(table) /\ TableOK(table')
    BY DEF MInv, MTable, KTable, TableOK, BucketAt
  <2> QED
    BY <2>1, <2>2, KeptTracked
<1> QED
  BY <1>1, <1>2, MInvHolds, PTL DEF MultiSpec

\* If k entries with IPv6 addresses fit in a datagram: whatever arrives while
\* a lookup drains, only a piece for a registered relay, or a PUNCH_FORWARD to
\* an address that the socket refuses, can end the node.
THEOREM DrainSurvivesHolds == MultiSpec => DrainSurvives
<1> DEFINE Fits == /\ KIND_LEN + 2 + k * ENTRY_V6_LEN <= MaxDatagram
                   /\ k <= MAX_PEERS_PER_RESP
           Survives == Fits => (draining /\ event'.kind = "Err" =>
                               EndsForCause)
<1>1. MInv /\ [MultiNext]_multi_vars => [Survives]_multi_vars
  <2> SUFFICES ASSUME MInv, [MultiNext]_multi_vars, Fits, draining,
                      event'.kind = "Err"
               PROVE  EndsForCause
    OBVIOUS
  <2> DEFINE E == k * ENTRY_V6_LEN
  <2>1. E \in Nat /\ MaxPlaintext \in Nat
    <3>1. k \in Nat /\ ENTRY_V6_LEN \in Nat
      BY KAssumption, WidthsAssumption, ByteBits DEF ENTRY_V6_LEN, PORT_LEN
    <3> QED
      BY <3>1, TimesNext, MaxAdvertisedAssumption
  <2>2. KIND_LEN + 2 + E <= MaxDatagram
    OBVIOUS
  <2> HIDE DEF E
  <2>3. 2 + E <= MaxPlaintext
    BY <2>1, <2>2, MaxDatagramAssumption DEF KIND_LEN
  <2> QED
    BY <2>3, DrainStep DEF E, MInv
<1> QED
  BY <1>1, MInvHolds, PTL DEF MultiSpec, DrainSurvives, EndsForCause

=============================================================================
