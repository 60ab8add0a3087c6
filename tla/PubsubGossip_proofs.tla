------------------------ MODULE PubsubGossip_proofs -------------------------
(***************************************************************************)
(* Proofs about pubsub frames and their spreading: PubsubCodec reads every *)
(* frame as it was written under each authenticator, and reads nothing     *)
(* else as a frame; and what relays and decoders know are combinations of  *)
(* the source's pieces, for any graph of nodes, any dimensions and any     *)
(* authenticator whose tags tell generations apart.                        *)
(***************************************************************************)
EXTENDS PubsubGossip, Values_proofs

-----------------------------------------------------------------------------
(* The integers of a lattice tag                                           *)

Entry == 0 .. (Limit(LHS_TAG_ENTRY_LEN) - 1)

LEMMA Widths ==
  /\ U32_LEN \in Nat /\ FINGERPRINT_LEN \in Nat /\ KEYED_HASH_TAG_LEN \in Nat
  /\ LHS_TAG_ENTRY_LEN \in Nat
BY CodecAssumption

LEMMA EntryBytes ==
  ASSUME NEW x \in Entry
  PROVE  /\ to_le_bytes(x, LHS_TAG_ENTRY_LEN) \in Seq(Byte)
         /\ Len(to_le_bytes(x, LHS_TAG_ENTRY_LEN)) = LHS_TAG_ENTRY_LEN
         /\ from_le_bytes(to_le_bytes(x, LHS_TAG_ENTRY_LEN)) = x
<1>1. x \in Nat /\ LHS_TAG_ENTRY_LEN \in Nat
  <2>1. Limit(LHS_TAG_ENTRY_LEN) \in Nat
    BY Widths, LimitType
  <2> QED
    BY <2>1, Widths DEF Entry
<1>2. to_le_bytes(x, LHS_TAG_ENTRY_LEN) \in [1 .. LHS_TAG_ENTRY_LEN -> Byte]
  BY <1>1, IntegerBytes
<1>3. from_le_bytes(to_le_bytes(x, LHS_TAG_ENTRY_LEN)) = x
  BY <1>1, LeRoundTrip DEF Entry
<1> QED
  BY <1>1, <1>2, <1>3, FunctionIsSeq

\* What lattice_entries_to_vec puts together, step by step.
LEMMA EntriesBody ==
  ASSUME NEW t \in Seq(Entry)
  PROVE  \E body \in [0 .. Len(t) -> Seq(Byte)] :
           /\ body[0] = << >>
           /\ \A n \in 1 .. Len(t) :
                body[n] = body[n - 1] \o to_le_bytes(t[n], LHS_TAG_ENTRY_LEN)
           /\ \A n \in 0 .. Len(t) : Len(body[n]) = n * LHS_TAG_ENTRY_LEN
           /\ lattice_entries_to_vec(t) = body[Len(t)]
<1> DEFINE w == Len(t)
           E(n) == to_le_bytes(t[n], LHS_TAG_ENTRY_LEN)
           Def(f) == f = [n \in 0 .. Len(t) |->
                            IF n = 0 THEN << >>
                            ELSE f[n - 1] \o
                                   to_le_bytes(t[n], LHS_TAG_ENTRY_LEN)]
           body == CHOOSE f : Def(f)
           step == [x \in (1 .. w) \X Seq(Byte) |-> x[2] \o E(x[1])]
<1>1. w \in Nat /\ \A n \in 1 .. w : t[n] \in Entry
  OBVIOUS
<1>2. \A n \in 1 .. w : E(n) \in Seq(Byte) /\ Len(E(n)) = LHS_TAG_ENTRY_LEN
  BY <1>1, EntryBytes
<1>3. step \in [(1 .. w) \X Seq(Byte) -> Seq(Byte)]
  <2> HIDE DEF E
  <2>1. ASSUME NEW x \in (1 .. w) \X Seq(Byte) PROVE x[2] \o E(x[1]) \in Seq(Byte)
    <3>1. x[1] \in 1 .. w /\ x[2] \in Seq(Byte)
      OBVIOUS
    <3> QED
      BY <1>2, <3>1, ConcatProperties
  <2> QED
    BY <2>1
<1>4. << >> \in Seq(Byte)
  OBVIOUS
<1>5. PICK f : Computes(f, w, Seq(Byte), << >>, step)
  <2> HIDE DEF step, w
  <2> QED
    BY <1>1, <1>3, <1>4, Recursion
<1>6. /\ f \in [0 .. w -> Seq(Byte)] /\ f[0] = << >>
      /\ \A n \in 1 .. w : f[n] = f[n - 1] \o E(n)
  <2>1. /\ f \in [0 .. w -> Seq(Byte)] /\ f[0] = << >>
        /\ \A n \in 1 .. w : f[n] = step[<< n, f[n - 1] >>]
    BY <1>5 DEF Computes
  <2> HIDE DEF w, E
  <2>2. ASSUME NEW n \in 1 .. w PROVE f[n] = f[n - 1] \o E(n)
    <3>1. n - 1 \in 0 .. w
      BY <1>1
    <3>2. << n, f[n - 1] >> \in (1 .. w) \X Seq(Byte)
      BY <2>1, <3>1
    <3> QED
      BY <2>1, <3>2
  <2> QED
    BY <2>1, <2>2
<1>7. Def(f)
  <2>1. \A n \in 0 .. w : f[n] = IF n = 0 THEN << >> ELSE f[n - 1] \o E(n)
    <3> HIDE DEF E, w
    <3> TAKE n \in 0 .. w
    <3>1. n # 0 => n \in 1 .. w
      BY <1>1
    <3> QED
      BY <1>6, <3>1
  <2>2. f = [n \in 0 .. w |-> f[n]]
    BY <1>6
  <2> QED
    BY <2>1, <2>2
<1>8. Def(body)
  <2> HIDE DEF Def
  <2> QED
    BY <1>7
<1>9. lattice_entries_to_vec(t) = body[w]
  BY DEF lattice_entries_to_vec
<1> HIDE DEF body
<1>10. /\ \A n \in 0 .. w : body[n] = IF n = 0 THEN << >> ELSE body[n - 1] \o E(n)
       /\ body = [n \in 0 .. w |-> body[n]]
  BY <1>8
<1> HIDE DEF w, E, Def
<1>11. body[0] = << >> /\ \A n \in 1 .. w : body[n] = body[n - 1] \o E(n)
  BY <1>1, <1>10
<1>12. \A n \in 0 .. w :
         body[n] \in Seq(Byte) /\ Len(body[n]) = n * LHS_TAG_ENTRY_LEN
  <2> DEFINE T == {n \in 0 .. w : /\ body[n] \in Seq(Byte)
                                  /\ Len(body[n]) = n * LHS_TAG_ENTRY_LEN}
  <2>1. 0 \in T
    <3>1. Len(<< >>) = 0 /\ 0 * LHS_TAG_ENTRY_LEN = 0 /\ 0 \in 0 .. w
      BY <1>1, Widths
    <3> QED
      BY <1>4, <1>11, <3>1
  <2>2. ASSUME NEW n \in 0 .. (w - 1), n \in T PROVE n + 1 \in T
    <3>1. n + 1 \in 1 .. w /\ (n + 1) - 1 = n /\ n + 1 \in 0 .. w /\ n \in Nat
      BY <1>1
    <3>2. body[n + 1] = body[n] \o E(n + 1)
      BY <1>11, <3>1
    <3>3. /\ body[n] \in Seq(Byte) /\ Len(body[n]) = n * LHS_TAG_ENTRY_LEN
          /\ E(n + 1) \in Seq(Byte) /\ Len(E(n + 1)) = LHS_TAG_ENTRY_LEN
      BY <1>2, <2>2, <3>1
    <3>4. /\ body[n] \o E(n + 1) \in Seq(Byte)
          /\ Len(body[n] \o E(n + 1)) = Len(body[n]) + Len(E(n + 1))
      BY <3>3, ConcatProperties
    <3>5. (n + 1) * LHS_TAG_ENTRY_LEN = n * LHS_TAG_ENTRY_LEN + LHS_TAG_ENTRY_LEN
      BY <3>1, Widths
    <3> QED
      BY <3>1, <3>2, <3>3, <3>4, <3>5
  <2>3. 0 .. w \subseteq T
    <3> HIDE DEF T
    <3> QED
      BY <1>1, <2>1, <2>2, Induction
  <2> QED
    BY <2>3
<1>13. body \in [0 .. w -> Seq(Byte)]
  BY <1>10, <1>12
<1> QED
  BY <1>9, <1>11, <1>12, <1>13 DEF w, E

\* Each entry is where its place says.
LEMMA EntryAt ==
  ASSUME NEW t \in Seq(Entry), NEW buf \in Seq(Byte), NEW off \in Nat,
         HasAt(buf, off, lattice_entries_to_vec(t)), NEW i \in 1 .. Len(t)
  PROVE  HasAt(buf, off + (i - 1) * LHS_TAG_ENTRY_LEN,
               to_le_bytes(t[i], LHS_TAG_ENTRY_LEN))
<1> DEFINE w == Len(t)
           E(n) == to_le_bytes(t[n], LHS_TAG_ENTRY_LEN)
<1>1. PICK body \in [0 .. w -> Seq(Byte)] :
        /\ \A n \in 1 .. w : body[n] = body[n - 1] \o E(n)
        /\ \A n \in 0 .. w : Len(body[n]) = n * LHS_TAG_ENTRY_LEN
        /\ lattice_entries_to_vec(t) = body[w]
  BY EntriesBody
<1>2. w \in Nat /\ \A n \in 1 .. w : E(n) \in Seq(Byte)
  <2>1. \A n \in 1 .. w : t[n] \in Entry
    OBVIOUS
  <2> QED
    BY <2>1, EntryBytes
<1> HIDE DEF E
<1>3. i \in 1 .. w
  OBVIOUS
<1> HIDE DEF w
<1>4. ASSUME NEW n \in 1 .. w, HasAt(buf, off, body[n])
      PROVE  /\ HasAt(buf, off, body[n - 1])
             /\ HasAt(buf, off + (n - 1) * LHS_TAG_ENTRY_LEN, E(n))
  <2>1. n - 1 \in 0 .. w
    BY <1>2
  <2>2. /\ body[n - 1] \in Seq(Byte) /\ E(n) \in Seq(Byte)
        /\ Len(body[n - 1]) = (n - 1) * LHS_TAG_ENTRY_LEN
    BY <1>1, <1>2, <2>1
  <2>3. HasAt(buf, off, body[n - 1] \o E(n))
    BY <1>1, <1>4
  <2>4. HasAt(buf, off, body[n - 1]) /\ HasAt(buf, off + Len(body[n - 1]), E(n))
    BY <2>2, <2>3, HasAtConcat
  <2> QED
    BY <2>2, <2>4
<1>5. \A n \in 0 .. w : HasAt(buf, off, body[n])
  <2> DEFINE T == {j \in 0 .. w : HasAt(buf, off, body[w - j])}
  <2>1. 0 \in T
    <3>1. w - 0 = w /\ 0 \in 0 .. w
      BY <1>2
    <3> QED
      BY <1>1, <3>1
  <2>2. ASSUME NEW j \in 0 .. (w - 1), j \in T PROVE j + 1 \in T
    <3>1. /\ w - j \in 1 .. w /\ (w - j) - 1 = w - (j + 1) /\ j + 1 \in 0 .. w
      BY <1>2
    <3>2. HasAt(buf, off, body[w - j])
      BY <2>2
    <3> QED
      BY <1>4, <3>1, <3>2
  <2>3. 0 .. w \subseteq T
    <3> HIDE DEF T
    <3> QED
      BY <1>2, <2>1, <2>2, Induction
  <2> TAKE n \in 0 .. w
  <2>4. w - n \in 0 .. w /\ w - (w - n) = n
    BY <1>2
  <2> QED
    BY <2>3, <2>4
<1>6. i \in 0 .. w
  BY <1>2, <1>3
<1> QED
  BY <1>3, <1>4, <1>5, <1>6 DEF E

\* The n bytes of buf from off on.
LEMMA Slice ==
  ASSUME NEW S, NEW buf \in Seq(S), NEW off \in Nat, NEW n \in Nat,
         off + n <= Len(buf)
  PROVE  LET s == SubSeq(buf, off + 1, off + n)
         IN /\ s \in [1 .. n -> S] /\ s \in Seq(S) /\ Len(s) = n
            /\ \A i \in 1 .. n : s[i] = buf[off + i]
<1> DEFINE s == SubSeq(buf, off + 1, off + n)
<1>1. Len(buf) \in Nat
  OBVIOUS
<1>2. \A i \in (off + 1) .. (off + n) : buf[i] \in S
  BY <1>1
<1>3. off + 1 \in Int /\ off + n \in Int
  OBVIOUS
<1>4. /\ s \in Seq(S)
      /\ Len(s) = IF off + 1 <= off + n THEN (off + n) - (off + 1) + 1 ELSE 0
      /\ \A i \in 1 .. ((off + n) - (off + 1) + 1) : s[i] = buf[(off + 1) + i - 1]
  BY <1>2, <1>3, SubSeqProperties
<1> HIDE DEF s
<1>5. Len(s) = n
  BY <1>4
<1>6. ASSUME NEW i \in 1 .. n PROVE s[i] = buf[off + i]
  <2>1. i \in 1 .. ((off + n) - (off + 1) + 1) /\ (off + 1) + i - 1 = off + i
    OBVIOUS
  <2> QED
    BY <1>4, <2>1
<1>7. s \in [1 .. n -> S]
  BY <1>4, <1>5
<1> QED
  BY <1>4, <1>5, <1>6, <1>7 DEF s

LEMMA SliceHasAt ==
  ASSUME NEW S, NEW buf \in Seq(S), NEW off \in Nat, NEW t \in Seq(S),
         off + Len(t) <= Len(buf), HasAt(buf, off, t)
  PROVE  SubSeq(buf, off + 1, off + Len(t)) = t
<1> DEFINE s == SubSeq(buf, off + 1, off + Len(t))
<1>1. Len(t) \in Nat /\ Len(buf) \in Nat
  OBVIOUS
<1>2. /\ s \in Seq(S) /\ Len(s) = Len(t)
      /\ \A i \in 1 .. Len(t) : s[i] = buf[off + i]
  BY <1>1, Slice
<1> HIDE DEF s
<1>3. ASSUME NEW i \in 1 .. Len(t) PROVE s[i] = t[i]
  <2>1. off + i <= Len(buf)
    BY <1>1
  <2> QED
    BY <1>2, <2>1 DEF HasAt
<1>4. s = t
  BY <1>2, <1>3, SeqEqual
<1> QED
  BY <1>4 DEF s

\* A number of entries that fit ends where the last one ends.
LEMMA EntryEnds ==
  ASSUME NEW n \in Nat, NEW i \in 1 .. n, NEW w \in Nat
  PROVE  (i - 1) * w \in Nat /\ i * w = (i - 1) * w + w /\ i * w <= n * w
         /\ n * w \in Nat /\ i * w \in Nat
<1>1. i \in Nat /\ i - 1 \in Nat /\ i <= n
  OBVIOUS
<1>2. i * w <= n * w
  BY <1>1
<1> QED
  BY <1>1, <1>2

-----------------------------------------------------------------------------
(* Tags                                                                    *)

LEMMA EmptyFixed ==
  ASSUME NEW buf \in Seq(Byte)
  PROVE  Fixed(buf, 0) = Ok(<< >>, 0)
<1>1. Len(buf) \in Nat /\ 0 \in 0 .. Len(buf)
  OBVIOUS
<1>2. First(buf, 0) \in Seq(Byte) /\ Len(First(buf, 0)) = 0
  BY <1>1, FirstFacts
<1>3. First(buf, 0) = << >>
  BY <1>2
<1> QED
  BY <1>1, <1>3 DEF Fixed

LEMMA FixedRead ==
  ASSUME NEW buf \in Seq(Byte), NEW w \in Nat, NEW s \in [1 .. w -> Byte],
         HasAt(buf, 0, s), w <= Len(buf)
  PROVE  Fixed(buf, w) = Ok(s, w)
<1>1. s \in Seq(Byte) /\ Len(s) = w
  BY FunctionIsSeq
<1>2. First(buf, Len(s)) = s
  BY <1>1, HasAtFirst
<1>3. Len(buf) \in Nat
  OBVIOUS
<1> QED
  BY <1>1, <1>2, <1>3 DEF Fixed

LEMMA FixedWritten ==
  ASSUME NEW buf \in Seq(Byte), NEW w \in Nat, Fixed(buf, w).ok
  PROVE  /\ Fixed(buf, w).consumed = w /\ w \in 0 .. Len(buf)
         /\ Fixed(buf, w).value \in [1 .. w -> Byte]
         /\ Fixed(buf, w).value = First(buf, w)
<1>1. Len(buf) \in Nat
  OBVIOUS
<1>2. ~ (Len(buf) < w) /\ Fixed(buf, w) = Ok(First(buf, w), w)
  BY DEF Fixed, Err
<1>3. w \in 0 .. Len(buf)
  BY <1>1, <1>2
<1>4. First(buf, w) \in Seq(Byte) /\ Len(First(buf, w)) = w
  BY <1>3, FirstFacts
<1>5. First(buf, w) \in [1 .. w -> Byte]
  BY <1>4
<1> QED
  BY <1>2, <1>3, <1>5 DEF Ok

\* The parts of a lattice tag on the wire.
LEMMA LatticeBytes ==
  ASSUME NEW t \in Seq(Entry), Len(t) < Limit(U32_LEN)
  PROVE  LET prefix == to_be_bytes(Len(t), U32_LEN)
             body == lattice_entries_to_vec(t)
         IN /\ tag_to_vec("Lattice", t) = prefix \o body
            /\ prefix \in Seq(Byte) /\ Len(prefix) = U32_LEN
            /\ body \in Seq(Byte) /\ Len(body) = Len(t) * LHS_TAG_ENTRY_LEN
            /\ from_be_bytes(prefix) = Len(t)
            /\ tag_to_vec("Lattice", t) \in Seq(Byte)
            /\ Len(tag_to_vec("Lattice", t)) =
                 U32_LEN + Len(t) * LHS_TAG_ENTRY_LEN
<1> DEFINE prefix == to_be_bytes(Len(t), U32_LEN)
           body == lattice_entries_to_vec(t)
<1>1. Len(t) \in Nat /\ Limit(U32_LEN) \in Nat /\ U32_LEN \in Nat
  BY Widths, LimitType
<1>2. tag_to_vec("Lattice", t) = prefix \o body
  <2>1. ~ (Len(t) > Limit(U32_LEN) - 1)
    BY <1>1
  <2> QED
    BY <2>1 DEF tag_to_vec
<1>3. prefix \in Seq(Byte) /\ Len(prefix) = U32_LEN
  <2>1. prefix \in [1 .. U32_LEN -> Byte]
    BY <1>1, IntegerBytes
  <2> QED
    BY <1>1, <2>1, FunctionIsSeq
<1>4. from_be_bytes(prefix) = Len(t)
  <2>1. Len(t) \in 0 .. (Limit(U32_LEN) - 1)
    BY <1>1
  <2> QED
    BY <1>1, <2>1, BeRoundTrip
<1>5. body \in Seq(Byte) /\ Len(body) = Len(t) * LHS_TAG_ENTRY_LEN
  <2>1. Len(t) \in 0 .. Len(t)
    BY <1>1
  <2>2. PICK b \in [0 .. Len(t) -> Seq(Byte)] :
          /\ \A n \in 0 .. Len(t) : Len(b[n]) = n * LHS_TAG_ENTRY_LEN
          /\ body = b[Len(t)]
    BY EntriesBody
  <2> QED
    BY <2>1, <2>2
<1>6. prefix \o body \in Seq(Byte) /\ Len(prefix \o body) = Len(prefix) + Len(body)
  BY <1>3, <1>5, ConcatProperties
<1> QED
  BY <1>2, <1>3, <1>4, <1>5, <1>6

LEMMA LatticeRead ==
  ASSUME NEW t \in Seq(Entry), Len(t) < Limit(U32_LEN), NEW buf \in Seq(Byte),
         HasAt(buf, 0, tag_to_vec("Lattice", t)),
         Len(tag_to_vec("Lattice", t)) <= Len(buf)
  PROVE  lattice_tag_from_bytes(buf) = Ok(t, Len(tag_to_vec("Lattice", t)))
<1> DEFINE prefix == to_be_bytes(Len(t), U32_LEN)
           body == lattice_entries_to_vec(t)
           n == Len(t)
           end == U32_LEN + n * LHS_TAG_ENTRY_LEN
<1>1. /\ tag_to_vec("Lattice", t) = prefix \o body
      /\ prefix \in Seq(Byte) /\ Len(prefix) = U32_LEN
      /\ body \in Seq(Byte) /\ Len(body) = n * LHS_TAG_ENTRY_LEN
      /\ from_be_bytes(prefix) = n
      /\ Len(tag_to_vec("Lattice", t)) = end
  BY LatticeBytes
<1>2. /\ n \in Nat /\ U32_LEN \in Nat /\ Len(buf) \in Nat
      /\ n * LHS_TAG_ENTRY_LEN \in Nat /\ end <= Len(buf)
  BY <1>1, Widths
<1> HIDE DEF prefix, body
<1>3. HasAt(buf, 0, prefix) /\ HasAt(buf, U32_LEN, body)
  <2>1. HasAt(buf, 0, prefix) /\ HasAt(buf, 0 + Len(prefix), body)
    BY <1>1, HasAtConcat
  <2> QED
    BY <1>1, <1>2, <2>1
<1>4. First(buf, U32_LEN) = prefix
  BY <1>1, <1>2, <1>3, HasAtFirst
<1>5. from_be_bytes(First(buf, U32_LEN)) = n
  BY <1>1, <1>4
<1>6. ASSUME NEW i \in 1 .. n
      PROVE  SubSeq(buf, U32_LEN + (i - 1) * LHS_TAG_ENTRY_LEN + 1,
                    U32_LEN + i * LHS_TAG_ENTRY_LEN)
               = to_le_bytes(t[i], LHS_TAG_ENTRY_LEN)
  <2> DEFINE e == to_le_bytes(t[i], LHS_TAG_ENTRY_LEN)
             off == U32_LEN + (i - 1) * LHS_TAG_ENTRY_LEN
  <2>1. t[i] \in Entry
    OBVIOUS
  <2>2. e \in Seq(Byte) /\ Len(e) = LHS_TAG_ENTRY_LEN
    BY <2>1, EntryBytes
  <2>3. HasAt(buf, off, e)
    BY <1>2, <1>3, EntryAt DEF body
  <2>4. /\ (i - 1) * LHS_TAG_ENTRY_LEN \in Nat
        /\ i * LHS_TAG_ENTRY_LEN = (i - 1) * LHS_TAG_ENTRY_LEN + LHS_TAG_ENTRY_LEN
        /\ i * LHS_TAG_ENTRY_LEN <= n * LHS_TAG_ENTRY_LEN
    BY <1>2, Widths, EntryEnds
  <2>5. off \in Nat /\ off + LHS_TAG_ENTRY_LEN = U32_LEN + i * LHS_TAG_ENTRY_LEN
        /\ off + LHS_TAG_ENTRY_LEN <= Len(buf)
    BY <1>2, <2>4, Widths
  <2> HIDE DEF e, off
  <2>6. SubSeq(buf, off + 1, off + Len(e)) = e
    BY <2>2, <2>3, <2>5, SliceHasAt
  <2> QED
    BY <2>2, <2>5, <2>6 DEF e, off
<1>7. [i \in 1 .. n |->
         from_le_bytes(SubSeq(buf, U32_LEN + (i - 1) * LHS_TAG_ENTRY_LEN + 1,
                              U32_LEN + i * LHS_TAG_ENTRY_LEN))] = t
  <2>1. ASSUME NEW i \in 1 .. n
        PROVE  from_le_bytes(SubSeq(buf, U32_LEN + (i - 1) * LHS_TAG_ENTRY_LEN + 1,
                                    U32_LEN + i * LHS_TAG_ENTRY_LEN)) = t[i]
    <3>1. t[i] \in Entry
      OBVIOUS
    <3> QED
      BY <1>6, <3>1, EntryBytes
  <2>2. t = [i \in 1 .. n |-> t[i]]
    OBVIOUS
  <2> QED
    BY <2>1, <2>2
<1>8. ~ (Len(buf) < U32_LEN \/ Len(buf) < end)
  BY <1>2
<1>9. lattice_tag_from_bytes(buf) = Ok(t, end)
  BY <1>5, <1>7, <1>8 DEF lattice_tag_from_bytes
<1> QED
  BY <1>1, <1>9

\* A tag is read as it was written, whatever follows it.
LEMMA TagRead ==
  ASSUME NEW a \in Authenticators, NEW t, IsTag(a, t), NEW buf \in Seq(Byte),
         HasAt(buf, 0, tag_to_vec(a, t)), Len(tag_to_vec(a, t)) <= Len(buf)
  PROVE  tag_from_bytes(a, buf) = Ok(t, Len(tag_to_vec(a, t)))
<1>1. CASE a = "Null"
  <2>1. t = << >> /\ tag_to_vec(a, t) = t /\ tag_from_bytes(a, buf) = Fixed(buf, 0)
    BY <1>1 DEF IsTag, tag_to_vec, tag_from_bytes
  <2>2. Len(<< >>) = 0
    OBVIOUS
  <2> QED
    BY <2>1, <2>2, EmptyFixed
<1>2. CASE a = "KeyedHash"
  <2>1. /\ t \in [1 .. KEYED_HASH_TAG_LEN -> Byte] /\ tag_to_vec(a, t) = t
        /\ tag_from_bytes(a, buf) = Fixed(buf, KEYED_HASH_TAG_LEN)
    BY <1>2 DEF IsTag, tag_to_vec, tag_from_bytes
  <2>2. Len(t) = KEYED_HASH_TAG_LEN
    BY <2>1, Widths, FunctionIsSeq
  <2> QED
    BY <2>1, <2>2, Widths, FixedRead
<1>3. CASE a = "Lattice"
  <2>1. /\ t \in Seq(Entry) /\ Len(t) < Limit(U32_LEN)
        /\ tag_from_bytes(a, buf) = lattice_tag_from_bytes(buf)
    BY <1>3 DEF IsTag, tag_from_bytes, Entry
  <2> QED
    BY <1>3, <2>1, LatticeRead
<1> QED
  BY <1>1, <1>2, <1>3 DEF Authenticators

LEMMA TagBytes ==
  ASSUME NEW a \in Authenticators, NEW t, IsTag(a, t)
  PROVE  tag_to_vec(a, t) \in Seq(Byte)
<1>1. CASE a = "Null"
  BY <1>1 DEF IsTag, tag_to_vec
<1>2. CASE a = "KeyedHash"
  <2>1. t \in [1 .. KEYED_HASH_TAG_LEN -> Byte] /\ tag_to_vec(a, t) = t
    BY <1>2 DEF IsTag, tag_to_vec
  <2> QED
    BY <2>1, Widths, FunctionIsSeq
<1>3. CASE a = "Lattice"
  <2>1. t \in Seq(Entry) /\ Len(t) < Limit(U32_LEN)
    BY <1>3 DEF IsTag, Entry
  <2> QED
    BY <1>3, <2>1, LatticeBytes
<1> QED
  BY <1>1, <1>2, <1>3 DEF Authenticators

\* Two neighbouring parts of a string.
LEMMA SliceSplit ==
  ASSUME NEW S, NEW buf \in Seq(S), NEW off \in Nat, NEW m \in Nat, NEW n \in Nat,
         (off + m) + n <= Len(buf)
  PROVE  SubSeq(buf, off + 1, off + m)
           \o SubSeq(buf, (off + m) + 1, (off + m) + n)
           = SubSeq(buf, off + 1, (off + m) + n)
<1> DEFINE s == SubSeq(buf, off + 1, off + m)
           t == SubSeq(buf, (off + m) + 1, (off + m) + n)
           u == SubSeq(buf, off + 1, off + (m + n))
<1>1. /\ Len(buf) \in Nat /\ off + m \in Nat /\ m + n \in Nat
      /\ off + m <= Len(buf) /\ off + (m + n) = (off + m) + n
  OBVIOUS
<1>2. /\ s \in Seq(S) /\ Len(s) = m
      /\ \A i \in 1 .. m : s[i] = buf[off + i]
  BY <1>1, Slice
<1>3. /\ t \in Seq(S) /\ Len(t) = n
      /\ \A i \in 1 .. n : t[i] = buf[(off + m) + i]
  BY <1>1, Slice
<1>4. /\ u \in Seq(S) /\ Len(u) = m + n
      /\ \A i \in 1 .. (m + n) : u[i] = buf[off + i]
  BY <1>1, Slice
<1> HIDE DEF s, t, u
<1>5. /\ s \o t \in Seq(S) /\ Len(s \o t) = m + n
      /\ \A i \in 1 .. (m + n) :
           (s \o t)[i] = IF i <= m THEN s[i] ELSE t[i - m]
  BY <1>2, <1>3, ConcatProperties
<1>6. ASSUME NEW i \in 1 .. (m + n) PROVE (s \o t)[i] = u[i]
  <2>1. CASE i <= m
    <3>1. i \in 1 .. m
      BY <2>1
    <3> QED
      BY <1>2, <1>4, <1>5, <2>1, <3>1
  <2>2. CASE ~ (i <= m)
    <3>1. i - m \in 1 .. n /\ (off + m) + (i - m) = off + i
      BY <2>2
    <3> QED
      BY <1>3, <1>4, <1>5, <2>2, <3>1
  <2> QED
    BY <2>1, <2>2
<1>7. s \o t = u
  BY <1>4, <1>5, <1>6, SeqEqual
<1> QED
  BY <1>1, <1>7 DEF s, t, u

\* What is read as a lattice tag is what would be written for it.
LEMMA LatticeWritten ==
  ASSUME NEW buf \in Seq(Byte), lattice_tag_from_bytes(buf).ok
  PROVE  LET d == lattice_tag_from_bytes(buf)
         IN /\ d.value \in Seq(Entry) /\ Len(d.value) < Limit(U32_LEN)
            /\ d.consumed \in 0 .. Len(buf)
            /\ tag_to_vec("Lattice", d.value) = First(buf, d.consumed)
<1> DEFINE n == from_be_bytes(First(buf, U32_LEN))
           end == U32_LEN + n * LHS_TAG_ENTRY_LEN
           e(i) == SubSeq(buf, U32_LEN + (i - 1) * LHS_TAG_ENTRY_LEN + 1,
                          U32_LEN + i * LHS_TAG_ENTRY_LEN)
           t == [i \in 1 .. n |-> from_le_bytes(e(i))]
           U == U32_LEN
           W == LHS_TAG_ENTRY_LEN
<1>1. /\ ~ (Len(buf) < U32_LEN) /\ ~ (Len(buf) < end)
      /\ lattice_tag_from_bytes(buf) = Ok(t, end)
  BY DEF lattice_tag_from_bytes, Err
<1>2. Len(buf) \in Nat /\ U \in Nat /\ W \in Nat /\ U \in 0 .. Len(buf)
  BY <1>1, Widths
<1>3. First(buf, U) \in [1 .. U -> Byte]
  <2>1. First(buf, U) \in Seq(Byte) /\ Len(First(buf, U)) = U
    BY <1>2, FirstFacts
  <2> QED
    BY <2>1
<1>4. n \in 0 .. (Limit(U) - 1) /\ to_be_bytes(n, U) = First(buf, U)
  BY <1>2, <1>3, BeWritten
<1>5. n \in Nat /\ n < Limit(U) /\ n * W \in Nat /\ end \in 0 .. Len(buf)
  <2>1. Limit(U) \in Nat
    BY <1>2, LimitType
  <2>2. n \in Nat /\ n < Limit(U)
    BY <1>4, <2>1
  <2> HIDE DEF n
  <2>3. n * W \in Nat
    BY <1>2, <2>2
  <2> QED
    BY <1>1, <1>2, <2>2, <2>3
<1> HIDE DEF n
<1>6. ASSUME NEW i \in 1 .. n
      PROVE  /\ e(i) \in [1 .. W -> Byte]
             /\ (i - 1) * W \in Nat /\ i * W = (i - 1) * W + W
             /\ U + i * W <= Len(buf)
  <2>1. /\ (i - 1) * W \in Nat /\ i * W = (i - 1) * W + W
        /\ i * W <= n * W /\ i * W \in Nat
    BY <1>2, <1>5, EntryEnds
  <2> DEFINE off == U + (i - 1) * W
  <2>2. off \in Nat /\ off + W = U + i * W /\ off + W <= Len(buf)
    BY <1>2, <1>5, <2>1
  <2> HIDE DEF off
  <2>3. SubSeq(buf, off + 1, off + W) \in [1 .. W -> Byte]
    BY <1>2, <2>2, Slice
  <2>4. e(i) \in [1 .. W -> Byte]
    BY <2>2, <2>3 DEF off
  <2> QED
    BY <2>1, <2>2, <2>4
<1>7. ASSUME NEW i \in 1 .. n
      PROVE  t[i] \in Entry /\ to_le_bytes(t[i], W) = e(i)
  <2>1. t[i] = from_le_bytes(e(i))
    OBVIOUS
  <2>2. e(i) \in [1 .. W -> Byte]
    BY <1>6
  <2> HIDE DEF e, t
  <2>3. /\ from_le_bytes(e(i)) \in 0 .. (Limit(W) - 1)
        /\ to_le_bytes(from_le_bytes(e(i)), W) = e(i)
    BY <1>2, <2>2, LeWritten
  <2> QED
    BY <2>1, <2>3 DEF Entry
<1>8. t \in Seq(Entry) /\ Len(t) = n
  <2>1. t \in [1 .. n -> Entry]
    BY <1>7
  <2> HIDE DEF t
  <2> QED
    BY <1>5, <2>1, FunctionIsSeq
<1> HIDE DEF t
<1>9. PICK body \in [0 .. n -> Seq(Byte)] :
        /\ body[0] = << >>
        /\ \A i \in 1 .. n : body[i] = body[i - 1] \o to_le_bytes(t[i], W)
        /\ lattice_entries_to_vec(t) = body[n]
  BY <1>8, EntriesBody
<1>10. body[n] = SubSeq(buf, U + 1, U + n * W)
  <2> DEFINE T == {i \in 0 .. n : body[i] = SubSeq(buf, U + 1, U + i * W)}
  <2>1. 0 \in T
    <3>1. 0 * W = 0 /\ U + 0 = U /\ 0 \in 0 .. n
      BY <1>2, <1>5
    <3>2. SubSeq(buf, U + 1, U + 0) \in Seq(Byte) /\ Len(SubSeq(buf, U + 1, U + 0)) = 0
      BY <1>2, Slice
    <3>3. SubSeq(buf, U + 1, U + 0) = << >>
      BY <3>2
    <3> QED
      BY <1>9, <3>1, <3>3
  <2>2. ASSUME NEW i \in 0 .. (n - 1), i \in T PROVE i + 1 \in T
    <3>1. i + 1 \in 1 .. n /\ (i + 1) - 1 = i /\ i + 1 \in 0 .. n
      BY <1>5
    <3>2. body[i + 1] = body[i] \o e(i + 1)
      BY <1>7, <1>9, <3>1
    <3>3. /\ i * W \in Nat /\ (i + 1) * W = i * W + W
          /\ U + (i + 1) * W <= Len(buf)
      BY <1>6, <3>1
    <3>4. (U + i * W) + W = U + (i + 1) * W
      BY <1>2, <3>3
    <3>5. e(i + 1) = SubSeq(buf, (U + i * W) + 1, (U + i * W) + W)
      BY <3>1, <3>4
    <3>6. SubSeq(buf, U + 1, U + i * W)
            \o SubSeq(buf, (U + i * W) + 1, (U + i * W) + W)
            = SubSeq(buf, U + 1, (U + i * W) + W)
      <4> DEFINE m == i * W
      <4>1. m \in Nat /\ (U + m) + W <= Len(buf)
        BY <3>3, <3>4
      <4> HIDE DEF m
      <4>2. SubSeq(buf, U + 1, U + m)
              \o SubSeq(buf, (U + m) + 1, (U + m) + W)
              = SubSeq(buf, U + 1, (U + m) + W)
        BY <1>2, <4>1, SliceSplit
      <4> QED
        BY <4>2 DEF m
    <3>7. body[i] = SubSeq(buf, U + 1, U + i * W)
      BY <2>2
    <3> HIDE DEF e
    <3>8. body[i + 1] = SubSeq(buf, U + 1, U + (i + 1) * W)
      BY <3>2, <3>4, <3>5, <3>6, <3>7
    <3> QED
      BY <3>1, <3>8
  <2>3. 0 .. n \subseteq T
    <3> HIDE DEF T
    <3> QED
      BY <1>5, <2>1, <2>2, Induction
  <2>4. n \in 0 .. n
    BY <1>5
  <2> QED
    BY <2>3, <2>4
<1>11. tag_to_vec("Lattice", t) = to_be_bytes(n, U) \o body[n]
  BY <1>5, <1>8, <1>9, LatticeBytes
<1>12. First(buf, U) \o SubSeq(buf, U + 1, U + n * W) = First(buf, U + n * W)
  <2> DEFINE m == n * W
  <2>1. (0 + U) + m <= Len(buf) /\ m \in Nat /\ 0 + U = U /\ 0 + 1 = 1
    BY <1>2, <1>5
  <2> HIDE DEF m
  <2>2. SubSeq(buf, 0 + 1, 0 + U) \o SubSeq(buf, (0 + U) + 1, (0 + U) + m)
          = SubSeq(buf, 0 + 1, (0 + U) + m)
    <3>1. 0 \in Nat
      OBVIOUS
    <3> QED
      BY <1>2, <2>1, <3>1, SliceSplit
  <2>3. SubSeq(buf, 1, U) \o SubSeq(buf, U + 1, U + m) = SubSeq(buf, 1, U + m)
    BY <2>1, <2>2
  <2> QED
    BY <2>3 DEF First, m
<1>13. tag_to_vec("Lattice", t) = First(buf, end)
  BY <1>4, <1>10, <1>11, <1>12
<1> QED
  BY <1>1, <1>5, <1>8, <1>13 DEF Ok

LEMMA TagWritten ==
  ASSUME NEW a \in Authenticators, NEW buf \in Seq(Byte),
         tag_from_bytes(a, buf).ok
  PROVE  LET d == tag_from_bytes(a, buf)
         IN /\ IsTag(a, d.value) /\ d.consumed \in 0 .. Len(buf)
            /\ tag_to_vec(a, d.value) = First(buf, d.consumed)
<1>1. CASE a = "Null"
  <2>1. tag_from_bytes(a, buf) = Fixed(buf, 0)
    BY <1>1 DEF tag_from_bytes
  <2>2. Fixed(buf, 0) = Ok(<< >>, 0)
    BY EmptyFixed
  <2>3. 0 \in Nat /\ Fixed(buf, 0).ok
    BY <2>2 DEF Ok
  <2>4. /\ Fixed(buf, 0).consumed = 0 /\ 0 \in 0 .. Len(buf)
        /\ Fixed(buf, 0).value = First(buf, 0)
    BY <2>3, FixedWritten
  <2>5. Fixed(buf, 0).value = << >>
    BY <2>2 DEF Ok
  <2> QED
    BY <1>1, <2>1, <2>4, <2>5 DEF IsTag, tag_to_vec
<1>2. CASE a = "KeyedHash"
  <2> DEFINE d == Fixed(buf, KEYED_HASH_TAG_LEN)
  <2>1. tag_from_bytes(a, buf) = d
    BY <1>2 DEF tag_from_bytes
  <2>2. /\ d.consumed = KEYED_HASH_TAG_LEN
        /\ KEYED_HASH_TAG_LEN \in 0 .. Len(buf)
        /\ d.value \in [1 .. KEYED_HASH_TAG_LEN -> Byte]
        /\ d.value = First(buf, KEYED_HASH_TAG_LEN)
    BY <2>1, Widths, FixedWritten
  <2> HIDE DEF d
  <2> QED
    BY <1>2, <2>1, <2>2 DEF IsTag, tag_to_vec
<1>3. CASE a = "Lattice"
  <2> DEFINE d == lattice_tag_from_bytes(buf)
  <2>1. tag_from_bytes(a, buf) = d
    BY <1>3 DEF tag_from_bytes
  <2>2. /\ d.value \in Seq(Entry) /\ Len(d.value) < Limit(U32_LEN)
        /\ d.consumed \in 0 .. Len(buf)
        /\ tag_to_vec("Lattice", d.value) = First(buf, d.consumed)
    BY <2>1, LatticeWritten
  <2> HIDE DEF d
  <2>3. IsTag(a, d.value)
    BY <1>3, <2>2 DEF IsTag, Entry
  <2> QED
    BY <1>3, <2>1, <2>2, <2>3
<1> QED
  BY <1>1, <1>2, <1>3 DEF Authenticators

-----------------------------------------------------------------------------
(* Frames                                                                  *)

CommitmentLen(a) == IF a = "Null" THEN 0 ELSE FINGERPRINT_LEN

LEMMA CommitmentRead ==
  ASSUME NEW a \in Authenticators, NEW c, IsCommitment(a, c)
  PROVE  /\ c \in Seq(Byte) /\ Len(c) = CommitmentLen(a)
         /\ c \in [1 .. CommitmentLen(a) -> Byte] /\ CommitmentLen(a) \in Nat
<1>1. CommitmentLen(a) \in Nat
  BY Widths DEF CommitmentLen
<1>2. c \in [1 .. CommitmentLen(a) -> Byte]
  BY DEF IsCommitment, CommitmentLen
<1> HIDE DEF CommitmentLen
<1> QED
  BY <1>1, <1>2, FunctionIsSeq

\* The commitment and the tag are read as they were written, and what is left
\* is the piece.
WireReads(a, buf, k, c, t) ==
  LET g == tag_to_vec(a, t)
      r == From(From(buf, Len(c)), Len(g))
  IN /\ r \in Seq(Byte) /\ Len(r) = Len(buf) - (Len(c) + Len(g))
     /\ \A i \in 1 .. Len(r) : r[i] = buf[(Len(c) + Len(g)) + i]
     /\ decode_wire_piece(a, buf, k) =
          IF Len(r) < k THEN Err
          ELSE Ok(WirePiece(c, CodedPiece(First(r, k), From(r, k)), t),
                  Len(buf))

LEMMA WireRead ==
  ASSUME NEW a \in Authenticators, NEW c, IsCommitment(a, c),
         NEW t, IsTag(a, t), NEW k \in Nat, NEW buf \in Seq(Byte),
         HasAt(buf, 0, c), HasAt(buf, Len(c), tag_to_vec(a, t)),
         Len(c) + Len(tag_to_vec(a, t)) <= Len(buf)
  PROVE  WireReads(a, buf, k, c, t)
<1> DEFINE g == tag_to_vec(a, t)
           after == From(buf, Len(c))
           r == From(after, Len(g))
           w == CommitmentLen(a)
<1>1. c \in Seq(Byte) /\ Len(c) = w /\ c \in [1 .. w -> Byte] /\ w \in Nat
  BY CommitmentRead
<1>2. g \in Seq(Byte)
  BY TagBytes
<1> HIDE DEF g, w
<1>3. /\ Len(buf) \in Nat /\ Len(g) \in Nat /\ w + Len(g) <= Len(buf)
      /\ w \in 0 .. Len(buf)
  BY <1>1, <1>2 DEF g
<1>4. commitment_from_bytes(a, buf) = Ok(c, w)
  <2>1. Fixed(buf, w) = Ok(c, w)
    BY <1>1, <1>3, FixedRead
  <2> QED
    BY <2>1 DEF commitment_from_bytes, w, CommitmentLen
<1>5. /\ after \in Seq(Byte) /\ Len(after) = Len(buf) - w
      /\ \A i \in 1 .. (Len(buf) - w) : after[i] = buf[w + i]
  BY <1>1, <1>3, FromFacts
<1>6. HasAt(after, 0, g)
  <2>1. w + 0 = w /\ 0 \in Nat
    BY <1>1
  <2>2. HasAt(buf, w + 0, g)
    BY <1>1, <2>1 DEF g
  <2>3. HasAt(From(buf, w), 0, g)
    BY <1>2, <1>3, <2>1, <2>2, HasAtFrom
  <2> QED
    BY <1>1, <2>3
<1> HIDE DEF after
<1>7. Len(g) <= Len(after) /\ Len(g) \in 0 .. Len(after)
  BY <1>1, <1>3, <1>5
<1>8. tag_from_bytes(a, after) = Ok(t, Len(g))
  BY <1>5, <1>6, <1>7, TagRead DEF g
<1>9. /\ r \in Seq(Byte) /\ Len(r) = Len(after) - Len(g)
      /\ \A i \in 1 .. (Len(after) - Len(g)) : r[i] = after[Len(g) + i]
  BY <1>5, <1>7, FromFacts
<1> HIDE DEF r
<1>10. Len(r) = Len(buf) - (w + Len(g))
  BY <1>1, <1>3, <1>5, <1>9
<1>11. ASSUME NEW i \in 1 .. Len(r) PROVE r[i] = buf[(w + Len(g)) + i]
  <2>1. /\ i \in 1 .. (Len(after) - Len(g))
        /\ Len(g) + i \in 1 .. (Len(buf) - w)
        /\ w + (Len(g) + i) = (w + Len(g)) + i
    BY <1>1, <1>3, <1>5, <1>9, <1>10
  <2> QED
    BY <1>5, <1>9, <2>1
<1>12. piece_from_bytes(r, k) =
         IF Len(r) < k THEN Err
         ELSE Ok(CodedPiece(First(r, k), From(r, k)), Len(r))
  BY DEF piece_from_bytes
<1> DEFINE co == commitment_from_bytes(a, buf)
           tg == tag_from_bytes(a, From(buf, co.consumed))
           p == piece_from_bytes(From(From(buf, co.consumed), tg.consumed), k)
<1>13. decode_wire_piece(a, buf, k) =
         IF co.ok /\ tg.ok /\ p.ok
         THEN Ok(WirePiece(co.value, p.value, tg.value), Len(buf)) ELSE Err
  BY DEF decode_wire_piece
<1>14. co.ok /\ co.value = c /\ co.consumed = Len(c)
  BY <1>1, <1>4 DEF Ok
<1>15. tg.ok /\ tg.value = t /\ tg.consumed = Len(g)
  BY <1>8, <1>14 DEF Ok, after
<1>16. p = piece_from_bytes(r, k)
  BY <1>14, <1>15 DEF r, after
<1> HIDE DEF co, tg, p
<1>17. decode_wire_piece(a, buf, k) =
         IF Len(r) < k THEN Err
         ELSE Ok(WirePiece(c, CodedPiece(First(r, k), From(r, k)), t), Len(buf))
  <2>1. CASE Len(r) < k
    <3>1. p = Err
      BY <1>12, <1>16, <2>1
    <3>2. ~ p.ok
      BY <3>1 DEF Err
    <3> QED
      BY <1>13, <2>1, <3>2
  <2>2. CASE ~ (Len(r) < k)
    <3>1. p = Ok(CodedPiece(First(r, k), From(r, k)), Len(r))
      BY <1>12, <1>16, <2>2
    <3>2. p.ok /\ p.value = CodedPiece(First(r, k), From(r, k))
      BY <3>1 DEF Ok
    <3> QED
      BY <1>13, <1>14, <1>15, <2>2, <3>2
  <2> QED
    BY <2>1, <2>2
<1> QED
  BY <1>1, <1>9, <1>10, <1>11, <1>17 DEF WireReads, r, after, g

\* The parts of a frame on the wire.
Written(a, f) == encode(a, f).value

HeaderLen(f) == 1 + Len(f.topic) + 2 * U32_LEN

TagEnd(a, f) ==
  HeaderLen(f) + CommitmentLen(a) + Len(tag_to_vec(a, f.wire_piece.tag))

LEMMA FrameParts ==
  ASSUME NEW a \in Authenticators, NEW f, IsPubsubFrame(a, f)
  PROVE  LET wp == f.wire_piece
             K == to_be_bytes(f.k, U32_LEN)
             B == to_be_bytes(f.b, U32_LEN)
             g == tag_to_vec(a, wp.tag)
             W == << Len(f.topic) >> \o f.topic \o K \o B \o wp.commitment
                    \o g \o wp.piece.coefficients \o wp.piece.data
         IN /\ encode(a, f) = Ok(W, Len(W))
            /\ << Len(f.topic) >> \in Seq(Byte) /\ f.topic \in Seq(Byte)
            /\ K \in Seq(Byte) /\ Len(K) = U32_LEN /\ from_be_bytes(K) = f.k
            /\ B \in Seq(Byte) /\ Len(B) = U32_LEN /\ from_be_bytes(B) = f.b
            /\ wp.commitment \in Seq(Byte)
            /\ Len(wp.commitment) = CommitmentLen(a)
            /\ g \in Seq(Byte)
            /\ wp.piece.coefficients \in Seq(Byte)
            /\ Len(wp.piece.coefficients) = f.k
            /\ wp.piece.data \in Seq(Byte)
            /\ f.k \in Nat /\ f.b \in Nat
<1> DEFINE wp == f.wire_piece
<1>1. U32_LEN \in Nat /\ Limit(U32_LEN) \in Nat
  BY Widths, LimitType
<1>2. /\ f.k \in 0 .. (Limit(U32_LEN) - 1) /\ f.b \in 0 .. (Limit(U32_LEN) - 1)
      /\ IsTopic(f.topic) /\ f.topic \in Seq(Byte)
      /\ IsCommitment(a, wp.commitment) /\ IsTag(a, wp.tag)
      /\ wp.piece.coefficients \in [1 .. f.k -> Byte]
      /\ wp.piece.data \in Seq(Byte)
  BY DEF IsPubsubFrame
<1>3. f.k \in Nat /\ f.b \in Nat /\ f.k < Limit(U32_LEN) /\ f.b < Limit(U32_LEN)
  BY <1>1, <1>2
<1>4. ~ \E n \in {f.k, f.b} : n >= Limit(U32_LEN)
  BY <1>1, <1>3
<1>5. \A n \in {f.k, f.b} :
        LET s == to_be_bytes(n, U32_LEN)
        IN s \in Seq(Byte) /\ Len(s) = U32_LEN /\ from_be_bytes(s) = n
  <2> TAKE n \in {f.k, f.b}
  <2>1. n \in Nat /\ n \in 0 .. (Limit(U32_LEN) - 1)
    BY <1>2, <1>3
  <2>2. to_be_bytes(n, U32_LEN) \in [1 .. U32_LEN -> Byte]
    BY <1>1, <2>1, IntegerBytes
  <2>3. from_be_bytes(to_be_bytes(n, U32_LEN)) = n
    BY <1>1, <2>1, BeRoundTrip
  <2> QED
    BY <1>1, <2>2, <2>3, FunctionIsSeq
<1>6. << Len(f.topic) >> \in Seq(Byte)
  <2>1. Len(f.topic) \in Byte
    BY <1>2, BaseAssumption DEF IsTopic, MAX_TOPIC_LEN, Byte
  <2> QED
    BY <2>1
<1>7. wp.commitment \in Seq(Byte) /\ Len(wp.commitment) = CommitmentLen(a)
  BY <1>2, CommitmentRead
<1>8. tag_to_vec(a, wp.tag) \in Seq(Byte)
  BY <1>2, TagBytes
<1>9. wp.piece.coefficients \in Seq(Byte) /\ Len(wp.piece.coefficients) = f.k
  BY <1>2, <1>3, FunctionIsSeq
<1> DEFINE W == << Len(f.topic) >> \o f.topic \o to_be_bytes(f.k, U32_LEN)
                  \o to_be_bytes(f.b, U32_LEN) \o wp.commitment
                  \o tag_to_vec(a, wp.tag) \o wp.piece.coefficients
                  \o wp.piece.data
<1>10. encode(a, f) = Ok(W, Len(W))
  BY <1>4 DEF encode, commitment_to_vec
<1> QED
  BY <1>2, <1>3, <1>5, <1>6, <1>7, <1>8, <1>9, <1>10

\* Where each part of a frame is in a string that begins like the frame.
LEMMA PartsAt ==
  ASSUME NEW a \in Authenticators, NEW f, IsPubsubFrame(a, f),
         NEW buf \in Seq(Byte), HasAt(buf, 0, Written(a, f))
  PROVE  LET L == Len(f.topic)
             U == U32_LEN
             H == HeaderLen(f)
             E == TagEnd(a, f)
             wp == f.wire_piece
         IN /\ HasAt(buf, 0, << L >>) /\ HasAt(buf, 1, f.topic)
            /\ HasAt(buf, 1 + L, to_be_bytes(f.k, U))
            /\ HasAt(buf, 1 + L + U, to_be_bytes(f.b, U))
            /\ HasAt(buf, H, wp.commitment)
            /\ HasAt(buf, H + CommitmentLen(a), tag_to_vec(a, wp.tag))
            /\ HasAt(buf, E, wp.piece.coefficients)
            /\ HasAt(buf, E + f.k, wp.piece.data)
            /\ Written(a, f) \in Seq(Byte)
            /\ Len(Written(a, f)) = E + f.k + Len(wp.piece.data)
            /\ L \in Nat /\ H \in Nat /\ E \in Nat
<1> DEFINE L == Len(f.topic)
           U == U32_LEN
           wp == f.wire_piece
           K == to_be_bytes(f.k, U)
           B == to_be_bytes(f.b, U)
           C == wp.commitment
           g == tag_to_vec(a, wp.tag)
           co == wp.piece.coefficients
           da == wp.piece.data
           c == CommitmentLen(a)
           s1 == << L >> \o f.topic
           s2 == s1 \o K
           s3 == s2 \o B
           s4 == s3 \o C
           s5 == s4 \o g
           s6 == s5 \o co
           s7 == s6 \o da
<1>1. /\ encode(a, f) = Ok(s7, Len(s7))
      /\ << L >> \in Seq(Byte) /\ f.topic \in Seq(Byte)
      /\ K \in Seq(Byte) /\ Len(K) = U
      /\ B \in Seq(Byte) /\ Len(B) = U
      /\ C \in Seq(Byte) /\ Len(C) = c
      /\ g \in Seq(Byte)
      /\ co \in Seq(Byte) /\ Len(co) = f.k /\ da \in Seq(Byte) /\ f.k \in Nat
  BY FrameParts
<1>2. Written(a, f) = s7
  <2> HIDE DEF s7
  <2> QED
    BY <1>1 DEF Written, Ok
<1>3. U \in Nat /\ c \in Nat /\ L \in Nat /\ Len(g) \in Nat /\ Len(da) \in Nat
  <2>1. c \in Nat
    BY Widths DEF CommitmentLen
  <2> QED
    BY <1>1, <2>1, Widths
<1> DEFINE one == << L >>
<1>4. Len(one) = 1
  OBVIOUS
<1> HIDE DEF L, K, B, C, g, co, da, c, one
<1>5. s1 \in Seq(Byte) /\ Len(s1) = 1 + L
  <2>1. s1 = one \o f.topic /\ one \in Seq(Byte)
    BY <1>1 DEF one
  <2> QED
    BY <1>1, <1>4, <2>1, ConcatProperties DEF L
<1> HIDE DEF s1
<1>6. s2 \in Seq(Byte) /\ Len(s2) = 1 + L + U
  <2>1. s2 \in Seq(Byte) /\ Len(s2) = Len(s1) + Len(K)
    BY <1>1, <1>5, ConcatProperties
  <2> QED
    BY <1>1, <1>3, <1>5, <2>1
<1> HIDE DEF s2
<1>7. s3 \in Seq(Byte) /\ Len(s3) = 1 + L + 2 * U
  <2>1. s3 \in Seq(Byte) /\ Len(s3) = Len(s2) + Len(B)
    BY <1>1, <1>6, ConcatProperties
  <2> QED
    BY <1>1, <1>3, <1>6, <2>1
<1> HIDE DEF s3
<1>8. s4 \in Seq(Byte) /\ Len(s4) = 1 + L + 2 * U + c
  <2>1. s4 \in Seq(Byte) /\ Len(s4) = Len(s3) + Len(C)
    BY <1>1, <1>7, ConcatProperties
  <2> QED
    BY <1>1, <1>3, <1>7, <2>1
<1> HIDE DEF s4
<1>9. s5 \in Seq(Byte) /\ Len(s5) = 1 + L + 2 * U + c + Len(g)
  <2>1. s5 \in Seq(Byte) /\ Len(s5) = Len(s4) + Len(g)
    BY <1>1, <1>8, ConcatProperties
  <2> QED
    BY <1>1, <1>3, <1>8, <2>1
<1> HIDE DEF s5
<1>10. s6 \in Seq(Byte) /\ Len(s6) = 1 + L + 2 * U + c + Len(g) + f.k
  <2>1. s6 \in Seq(Byte) /\ Len(s6) = Len(s5) + Len(co)
    BY <1>1, <1>9, ConcatProperties
  <2> QED
    BY <1>1, <1>3, <1>9, <2>1
<1> HIDE DEF s6
<1>11. s7 \in Seq(Byte)
       /\ Len(s7) = 1 + L + 2 * U + c + Len(g) + f.k + Len(da)
  <2>1. s7 \in Seq(Byte) /\ Len(s7) = Len(s6) + Len(da)
    BY <1>1, <1>10, ConcatProperties
  <2> HIDE DEF s7
  <2> QED
    BY <1>1, <1>3, <1>10, <2>1
<1>12. HasAt(buf, 0, s6) /\ HasAt(buf, 0 + Len(s6), da)
  <2>1. 0 \in Nat /\ HasAt(buf, 0, s6 \o da)
    BY <1>2
  <2> QED
    BY <1>1, <1>10, <2>1, HasAtConcat
<1>13. HasAt(buf, 0, s5) /\ HasAt(buf, 0 + Len(s5), co)
  <2>1. 0 \in Nat /\ HasAt(buf, 0, s5 \o co)
    BY <1>12 DEF s6
  <2> QED
    BY <1>1, <1>9, <2>1, HasAtConcat
<1>14. HasAt(buf, 0, s4) /\ HasAt(buf, 0 + Len(s4), g)
  <2>1. 0 \in Nat /\ HasAt(buf, 0, s4 \o g)
    BY <1>13 DEF s5
  <2> QED
    BY <1>1, <1>8, <2>1, HasAtConcat
<1>15. HasAt(buf, 0, s3) /\ HasAt(buf, 0 + Len(s3), C)
  <2>1. 0 \in Nat /\ HasAt(buf, 0, s3 \o C)
    BY <1>14 DEF s4
  <2> QED
    BY <1>1, <1>7, <2>1, HasAtConcat
<1>16. HasAt(buf, 0, s2) /\ HasAt(buf, 0 + Len(s2), B)
  <2>1. 0 \in Nat /\ HasAt(buf, 0, s2 \o B)
    BY <1>15 DEF s3
  <2> QED
    BY <1>1, <1>6, <2>1, HasAtConcat
<1>17. HasAt(buf, 0, s1) /\ HasAt(buf, 0 + Len(s1), K)
  <2>1. 0 \in Nat /\ HasAt(buf, 0, s1 \o K)
    BY <1>16 DEF s2
  <2> QED
    BY <1>1, <1>5, <2>1, HasAtConcat
<1>18. HasAt(buf, 0, one) /\ HasAt(buf, 0 + Len(one), f.topic)
  <2>1. 0 \in Nat /\ HasAt(buf, 0, one \o f.topic) /\ one \in Seq(Byte)
    BY <1>1, <1>17 DEF s1, one
  <2> QED
    BY <1>1, <2>1, HasAtConcat
<1>19. /\ HeaderLen(f) = 1 + L + 2 * U
       /\ TagEnd(a, f) = 1 + L + 2 * U + c + Len(g)
  BY DEF HeaderLen, TagEnd, L, g, c
<1>20. /\ 0 + Len(s6) = TagEnd(a, f) + f.k /\ 0 + Len(s5) = TagEnd(a, f)
       /\ 0 + Len(s4) = HeaderLen(f) + c /\ 0 + Len(s3) = HeaderLen(f)
       /\ 0 + Len(s2) = 1 + L + U /\ 0 + Len(s1) = 1 + L
       /\ 0 + Len(one) = 1
       /\ HeaderLen(f) \in Nat /\ TagEnd(a, f) \in Nat
       /\ Len(s7) = TagEnd(a, f) + f.k + Len(da)
  BY <1>1, <1>3, <1>4, <1>5, <1>6, <1>7, <1>8, <1>9, <1>10, <1>11, <1>19
<1>21. /\ HasAt(buf, 0, one) /\ HasAt(buf, 1, f.topic)
       /\ HasAt(buf, 1 + L, K) /\ HasAt(buf, 1 + L + U, B)
       /\ HasAt(buf, HeaderLen(f), C) /\ HasAt(buf, HeaderLen(f) + c, g)
       /\ HasAt(buf, TagEnd(a, f), co) /\ HasAt(buf, TagEnd(a, f) + f.k, da)
  BY <1>12, <1>13, <1>14, <1>15, <1>16, <1>17, <1>18, <1>20
<1>22. Written(a, f) \in Seq(Byte)
       /\ Len(Written(a, f)) = TagEnd(a, f) + f.k + Len(da)
  BY <1>2, <1>11, <1>20
<1> HIDE DEF s7
<1> QED
  BY <1>3, <1>20, <1>21, <1>22 DEF L, K, B, C, g, co, da, c, one

\* Up to the tag, a string that begins like a frame is read like the frame.
LEMMA FrameRead ==
  ASSUME NEW a \in Authenticators, NEW f, IsPubsubFrame(a, f),
         NEW buf \in Seq(Byte), HasAt(buf, 0, Written(a, f)),
         TagEnd(a, f) <= Len(buf)
  PROVE  \E r \in Seq(Byte) :
           /\ Len(r) = Len(buf) - TagEnd(a, f)
           /\ \A i \in 1 .. Len(r) : r[i] = buf[TagEnd(a, f) + i]
           /\ decode(a, buf) =
                IF Len(r) < f.k THEN Err
                ELSE Ok(PubsubFrame(f.topic, f.k, f.b,
                          WirePiece(f.wire_piece.commitment,
                                    CodedPiece(First(r, f.k), From(r, f.k)),
                                    f.wire_piece.tag)), Len(buf))
<1> DEFINE L == Len(f.topic)
           U == U32_LEN
           H == HeaderLen(f)
           E == TagEnd(a, f)
           wp == f.wire_piece
           C == wp.commitment
           g == tag_to_vec(a, wp.tag)
           c == CommitmentLen(a)
           K == to_be_bytes(f.k, U)
           B == to_be_bytes(f.b, U)
<1>1. /\ HasAt(buf, 0, << L >>) /\ HasAt(buf, 1, f.topic)
      /\ HasAt(buf, 1 + L, K) /\ HasAt(buf, 1 + L + U, B)
      /\ HasAt(buf, H, C) /\ HasAt(buf, H + c, g)
      /\ L \in Nat /\ H \in Nat /\ E \in Nat
  BY PartsAt
<1>2. /\ f.topic \in Seq(Byte)
      /\ K \in Seq(Byte) /\ Len(K) = U /\ from_be_bytes(K) = f.k
      /\ B \in Seq(Byte) /\ Len(B) = U /\ from_be_bytes(B) = f.b
      /\ C \in Seq(Byte) /\ Len(C) = c /\ g \in Seq(Byte) /\ f.k \in Nat
  BY FrameParts
<1>3. /\ IsTopic(f.topic) /\ IsCommitment(a, C) /\ IsTag(a, wp.tag)
  BY DEF IsPubsubFrame
<1>4. /\ U \in Nat /\ c \in Nat /\ Len(g) \in Nat /\ Len(buf) \in Nat
      /\ H = 1 + L + 2 * U /\ E = H + c + Len(g) /\ E <= Len(buf)
  <2>1. c \in Nat
    BY Widths DEF CommitmentLen
  <2>2. H = 1 + L + 2 * U /\ E = H + c + Len(g)
    BY DEF HeaderLen, TagEnd
  <2>3. U \in Nat /\ Len(g) \in Nat /\ Len(buf) \in Nat
    BY <1>2, Widths
  <2> HIDE DEF L, H, E, C, g, c, K, B
  <2> QED
    BY <2>1, <2>2, <2>3 DEF E
<1> HIDE DEF L, U, H, E, C, g, c, K, B
<1>5. /\ H <= Len(buf) /\ 1 + L + U <= Len(buf) /\ 1 + L <= Len(buf)
      /\ 1 <= Len(buf) /\ 1 + L + U + U <= Len(buf)
  <2> USE <1>1, <1>4
  <2>1. H <= E
    OBVIOUS
  <2>2. H <= Len(buf)
    BY <2>1
  <2> QED
    BY <2>2
<1>6. buf # << >> /\ Head(buf) = L
  <2>1. << L >>[1] = L /\ Len(<< L >>) = 1 /\ 1 \in 1 .. 1
    OBVIOUS
  <2>2. buf[0 + 1] = L
    BY <1>1, <1>4, <1>5, <2>1 DEF HasAt
  <2>3. buf # << >>
    BY <1>5
  <2> QED
    BY <2>2, <2>3
<1>7. SubSeq(buf, 2, 1 + L) = f.topic
  <2>1. SubSeq(buf, 1 + 1, 1 + Len(f.topic)) = f.topic
    <3>1. 1 \in Nat /\ 1 + Len(f.topic) <= Len(buf)
      BY <1>5 DEF L
    <3> QED
      BY <1>1, <1>2, <3>1, SliceHasAt
  <2>2. 1 + 1 = 2
    OBVIOUS
  <2> QED
    BY <2>1, <2>2 DEF L
<1>8. ASSUME NEW m \in 0 .. Len(buf), NEW s \in Seq(Byte), Len(s) = U,
             HasAt(buf, m, s), m + U <= Len(buf)
      PROVE  First(From(buf, m), U) = s
  <2>1. m + 0 = m /\ 0 \in Nat /\ m \in Nat
    OBVIOUS
  <2>2. HasAt(From(buf, m), 0, s)
    BY <1>8, <2>1, HasAtFrom
  <2>3. From(buf, m) \in Seq(Byte) /\ Len(From(buf, m)) = Len(buf) - m
    BY FromFacts
  <2>4. Len(s) <= Len(From(buf, m))
    BY <1>4, <1>8, <2>1, <2>3
  <2> QED
    BY <1>8, <2>2, <2>3, <2>4, HasAtFirst
<1>9. from_be_bytes(First(From(buf, 1 + L), U)) = f.k
  <2>1. 1 + L \in 0 .. Len(buf)
    BY <1>1, <1>4, <1>5
  <2>2. First(From(buf, 1 + L), U) = K
    BY <1>1, <1>2, <1>5, <1>8, <2>1
  <2> QED
    BY <1>2, <2>2
<1>10. from_be_bytes(First(From(buf, 1 + L + U), U)) = f.b
  <2>1. 1 + L + U \in 0 .. Len(buf)
    BY <1>1, <1>4, <1>5
  <2>2. First(From(buf, 1 + L + U), U) = B
    BY <1>1, <1>2, <1>5, <1>8, <2>1
  <2> QED
    BY <1>2, <2>2
<1> DEFINE rest == From(buf, H)
           r == From(From(rest, Len(C)), Len(g))
<1>11. /\ rest \in Seq(Byte) /\ Len(rest) = Len(buf) - H
       /\ \A i \in 1 .. (Len(buf) - H) : rest[i] = buf[H + i]
  <2>1. H \in 0 .. Len(buf)
    BY <1>1, <1>4, <1>5
  <2> QED
    BY <2>1, FromFacts
<1>12. HasAt(rest, 0, C) /\ HasAt(rest, Len(C), g)
  <2>1. H \in 0 .. Len(buf) /\ 0 \in Nat /\ Len(C) \in Nat /\ H + 0 = H
    BY <1>1, <1>2, <1>4, <1>5
  <2>2. HasAt(buf, H + 0, C) /\ HasAt(buf, H + Len(C), g)
    BY <1>1, <1>2, <2>1
  <2>3. HasAt(From(buf, H), 0, C)
    BY <1>2, <2>1, <2>2, HasAtFrom
  <2>4. HasAt(From(buf, H), Len(C), g)
    BY <1>2, <2>1, <2>2, HasAtFrom
  <2> QED
    BY <2>3, <2>4
<1> HIDE DEF rest
<1>13. Len(C) + Len(g) <= Len(rest)
  BY <1>1, <1>2, <1>4, <1>11
<1>14. /\ r \in Seq(Byte) /\ Len(r) = Len(rest) - (Len(C) + Len(g))
       /\ \A i \in 1 .. Len(r) : r[i] = rest[(Len(C) + Len(g)) + i]
       /\ decode_wire_piece(a, rest, f.k) =
            IF Len(r) < f.k THEN Err
            ELSE Ok(WirePiece(C, CodedPiece(First(r, f.k), From(r, f.k)),
                              wp.tag), Len(rest))
  <2>1. /\ HasAt(rest, Len(C), tag_to_vec(a, wp.tag))
        /\ Len(C) + Len(tag_to_vec(a, wp.tag)) <= Len(rest)
    BY <1>12, <1>13 DEF g
  <2> HIDE DEF r, wp
  <2>2. g = tag_to_vec(a, wp.tag) /\ r = From(From(rest, Len(C)), Len(g))
    BY DEF g, r
  <2>3. IsCommitment(a, C) /\ IsTag(a, wp.tag) /\ f.k \in Nat
        /\ rest \in Seq(Byte) /\ HasAt(rest, 0, C)
    BY <1>2, <1>3, <1>11, <1>12
  <2>4. WireReads(a, rest, f.k, C, wp.tag)
    BY <2>1, <2>3, WireRead
  <2> QED
    BY <2>2, <2>4 DEF WireReads
<1> HIDE DEF r
<1>15. Len(r) = Len(buf) - E
  <2>1. Len(r) = Len(rest) - (Len(C) + Len(g))
    BY <1>14
  <2>2. Len(rest) = Len(buf) - H /\ Len(C) = c
    BY <1>2, <1>11
  <2>3. E = H + c + Len(g) /\ H \in Nat /\ c \in Nat /\ Len(g) \in Nat
        /\ Len(buf) \in Nat
    BY <1>1, <1>4
  <2> QED
    BY <2>1, <2>2, <2>3
<1>16. ASSUME NEW i \in 1 .. Len(r) PROVE r[i] = buf[E + i]
  <2>1. /\ (Len(C) + Len(g)) + i \in 1 .. (Len(buf) - H)
        /\ H + ((Len(C) + Len(g)) + i) = E + i
    <3>1. i \in Nat /\ 1 <= i /\ i <= Len(buf) - E
      BY <1>4, <1>15
    <3>2. E = H + c + Len(g) /\ H \in Nat /\ c \in Nat /\ Len(g) \in Nat
          /\ Len(buf) \in Nat /\ Len(C) = c
      BY <1>1, <1>2, <1>4
    <3>3. (c + Len(g)) + i \in Nat /\ H + ((c + Len(g)) + i) = E + i
      BY <3>1, <3>2
    <3>4. 1 <= (c + Len(g)) + i /\ (c + Len(g)) + i <= Len(buf) - H
      BY <3>1, <3>2
    <3>5. Len(buf) - H \in Int
      BY <3>2
    <3> QED
      BY <3>2, <3>3, <3>4, <3>5
  <2> QED
    BY <1>11, <1>14, <2>1
<1> DEFINE topic_len == Head(buf)
           k == from_be_bytes(First(From(buf, 1 + topic_len), U32_LEN))
           b == from_be_bytes(First(From(buf, 1 + topic_len + U32_LEN), U32_LEN))
           w == decode_wire_piece(a, From(buf, 1 + topic_len + 2 * U32_LEN), k)
<1>17. decode(a, buf) =
         IF buf = << >> \/ Len(buf) < 1 + topic_len + 2 * U32_LEN THEN Err
         ELSE IF ~ IsTopic(SubSeq(buf, 2, 1 + topic_len)) \/ ~ w.ok THEN Err
         ELSE Ok(PubsubFrame(SubSeq(buf, 2, 1 + topic_len), k, b, w.value),
                 Len(buf))
  BY DEF decode
<1>18. /\ topic_len = L /\ k = f.k /\ b = f.b
       /\ w = decode_wire_piece(a, rest, f.k)
       /\ ~ (Len(buf) < 1 + topic_len + 2 * U32_LEN)
  <2>1. topic_len = L
    BY <1>6
  <2>2. k = f.k
    BY <1>9, <2>1 DEF U
  <2>3. b = f.b
    BY <1>10, <2>1 DEF U
  <2>4. 1 + topic_len + 2 * U32_LEN = H
    BY <1>4, <2>1 DEF U
  <2>5. w = decode_wire_piece(a, rest, f.k)
    BY <2>2, <2>4 DEF rest
  <2>6. ~ (Len(buf) < H)
    BY <1>1, <1>4, <1>5
  <2> QED
    BY <2>1, <2>2, <2>3, <2>4, <2>5, <2>6
<1> HIDE DEF topic_len, k, b, w
<1>19. decode(a, buf) =
         IF ~ w.ok THEN Err
         ELSE Ok(PubsubFrame(f.topic, f.k, f.b, w.value), Len(buf))
  BY <1>3, <1>6, <1>7, <1>17, <1>18
<1>20. decode(a, buf) =
         IF Len(r) < f.k THEN Err
         ELSE Ok(PubsubFrame(f.topic, f.k, f.b,
                   WirePiece(C, CodedPiece(First(r, f.k), From(r, f.k)),
                             wp.tag)), Len(buf))
  <2>1. CASE Len(r) < f.k
    <3>1. ~ w.ok
      BY <1>14, <1>18, <2>1 DEF Err
    <3> QED
      BY <1>19, <2>1, <3>1
  <2>2. CASE ~ (Len(r) < f.k)
    <3>1. w.ok /\ w.value = WirePiece(C, CodedPiece(First(r, f.k), From(r, f.k)),
                                      wp.tag)
      BY <1>14, <1>18, <2>2 DEF Ok
    <3> QED
      BY <1>19, <2>2, <3>1
  <2> QED
    BY <2>1, <2>2
<1> QED
  BY <1>14, <1>15, <1>16, <1>20 DEF E, C

\* A frame is read as it was written, whatever the widths of its parts:
\* encode and decode (codec.rs) agree under each authenticator.
THEOREM PubsubFramesSurvive ==
  ASSUME NEW a \in Authenticators, NEW f, IsPubsubFrame(a, f)
  PROVE  decode(a, encode(a, f).value) = Ok(f, Len(encode(a, f).value))
<1> DEFINE buf == Written(a, f)
           E == TagEnd(a, f)
           wp == f.wire_piece
           co == wp.piece.coefficients
           da == wp.piece.data
<1>1. /\ co \in Seq(Byte) /\ Len(co) = f.k /\ da \in Seq(Byte) /\ f.k \in Nat
  BY FrameParts
<1>2. buf \in Seq(Byte)
  <2>1. HasAt(<< >>, 0, buf) /\ << >> \in Seq(Byte)
    <3>1. Len(buf) \in Nat
      BY FrameParts DEF Written, Ok
    <3> QED
      BY <3>1 DEF HasAt
  <2> QED
    BY <2>1, PartsAt
<1>3. HasAt(buf, 0, buf)
  <2> HIDE DEF buf
  <2> QED
    BY <1>2 DEF HasAt
<1>4. /\ HasAt(buf, E, co) /\ HasAt(buf, E + f.k, da)
      /\ Len(buf) = E + f.k + Len(da) /\ E \in Nat
  BY <1>2, <1>3, PartsAt
<1> HIDE DEF buf, E, co, da
<1>5. E <= Len(buf) /\ Len(da) \in Nat /\ Len(buf) - E = f.k + Len(da)
  BY <1>1, <1>4
<1>6. PICK r \in Seq(Byte) :
        /\ Len(r) = Len(buf) - E
        /\ \A i \in 1 .. Len(r) : r[i] = buf[E + i]
        /\ decode(a, buf) =
             IF Len(r) < f.k THEN Err
             ELSE Ok(PubsubFrame(f.topic, f.k, f.b,
                       WirePiece(wp.commitment,
                                 CodedPiece(First(r, f.k), From(r, f.k)),
                                 wp.tag)), Len(buf))
  <2>1. HasAt(buf, 0, Written(a, f)) /\ TagEnd(a, f) <= Len(buf)
    BY <1>3, <1>5 DEF buf, E
  <2> QED
    BY <1>2, <2>1, FrameRead DEF E
<1>7. /\ Len(r) = f.k + Len(da) /\ ~ (Len(r) < f.k) /\ f.k \in 0 .. Len(r)
      /\ Len(r) - f.k = Len(da)
  BY <1>1, <1>5, <1>6
<1>8. First(r, f.k) = co
  <2>1. /\ First(r, f.k) \in Seq(Byte) /\ Len(First(r, f.k)) = f.k
        /\ \A i \in 1 .. f.k : First(r, f.k)[i] = r[i]
    BY <1>7, FirstFacts
  <2>2. ASSUME NEW i \in 1 .. f.k PROVE First(r, f.k)[i] = co[i]
    <3>1. i \in 1 .. Len(r) /\ E + i <= Len(buf) /\ i \in 1 .. Len(co)
      <4>1. i \in Nat /\ 1 <= i /\ i <= f.k
        BY <1>1
      <4>2. Len(r) = f.k + Len(da) /\ Len(buf) = (E + f.k) + Len(da)
        BY <1>4, <1>7
      <4>3. Len(co) = f.k /\ f.k \in Nat /\ E \in Nat /\ Len(da) \in Nat
        BY <1>1, <1>4, <1>5
      <4> QED
        BY <4>1, <4>2, <4>3
    <3>2. buf[E + i] = co[i]
      BY <1>4, <3>1 DEF HasAt
    <3> QED
      BY <1>6, <2>1, <3>1, <3>2
  <2> QED
    BY <1>1, <2>1, <2>2, SeqEqual
<1>9. From(r, f.k) = da
  <2>1. /\ From(r, f.k) \in Seq(Byte) /\ Len(From(r, f.k)) = Len(da)
        /\ \A i \in 1 .. Len(da) : From(r, f.k)[i] = r[f.k + i]
    BY <1>7, FromFacts
  <2>2. ASSUME NEW i \in 1 .. Len(da) PROVE From(r, f.k)[i] = da[i]
    <3>1. /\ f.k + i \in 1 .. Len(r) /\ (E + f.k) + i <= Len(buf)
          /\ E + (f.k + i) = (E + f.k) + i
      <4>1. i \in Nat /\ 1 <= i /\ i <= Len(da)
        BY <1>5
      <4>2. Len(r) = f.k + Len(da) /\ Len(buf) = (E + f.k) + Len(da)
        BY <1>4, <1>7
      <4> QED
        BY <1>1, <1>4, <1>5, <4>1, <4>2
    <3>2. buf[(E + f.k) + i] = da[i]
      BY <1>4, <3>1 DEF HasAt
    <3> QED
      BY <1>6, <2>1, <3>1, <3>2
  <2> QED
    BY <1>1, <2>1, <2>2, SeqEqual
<1>10. f = PubsubFrame(f.topic, f.k, f.b,
                       WirePiece(wp.commitment, CodedPiece(co, da), wp.tag))
  BY DEF IsPubsubFrame, co, da
<1>11. decode(a, buf) = Ok(f, Len(buf))
  BY <1>6, <1>7, <1>8, <1>9, <1>10
<1> QED
  BY <1>11 DEF buf, Written

\* A frame that ends before its coefficients do is not read at all.
LEMMA CutFrame ==
  ASSUME NEW a \in Authenticators, NEW f, IsPubsubFrame(a, f), f.k # 0
  PROVE  LET buf == Written(a, f)
             n == Len(buf) - (Len(f.wire_piece.piece.data) + 1)
         IN decode(a, First(buf, n)) = Err /\ First(buf, n) \in Seq(Byte)
<1> DEFINE buf == Written(a, f)
           da == f.wire_piece.piece.data
           n == Len(buf) - (Len(da) + 1)
           E == TagEnd(a, f)
           cut == First(buf, n)
<1>1. f.k \in Nat /\ da \in Seq(Byte)
  BY FrameParts
<1>2. buf \in Seq(Byte) /\ Len(buf) = E + f.k + Len(da) /\ E \in Nat
  <2>1. HasAt(<< >>, 0, buf) /\ << >> \in Seq(Byte)
    <3>1. Len(buf) \in Nat
      BY FrameParts DEF Written, Ok
    <3> QED
      BY <3>1 DEF HasAt
  <2> QED
    BY <2>1, PartsAt
<1> HIDE DEF buf, da, E
<1>3. n \in 0 .. Len(buf) /\ E <= n /\ n - E < f.k /\ Len(buf) \in Nat
  BY <1>1, <1>2
<1> HIDE DEF n
<1>4. /\ cut \in Seq(Byte) /\ Len(cut) = n
      /\ \A i \in 1 .. n : cut[i] = buf[i]
  BY <1>2, <1>3, FirstFacts
<1> HIDE DEF cut
<1>5. HasAt(cut, 0, buf)
  <2>1. ASSUME NEW i \in 1 .. Len(buf), 0 + i <= Len(cut)
        PROVE  cut[0 + i] = buf[i]
    BY <1>2, <1>3, <1>4, <2>1
  <2> QED
    BY <2>1 DEF HasAt
<1>6. \E r \in Seq(Byte) :
        /\ Len(r) = Len(cut) - E
        /\ Len(r) < f.k => decode(a, cut) = Err
  <2>1. HasAt(cut, 0, Written(a, f)) /\ TagEnd(a, f) <= Len(cut)
    BY <1>3, <1>4, <1>5 DEF buf, E
  <2> QED
    BY <1>4, <2>1, FrameRead DEF E
<1>7. decode(a, cut) = Err
  BY <1>3, <1>4, <1>6
<1> QED
  BY <1>4, <1>7 DEF cut, n, buf, da

-----------------------------------------------------------------------------
(* Strings are read as they were written                                   *)

\* The bytes of what is left of a string are bytes of the string.
LEMMA FromParts ==
  ASSUME NEW S, NEW s \in Seq(S), NEW m \in Nat, NEW n \in Nat, m + n <= Len(s)
  PROVE  /\ First(From(s, m), n) = SubSeq(s, m + 1, m + n)
         /\ From(From(s, m), n) = From(s, m + n)
         /\ From(s, m) \in Seq(S) /\ Len(From(s, m)) = Len(s) - m
<1> DEFINE r == From(s, m)
<1>1. m \in 0 .. Len(s) /\ m + n \in 0 .. Len(s) /\ Len(s) \in Nat
  OBVIOUS
<1>2. /\ r \in Seq(S) /\ Len(r) = Len(s) - m
      /\ \A i \in 1 .. (Len(s) - m) : r[i] = s[m + i]
  BY <1>1, FromFacts
<1> HIDE DEF r
<1>3. n \in 0 .. Len(r)
  BY <1>1, <1>2
<1>4. First(r, n) = SubSeq(s, m + 1, m + n)
  <2> DEFINE t == SubSeq(s, m + 1, m + n)
  <2>1. t \in Seq(S) /\ Len(t) = n /\ \A i \in 1 .. n : t[i] = s[m + i]
    BY Slice
  <2>2. /\ First(r, n) \in Seq(S) /\ Len(First(r, n)) = n
        /\ \A i \in 1 .. n : First(r, n)[i] = r[i]
    BY <1>2, <1>3, FirstFacts
  <2>3. ASSUME NEW i \in 1 .. n PROVE First(r, n)[i] = t[i]
    <3>1. i \in 1 .. (Len(s) - m)
      BY <1>1
    <3> QED
      BY <1>2, <2>1, <2>2, <3>1
  <2> HIDE DEF t
  <2>4. First(r, n) = t
    BY <2>1, <2>2, <2>3, SeqEqual
  <2> QED
    BY <2>4 DEF t
<1>5. From(r, n) = From(s, m + n)
  <2> DEFINE t == From(s, m + n)
  <2>1. /\ t \in Seq(S) /\ Len(t) = Len(s) - (m + n)
        /\ \A i \in 1 .. (Len(s) - (m + n)) : t[i] = s[(m + n) + i]
    BY <1>1, FromFacts
  <2>2. /\ From(r, n) \in Seq(S) /\ Len(From(r, n)) = Len(r) - n
        /\ \A i \in 1 .. (Len(r) - n) : From(r, n)[i] = r[n + i]
    BY <1>2, <1>3, FromFacts
  <2>3. Len(r) - n = Len(s) - (m + n)
    BY <1>1, <1>2
  <2>4. ASSUME NEW i \in 1 .. (Len(r) - n) PROVE From(r, n)[i] = t[i]
    <3>1. n + i \in 1 .. (Len(s) - m) /\ m + (n + i) = (m + n) + i
      BY <1>1, <1>2
    <3> QED
      BY <1>2, <2>1, <2>2, <2>3, <3>1
  <2> HIDE DEF t
  <2>5. From(r, n) = t
    BY <2>1, <2>2, <2>3, <2>4, SeqEqual
  <2> QED
    BY <2>5 DEF t
<1> QED
  BY <1>2, <1>4, <1>5 DEF r

\* The parts of what decode_wire_piece accepts are the parts of the string.
LEMMA WireWritten ==
  ASSUME NEW a \in Authenticators, NEW buf \in Seq(Byte), NEW k \in Nat,
         decode_wire_piece(a, buf, k).ok
  PROVE  \E c, n \in Nat : \E t :
           LET r == From(From(buf, c), n)
           IN /\ c + n + k <= Len(buf)
              /\ First(buf, c) \in Seq(Byte) /\ IsCommitment(a, First(buf, c))
              /\ IsTag(a, t) /\ tag_to_vec(a, t) = First(From(buf, c), n)
              /\ decode_wire_piece(a, buf, k).value =
                   WirePiece(First(buf, c),
                             CodedPiece(First(r, k), From(r, k)), t)
<1> DEFINE C == commitment_from_bytes(a, buf)
           after == From(buf, C.consumed)
           T == tag_from_bytes(a, after)
           r == From(after, T.consumed)
           P == piece_from_bytes(r, k)
           c == CommitmentLen(a)
<1>1. /\ C.ok /\ T.ok /\ P.ok
      /\ decode_wire_piece(a, buf, k).value =
           WirePiece(C.value, P.value, T.value)
  BY DEF decode_wire_piece, Err, Ok
<1>2. C = Fixed(buf, c) /\ c \in Nat
  BY Widths DEF commitment_from_bytes, CommitmentLen
<1> HIDE DEF c
<1>3. /\ C.consumed = c /\ c \in 0 .. Len(buf)
      /\ C.value \in [1 .. c -> Byte] /\ C.value = First(buf, c)
  BY <1>1, <1>2, FixedWritten
<1>4. IsCommitment(a, C.value)
  BY <1>3 DEF IsCommitment, c, CommitmentLen
<1>5. after = From(buf, c) /\ after \in Seq(Byte) /\ Len(after) = Len(buf) - c
  BY <1>3, FromFacts
<1> HIDE DEF C, after
<1>6. /\ IsTag(a, T.value) /\ T.consumed \in 0 .. Len(after)
      /\ tag_to_vec(a, T.value) = First(after, T.consumed)
  BY <1>1, <1>5, TagWritten
<1> HIDE DEF T
<1>7. r \in Seq(Byte) /\ Len(r) = Len(after) - T.consumed
  BY <1>5, <1>6, FromFacts
<1> HIDE DEF r
<1>8. k <= Len(r) /\ P.value = CodedPiece(First(r, k), From(r, k))
  <2>1. ~ (Len(r) < k) /\ P.value = CodedPiece(First(r, k), From(r, k))
    BY <1>1 DEF piece_from_bytes, Err, Ok
  <2>2. Len(r) \in Nat
    BY <1>7
  <2> QED
    BY <2>1, <2>2
<1> DEFINE n == T.consumed
<1>9. n \in Nat /\ c + n + k <= Len(buf)
  <2>1. Len(buf) \in Nat /\ Len(after) \in Nat /\ n \in Nat /\ c \in Nat
    BY <1>2, <1>5, <1>6
  <2> QED
    BY <1>5, <1>7, <1>8, <2>1
<1>10. r = From(From(buf, c), n)
  BY <1>5 DEF r
<1>11. First(buf, c) \in Seq(Byte)
  BY <1>3, FirstFacts
<1>12. /\ decode_wire_piece(a, buf, k).value =
            WirePiece(First(buf, c),
                      CodedPiece(First(From(From(buf, c), n), k),
                                 From(From(From(buf, c), n), k)), T.value)
       /\ IsCommitment(a, First(buf, c))
       /\ tag_to_vec(a, T.value) = First(From(buf, c), n)
  BY <1>1, <1>3, <1>4, <1>5, <1>6, <1>8, <1>10
<1> QED
  BY <1>2, <1>6, <1>9, <1>11, <1>12

\* Every string that decode (codec.rs) accepts is what encode writes for the
\* frame it was read as: no field borrows bytes from the next one, and no
\* frame has two forms.
THEOREM PubsubStringsReadAsWritten ==
  ASSUME NEW a \in Authenticators, NEW s \in Seq(Byte), decode(a, s).ok
  PROVE  encode(a, decode(a, s).value) = Ok(s, Len(s))
<1> DEFINE L == Head(s)
           U == U32_LEN
           p1 == 1 + L
           p2 == 1 + L + U
           H == 1 + L + 2 * U
           topic == SubSeq(s, 1 + 1, p1)
           kb == First(From(s, p1), U)
           bb == First(From(s, p2), U)
           k == from_be_bytes(kb)
           b == from_be_bytes(bb)
           rest == From(s, H)
           w == decode_wire_piece(a, rest, k)
           Ends(x, y, z) == z = x + y /\ x \in Nat /\ y \in Nat /\ z <= Len(s)
<1>1. /\ s # << >> /\ ~ (Len(s) < H) /\ w.ok
      /\ decode(a, s).value = PubsubFrame(topic, k, b, w.value)
  <2>1. 1 + 1 = 2
    OBVIOUS
  <2> QED
    BY <2>1 DEF decode, Err, Ok
<1>2. L \in Byte /\ L = s[1] /\ L \in Nat /\ U \in Nat /\ Len(s) \in Nat
  <2>1. L \in Byte /\ L = s[1]
    BY <1>1
  <2> QED
    BY <2>1, Widths, BaseAssumption DEF Byte
<1> HIDE DEF L, U
<1>3. /\ H \in Nat /\ H <= Len(s) /\ p1 <= Len(s) /\ p2 <= Len(s)
      /\ p1 \in Nat /\ p2 \in Nat /\ 1 <= Len(s)
      /\ Ends(1, L, p1) /\ Ends(p1, U, p2) /\ Ends(p2, U, H)
  <2> DEFINE len == Len(s)
  <2>1. len \in Nat /\ ~ (len < H)
    BY <1>1, <1>2
  <2> HIDE DEF len
  <2>2. /\ H \in Nat /\ H <= len /\ p1 <= len /\ p2 <= len
        /\ p1 \in Nat /\ p2 \in Nat /\ 1 <= len
        /\ p1 = 1 + L /\ p2 = p1 + U /\ H = p2 + U
    <3>1. L \in Nat /\ U \in Nat
      BY <1>2
    <3>2. p1 \in Nat /\ p2 = p1 + U /\ H = p2 + U
      BY <3>1
    <3>3. p2 \in Nat /\ H \in Nat /\ H <= len
      BY <2>1, <3>1, <3>2
    <3> QED
      BY <2>1, <3>1, <3>2, <3>3
  <2> QED
    BY <1>2, <2>2 DEF len
<1> HIDE DEF p1, p2, H
<1>4. ASSUME NEW x, NEW y, NEW z, Ends(x, y, z)
      PROVE  /\ First(From(s, x), y) = SubSeq(s, x + 1, z)
             /\ From(From(s, x), y) = From(s, z)
             /\ SubSeq(s, x + 1, z) \in [1 .. y -> Byte]
             /\ SubSeq(s, 1, x) \o SubSeq(s, x + 1, z) = SubSeq(s, 1, z)
  <2>1. z = x + y /\ x \in Nat /\ y \in Nat /\ x + y <= Len(s)
    BY <1>4
  <2>2. /\ First(From(s, x), y) = SubSeq(s, x + 1, x + y)
        /\ From(From(s, x), y) = From(s, x + y)
    BY <2>1, FromParts
  <2>3. SubSeq(s, x + 1, x + y) \in [1 .. y -> Byte]
    BY <2>1, Slice
  <2>4. SubSeq(s, 0 + 1, 0 + x) \o SubSeq(s, (0 + x) + 1, (0 + x) + y)
          = SubSeq(s, 0 + 1, (0 + x) + y)
    <3>1. 0 \in Nat /\ (0 + x) + y <= Len(s)
      BY <2>1
    <3> QED
      BY <2>1, <3>1, SliceSplit
  <2>5. 0 + x = x /\ 0 + 1 = 1
    BY <2>1
  <2> QED
    BY <2>1, <2>2, <2>3, <2>4, <2>5
<1> HIDE DEF Ends
<1>6. topic \in [1 .. L -> Byte] /\ topic \in Seq(Byte) /\ Len(topic) = L
  <2>1. topic \in [1 .. L -> Byte]
    BY <1>2, <1>3, <1>4
  <2> QED
    BY <1>2, <2>1, FunctionIsSeq
<1>7. /\ kb = SubSeq(s, p1 + 1, p2) /\ kb \in [1 .. U -> Byte]
      /\ bb = SubSeq(s, p2 + 1, H) /\ bb \in [1 .. U -> Byte]
  <2>1. Ends(p1, U, p2) /\ Ends(p2, U, H)
    BY <1>3
  <2>2. /\ First(From(s, p1), U) = SubSeq(s, p1 + 1, p2)
        /\ SubSeq(s, p1 + 1, p2) \in [1 .. U -> Byte]
    BY <1>4, <2>1
  <2>3. /\ First(From(s, p2), U) = SubSeq(s, p2 + 1, H)
        /\ SubSeq(s, p2 + 1, H) \in [1 .. U -> Byte]
    BY <1>4, <2>1
  <2> QED
    BY <2>2, <2>3
<1> HIDE DEF topic, kb, bb
<1>8. /\ k \in 0 .. (Limit(U) - 1) /\ to_be_bytes(k, U) = kb
      /\ b \in 0 .. (Limit(U) - 1) /\ to_be_bytes(b, U) = bb
  BY <1>2, <1>7, BeWritten
<1>9. k \in Nat /\ ~ (k >= Limit(U)) /\ b \in Nat /\ ~ (b >= Limit(U))
  <2>1. Limit(U) \in Nat
    BY <1>2, LimitType
  <2> QED
    BY <1>8, <2>1
<1> HIDE DEF k, b
<1>10. rest \in Seq(Byte) /\ Len(rest) = Len(s) - H
  <2>1. H \in 0 .. Len(s)
    BY <1>2, <1>3
  <2> QED
    BY <2>1, FromFacts
<1> HIDE DEF rest
<1>11. PICK c \in Nat, n \in Nat : \E t :
         LET r == From(From(rest, c), n)
         IN /\ c + n + k <= Len(rest)
            /\ tag_to_vec(a, t) = First(From(rest, c), n)
            /\ w.value = WirePiece(First(rest, c),
                                   CodedPiece(First(r, k), From(r, k)), t)
  BY <1>1, <1>9, <1>10, WireWritten
<1>12. PICK t :
         LET r == From(From(rest, c), n)
         IN /\ c + n + k <= Len(rest)
            /\ tag_to_vec(a, t) = First(From(rest, c), n)
            /\ w.value = WirePiece(First(rest, c),
                                   CodedPiece(First(r, k), From(r, k)), t)
  BY <1>11
<1> HIDE DEF w
<1> DEFINE i1 == H + c
           i2 == i1 + n
           i3 == i2 + k
           m == Len(s) - i3
<1>13. /\ i1 \in Nat /\ i2 \in Nat /\ i3 \in Nat /\ m \in Nat
       /\ i1 <= Len(s) /\ i2 <= Len(s) /\ i3 <= Len(s)
       /\ Ends(H, c, i1) /\ Ends(i1, n, i2) /\ Ends(i2, k, i3)
       /\ Ends(i3, m, Len(s))
  <2> DEFINE len == Len(s)
  <2>1. c + n + k <= len - H /\ len \in Nat
    BY <1>2, <1>10, <1>12
  <2>2. i1 \in Nat /\ i2 \in Nat /\ i3 \in Nat
    BY <1>3, <1>9
  <2> HIDE DEF len
  <2>3. i3 <= len /\ i1 <= len /\ i2 <= len
    BY <1>3, <1>9, <2>1, <2>2
  <2>4. len - i3 \in Nat /\ len = i3 + (len - i3)
    BY <2>1, <2>2, <2>3
  <2> QED
    BY <1>3, <1>9, <2>1, <2>2, <2>3, <2>4 DEF Ends, len
<1> HIDE DEF i1, i2, i3, m
<1>14. /\ First(rest, c) = SubSeq(s, H + 1, i1)
       /\ From(rest, c) = From(s, i1)
  BY <1>3, <1>4, <1>13 DEF rest
<1>15. /\ First(From(rest, c), n) = SubSeq(s, i1 + 1, i2)
       /\ From(From(rest, c), n) = From(s, i2)
  <2>1. Ends(i1, n, i2)
    BY <1>13
  <2>2. /\ First(From(s, i1), n) = SubSeq(s, i1 + 1, i2)
        /\ From(From(s, i1), n) = From(s, i2)
    BY <1>4, <2>1
  <2> QED
    BY <1>14, <2>2
<1>16. /\ First(From(s, i2), k) = SubSeq(s, i2 + 1, i3)
       /\ From(From(s, i2), k) = SubSeq(s, i3 + 1, Len(s))
  <2>1. From(s, i3) = SubSeq(s, i3 + 1, Len(s))
    BY DEF From
  <2> QED
    BY <1>4, <1>9, <1>13, <2>1
<1> DEFINE f == decode(a, s).value
           C == SubSeq(s, H + 1, i1)
           g == SubSeq(s, i1 + 1, i2)
           co == SubSeq(s, i2 + 1, i3)
           da == SubSeq(s, i3 + 1, Len(s))
<1>17. f = PubsubFrame(topic, k, b, WirePiece(C, CodedPiece(co, da), t))
       /\ tag_to_vec(a, t) = g
  <2>1. f = PubsubFrame(topic, k, b, w.value)
    BY <1>1
  <2>2. w.value = WirePiece(C, CodedPiece(co, da), t)
    BY <1>12, <1>14, <1>15, <1>16
  <2>3. tag_to_vec(a, t) = g
    BY <1>12, <1>15
  <2> QED
    BY <2>1, <2>2, <2>3
<1> HIDE DEF f
<1>18. << L >> = SubSeq(s, 1, 1)
  <2> DEFINE h == SubSeq(s, 0 + 1, 0 + 1)
  <2>1. 0 \in Nat /\ 1 \in Nat /\ 0 + 1 = 1
    OBVIOUS
  <2>2. h \in Seq(Byte) /\ Len(h) = 1 /\ \A i \in 1 .. 1 : h[i] = s[0 + i]
    BY <1>3, <2>1, Slice
  <2>3. h[1] = L
    BY <1>2, <2>1, <2>2
  <2>4. h = << L >>
    <3> HIDE DEF h
    <3> QED
      BY <2>2, <2>3
  <2> QED
    BY <2>1, <2>4
<1>19. << L >> \o topic = SubSeq(s, 1, p1)
  BY <1>2, <1>3, <1>4, <1>18 DEF topic
<1>20. SubSeq(s, 1, p1) \o kb = SubSeq(s, 1, p2)
  BY <1>2, <1>3, <1>4, <1>7
<1>21. SubSeq(s, 1, p2) \o bb = SubSeq(s, 1, H)
  BY <1>2, <1>3, <1>4, <1>7
<1>22. SubSeq(s, 1, H) \o C = SubSeq(s, 1, i1)
  BY <1>3, <1>4, <1>13
<1>23. SubSeq(s, 1, i1) \o g = SubSeq(s, 1, i2)
  BY <1>4, <1>13
<1>24. SubSeq(s, 1, i2) \o co = SubSeq(s, 1, i3)
  BY <1>4, <1>9, <1>13
<1>25. SubSeq(s, 1, i3) \o da = s
  <2>1. SubSeq(s, 1, i3) \o da = SubSeq(s, 1, Len(s))
    BY <1>2, <1>4, <1>13
  <2> QED
    BY <2>1, SubSeqFull
<1> HIDE DEF C, g, co, da
<1>26. << L >> \o topic \o kb \o bb \o C \o g \o co \o da = s
  BY <1>19, <1>20, <1>21, <1>22, <1>23, <1>24, <1>25
<1> DEFINE wp == f.wire_piece
<1>27. /\ f.topic = topic /\ f.k = k /\ f.b = b /\ wp.commitment = C
       /\ wp.tag = t /\ wp.piece.coefficients = co /\ wp.piece.data = da
  BY <1>17 DEF PubsubFrame, WirePiece, CodedPiece
<1> HIDE DEF wp
<1>28. encode(a, f) = Ok(s, Len(s))
  <2>1. ~ (\E j \in {f.k, f.b} : j >= Limit(U32_LEN)) /\ Len(f.topic) = L
    BY <1>6, <1>9, <1>27 DEF U
  <2>2. << Len(f.topic) >> \o f.topic
          \o to_be_bytes(f.k, U32_LEN) \o to_be_bytes(f.b, U32_LEN)
          \o commitment_to_vec(a, wp.commitment) \o tag_to_vec(a, wp.tag)
          \o wp.piece.coefficients \o wp.piece.data = s
    BY <1>8, <1>17, <1>26, <1>27, <2>1 DEF U, commitment_to_vec
  <2> QED
    BY <2>1, <2>2 DEF encode, wp
<1> QED
  BY <1>28 DEF f

-----------------------------------------------------------------------------
(* The frames of a generation                                              *)

\* What is near a byte string is a byte string.
LEMMA NearBytes ==
  ASSUME NEW s \in Seq(Byte), NEW other \in Near(s)
  PROVE  other \in Seq(Byte)
<1>1. \/ other = s
      \/ \E n \in 0 .. Len(s) : other = First(s, n)
      \/ \E b \in Byte : other = s \o << b >>
      \/ \E i \in DOMAIN s, b \in Byte : other = [s EXCEPT ![i] = b]
  <2> DEFINE A == {First(s, n) : n \in 0 .. Len(s)}
             B == {s \o << b >> : b \in Byte}
             C == {[s EXCEPT ![i] = b] : i \in DOMAIN s, b \in Byte}
  <2>1. Near(s) = {s} \cup A \cup B \cup C
    BY DEF Near
  <2>2. other \in A => \E n \in 0 .. Len(s) : other = First(s, n)
    OBVIOUS
  <2>3. other \in B => \E b \in Byte : other = s \o << b >>
    OBVIOUS
  <2>4. other \in C => \E i \in DOMAIN s, b \in Byte : other = [s EXCEPT ![i] = b]
    OBVIOUS
  <2> HIDE DEF A, B, C
  <2> QED
    BY <2>1, <2>2, <2>3, <2>4
<1>2. CASE \E n \in 0 .. Len(s) : other = First(s, n)
  BY <1>2, FirstFacts
<1>3. CASE \E b \in Byte : other = s \o << b >>
  BY <1>3
<1>4. CASE \E i \in DOMAIN s, b \in Byte : other = [s EXCEPT ![i] = b]
  <2>1. PICK i \in DOMAIN s, b \in Byte : other = [s EXCEPT ![i] = b]
    BY <1>4
  <2>2. s \in [1 .. Len(s) -> Byte] /\ Len(s) \in Nat
    OBVIOUS
  <2>3. other \in [1 .. Len(s) -> Byte]
    BY <2>1, <2>2
  <2> QED
    BY <2>2, <2>3, FunctionIsSeq
<1> QED
  BY <1>1, <1>2, <1>3, <1>4

\* Every piece of a generation fits its frame.
LEMMA FrameOfPiece ==
  ASSUME NEW a \in Authenticators, NEW gen \in {Ours, Theirs}, NEW vec \in Vectors
  PROVE  LET f == Frame(a, gen, vec)
         IN /\ IsPubsubFrame(a, f) /\ f.k # 0
            /\ Len(f.wire_piece.piece.data) = piece_byte_len
            /\ f.wire_piece.tag = tag(a, gen, vec)
            /\ f.wire_piece.piece = Coded(gen, vec)
<1> DEFINE f == Frame(a, gen, vec)
           wp == f.wire_piece
           co == [i \in 1 .. piece_count |-> IF i \in vec THEN 1 ELSE 0]
<1>1. /\ f.topic = Topic /\ f.k = piece_count /\ f.b = piece_byte_len
      /\ wp.commitment = commit(a, gen) /\ wp.tag = tag(a, gen, vec)
      /\ wp.piece = Coded(gen, vec)
      /\ wp.piece.coefficients = co /\ wp.piece.data = combination(gen, vec)
      /\ f = PubsubFrame(f.topic, f.k, f.b, wp)
      /\ wp = WirePiece(wp.commitment, wp.piece, wp.tag)
      /\ wp.piece = CodedPiece(wp.piece.coefficients, wp.piece.data)
  BY DEF Frame, PubsubFrame, WirePiece, Coded, CodedPiece
<1>2. /\ IsCommitment(a, commit(a, gen)) /\ IsTag(a, tag(a, gen, vec))
      /\ combination(gen, vec) \in [1 .. piece_byte_len -> Byte]
  BY AuthenticatorAssumption
<1>3. /\ IsTopic(Topic) /\ Topic \in Seq(Byte)
      /\ piece_count \in Nat /\ piece_count # 0
      /\ piece_count < Limit(U32_LEN) /\ Limit(U32_LEN) \in Nat
      /\ piece_byte_len \in 0 .. (Limit(U32_LEN) - 1)
  BY GossipAssumption, PieceCountAssumption, Widths, LimitType
<1>4. piece_count \in 0 .. (Limit(U32_LEN) - 1) /\ piece_byte_len \in Nat
  BY <1>3
<1>5. co \in [1 .. piece_count -> Byte]
  <2>1. 0 \in Byte /\ 1 \in Byte
    BY BaseAssumption DEF Byte
  <2> QED
    BY <2>1
<1>6. /\ combination(gen, vec) \in Seq(Byte)
      /\ Len(combination(gen, vec)) = piece_byte_len
  BY <1>2, <1>4, FunctionIsSeq
<1> HIDE DEF f, wp, co
<1>7. IsPubsubFrame(a, f)
  BY <1>1, <1>2, <1>3, <1>4, <1>5, <1>6 DEF IsPubsubFrame, wp
<1> QED
  BY <1>1, <1>3, <1>6, <1>7 DEF f, wp

LEMMA FrameExact ==
  ASSUME NEW a \in Authenticators, NEW vec \in Vectors
  PROVE  Exact(a, Frame(a, Ours, vec))
<1> DEFINE f == Frame(a, Ours, vec)
           bytes == encode(a, f).value
<1>1. IsPubsubFrame(a, f)
  <2>1. Ours \in {Ours, Theirs}
    OBVIOUS
  <2> QED
    BY <2>1, FrameOfPiece
<1> HIDE DEF f
<1>2. decode(a, bytes) = Ok(f, Len(bytes))
  BY <1>1, PubsubFramesSurvive
<1>3. bytes \in Seq(Byte)
  <2>1. HasAt(<< >>, 0, Written(a, f)) /\ << >> \in Seq(Byte)
    <3>1. Len(Written(a, f)) \in Nat
      BY <1>1, FrameParts DEF Written, Ok
    <3> QED
      BY <3>1 DEF HasAt
  <2> QED
    BY <1>1, <2>1, PartsAt DEF Written
<1> HIDE DEF bytes
<1>4. ASSUME NEW other \in Near(bytes), decode(a, other).ok
      PROVE  encode(a, decode(a, other).value) = Ok(other, Len(other))
  <2>1. other \in Seq(Byte)
    BY <1>3, NearBytes
  <2> QED
    BY <1>4, <2>1, PubsubStringsReadAsWritten
<1> QED
  BY <1>2, <1>4 DEF Exact, f, bytes

-----------------------------------------------------------------------------
(* What nodes know                                                         *)

\* Everybody knows coding vectors, whatever arrives.
KnownVectors == known \in [Nodes -> SUBSET Vectors]

LEMMA AbsorbVectors ==
  ASSUME NEW K \in SUBSET Vectors, NEW piece
  PROVE  absorb(K, CodingVector(piece)) \in SUBSET Vectors
<1> DEFINE v == CodingVector(piece)
<1>1. v \in Vectors
  BY DEF CodingVector, Vectors
<1> HIDE DEF v
<1>2. \A w \in K : Add(v, w) \in Vectors
  BY <1>1 DEF Add, Vectors
<1> QED
  BY <1>2 DEF absorb, v

\* What a step does to what one node knows.
LEMMA KnownStep ==
  ASSUME KnownVectors, Next
  PROVE  \/ UNCHANGED known
         \/ \E vecs \in SUBSET Vectors :
              source \in pending /\ known' = [known EXCEPT ![source] = Span(vecs)]
         \/ \E d \in net : \E frame \in {decode(auth, d.bytes)} :
              LET wp == frame.value.wire_piece
              IN /\ frame.ok /\ d.to \in Relays \cup Decoders /\ verify(wp)
                 /\ known' = [known EXCEPT ![d.to] =
                                absorb(known[d.to], CodingVector(wp.piece))]
<1>1. CASE Receive
  <2>1. PICK d \in net : handle_pubsub_body(d)
    BY <1>1 DEF Receive
  <2> DEFINE frame == decode(auth, d.bytes)
             wp == frame.value.wire_piece
  <2>2. \/ frame.ok /\ d.to \in Relays /\ relay_path(d, wp)
        \/ frame.ok /\ d.to \in Decoders /\ decoder_path(d, wp)
        \/ reject(d)
    BY <2>1 DEF handle_pubsub_body
  <2> HIDE DEF frame
  <2>3. CASE frame.ok /\ d.to \in Relays /\ relay_path(d, wp)
    <3>1. \/ /\ verify(wp)
             /\ recode_and_forward(d, absorb(known[d.to], CodingVector(wp.piece)))
          \/ reject(d)
      BY <2>3 DEF relay_path
    <3>2. CASE reject(d)
      BY <3>2 DEF reject
    <3>3. CASE verify(wp) /\ recode_and_forward(d,
                               absorb(known[d.to], CodingVector(wp.piece)))
      <4>1. known' = [known EXCEPT ![d.to] =
                        absorb(known[d.to], CodingVector(wp.piece))]
        BY <3>3 DEF recode_and_forward
      <4> QED
        BY <2>3, <3>3, <4>1 DEF frame
    <3> QED
      BY <3>1, <3>2, <3>3
  <2>4. CASE frame.ok /\ d.to \in Decoders /\ decoder_path(d, wp)
    <3>1. d.to \in Nodes /\ known \in [Nodes -> SUBSET Vectors]
      BY <2>4 DEF Nodes, KnownVectors
    <3>2. known' = [known EXCEPT ![d.to] =
                      IF verify(wp) THEN absorb(known[d.to], CodingVector(wp.piece))
                      ELSE known[d.to]]
      BY <2>4 DEF decoder_path
    <3>3. CASE verify(wp)
      BY <2>4, <3>2, <3>3 DEF frame
    <3>4. CASE ~ verify(wp)
      <4>1. known' = [known EXCEPT ![d.to] = known[d.to]]
        BY <3>2, <3>4
      <4> QED
        BY <3>1, <4>1
    <3> QED
      BY <3>3, <3>4
  <2>5. CASE reject(d)
    BY <2>5 DEF reject
  <2> QED
    BY <2>2, <2>3, <2>4, <2>5
<1>2. CASE Lose
  BY <1>2 DEF Lose, lose
<1>3. ASSUME NEW n \in pending, broadcast(n)
      PROVE  \/ UNCHANGED known
             \/ \E vecs \in SUBSET Vectors :
                  /\ source \in pending
                  /\ known' = [known EXCEPT ![source] = Span(vecs)]
  BY <1>3 DEF broadcast
<1> QED
  BY <1>1, <1>2, <1>3 DEF Next

LEMMA KnownVectorsStep ==
  ASSUME KnownVectors, [Next]_vars
  PROVE  KnownVectors'
<1>1. CASE UNCHANGED known
  BY <1>1 DEF KnownVectors
<1>2. ASSUME NEW vecs, known' = [known EXCEPT ![source] = Span(vecs)]
      PROVE  KnownVectors'
  <2>1. Span(vecs) \in SUBSET Vectors
    BY DEF Span
  <2> QED
    BY <1>2, <2>1 DEF KnownVectors
<1>3. ASSUME NEW d \in net, NEW wp, d.to \in Relays \cup Decoders,
             known' = [known EXCEPT ![d.to] =
                         absorb(known[d.to], CodingVector(wp.piece))]
      PROVE  KnownVectors'
  <2>1. d.to \in Nodes /\ known[d.to] \in SUBSET Vectors
    BY <1>3 DEF Nodes, KnownVectors
  <2>2. absorb(known[d.to], CodingVector(wp.piece)) \in SUBSET Vectors
    BY <2>1, AbsorbVectors
  <2> QED
    BY <1>3, <2>2 DEF KnownVectors
<1>4. CASE Next
  BY <1>1, <1>2, <1>3, <1>4, KnownStep
<1>5. CASE UNCHANGED vars
  BY <1>1, <1>5 DEF vars
<1> QED
  BY <1>4, <1>5

LEMMA KnownVectorsInit ==
  ASSUME Init
  PROVE  KnownVectors
<1>1. NothingKnown \in SUBSET Vectors
  BY DEF NothingKnown, Vectors
<1> QED
  BY <1>1 DEF Init, KnownVectors

\* FramesExact of codec.rs and auth.rs for all dimensions, all widths and all
\* authenticators that write what the codec has room for: what the source
\* broadcasts is read as it was written, and nothing near it is read as
\* something that would be written differently.
THEOREM FramesExactHolds == Spec => FramesExact
<1> DEFINE Broadcast == source \in pending \ pending'
           AllExact == \A vec \in known'[source], a \in Authenticators :
                         Exact(a, Frame(a, Ours, vec))
<1>1. Init => KnownVectors
  BY KnownVectorsInit
<1>2. KnownVectors /\ [Next]_vars => KnownVectors'
  BY KnownVectorsStep
<1>3. KnownVectors' => AllExact
  <2>1. source \in Nodes
    BY DEF Nodes
  <2> QED
    BY <2>1, FrameExact DEF KnownVectors
<1>4. KnownVectors /\ [Next]_vars => [Broadcast => AllExact]_vars
  BY <1>2, <1>3
<1> QED
  BY <1>1, <1>2, <1>4, PTL DEF Spec, FramesExact

-----------------------------------------------------------------------------
(* Only the source's pieces are mixed                                      *)

\* Generations are told apart by their tags, or there is only one.
ToldApart == auth # "Null" \/ Strangers \subseteq {source}

Wire(gen, v) == encode(auth, Frame(auth, gen, v)).value

\* A frame in flight is a combination of the source's pieces, or comes from a
\* stranger, and then is of the other generation or cut short.
Carries(bytes) ==
  \/ \E v \in known[source] : bytes = Wire(Ours, v)
  \/ /\ auth # "Null"
     /\ \E v \in Vectors : bytes = Wire(Theirs, v)
  \/ \E v \in Vectors :
       bytes = First(Wire(Theirs, v),
                     Len(Wire(Theirs, v)) - (piece_byte_len + 1))

\* The inductive invariant: what the source knows is a space, and nothing
\* but the zero vector until it has broadcast.
GInv ==
  /\ KnownVectors
  /\ pending \subseteq {source} \cup Strangers
  /\ IsSpace(known[source])
  /\ source \in pending => known[source] = NothingKnown
  /\ OnlySourcePieces
  /\ \A d \in net : Carries(d.bytes)

LEMMA SpanFacts ==
  ASSUME NEW S \in SUBSET Vectors
  PROVE  Span(S) \in SUBSET Vectors /\ S \subseteq Span(S) /\ IsSpace(Span(S))
<1>1. Span(S) \in SUBSET Vectors /\ S \subseteq Span(S)
  BY DEF Span
<1>2. {} \in Span(S)
  BY DEF Span, Vectors, IsSpace
<1>3. ASSUME NEW v \in Span(S), NEW w \in Span(S)
      PROVE  Add(v, w) \in Span(S)
  <2>1. v \in Vectors /\ w \in Vectors
    BY <1>1
  <2>2. Add(v, w) \in Vectors
    BY <2>1 DEF Add, Vectors
  <2>3. ASSUME NEW W \in SUBSET Vectors, IsSpace(W), S \subseteq W
        PROVE  Add(v, w) \in W
    <3>1. v \in W /\ w \in W
      BY <2>3 DEF Span
    <3> QED
      BY <2>3, <3>1 DEF IsSpace
  <2> QED
    BY <2>2, <2>3 DEF Span
<1> QED
  BY <1>1, <1>2, <1>3 DEF IsSpace

\* The coding vector is read off the coefficients.
LEMMA CodedVector ==
  ASSUME NEW gen, NEW v \in Vectors
  PROVE  CodingVector(Coded(gen, v)) = v
<1> DEFINE co == [i \in 1 .. piece_count |-> IF i \in v THEN 1 ELSE 0]
<1>1. Coded(gen, v).coefficients = co
  BY DEF Coded, CodedPiece
<1>2. \A i \in 1 .. piece_count : co[i] # 0 <=> i \in v
  OBVIOUS
<1>3. v \subseteq 1 .. piece_count
  BY DEF Vectors
<1> HIDE DEF co
<1>4. CodingVector(Coded(gen, v)) = {i \in 1 .. piece_count : co[i] # 0}
  BY <1>1 DEF CodingVector
<1> QED
  BY <1>2, <1>3, <1>4

\* What is written for a piece: how it is read, whole and cut short.
LEMMA WireOfPiece ==
  ASSUME NEW gen \in {Ours, Theirs}, NEW v \in Vectors
  PROVE  LET W == Wire(gen, v)
         IN /\ W \in Seq(Byte) /\ First(W, Len(W) - 0) = W
            /\ decode(auth, W) = Ok(Frame(auth, gen, v), Len(W))
            /\ decode(auth, First(W, Len(W) - (piece_byte_len + 1))) = Err
<1> DEFINE f == Frame(auth, gen, v)
           W == Wire(gen, v)
<1>1. auth \in Authenticators
  BY GossipAssumption
<1>2. /\ IsPubsubFrame(auth, f) /\ f.k # 0
      /\ Len(f.wire_piece.piece.data) = piece_byte_len
  BY <1>1, FrameOfPiece
<1> HIDE DEF f
<1>3. W = Written(auth, f) /\ W = encode(auth, f).value
  BY DEF Written, f, Wire
<1>4. decode(auth, W) = Ok(f, Len(W))
  BY <1>1, <1>2, <1>3, PubsubFramesSurvive
<1>5. decode(auth, First(W, Len(W) - (piece_byte_len + 1))) = Err
  BY <1>1, <1>2, <1>3, CutFrame
<1>6. W \in Seq(Byte)
  <2>1. HasAt(<< >>, 0, Written(auth, f)) /\ << >> \in Seq(Byte)
    <3>1. Len(Written(auth, f)) \in Nat
      BY <1>1, <1>2, FrameParts DEF Written, Ok
    <3> QED
      BY <3>1 DEF HasAt
  <2> QED
    BY <1>1, <1>2, <1>3, <2>1, PartsAt
<1> HIDE DEF W
<1>7. First(W, Len(W) - 0) = W
  <2>1. Len(W) - 0 = Len(W)
    BY <1>6
  <2> QED
    BY <1>6, <2>1, SubSeqFull DEF First
<1> QED
  BY <1>4, <1>5, <1>6, <1>7 DEF f, W

\* A piece that is read and verifies is the source's.
LEMMA VerifiedPiece ==
  ASSUME GInv, NEW d \in net, NEW frame, frame = decode(auth, d.bytes),
         frame.ok, verify(frame.value.wire_piece)
  PROVE  CodingVector(frame.value.wire_piece.piece) \in known[source]
<1> DEFINE wp == frame.value.wire_piece
<1>0. auth \in Authenticators /\ known[source] \subseteq Vectors
  BY GossipAssumption DEF GInv, KnownVectors, Nodes
<1>1. CASE \E v \in known[source] : d.bytes = Wire(Ours, v)
  <2>1. PICK v \in known[source] : d.bytes = Wire(Ours, v)
    BY <1>1
  <2>2. v \in Vectors /\ Ours \in {Ours, Theirs}
    BY <1>0
  <2>3. frame = Ok(Frame(auth, Ours, v), Len(d.bytes))
    BY <2>1, <2>2, WireOfPiece
  <2>4. wp.piece = Coded(Ours, v)
    <3>1. frame.value = Frame(auth, Ours, v)
      BY <2>3 DEF Ok
    <3> QED
      BY <1>0, <2>2, <3>1, FrameOfPiece
  <2> QED
    BY <2>2, <2>4, CodedVector
<1>2. CASE auth # "Null" /\ \E v \in Vectors : d.bytes = Wire(Theirs, v)
  <2>1. PICK v \in Vectors : d.bytes = Wire(Theirs, v)
    BY <1>2
  <2>2. Theirs \in {Ours, Theirs}
    OBVIOUS
  <2>3. frame = Ok(Frame(auth, Theirs, v), Len(d.bytes))
    BY <2>1, <2>2, WireOfPiece
  <2>4. wp.tag = tag(auth, Theirs, v)
    <3>1. frame.value = Frame(auth, Theirs, v)
      BY <2>3 DEF Ok
    <3> QED
      BY <1>0, <2>2, <3>1, FrameOfPiece
  <2>5. PICK w \in Vectors : wp.tag = tag(auth, Ours, w)
    BY <1>2 DEF verify
  <2>6. tag(auth, Theirs, v) # tag(auth, Ours, w)
    BY <1>0, <1>2, AuthenticatorAssumption
  <2> QED
    BY <2>4, <2>5, <2>6
<1>3. CASE \E v \in Vectors :
             d.bytes = First(Wire(Theirs, v),
                             Len(Wire(Theirs, v)) - (piece_byte_len + 1))
  <2>1. PICK v \in Vectors :
          d.bytes = First(Wire(Theirs, v),
                          Len(Wire(Theirs, v)) - (piece_byte_len + 1))
    BY <1>3
  <2>2. Theirs \in {Ours, Theirs}
    OBVIOUS
  <2>3. decode(auth, d.bytes) = Err
    BY <2>1, <2>2, WireOfPiece
  <2> QED
    BY <2>3 DEF Err
<1> QED
  BY <1>1, <1>2, <1>3 DEF GInv, Carries

\* A piece of the source's adds nothing that is not the source's.
LEMMA AbsorbInside ==
  ASSUME NEW S, IsSpace(S), NEW K \in SUBSET S, NEW v \in S
  PROVE  absorb(K, v) \subseteq S
BY DEF absorb, IsSpace

-----------------------------------------------------------------------------
(* The invariant is inductive                                              *)

LEMMA GInvInit ==
  ASSUME Init
  PROVE  GInv
<1>1. KnownVectors
  BY KnownVectorsInit
<1>2. known = [n \in Nodes |-> NothingKnown] /\ net = {}
      /\ pending = {source} \cup Strangers
  BY DEF Init
<1>3. known[source] = NothingKnown /\ OnlySourcePieces
  BY <1>2 DEF Nodes, OnlySourcePieces
<1>4. IsSpace(NothingKnown)
  BY DEF IsSpace, NothingKnown, Add
<1> QED
  BY <1>1, <1>2, <1>3, <1>4 DEF GInv

\* While the source knows what it knew, frames in flight carry what they
\* carried, and more when it learns more.
LEMMA CarriesMonotone ==
  ASSUME NEW bytes, Carries(bytes), known[source] \subseteq known'[source]
  PROVE  Carries(bytes)'
BY DEF Carries, Wire

LEMMA BroadcastStep ==
  ASSUME GInv, ToldApart, NEW n \in pending, broadcast(n)
  PROVE  GInv'
<1> DEFINE gen == IF n = source THEN Ours ELSE Theirs
<1>1. PICK vecs \in SUBSET Vectors, cut \in {0, piece_byte_len + 1} :
        /\ n = source => cut = 0
        /\ net' = net \cup
             Sent(n, established_addrs(n),
                  {First(Wire(gen, v), Len(Wire(gen, v)) - cut) : v \in vecs})
        /\ known' = IF n = source THEN [known EXCEPT ![n] = Span(vecs)]
                    ELSE known
  BY DEF broadcast, Wire
<1>2. pending' = pending \ {n}
  BY DEF broadcast
<1>3. KnownVectors'
  BY KnownVectorsStep DEF GInv, Next
<1>4. known \in [Nodes -> SUBSET Vectors] /\ source \in Nodes
      /\ known[source] \subseteq Vectors
  BY DEF GInv, KnownVectors, Nodes
<1>5. /\ known[source] \subseteq known'[source] /\ IsSpace(known'[source])
      /\ n = source => vecs \subseteq known'[source]
  <2>1. CASE n = source
    <3>1. known'[source] = Span(vecs)
      BY <1>1, <1>4, <2>1
    <3>2. known[source] = {{}}
      BY <2>1 DEF GInv, NothingKnown
    <3>3. Span(vecs) \in SUBSET Vectors /\ vecs \subseteq Span(vecs)
          /\ IsSpace(Span(vecs))
      BY SpanFacts
    <3>4. {} \in Span(vecs)
      BY <3>3 DEF IsSpace
    <3> QED
      BY <3>1, <3>2, <3>3, <3>4
  <2>2. CASE n # source
    BY <1>1, <2>2 DEF GInv
  <2> QED
    BY <2>1, <2>2
<1>6. OnlySourcePieces'
  <2>1. ASSUME NEW r \in Relays \cup Decoders
        PROVE  known'[r] \subseteq known'[source]
    <3>1. r # source /\ r \in Nodes
      BY GossipAssumption DEF Nodes
    <3>2. known'[r] = known[r]
      BY <1>1, <1>4, <3>1
    <3>3. known[r] \subseteq known[source]
      BY DEF GInv, OnlySourcePieces
    <3> QED
      BY <1>5, <3>2, <3>3
  <2> QED
    BY <2>1 DEF OnlySourcePieces
<1>7. ASSUME NEW d \in net' PROVE Carries(d.bytes)'
  <2>1. CASE d \in net
    <3>1. Carries(d.bytes)
      BY <2>1 DEF GInv
    <3> QED
      BY <1>5, <3>1, CarriesMonotone
  <2>2. CASE d \notin net
    <3>1. PICK v \in vecs :
            d.bytes = First(Wire(gen, v), Len(Wire(gen, v)) - cut)
      BY <1>1, <2>2 DEF Sent
    <3>2. v \in Vectors /\ gen \in {Ours, Theirs}
      BY <1>1
    <3>3. cut = 0 => d.bytes = Wire(gen, v)
      BY <3>1, <3>2, WireOfPiece
    <3>4. CASE n = source
      BY <1>1, <1>5, <3>1, <3>3, <3>4 DEF Carries, Wire
    <3>5. CASE n # source /\ cut = 0
      <4>1. n \in Strangers
        BY <3>5 DEF GInv
      <4>2. auth # "Null"
        BY <3>5, <4>1 DEF ToldApart
      <4> QED
        BY <3>2, <3>3, <3>5, <4>2 DEF Carries, Wire
    <3>6. CASE n # source /\ cut = piece_byte_len + 1
      BY <3>1, <3>2, <3>6 DEF Carries, Wire
    <3> QED
      BY <1>1, <3>4, <3>5, <3>6
  <2> QED
    BY <2>1, <2>2
<1>8. pending' \subseteq {source} \cup Strangers
      /\ (source \in pending' => known'[source] = NothingKnown)
  BY <1>1, <1>2 DEF GInv
<1> QED
  BY <1>3, <1>5, <1>6, <1>7, <1>8 DEF GInv

\* Nothing is learnt, and frames only leave.
LEMMA TakenStep ==
  ASSUME GInv, UNCHANGED << known, pending >>, net' \subseteq net
  PROVE  GInv'
<1>1. known[source] \subseteq known'[source]
  OBVIOUS
<1>2. \A d \in net' : Carries(d.bytes)'
  BY <1>1, CarriesMonotone DEF GInv
<1> QED
  BY <1>2 DEF GInv, KnownVectors, OnlySourcePieces

\* A relay or a decoder absorbs a piece that verifies; a relay sends what it
\* knows then.
Absorbs(d, frame, next) ==
  /\ frame = decode(auth, d.bytes) /\ frame.ok
  /\ d.to \in Relays \cup Decoders /\ verify(frame.value.wire_piece)
  /\ next = absorb(known[d.to], CodingVector(frame.value.wire_piece.piece))
  /\ known' = [known EXCEPT ![d.to] = next]
  /\ \A e \in net' : e \in net \/ \E v \in next : e.bytes = Wire(Ours, v)
  /\ UNCHANGED pending

LEMMA AbsorbStep ==
  ASSUME GInv, NEW d \in net, NEW frame, NEW next, Absorbs(d, frame, next)
  PROVE  GInv'
<1> DEFINE v == CodingVector(frame.value.wire_piece.piece)
<1> USE DEF Absorbs
<1>1. v \in known[source]
  BY VerifiedPiece
<1>2. d.to # source /\ d.to \in Nodes /\ source \in Nodes
  BY GossipAssumption DEF Nodes
<1>3. known \in [Nodes -> SUBSET Vectors]
  BY DEF GInv, KnownVectors
<1> HIDE DEF v
<1>4. next \subseteq known[source]
  <2>1. known[d.to] \in SUBSET known[source]
    BY DEF GInv, OnlySourcePieces
  <2>2. absorb(known[d.to], v) \subseteq known[source]
    BY <1>1, <2>1, AbsorbInside DEF GInv
  <2> QED
    BY <2>2 DEF v
<1>5. known'[source] = known[source]
  BY <1>2, <1>3
<1>6. KnownVectors'
  <2>1. next \in SUBSET Vectors
    BY <1>2, <1>3, <1>4
  <2> QED
    BY <1>3, <2>1 DEF KnownVectors
<1>7. OnlySourcePieces'
  <2>1. ASSUME NEW r \in Relays \cup Decoders
        PROVE  known'[r] \subseteq known'[source]
    <3>1. r \in Nodes
      BY DEF Nodes
    <3>2. known'[r] = IF r = d.to THEN next ELSE known[r]
      BY <1>2, <1>3, <3>1
    <3>3. known[r] \subseteq known[source]
      BY DEF GInv, OnlySourcePieces
    <3> QED
      BY <1>4, <1>5, <3>2, <3>3
  <2> QED
    BY <2>1 DEF OnlySourcePieces
<1>8. ASSUME NEW e \in net' PROVE Carries(e.bytes)'
  <2>1. Carries(e.bytes)
    <3>1. CASE e \in net
      BY <3>1 DEF GInv
    <3>2. CASE \E w \in next : e.bytes = Wire(Ours, w)
      BY <1>4, <3>2 DEF Carries
    <3> QED
      BY <3>1, <3>2
  <2> QED
    BY <1>5, <2>1, CarriesMonotone
<1> QED
  BY <1>5, <1>6, <1>7, <1>8 DEF GInv

LEMMA ReceiveStep ==
  ASSUME GInv, NEW d \in net, handle_pubsub_body(d)
  PROVE  GInv'
<1> DEFINE frame == decode(auth, d.bytes)
           wp == frame.value.wire_piece
           next == absorb(known[d.to], CodingVector(wp.piece))
<1>1. /\ UNCHANGED pending
      /\ \/ frame.ok /\ d.to \in Relays /\ relay_path(d, wp)
         \/ frame.ok /\ d.to \in Decoders /\ decoder_path(d, wp)
         \/ reject(d)
  BY DEF handle_pubsub_body
<1> HIDE DEF frame
<1>2. CASE reject(d)
  BY <1>1, <1>2, TakenStep DEF reject
<1>3. CASE frame.ok /\ d.to \in Relays /\ relay_path(d, wp)
  <2>1. (verify(wp) /\ recode_and_forward(d, next)) \/ reject(d)
    BY <1>3 DEF relay_path
  <2>2. CASE verify(wp) /\ recode_and_forward(d, next)
    <3> HIDE DEF next
    <3>1. PICK v \in next :
            /\ known' = [known EXCEPT ![d.to] = next]
            /\ net' = (net \ {d}) \cup
                 Sent(d.to, established_addrs(d.to) \ {d.from}, {Wire(Ours, v)})
      BY <2>2 DEF recode_and_forward, recode_one, Wire
    <3>2. \A e \in net' : e \in net \/ \E w \in next : e.bytes = Wire(Ours, w)
      BY <3>1 DEF Sent
    <3>3. /\ frame = decode(auth, d.bytes) /\ d.to \in Relays \cup Decoders
          /\ next = absorb(known[d.to],
                           CodingVector(frame.value.wire_piece.piece))
      BY <1>3 DEF frame, next
    <3>4. /\ frame.ok /\ verify(frame.value.wire_piece) /\ UNCHANGED pending
          /\ known' = [known EXCEPT ![d.to] = next]
      BY <1>1, <1>3, <2>2, <3>1
    <3>5. Absorbs(d, frame, next)
      BY <3>2, <3>3, <3>4 DEF Absorbs
    <3> QED
      BY <3>5, AbsorbStep
  <2> QED
    BY <1>2, <2>1, <2>2
<1>4. CASE frame.ok /\ d.to \in Decoders /\ decoder_path(d, wp)
  <2>1. /\ net' = net \ {d}
        /\ known' = [known EXCEPT ![d.to] =
                       IF verify(wp) THEN next ELSE known[d.to]]
    BY <1>4 DEF decoder_path
  <2>2. CASE verify(wp)
    <3> HIDE DEF next
    <3>1. known' = [known EXCEPT ![d.to] = next]
      BY <2>1, <2>2
    <3>2. \A e \in net' : e \in net \/ \E w \in next : e.bytes = Wire(Ours, w)
      BY <2>1
    <3>3. /\ frame = decode(auth, d.bytes) /\ d.to \in Relays \cup Decoders
          /\ next = absorb(known[d.to],
                           CodingVector(frame.value.wire_piece.piece))
      BY <1>4 DEF frame, next
    <3>4. /\ frame.ok /\ verify(frame.value.wire_piece) /\ UNCHANGED pending
          /\ known' = [known EXCEPT ![d.to] = next]
      BY <1>1, <1>4, <2>2, <3>1
    <3>5. Absorbs(d, frame, next)
      BY <3>2, <3>3, <3>4 DEF Absorbs
    <3> QED
      BY <3>5, AbsorbStep
  <2>3. CASE ~ verify(wp)
    <3>1. known' = [known EXCEPT ![d.to] = known[d.to]]
      BY <2>1, <2>3
    <3>2. known' = known
      BY <3>1 DEF GInv, KnownVectors
    <3> QED
      BY <1>1, <2>1, <3>2, TakenStep
  <2> QED
    BY <2>2, <2>3
<1> QED
  BY <1>1, <1>2, <1>3, <1>4

LEMMA GInvStep ==
  ASSUME GInv, ToldApart, [Next]_vars
  PROVE  GInv'
<1>1. CASE Receive
  BY <1>1, ReceiveStep DEF Receive
<1>2. CASE Lose
  BY <1>2, TakenStep DEF Lose, lose
<1>3. CASE \E n \in pending : broadcast(n)
  BY <1>3, BroadcastStep
<1>4. CASE UNCHANGED vars
  BY <1>4, TakenStep DEF vars
<1> QED
  BY <1>1, <1>2, <1>3, <1>4 DEF Next

\* Frames in flight and what nodes know, for every graph of nodes: a frame
\* carries a combination of the source's pieces unless a stranger sent it,
\* and then it does not verify or is not read.
THEOREM GInvHolds ==
  ASSUME ToldApart
  PROVE  Spec => []GInv
<1>1. Init => GInv
  BY GInvInit
<1>2. GInv /\ [Next]_vars => GInv'
  BY GInvStep
<1> QED
  BY <1>1, <1>2, PTL DEF Spec

\* OnlySourcePieces of mux.rs, for every graph of nodes, every generation size
\* and every authenticator whose tags tell generations apart, and for
\* NullAuthenticator where nobody broadcasts another generation: verifying
\* before absorbing keeps relays and decoders to the source's pieces, however
\* often these were recoded on the way.
THEOREM OnlySourcePiecesHolds ==
  ASSUME ToldApart
  PROVE  Spec => []OnlySourcePieces
<1>1. GInv => OnlySourcePieces
  BY DEF GInv
<1> QED
  BY <1>1, GInvHolds, PTL

=============================================================================
