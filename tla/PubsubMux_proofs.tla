-------------------------- MODULE PubsubMux_proofs --------------------------
(***************************************************************************)
(* Proofs about PubsubMux, for any number of pieces, topics and            *)
(* generations: what the decoder of a topic knows is the span of what it   *)
(* absorbed, and every piece that a relay lets through doubles what the    *)
(* relay knows, which bounds how many it lets through.                     *)
(***************************************************************************)
EXTENDS PubsubMux, FiniteSetTheorems, TLAPS

-----------------------------------------------------------------------------
(* Vectors and spaces                                                      *)

LEMMA AddLaws ==
  ASSUME NEW u \in Vectors, NEW v \in Vectors, NEW w \in Vectors
  PROVE  /\ Add(v, w) \in Vectors /\ Add(v, w) = Add(w, v)
         /\ Add(v, v) = {} /\ Add(v, {}) = v
         /\ Add(v, Add(v, w)) = w
         /\ Add(v, Add(w, u)) = Add(w, Add(v, u))
         /\ Add(Add(v, w), Add(v, u)) = Add(w, u)
<1>1. Add(v, w) \in Vectors
  BY DEF Add, Vectors
<1>2. Add(v, w) = Add(w, v)
  BY DEF Add
<1>3. Add(v, v) = {} /\ Add(v, {}) = v
  BY DEF Add
<1>4. Add(v, Add(v, w)) = w
  BY DEF Add
<1>5. Add(v, Add(w, u)) = Add(w, Add(v, u))
  BY DEF Add
<1>6. Add(Add(v, w), Add(v, u)) = Add(w, u)
  BY DEF Add
<1> QED
  BY <1>1, <1>2, <1>3, <1>4, <1>5, <1>6

LEMMA ZeroVector == {} \in Vectors
BY DEF Vectors

\* What a space and one more vector span is a space again, and the least.
LEMMA AbsorbSpace ==
  ASSUME NEW W \in SUBSET Vectors, IsSpace(W), NEW v \in Vectors
  PROVE  /\ absorb(W, v) \in SUBSET Vectors /\ IsSpace(absorb(W, v))
         /\ W \subseteq absorb(W, v) /\ v \in absorb(W, v)
         /\ \A U \in SUBSET Vectors :
              IsSpace(U) /\ W \subseteq U /\ v \in U => absorb(W, v) \subseteq U
<1> DEFINE A == absorb(W, v)
<1>1. A = W \cup {Add(v, w) : w \in W}
  BY DEF absorb
<1> HIDE DEF A
<1>2. {} \in W /\ \A x, y \in W : Add(x, y) \in W
  BY DEF IsSpace
<1>3. \A x \in W : x \in Vectors
  OBVIOUS
<1>4. A \in SUBSET Vectors
  BY <1>1, <1>3, AddLaws
<1>5. W \subseteq A /\ {} \in A /\ v \in A
  <2>1. Add(v, {}) = v
    BY AddLaws
  <2> QED
    BY <1>1, <1>2, <2>1
<1>6. ASSUME NEW x \in A, NEW y \in A PROVE Add(x, y) \in A
  <2>1. ASSUME NEW p \in W, NEW q \in W
        PROVE  /\ Add(p, q) \in A /\ Add(p, Add(v, q)) \in A
               /\ Add(Add(v, q), p) \in A /\ Add(Add(v, p), Add(v, q)) \in A
    <3>1. Add(p, q) \in W /\ Add(p, q) \in A /\ Add(v, Add(p, q)) \in A
      BY <1>1, <1>2
    <3>2. Add(p, Add(v, q)) = Add(v, Add(p, q))
      BY <1>3, AddLaws
    <3>3. Add(v, q) \in Vectors
      BY <1>3, AddLaws
    <3>4. Add(Add(v, q), p) = Add(p, Add(v, q))
      BY <1>3, <3>3, AddLaws
    <3>5. Add(Add(v, p), Add(v, q)) = Add(p, q)
      BY <1>3, AddLaws
    <3> QED
      BY <3>1, <3>2, <3>4, <3>5
  <2>2. PICK p \in W : x = p \/ x = Add(v, p)
    BY <1>1
  <2>3. PICK q \in W : y = q \/ y = Add(v, q)
    BY <1>1
  <2> QED
    BY <2>1, <2>2, <2>3
<1>7. ASSUME NEW U \in SUBSET Vectors, IsSpace(U), W \subseteq U, v \in U
      PROVE  A \subseteq U
  BY <1>1, <1>7 DEF IsSpace
<1> QED
  BY <1>4, <1>5, <1>6, <1>7 DEF A, IsSpace

\* A vector that is known adds nothing.
LEMMA AbsorbKnown ==
  ASSUME NEW W \in SUBSET Vectors, IsSpace(W), NEW v \in W
  PROVE  absorb(W, v) = W
<1>1. absorb(W, v) \subseteq W /\ W \subseteq absorb(W, v)
  BY AbsorbSpace
<1> QED
  BY <1>1

LEMMA VectorsFinite ==
  /\ IsFiniteSet(Vectors)
  /\ \A W \in SUBSET Vectors : IsFiniteSet(W) /\ Cardinality(W) \in Nat
<1>1. IsFiniteSet(1 .. piece_count)
  BY PieceCountAssumption, FS_Interval
<1>2. IsFiniteSet(Vectors)
  BY <1>1, FS_SUBSET DEF Vectors
<1> QED
  BY <1>2, FS_Subset, FS_CardinalityType

\* A vector that is not known doubles what is.
LEMMA AbsorbDoubles ==
  ASSUME NEW W \in SUBSET Vectors, IsSpace(W), NEW v \in Vectors, v \notin W
  PROVE  Cardinality(absorb(W, v)) = 2 * Cardinality(W)
<1> DEFINE U == {Add(v, w) : w \in W}
           f == [w \in W |-> Add(v, w)]
<1>1. absorb(W, v) = W \cup U
  BY DEF absorb
<1>2. W \cap U = {}
  <2> SUFFICES ASSUME NEW w \in W, Add(v, w) \in W PROVE FALSE
    OBVIOUS
  <2>1. Add(w, Add(v, w)) \in W
    BY DEF IsSpace
  <2>2. Add(w, Add(v, w)) = v
    <3>1. Add(v, w) = Add(w, v) /\ Add(w, Add(w, v)) = v
      BY AddLaws
    <3> QED
      BY <3>1
  <2> QED
    BY <2>1, <2>2
<1>3. f \in Bijection(W, U)
  <2>1. ASSUME NEW x \in W, NEW y \in W, Add(v, x) = Add(v, y) PROVE x = y
    <3>1. x = Add(v, Add(v, x)) /\ y = Add(v, Add(v, y))
      BY AddLaws
    <3> QED
      BY <2>1, <3>1
  <2>2. f \in Injection(W, U)
    BY <2>1 DEF Injection, IsInjective
  <2>3. f \in Surjection(W, U)
    BY DEF Surjection
  <2> QED
    BY <2>2, <2>3 DEF Bijection
<1>4. IsFiniteSet(W) /\ Cardinality(W) \in Nat
  BY VectorsFinite
<1> HIDE DEF U, f
<1>5. ExistsBijection(W, U)
  BY <1>3 DEF ExistsBijection
<1>6. IsFiniteSet(U) /\ Cardinality(U) = Cardinality(W)
  BY <1>4, <1>5, FS_Bijection
<1>7. Cardinality(W \cup U) = Cardinality(W) + Cardinality(U) - Cardinality({})
  BY <1>2, <1>4, <1>6, FS_Union
<1> QED
  BY <1>1, <1>4, <1>6, <1>7, FS_EmptySet

-----------------------------------------------------------------------------
(* Dimensions                                                              *)

\* A power of two is the number of vectors of a smaller generation.
LEMMA PowerIsCardinality ==
  ASSUME NEW n \in Nat
  PROVE  /\ 2 ^ n = Cardinality(SUBSET (1 .. n))
         /\ IsFiniteSet(SUBSET (1 .. n)) /\ 2 ^ n \in Nat
<1>1. IsFiniteSet(1 .. n) /\ Cardinality(1 .. n) = n
  BY FS_Interval
<1>2. Cardinality(SUBSET (1 .. n)) = 2 ^ n /\ IsFiniteSet(SUBSET (1 .. n))
  BY <1>1, FS_SUBSET
<1>3. Cardinality(SUBSET (1 .. n)) \in Nat
  BY <1>2, FS_CardinalityType
<1> QED
  BY <1>2, <1>3

LEMMA PowersGrow ==
  ASSUME NEW m \in Nat, NEW n \in Nat, m < n
  PROVE  2 ^ m < 2 ^ n
<1> DEFINE S == SUBSET (1 .. m)
           T == SUBSET (1 .. n)
<1>1. S \in SUBSET T
  OBVIOUS
<1>2. S # T
  <2>1. 1 .. n \in T /\ 1 .. n \notin S
    <3>1. n \in 1 .. n /\ n \notin 1 .. m
      OBVIOUS
    <3> QED
      BY <3>1
  <2> QED
    BY <2>1
<1>3. /\ 2 ^ m = Cardinality(S) /\ 2 ^ n = Cardinality(T) /\ IsFiniteSet(T)
      /\ 2 ^ m \in Nat /\ 2 ^ n \in Nat
  BY PowerIsCardinality
<1> HIDE DEF S, T
<1>4. Cardinality(S) <= Cardinality(T) /\ Cardinality(T) # Cardinality(S)
  BY <1>1, <1>2, <1>3, FS_Subset
<1> QED
  BY <1>3, <1>4

LEMMA PowersDouble ==
  ASSUME NEW n \in 0 .. (piece_count - 1)
  PROVE  2 ^ (n + 1) = 2 * 2 ^ n
<1> DEFINE W == SUBSET (1 .. n)
           v == {n + 1}
<1>1. n \in Nat /\ n + 1 \in Nat /\ n + 1 <= piece_count
  BY PieceCountAssumption
<1>2. W \in SUBSET Vectors
  BY <1>1, PieceCountAssumption DEF Vectors
<1>3. v \in Vectors /\ v \notin W
  BY <1>1, PieceCountAssumption DEF Vectors
<1>4. IsSpace(W)
  BY DEF IsSpace, Add
<1>5. absorb(W, v) = SUBSET (1 .. (n + 1))
  <2>1. ASSUME NEW x \in SUBSET (1 .. (n + 1)) PROVE x \in absorb(W, v)
    <3>1. CASE n + 1 \notin x
      <4>1. x \in W
        BY <1>1, <3>1
      <4> QED
        BY <4>1 DEF absorb
    <3>2. CASE n + 1 \in x
      <4>1. x \ v \in W
        BY <1>1
      <4>2. Add(v, x \ v) = x
        BY <3>2 DEF Add
      <4> QED
        BY <4>1, <4>2 DEF absorb
    <3> QED
      BY <3>1, <3>2
  <2>2. ASSUME NEW w \in W
        PROVE  w \in SUBSET (1 .. (n + 1)) /\ Add(v, w) \in SUBSET (1 .. (n + 1))
    BY <1>1 DEF Add
  <2>3. absorb(W, v) \subseteq SUBSET (1 .. (n + 1))
    <3> HIDE DEF W, v
    <3> QED
      BY <2>2 DEF absorb
  <2>4. SUBSET (1 .. (n + 1)) \subseteq absorb(W, v)
    <3> HIDE DEF W, v
    <3> QED
      BY <2>1
  <2> HIDE DEF W, v
  <2> QED
    BY <2>3, <2>4
<1> HIDE DEF v
<1>6. Cardinality(absorb(W, v)) = 2 * Cardinality(W)
  BY <1>2, <1>3, <1>4, AbsorbDoubles
<1> QED
  BY <1>1, <1>5, <1>6, PowerIsCardinality

\* The space has dimension r.
HasRank(W, r) ==
  /\ W \in SUBSET Vectors /\ IsSpace(W)
  /\ r \in 0 .. piece_count /\ Cardinality(W) = 2 ^ r

LEMMA UsefulCount ==
  ASSUME NEW W, NEW r, HasRank(W, r)
  PROVE  useful_count(W) = r
<1>1. r \in 0 .. piece_count /\ 2 ^ r = Cardinality(W)
  BY DEF HasRank
<1>2. ASSUME NEW q \in 0 .. piece_count, 2 ^ q = Cardinality(W) PROVE q = r
  <2>1. q \in Nat /\ r \in Nat /\ 2 ^ q = 2 ^ r /\ 2 ^ q \in Nat
    <3>1. q \in Nat /\ r \in Nat
      BY <1>1, PieceCountAssumption
    <3>2. 2 ^ q \in Nat
      BY <3>1, PowerIsCardinality
    <3> QED
      BY <1>1, <1>2, <3>1, <3>2
  <2>2. ~ (q < r) /\ ~ (r < q)
    BY <2>1, PowersGrow
  <2> QED
    BY <2>1, <2>2
<1> QED
  BY <1>1, <1>2 DEF useful_count

LEMMA NothingHasRankZero == HasRank(NothingKnown, 0) /\ NothingKnown # Vectors
<1>1. NothingKnown \in SUBSET Vectors /\ IsSpace(NothingKnown)
  BY DEF NothingKnown, Vectors, IsSpace, Add
<1>2. 2 ^ 0 = Cardinality(SUBSET (1 .. 0))
  BY PowerIsCardinality
<1>3. SUBSET (1 .. 0) = {{}}
  OBVIOUS
<1>4. {1} \in Vectors
  BY PieceCountAssumption DEF Vectors
<1>5. Cardinality(NothingKnown) = 2 ^ 0
  BY <1>2, <1>3 DEF NothingKnown
<1>6. NothingKnown # Vectors
  BY <1>4 DEF NothingKnown
<1>7. 0 \in 0 .. piece_count
  BY PieceCountAssumption
<1> QED
  BY <1>1, <1>5, <1>6, <1>7 DEF HasRank

\* What a relay does with a piece: dependent ones are seen by the dimension,
\* others raise it by one, which the number of pieces bounds.
LEMMA RankStep ==
  ASSUME NEW W, NEW r, HasRank(W, r), NEW v \in Vectors
  PROVE  /\ v \in W => useful_count(absorb(W, v)) = useful_count(W)
         /\ v \notin W => HasRank(absorb(W, v), r + 1)
<1>1. /\ W \in SUBSET Vectors /\ IsSpace(W) /\ r \in Nat /\ r <= piece_count
      /\ Cardinality(W) = 2 ^ r /\ piece_count \in Nat
  BY PieceCountAssumption DEF HasRank
<1>2. v \in W => absorb(W, v) = W
  BY <1>1, AbsorbKnown
<1>3. ASSUME v \notin W PROVE HasRank(absorb(W, v), r + 1)
  <2> DEFINE A == absorb(W, v)
  <2>1. A \in SUBSET Vectors /\ IsSpace(A)
    BY <1>1, AbsorbSpace
  <2>2. Cardinality(A) = 2 * 2 ^ r
    BY <1>1, <1>3, AbsorbDoubles
  <2>3. r < piece_count
    <3> SUFFICES ASSUME r = piece_count PROVE FALSE
      BY <1>1
    <3>1. Cardinality(Vectors) = 2 ^ r
      BY <1>1, PowerIsCardinality DEF Vectors
    <3>2. W = Vectors
      BY <1>1, <3>1, VectorsFinite, FS_Subset
    <3> QED
      BY <1>3, <3>2
  <2>4. 2 ^ (r + 1) = 2 * 2 ^ r
    BY <1>1, <2>3, PowersDouble
  <2> QED
    BY <1>1, <2>1, <2>2, <2>3, <2>4 DEF HasRank
<1> QED
  BY <1>2, <1>3

-----------------------------------------------------------------------------
(* Spans                                                                   *)

LEMMA SpanIsLeast ==
  ASSUME NEW S \in SUBSET Vectors
  PROVE  /\ Span(S) \in SUBSET Vectors /\ IsSpace(Span(S)) /\ S \subseteq Span(S)
         /\ \A W \in SUBSET Vectors :
              IsSpace(W) /\ S \subseteq W => Span(S) \subseteq W
<1>1. Span(S) \in SUBSET Vectors /\ S \subseteq Span(S)
  BY DEF Span
<1>2. {} \in Span(S)
  BY ZeroVector DEF Span, IsSpace
<1>3. ASSUME NEW v \in Span(S), NEW w \in Span(S) PROVE Add(v, w) \in Span(S)
  <2>1. Add(v, w) \in Vectors
    BY <1>1, AddLaws
  <2>2. ASSUME NEW W \in SUBSET Vectors, IsSpace(W), S \subseteq W
        PROVE  Add(v, w) \in W
    <3>1. v \in W /\ w \in W
      BY <2>2 DEF Span
    <3> QED
      BY <2>2, <3>1 DEF IsSpace
  <2> QED
    BY <2>1, <2>2 DEF Span
<1>4. IsSpace(Span(S))
  BY <1>2, <1>3 DEF IsSpace
<1>5. \A W \in SUBSET Vectors : IsSpace(W) /\ S \subseteq W => Span(S) \subseteq W
  BY DEF Span
<1> QED
  BY <1>1, <1>4, <1>5

\* A decoder that knows the span of S and absorbs v knows that of both.
LEMMA SpanAbsorb ==
  ASSUME NEW S \in SUBSET Vectors, NEW v \in Vectors
  PROVE  absorb(Span(S), v) = Span(S \cup {v})
<1> DEFINE W == Span(S)
           U == Span(S \cup {v})
           A == absorb(W, v)
<1>1. /\ W \in SUBSET Vectors /\ IsSpace(W) /\ S \subseteq W
      /\ \A X \in SUBSET Vectors : IsSpace(X) /\ S \subseteq X => W \subseteq X
  BY SpanIsLeast
<1>2. /\ U \in SUBSET Vectors /\ IsSpace(U) /\ S \cup {v} \subseteq U
      /\ \A X \in SUBSET Vectors :
           IsSpace(X) /\ S \cup {v} \subseteq X => U \subseteq X
  <2>1. S \cup {v} \in SUBSET Vectors
    OBVIOUS
  <2> QED
    BY <2>1, SpanIsLeast
<1> HIDE DEF W, U
<1>3. /\ A \in SUBSET Vectors /\ IsSpace(A) /\ W \subseteq A /\ v \in A
      /\ \A X \in SUBSET Vectors :
           IsSpace(X) /\ W \subseteq X /\ v \in X => A \subseteq X
  BY <1>1, AbsorbSpace
<1> HIDE DEF A
<1>4. U \subseteq A
  BY <1>1, <1>2, <1>3
<1>5. A \subseteq U
  BY <1>1, <1>2, <1>3
<1> QED
  BY <1>4, <1>5 DEF A, W, U

LEMMA SpanOfNothing == Span({}) = NothingKnown
<1>1. NothingKnown \in SUBSET Vectors /\ IsSpace(NothingKnown)
  BY NothingHasRankZero DEF HasRank
<1>2. Span({}) \subseteq NothingKnown /\ {} \in Span({})
  BY <1>1, SpanIsLeast DEF IsSpace
<1> QED
  BY <1>2 DEF NothingKnown

-----------------------------------------------------------------------------
(* The inductive invariant                                                 *)

Vecs(A) == {p.vec : p \in A}

\* A decoder knows the span of the pieces A that it absorbed, all of its
\* generation, and is not done.
DecoderSound(x, A) ==
  /\ x.last_activity \in Nat
  /\ x.known = Span(Vecs(A)) /\ ~ is_complete(x.known)
  /\ \A p \in A : p.gen = x.gen

RecoderFields == {"gen", "fits", "known", "stored", "last_activity"}

\* A relay knows a space whose dimension is the number n of pieces that it
\* has buffered and emitted.
RecoderSound(x, n) ==
  /\ DOMAIN x = RecoderFields /\ x.last_activity \in Nat
  /\ x.stored = n /\ HasRank(x.known, n)

DecodersSound(T, A) ==
  DOMAIN T \subseteq Topics /\ \A t \in DOMAIN T : DecoderSound(T[t], A[t])

RecodersSound(T, E) ==
  DOMAIN T \subseteq Topics /\ \A t \in DOMAIN T : RecoderSound(T[t], E[t])

\* The pieces A were delivered n times.
DeliveredOnce(A, n) ==
  /\ n <= IF is_complete(Span(Vecs(A))) THEN 1 ELSE 0
  /\ is_complete(Span(Vecs(A))) /\ (\A p \in A : p.gen \in WellFormed) => n = 1

PInv ==
  /\ tick \in Nat
  /\ absorbed \in [Topics -> SUBSET Pieces] /\ delivered \in [Topics -> Nat]
  /\ emitted \in [Topics -> Nat]
  /\ DecodersSound(decoders, absorbed) /\ RecodersSound(recoders, emitted)
  /\ \A t \in Topics : DeliveredOnce(absorbed[t], delivered[t])

-----------------------------------------------------------------------------
(* Tables                                                                  *)

LEMMA RemoveOne ==
  ASSUME NEW T, NEW t
  PROVE  /\ DOMAIN Remove(T, t) = DOMAIN T \ {t}
         /\ \A s \in DOMAIN T : s # t => Remove(T, t)[s] = T[s]
BY DEF Remove, Restrict

LEMMA SweepIdle ==
  ASSUME NEW T, NEW c
  PROVE  /\ DOMAIN sweep_idle(T, c) = {s \in DOMAIN T : T[s].last_activity >= c}
         /\ \A s \in DOMAIN sweep_idle(T, c) : sweep_idle(T, c)[s] = T[s]
BY DEF sweep_idle, Restrict

LEMMA DecodersPut ==
  ASSUME NEW T, NEW A, NEW B, DecodersSound(T, A), NEW t \in Topics, NEW x,
         DecoderSound(x, B[t]), \A s \in Topics : s # t => B[s] = A[s]
  PROVE  DecodersSound(Put(T, t, x), B)
<1> DEFINE U == Put(T, t, x)
<1>1. /\ DOMAIN U = DOMAIN T \cup {t} /\ U[t] = x
      /\ \A s \in DOMAIN T : s # t => U[s] = T[s]
  BY DEF Put
<1> HIDE DEF U
<1>2. ASSUME NEW s \in DOMAIN U PROVE DecoderSound(U[s], B[s])
  BY <1>1 DEF DecodersSound
<1>3. DecodersSound(U, B)
  BY <1>1, <1>2 DEF DecodersSound
<1> QED
  BY <1>3 DEF U

LEMMA RecodersPut ==
  ASSUME NEW T, NEW E, NEW F, RecodersSound(T, E), NEW t \in Topics, NEW x,
         RecoderSound(x, F[t]), \A s \in Topics : s # t => F[s] = E[s]
  PROVE  RecodersSound(Put(T, t, x), F)
<1> DEFINE U == Put(T, t, x)
<1>1. /\ DOMAIN U = DOMAIN T \cup {t} /\ U[t] = x
      /\ \A s \in DOMAIN T : s # t => U[s] = T[s]
  BY DEF Put
<1> HIDE DEF U
<1>2. ASSUME NEW s \in DOMAIN U PROVE RecoderSound(U[s], F[s])
  BY <1>1 DEF RecodersSound
<1>3. RecodersSound(U, F)
  BY <1>1, <1>2 DEF RecodersSound
<1> QED
  BY <1>3 DEF U

LEMMA TablesShrink ==
  ASSUME NEW T, NEW U, DOMAIN U \subseteq DOMAIN T,
         \A s \in DOMAIN U : U[s] = T[s]
  PROVE  /\ \A A : DecodersSound(T, A) => DecodersSound(U, A)
         /\ \A E : RecodersSound(T, E) => RecodersSound(U, E)
BY DEF DecodersSound, RecodersSound

LEMMA RemoveShrinks ==
  ASSUME NEW T, NEW t
  PROVE  /\ \A A : DecodersSound(T, A) => DecodersSound(Remove(T, t), A)
         /\ \A E : RecodersSound(T, E) => RecodersSound(Remove(T, t), E)
<1>1. /\ DOMAIN Remove(T, t) \subseteq DOMAIN T
      /\ \A s \in DOMAIN Remove(T, t) : Remove(T, t)[s] = T[s]
  BY RemoveOne
<1> QED
  BY <1>1, TablesShrink

LEMMA SweepShrinks ==
  ASSUME NEW T, NEW c
  PROVE  /\ \A A : DecodersSound(T, A) => DecodersSound(sweep_idle(T, c), A)
         /\ \A E : RecodersSound(T, E) => RecodersSound(sweep_idle(T, c), E)
<1>1. /\ DOMAIN sweep_idle(T, c) \subseteq DOMAIN T
      /\ \A s \in DOMAIN sweep_idle(T, c) : sweep_idle(T, c)[s] = T[s]
  BY SweepIdle
<1> QED
  BY <1>1, TablesShrink

-----------------------------------------------------------------------------
(* Steps                                                                   *)

LEMMA EntryFields ==
  /\ \A gen, fits, known, now :
       LET x == DecoderEntry(gen, fits, known, now)
       IN x.gen = gen /\ x.known = known /\ x.last_activity = now
  /\ \A gen, fits, known, n, now :
       LET x == RecoderEntry(gen, fits, known, n, now)
       IN /\ DOMAIN x = RecoderFields /\ x.known = known /\ x.stored = n
          /\ x.last_activity = now
BY DEF DecoderEntry, RecoderEntry, RecoderFields

\* The roles or the clock change, and no history does.
LEMMA RolesStep ==
  ASSUME PInv, tick' \in Nat, UNCHANGED history,
         DecodersSound(decoders', absorbed), RecodersSound(recoders', emitted)
  PROVE  PInv'
BY DEF PInv, history

LEMMA RegisterTopicStep ==
  ASSUME PInv, NEW t \in Topics, NEW gen, NEW fits, register_topic(t, gen, fits)
  PROVE  PInv'
<1> DEFINE x == DecoderEntry(gen, fits, NothingKnown, tick + 1)
<1>1. /\ tick \in Nat /\ tick' = tick + 1
      /\ decoders' = Put(decoders, t, x)
      /\ absorbed' = [absorbed EXCEPT ![t] = {}]
      /\ delivered' = [delivered EXCEPT ![t] = 0]
      /\ UNCHANGED << recoders, emitted >>
  BY DEF PInv, register_topic, Tick
<1>2. /\ absorbed' \in [Topics -> SUBSET Pieces] /\ absorbed'[t] = {}
      /\ delivered' \in [Topics -> Nat] /\ delivered'[t] = 0
      /\ \A s \in Topics : s # t => absorbed'[s] = absorbed[s]
      /\ \A s \in Topics : s # t => delivered'[s] = delivered[s]
  BY <1>1 DEF PInv
<1>3. Span(Vecs({})) = NothingKnown /\ ~ is_complete(NothingKnown)
  BY SpanOfNothing, NothingHasRankZero DEF Vecs, is_complete
<1>4. DecoderSound(x, absorbed'[t])
  BY <1>1, <1>2, <1>3, EntryFields DEF DecoderSound
<1> HIDE DEF x
<1>5. DecodersSound(decoders', absorbed')
  <2>1. DecodersSound(decoders, absorbed)
    BY DEF PInv
  <2>2. \A s \in Topics : s # t => absorbed'[s] = absorbed[s]
    BY <1>2
  <2>3. DecodersSound(Put(decoders, t, x), absorbed')
    BY <1>4, <2>1, <2>2, DecodersPut
  <2> QED
    BY <1>1, <2>3
<1>6. \A s \in Topics : DeliveredOnce(absorbed'[s], delivered'[s])
  BY <1>2, <1>3 DEF PInv, DeliveredOnce
<1> QED
  BY <1>1, <1>2, <1>5, <1>6 DEF PInv

LEMMA RegisterRelayStep ==
  ASSUME PInv, NEW t \in Topics, NEW gen, NEW fits, register_relay(t, gen, fits)
  PROVE  PInv'
<1> DEFINE x == RecoderEntry(gen, fits, NothingKnown, 0, tick + 1)
<1>1. /\ tick \in Nat /\ tick' = tick + 1
      /\ recoders' = Put(recoders, t, x)
      /\ emitted' = [emitted EXCEPT ![t] = 0]
      /\ UNCHANGED << decoders, absorbed, delivered >>
  BY DEF PInv, register_relay, Tick
<1>2. /\ emitted' \in [Topics -> Nat] /\ emitted'[t] = 0
      /\ \A s \in Topics : s # t => emitted'[s] = emitted[s]
  BY <1>1 DEF PInv
<1>3. RecoderSound(x, emitted'[t])
  BY <1>1, <1>2, EntryFields, NothingHasRankZero DEF RecoderSound
<1> HIDE DEF x
<1>4. RecodersSound(recoders', emitted')
  BY <1>1, <1>2, <1>3, RecodersPut DEF PInv
<1> QED
  BY <1>1, <1>2, <1>4 DEF PInv

LEMMA LifecycleStep ==
  ASSUME PInv, NEW t, NEW max_idle,
         \/ unregister_topic(t) \/ unregister_relay(t)
         \/ evict_idle_topics(max_idle) \/ evict_idle_relays(max_idle)
  PROVE  PInv'
<1>1. /\ tick' \in Nat /\ UNCHANGED history
      /\ DecodersSound(decoders, absorbed) /\ RecodersSound(recoders, emitted)
  BY DEF PInv, Tick, unregister_topic, unregister_relay, evict_idle_topics,
         evict_idle_relays
<1>2. CASE unregister_topic(t) \/ evict_idle_topics(max_idle)
  <2>1. DecodersSound(decoders', absorbed) /\ recoders' = recoders
    BY <1>1, <1>2, RemoveShrinks, SweepShrinks
       DEF unregister_topic, evict_idle_topics
  <2> QED
    BY <1>1, <2>1, RolesStep
<1>3. CASE unregister_relay(t) \/ evict_idle_relays(max_idle)
  <2>1. RecodersSound(recoders', emitted) /\ decoders' = decoders
    BY <1>1, <1>3, RemoveShrinks, SweepShrinks
       DEF unregister_relay, evict_idle_relays
  <2> QED
    BY <1>1, <2>1, RolesStep
<1> QED
  BY <1>2, <1>3

\* Rejections and failures leave everything but the event alone.
LEMMA QuietStep ==
  ASSUME PInv, UNCHANGED << decoders, recoders, tick, history >>
  PROVE  PInv'
BY RolesStep DEF PInv

\* With a piece more, a decoder knows the span of one piece more.
LEMMA AbsorbedSpan ==
  ASSUME PInv, NEW piece \in Pieces, NEW t \in DOMAIN decoders
  PROVE  absorb(decoders[t].known, piece.vec) =
           Span(Vecs(absorbed[t] \cup {piece}))
<1> DEFINE A == absorbed[t]
<1>1. DecoderSound(decoders[t], A) /\ A \in SUBSET Pieces
  BY DEF PInv, DecodersSound
<1>2. Vecs(A) \in SUBSET Vectors /\ piece.vec \in Vectors
  BY <1>1 DEF Vecs, Pieces
<1>3. Vecs(A \cup {piece}) = Vecs(A) \cup {piece.vec}
  BY DEF Vecs
<1>4. decoders[t].known = Span(Vecs(A))
  BY <1>1 DEF DecoderSound
<1> QED
  BY <1>2, <1>3, <1>4, SpanAbsorb

LEMMA AbsorbStep ==
  ASSUME PInv, NEW piece \in Pieces, NEW t \in DOMAIN decoders,
         verify(decoders[t].gen, piece),
         absorb_or_deliver(t, decoders[t], piece)
  PROVE  PInv'
<1> DEFINE x == decoders[t]
           known == absorb(x.known, piece.vec)
           A == absorbed[t]
           y == DecoderEntry(x.gen, x.fits, known, tick + 1)
<1>1. /\ t \in Topics /\ tick \in Nat /\ DecoderSound(x, A)
      /\ A \in SUBSET Pieces /\ DeliveredOnce(A, delivered[t])
  BY DEF PInv, DecodersSound
<1>2. /\ tick' = tick + 1 /\ absorbed' = [absorbed EXCEPT ![t] = @ \cup {piece}]
      /\ UNCHANGED << recoders, emitted >>
  BY DEF absorb_or_deliver, Tick
<1>3. /\ absorbed' \in [Topics -> SUBSET Pieces]
      /\ absorbed'[t] = A \cup {piece}
      /\ \A s \in Topics : s # t => absorbed'[s] = absorbed[s]
  BY <1>1, <1>2 DEF PInv
<1>4. known = Span(Vecs(A \cup {piece}))
  BY AbsorbedSpan
<1>5. delivered \in [Topics -> Nat] /\ delivered[t] = 0
  BY <1>1 DEF PInv, DeliveredOnce, DecoderSound
<1>6. CASE is_complete(known)
  <2>1. /\ decoders' = Remove(decoders, t)
        /\ \/ delivered' = [delivered EXCEPT ![t] = @ + 1]
           \/ delivered' = delivered /\ x.gen \notin WellFormed
    BY <1>6 DEF absorb_or_deliver
  <2>2. /\ delivered' \in [Topics -> Nat]
        /\ \/ delivered'[t] = 1
           \/ delivered'[t] = 0 /\ x.gen \notin WellFormed
        /\ \A s \in Topics : s # t => delivered'[s] = delivered[s]
    BY <1>1, <1>5, <2>1
  <2>3. \A s \in Topics : DeliveredOnce(absorbed'[s], delivered'[s])
    <3>1. is_complete(Span(Vecs(absorbed'[t])))
      BY <1>3, <1>4, <1>6
    <3>2. piece \in absorbed'[t] /\ piece.gen = x.gen
      BY <1>3 DEF verify
    <3>3. DeliveredOnce(absorbed'[t], delivered'[t])
      BY <2>2, <3>1, <3>2 DEF DeliveredOnce
    <3> QED
      BY <1>3, <2>2, <3>3 DEF PInv
  <2>4. DecodersSound(decoders', absorbed')
    <3>1. /\ DOMAIN decoders' = DOMAIN decoders \ {t}
          /\ \A s \in DOMAIN decoders : s # t => decoders'[s] = decoders[s]
      BY <2>1, RemoveOne
    <3> QED
      BY <1>3, <3>1 DEF PInv, DecodersSound
  <2> QED
    BY <1>1, <1>2, <1>3, <2>2, <2>3, <2>4 DEF PInv
<1>7. CASE ~ is_complete(known)
  <2>1. decoders' = Put(decoders, t, y) /\ delivered' = delivered
    BY <1>7 DEF absorb_or_deliver
  <2>2. \A s \in Topics : DeliveredOnce(absorbed'[s], delivered'[s])
    <3>1. ~ is_complete(Span(Vecs(absorbed'[t]))) /\ delivered'[t] = 0
      BY <1>3, <1>4, <1>5, <1>7, <2>1
    <3>2. DeliveredOnce(absorbed'[t], delivered'[t])
      BY <3>1 DEF DeliveredOnce
    <3> QED
      BY <1>3, <2>1, <3>2 DEF PInv
  <2>3. \A p \in A \cup {piece} : p.gen = x.gen
    BY <1>1 DEF DecoderSound, verify
  <2>4. y.gen = x.gen /\ y.known = known /\ y.last_activity = tick + 1
    BY EntryFields
  <2> HIDE DEF x, known, A, y
  <2>5. DecoderSound(y, absorbed'[t])
    BY <1>1, <1>3, <1>4, <1>7, <2>3, <2>4 DEF DecoderSound
  <2>6. DecodersSound(decoders', absorbed')
    BY <1>1, <1>3, <2>1, <2>5, DecodersPut DEF PInv
  <2> QED
    BY <1>1, <1>2, <1>3, <1>5, <2>1, <2>2, <2>6 DEF PInv
<1> QED
  BY <1>6, <1>7

LEMMA DecoderStep ==
  ASSUME PInv, NEW piece \in Pieces, piece.topic \in DOMAIN decoders,
         decoder_path(piece)
  PROVE  PInv'
<1> DEFINE t == piece.topic
           x == decoders[t]
<1>1. CASE reject(t)
  BY <1>1, QuietStep DEF reject
<1>2. CASE /\ decoders' = Remove(decoders, t)
           /\ UNCHANGED << recoders, tick, history >>
  <2>1. DecodersSound(decoders', absorbed)
    BY <1>2, RemoveShrinks DEF PInv
  <2> QED
    BY <1>2, <2>1, RolesStep DEF PInv
<1>3. CASE verify(x.gen, piece) /\ absorb_or_deliver(t, x, piece)
  BY <1>3, AbsorbStep
<1> QED
  BY <1>1, <1>2, <1>3 DEF decoder_path

LEMMA RedundantStep ==
  ASSUME PInv, NEW t \in DOMAIN recoders, redundant_piece(t, recoders[t])
  PROVE  PInv'
<1> DEFINE x == recoders[t]
           y == [x EXCEPT !.last_activity = tick + 1]
<1>1. /\ t \in Topics /\ tick \in Nat /\ RecoderSound(x, emitted[t])
      /\ DecodersSound(decoders, absorbed) /\ RecodersSound(recoders, emitted)
  BY DEF PInv, RecodersSound
<1>2. /\ tick' = tick + 1 /\ recoders' = Put(recoders, t, y)
      /\ UNCHANGED << decoders, history >>
  BY DEF redundant_piece, Tick
<1>3. RecoderSound(y, emitted[t])
  <2>1. /\ DOMAIN y = RecoderFields /\ y.last_activity = tick + 1
        /\ y.stored = x.stored /\ y.known = x.known
    BY <1>1 DEF RecoderSound, RecoderFields
  <2> QED
    BY <1>1, <2>1 DEF RecoderSound
<1> HIDE DEF y
<1>4. RecodersSound(Put(recoders, t, y), emitted)
  BY <1>1, <1>3, RecodersPut
<1> QED
  BY <1>1, <1>2, <1>4, RolesStep

LEMMA ForwardStep ==
  ASSUME PInv, NEW piece \in Pieces, NEW t \in DOMAIN recoders,
         NEW known, known = absorb(recoders[t].known, piece.vec),
         useful_count(known) # useful_count(recoders[t].known),
         recode_and_forward(t, recoders[t], known)
  PROVE  PInv'
<1> DEFINE x == recoders[t]
           n == emitted[t]
           y == RecoderEntry(x.gen, x.fits, known, x.stored + 1, tick + 1)
<1>1. /\ t \in Topics /\ tick \in Nat /\ n \in Nat /\ RecoderSound(x, n)
      /\ emitted \in [Topics -> Nat] /\ RecodersSound(recoders, emitted)
  BY DEF PInv, RecodersSound
<1>2. /\ tick' = tick + 1 /\ recoders' = Put(recoders, t, y)
      /\ emitted' = [emitted EXCEPT ![t] = @ + 1]
      /\ UNCHANGED << decoders, absorbed, delivered >>
  BY DEF recode_and_forward, Tick
<1>3. /\ emitted' \in [Topics -> Nat] /\ emitted'[t] = n + 1
      /\ \A s \in Topics : s # t => emitted'[s] = emitted[s]
  BY <1>1, <1>2
<1>4. HasRank(known, n + 1)
  <2>1. HasRank(x.known, n) /\ piece.vec \in Vectors
    BY <1>1 DEF RecoderSound, Pieces
  <2> QED
    BY <2>1, RankStep
<1>5. RecoderSound(y, emitted'[t])
  <2>1. x.stored = n
    BY <1>1 DEF RecoderSound
  <2> QED
    BY <1>1, <1>3, <1>4, <2>1, EntryFields DEF RecoderSound
<1> HIDE DEF y
<1>6. RecodersSound(Put(recoders, t, y), emitted')
  <2>1. \A s \in Topics : s # t => emitted'[s] = emitted[s]
    BY <1>3
  <2> QED
    BY <1>1, <1>5, <2>1, RecodersPut
<1> QED
  BY <1>1, <1>2, <1>3, <1>6 DEF PInv

LEMMA RelayStep ==
  ASSUME PInv, NEW piece \in Pieces, piece.topic \in DOMAIN recoders,
         relay_path(piece)
  PROVE  PInv'
<1> DEFINE t == piece.topic
           x == recoders[t]
           known == absorb(x.known, piece.vec)
<1>1. CASE reject(t) \/ fail(t)
  BY <1>1, QuietStep DEF reject, fail
<1>2. CASE redundant_piece(t, x)
  BY <1>2, RedundantStep
<1>3. CASE /\ useful_count(known) # useful_count(x.known)
           /\ recode_and_forward(t, x, known)
  BY <1>3, ForwardStep
<1> QED
  BY <1>1, <1>2, <1>3 DEF relay_path

-----------------------------------------------------------------------------
(* The theorems                                                            *)

\* The mux keeps PInv: what decoders know is the span of what they absorbed,
\* what relays know has the dimension of what they buffered.
THEOREM PInvHolds == Spec => []PInv
<1>1. Init => PInv
  <2> SUFFICES ASSUME Init PROVE PInv
    OBVIOUS
  <2>1. DOMAIN decoders = {} /\ DOMAIN recoders = {}
    BY DEF Init, EmptyTable
  <2>2. Span(Vecs({})) = NothingKnown /\ ~ is_complete(NothingKnown)
    BY SpanOfNothing, NothingHasRankZero DEF Vecs, is_complete
  <2>3. \A t \in Topics : DeliveredOnce(absorbed[t], delivered[t])
    BY <2>2 DEF Init, DeliveredOnce
  <2>4. /\ tick \in Nat /\ absorbed \in [Topics -> SUBSET Pieces]
        /\ delivered \in [Topics -> Nat] /\ emitted \in [Topics -> Nat]
    BY DEF Init
  <2> QED
    BY <2>1, <2>3, <2>4 DEF PInv, DecodersSound, RecodersSound
<1>2. PInv /\ [Next]_vars => PInv'
  <2> SUFFICES ASSUME PInv, [Next]_vars PROVE PInv'
    OBVIOUS
  <2>1. ASSUME NEW t \in Topics, NEW gen, NEW fits,
               register_topic(t, gen, fits) \/ register_relay(t, gen, fits)
        PROVE  PInv'
    BY <2>1, RegisterTopicStep, RegisterRelayStep
  <2>2. ASSUME NEW t, unregister_topic(t) \/ unregister_relay(t) PROVE PInv'
    BY <2>2, LifecycleStep
  <2>3. ASSUME NEW max_idle,
               evict_idle_topics(max_idle) \/ evict_idle_relays(max_idle)
        PROVE  PInv'
    BY <2>3, LifecycleStep
  <2>4. ASSUME NEW piece \in Pieces, handle_pubsub_body(piece) PROVE PInv'
    BY <2>4, RelayStep, DecoderStep, QuietStep DEF handle_pubsub_body, reject
  <2>5. CASE pass_through
    BY <2>5, QuietStep DEF pass_through
  <2>6. CASE UNCHANGED vars
    BY <2>6, QuietStep DEF vars, history
  <2> QED
    BY <2>1, <2>2, <2>3, <2>4, <2>5, <2>6 DEF Next
<1> QED
  BY <1>1, <1>2, PTL DEF Spec

\* RelayBound: the rank gate of relay_path lets at most piece_count pieces
\* through, and what the relay buffers is a basis of what it knows.
THEOREM RelayBoundHolds == Spec => []RelayBound
<1>1. PInv => RelayBound
  <2> SUFFICES ASSUME PInv, NEW t \in DOMAIN recoders
               PROVE  /\ emitted[t] <= piece_count
                      /\ recoders[t].stored = emitted[t]
                      /\ recoders[t].stored = useful_count(recoders[t].known)
    BY DEF RelayBound
  <2>1. RecoderSound(recoders[t], emitted[t])
    BY DEF PInv, RecodersSound
  <2>2. useful_count(recoders[t].known) = emitted[t]
    BY <2>1, UsefulCount DEF RecoderSound
  <2> QED
    BY <2>1, <2>2, PieceCountAssumption DEF RecoderSound, HasRank
<1> QED
  BY <1>1, PInvHolds, PTL

\* DeliveredExactly: decoder_path delivers a generation once, when the pieces
\* absorbed span it and not before, always if they come of a source's data;
\* and all of them are of the registered generation.
THEOREM DeliveredExactlyHolds == Spec => []DeliveredExactly
<1>1. PInv => DeliveredExactly
  <2> SUFFICES ASSUME PInv, NEW t \in Topics
               PROVE  /\ DeliveredOnce(absorbed[t], delivered[t])
                      /\ is_complete(Span(Vecs(absorbed[t]))) =>
                           t \notin DOMAIN decoders
                      /\ t \in DOMAIN decoders =>
                           \A p \in absorbed[t] : p.gen = decoders[t].gen
    BY DEF DeliveredExactly, DeliveredOnce, Whole, Vecs
  <2>1. DeliveredOnce(absorbed[t], delivered[t])
    BY DEF PInv
  <2>2. t \in DOMAIN decoders => DecoderSound(decoders[t], absorbed[t])
    BY DEF PInv, DecodersSound
  <2> QED
    BY <2>1, <2>2 DEF DecoderSound
<1> QED
  BY <1>1, PInvHolds, PTL

\* The last use of every role was counted by the clock.
Clocked ==
  /\ tick \in Nat
  /\ \A t \in DOMAIN decoders : decoders[t].last_activity \in Nat
  /\ \A t \in DOMAIN recoders : recoders[t].last_activity \in Nat

\* What a sweep drops was not used since the tick before.
LEMMA SweptIsIdle ==
  ASSUME NEW T, NEW now \in Nat, NEW max_idle \in Nat,
         \A s \in DOMAIN T : T[s].last_activity \in Nat,
         NEW t \in DOMAIN T \ DOMAIN sweep_idle(T, saturating_sub(now, max_idle))
  PROVE  T[t].last_activity < now
<1>1. ~ (T[t].last_activity >= saturating_sub(now, max_idle))
  BY SweepIdle
<1>2. saturating_sub(now, max_idle) \in Nat /\ saturating_sub(now, max_idle) <= now
  BY DEF saturating_sub
<1> QED
  BY <1>1, <1>2

\* RolesEndForCause: a role of state.rs or mux.rs ends by its own unregister,
\* a sweep while idle, a delivery, pieces that do not decode, or dimensions
\* that do not fit.
THEOREM RolesEndForCauseHolds == Spec => RolesEndForCause
<1> DEFINE DecoderEnds(t) ==
             \/ event' \in {Event("unregister_topic", t),
                            Event("PubsubDelivered", t),
                            Event("register_relay", t)}
             \/ /\ event'.kind = "evict_idle_topics"
                /\ decoders[t].last_activity < tick
             \/ /\ event' = Event("Rejected", t)
                /\ \/ ~ decoders[t].fits
                   \/ decoders[t].gen \notin WellFormed /\ Whole(t)'
           RecoderEnds(t) ==
             \/ event' \in {Event("unregister_relay", t),
                            Event("register_topic", t)}
             \/ /\ event'.kind = "evict_idle_relays"
                /\ recoders[t].last_activity < tick
           Cause ==
             /\ \A t \in DOMAIN decoders \ DOMAIN decoders' : DecoderEnds(t)
             /\ \A t \in DOMAIN recoders \ DOMAIN recoders' : RecoderEnds(t)
<1>1. PInv => Clocked
  BY DEF PInv, Clocked, DecodersSound, RecodersSound, DecoderSound, RecoderSound
<1>2. PInv /\ [Next]_vars => [Cause]_vars
  <2> SUFFICES ASSUME PInv, Clocked, Next PROVE Cause
    BY <1>1
  <2>1. ASSUME DOMAIN decoders \subseteq DOMAIN decoders',
               DOMAIN recoders \subseteq DOMAIN recoders'
        PROVE  Cause
    BY <2>1
  <2>2. ASSUME NEW T, NEW t, NEW x PROVE DOMAIN T \subseteq DOMAIN Put(T, t, x)
    BY DEF Put
  <2>3. ASSUME NEW T, NEW t PROVE DOMAIN T \ DOMAIN Remove(T, t) \subseteq {t}
    BY RemoveOne
  <2>4. ASSUME NEW t, NEW gen, NEW fits,
               register_topic(t, gen, fits) \/ register_relay(t, gen, fits)
        PROVE  Cause
    BY <2>1, <2>2, <2>4 DEF register_topic, register_relay
  <2>5. ASSUME NEW t, unregister_topic(t) \/ unregister_relay(t) PROVE Cause
    BY <2>3, <2>5 DEF unregister_topic, unregister_relay
  <2>6. ASSUME NEW max_idle \in 0 .. MaxIdle,
               evict_idle_topics(max_idle) \/ evict_idle_relays(max_idle)
        PROVE  Cause
    <3>1. max_idle \in Nat
      BY BoundsAssumption
    <3>2. CASE evict_idle_topics(max_idle)
      BY <3>1, <3>2, SweptIsIdle DEF Clocked, evict_idle_topics, Event
    <3>3. CASE evict_idle_relays(max_idle)
      BY <3>1, <3>3, SweptIsIdle DEF Clocked, evict_idle_relays, Event
    <3> QED
      BY <2>6, <3>2, <3>3
  <2>7. ASSUME NEW piece \in Pieces, handle_pubsub_body(piece) PROVE Cause
    <3> DEFINE t == piece.topic
    <3>1. CASE reject(t)
      BY <2>1, <3>1 DEF reject
    <3>2. CASE relay_path(piece)
      <4>1. decoders' = decoders
        BY <3>2 DEF relay_path, reject, fail, redundant_piece, recode_and_forward
      <4>2. DOMAIN recoders \subseteq DOMAIN recoders'
        BY <2>2, <3>2
           DEF relay_path, reject, fail, redundant_piece, recode_and_forward
      <4> QED
        BY <2>1, <4>1, <4>2
    <3>3. CASE t \in DOMAIN decoders /\ decoder_path(piece)
      <4>1. recoders' = recoders
        BY <3>3 DEF decoder_path, reject, absorb_or_deliver
      <4>2. CASE decoders' = decoders
        BY <2>1, <4>1, <4>2
      <4>3. CASE /\ ~ decoders[t].fits /\ decoders' = Remove(decoders, t)
                 /\ event' = Event("Rejected", t)
        BY <2>3, <4>1, <4>3 DEF Event
      <4>4. CASE absorb_or_deliver(t, decoders[t], piece)
        <5>1. CASE /\ decoders' = Remove(decoders, t)
                   /\ event' = Event("PubsubDelivered", t)
          BY <2>3, <4>1, <5>1
        <5>2. CASE \E y : decoders' = Put(decoders, t, y)
          BY <2>1, <2>2, <4>1, <5>2
        <5>3. CASE /\ is_complete(absorb(decoders[t].known, piece.vec))
                   /\ decoders[t].gen \notin WellFormed
                   /\ decoders' = Remove(decoders, t)
                   /\ event' = Event("Rejected", t)
          <6>1. absorbed'[t] = absorbed[t] \cup {piece}
            BY <3>3, <4>4 DEF absorb_or_deliver, PInv, DecodersSound
          <6>2. Whole(t)'
            BY <3>3, <5>3, <6>1, AbsorbedSpan DEF Whole, Vecs
          <6> QED
            BY <2>3, <4>1, <5>3, <6>2
        <5> QED
          BY <4>4, <5>1, <5>2, <5>3 DEF absorb_or_deliver
      <4> QED
        BY <3>3, <4>2, <4>3, <4>4 DEF decoder_path, reject
    <3> QED
      BY <2>7, <3>1, <3>2, <3>3 DEF handle_pubsub_body
  <2>8. CASE pass_through
    BY <2>1, <2>8 DEF pass_through
  <2> QED
    BY <2>4, <2>5, <2>6, <2>7, <2>8 DEF Next
<1>3. [][Cause]_vars => RolesEndForCause
  BY PTL DEF RolesEndForCause
<1> QED
  BY <1>1, <1>2, <1>3, PInvHolds, PTL DEF Spec

=============================================================================
