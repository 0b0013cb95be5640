--------------------------- MODULE SongPlaybackProofs -------------------------
(***************************************************************************)
(* Proofs about a song: from the bytes of its file to what is heard and    *)
(* shown of it.                                                            *)
(*                                                                         *)
(* The timeline is exact for every file, division, tempo map and limit of  *)
(* the integers.  What the decoder lets through is enough for the clock of *)
(* the compilation (ReadInv: a tick, and a tempo of which a quarter note   *)
(* fits); the merge takes the events in their order, so the tempo in hand  *)
(* is the one set last (Merged); and carrying the remainder makes the      *)
(* clock an identity (Clock).  Musical time is a sum over ticks and an     *)
(* encoded number a fold over digits, both defined by recursion over       *)
(* finite sets: the lemmas on folds give them by induction on sets of      *)
(* sets.                                                                   *)
(*                                                                         *)
(* The media clock of a session is exact for every sample rate, every      *)
(* division of the frames into blocks and every limit of the integers.     *)
(* The invariant is the identity that carrying the remainder maintains; it *)
(* is linear in the products, which appear as terms of their own in the    *)
(* lemmas below.  Every event is delivered once: the loop of a render ends *)
(* where it should because a set of numbers has a least element.           *)
(*                                                                         *)
(* A song's playback is such a session, whatever becomes of its lyrics.    *)
(* The cues follow the timeline (CueInv) because extraction takes the      *)
(* least event ahead; the display is a prefix of the cues (ShowInv); and   *)
(* both count the same times as the session, so lyrics on display are      *)
(* those of the events delivered.                                          *)
(*                                                                         *)
(* The lyrics are the text of their events: a fold from the left passes    *)
(* through the values of its loop, so the operations stand for all of the  *)
(* text that the loop has seen (TilesTo) and the storage charged is the    *)
(* sum of what the records keep (TextInv).                                 *)
(***************************************************************************)
EXTENDS SongPlayback, SequenceTheorems, FiniteSetTheorems, WellFoundedInduction, TLAPS

-----------------------------------------------------------------------------
(* Numbers.                                                                *)

\* A set of numbers has a least element.
LEMMA LeastNumber ==
    ASSUME NEW T, T \subseteq Nat, T # {}
    PROVE  \E x \in T : \A y \in T : x <= y
<1>1. PICK x \in T : \A y \in T : <<y, x>> \notin OpToRel(<, Nat)
  BY WFMin, NatLessThanWellFounded
<1>2. ASSUME NEW y \in T PROVE x <= y
  <2>1. ~ y < x
    BY <1>1 DEF OpToRel
  <2> QED
    BY <2>1
<1> QED
  BY <1>2

\* And a bounded one has a greatest.
LEMMA GreatestUpto ==
    ASSUME NEW n \in Nat, NEW T, T \subseteq Nat, T # {}, \A x \in T : x <= n
    PROVE  \E x \in T : \A y \in T : y <= x
<1> DEFINE U == {n - x : x \in T}
<1>1. PICK m \in U : \A u \in U : m <= u
  <2>1. U \subseteq Nat /\ U # {}
    <3>1. \A x \in T : n - x \in Nat
      OBVIOUS
    <3> QED
      BY <3>1
  <2> HIDE DEF U
  <2> QED
    BY <2>1, LeastNumber
<1>2. PICK x \in T : m = n - x
  BY <1>1
<1>3. \A y \in T : n - x <= n - y
  BY <1>1, <1>2
<1>4. x \in Nat /\ T \subseteq Nat
  OBVIOUS
<1> QED
  BY <1>2, <1>3, <1>4

\* What is reached from zero by steps of one is every number.
LEMMA Counting ==
    ASSUME NEW S, 0 \in S, \A n \in Nat : n \in S => n + 1 \in S
    PROVE  Nat \subseteq S
<1> DEFINE T == Nat \ S
<1> SUFFICES ASSUME T # {} PROVE FALSE
  OBVIOUS
<1>1. PICK m \in T : \A n \in T : m <= n
  BY LeastNumber
<1>2. m # 0 /\ m - 1 \in Nat /\ m - 1 \notin T /\ (m - 1) + 1 = m
  BY <1>1
<1> QED
  BY <1>1, <1>2

LEMMA DivMod ==
    ASSUME NEW a \in Nat, NEW b \in Nat, b > 0
    PROVE  /\ a \div b \in Nat
           /\ a % b \in Nat
           /\ a % b < b
           /\ a = (a \div b) * b + (a % b)
  OBVIOUS

\* A quotient is known by its remainder.
LEMMA Quotient ==
    ASSUME NEW a \in Nat, NEW b \in Nat, b > 0, NEW q \in Nat, NEW r \in Nat,
           r < b, a = q * b + r
    PROVE  q = a \div b
<1> DEFINE p == a \div b
           s == a % b
<1>1. p \in Nat /\ s \in Nat /\ s < b /\ a = p * b + s
  BY DivMod
<1> HIDE DEF p, s
<1>2. (q - p) * b = s - r
  BY <1>1
<1>3. ~ q - p >= 1
  <2> SUFFICES ASSUME q - p >= 1 PROVE FALSE
    OBVIOUS
  <2>1. (q - p) * b >= b
    BY <1>1
  <2> QED
    BY <1>1, <1>2, <2>1
<1>4. ~ p - q >= 1
  <2> SUFFICES ASSUME p - q >= 1 PROVE FALSE
    OBVIOUS
  <2>1. (p - q) * b >= b
    BY <1>1
  <2>2. (p - q) * b = r - s
    BY <1>1
  <2> QED
    BY <1>1, <2>1, <2>2
<1> QED
  BY <1>1, <1>3, <1>4 DEF p

LEMMA ZeroIsLeast == ASSUME NEW n \in Nat PROVE 0 <= n
  OBVIOUS

LEMMA MinIsLeast ==
    ASSUME NEW T, T \subseteq Nat, T # {}
    PROVE  Min(T) \in T /\ \A y \in T : Min(T) <= y
  BY LeastNumber DEF Min

LEMMA GreatestNumber ==
    ASSUME NEW n \in Nat, NEW s \in SUBSET (1..n), s # {}
    PROVE  Max(s) \in s /\ \A x \in s : x <= Max(s)
<1>1. s \subseteq Nat /\ \A x \in s : x <= n
  OBVIOUS
<1>2. PICK m \in s : \A x \in s : x <= m
  BY <1>1, GreatestUpto
<1>3. \A x \in s : m >= x
  BY <1>1, <1>2
<1>4. Max(s) \in s /\ \A x \in s : Max(s) >= x
  BY <1>3 DEF Max
<1> QED
  BY <1>1, <1>4

-----------------------------------------------------------------------------
(* Sequences.                                                              *)

IsSequence(s) == \E T : s \in Seq(T)

LEMMA SequenceGrows ==
    ASSUME NEW s, IsSequence(s), NEW e
    PROVE  IsSequence(Append(s, e))
<1>1. PICK T : s \in Seq(T)
  BY DEF IsSequence
<1>2. s \in Seq(T \cup {e})
  BY <1>1
<1>3. Append(s, e) \in Seq(T \cup {e})
  BY <1>2
<1> QED
  BY <1>3 DEF IsSequence

LEMMA SequenceShape ==
    ASSUME NEW s, IsSequence(s)
    PROVE  Len(s) \in Nat /\ DOMAIN s = 1..Len(s)
  BY DEF IsSequence

LEMMA AppendIs ==
    ASSUME NEW s, IsSequence(s), NEW e
    PROVE  /\ IsSequence(Append(s, e))
           /\ Len(Append(s, e)) = Len(s) + 1
           /\ \A i \in 1..Len(s) : Append(s, e)[i] = s[i]
           /\ Append(s, e)[Len(s) + 1] = e
<1>1. PICK T : s \in Seq(T)
  BY DEF IsSequence
<1>2. s \in Seq(T \cup {e})
  BY <1>1
<1> QED
  BY <1>2, SequenceGrows, AppendProperties

-----------------------------------------------------------------------------
(* Folds over finite sets.                                                 *)

\* A family of subsets that contains a set once it contains what is left
\* without any one element contains them all.
LEMMA Shrinking ==
    ASSUME NEW D, IsFiniteSet(D), NEW P,
           \A s \in SUBSET D : (\A x \in s : s \ {x} \in P) => s \in P
    PROVE  \A s \in SUBSET D : s \in P
<1> DEFINE T == {Cardinality(s) : s \in (SUBSET D) \ P}
<1> SUFFICES ASSUME NEW t \in SUBSET D, t \notin P PROVE FALSE
  OBVIOUS
<1>1. \A s \in SUBSET D : IsFiniteSet(s) /\ Cardinality(s) \in Nat
  BY FS_Subset, FS_CardinalityType
<1>2. PICK m \in T : \A n \in T : m <= n
  <2>1. T \subseteq Nat
    BY <1>1
  <2>2. Cardinality(t) \in T
    OBVIOUS
  <2> HIDE DEF T
  <2> QED
    BY <2>1, <2>2, LeastNumber
<1>3. PICK s \in (SUBSET D) \ P : Cardinality(s) = m
  BY <1>2
<1>4. \A x \in s : s \ {x} \in P
  <2> TAKE x \in s
  <2>1. Cardinality(s \ {x}) = m - 1 /\ m \in Nat
    BY <1>1, <1>3, FS_RemoveElement
  <2>2. Cardinality(s \ {x}) \notin T
    BY <1>2, <2>1
  <2> QED
    BY <2>2
<1> QED
  <2>1. s \in SUBSET D /\ s \notin P
    BY <1>3
  <2> QED
    BY <2>1, <1>4

\* A fold is well defined: some function on the subsets of a finite set has
\* the value that F computes of an element and of the rest.
IsFold(g, D, base, c, F) ==
    \A s \in SUBSET D :
        g[s] = IF s = {} THEN base ELSE F[<<c[s], g[s \ {c[s]}]>>]

LEMMA FoldExists ==
    ASSUME NEW D, IsFiniteSet(D), NEW V, NEW base \in V,
           NEW c, \A s \in SUBSET D : s # {} => c[s] \in s,
           NEW F \in [D \X V -> V]
    PROVE  \E g \in [SUBSET D -> V] : IsFold(g, D, base, c, F)
<1> DEFINE Holds(g, s) ==
              g[s] = IF s = {} THEN base ELSE F[<<c[s], g[s \ {c[s]}]>>]
           Upto(n, g) == \A s \in SUBSET D : Cardinality(s) <= n => Holds(g, s)
           S == {n \in Nat : \E g \in [SUBSET D -> V] : Upto(n, g)}
<1>1. \A s \in SUBSET D : IsFiniteSet(s) /\ Cardinality(s) \in Nat
  BY FS_Subset, FS_CardinalityType
<1>2. \A s \in SUBSET D : Cardinality(s) <= 0 => s = {}
  BY <1>1, FS_EmptySet
<1>3. 0 \in S
  <2> DEFINE g == [s \in SUBSET D |-> base]
  <2>1. g \in [SUBSET D -> V] /\ Upto(0, g)
    BY <1>2
  <2> QED
    BY <2>1
<1>4. ASSUME NEW n \in Nat, n \in S PROVE n + 1 \in S
  <2>1. PICK g \in [SUBSET D -> V] : Upto(n, g)
    BY <1>4
  <2> DEFINE h == [s \in SUBSET D |->
                      IF s = {} THEN base ELSE F[<<c[s], g[s \ {c[s]}]>>]]
  <2>2. h \in [SUBSET D -> V]
    OBVIOUS
  <2>3. \A s \in SUBSET D : Cardinality(s) <= n => h[s] = g[s]
    BY <2>1
  <2>4. ASSUME NEW s \in SUBSET D, Cardinality(s) <= n + 1, s # {}
        PROVE  h[s \ {c[s]}] = g[s \ {c[s]}]
    <3>1. Cardinality(s \ {c[s]}) = Cardinality(s) - 1
      BY <1>1, <2>4, FS_RemoveElement
    <3>2. Cardinality(s \ {c[s]}) <= n /\ s \ {c[s]} \in SUBSET D
      BY <1>1, <2>4, <3>1
    <3> QED
      BY <2>3, <3>2
  <2>5. Upto(n + 1, h)
    BY <2>4
  <2> HIDE DEF h, Upto
  <2> QED
    BY <2>2, <2>5
<1>5. Cardinality(D) \in S
  <2> HIDE DEF S
  <2>1. Nat \subseteq S
    BY <1>3, <1>4, Counting
  <2> QED
    BY <1>1, <2>1
<1>6. PICK g \in [SUBSET D -> V] : Upto(Cardinality(D), g)
  BY <1>5
<1>7. \A s \in SUBSET D : Cardinality(s) <= Cardinality(D)
  BY FS_Subset
<1> QED
  BY <1>6, <1>7 DEF IsFold

\* A number is one.
LEMMA NumberNat ==
    ASSUME NEW base \in Nat, NEW d, NEW n \in Nat, DOMAIN d = 1..n,
           \A i \in 1..n : d[i] \in Nat
    PROVE  Number(base, d) \in Nat
<1> DEFINE D == 1..n
           G(g) == [s \in SUBSET D |->
                       IF s = {} THEN 0 
                       ELSE base * g[s \ {Max(s)}] + d[Max(s)]]
           it == CHOOSE g : g = G(g)
           F == [p \in D \X Nat |-> base * p[2] + d[p[1]]]
           c == [s \in SUBSET D |-> Max(s)]
<1>1. Number(base, d) = it[D]
  BY DEF Number, FoldLeft, MapThenFoldSet
<1>2. IsFiniteSet(D)
  BY FS_Interval
<1>3. \A s \in SUBSET D : s # {} => c[s] \in s /\ c[s] = Max(s)
  BY GreatestNumber
<1>4. F \in [D \X Nat -> Nat]
  OBVIOUS
<1>5. \A x \in D, v \in Nat : F[<<x, v>>] = base * v + d[x]
  OBVIOUS
<1> HIDE DEF c, F, D
<1>6. PICK g \in [SUBSET D -> Nat] : IsFold(g, D, 0, c, F)
  <2>1. 0 \in Nat
    OBVIOUS
  <2> QED
    BY <2>1, <1>2, <1>3, <1>4, FoldExists
<1>7. ASSUME NEW s \in SUBSET D, s # {}
      PROVE  g[s] = base * g[s \ {Max(s)}] + d[Max(s)]
  <2>1. Max(s) \in D /\ g[s \ {Max(s)}] \in Nat
    BY <1>3, <1>6, <1>7 DEF IsFold
  <2> QED
    BY <1>3, <1>5, <1>6, <1>7, <2>1 DEF IsFold
<1>8. g = G(g)
  BY <1>6, <1>7 DEF IsFold
<1> HIDE DEF G
<1>9. it = G(it)
  BY <1>8
<1> HIDE DEF it
<1>10. it[{}] = 0
  BY <1>9 DEF G
<1>10a. \A s \in SUBSET D :
           s # {} => it[s] = base * it[s \ {Max(s)}] + d[Max(s)]
  BY <1>9 DEF G
<1> DEFINE P == {s \in SUBSET D : it[s] \in Nat}
<1>11. ASSUME NEW s \in SUBSET D, \A x \in s : s \ {x} \in P PROVE s \in P
  <2>1. CASE s = {}
    BY <2>1, <1>10
  <2>2. CASE s # {}
    <3>1. Max(s) \in s /\ it[s \ {Max(s)}] \in Nat
      BY <1>3, <2>2, <1>11
    <3>2. d[Max(s)] \in Nat
      BY <3>1 DEF D
    <3>3. base * it[s \ {Max(s)}] + d[Max(s)] \in Nat
      BY <3>1, <3>2
    <3>4. it[s] \in Nat
      BY <1>10a, <2>2, <3>3
    <3> QED
      BY <3>4
  <2> QED
    BY <2>1, <2>2
<1> HIDE DEF P
<1>12. \A s \in SUBSET D : s \in P
  BY <1>2, <1>11, Shrinking
<1> QED
  BY <1>1, <1>12 DEF P

-----------------------------------------------------------------------------
(* Folds over sequences, from the left.                                    *)

\* A fold from the left goes from value to value: any solution of the fold's
\* equation passes through them.
IsLeftFold(h, n, base, F) ==
    /\ h[0] = base
    /\ \A k \in 0..n - 1 : h[k + 1] = F[<<k + 1, h[k]>>]

\* The numbers a fold over 1..n comes by.
LEMMA Latest ==
    ASSUME NEW n \in Nat, NEW k \in 0..n - 1
    PROVE  /\ 1..k + 1 \in SUBSET (1..n) /\ 1..k + 1 # {} /\ k + 1 \in 1..n
           /\ Max(1..k + 1) = k + 1 /\ (1..k + 1) \ {k + 1} = 1..k
<1>1. 1..k + 1 \in SUBSET (1..k + 1) /\ 1..k + 1 # {} /\ k + 1 \in 1..k + 1
  OBVIOUS
<1>2. Max(1..k + 1) \in 1..k + 1 /\ \A x \in 1..k + 1 : x <= Max(1..k + 1)
  <2>1. k + 1 \in Nat
    OBVIOUS
  <2> QED
    BY <1>1, <2>1, GreatestNumber
<1> QED
  BY <1>1, <1>2

\* What the definition of a fold from the left amounts to.
IsSolution(g, n, base, F) ==
    /\ g[{}] = base
    /\ \A s \in SUBSET (1..n) : s # {} => g[s] = F[<<Max(s), g[s \ {Max(s)}]>>]

\* And what of it is needed: a value of the fold leads to the next.
Follows(it, n, V, base, F) ==
    /\ it[{}] = base
    /\ \A k \in 0..n - 1 : it[1..k] \in V => it[1..k + 1] = F[<<k + 1, it[1..k]>>]

Passes(it, n, V, base, F) ==
    \E h \in [0..n -> V] : IsLeftFold(h, n, base, F) /\ h[n] = it[1..n]

LEMMA LeftFold ==
    ASSUME NEW n \in Nat, NEW V, NEW base \in V, NEW F \in [(1..n) \X V -> V],
           NEW it, Follows(it, n, V, base, F)
    PROVE  Passes(it, n, V, base, F)
<1> DEFINE h == [k \in 0..n |-> it[1..k]]
           S == {k \in Nat : k <= n => it[1..k] \in V}
<1>1. ASSUME NEW k \in 0..n - 1, it[1..k] \in V
      PROVE  it[1..k + 1] = F[<<k + 1, it[1..k]>>] /\ it[1..k + 1] \in V
  <2>3. it[1..k + 1] = F[<<k + 1, it[1..k]>>]
    BY <1>1 DEF Follows
  <2>4. F[<<k + 1, it[1..k]>>] \in V
    <3>1. <<k + 1, it[1..k]>> \in (1..n) \X V
      BY <1>1
    <3> QED
      BY <3>1
  <2> QED
    BY <2>3, <2>4
<1>2. 0 \in S
  <2>1. 1..0 = {} /\ it[{}] \in V
    BY DEF Follows
  <2> QED
    BY <2>1
<1>3. ASSUME NEW k \in Nat, k \in S PROVE k + 1 \in S
  <2> SUFFICES ASSUME k + 1 <= n PROVE it[1..k + 1] \in V
    OBVIOUS
  <2>1. k \in 0..n - 1 /\ it[1..k] \in V
    BY <1>3
  <2> QED
    BY <1>1, <2>1
<1>4. \A k \in 0..n : it[1..k] \in V
  <2> HIDE DEF S
  <2>1. Nat \subseteq S
    BY <1>2, <1>3, Counting
  <2> QED
    BY <2>1 DEF S
<1>5. h \in [0..n -> V]
  BY <1>4
<1>6. h[0] = base
  <2>1. 1..0 = {} /\ 0 \in 0..n /\ it[{}] = base
    BY DEF Follows
  <2> QED
    BY <2>1
<1>7. \A k \in 0..n - 1 : h[k + 1] = F[<<k + 1, h[k]>>]
  <2> TAKE k \in 0..n - 1
  <2>1. k \in 0..n /\ k + 1 \in 0..n
    OBVIOUS
  <2>2. h[k] = it[1..k] /\ h[k + 1] = it[1..k + 1]
    BY <2>1
  <2> HIDE DEF h
  <2> QED
    BY <1>1, <1>4, <2>1, <2>2
<1>8. h[n] = it[1..n]
  OBVIOUS
<1> HIDE DEF h
<1> QED
  BY <1>5, <1>6, <1>7, <1>8 DEF IsLeftFold, Passes

\* The equation has a solution.
LEMMA LeftFoldExists ==
    ASSUME NEW n \in Nat, NEW V, NEW base \in V, NEW F \in [(1..n) \X V -> V]
    PROVE  \E g \in [SUBSET (1..n) -> V] : IsSolution(g, n, base, F)
<1> DEFINE D == 1..n
           c == [s \in SUBSET D |-> Max(s)]
<1>1. IsFiniteSet(D)
  BY FS_Interval
<1>2. \A s \in SUBSET D : c[s] = Max(s) /\ (s # {} => c[s] \in s)
  BY GreatestNumber
<1>3. F \in [D \X V -> V]
  OBVIOUS
<1> HIDE DEF c, D
<1>4. PICK g \in [SUBSET D -> V] : IsFold(g, D, base, c, F)
  BY <1>1, <1>2, <1>3, FoldExists
<1>5. g[{}] = base
  BY <1>4 DEF IsFold
<1>6. ASSUME NEW s \in SUBSET D, s # {} PROVE g[s] = F[<<Max(s), g[s \ {Max(s)}]>>]
  BY <1>2, <1>4, <1>6 DEF IsFold
<1> QED
  BY <1>4, <1>5, <1>6 DEF IsSolution, D

\* A sum, one by one.
IsTotal(t, w, n) ==
    \E h \in [0..n -> Nat] :
        h[0] = 0 /\ (\A k \in 0..n - 1 : h[k + 1] = h[k] + w[k + 1]) /\ h[n] = t

RunningTotals(g, w, n) ==
    /\ g[{}] = 0
    /\ \A s \in SUBSET (1..n) : s # {} => g[s] = g[s \ {Max(s)}] + w[Max(s)]

\* The equation that defines a fold of sums has a solution, and any is a sum.
LEMMA SumExists ==
    ASSUME NEW n \in Nat, NEW w \in [1..n -> Nat]
    PROVE  \E g \in [SUBSET (1..n) -> Nat] : RunningTotals(g, w, n)
<1> DEFINE F == [p \in (1..n) \X Nat |-> p[2] + w[p[1]]]
<1>1. F \in [(1..n) \X Nat -> Nat] /\ 0 \in Nat
  OBVIOUS
<1>2. \A x \in 1..n, v \in Nat : F[<<x, v>>] = v + w[x]
  OBVIOUS
<1> HIDE DEF F
<1>3. PICK g \in [SUBSET (1..n) -> Nat] : IsSolution(g, n, 0, F)
  BY <1>1, LeftFoldExists
<1>4. ASSUME NEW s \in SUBSET (1..n), s # {}
      PROVE  g[s] = g[s \ {Max(s)}] + w[Max(s)]
  <2>1. Max(s) \in 1..n /\ s \ {Max(s)} \in SUBSET (1..n)
    BY <1>4, GreatestNumber
  <2>2. g[s \ {Max(s)}] \in Nat
    BY <1>3, <2>1
  <2> QED
    BY <1>2, <1>3, <1>4, <2>1, <2>2 DEF IsSolution
<1> QED
  BY <1>3, <1>4 DEF RunningTotals, IsSolution

LEMMA SumIsTotal ==
    ASSUME NEW n \in Nat, NEW w \in [1..n -> Nat], NEW it, RunningTotals(it, w, n)
    PROVE  IsTotal(it[1..n], w, n)
<1> DEFINE F == [p \in (1..n) \X Nat |-> p[2] + w[p[1]]]
<1>1. F \in [(1..n) \X Nat -> Nat] /\ 0 \in Nat
  OBVIOUS
<1>2. \A x \in 1..n, v \in Nat : F[<<x, v>>] = v + w[x]
  OBVIOUS
<1> HIDE DEF F
<1>3. ASSUME NEW k \in 0..n - 1, it[1..k] \in Nat
      PROVE  it[1..k + 1] = F[<<k + 1, it[1..k]>>]
  <2>1. /\ 1..k + 1 \in SUBSET (1..n) /\ 1..k + 1 # {} /\ k + 1 \in 1..n
        /\ Max(1..k + 1) = k + 1 /\ (1..k + 1) \ {k + 1} = 1..k
    BY Latest
  <2>2. it[1..k + 1] = it[1..k] + w[k + 1]
    BY <2>1 DEF RunningTotals
  <2> QED
    BY <1>2, <1>3, <2>1, <2>2
<1>4. Follows(it, n, Nat, 0, F)
  BY <1>3 DEF Follows, RunningTotals
<1>5. Passes(it, n, Nat, 0, F)
  BY <1>1, <1>4, LeftFold
<1>6. PICK h \in [0..n -> Nat] : IsLeftFold(h, n, 0, F) /\ h[n] = it[1..n]
  BY <1>5 DEF Passes
<1>7. \A k \in 0..n - 1 : h[k + 1] = h[k] + w[k + 1]
  <2> TAKE k \in 0..n - 1
  <2>1. k + 1 \in 1..n /\ h[k] \in Nat
    OBVIOUS
  <2> QED
    BY <1>2, <1>6, <2>1 DEF IsLeftFold
<1> QED
  BY <1>6, <1>7 DEF IsLeftFold, IsTotal

\* With one more to add.
LEMMA TotalGrows ==
    ASSUME NEW n \in Nat, NEW w \in [1..n -> Nat], NEW v \in [1..n + 1 -> Nat],
           \A i \in 1..n : v[i] = w[i],
           NEW t, IsTotal(t, w, n), NEW u, IsTotal(u, v, n + 1)
    PROVE  t \in Nat /\ u = t + v[n + 1]
<1>1. PICK f \in [0..n -> Nat] :
         f[0] = 0 /\ (\A k \in 0..n - 1 : f[k + 1] = f[k] + w[k + 1]) /\ f[n] = t
  BY DEF IsTotal
<1>2. PICK g \in [0..n + 1 -> Nat] :
         g[0] = 0 /\ (\A k \in 0..n : g[k + 1] = g[k] + v[k + 1]) /\ g[n + 1] = u
  <2>1. (n + 1) - 1 = n
    OBVIOUS
  <2> QED
    BY <2>1 DEF IsTotal
<1> DEFINE S == {k \in Nat : k <= n => g[k] = f[k]}
<1>3. 0 \in S
  BY <1>1, <1>2
<1>4. ASSUME NEW k \in Nat, k \in S PROVE k + 1 \in S
  <2> SUFFICES ASSUME k + 1 <= n PROVE g[k + 1] = f[k + 1]
    OBVIOUS
  <2>1. k \in 0..n - 1 /\ k \in 0..n /\ k + 1 \in 1..n /\ g[k] = f[k]
    BY <1>4
  <2> QED
    BY <1>1, <1>2, <2>1
<1>5. g[n] = f[n]
  <2> HIDE DEF S
  <2>1. Nat \subseteq S
    BY <1>3, <1>4, Counting
  <2> QED
    BY <2>1 DEF S
<1>6. n \in 0..n /\ n \in 0..n + 1
  OBVIOUS
<1> QED
  BY <1>1, <1>2, <1>5, <1>6

LEMMA TotalOfNone == ASSUME NEW w, NEW t, IsTotal(t, w, 0) PROVE t = 0
  BY DEF IsTotal

-----------------------------------------------------------------------------
(* Reading a file: fields, variable-length quantities, chunks and events.  *)

Byte == 0..255

LEMMA ByteIs == \A x \in Byte : x \in Nat /\ x < 256
  BY DEF Byte

\* What a bounded read returns.
LEMMA FieldIs ==
    ASSUME NEW b \in Seq(Byte), NEW o \in Nat, NEW n \in Nat, o + n <= Len(b)
    PROVE  /\ Field(b, o, n) \in Seq(Byte)
           /\ Len(Field(b, o, n)) = n
           /\ \A i \in 1..n : Field(b, o, n)[i] = b[o + i]
<1>1. o + 1 \in Int /\ o + n \in Int
  OBVIOUS
<1>2. \A i \in o + 1..o + n : b[i] \in Byte
  BY ElementOfSeq
<1> DEFINE s == SubSeq(b, o + 1, o + n)
<1>3. /\ s \in Seq(Byte)
      /\ Len(s) = IF o + 1 <= o + n THEN (o + n) - (o + 1) + 1 ELSE 0
      /\ \A i \in 1..(o + n) - (o + 1) + 1 : s[i] = b[o + 1 + i - 1]
  BY <1>1, <1>2, SubSeqProperties
<1>4. s = Field(b, o, n)
  BY DEF Field
<1> HIDE DEF s
<1> QED
  BY <1>3, <1>4

\* A field of a field.
LEMMA FieldOfField ==
    ASSUME NEW b \in Seq(Byte), NEW a \in Nat, NEW n \in Nat, a + n <= Len(b),
           NEW o \in Nat, NEW k \in Nat, o + k <= n
    PROVE  Field(Field(b, a, n), o, k) = Field(b, a + o, k)
<1> DEFINE p == Field(b, a, n)
           s == Field(p, o, k)
           t == Field(b, a + o, k)
<1>1. p \in Seq(Byte) /\ Len(p) = n /\ \A i \in 1..n : p[i] = b[a + i]
  BY FieldIs
<1> HIDE DEF p
<1>2. s \in Seq(Byte) /\ Len(s) = k /\ \A i \in 1..k : s[i] = p[o + i]
  BY <1>1, FieldIs
<1>3. t \in Seq(Byte) /\ Len(t) = k /\ \A i \in 1..k : t[i] = b[(a + o) + i]
  <2>1. a + o \in Nat /\ (a + o) + k <= Len(b)
    OBVIOUS
  <2> QED
    BY <2>1, FieldIs
<1> HIDE DEF s, t
<1>4. \A i \in 1..k : s[i] = t[i]
  BY <1>1, <1>2, <1>3
<1>5. s = t
  BY <1>2, <1>3, <1>4, SeqEqual
<1> QED
  BY <1>5 DEF s, t, p

LEMMA FieldNumber ==
    ASSUME NEW b \in Seq(Byte), NEW o \in Nat, NEW n \in Nat, o + n <= Len(b)
    PROVE  Number(256, Field(b, o, n)) \in Nat
<1> DEFINE s == Field(b, o, n)
<1>1. s \in Seq(Byte) /\ Len(s) = n
  BY FieldIs
<1> HIDE DEF s
<1>2. DOMAIN s = 1..n /\ \A i \in 1..n : s[i] \in Nat
  <2>1. DOMAIN s = 1..n
    BY <1>1
  <2>2. ASSUME NEW i \in 1..n PROVE s[i] \in Byte
    BY <1>1, ElementOfSeq
  <2> QED
    BY <2>1, <2>2, ByteIs
<1>3. Number(256, s) \in Nat
  BY <1>2, NumberNat
<1> QED
  BY <1>3 DEF s

VlqEnds(b, o) == {n \in 1..4 : Has(b, o, n) /\ b[o + n] < 128}

\* Where a variable-length quantity is whole, it is a number and takes bytes.
LEMMA VlqIs ==
    ASSUME NEW b \in Seq(Byte), NEW o \in Nat
    PROVE  /\ Vlq(b, o).value \in Nat
           /\ Vlq(b, o).next \in Nat
           /\ Vlq(b, o).next >= o
           /\ Vlq(b, o).fault = NoFault =>
                 /\ VlqEnds(b, o) # {}
                 /\ Min(VlqEnds(b, o)) \in 1..4
                 /\ o + Min(VlqEnds(b, o)) <= Len(b)
                 /\ Vlq(b, o).next = o + Min(VlqEnds(b, o))
                 /\ Vlq(b, o).value =
                       Number(128, [i \in 1..Min(VlqEnds(b, o)) |-> b[o + i] % 128])
<1> DEFINE ends == VlqEnds(b, o)
           m == Min(ends)
           digits == [i \in 1..m |-> b[o + i] % 128]
<1>1. CASE ends # {}
  <2>1. m \in ends
    <3>1. ends \subseteq Nat
      BY DEF VlqEnds
    <3> HIDE DEF ends
    <3> QED
      BY <1>1, <3>1, MinIsLeast
  <2>2. m \in 1..4 /\ o + m <= Len(b)
    BY <2>1 DEF VlqEnds, Has
  <2>3. Number(128, digits) \in Nat
    <3> HIDE DEF m
    <3>1. \A i \in 1..m : b[o + i] \in Byte
      BY <2>2, ElementOfSeq
    <3>2. DOMAIN digits = 1..m /\ m \in Nat
      BY <2>2
    <3>3. ASSUME NEW i \in 1..m PROVE digits[i] \in Nat
      <4>1. b[o + i] \in Nat
        BY <3>1, ByteIs
      <4> QED
        BY <4>1
    <3> HIDE DEF digits
    <3> QED
      BY <3>2, <3>3, NumberNat
  <2>4. Vlq(b, o) = [fault |-> NoFault, next |-> o + m, value |-> Number(128, digits)]
    BY <1>1 DEF Vlq, VlqEnds
  <2> HIDE DEF m, digits
  <2> QED
    BY <1>1, <2>2, <2>3, <2>4 DEF m, digits
<1>2. CASE ends = {}
  <2>1. Vlq(b, o) = [fault |-> IF Has(b, o, 4) THEN Fault("MalformedVlq", o + 3)
                        ELSE Fault("TruncatedEvent", Len(b)),
              next |-> o, value |-> 0]
    BY <1>2 DEF Vlq, VlqEnds
  <2>2. Vlq(b, o).fault # NoFault
    BY <2>1 DEF NoFault, Fault
  <2> QED
    BY <2>1, <2>2
<1> QED
  BY <1>1, <1>2

\* It is the same in the file as in the payload.
LEMMA VlqShift ==
    ASSUME NEW b \in Seq(Byte), NEW a \in Nat, NEW n \in Nat, a + n <= Len(b),
           NEW o \in Nat, NEW p, p = Field(b, a, n), Vlq(p, o).fault = NoFault
    PROVE  /\ Vlq(b, a + o).value = Vlq(p, o).value
           /\ Vlq(b, a + o).next = a + Vlq(p, o).next
<1> DEFINE inner == VlqEnds(p, o)
           outer == VlqEnds(b, a + o)
           m == Min(inner)
           digits == [i \in 1..m |-> p[o + i] % 128]
<1>1. p \in Seq(Byte) /\ Len(p) = n /\ \A i \in 1..n : p[i] = b[a + i]
  BY FieldIs
<1>2a. /\ inner # {} /\ m \in 1..4 /\ o + m <= n
       /\ Vlq(p, o).next = o + m
       /\ Vlq(p, o).value = Number(128, digits)
  BY <1>1, VlqIs
<1>2. inner # {} /\ m \in 1..4 /\ o + m <= n
  BY <1>2a
<1>3. \A i \in 1..4 : o + i <= n => p[o + i] = b[(a + o) + i]
  BY <1>1
<1>4. inner \subseteq Nat /\ m \in inner /\ \A i \in inner : m <= i
  <2>1. inner \subseteq Nat
    BY DEF VlqEnds
  <2> HIDE DEF inner
  <2> QED
    BY <1>2, <2>1, MinIsLeast
<1>5. m \in outer
  <2>1. m \in 1..4 /\ o + m <= n /\ p[o + m] < 128
    <3>1. m \in VlqEnds(p, o)
      BY <1>4
    <3> HIDE DEF m
    <3> QED
      BY <1>1, <3>1 DEF VlqEnds, Has
  <2> HIDE DEF m
  <2>2. b[(a + o) + m] < 128 /\ (a + o) + m <= Len(b)
    BY <1>3, <2>1
  <2> QED
    BY <2>1, <2>2 DEF VlqEnds, Has
<1>6. ASSUME NEW i \in outer PROVE m <= i
  <2> SUFFICES ASSUME i < m PROVE FALSE
    BY <1>2 DEF VlqEnds
  <2>1. i \in 1..4 /\ o + i <= n /\ b[(a + o) + i] < 128
    BY <1>2 DEF VlqEnds
  <2>2. i \in inner
    BY <1>1, <1>3, <2>1 DEF VlqEnds, Has
  <2> QED
    BY <1>2, <1>4, <2>1, <2>2
<1>7. Min(outer) = m
  <2>1. outer \subseteq Nat /\ outer # {}
    BY <1>5 DEF VlqEnds
  <2> HIDE DEF outer, m
  <2>2. Min(outer) \in outer /\ \A i \in outer : Min(outer) <= i
    BY <2>1, MinIsLeast
  <2>3. m <= Min(outer) /\ Min(outer) <= m /\ Min(outer) \in Nat /\ m \in Nat
    BY <1>2, <1>5, <1>6, <2>1, <2>2
  <2> QED
    BY <2>3
<1>8. a + o \in Nat
  OBVIOUS
<1>9. Vlq(b, a + o) = [fault |-> NoFault, next |-> (a + o) + m,
          value |-> Number(128, [i \in 1..m |-> b[(a + o) + i] % 128])]
  BY <1>5, <1>7 DEF Vlq, VlqEnds
<1>10. \A i \in 1..m : b[(a + o) + i] = p[o + i]
  <2> SUFFICES ASSUME NEW i \in 1..m PROVE b[(a + o) + i] = p[o + i]
    OBVIOUS
  <2>1. m \in 1..4 /\ o + m <= n
    BY <1>2
  <2> HIDE DEF m
  <2>2. i \in 1..4 /\ o + i <= n
    BY <2>1
  <2> QED
    BY <1>3, <2>2
<1> HIDE DEF m
<1>11. [i \in 1..m |-> b[(a + o) + i] % 128] = digits
  BY <1>10
<1>12. (a + o) + m = a + (o + m)
  <2>1. m \in Nat
    BY <1>2
  <2> QED
    BY <2>1
<1>13. Vlq(b, a + o) =
          [fault |-> NoFault, next |-> (a + o) + m, value |-> Number(128, digits)]
  BY <1>9, <1>11
<1> HIDE DEF digits
<1> QED
  BY <1>2a, <1>12, <1>13

\* What the checks of the header and of a chunk leave to be relied on.
LEMMA HeaderIs ==
    ASSUME NEW b \in Seq(Byte), HeaderFault(b) = NoFault
    PROVE  /\ Len(b) >= 14
           /\ TrackCount(b) \in Nat \ {0}
           /\ Division(b) \in Nat
           /\ ~Smpte(Division(b)) => Division(b) > 0
<1>1. Len(b) \in Nat
  OBVIOUS
<1>2. Has(b, 8, 6) /\ TrackCount(b) # 0 /\ ValidDivision(Division(b))
  BY DEF HeaderFault, NoFault, Fault
<1>3. Len(b) >= 14
  BY <1>1, <1>2 DEF Has
<1>4. TrackCount(b) \in Nat /\ Division(b) \in Nat
  BY <1>3, FieldNumber DEF TrackCount, Division
<1>5. ~Smpte(Division(b)) => Division(b) > 0
  BY <1>2, <1>4 DEF ValidDivision, Smpte
<1> QED
  BY <1>2, <1>3, <1>4, <1>5

LEMMA ChunkIs ==
    ASSUME NEW b \in Seq(Byte), NEW o \in Nat, ChunkFault(b, o) = NoFault
    PROVE  LET n == Number(256, Field(b, o + 4, 4)) IN
           n \in Nat /\ (o + 8) + n <= Len(b)
<1>1. Has(b, o, 8) /\ WholeChunk(b, o)
  BY DEF ChunkFault, NoFault, Fault
<1>2. (o + 4) + 4 <= Len(b)
  BY <1>1 DEF Has
<1> DEFINE n == Number(256, Field(b, o + 4, 4))
<1>3. n \in Nat
  BY <1>2, FieldNumber
<1>4. (o + 8) + n <= Len(b)
  BY <1>1 DEF WholeChunk, Has
<1> QED
  BY <1>3, <1>4

Statuses == 0..239 \cup {None}

\* What is relied on in an event: a tick, bytes, and a tempo of which a quarter
\* note fits the integers.
IsTimed(e) ==
    /\ e.tick \in Nat
    /\ e.data \in Seq(Byte)
    /\ e.meta = Tempo =>
          /\ Number(256, e.data) \in Nat
          /\ QuarterFits(file, Number(256, e.data))

LEMMA TwoBytes ==
    ASSUME NEW b \in Seq(Byte), NEW o \in Nat, o + 2 <= Len(b)
    PROVE  Field(b, o, 2) = <<b[o + 1], b[o + 2]>>
<1> DEFINE s == Field(b, o, 2)
<1>1. PICK n \in Nat : n = 2
  OBVIOUS
<1>2. /\ Field(b, o, n) \in Seq(Byte)
      /\ Len(Field(b, o, n)) = n
      /\ \A i \in 1..n : Field(b, o, n)[i] = b[o + i]
  BY <1>1, FieldIs
<1>3. s \in Seq(Byte) /\ Len(s) = 2 /\ s[1] = b[o + 1] /\ s[2] = b[o + 2]
  BY <1>1, <1>2
<1> HIDE DEF s
<1>4. s = <<b[o + 1], b[o + 2]>>
  BY <1>3
<1> QED
  BY <1>4 DEF s

LEMMA TempoFits ==
    ASSUME file \in Files, HeaderFault(file) = NoFault, ~Smpte(Division(file)),
           NEW a \in Nat, a >= 14, NEW n \in Nat, a + n <= Len(file),
           NEW p, p = Field(file, a, n), NEW o \in Nat, o + 2 <= n,
           p[o + 1] = 255, p[o + 2] = Tempo,
           Vlq(p, o + 2).fault = NoFault, Vlq(p, o + 2).value = 3,
           NEW next, next = Vlq(p, o + 2).next, next + 3 <= n
    PROVE  /\ Number(256, Field(p, next, 3)) \in Nat
           /\ QuarterFits(file, Number(256, Field(p, next, 3)))
<1>1. file \in Seq(Byte)
  BY FilesAssumption DEF Byte
<1>2. p \in Seq(Byte) /\ Len(p) = n /\ \A i \in 1..n : p[i] = file[a + i]
  BY <1>1, FieldIs
<1>3. o + 2 \in Nat
  OBVIOUS
<1>4. next \in Nat /\ next >= (o + 2) + 1
  <2> DEFINE m == Min(VlqEnds(p, o + 2))
  <2>1. Vlq(p, o + 2).next \in Nat /\ m \in 1..4 /\ Vlq(p, o + 2).next = (o + 2) + m
    BY <1>2, <1>3, VlqIs
  <2> HIDE DEF m
  <2> QED
    BY <2>1
<1>5. /\ Vlq(file, a + (o + 2)).value = 3
      /\ Vlq(file, a + (o + 2)).next = a + next
  BY <1>1, <1>3, VlqShift
<1>6. Field(p, next, 3) = Field(file, a + next, 3)
  BY <1>1, <1>4, FieldOfField
<1>7. Number(256, Field(p, next, 3)) \in Nat
  BY <1>2, <1>4, FieldNumber
<1> DEFINE k == a + o
<1>8. k \in 14..Len(file) - 6 /\ a + (o + 2) = k + 2
  BY <1>1, <1>4
<1>9. Field(file, k, 2) = <<255, Tempo>>
  <2>1. k \in Nat /\ k + 2 <= Len(file)
    BY <1>1
  <2>2. file[k + 1] = 255 /\ file[k + 2] = Tempo
    BY <1>2
  <2> HIDE DEF k
  <2> QED
    BY <1>1, <2>1, <2>2, TwoBytes
<1>10. Has(file, a + next, 3)
  BY <1>1, <1>4 DEF Has
<1> HIDE DEF k
<1>11. QuarterFits(file, Number(256, Field(file, a + next, 3)))
  BY <1>5, <1>8, <1>9, <1>10, FilesAssumption
<1> QED
  BY <1>6, <1>7, <1>11

\* Of an event that the checks let through.
LEMMA EventIs ==
    ASSUME file \in Files, HeaderFault(file) = NoFault, ~Smpte(Division(file)),
           NEW a \in Nat, a >= 14, NEW n \in Nat, a + n <= Len(file),
           NEW p, p = Field(file, a, n), NEW o \in Nat, NEW t \in Nat,
           NEW r \in Statuses, EventFault(p, o, t, r) = NoFault
    PROVE  LET here == EventAt(p, o, t, r) IN
           IsTimed(here.event) /\ here.next \in Nat /\ here.running \in Statuses
<1> DEFINE at == Vlq(p, o).next
           now == t + Vlq(p, o).value
           status == IF p[at + 1] < 128 THEN r ELSE p[at + 1]
           first == IF p[at + 1] < 128 THEN at ELSE at + 1
           from == IF status = 255 THEN at + 2 ELSE at + 1
           count == Vlq(p, from)
           here == EventAt(p, o, t, r)
<1> SUFFICES IsTimed(here.event) /\ here.next \in Nat /\ here.running \in Statuses
  OBVIOUS
<1>1. p \in Seq(Byte) /\ Len(p) = n
  <2>1. file \in Seq(Byte)
    BY FilesAssumption DEF Byte
  <2> QED
    BY <2>1, FieldIs
<1>2. at \in Nat /\ now \in Nat
  <2>1. Vlq(p, o).next \in Nat /\ Vlq(p, o).value \in Nat
    BY <1>1, VlqIs
  <2> QED
    BY <2>1
<1>3. here = IF status < 240
             THEN [event |-> Event(now, status, None, Field(p, first, DataLength(status))),
                   next |-> first + DataLength(status), running |-> NextStatus(status, r)]
             ELSE [event |-> Event(now, status, IF status = 255 THEN p[at + 2] ELSE None,
                                   Field(p, count.next, count.value)),
                   next |-> count.next + count.value, running |-> NextStatus(status, r)]
  BY DEF EventAt
<1>4. /\ at + 1 <= n
      /\ p[at + 1] \in Nat /\ p[at + 1] < 256
  <2>1. Vlq(p, o).fault = NoFault
    BY DEF EventFault
  <2>2. Has(p, at, 1)
    BY <2>1 DEF EventFault, NoFault, Fault
  <2>3. at + 1 <= n
    BY <1>1, <1>2, <2>2 DEF Has
  <2>4. p[at + 1] \in Byte
    BY <1>1, <1>2, <2>3, ElementOfSeq
  <2> QED
    BY <2>3, <2>4, ByteIs
<1>5. /\ p[at + 1] < 128 => r # None
      /\ p[at + 1] >= 240 => p[at + 1] \in {240, 247, 255}
      /\ p[at + 1] = 255 => MetaFault(p, at + 1) = NoFault
  BY <1>4 DEF EventFault, NoFault, Fault
<1>5a. p[at + 1] < 128 => ChannelFault(p, at + 1, DataLength(r) - 1) = NoFault
  BY <1>4 DEF EventFault, NoFault, Fault
<1>5b. ~(p[at + 1] < 128) /\ p[at + 1] < 240 =>
          ChannelFault(p, at + 1, DataLength(p[at + 1])) = NoFault
  BY <1>4 DEF EventFault, NoFault, Fault
<1>5c. p[at + 1] \in {240, 247} => SysExFault(p, at + 1) = NoFault
  BY <1>4 DEF EventFault, NoFault, Fault
<1> HIDE DEF at, now
<1>6. CASE status < 240 /\ status \in Nat
  <2>1. first \in Nat /\ DataLength(status) \in Nat
    BY <1>2, <1>6 DEF DataLength
  <2>2. /\ here.event.tick = now /\ here.event.meta = None
        /\ here.event.data = Field(p, first, DataLength(status))
    BY <1>3, <1>6 DEF Event
  <2>2a. here.event.data \in Seq(Byte)
    <3>1. first + DataLength(status) <= n
      <4>1. \A k \in Int : ChannelFault(p, at + 1, k) = NoFault => (at + 1) + k <= n
        BY <1>1 DEF ChannelFault, NoFault, Fault, Has
      <4>2. CASE p[at + 1] < 128
        <5>1. status = r /\ first = at
          BY <4>2
        <5>2. (at + 1) + (DataLength(r) - 1) <= n
          BY <1>5a, <2>1, <4>1, <4>2, <5>1
        <5> QED
          BY <1>2, <2>1, <5>1, <5>2
      <4>3. CASE ~(p[at + 1] < 128)
        <5>1. status = p[at + 1] /\ first = at + 1
          BY <4>3
        <5>2. p[at + 1] < 240
          BY <1>6, <5>1
        <5> QED
          BY <1>5b, <2>1, <4>1, <4>3, <5>1, <5>2
      <4> QED
        BY <4>2, <4>3
    <3> QED
      BY <1>1, <2>1, <2>2, <3>1, FieldIs
  <2>3. here.next = first + DataLength(status) /\ here.running = status
    BY <1>3, <1>6 DEF NextStatus
  <2>4. IsTimed(here.event)
    BY <1>2, <2>2, <2>2a, NoneAssumption DEF IsTimed, Tempo
  <2>5. status \in Statuses
    <3> HIDE DEF status
    <3> QED
      BY <1>6 DEF Statuses
  <2>6. here.next \in Nat /\ here.running \in Statuses
    BY <2>1, <2>3, <2>5
  <2> HIDE DEF here
  <2> QED
    BY <2>4, <2>6
<1>7. CASE p[at + 1] \in {240, 247, 255}
  <2>1. status = p[at + 1] /\ ~(status < 240)
    BY <1>7
  <2>2. from \in Nat
    BY <1>2
  <2>3. count.next \in Nat /\ count.value \in Nat
    <3> HIDE DEF from
    <3> QED
      BY <1>1, <2>2, VlqIs
  <2>4. /\ here.event.tick = now
        /\ here.event.meta = IF status = 255 THEN p[at + 2] ELSE None
        /\ here.event.data = Field(p, count.next, count.value)
        /\ here.next = count.next + count.value
        /\ here.running = None
    BY <1>3, <2>1 DEF Event, NextStatus
  <2>4a. here.event.data \in Seq(Byte)
    <3>1. CASE status # 255
      <4>1. count = Vlq(p, at + 1) /\ SysExFault(p, at + 1) = NoFault
        BY <1>5c, <1>7, <2>1, <3>1
      <4>2. Has(p, count.next, count.value)
        BY <4>1 DEF SysExFault, NoFault, Fault
      <4> HIDE DEF count
      <4> QED
        BY <1>1, <2>3, <2>4, <4>2, FieldIs DEF Has
    <3>2. CASE status = 255
      <4>1. (at + 1) + 1 = at + 2
        BY <1>2
      <4>2. count = Vlq(p, at + 2) /\ MetaFault(p, at + 1) = NoFault
        BY <1>5, <2>1, <3>2
      <4>3. Has(p, count.next, count.value)
        BY <4>1, <4>2 DEF MetaFault, NoFault, Fault
      <4> HIDE DEF count
      <4> QED
        BY <1>1, <2>3, <2>4, <4>3, FieldIs DEF Has
    <3> QED
      BY <3>1, <3>2
  <2> HIDE DEF here, count
  <2>5. here.next \in Nat /\ here.running \in Statuses
    BY <2>3, <2>4 DEF Statuses
  <2>6. CASE status # 255
    BY <1>2, <2>4, <2>4a, <2>5, <2>6, NoneAssumption DEF IsTimed, Tempo
  <2>7. CASE status = 255
    <3>1. MetaFault(p, at + 1) = NoFault /\ p[at + 1] = 255 /\ from = at + 2
      BY <1>5, <2>1, <2>7
    <3>2. here.event.meta = p[at + 2]
      BY <2>4, <2>7
    <3>3. CASE p[at + 2] # Tempo
      BY <1>2, <2>4, <2>4a, <2>5, <3>2, <3>3 DEF IsTimed
    <3>4. CASE p[at + 2] = Tempo
      <4>1. (at + 1) + 1 = at + 2
        BY <1>2
      <4>2. /\ Has(p, at + 1, 1)
            /\ Vlq(p, at + 2).fault = NoFault
            /\ Vlq(p, at + 2).value = 3
            /\ Has(p, Vlq(p, at + 2).next, Vlq(p, at + 2).value)
        BY <3>1, <3>4, <4>1 DEF MetaFault, NoFault, Fault, Tempo, EndOfTrack
      <4>3. count = Vlq(p, at + 2)
        BY <3>1 DEF count
      <4>4. at + 2 <= n /\ count.next + 3 <= n /\ count.value = 3
        BY <1>1, <1>2, <4>2, <4>3 DEF Has
      <4>5. /\ Number(256, Field(p, count.next, 3)) \in Nat
            /\ QuarterFits(file, Number(256, Field(p, count.next, 3)))
        BY <1>2, <3>1, <3>4, <4>2, <4>3, <4>4, TempoFits
      <4>6. IsTimed(here.event)
        BY <1>2, <2>4, <2>4a, <4>4, <4>5 DEF IsTimed
      <4> QED
        BY <2>5, <4>6
    <3> QED
      BY <3>3, <3>4
  <2> QED
    BY <2>6, <2>7
<1>8. (status < 240 /\ status \in Nat) \/ p[at + 1] \in {240, 247, 255}
  BY <1>4, <1>5 DEF Statuses
<1> HIDE DEF here
<1> QED
  BY <1>6, <1>7, <1>8

-----------------------------------------------------------------------------
(* What the reading maintains.                                             *)

Compiling == {"compile", "compiled", "TimeOverflow"}

Decoded == {"decode", "merge"} \cup Compiling

IsPayload(p) ==
    \E a, n \in Nat : a >= 14 /\ a + n <= Len(file) /\ p = Field(file, a, n)

AreTimed(s) == IsSequence(s) /\ \A i \in 1..Len(s) : IsTimed(s[i])

ReadInv ==
    /\ file \in Files
    /\ offset \in Nat /\ tick \in Nat /\ running \in Statuses
    /\ stage \in {"chunks"} \cup Decoded =>
          HeaderFault(file) = NoFault /\ division = Division(file)
    /\ stage \in Decoded => ~Smpte(division)
    /\ IsSequence(payloads) /\ \A i \in 1..Len(payloads) : IsPayload(payloads[i])
    /\ stage = "chunks" => offset >= 14
    /\ stage \in {"header", "chunks"} => tracks = <<>>
    /\ stage = "decode" => Len(tracks) < Len(payloads)
    /\ IsSequence(tracks) /\ \A i \in 1..Len(tracks) : AreTimed(tracks[i])
    /\ AreTimed(events)

LEMMA NoEvents == IsSequence(<<>>) /\ AreTimed(<<>>) /\ Len(<<>>) = 0
<1>1. <<>> \in Seq({}) /\ Len(<<>>) = 0
  OBVIOUS
<1> QED
  BY <1>1 DEF IsSequence, AreTimed

LEMMA ReadInitHolds == ReadInit => ReadInv
<1> SUFFICES ASSUME ReadInit PROVE ReadInv
  OBVIOUS
<1> USE DEF ReadInit
<1>1. 0 \in Nat /\ stage = "header"
  OBVIOUS
<1> QED
  BY <1>1, NoEvents DEF ReadInv, Decoded, Compiling, Statuses

\* The payload in hand and, unless the decoder refuses it, its next event.
LEMMA HereIs ==
    ASSUME ReadInv, stage = "decode", DecodeFault = NoFault
    PROVE  IsTimed(Here.event) /\ Here.next \in Nat /\ Here.running \in Statuses
<1>1. Len(tracks) + 1 \in 1..Len(payloads)
  BY SequenceShape DEF ReadInv
<1>2. PICK a, n \in Nat : a >= 14 /\ a + n <= Len(file) /\ Payload = Field(file, a, n)
  BY <1>1 DEF ReadInv, IsPayload, Payload
<1>3. EventFault(Payload, offset, tick, running) = NoFault
  BY DEF DecodeFault, NoFault, Fault
<1>4. /\ file \in Files /\ HeaderFault(file) = NoFault /\ ~Smpte(Division(file))
      /\ offset \in Nat /\ tick \in Nat /\ running \in Statuses
  BY DEF ReadInv, Decoded
<1> DEFINE p == Payload
<1> HIDE DEF p
<1>5. /\ IsTimed(EventAt(Payload, offset, tick, running).event)
      /\ EventAt(Payload, offset, tick, running).next \in Nat
      /\ EventAt(Payload, offset, tick, running).running \in Statuses
  BY <1>2, <1>3, <1>4, EventIs
<1> QED
  BY <1>5 DEF Here

LEMMA ReadTrackKeeps == ReadInv /\ ReadTrack => ReadInv'
<1> SUFFICES ASSUME ReadInv, ReadTrack PROVE ReadInv'
  OBVIOUS
<1> DEFINE n == Number(256, Field(file, offset + 4, 4))
           p == Field(file, offset + 8, n)
<1>1. file' = file /\ offset \in Nat /\ offset >= 14 /\ file \in Seq(Byte)
  BY FilesAssumption DEF ReadTrack, ReadInv, Byte
<1>2. n \in Nat /\ (offset + 8) + n <= Len(file)
  BY <1>1, ChunkIs DEF ReadTrack
<1>3. payloads' = Append(payloads, p) /\ offset' = (offset + 8) + n
  BY DEF ReadTrack
<1>4. IsPayload(p)
  <2>1. offset + 8 \in Nat /\ offset + 8 >= 14
    BY <1>1
  <2> HIDE DEF n
  <2> QED
    BY <1>2, <2>1 DEF IsPayload
<1>5. offset' \in Nat /\ offset' >= 14
  <2> HIDE DEF n
  <2> QED
    BY <1>1, <1>2, <1>3
<1> HIDE DEF n, p
<1>6. IsSequence(payloads') /\ \A i \in 1..Len(payloads') : IsPayload(payloads'[i])
  <2>1. IsSequence(payloads) /\ \A i \in 1..Len(payloads) : IsPayload(payloads[i])
    BY DEF ReadInv
  <2>2. Len(payloads) \in Nat
    BY <2>1, SequenceShape
  <2> QED
    BY <1>3, <1>4, <2>1, <2>2, AppendIs
<1>7. (\A i \in 1..Len(payloads) : IsPayload(payloads[i]))'
  BY <1>1, <1>6 DEF IsPayload
<1>8. stage = "chunks" /\ HeaderFault(file) = NoFault /\ division = Division(file)
      /\ file \in Files /\ tracks = <<>> /\ IsSequence(tracks)
      /\ tick \in Nat /\ running \in Statuses
  BY DEF ReadTrack, ReadInv
<1>9. AreTimed(events)' /\ (\A i \in 1..Len(tracks) : AreTimed(tracks[i]))'
  BY <1>1 DEF ReadTrack, ReadInv, AreTimed, IsTimed
<1> QED
  BY <1>1, <1>5, <1>6, <1>7, <1>8, <1>9 DEF ReadTrack, ReadInv, Decoded, Compiling

LEMMA ParseEndsKeeps == ReadInv /\ ParseEnds => ReadInv'
<1> SUFFICES ASSUME ReadInv, ParseEnds PROVE ReadInv'
  OBVIOUS
<1>1. file' = file /\ offset' = 0 /\ 0 \in Nat /\ file \in Seq(Byte)
  BY FilesAssumption DEF ParseEnds, ReadInv, Byte
<1>2. tracks = <<>> /\ Len(tracks) = 0
  BY NoEvents DEF ParseEnds, ReadInv
<1>3. HeaderFault(file) = NoFault /\ division = Division(file)
  BY DEF ParseEnds, ReadInv
<1>4. Len(payloads) \in Nat \ {0}
  BY <1>1, <1>3, HeaderIs DEF ParseEnds
<1>5. Len(tracks) < Len(payloads)
  BY <1>2, <1>4
<1>6. stage' \in {"decode", "UnsupportedSmpteDivision"} /\
      (stage' = "decode" => ~Smpte(division))
  BY DEF ParseEnds
<1> QED
  BY <1>1, <1>3, <1>5, <1>6
     DEF ParseEnds, ReadInv, Decoded, Compiling, AreTimed, IsTimed, IsPayload

LEMMA DecodeEventKeeps == ReadInv /\ DecodeEvent => ReadInv'
<1> SUFFICES ASSUME ReadInv, DecodeEvent PROVE ReadInv'
  OBVIOUS
<1> DEFINE e == Here.event
<1>1. IsTimed(e) /\ Here.next \in Nat /\ Here.running \in Statuses
  BY HereIs DEF DecodeEvent
<1>2. e.tick \in Nat
  BY <1>1 DEF IsTimed
<1>3. /\ events' = Append(events, e) /\ offset' = Here.next /\ tick' = e.tick
      /\ running' = Here.running /\ file' = file
  BY DEF DecodeEvent
<1> HIDE DEF e
<1>4. AreTimed(events')
  <2>1. IsSequence(events) /\ \A i \in 1..Len(events) : IsTimed(events[i])
    BY DEF ReadInv, AreTimed
  <2>2. Len(events) \in Nat
    BY <2>1, SequenceShape
  <2> QED
    BY <1>1, <1>3, <2>1, <2>2, AppendIs DEF AreTimed
<1>5. AreTimed(events)'
  BY <1>3, <1>4 DEF AreTimed, IsTimed
<1>6. (\A i \in 1..Len(tracks) : AreTimed(tracks[i]))'
  BY DEF DecodeEvent, ReadInv, AreTimed, IsTimed
<1>7. (\A i \in 1..Len(payloads) : IsPayload(payloads[i]))'
  BY DEF DecodeEvent, ReadInv, IsPayload
<1> QED
  BY <1>1, <1>2, <1>3, <1>5, <1>6, <1>7 DEF DecodeEvent, ReadInv, Decoded, Compiling

LEMMA DecodeEndKeeps == ReadInv /\ DecodeEnd => ReadInv'
<1> SUFFICES ASSUME ReadInv, DecodeEnd PROVE ReadInv'
  OBVIOUS
<1> DEFINE e == Here.event
           t == Append(events, e)
<1>1. IsTimed(e)
  BY HereIs DEF DecodeEnd
<1>2. tracks' = Append(tracks, t) /\ file' = file /\ events' = <<>> /\ offset' = 0
      /\ tick' = 0 /\ running' = None /\ 0 \in Nat /\ None \in Statuses
  BY DEF DecodeEnd, Statuses
<1> HIDE DEF e
<1>3. AreTimed(t)
  <2>1. IsSequence(events) /\ \A i \in 1..Len(events) : IsTimed(events[i])
    BY DEF ReadInv, AreTimed
  <2>2. Len(events) \in Nat
    BY <2>1, SequenceShape
  <2> QED
    BY <1>1, <2>1, <2>2, AppendIs DEF AreTimed
<1> HIDE DEF t
<1>4. IsSequence(tracks) /\ \A i \in 1..Len(tracks) : AreTimed(tracks[i])
  BY DEF ReadInv
<1>5. Len(tracks) \in Nat
  BY <1>4, SequenceShape
<1>6. IsSequence(tracks') /\ Len(tracks') = Len(tracks) + 1
      /\ \A i \in 1..Len(tracks') : AreTimed(tracks'[i])
  BY <1>2, <1>3, <1>4, <1>5, AppendIs
<1>7. (\A i \in 1..Len(tracks) : AreTimed(tracks[i]))'
  BY <1>2, <1>6 DEF AreTimed, IsTimed
<1>8. AreTimed(events)'
  BY <1>2, NoEvents DEF AreTimed
<1>9. stage' \in {"merge", "decode"} /\ (stage' = "decode" => Len(tracks') < Len(payloads))
  <2>1. Len(tracks) < Len(payloads) /\ Len(payloads) \in Nat
    BY SequenceShape DEF ReadInv, DecodeEnd
  <2> QED
    BY <1>5, <1>6, <2>1 DEF DecodeEnd
<1>10. /\ HeaderFault(file) = NoFault /\ division = Division(file) /\ ~Smpte(division)
       /\ file \in Files
  BY DEF DecodeEnd, ReadInv, Decoded
<1>11. IsSequence(payloads) /\ (\A i \in 1..Len(payloads) : IsPayload(payloads[i]))'
  BY <1>2 DEF DecodeEnd, ReadInv, IsPayload
<1> QED
  BY <1>2, <1>6, <1>7, <1>8, <1>9, <1>10, <1>11 DEF DecodeEnd, ReadInv, Decoded

LEMMA ReadKeeps == ReadInv /\ [ReadNext]_readVars => ReadInv'
<1> SUFFICES ASSUME ReadInv, [ReadNext]_readVars PROVE ReadInv'
  OBVIOUS
<1>1. CASE ReadHeader
  <2>1. 14 \in Nat /\ 14 >= 14
    OBVIOUS
  <2> QED
    BY <1>1, <2>1 DEF ReadHeader, ReadInv, Decoded, Compiling, IsPayload, AreTimed, IsTimed
<1>2. CASE ParseFails
  BY <1>2 DEF ParseFails, ReadInv, Decoded, Compiling, IsPayload, AreTimed, IsTimed, decodeVars
<1>3. CASE DecodeFails
  BY <1>3 DEF DecodeFails, ReadInv, Decoded, Compiling, IsPayload, AreTimed, IsTimed, decodeVars
<1>4. CASE UNCHANGED readVars
  BY <1>4 DEF readVars, ReadInv, IsPayload, AreTimed, IsTimed, decodeVars
<1> QED
  BY <1>1, <1>2, <1>3, <1>4, ReadTrackKeeps, ParseEndsKeeps, DecodeEventKeeps, DecodeEndKeeps
     DEF ReadNext

-----------------------------------------------------------------------------
(* The order of the merge.                                                 *)

\* Merged events are numbered, and known by their places.
LEMMA EventsAre ==
    ASSUME ReadInv
    PROVE  /\ \A e \in Events : /\ e.track \in Nat /\ e.track <= Len(tracks)
                                /\ e.source \in Nat /\ e.source <= Len(tracks[e.track])
                                /\ TickOf(e) \in Nat
                                /\ IsTimed(e.event)
           /\ \A d, e \in Events : d.track = e.track /\ d.source = e.source => d = e
<1>1. /\ DOMAIN tracks = 1..Len(tracks) /\ Len(tracks) \in Nat
      /\ \A t \in 1..Len(tracks) : /\ DOMAIN tracks[t] = 1..Len(tracks[t])
                                   /\ Len(tracks[t]) \in Nat
                                   /\ \A i \in 1..Len(tracks[t]) : IsTimed(tracks[t][i])
  BY SequenceShape DEF ReadInv, AreTimed
<1>2. ASSUME NEW e \in Events
      PROVE  /\ e.track \in 1..Len(tracks)
             /\ e.source \in 1..Len(tracks[e.track])
             /\ e = [track |-> e.track, source |-> e.source,
                     event |-> tracks[e.track][e.source]]
  BY <1>1 DEF Events
<1>3. \A e \in Events : /\ e.event = tracks[e.track][e.source]
                        /\ IsTimed(e.event)
  BY <1>1, <1>2
<1>4. \A e \in Events : TickOf(e) \in Nat
  BY <1>3 DEF IsTimed, TickOf
<1>5. \A e \in Events : /\ e.track \in Nat /\ e.track <= Len(tracks)
                        /\ e.source \in Nat /\ e.source <= Len(tracks[e.track])
  BY <1>1, <1>2
<1>6. \A d, e \in Events : d.track = e.track /\ d.source = e.source => d = e
  BY <1>2
<1> QED
  BY <1>3, <1>4, <1>5, <1>6

LEMMA OrderIs ==
    ASSUME ReadInv
    PROVE  \A d, e \in Events : /\ Precedes(d, e) => TickOf(d) <= TickOf(e)
                                /\ Precedes(d, e) /\ Precedes(e, d) => d = e
<1> SUFFICES ASSUME NEW d \in Events, NEW e \in Events
             PROVE  /\ Precedes(d, e) => TickOf(d) <= TickOf(e)
                    /\ Precedes(d, e) /\ Precedes(e, d) => d = e
  OBVIOUS
<1>1. /\ TickOf(d) \in Nat /\ TickOf(e) \in Nat
      /\ d.track \in Nat /\ e.track \in Nat /\ d.source \in Nat /\ e.source \in Nat
      /\ d.track = e.track /\ d.source = e.source => d = e
  BY EventsAre
<1> QED
  BY <1>1 DEF Precedes

\* Where the tick is the same the track decides, then the place in it.
LEMMA EarliestExists ==
    ASSUME ReadInv, NEW S, S \subseteq Events, S # {}
    PROVE  \E e \in S : \A d \in S : Precedes(e, d)
<1>1. \A e \in S : TickOf(e) \in Nat /\ e.track \in Nat /\ e.source \in Nat
  BY EventsAre
<1> DEFINE Ticks == {TickOf(e) : e \in S}
<1>2. PICK t \in Ticks : \A u \in Ticks : t <= u
  <2>1. Ticks \subseteq Nat /\ Ticks # {}
    BY <1>1
  <2> HIDE DEF Ticks
  <2> QED
    BY <2>1, LeastNumber
<1> DEFINE First == {e \in S : TickOf(e) = t}
           Tracks == {e.track : e \in First}
<1>3. PICK k \in Tracks : \A u \in Tracks : k <= u
  <2>1. Tracks \subseteq Nat /\ Tracks # {}
    BY <1>1, <1>2
  <2> HIDE DEF Tracks
  <2> QED
    BY <2>1, LeastNumber
<1> DEFINE Those == {e \in First : e.track = k}
           Sources == {e.source : e \in Those}
<1>4. PICK i \in Sources : \A u \in Sources : i <= u
  <2>1. Sources \subseteq Nat /\ Sources # {}
    BY <1>1, <1>3
  <2> HIDE DEF Sources
  <2> QED
    BY <2>1, LeastNumber
<1>5. PICK e \in Those : e.source = i
  BY <1>4
<1>6. e \in S /\ TickOf(e) = t /\ e.track = k /\ e.source = i
  BY <1>5
<1>7. ASSUME NEW d \in S PROVE Precedes(e, d)
  <2>1. TickOf(e) <= TickOf(d)
    BY <1>2, <1>6
  <2>2. TickOf(d) = TickOf(e) => e.track <= d.track
    BY <1>3, <1>6
  <2>3. TickOf(d) = TickOf(e) /\ d.track = e.track => e.source <= d.source
    BY <1>4, <1>6
  <2> QED
    BY <1>1, <1>6, <2>1, <2>2, <2>3 DEF Precedes
<1> QED
  BY <1>6, <1>7

LEMMA LatestExists ==
    ASSUME ReadInv, NEW n \in Nat, NEW S, S \subseteq Events, S # {},
           \A e \in S : TickOf(e) <= n
    PROVE  \E e \in S : \A d \in S : Precedes(d, e)
<1>1. \A e \in S : /\ TickOf(e) \in Nat /\ e.track \in Nat /\ e.source \in Nat
                   /\ e.track <= Len(tracks) /\ e.source <= Len(tracks[e.track])
  BY EventsAre
<1>1a. Len(tracks) \in Nat
  BY SequenceShape DEF ReadInv
<1> DEFINE Ticks == {TickOf(e) : e \in S}
<1>2. PICK t \in Ticks : \A u \in Ticks : u <= t
  <2>1. Ticks \subseteq Nat /\ Ticks # {} /\ \A u \in Ticks : u <= n
    BY <1>1
  <2> HIDE DEF Ticks
  <2> QED
    BY <2>1, GreatestUpto
<1> DEFINE Final == {e \in S : TickOf(e) = t}
           Tracks == {e.track : e \in Final}
<1>3. PICK k \in Tracks : \A u \in Tracks : u <= k
  <2>1. Tracks \subseteq Nat /\ Tracks # {} /\ \A u \in Tracks : u <= Len(tracks)
    BY <1>1, <1>2
  <2> HIDE DEF Tracks
  <2> QED
    BY <1>1a, <2>1, GreatestUpto
<1> DEFINE Those == {e \in Final : e.track = k}
           Sources == {e.source : e \in Those}
<1>4. PICK i \in Sources : \A u \in Sources : u <= i
  <2>1. Sources \subseteq Nat /\ Sources # {} /\ \A u \in Sources : u <= Len(tracks[k])
    BY <1>1, <1>3
  <2>2. Len(tracks[k]) \in Nat
    <3>1. PICK e \in Final : e.track = k
      BY <1>3
    <3>2. k \in 1..Len(tracks)
      BY <3>1 DEF Events, ReadInv, IsSequence
    <3> QED
      BY <3>2, SequenceShape DEF ReadInv, AreTimed
  <2> HIDE DEF Sources
  <2> QED
    BY <2>1, <2>2, GreatestUpto
<1>5. PICK e \in Those : e.source = i
  BY <1>4
<1>6. e \in S /\ TickOf(e) = t /\ e.track = k /\ e.source = i
  BY <1>5
<1>7. ASSUME NEW d \in S PROVE Precedes(d, e)
  <2>1. TickOf(d) <= TickOf(e)
    BY <1>2, <1>6
  <2>2. TickOf(d) = TickOf(e) => d.track <= e.track
    BY <1>3, <1>6
  <2>3. TickOf(d) = TickOf(e) /\ d.track = e.track => d.source <= e.source
    BY <1>4, <1>6
  <2> QED
    BY <1>1, <1>6, <2>1, <2>2, <2>3 DEF Precedes
<1> QED
  BY <1>6, <1>7

-----------------------------------------------------------------------------
(* Musical time.                                                           *)

Sums(g, D) ==
    \A s \in SUBSET D :
        g[s] = IF s = {} THEN 0
               ELSE TempoAt(CHOOSE x \in s : TRUE) + g[s \ {CHOOSE x \in s : TRUE}]

TemposAreNumbers == \A n \in Nat : TempoAt(n) \in Nat

\* The musical time through a tick is a sum over the ticks up to it.
LEMMA ExactTimeSums ==
    ASSUME TemposAreNumbers, NEW t \in Nat
    PROVE  \E g \in [SUBSET (1..t) -> Nat] : Sums(g, 1..t) /\ ExactTime(t) = g[1..t]
<1> DEFINE D == 1..t
           one(s) == CHOOSE x \in s : TRUE
           G(g) == [s \in SUBSET D |->
                       IF s = {} THEN 0 ELSE TempoAt(one(s)) + g[s \ {one(s)}]]
           it == CHOOSE g : g = G(g)
           F == [p \in D \X Nat |-> TempoAt(p[1]) + p[2]]
           c == [s \in SUBSET D |-> one(s)]
<1>1. ExactTime(t) = it[D]
  BY DEF ExactTime, MapThenSumSet, MapThenFoldSet
<1>2. IsFiniteSet(D) /\ D \subseteq Nat
  BY FS_Interval
<1>3. \A s \in SUBSET D : s # {} => c[s] \in s /\ c[s] = one(s)
  OBVIOUS
<1>4. F \in [D \X Nat -> Nat]
  BY DEF TemposAreNumbers
<1>5. \A x \in D, v \in Nat : F[<<x, v>>] = TempoAt(x) + v
  OBVIOUS
<1> HIDE DEF c, F, D, one
<1>6. PICK g \in [SUBSET D -> Nat] : IsFold(g, D, 0, c, F)
  <2>1. 0 \in Nat
    OBVIOUS
  <2> QED
    BY <2>1, <1>2, <1>3, <1>4, FoldExists
<1>7. ASSUME NEW s \in SUBSET D, s # {}
      PROVE  g[s] = TempoAt(one(s)) + g[s \ {one(s)}]
  <2>1. one(s) \in D /\ g[s \ {one(s)}] \in Nat
    BY <1>3, <1>6, <1>7
  <2> QED
    BY <1>3, <1>5, <1>6, <1>7, <2>1 DEF IsFold
<1>8. g = G(g)
  BY <1>6, <1>7 DEF IsFold
<1> HIDE DEF G
<1>9. it = G(it)
  BY <1>8
<1> HIDE DEF it
<1>10. it[{}] = 0
  BY <1>9 DEF G
<1>11. \A s \in SUBSET D : s # {} => it[s] = TempoAt(one(s)) + it[s \ {one(s)}]
  BY <1>9 DEF G
<1> DEFINE P == {s \in SUBSET D : it[s] \in Nat}
<1>12. ASSUME NEW s \in SUBSET D, \A x \in s : s \ {x} \in P PROVE s \in P
  <2>1. CASE s = {}
    BY <2>1, <1>10
  <2>2. CASE s # {}
    <3>1. one(s) \in s /\ it[s \ {one(s)}] \in Nat
      BY <1>3, <2>2, <1>12
    <3>2. TempoAt(one(s)) \in Nat
      BY <1>2, <3>1 DEF TemposAreNumbers
    <3>3. it[s] \in Nat
      BY <1>11, <2>2, <3>1, <3>2
    <3> QED
      BY <3>3
  <2> QED
    BY <2>1, <2>2
<1> HIDE DEF P
<1>13. \A s \in SUBSET D : s \in P
  BY <1>2, <1>12, Shrinking
<1>14. it \in [SUBSET D -> Nat]
  BY <1>9, <1>13 DEF P, G
<1>15. Sums(it, D)
  BY <1>10, <1>11 DEF Sums, one
<1> QED
  BY <1>1, <1>14, <1>15 DEF D

\* In whatever order.
LEMMA SumWithout ==
    ASSUME TemposAreNumbers, NEW D \in SUBSET Nat, IsFiniteSet(D),
           NEW g \in [SUBSET D -> Nat], Sums(g, D), NEW t \in SUBSET D, NEW y \in t
    PROVE  g[t] = TempoAt(y) + g[t \ {y}]
<1> DEFINE one(s) == CHOOSE x \in s : TRUE
           P == {s \in SUBSET D : \A x \in s : g[s] = TempoAt(x) + g[s \ {x}]}
<1>1. \A s \in SUBSET D : s # {} => /\ one(s) \in s
                                    /\ g[s] = TempoAt(one(s)) + g[s \ {one(s)}]
  BY DEF Sums
<1> HIDE DEF one
<1>2. ASSUME NEW s \in SUBSET D, \A x \in s : s \ {x} \in P,
             NEW x \in s
      PROVE  g[s] = TempoAt(x) + g[s \ {x}]
  <2>1. CASE x = one(s)
    BY <1>1, <2>1
  <2>2. CASE x # one(s)
    <3> DEFINE c == one(s)
               r == s \ {c, x}
    <3>1. c \in s /\ g[s] = TempoAt(c) + g[s \ {c}]
      BY <1>1
    <3>2. x \in s \ {c} /\ c \in s \ {x} /\ (s \ {c}) \ {x} = r /\ (s \ {x}) \ {c} = r
      BY <3>1, <2>2
    <3>3. g[s \ {c}] = TempoAt(x) + g[r]
      BY <1>2, <3>1, <3>2
    <3>4. g[s \ {x}] = TempoAt(c) + g[r]
      BY <1>2, <3>1, <3>2
    <3>5. TempoAt(x) \in Nat /\ TempoAt(c) \in Nat /\ g[r] \in Nat
      BY <3>1 DEF TemposAreNumbers
    <3> HIDE DEF c, r
    <3> QED
      BY <3>1, <3>3, <3>4, <3>5
  <2> QED
    BY <2>1, <2>2
<1>3. \A s \in SUBSET D : (\A x \in s : s \ {x} \in P) => s \in P
  BY <1>2
<1> HIDE DEF P
<1>4. t \in P
  BY <1>3, Shrinking
<1> QED
  BY <1>4 DEF P

\* And of whatever larger set the sets are subsets.
LEMMA SumWithin ==
    ASSUME TemposAreNumbers, NEW D, IsFiniteSet(D), NEW E, D \subseteq E,
           NEW g, Sums(g, D), NEW h, Sums(h, E)
    PROVE  g[D] = h[D]
<1> DEFINE P == {s \in SUBSET D : g[s] = h[s]}
<1>1. ASSUME NEW s \in SUBSET D, \A x \in s : s \ {x} \in P PROVE s \in P
  <2>1. CASE s = {}
    BY <2>1 DEF Sums
  <2>2. CASE s # {}
    <3> DEFINE c == CHOOSE x \in s : TRUE
    <3>1. g[s] = TempoAt(c) + g[s \ {c}] /\ h[s] = TempoAt(c) + h[s \ {c}]
      BY <2>2 DEF Sums
    <3>2. c \in s
      BY <2>2
    <3> HIDE DEF c
    <3>3. g[s \ {c}] = h[s \ {c}]
      BY <3>2, <1>1
    <3> QED
      BY <3>1, <3>3
  <2> QED
    BY <2>1, <2>2
<1> HIDE DEF P
<1>2. D \in P
  BY <1>1, Shrinking
<1> QED
  BY <1>2 DEF P

\* One tick more lasts one tempo more.
LEMMA ExactTimeGrows ==
    ASSUME TemposAreNumbers
    PROVE  /\ ExactTime(0) = 0
           /\ \A t \in Nat : /\ ExactTime(t) \in Nat
                             /\ ExactTime(t + 1) = ExactTime(t) + TempoAt(t + 1)
<1>1. ExactTime(0) = 0
  <2>1. PICK g \in [SUBSET (1..0) -> Nat] : Sums(g, 1..0) /\ ExactTime(0) = g[1..0]
    BY ExactTimeSums
  <2>2. 1..0 = {}
    OBVIOUS
  <2> QED
    BY <2>1, <2>2 DEF Sums
<1>2. ASSUME NEW t \in Nat
      PROVE  /\ ExactTime(t) \in Nat
             /\ ExactTime(t + 1) = ExactTime(t) + TempoAt(t + 1)
  <2> DEFINE D == 1..t
             E == 1..(t + 1)
  <2>1. PICK g \in [SUBSET D -> Nat] : Sums(g, D) /\ ExactTime(t) = g[D]
    BY ExactTimeSums
  <2>2. t + 1 \in Nat /\ (t + 1) \in E /\ E \ {t + 1} = D /\ D \subseteq E
    OBVIOUS
  <2>3. PICK h \in [SUBSET E -> Nat] : Sums(h, E) /\ ExactTime(t + 1) = h[E]
    BY <2>2, ExactTimeSums
  <2>4. IsFiniteSet(D) /\ IsFiniteSet(E) /\ E \subseteq Nat
    BY <2>2, FS_Interval
  <2> HIDE DEF D, E
  <2>5. h[E] = TempoAt(t + 1) + h[D]
    <3>1. E \in SUBSET Nat /\ E \in SUBSET E
      BY <2>4
    <3> DEFINE y == t + 1
    <3>2. y \in E /\ h \in [SUBSET E -> Nat] /\ Sums(h, E)
      BY <2>2, <2>3
    <3> HIDE DEF y
    <3>3. h[E] = TempoAt(y) + h[E \ {y}]
      BY <2>4, <3>1, <3>2, SumWithout
    <3> QED
      BY <2>2, <3>3 DEF y
  <2>6. g[D] = h[D]
    BY <2>1, <2>2, <2>3, <2>4, SumWithin
  <2>7. g[D] \in Nat /\ TempoAt(t + 1) \in Nat
    BY <2>1, <2>2 DEF TemposAreNumbers
  <2> QED
    BY <2>1, <2>3, <2>5, <2>6, <2>7
<1> QED
  BY <1>1, <1>2

\* Ticks of one tempo last so many of it.
LEMMA ExactTimeAhead ==
    ASSUME TemposAreNumbers, NEW t \in Nat, NEW d \in Nat, NEW m \in Nat,
           \A n \in t + 1..t + d : TempoAt(n) = m
    PROVE  ExactTime(t + d) = ExactTime(t) + d * m
<1> DEFINE S == {k \in Nat : k <= d => ExactTime(t + k) = ExactTime(t) + k * m}
<1>1. \A k \in Nat : ExactTime(k) \in Nat
  BY ExactTimeGrows
<1>2. 0 \in S
  BY <1>1
<1>3. ASSUME NEW k \in Nat, k \in S PROVE k + 1 \in S
  <2> SUFFICES ASSUME k + 1 <= d
               PROVE  ExactTime(t + (k + 1)) = ExactTime(t) + (k + 1) * m
    OBVIOUS
  <2>1. ExactTime(t + k) = ExactTime(t) + k * m
    BY <1>3
  <2>2. ExactTime((t + k) + 1) = ExactTime(t + k) + TempoAt((t + k) + 1)
    BY ExactTimeGrows
  <2>3. TempoAt((t + k) + 1) = m
    OBVIOUS
  <2>4. (t + k) + 1 = t + (k + 1)
    OBVIOUS
  <2>5. (k + 1) * m = k * m + m /\ k * m \in Nat
    OBVIOUS
  <2> QED
    BY <1>1, <2>1, <2>2, <2>3, <2>4, <2>5
<1> HIDE DEF S
<1>4. d \in S
  BY <1>2, <1>3, Counting
<1> QED
  BY <1>4 DEF S

-----------------------------------------------------------------------------
(* The tempo in force after some of the events.                            *)

LastOf(set) ==
    IF set = {} THEN DefaultTempo
    ELSE TempoOf(CHOOSE e \in set : \A d \in set : Precedes(d, e))

TempoAfter(S) == LastOf({e \in S : SetsTempo(e)})

LEMMA TempoAtIs ==
    \A n : TempoAt(n) = TempoAfter({e \in Events : TickOf(e) < n})
<1> TAKE n
<1> DEFINE S == {e \in Events : TickOf(e) < n}
           set == {e \in Events : SetsTempo(e) /\ TickOf(e) < n}
<1>1. set = {e \in S : SetsTempo(e)}
  OBVIOUS
<1>2. TempoAt(n) = LastOf(set)
  BY DEF TempoAt, LastOf
<1> HIDE DEF S, set
<1>3. TempoAfter(S) = LastOf(set)
  BY <1>1 DEF TempoAfter
<1> QED
  BY <1>2, <1>3 DEF S

\* A quarter note of it fits the integers.
LEMMA TempoAfterFits ==
    ASSUME ReadInv, HeaderFault(file) = NoFault, ~Smpte(Division(file)),
           NEW n \in Nat, NEW S, S \subseteq Events, \A e \in S : TickOf(e) <= n
    PROVE  TempoAfter(S) \in Nat /\ QuarterFits(file, TempoAfter(S))
<1> DEFINE set == {e \in S : SetsTempo(e)}
           last == CHOOSE e \in set : \A d \in set : Precedes(d, e)
<1>1. CASE set = {}
  <2>1. TempoAfter(S) = DefaultTempo
    BY <1>1 DEF TempoAfter, LastOf
  <2> QED
    BY <2>1, FilesAssumption DEF ReadInv
<1>2. CASE set # {}
  <2>1. TempoAfter(S) = TempoOf(last)
    BY <1>2 DEF TempoAfter, LastOf
  <2>2. \E e \in set : \A d \in set : Precedes(d, e)
    <3>1. set \subseteq Events /\ set # {} /\ \A e \in set : TickOf(e) <= n
      BY <1>2
    <3> HIDE DEF set
    <3> QED
      BY <3>1, LatestExists
  <2>3. last \in set
    BY <2>2
  <2>4. last \in Events /\ SetsTempo(last)
    BY <2>3
  <2> HIDE DEF last
  <2> QED
    BY <2>1, <2>4, EventsAre DEF IsTimed, SetsTempo, TempoOf
<1> QED
  BY <1>1, <1>2

LEMMA AllTemposAreNumbers ==
    ASSUME ReadInv, HeaderFault(file) = NoFault, ~Smpte(Division(file))
    PROVE  TemposAreNumbers
<1> SUFFICES ASSUME NEW n \in Nat PROVE TempoAt(n) \in Nat
  BY DEF TemposAreNumbers
<1> DEFINE S == {e \in Events : TickOf(e) < n}
<1>1. S \subseteq Events /\ \A e \in S : TickOf(e) <= n
  BY EventsAre
<1>2. TempoAt(n) = TempoAfter(S)
  BY TempoAtIs
<1> HIDE DEF S
<1> QED
  BY <1>1, <1>2, TempoAfterFits

\* One more event sets the tempo or leaves it.
LEMMA TempoAfterOne ==
    ASSUME ReadInv, NEW S, S \subseteq Events, NEW e \in Events,
           \A d \in S : Precedes(d, e)
    PROVE  TempoAfter(S \cup {e}) = IF SetsTempo(e) THEN TempoOf(e) ELSE TempoAfter(S)
<1> DEFINE set == {d \in S : SetsTempo(d)}
           more == {d \in S \cup {e} : SetsTempo(d)}
<1>1. CASE ~SetsTempo(e)
  <2>1. more = set
    BY <1>1
  <2> QED
    BY <1>1, <2>1 DEF TempoAfter
<1>2. CASE SetsTempo(e)
  <2>1. more = set \cup {e} /\ more # {} /\ e \in more /\ more \subseteq Events
    BY <1>2
  <2>2. \A d \in more : Precedes(d, e)
    <3>1. Precedes(e, e)
      BY EventsAre DEF Precedes
    <3> QED
      BY <3>1
  <2> DEFINE last == CHOOSE l \in more : \A d \in more : Precedes(d, l)
  <2>3. last \in more /\ \A d \in more : Precedes(d, last)
    BY <2>1, <2>2
  <2>4. TempoAfter(S \cup {e}) = TempoOf(last)
    BY <2>1 DEF TempoAfter, LastOf
  <2> HIDE DEF last, more
  <2>5. last = e
    BY <2>1, <2>2, <2>3, OrderIs
  <2> QED
    BY <1>2, <2>4, <2>5
<1> QED
  BY <1>1, <1>2

-----------------------------------------------------------------------------
(* The compilation.                                                        *)

Past == Events \ todo

Unbegun ==
    stage \notin Compiling =>
        /\ todo = {} /\ timeline = <<>> /\ tempo = DefaultTempo
        /\ previousTick = 0 /\ time = 0 /\ remainder = 0

\* The events are taken in their order, each under the tempo set last.
Merged ==
    stage \in Compiling =>
        /\ todo \subseteq Events
        /\ \A d \in Past : \A e \in todo : Precedes(d, e)
        /\ previousTick \in Nat
        /\ \A d \in Past : TickOf(d) <= previousTick
        /\ \A e \in todo : previousTick <= TickOf(e)
        /\ tempo = TempoAfter(Past)

\* With what was carried over, the clock is exact.
Clock ==
    stage \in Compiling =>
        /\ time \in 0..MaxTime
        /\ remainder \in Nat /\ remainder < division
        /\ time * division + remainder = ExactTime(previousTick)

\* What an event on the timeline got is the quotient then.
IsPlaced(e) ==
    /\ e.time \in 0..time
    /\ TickOf(e) \in Nat
    /\ e.time = ExactTime(TickOf(e)) \div division

Placed ==
    /\ IsSequence(timeline)
    /\ \A i \in 1..Len(timeline) : IsPlaced(timeline[i])
    /\ \A i, j \in 1..Len(timeline) : i < j => timeline[i].time <= timeline[j].time

\* A file is refused for what an event's time really is.
Refused ==
    stage = "TimeOverflow" =>
        todo # {} /\ ExactTime(TickOf(Earliest)) \div division > MaxTime

CompileInv ==
    /\ ReadInv
    /\ Unbegun
    /\ Merged
    /\ Clock
    /\ Placed
    /\ Refused

LEMMA DivisionIs ==
    ASSUME ReadInv, stage \in Compiling
    PROVE  /\ division \in Nat /\ division > 0
           /\ HeaderFault(file) = NoFault /\ ~Smpte(Division(file))
           /\ division = Division(file)
<1>1. file \in Seq(Byte) /\ HeaderFault(file) = NoFault
  BY FilesAssumption DEF ReadInv, Byte, Decoded
<1>2. division = Division(file) /\ ~Smpte(Division(file))
  BY DEF ReadInv, Decoded
<1> QED
  BY <1>1, <1>2, HeaderIs

LEMMA EarliestIs ==
    ASSUME ReadInv, todo \subseteq Events, todo # {}
    PROVE  Earliest \in todo /\ \A d \in todo : Precedes(Earliest, d)
<1>1. \E e \in todo : \A d \in todo : Precedes(e, d)
  BY EarliestExists
<1> QED
  BY <1>1 DEF Earliest

\* What the tempo's bound is for: the numerator never overflows.
LEMMA NumeratorFits ==
    ASSUME NEW d \in Nat, d > 0, NEW m \in Nat, (d - 1) * (m + 1) <= MaxTime,
           NEW a \in Nat, a < d, NEW r \in Nat, r < d
    PROVE  a * m + r \in Nat /\ a * m + r <= MaxTime
<1> DEFINE c == (d - 1) - a
<1>1. c \in Nat /\ a + c = d - 1
  OBVIOUS
<1>2. a * m \in Nat /\ c * m \in Nat /\ (a + c) * m = a * m + c * m
  <2> HIDE DEF c
  <2> QED
    BY <1>1
<1>3. (d - 1) * (m + 1) = (d - 1) * m + (d - 1)
  OBVIOUS
<1> DEFINE am == a * m
           cm == c * m
           dm == (d - 1) * m
           top == (d - 1) * (m + 1)
<1>4. am \in Nat /\ cm \in Nat /\ dm = am + cm /\ top = dm + (d - 1) /\ top <= MaxTime
  BY <1>1, <1>2, <1>3
<1>5. MaxTime \in Nat
  BY FilesAssumption
<1> SUFFICES am + r \in Nat /\ am + r <= MaxTime
  OBVIOUS
<1> HIDE DEF am, cm, dm, top
<1> QED
  BY <1>4, <1>5

\* The interval before the next event, and the division carried through it.
LEMMA IntervalIs ==
    ASSUME CompileInv, stage = "compile", todo # {}
    PROVE  /\ WholeTime \in Nat /\ Numerator \in Nat /\ Interval \in Nat
           /\ WholeTime <= Interval /\ Numerator <= MaxTime
           /\ Numerator % division \in Nat /\ Numerator % division < division
           /\ (time + Interval) * division + (Numerator % division)
                 = ExactTime(TickOf(Earliest))
<1> DEFINE e == Earliest
           d == division
           p == previousTick
           m == tempo
           q == Delta \div d
           a == Delta % d
           n == a * m + remainder
<1>1. stage \in Compiling /\ ReadInv /\ Merged /\ Clock
  BY DEF Compiling, CompileInv
<1>2. /\ d \in Nat /\ d > 0
      /\ HeaderFault(file) = NoFault /\ ~Smpte(Division(file)) /\ d = Division(file)
  BY <1>1, DivisionIs
<1>3. /\ e \in todo /\ e \in Events /\ \A x \in todo : Precedes(e, x)
      /\ \A x \in todo : TickOf(e) <= TickOf(x)
  BY <1>1, EarliestIs, OrderIs DEF Merged
<1>4. p \in Nat /\ TickOf(e) \in Nat /\ p <= TickOf(e)
  BY <1>1, <1>3, EventsAre DEF Merged
<1>5. Delta \in Nat /\ TickOf(e) = p + Delta
  BY <1>4 DEF Delta
<1>6. m \in Nat /\ QuarterFits(file, m)
  <2>1. Past \subseteq Events /\ m = TempoAfter(Past) /\ \A x \in Past : TickOf(x) <= p
    BY <1>1 DEF Past, Merged
  <2> QED
    BY <1>1, <1>2, <1>4, <2>1, TempoAfterFits
<1>7. TemposAreNumbers
  BY <1>1, <1>2, AllTemposAreNumbers
<1>8. \A k \in p + 1..p + Delta : TempoAt(k) = m
  <2> TAKE k \in p + 1..p + Delta
  <2>1. k \in Nat /\ p < k /\ k <= TickOf(e)
    BY <1>4, <1>5
  <2>2. {x \in Events : TickOf(x) < k} = Past
    <3>1. ASSUME NEW x \in Past PROVE x \in Events /\ TickOf(x) < k
      <4>1. x \in Events /\ TickOf(x) <= p /\ TickOf(x) \in Nat
        BY <1>1, EventsAre DEF Past, Merged
      <4> QED
        BY <1>4, <2>1, <4>1
    <3>2. ASSUME NEW x \in Events, TickOf(x) < k PROVE x \notin todo
      <4>1. TickOf(x) \in Nat
        BY <1>1, EventsAre
      <4> QED
        BY <1>3, <1>4, <2>1, <3>2, <4>1
    <3> QED
      BY <3>1, <3>2 DEF Past
  <2> QED
    BY <1>1, <2>2, TempoAtIs DEF Merged
<1>9. ExactTime(TickOf(e)) = ExactTime(p) + Delta * m
  <2> HIDE DEF p, m, e
  <2>1. ExactTime(p + Delta) = ExactTime(p) + Delta * m
    BY <1>4, <1>5, <1>6, <1>7, <1>8, ExactTimeAhead
  <2> QED
    BY <1>5, <2>1
<1>10. ExactTime(p) = time * d + remainder /\ time \in Nat
       /\ remainder \in Nat /\ remainder < d
  <2>1. MaxTime \in Nat
    BY FilesAssumption
  <2> QED
    BY <1>1, <2>1 DEF Clock
<1> HIDE DEF e, p, m, d
<1>11. q \in Nat /\ a \in Nat /\ a < d /\ Delta = q * d + a
  BY <1>2, <1>5, DivMod
<1> HIDE DEF q, a
<1>12. n \in Nat /\ n <= MaxTime
  <2>1. (d - 1) * (m + 1) <= MaxTime
    BY <1>2, <1>6 DEF QuarterFits
  <2> QED
    BY <1>2, <1>6, <1>10, <1>11, <2>1, NumeratorFits
<1> HIDE DEF n
<1>13. n \div d \in Nat /\ n % d \in Nat /\ n % d < d /\ n = (n \div d) * d + (n % d)
  <2>1. d \in Nat /\ d > 0 /\ n \in Nat
    BY <1>2, <1>12
  <2> QED
    BY <2>1, DivMod
<1>14. q * m \in Nat
  BY <1>6, <1>11
<1>15. WholeTime = q * m /\ Numerator = n /\ Interval = q * m + n \div d
  BY DEF WholeTime, Numerator, Interval, q, a, m, d, n
<1> DEFINE w == q * m
           h == n \div d
           r == n % d
<1>16. (time + (w + h)) * d + r = ExactTime(p) + Delta * m
  <2>1. w * d = q * d * m
    BY <1>2, <1>6, <1>11
  <2>2. Delta * m = q * d * m + a * m
    BY <1>2, <1>6, <1>11
  <2> DEFINE wd == w * d
             hd == h * d
             td == time * d
             am == a * m
             dm == Delta * m
  <2>3. am \in Nat /\ td \in Nat /\ hd \in Nat /\ wd \in Nat
    <3> HIDE DEF h
    <3> QED
      BY <1>2, <1>6, <1>10, <1>11, <1>13, <1>14 DEF h
  <2>4. /\ dm = wd + am
        /\ n = am + remainder
        /\ n = hd + r
        /\ ExactTime(p) = td + remainder
    <3>1. dm = wd + am
      BY <2>1, <2>2
    <3>2. n = am + remainder
      BY DEF n
    <3>3. n = hd + r
      BY <1>13
    <3>4. ExactTime(p) = td + remainder
      BY <1>10
    <3> HIDE DEF wd, hd, td, am, dm, r
    <3> QED
      BY <3>1, <3>2, <3>3, <3>4
  <2>5. (time + (w + h)) * d = td + (wd + hd)
    <3> HIDE DEF w, h
    <3> QED
      BY <1>2, <1>10, <1>13, <1>14 DEF w, h
  <2>6. r \in Nat /\ remainder \in Nat
    BY <1>10, <1>13
  <2> SUFFICES (time + (w + h)) * d + r = ExactTime(p) + dm
    OBVIOUS
  <2> HIDE DEF wd, hd, td, am, dm, w, h, r
  <2> QED
    BY <2>3, <2>4, <2>5, <2>6
<1>17. w \in Nat /\ h \in Nat /\ r \in Nat /\ r < d
       /\ WholeTime = w /\ Interval = w + h /\ Numerator = n
  BY <1>13, <1>14, <1>15
<1>18. Numerator % division = r
  BY <1>15 DEF d
<1> HIDE DEF w, h, r
<1>19. /\ WholeTime \in Nat /\ Numerator \in Nat /\ Interval \in Nat
       /\ WholeTime <= Interval /\ Numerator <= MaxTime
  BY <1>12, <1>17
<1>20. (time + Interval) * d + r = ExactTime(TickOf(e))
  BY <1>9, <1>16, <1>17
<1>21. (time + Interval) * division + (Numerator % division) = ExactTime(TickOf(Earliest))
  BY <1>18, <1>20 DEF d, e
<1>22. Numerator % division \in Nat /\ Numerator % division < division
  BY <1>17, <1>18 DEF d
<1> QED
  BY <1>19, <1>21, <1>22

\* The tracks are all that musical time depends on.
LEMMA SameTracks ==
    ASSUME tracks' = tracks
    PROVE  /\ Events' = Events
           /\ \A n : TempoAt(n)' = TempoAt(n)
           /\ \A n : ExactTime(n)' = ExactTime(n)
<1>1. Events' = Events
  BY DEF Events
<1>2. \A n : TempoAt(n)' = TempoAt(n)
  BY DEF TempoAt, Events
<1>3. \A n : ExactTime(n)' = ExactTime(n)
  BY DEF ExactTime, MapThenSumSet, MapThenFoldSet, TempoAt, Events
<1> QED
  BY <1>1, <1>2, <1>3

\* Until the merge nothing is scheduled.
LEMMA ReadingIsBefore ==
    ASSUME ReadNext
    PROVE  stage \notin Compiling /\ stage' \notin Compiling
<1> USE DEF Compiling
<1>1. CASE ParseFails
  <2>1. stage \in {"header", "chunks"}
    BY <1>1 DEF ParseFails, ParseFault
  <2> QED
    BY <1>1, <2>1 DEF ParseFails
<1> QED
  BY <1>1 DEF ReadNext, ReadHeader, ReadTrack, ParseEnds, DecodeEvent, DecodeEnd, DecodeFails

LEMMA ReadingKeeps ==
    ASSUME CompileInv, ReadNext, UNCHANGED scheduleVars
    PROVE  CompileInv'
<1>1. ReadInv'
  BY ReadKeeps DEF CompileInv
<1>2. stage \notin Compiling /\ stage' \notin Compiling
  BY ReadingIsBefore
<1>3. Unbegun'
  BY <1>2 DEF CompileInv, Unbegun, scheduleVars
<1>4. timeline' = <<>>
  BY <1>2 DEF CompileInv, Unbegun, scheduleVars
<1>5. Placed'
  <2>1. IsSequence(<<>>) /\ 1..Len(<<>>) = {}
    BY NoEvents
  <2> QED
    BY <1>4, <2>1 DEF Placed
<1>6. Merged' /\ Clock' /\ Refused'
  BY <1>2 DEF Merged, Clock, Refused, Compiling
<1> QED
  BY <1>1, <1>3, <1>5, <1>6 DEF CompileInv

LEMMA CompilingReads ==
    ASSUME CompileInv, Merge \/ Compile \/ TimeOverflow \/ Compiled \/ UNCHANGED compileVars
    PROVE  ReadInv'
<1>1. CASE Merge
  BY <1>1 DEF Merge, CompileInv, ReadInv, Decoded, Compiling, IsPayload, AreTimed, IsTimed,
     decodeVars
<1>2. CASE Compile
  BY <1>2, ReadKeeps DEF Compile, CompileInv
<1>3. CASE TimeOverflow
  BY <1>3 DEF TimeOverflow, CompileInv, ReadInv, Decoded, Compiling, IsPayload, AreTimed,
     IsTimed, decodeVars
<1>4. CASE Compiled
  BY <1>4 DEF Compiled, CompileInv, ReadInv, Decoded, Compiling, IsPayload, AreTimed,
     IsTimed, decodeVars
<1>5. CASE UNCHANGED compileVars
  BY <1>5, ReadKeeps DEF CompileInv, compileVars
<1> QED
  BY <1>1, <1>2, <1>3, <1>4, <1>5

LEMMA MergeKeeps ==
    ASSUME CompileInv, Merge
    PROVE  CompileInv'
<1>1. ReadInv'
  BY CompilingReads
<1>2. /\ stage = "merge" /\ stage' = "compile" /\ todo' = Events /\ tracks' = tracks
      /\ division' = division /\ file' = file
      /\ UNCHANGED <<timeline, tempo, previousTick, time, remainder>>
  BY DEF Merge, decodeVars
<1>3. /\ timeline = <<>> /\ tempo = DefaultTempo
      /\ previousTick = 0 /\ time = 0 /\ remainder = 0
  BY <1>2 DEF CompileInv, Unbegun, Compiling
<1>4. Past' = {} /\ todo' = Events'
  BY <1>2, SameTracks DEF Past
<1>5. \A e \in Events : TickOf(e) \in Nat
  BY EventsAre DEF CompileInv
<1>6. Merged'
  <2>1. TempoAfter({}) = DefaultTempo
    BY DEF TempoAfter, LastOf
  <2>2. \A e \in todo' : previousTick' <= TickOf(e)
    BY <1>2, <1>3, <1>5, ZeroIsLeast
  <2>3. 0 \in Nat
    OBVIOUS
  <2> QED
    BY <1>2, <1>3, <1>4, <2>1, <2>2, <2>3 DEF Merged
<1>7. Clock'
  <2>1. file \in Seq(Byte) /\ HeaderFault(file) = NoFault /\ ~Smpte(division)
        /\ division = Division(file)
    BY <1>2, FilesAssumption DEF CompileInv, ReadInv, Byte, Decoded
  <2>2. division \in Nat /\ division > 0
    BY <2>1, HeaderIs
  <2>3. TemposAreNumbers
    BY <2>1, AllTemposAreNumbers DEF CompileInv
  <2>4. ExactTime(0) = 0
    BY <2>3, ExactTimeGrows
  <2>5. ExactTime(previousTick)' = 0
    BY <1>2, <1>3, <2>4, SameTracks
  <2> QED
    BY <1>2, <1>3, <2>2, <2>5, FilesAssumption DEF Clock
<1>8. Placed'
  <2>1. IsSequence(<<>>) /\ 1..Len(<<>>) = {}
    BY NoEvents
  <2> QED
    BY <1>2, <1>3, <2>1 DEF Placed
<1>9. Unbegun' /\ Refused'
  BY <1>2 DEF Unbegun, Refused, Compiling
<1> QED
  BY <1>1, <1>6, <1>7, <1>8, <1>9 DEF CompileInv

\* Where only the stage changes.
LEMMA ScheduleStays ==
    ASSUME CompileInv, UNCHANGED <<tracks, division, scheduleVars>>,
           stage' \in Compiling <=> stage \in Compiling
    PROVE  Unbegun' /\ Merged' /\ Clock' /\ Placed'
<1>1. Events' = Events /\ Past' = Past /\ \A n : ExactTime(n)' = ExactTime(n)
  BY SameTracks DEF Past, scheduleVars
<1>2. \A e : IsPlaced(e)' <=> IsPlaced(e)
  BY <1>1 DEF IsPlaced, scheduleVars
<1>3. /\ todo' = todo /\ timeline' = timeline /\ tempo' = tempo
      /\ previousTick' = previousTick /\ time' = time /\ remainder' = remainder
      /\ division' = division
  BY DEF scheduleVars
<1>4. Unbegun'
  BY <1>3 DEF CompileInv, Unbegun
<1>5. Merged'
  BY <1>1, <1>3 DEF CompileInv, Merged
<1>6. Clock'
  BY <1>1, <1>3 DEF CompileInv, Clock
<1>7. Placed'
  BY <1>2, <1>3 DEF CompileInv, Placed
<1> QED
  BY <1>4, <1>5, <1>6, <1>7

LEMMA TimeOverflowKeeps ==
    ASSUME CompileInv, TimeOverflow
    PROVE  CompileInv'
<1>1. ReadInv'
  BY CompilingReads
<1>2. Unbegun' /\ Merged' /\ Clock' /\ Placed'
  BY ScheduleStays DEF TimeOverflow, Compiling, decodeVars
<1>3. /\ stage = "compile" /\ todo # {} /\ ~Fits /\ todo' = todo
      /\ tracks' = tracks /\ division' = division
  BY DEF TimeOverflow, scheduleVars, decodeVars
<1> DEFINE t == ExactTime(TickOf(Earliest))
           q == time + Interval
           r == Numerator % division
<1>4. /\ WholeTime \in Nat /\ Numerator \in Nat /\ Interval \in Nat
      /\ WholeTime <= Interval /\ Numerator <= MaxTime
      /\ r \in Nat /\ r < division
      /\ q * division + r = t
  BY <1>3, IntervalIs
<1>5. time \in Nat /\ MaxTime \in Nat
  <2>1. MaxTime \in Nat
    BY FilesAssumption
  <2> QED
    BY <1>3, <2>1 DEF CompileInv, Clock, Compiling
<1>6. q > MaxTime /\ q \in Nat
  BY <1>3, <1>4, <1>5 DEF Fits, FitsInterval
<1>7. division \in Nat /\ division > 0
  BY <1>3, DivisionIs DEF CompileInv, Compiling
<1>8. t \div division = q
  <2> HIDE DEF t, q, r
  <2>1. q * division \in Nat
    BY <1>6, <1>7
  <2>2. t \in Nat
    BY <1>4, <2>1
  <2> QED
    BY <1>4, <1>6, <1>7, <2>2, Quotient
<1>9. Refused'
  <2>1. Earliest' = Earliest
    BY <1>3 DEF Earliest
  <2>2. ExactTime(TickOf(Earliest))' = t
    BY <1>3, <2>1, SameTracks
  <2>3. t \div division > MaxTime
    BY <1>6, <1>8
  <2> HIDE DEF t
  <2> QED
    BY <1>3, <2>2, <2>3 DEF Refused
<1> QED
  BY <1>1, <1>2, <1>9 DEF CompileInv

LEMMA StutterKeeps ==
    ASSUME CompileInv, Compiled \/ UNCHANGED compileVars
    PROVE  CompileInv'
<1>1. ReadInv'
  BY CompilingReads
<1>2. Unbegun' /\ Merged' /\ Clock' /\ Placed'
  <2>1. UNCHANGED <<tracks, division, scheduleVars>>
    BY DEF Compiled, compileVars, readVars, decodeVars
  <2>2. stage' \in Compiling <=> stage \in Compiling
    BY DEF Compiled, Compiling, compileVars, readVars
  <2> QED
    BY <2>1, <2>2, ScheduleStays
<1>3. Refused'
  <2>1. CASE Compiled
    BY <2>1 DEF Compiled, Refused
  <2>2. CASE UNCHANGED compileVars
    <3>1. /\ stage' = stage /\ todo' = todo /\ tracks' = tracks /\ division' = division
      BY <2>2 DEF compileVars, readVars, decodeVars, scheduleVars
    <3>2. Earliest' = Earliest
      BY <3>1 DEF Earliest
    <3> QED
      BY <3>1, <3>2, SameTracks DEF Refused, CompileInv
  <2> QED
    BY <2>1, <2>2
<1> QED
  BY <1>1, <1>2, <1>3 DEF CompileInv

\* The next event takes its time and the tempo it may set.
LEMMA CompileKeeps ==
    ASSUME CompileInv, Compile
    PROVE  CompileInv'
<1> DEFINE e == Earliest
           t == TickOf(e)
           q == time + Interval
           r == Numerator % division
           x == OnTimeline(q, e)
<1>1. ReadInv'
  BY CompilingReads
<1>2. /\ stage = "compile" /\ todo # {} /\ Fits
      /\ stage' = stage /\ tracks' = tracks /\ division' = division
      /\ time' = q /\ remainder' = r /\ previousTick' = t
      /\ timeline' = Append(timeline, x)
      /\ tempo' = (IF SetsTempo(e) THEN TempoOf(e) ELSE tempo)
      /\ todo' = todo \ {e}
  BY DEF Compile, readVars, decodeVars
<1>3. stage \in Compiling /\ ReadInv /\ Merged /\ Clock /\ Placed
  BY <1>2 DEF Compiling, CompileInv
<1>4. /\ e \in todo /\ todo \subseteq Events /\ \A d \in todo : Precedes(e, d)
  BY <1>2, <1>3, EarliestIs DEF Merged
<1>5. /\ t \in Nat /\ previousTick \in Nat /\ previousTick <= t
      /\ \A d \in Events : TickOf(d) \in Nat
      /\ \A d \in todo : t <= TickOf(d)
  BY <1>3, <1>4, EventsAre, OrderIs DEF Merged
<1>6. /\ Interval \in Nat /\ r \in Nat /\ r < division
      /\ q * division + r = ExactTime(t)
  BY <1>2, IntervalIs DEF CompileInv
<1>7. time \in Nat /\ MaxTime \in Nat /\ q \in 0..MaxTime /\ time <= q
  <2>1. MaxTime \in Nat
    BY FilesAssumption
  <2>2. time \in 0..MaxTime
    BY <1>3 DEF Clock
  <2> QED
    BY <1>2, <1>6, <2>1, <2>2 DEF Fits, FitsInterval
<1>8. division \in Nat /\ division > 0
  BY <1>3, DivisionIs
<1>9. ExactTime(t) \div division = q
  <2>1. q \in Nat
    BY <1>7
  <2> HIDE DEF t, q, r
  <2>2. q * division \in Nat
    BY <1>8, <2>1
  <2>3. ExactTime(t) \in Nat
    BY <1>6, <2>2
  <2> QED
    BY <1>6, <1>8, <2>1, <2>3, Quotient
<1>10. x.time = q /\ TickOf(x) = t
  BY DEF OnTimeline, TickOf
<1>11. Events' = Events /\ \A n : ExactTime(n)' = ExactTime(n)
  BY <1>2, SameTracks
<1> HIDE DEF e, t, q, r, x
<1>12. Past' = Past \cup {e} /\ Past \subseteq Events /\ e \in Events
  BY <1>2, <1>4, <1>11 DEF Past
<1>13. \A d \in Past : Precedes(d, e) /\ TickOf(d) <= previousTick
  BY <1>3, <1>4 DEF Merged
<1>14. Merged'
  <2>1. todo' \subseteq Events'
    BY <1>2, <1>4, <1>11
  <2>2. \A d \in Past', y \in todo' : Precedes(d, y)
    BY <1>2, <1>3, <1>4, <1>12 DEF Merged
  <2>3. \A d \in Past' : TickOf(d) <= previousTick'
    <3>1. \A d \in Past : TickOf(d) <= t
      BY <1>5, <1>12, <1>13
    <3>2. TickOf(e) <= t
      BY <1>5 DEF t
    <3> QED
      BY <1>2, <1>12, <3>1, <3>2
  <2>4. \A y \in todo' : previousTick' <= TickOf(y)
    BY <1>2, <1>5
  <2>5. tempo' = TempoAfter(Past')
    <3>1. TempoAfter(Past \cup {e}) = IF SetsTempo(e) THEN TempoOf(e) ELSE TempoAfter(Past)
      BY <1>3, <1>12, <1>13, TempoAfterOne
    <3>2. tempo = TempoAfter(Past)
      BY <1>3 DEF Merged
    <3> QED
      BY <1>2, <1>12, <3>1, <3>2
  <2>6. previousTick' \in Nat
    BY <1>2, <1>5
  <2> QED
    BY <2>1, <2>2, <2>3, <2>4, <2>5, <2>6 DEF Merged
<1>15. Clock'
  BY <1>2, <1>6, <1>7, <1>11 DEF Clock
<1>16. Placed'
  <2>1. /\ IsSequence(timeline)
        /\ \A i \in 1..Len(timeline) : IsPlaced(timeline[i])
        /\ \A i, j \in 1..Len(timeline) : i < j => timeline[i].time <= timeline[j].time
    BY <1>3 DEF Placed
  <2> DEFINE n == Len(timeline)
  <2>2. n \in Nat
    BY <2>1, SequenceShape
  <2>3. /\ IsSequence(timeline') /\ Len(timeline') = n + 1
        /\ \A i \in 1..n : timeline'[i] = timeline[i]
        /\ timeline'[n + 1] = x
    BY <1>2, <2>1, AppendIs
  <2>4. \A y : IsPlaced(y)' <=> /\ y.time \in 0..q
                                /\ TickOf(y) \in Nat
                                /\ y.time = ExactTime(TickOf(y)) \div division
    BY <1>2, <1>11 DEF IsPlaced
  <2>5. \A i \in 1..n : /\ timeline[i].time \in Nat /\ timeline[i].time <= q
                        /\ (IsPlaced(timeline[i]))'
    <3> TAKE i \in 1..n
    <3> DEFINE y == timeline[i]
    <3>1. IsPlaced(y)
      BY <2>1
    <3>2. y.time \in 0..time /\ TickOf(y) \in Nat
          /\ y.time = ExactTime(TickOf(y)) \div division
      BY <3>1 DEF IsPlaced
    <3>3. timeline[i].time \in Nat /\ timeline[i].time <= q
      BY <1>7, <3>2
    <3>4. timeline'[i] = y
      BY <2>3
    <3>5. (IsPlaced(timeline[i]))'
      BY <1>7, <2>4, <3>2, <3>3, <3>4
    <3> QED
      BY <3>3, <3>5
  <2>6. x.time = q /\ TickOf(x) \in Nat /\ q \in Nat /\ q = ExactTime(TickOf(x)) \div division
    BY <1>5, <1>7, <1>9, <1>10
  <2>7. (\A i \in 1..Len(timeline) : IsPlaced(timeline[i]))'
    BY <2>2, <2>3, <2>4, <2>5, <2>6
  <2>8. (\A i, j \in 1..Len(timeline) : i < j => timeline[i].time <= timeline[j].time)'
    BY <2>1, <2>2, <2>3, <2>5, <2>6
  <2> QED
    BY <2>3, <2>7, <2>8 DEF Placed
<1>17. Unbegun' /\ Refused'
  BY <1>2, <1>3 DEF Unbegun, Refused
<1> QED
  BY <1>1, <1>14, <1>15, <1>16, <1>17 DEF CompileInv

LEMMA CompileInitHolds == CompileInit => CompileInv
<1> SUFFICES ASSUME CompileInit PROVE CompileInv
  OBVIOUS
<1>1. ReadInv /\ stage \notin Compiling
  BY ReadInitHolds DEF CompileInit, ReadInit, Compiling
<1>2. Placed
  <2>1. IsSequence(<<>>) /\ 1..Len(<<>>) = {}
    BY NoEvents
  <2> QED
    BY <2>1 DEF CompileInit, Placed
<1> QED
  BY <1>1, <1>2 DEF CompileInit, CompileInv, Unbegun, Merged, Clock, Refused, Compiling

LEMMA CompileNextKeeps == CompileInv /\ [CompileNext]_compileVars => CompileInv'
  BY ReadingKeeps, MergeKeeps, CompileKeeps, TimeOverflowKeeps, StutterKeeps DEF CompileNext

LEMMA SessionCompiles == [Next]_vars => [CompileNext]_compileVars
  BY DEF Next, Session, vars, clockVars, Prepare, PrepareFails, Play, Pause, CompleteReleaseTail,
     Stop, Render, RenderFails, Reset

\* The clock that the compilation carries is exact before and after every event.
THEOREM CompileInvariant == Spec => []CompileInv
<1>1. Init => CompileInv
  BY CompileInitHolds DEF Init
<1>2. CompileInv /\ [Next]_vars => CompileInv'
  BY CompileNextKeeps, SessionCompiles
<1> QED
  BY <1>1, <1>2, PTL DEF Spec

\* For every file, every division, tempo map and limit of the integers, an
\* event's time is the floor of the musical time through its tick, and a file is
\* refused for its length only where an event's time does not fit: convertInterval
\* loses nothing from one interval to the next, and tests nothing too early.
THEOREM TimelineIsExact == Spec => []TimesAreExact
<1>1. ASSUME CompileInv PROVE TimesAreExact
  <2>1. DOMAIN timeline = 1..Len(timeline) /\ Placed /\ Refused
    BY <1>1, SequenceShape DEF CompileInv, Placed
  <2>2. \A i \in DOMAIN timeline : timeline[i].time \in 0..MaxTime
    <3>1. CASE stage \in Compiling
      <4>1. time \in 0..MaxTime /\ MaxTime \in Nat
        BY <1>1, <3>1, FilesAssumption DEF CompileInv, Clock
      <4> QED
        BY <2>1, <4>1 DEF Placed, IsPlaced
    <3>2. CASE stage \notin Compiling
      <4>1. timeline = <<>>
        BY <1>1, <3>2 DEF CompileInv, Unbegun
      <4> QED
        BY <4>1
    <3> QED
      BY <3>1, <3>2
  <2> QED
    BY <2>1, <2>2 DEF TimesAreExact, InOrder, Placed, IsPlaced, Refused
<1> QED
  BY <1>1, CompileInvariant, PTL

LEMMA TimelineInOrder == Spec => []InOrder
<1>1. TimesAreExact => InOrder
  BY DEF TimesAreExact
<1> QED
  BY <1>1, TimelineIsExact, PTL

-----------------------------------------------------------------------------
(* The session: its clock.                                                 *)

\* What carrying the remainder maintains: frames and clock measure one time.
Carried ==
    sampleRate # 0 =>
        /\ frameRemainder < sampleRate
        /\ frames * Second = media * sampleRate + frameRemainder

ClockInv ==
    /\ {sampleRate, media, frameRemainder, frames} \subseteq Nat
    /\ session \in {"Ready", "Playing", "Paused", "Finished"} => sampleRate # 0
    /\ Carried

\* A block keeps the identity: what it adds to the clock and to the remainder
\* is what its frames last.
LEMMA BlockAdds ==
    ASSUME NEW n \in Nat, NEW rate \in Nat, rate > 0,
           NEW clock \in Nat, NEW carry \in Nat, NEW done \in Nat,
           done * Second = clock * rate + carry
    PROVE  LET sum == n * Second + carry IN
           /\ clock + sum \div rate \in Nat
           /\ sum % rate \in Nat
           /\ sum % rate < rate
           /\ (done + n) * Second = (clock + sum \div rate) * rate + (sum % rate)
<1> DEFINE sum == n * Second + carry
           q == sum \div rate
           r == sum % rate
<1>1. Second \in Nat
  BY RatesAssumption
<1>2. sum \in Nat
  BY <1>1
<1>3. q \in Nat /\ r \in Nat /\ r < rate /\ sum = q * rate + r
  <2> HIDE DEF sum
  <2> QED
    BY <1>2, DivMod
<1>4. (done + n) * Second = clock * rate + sum
  BY <1>1
<1>5. (clock + q) * rate = clock * rate + q * rate
  <2> HIDE DEF q
  <2> QED
    BY <1>3
<1> HIDE DEF sum, q, r
<1>6. (done + n) * Second = (clock + q) * rate + r
  BY <1>1, <1>2, <1>3, <1>4, <1>5
<1> QED
  BY <1>3, <1>6 DEF sum, q, r

\* The frames rendered last the media time and the remainder, exactly.
THEOREM ClockInvariant == Spec => []ClockInv
<1>1. Init => ClockInv
  BY DEF Init, ClockInv, Carried
<1>2. ClockInv /\ [Next]_vars => ClockInv'
  <2> SUFFICES ASSUME ClockInv, [Next]_vars PROVE ClockInv'
    OBVIOUS
  <2> USE DEF ClockInv, Carried
  <2>1. ASSUME NEW rate \in Rates, Prepare(rate) PROVE ClockInv'
    BY <2>1, RatesAssumption DEF Prepare, Reset
  <2>2. CASE PrepareFails
    BY <2>2 DEF PrepareFails, clockVars
  <2>3. CASE Play
    BY <2>3 DEF Play, clockVars
  <2>4. CASE Pause
    BY <2>4 DEF Pause, clockVars
  <2>5. CASE CompleteReleaseTail
    BY <2>5 DEF CompleteReleaseTail, clockVars
  <2>6. CASE Stop
    BY <2>6 DEF Stop, Reset
  <2>7. ASSUME NEW n \in Blocks, Render(n) PROVE ClockInv'
    <3>1. /\ n \in Nat
          /\ sampleRate \in Nat /\ sampleRate > 0
          /\ frames * Second = media * sampleRate + frameRemainder
      BY <2>7, RatesAssumption DEF Render
    <3>2. /\ media' = media + (n * Second + frameRemainder) \div sampleRate
          /\ frameRemainder' = (n * Second + frameRemainder) % sampleRate
          /\ frames' = frames + n
          /\ session' = session /\ sampleRate' = sampleRate
      BY <2>7 DEF Render, FrameNumerator
    <3>3. /\ media' \in Nat
          /\ frameRemainder' \in Nat
          /\ frameRemainder' < sampleRate
          /\ (frames + n) * Second = media' * sampleRate + frameRemainder'
      BY <3>1, <3>2, BlockAdds
    <3> QED
      BY <3>1, <3>2, <3>3
  <2>8. ASSUME NEW n \in Blocks, RenderFails(n) PROVE ClockInv'
    BY <2>8 DEF RenderFails, clockVars
  <2>9. CASE UNCHANGED sessionVars
    BY <2>9 DEF sessionVars
  <2> QED
    BY <2>1, <2>2, <2>3, <2>4, <2>5, <2>6, <2>7, <2>8, <2>9
       DEF Next, Session, vars
<1> QED
  BY <1>1, <1>2, PTL DEF Spec

\* Media time is the floor of what the rendered frames last, however they were
\* split into blocks.
THEOREM ExactClock == Spec => []ClockIsExact
<1>1. ClockInv => ClockIsExact
  <2> SUFFICES ASSUME ClockInv, sampleRate # 0
               PROVE  media = (frames * Second) \div sampleRate
    BY DEF ClockIsExact
  <2>1. /\ media \in Nat /\ frameRemainder \in Nat
        /\ sampleRate \in Nat /\ sampleRate > 0
        /\ frames * Second \in Nat
        /\ frameRemainder < sampleRate
        /\ frames * Second = media * sampleRate + frameRemainder
    BY RatesAssumption DEF ClockInv, Carried
  <2> QED
    BY <2>1, Quotient
<1> QED
  BY <1>1, ClockInvariant, PTL

-----------------------------------------------------------------------------
(* Loops that stop at the first later time.                                *)

\* A scan from one place on ends at the end or before the first later time.
LEMMA ScanEnds ==
    ASSUME NEW n \in Nat, NEW from \in 0..n, NEW t, \A i \in 1..n : t[i] \in Int,
           NEW end \in Int
    PROVE  \E k \in from..n : /\ \A i \in from + 1..k : t[i] <= end
                              /\ k < n => t[k + 1] > end
<1> DEFINE T == {k \in from..n : k = n \/ t[k + 1] > end}
<1>1. n \in T /\ T \subseteq Nat
  OBVIOUS
<1>2. PICK k \in T : \A l \in T : k <= l
  BY <1>1, LeastNumber
<1>3. ASSUME NEW i \in from + 1..k PROVE t[i] <= end
  <2>1. i - 1 \notin T
    BY <1>2
  <2>2. i - 1 \in from..n /\ i - 1 # n /\ (i - 1) + 1 = i /\ i \in 1..n
    BY <1>2
  <2> QED
    BY <2>1, <2>2
<1> QED
  BY <1>2, <1>3

-----------------------------------------------------------------------------
(* Every event once.                                                       *)

Delivered ==
    delivered # NotRendered =>
        /\ delivered = [i \in 1..cursor |-> i]
        /\ \A i \in 1..cursor : timeline[i].time <= media
        /\ cursor < Len(timeline) => timeline[cursor + 1].time > media

DeliveryInv ==
    /\ IsSequence(timeline)
    /\ cursor \in 0..Len(timeline)
    /\ session # "Idle" => stage = "compiled"
    /\ session = "Idle" => cursor = 0 /\ delivered = NotRendered
    /\ delivered = NotRendered => cursor = 0
    /\ Delivered

LEMMA Within ==
    ASSUME NEW n \in Nat, NEW a \in 0..n, NEW b \in a..n
    PROVE  a \in Nat /\ b \in Nat /\ a <= b /\ b \in 0..n
  OBVIOUS

LEMMA CountsOn ==
    ASSUME NEW a \in Nat, NEW b \in Nat, a <= b
    PROVE  [i \in 1..a |-> i] \o [i \in 1..b - a |-> a + i] = [i \in 1..b |-> i]
<1> DEFINE old == [i \in 1..a |-> i]
           new == [i \in 1..b - a |-> a + i]
<1>1. old \in Seq(Nat) /\ Len(old) = a /\ \A i \in 1..a : old[i] = i
  OBVIOUS
<1>2. new \in Seq(Nat) /\ Len(new) = b - a /\ \A i \in 1..b - a : new[i] = a + i
  OBVIOUS
<1> HIDE DEF old, new
<1>3. old \o new \in Seq(Nat) /\ Len(old \o new) = b
  BY <1>1, <1>2
<1>4. ASSUME NEW i \in 1..b PROVE (old \o new)[i] = i
  BY <1>1, <1>2
<1>5. old \o new = [i \in 1..b |-> i]
  <2> DEFINE s == old \o new
  <2> HIDE DEF s
  <2>1. s \in Seq(Nat) /\ Len(s) = b /\ \A i \in 1..b : s[i] = i
    BY <1>3, <1>4 DEF s
  <2>2. s = [i \in 1..b |-> i]
    BY <2>1
  <2> QED
    BY <2>2 DEF s
<1> QED
  BY <1>5 DEF old, new

\* The loop of render ends.
LEMMA DueThroughEnds ==
    ASSUME IsSequence(timeline), cursor \in 0..Len(timeline), InOrder, MaxTime \in Nat,
           NEW end \in Int
    PROVE  /\ DueThrough(end) \in cursor..Len(timeline)
           /\ \A i \in cursor + 1..DueThrough(end) : timeline[i].time <= end
           /\ DueThrough(end) < Len(timeline) => timeline[DueThrough(end) + 1].time > end
<1> DEFINE n == Len(timeline)
           t == [i \in 1..n |-> timeline[i].time]
           Ends(k) == /\ \A i \in 1..k : i > cursor => timeline[i].time <= end
                      /\ k >= cursor
                      /\ k < n => timeline[k + 1].time > end
<1>1. n \in Nat /\ DOMAIN timeline = 1..n
  BY SequenceShape
<1>2. \A i \in 1..n : t[i] \in Int /\ t[i] = timeline[i].time
  BY <1>1 DEF InOrder
<1>3. PICK k \in cursor..n : /\ \A i \in cursor + 1..k : t[i] <= end
                             /\ k < n => t[k + 1] > end
  BY <1>1, <1>2, ScanEnds
<1>4. k \in 0..n /\ Ends(k)
  <2>1. ASSUME NEW i \in 1..k, i > cursor PROVE timeline[i].time <= end
    <3>1. i \in cursor + 1..k /\ i \in 1..n
      BY <2>1, <1>1
    <3> QED
      BY <3>1, <1>2, <1>3
  <2>2. k < n => timeline[k + 1].time > end
    BY <1>1, <1>2, <1>3
  <2> QED
    BY <2>1, <2>2, <1>1, <1>3
<1>5. DueThrough(end) = CHOOSE m \in 0..n : Ends(m)
  BY DEF DueThrough
<1>6. DueThrough(end) \in 0..n /\ Ends(DueThrough(end))
  BY <1>4, <1>5
<1> QED
  BY <1>1, <1>6

LEMMA DeliveryStep ==
    ASSUME DeliveryInv, ClockInv, InOrder, [Next]_vars
    PROVE  DeliveryInv'
<1>0. MaxTime \in Nat
  BY FilesAssumption
<1>1. Len(timeline) \in Nat /\ DOMAIN timeline = 1..Len(timeline)
  BY SequenceShape DEF DeliveryInv
<1>2. ASSUME NEW rate \in Rates, Prepare(rate) PROVE DeliveryInv'
  BY <1>1, <1>2 DEF Prepare, Reset, DeliveryInv, Delivered, compileVars, readVars, scheduleVars
<1>3. CASE PrepareFails
  BY <1>3 DEF PrepareFails, DeliveryInv, Delivered, clockVars, compileVars, readVars, scheduleVars
<1>4. CASE Play \/ Pause \/ CompleteReleaseTail
  BY <1>4 DEF Play, Pause, CompleteReleaseTail, DeliveryInv, Delivered, clockVars, compileVars,
              readVars, scheduleVars
<1>5. CASE Stop
  BY <1>1, <1>5 DEF Stop, Reset, DeliveryInv, Delivered, compileVars, readVars, scheduleVars
<1>6. ASSUME NEW n \in Blocks, Render(n) PROVE DeliveryInv'
  <2>1. /\ media \in Nat /\ media' \in Nat /\ media <= media'
        /\ sampleRate \in Nat /\ sampleRate > 0
    <3>1. /\ n * Second \in Nat /\ media \in Nat /\ frameRemainder \in Nat
          /\ sampleRate \in Nat /\ sampleRate > 0
      BY <1>6, RatesAssumption DEF Render, ClockInv, Carried
    <3>2. (n * Second + frameRemainder) \div sampleRate \in Nat
      BY <3>1, DivMod
    <3> QED
      BY <1>6, <3>1, <3>2 DEF Render, FrameNumerator
  <2>2. /\ cursor' \in cursor..Len(timeline)
        /\ \A i \in cursor + 1..cursor' : timeline[i].time <= media'
        /\ cursor' < Len(timeline) => timeline[cursor' + 1].time > media'
    <3>1. IsSequence(timeline) /\ cursor \in 0..Len(timeline) /\ media' \in Int
      BY <2>1 DEF DeliveryInv
    <3>2. cursor' = DueThrough(media')
      BY <1>6 DEF Render
    <3> QED
      BY <1>0, <3>1, <3>2, DueThroughEnds
  <2>3. /\ timeline' = timeline /\ session' = session /\ stage' = stage
        /\ session = "Playing" /\ cursor \in 0..Len(timeline)
    BY <1>6 DEF Render, DeliveryInv, compileVars, readVars, scheduleVars
  <2>4. delivered' = [i \in 1..cursor' |-> i]
    <3>1. cursor \in Nat /\ cursor' \in Nat /\ cursor <= cursor'
      BY <1>1, <2>2, <2>3, Within
    <3>2. (IF delivered = NotRendered THEN <<>> ELSE delivered) = [i \in 1..cursor |-> i]
      <4>1. CASE delivered = NotRendered
        <5>1. cursor = 0
          BY <4>1 DEF DeliveryInv
        <5> QED
          BY <4>1, <5>1
      <4>2. CASE delivered # NotRendered
        BY <4>2 DEF DeliveryInv, Delivered
      <4> QED
        BY <4>1, <4>2
    <3>3. delivered' = (IF delivered = NotRendered THEN <<>> ELSE delivered)
                          \o [i \in 1..cursor' - cursor |-> cursor + i]
      BY <1>6 DEF Render
    <3> QED
      BY <3>1, <3>2, <3>3, CountsOn
  <2>5. delivered' # NotRendered
    BY <1>1, <2>2, <2>3, <2>4, NotRenderedAssumption
  <2>6. \A i \in 1..cursor' : timeline[i].time <= media'
    <3> SUFFICES ASSUME NEW i \in 1..cursor', i <= cursor PROVE timeline[i].time <= media'
      BY <1>1, <2>2, <2>3
    <3>1. delivered # NotRendered /\ i \in 1..cursor
      BY <1>1, <2>2, <2>3 DEF DeliveryInv
    <3>2. timeline[i].time <= media /\ timeline[i].time \in Int
      BY <1>1, <2>3, <3>1 DEF DeliveryInv, Delivered, InOrder
    <3> QED
      BY <2>1, <3>2
  <2> QED
    <3>1. cursor' \in 0..Len(timeline')
      BY <1>1, <2>2, <2>3, Within
    <3>2. IsSequence(timeline') /\ session' # "Idle" /\ stage' = "compiled"
      BY <2>3 DEF DeliveryInv
    <3>3. Delivered'
      BY <2>2, <2>3, <2>4, <2>6 DEF Delivered
    <3> QED
      BY <2>5, <3>1, <3>2, <3>3 DEF DeliveryInv
<1>7. ASSUME NEW n \in Blocks, RenderFails(n) PROVE DeliveryInv'
  BY <1>7 DEF RenderFails, DeliveryInv, Delivered, clockVars, compileVars, readVars, scheduleVars
<1>8. CASE CompileNext /\ UNCHANGED sessionVars
  <2>1. stage # "compiled"
    BY <1>8 DEF CompileNext, ReadNext, ReadHeader, ReadTrack, ParseEnds, ParseFails, ParseFault,
                DecodeEvent, DecodeEnd, DecodeFails, Merge, Compile, TimeOverflow, Compiled
  <2>2. session = "Idle" /\ session' = "Idle" /\ cursor' = 0 /\ delivered' = NotRendered
    BY <1>8, <2>1 DEF DeliveryInv, sessionVars
  <2>3. IsSequence(timeline')
    BY <1>8, SequenceGrows DEF CompileNext, DeliveryInv, Merge, Compile, TimeOverflow, Compiled,
                               scheduleVars
  <2>4. Len(timeline') \in Nat
    BY <2>3, SequenceShape
  <2> QED
    BY <2>2, <2>3, <2>4 DEF DeliveryInv, Delivered
<1>9. CASE UNCHANGED vars
  BY <1>9 DEF DeliveryInv, Delivered, vars, sessionVars, compileVars, readVars, scheduleVars
<1> QED
  BY <1>2, <1>3, <1>4, <1>5, <1>6, <1>7, <1>8, <1>9 DEF Next, Session

\* The events delivered are those up to the cursor, and the cursor is where
\* the media time is.
THEOREM DeliveryInvariant == Spec => []DeliveryInv
<1>1. Init => DeliveryInv
  <2>1. Init => IsSequence(timeline) /\ Len(timeline) = 0
    BY DEF Init, CompileInit, IsSequence
  <2> QED
    BY <2>1 DEF Init, DeliveryInv, Delivered
<1>2. DeliveryInv /\ ClockInv /\ InOrder /\ [Next]_vars => DeliveryInv'
  BY DeliveryStep
<1> QED
  BY <1>1, <1>2, ClockInvariant, TimelineInOrder, PTL DEF Spec

\* The renders of a session have delivered each event through the media time
\* once, in the order of the timeline.
THEOREM EventsOnce == Spec => []EachEventOnce
<1>1. ASSUME DeliveryInv, ClockInv, InOrder PROVE EachEventOnce
  <2> SUFFICES ASSUME delivered # NotRendered
               PROVE  /\ delivered = [i \in 1..Len(delivered) |-> i]
                      /\ {i \in DOMAIN timeline : timeline[i].time <= media} = DOMAIN delivered
    BY DEF EachEventOnce
  <2>1. /\ cursor \in 0..Len(timeline) /\ Len(timeline) \in Nat
        /\ DOMAIN timeline = 1..Len(timeline)
    BY <1>1, SequenceShape DEF DeliveryInv
  <2>2. delivered = [i \in 1..cursor |-> i] /\ Len(delivered) = cursor
    BY <1>1, <2>1 DEF DeliveryInv, Delivered
  <2>3. media \in Int
    BY <1>1 DEF ClockInv, Carried
  <2>4. ASSUME NEW i \in DOMAIN timeline PROVE timeline[i].time <= media <=> i <= cursor
    <3>1. CASE i <= cursor
      BY <1>1, <2>1, <3>1 DEF DeliveryInv, Delivered
    <3>2. CASE i = cursor + 1
      BY <1>1, <2>1, <2>3, <3>2, FilesAssumption DEF DeliveryInv, Delivered, InOrder
    <3>3. CASE i > cursor + 1
      <4>1. cursor + 1 \in DOMAIN timeline /\ timeline[cursor + 1].time > media
        BY <1>1, <2>1, <3>3 DEF DeliveryInv, Delivered
      <4>2. timeline[cursor + 1].time <= timeline[i].time
        BY <1>1, <2>1, <3>3, <4>1 DEF InOrder
      <4>3. timeline[i].time \in Int /\ timeline[cursor + 1].time \in Int
        BY <1>1, <4>1, FilesAssumption DEF InOrder
      <4> QED
        BY <2>1, <2>3, <3>3, <4>1, <4>2, <4>3
    <3> QED
      BY <2>1, <3>1, <3>2, <3>3
  <2> QED
    BY <2>1, <2>2, <2>4
<1> QED
  BY <1>1, DeliveryInvariant, ClockInvariant, TimelineInOrder, PTL

-----------------------------------------------------------------------------
(* The song: its playback is a session.                                    *)

LEMMA LyricNextKeeps == LyricNext => UNCHANGED compileVars
  BY DEF LyricNext, Select, TakeCue, TakeMetadata, Takes, ExtractionFails, Extracted

LEMMA SongStep == [SongNext]_songVars => [Next]_vars
<1> SUFFICES ASSUME [SongNext]_songVars PROVE [Next]_vars
  OBVIOUS
<1>1. CASE CompileNext /\ UNCHANGED <<sessionVars, lyricVars, showVars>>
  BY <1>1 DEF Next
<1>2. CASE LyricNext /\ UNCHANGED <<sessionVars, showVars>>
  BY <1>2, LyricNextKeeps DEF vars
<1>3. CASE PlaySong
  BY <1>3 DEF PlaySong, Next
<1>4. CASE ShowLyrics \/ Advance \/ ClearLyrics
  BY <1>4 DEF ShowLyrics, Advance, ClearLyrics
<1>5. CASE UNCHANGED songVars
  BY <1>5 DEF songVars
<1> QED
  BY <1>1, <1>2, <1>3, <1>4, <1>5 DEF SongNext

\* Reading, extraction and display leave the session its own steps: whatever
\* holds of every playback session holds of a song's.
THEOREM SongIsSession == SongSpec => Spec
<1>1. SongInit => Init
  BY DEF SongInit
<1> QED
  BY <1>1, SongStep, PTL DEF SongSpec, Spec

-----------------------------------------------------------------------------
(* The cues follow the timeline.                                           *)

CueInv ==
    /\ IsSequence(cues)
    /\ read \in Nat
    /\ IF extraction = "none" THEN cues = <<>> ELSE stage = "compiled"
    /\ \A i \in DOMAIN cues :
          /\ cues[i].index \in DOMAIN timeline
          /\ cues[i].index <= read
          /\ cues[i].time = timeline[cues[i].index].time
    /\ \A i, j \in DOMAIN cues : i < j => cues[i].index < cues[j].index

LEMMA AheadIsLater ==
    ASSUME IsSequence(timeline), Ahead # {}
    PROVE  Min(Ahead) \in DOMAIN timeline /\ Min(Ahead) \in Nat /\ Min(Ahead) > read
<1>1. Ahead \subseteq DOMAIN timeline /\ \A i \in Ahead : i > read
  BY DEF Ahead
<1>2. DOMAIN timeline \subseteq Nat
  BY SequenceShape
<1> QED
  BY <1>1, <1>2, MinIsLeast

LEMMA CueStep ==
    ASSUME CueInv, DeliveryInv, [SongNext]_songVars
    PROVE  CueInv'
<1>1. IsSequence(timeline) /\ IsSequence(cues) /\ Len(cues) \in Nat /\ DOMAIN cues = 1..Len(cues)
  BY SequenceShape DEF CueInv, DeliveryInv
<1>2. CASE CompileNext /\ UNCHANGED lyricVars
  <2>1. stage # "compiled"
    BY <1>2 DEF CompileNext, ReadNext, ReadHeader, ReadTrack, ParseEnds, ParseFails, ParseFault,
                DecodeEvent, DecodeEnd, DecodeFails, Merge, Compile, TimeOverflow, Compiled
  <2>2. cues = <<>> /\ cues' = <<>> /\ extraction' = "none" /\ read' = read
    BY <1>2, <2>1 DEF CueInv, lyricVars
  <2> QED
    BY <2>2 DEF CueInv
<1>3. ASSUME LyricNext PROVE CueInv'
  <2>1. timeline' = timeline /\ stage' = stage
    BY <1>3, LyricNextKeeps DEF compileVars, readVars, scheduleVars
  <2>2. ASSUME NEW o \in Options(file), Select(o) PROVE CueInv'
    BY <2>1, <2>2 DEF Select, CueInv
  <2>3. CASE TakeCue
    <3> DEFINE cue == [index |-> Min(Ahead), time |-> Current.time, raw |-> Raw,
                       text |-> Text.text, operations |-> Operations(Text.text)]
    <3>1. /\ cues' = Append(cues, cue) /\ read' = Min(Ahead)
          /\ extraction = "reading" /\ extraction' = extraction /\ Ahead # {}
      BY <2>3 DEF TakeCue, Takes
    <3>2. Min(Ahead) \in DOMAIN timeline /\ Min(Ahead) \in Nat /\ Min(Ahead) > read
      BY <1>1, <3>1, AheadIsLater
    <3>3. cue.index = Min(Ahead) /\ cue.time = timeline[Min(Ahead)].time
      BY DEF Current
    <3> HIDE DEF cue
    <3>4. /\ IsSequence(cues')
          /\ DOMAIN cues' = 1..Len(cues) + 1
          /\ \A i \in 1..Len(cues) : cues'[i] = cues[i]
          /\ cues'[Len(cues) + 1] = cue
      <4>1. PICK T : cues \in Seq(T)
        BY <1>1 DEF IsSequence
      <4>2. cues \in Seq(T \cup {cue}) /\ cue \in T \cup {cue}
        BY <4>1
      <4> QED
        BY <1>1, <3>1, <4>2, SequenceGrows, AppendProperties
    <3>5. ASSUME NEW i \in DOMAIN cues'
          PROVE  /\ cues'[i].index \in DOMAIN timeline
                 /\ cues'[i].index <= Min(Ahead)
                 /\ cues'[i].time = timeline[cues'[i].index].time
      <4>1. CASE i \in 1..Len(cues)
        <5>1. /\ cues[i].index \in DOMAIN timeline /\ cues[i].index <= read
              /\ cues[i].time = timeline[cues[i].index].time
          BY <1>1, <4>1 DEF CueInv
        <5>2. cues[i].index \in Nat /\ read \in Nat
          BY <1>1, <5>1, SequenceShape DEF CueInv
        <5> QED
          BY <3>2, <3>4, <4>1, <5>1, <5>2
      <4>2. CASE i = Len(cues) + 1
        BY <3>2, <3>3, <3>4, <4>2
      <4> QED
        BY <1>1, <3>4, <4>1, <4>2
    <3>6. ASSUME NEW i \in DOMAIN cues', NEW j \in DOMAIN cues', i < j
          PROVE  cues'[i].index < cues'[j].index
      <4>1. i \in 1..Len(cues) /\ (j \in 1..Len(cues) \/ j = Len(cues) + 1)
        BY <1>1, <3>4, <3>6
      <4>2. CASE j \in 1..Len(cues)
        BY <1>1, <3>4, <3>6, <4>1, <4>2 DEF CueInv
      <4>3. CASE j = Len(cues) + 1
        <5>1. cues[i].index \in DOMAIN timeline /\ cues[i].index <= read
          BY <1>1, <4>1 DEF CueInv
        <5>2. cues[i].index \in Nat /\ read \in Nat
          BY <1>1, <5>1, SequenceShape DEF CueInv
        <5> QED
          BY <3>2, <3>3, <3>4, <4>1, <4>3, <5>1, <5>2
      <4> QED
        BY <4>1, <4>2, <4>3
    <3> QED
      BY <2>1, <3>1, <3>2, <3>4, <3>5, <3>6 DEF CueInv
  <2>4. CASE TakeMetadata
    <3>1. /\ cues' = cues /\ read' = Min(Ahead) /\ Ahead # {}
          /\ extraction = "reading" /\ extraction' = extraction
      BY <2>4 DEF TakeMetadata, Takes
    <3>2. Min(Ahead) \in Nat /\ Min(Ahead) > read
      BY <1>1, <3>1, AheadIsLater
    <3>3. ASSUME NEW i \in DOMAIN cues PROVE cues[i].index <= Min(Ahead)
      <4>1. cues[i].index \in Nat /\ cues[i].index <= read /\ read \in Nat
        BY <1>1, SequenceShape DEF CueInv
      <4> QED
        BY <3>2, <4>1
    <3> QED
      BY <2>1, <3>1, <3>2, <3>3 DEF CueInv
  <2>5. CASE ExtractionFails \/ Extracted
    <3>1. /\ cues' = cues /\ read' = read
          /\ stage = "compiled" /\ extraction' # "none"
      BY <2>5 DEF ExtractionFails, Extracted, CueInv
    <3> QED
      BY <2>1, <3>1 DEF CueInv
  <2> QED
    BY <1>3, <2>2, <2>3, <2>4, <2>5 DEF LyricNext
<1>4. ASSUME UNCHANGED compileVars, UNCHANGED lyricVars PROVE CueInv'
  BY <1>4 DEF CueInv, lyricVars, compileVars, readVars, scheduleVars
<1>5. CASE PlaySong
  <2>1. UNCHANGED compileVars /\ UNCHANGED lyricVars
    BY <1>5 DEF PlaySong, Session, Prepare, PrepareFails, Play, Pause, CompleteReleaseTail, Stop,
                Render, RenderFails, Reset, clockVars
  <2> QED
    BY <1>4, <2>1
<1>6. CASE ShowLyrics \/ Advance \/ ClearLyrics
  BY <1>4, <1>6 DEF ShowLyrics, Advance, ClearLyrics, vars
<1>7. CASE UNCHANGED songVars
  BY <1>4, <1>7 DEF songVars, vars
<1> QED
  BY <1>2, <1>3, <1>5, <1>6, <1>7 DEF SongNext

-----------------------------------------------------------------------------
(* The display.                                                            *)

Observed ==
    IF position = None THEN shown = 0
    ELSE /\ position \in Nat
         /\ \A i \in 1..shown : cues[i].time <= position
         /\ shown < Len(cues) => cues[shown + 1].time > position

ShowInv ==
    /\ session # "Idle" => extraction = "done"
    /\ shown # None => /\ session # "Idle"
                       /\ shown \in 0..Len(cues)
                       /\ Observed

CuesInOrder ==
    /\ \A i \in DOMAIN cues : cues[i].time \in Nat
    /\ \A i, j \in DOMAIN cues : i < j => cues[i].time <= cues[j].time

LEMMA OrderOfCues ==
    ASSUME CueInv, IsSequence(timeline), InOrder
    PROVE  CuesInOrder
<1>1. DOMAIN timeline \subseteq Nat
  BY SequenceShape
<1>2. ASSUME NEW i \in DOMAIN cues PROVE cues[i].time \in Nat
  BY <1>2, FilesAssumption DEF CueInv, InOrder
<1>3. ASSUME NEW i \in DOMAIN cues, NEW j \in DOMAIN cues, i < j
      PROVE  cues[i].time <= cues[j].time
  BY <1>1, <1>3 DEF CueInv, InOrder
<1> QED
  BY <1>2, <1>3 DEF CuesInOrder

\* The loop of advance ends.
LEMMA CuesThroughEnds ==
    ASSUME IsSequence(cues), CuesInOrder, shown \in 0..Len(cues), NEW end \in Int
    PROVE  /\ CuesThrough(end) \in shown..Len(cues)
           /\ \A i \in shown + 1..CuesThrough(end) : cues[i].time <= end
           /\ CuesThrough(end) < Len(cues) => cues[CuesThrough(end) + 1].time > end
<1> DEFINE n == Len(cues)
           t == [i \in 1..n |-> cues[i].time]
           Ends(k) == /\ \A i \in shown + 1..k : cues[i].time <= end
                      /\ k < n => cues[k + 1].time > end
<1>1. n \in Nat /\ DOMAIN cues = 1..n
  BY SequenceShape
<1>2. \A i \in 1..n : t[i] \in Int /\ t[i] = cues[i].time
  BY <1>1 DEF CuesInOrder
<1>3. PICK k \in shown..n : /\ \A i \in shown + 1..k : t[i] <= end
                            /\ k < n => t[k + 1] > end
  BY <1>1, <1>2, ScanEnds
<1>4. Ends(k)
  <2>1. ASSUME NEW i \in shown + 1..k PROVE cues[i].time <= end
    <3>1. i \in 1..n
      BY <2>1, <1>1
    <3> QED
      BY <2>1, <3>1, <1>2, <1>3
  <2>2. k < n => cues[k + 1].time > end
    BY <1>1, <1>2, <1>3
  <2> QED
    BY <2>1, <2>2
<1>5. CuesThrough(end) = CHOOSE m \in shown..n : Ends(m)
  BY DEF CuesThrough
<1>6. CuesThrough(end) \in shown..n /\ Ends(CuesThrough(end))
  BY <1>3, <1>4, <1>5
<1> QED
  BY <1>6

LEMMA ShowStep ==
    ASSUME ShowInv, CueInv, DeliveryInv, ClockInv, InOrder, [SongNext]_songVars
    PROVE  ShowInv'
<1>1. Len(cues) \in Nat /\ DOMAIN cues = 1..Len(cues) /\ IsSequence(cues)
  BY SequenceShape DEF CueInv
<1>2. CASE CompileNext /\ UNCHANGED <<sessionVars, lyricVars, showVars>>
  BY <1>2 DEF ShowInv, Observed, sessionVars, lyricVars, showVars
<1>3. CASE LyricNext /\ UNCHANGED <<sessionVars, showVars>>
  <2>1. extraction # "done"
    BY <1>3 DEF LyricNext, Select, TakeCue, TakeMetadata, Takes, ExtractionFails, Extracted
  <2> QED
    BY <1>3, <2>1 DEF ShowInv, sessionVars, showVars
<1>4. CASE PlaySong
  <2>1. extraction = "done" /\ UNCHANGED lyricVars
    BY <1>4 DEF PlaySong
  <2>2. CASE session' = "Idle"
    BY <1>4, <2>1, <2>2 DEF PlaySong, HideLyrics, ShowInv
  <2>3. CASE session' # "Idle"
    BY <1>4, <2>1, <2>3 DEF PlaySong, ShowInv, Observed, showVars, lyricVars
  <2> QED
    BY <2>2, <2>3
<1>5. CASE ShowLyrics
  BY <1>1, <1>5 DEF ShowLyrics, ShowInv, Observed, vars, sessionVars, lyricVars
<1>6. CASE Advance
  <2>1. /\ session' = session /\ extraction' = extraction /\ cues' = cues
        /\ session # "Idle" /\ extraction = "done"
        /\ shown' = CuesThrough(media) /\ position' = media
    BY <1>6 DEF Advance, ShowInv, vars, sessionVars, lyricVars
  <2>2. media \in Nat /\ media # None
    BY NoneAssumption DEF ClockInv
  <2>3. CuesInOrder
    BY OrderOfCues DEF DeliveryInv
  <2>4. shown \in 0..Len(cues) /\ Observed
    BY <1>6 DEF Advance, ShowInv
  <2>5. /\ shown' \in shown..Len(cues)
        /\ \A i \in shown + 1..shown' : cues[i].time <= media
        /\ shown' < Len(cues) => cues[shown' + 1].time > media
    <3>1. media \in Int
      BY <2>2
    <3> QED
      BY <1>1, <2>1, <2>3, <2>4, <3>1, CuesThroughEnds
  <2>6. shown' \in 0..Len(cues) /\ shown' \in Nat /\ shown \in Nat
    BY <1>1, <2>4, <2>5, Within
  <2>7. ASSUME NEW i \in 1..shown' PROVE cues[i].time <= media
    <3>1. CASE i > shown
      BY <2>5, <2>6, <3>1
    <3>2. CASE i <= shown
      <4>1. position # None /\ i \in 1..shown
        BY <2>4, <2>6, <3>2 DEF Observed
      <4>2. cues[i].time <= position /\ position <= media /\ position \in Nat
        BY <1>6, <2>4, <4>1, <2>2 DEF Observed, Advance
      <4>3. cues[i].time \in Nat
        BY <1>1, <2>3, <2>4, <4>1 DEF CuesInOrder
      <4> QED
        BY <2>2, <4>2, <4>3
    <3> QED
      BY <2>6, <3>1, <3>2
  <2> QED
    BY <2>1, <2>2, <2>5, <2>6, <2>7 DEF ShowInv, Observed
<1>7. CASE ClearLyrics
  BY <1>7 DEF ClearLyrics, HideLyrics, ShowInv, vars, sessionVars, lyricVars
<1>8. CASE UNCHANGED songVars
  BY <1>8 DEF songVars, vars, sessionVars, lyricVars, showVars, ShowInv, Observed
<1> QED
  BY <1>2, <1>3, <1>4, <1>5, <1>6, <1>7, <1>8 DEF SongNext

\* A prefix of times in order that ends before the first later one.
LEMMA PrefixIsDue ==
    ASSUME NEW n \in Nat, NEW k \in 0..n, NEW t, \A i \in 1..n : t[i] \in Nat,
           \A i, j \in 1..n : i < j => t[i] <= t[j], NEW end \in Nat,
           \A i \in 1..k : t[i] <= end, k < n => t[k + 1] > end
    PROVE  \A i \in 1..n : i <= k <=> t[i] <= end
<1> SUFFICES ASSUME NEW i \in 1..n, i > k PROVE t[i] > end
  OBVIOUS
<1>1. k + 1 \in 1..n /\ t[k + 1] > end /\ t[k + 1] \in Nat /\ t[i] \in Nat
  OBVIOUS
<1>2. CASE i = k + 1
  BY <1>1, <1>2
<1>3. CASE i > k + 1
  BY <1>1, <1>3
<1> QED
  BY <1>2, <1>3

\* The display follows the media time, and after an up-to-date observation a cue
\* is shown if and only if its event has been delivered.
THEOREM DisplayOnTime == SongSpec => []LyricsOnTime
<1>1. SongInit => CueInv /\ ShowInv
  <2> SUFFICES ASSUME SongInit PROVE CueInv /\ ShowInv
    OBVIOUS
  <2>1. cues = <<>> /\ read = 0 /\ extraction = "none" /\ session = "Idle" /\ shown = None
    BY DEF SongInit, LyricInit, Init
  <2>2. IsSequence(<<>>)
    BY DEF IsSequence
  <2> QED
    BY <2>1, <2>2 DEF CueInv, ShowInv
<1>2. CueInv /\ DeliveryInv /\ [SongNext]_songVars => CueInv'
  BY CueStep
<1>3. ShowInv /\ CueInv /\ DeliveryInv /\ ClockInv /\ InOrder /\ [SongNext]_songVars => ShowInv'
  BY ShowStep
<1>4. ASSUME ShowInv, CueInv, DeliveryInv, ClockInv, InOrder, EachEventOnce
      PROVE  LyricsOnTime
  <2> SUFFICES ASSUME shown # None
               PROVE  /\ IF position = None THEN shown = 0
                         ELSE \A i \in DOMAIN cues : i <= shown <=> cues[i].time <= position
                      /\ position = media /\ delivered # NotRendered =>
                            \A i \in DOMAIN cues : i <= shown <=> cues[i].index \in ToSet(delivered)
    BY DEF LyricsOnTime
  <2>1. /\ Len(cues) \in Nat /\ DOMAIN cues = 1..Len(cues)
        /\ shown \in 0..Len(cues) /\ Observed /\ CuesInOrder
    BY <1>4, SequenceShape, OrderOfCues DEF ShowInv, CueInv, DeliveryInv
  <2>2. ASSUME position # None
        PROVE  \A i \in DOMAIN cues : i <= shown <=> cues[i].time <= position
    <3> DEFINE t == [i \in 1..Len(cues) |-> cues[i].time]
    <3>1. /\ \A i \in 1..Len(cues) : t[i] \in Nat
          /\ \A i, j \in 1..Len(cues) : i < j => t[i] <= t[j]
      BY <2>1 DEF CuesInOrder
    <3>2. /\ position \in Nat
          /\ \A i \in 1..shown : t[i] <= position
          /\ shown < Len(cues) => t[shown + 1] > position
      BY <2>1, <2>2 DEF Observed
    <3>3. \A i \in 1..Len(cues) : i <= shown <=> t[i] <= position
      BY <2>1, <3>1, <3>2, PrefixIsDue
    <3> QED
      BY <2>1, <3>3
  <2>3. ASSUME position = media, delivered # NotRendered, NEW i \in DOMAIN cues
        PROVE  i <= shown <=> cues[i].index \in ToSet(delivered)
    <3>1. position # None
      BY <1>4, <2>3, NoneAssumption DEF ClockInv
    <3>2. i <= shown <=> cues[i].time <= media
      BY <2>2, <2>3, <3>1
    <3>3. /\ cues[i].index \in DOMAIN timeline
          /\ cues[i].time = timeline[cues[i].index].time
      BY <1>4, <2>3 DEF CueInv
    <3>4. /\ delivered = [k \in 1..Len(delivered) |-> k]
          /\ {k \in DOMAIN timeline : timeline[k].time <= media} = DOMAIN delivered
      BY <1>4, <2>3 DEF EachEventOnce
    <3>5. ToSet(delivered) = DOMAIN delivered
      BY <3>4 DEF ToSet
    <3> QED
      BY <3>2, <3>3, <3>4, <3>5
  <2> QED
    BY <2>1, <2>2, <2>3 DEF Observed
<1>5. Spec => []DeliveryInv
  BY DeliveryInvariant
<1> QED
  BY <1>1, <1>2, <1>3, <1>4, <1>5, SongIsSession, ClockInvariant, TimelineInOrder, EventsOnce,
     PTL DEF SongSpec

-----------------------------------------------------------------------------
(* The lyrics: text.                                                       *)

Encodings == {"Utf8", "Tis620"}

LEMMA BytesAreNumbers == ASSUME NEW s \in Seq(Byte) PROVE s \in Seq(Nat)
<1>1. \A i \in 1..Len(s) : s[i] \in Nat
  BY ElementOfSeq, ByteIs
<1> QED
  BY <1>1, SeqDef

LEMMA Utf8Is ==
    ASSUME NEW scalar \in Nat
    PROVE  Utf8(scalar) \in Seq(Nat) /\ Utf8(scalar) # <<>>
<1>1. CASE scalar < 128
  BY <1>1 DEF Utf8
<1>2. CASE scalar >= 128 /\ scalar < 2048
  <2>1. 192 + scalar \div 64 \in Nat /\ 128 + (scalar % 64) \in Nat
    BY <1>2
  <2>2. Utf8(scalar) = <<192 + scalar \div 64, 128 + (scalar % 64)>>
    BY <1>2 DEF Utf8
  <2> QED
    BY <2>1, <2>2
<1>3. CASE scalar >= 2048
  <2>1. /\ 224 + scalar \div 4096 \in Nat
        /\ 128 + ((scalar \div 64) % 64) \in Nat
        /\ 128 + (scalar % 64) \in Nat
    BY <1>3
  <2>2. Utf8(scalar) =
           <<224 + scalar \div 4096, 128 + ((scalar \div 64) % 64), 128 + (scalar % 64)>>
    BY <1>3 DEF Utf8
  <2> QED
    BY <2>1, <2>2
<1> QED
  BY <1>1, <1>2, <1>3

LEMMA ThaiScalarIs ==
    ASSUME NEW x \in Byte, ThaiScalar(x) # None
    PROVE  ThaiScalar(x) \in Nat
<1>1. x \in Nat
  BY ByteIs
<1>2. CASE x \in 0..159
  BY <1>1, <1>2 DEF ThaiScalar
<1>3. CASE x \in 161..218
  BY <1>1, <1>3 DEF ThaiScalar
<1>4. CASE x = 223
  BY <1>1, <1>4 DEF ThaiScalar
<1>5. CASE x \in 224..251
  BY <1>1, <1>5 DEF ThaiScalar
<1>6. CASE ~(x \in 0..159) /\ ~(x \in 161..218) /\ x # 223 /\ ~(x \in 224..251)
  BY <1>6 DEF ThaiScalar
<1> QED
  BY <1>2, <1>3, <1>4, <1>5, <1>6

LEMMA LengthIs ==
    ASSUME NEW x \in Byte
    PROVE  Length(x) \in 0..4
<1>1. CASE x \in 0..127
  BY <1>1 DEF Length
<1>2. CASE x \in 194..223
  BY <1>2 DEF Length
<1>3. CASE x \in 224..239
  BY <1>3 DEF Length
<1>4. CASE x \in 240..244
  BY <1>4 DEF Length
<1>5. CASE ~(x \in 0..127) /\ ~(x \in 194..223) /\ ~(x \in 224..239) /\ ~(x \in 240..244)
  BY <1>5 DEF Length
<1> QED
  BY <1>1, <1>2, <1>3, <1>4, <1>5

Faults == {NoFault} \cup [code : {"InvalidText", "LimitExceeded"}, offset : Nat]

\* A character that has no fault lies within the bytes and leaves some.
LEMMA CharacterIs ==
    ASSUME NEW encoding \in Encodings, NEW b \in Seq(Byte), NEW o \in Nat, o < Len(b)
    PROVE  /\ CharacterFault(encoding, b, o) \in Faults
           /\ CharacterFault(encoding, b, o) = NoFault =>
                 /\ Character(encoding, b, o) \in Seq(Nat)
                 /\ Character(encoding, b, o) # <<>>
                 /\ Taking(encoding, b, o) \in Nat
                 /\ Taking(encoding, b, o) > 0
                 /\ o + Taking(encoding, b, o) <= Len(b)
<1> DEFINE x == b[o + 1]
<1>1. o + 1 \in 1..Len(b) /\ x \in Byte
  <2>1. o + 1 \in 1..Len(b)
    OBVIOUS
  <2> QED
    BY <2>1, ElementOfSeq
<1>2. Length(x) \in 0..4
  BY <1>1, LengthIs
<1>3. /\ NoFault \in Faults
      /\ Fault("InvalidText", o) \in Faults
      /\ Fault("InvalidText", o) # NoFault
  BY DEF Faults, Fault, NoFault
<1>4. Spoilt(b, o) # {} => o + Min(Spoilt(b, o)) \in Nat
  <2>1. Spoilt(b, o) \subseteq Nat
    BY <1>2 DEF Spoilt
  <2> QED
    BY <2>1, MinIsLeast
<1>5. Spoilt(b, o) # {} => /\ Fault("InvalidText", o + Min(Spoilt(b, o))) \in Faults
                           /\ Fault("InvalidText", o + Min(Spoilt(b, o))) # NoFault
  BY <1>4 DEF Faults, Fault, NoFault
<1>6. CASE encoding = "Tis620"
  <2>1. CharacterFault(encoding, b, o) \in {NoFault, Fault("InvalidText", o)}
    BY <1>6 DEF CharacterFault
  <2>2. ASSUME CharacterFault(encoding, b, o) = NoFault
        PROVE  /\ Character(encoding, b, o) = Utf8(ThaiScalar(x))
               /\ ThaiScalar(x) # None
               /\ Taking(encoding, b, o) = 1
    BY <1>3, <1>6, <2>2 DEF CharacterFault, Character, Taking
  <2> QED
    <3>1. CharacterFault(encoding, b, o) \in Faults
      BY <1>3, <2>1
    <3> HIDE DEF x
    <3>2. ASSUME ThaiScalar(x) # None
          PROVE  Utf8(ThaiScalar(x)) \in Seq(Nat) /\ Utf8(ThaiScalar(x)) # <<>>
      <4>1. ThaiScalar(x) \in Nat
        BY <1>1, <3>2, ThaiScalarIs
      <4> QED
        BY <4>1, Utf8Is
    <3>3. o + 1 <= Len(b)
      BY <1>1
    <3> QED
      BY <2>2, <3>1, <3>2, <3>3
<1>7. CASE encoding = "Utf8"
  <2>1. CharacterFault(encoding, b, o) =
           IF Length(x) = 0 THEN Fault("InvalidText", o)
           ELSE IF Spoilt(b, o) # {} THEN Fault("InvalidText", o + Min(Spoilt(b, o)))
           ELSE IF Control(x) THEN Fault("InvalidText", o)
           ELSE NoFault
    BY <1>7 DEF CharacterFault
  <2>2. CharacterFault(encoding, b, o) \in Faults
    BY <1>3, <1>5, <2>1
  <2>3. ASSUME CharacterFault(encoding, b, o) = NoFault
        PROVE  /\ Character(encoding, b, o) \in Seq(Nat)
               /\ Character(encoding, b, o) # <<>>
               /\ Taking(encoding, b, o) \in Nat
               /\ Taking(encoding, b, o) > 0
               /\ o + Taking(encoding, b, o) <= Len(b)
    <3>1. Length(x) # 0 /\ Spoilt(b, o) = {}
      BY <1>3, <1>5, <2>1, <2>3
    <3>2. /\ Character(encoding, b, o) = Field(b, o, Length(x))
          /\ Taking(encoding, b, o) = Length(x)
      BY <1>7 DEF Character, Taking
    <3> DEFINE n == Length(x)
    <3>3. n \in 1..4 /\ \A i \in 1..n - 1 : o + (i + 1) <= Len(b)
      BY <1>2, <3>1 DEF Spoilt, Has
    <3> HIDE DEF n, x
    <3>4. o + n <= Len(b)
      <4>1. CASE n = 1
        BY <4>1
      <4>2. CASE n > 1
        <5>1. n - 1 \in 1..n - 1 /\ (n - 1) + 1 = n
          BY <3>3, <4>2
        <5> QED
          BY <3>3, <5>1
      <4> QED
        BY <3>3, <4>1, <4>2
    <3>5. Field(b, o, n) \in Seq(Byte) /\ Len(Field(b, o, n)) = n
      BY <3>3, <3>4, FieldIs
    <3>6. Field(b, o, n) \in Seq(Nat) /\ Field(b, o, n) # <<>>
      <4> DEFINE t == Field(b, o, n)
      <4>1. t \in Seq(Byte) /\ Len(t) = n
        BY <3>5
      <4> HIDE DEF t
      <4>2. t # <<>>
        BY <3>3, <4>1
      <4>3. t \in Seq(Nat)
        BY <4>1, BytesAreNumbers
      <4> QED
        BY <4>2, <4>3 DEF t
    <3> QED
      BY <3>2, <3>3, <3>4, <3>6 DEF n
  <2> QED
    BY <2>2, <2>3
<1> QED
  BY <1>6, <1>7 DEF Encodings

\* One step of decodeLyricText.
TextStep(encoding, b, limit, s) ==
    IF s.fault # NoFault \/ s.at = Len(b) THEN s
    ELSE LET bad == CharacterFault(encoding, b, s.at)
             more == Character(encoding, b, s.at)
         IN  IF bad # NoFault THEN [s EXCEPT !.fault = bad]
             ELSE IF Len(s.text) + Len(more) > limit
                  THEN [s EXCEPT !.fault = Fault("LimitExceeded", s.at)]
             ELSE [s EXCEPT !.text = @ \o more, !.at = @ + Taking(encoding, b, @)]

TextStates(b) ==
    {s \in [text : Seq(Nat), at : 0..Len(b), fault : Faults] : s.at > 0 => s.text # <<>>}

NoText == [text |-> <<>>, at |-> 0, fault |-> NoFault]

LEMMA TextStepIs ==
    ASSUME NEW encoding \in Encodings, NEW b \in Seq(Byte), NEW limit,
           NEW s \in TextStates(b)
    PROVE  LET r == TextStep(encoding, b, limit, s) IN
           /\ r \in TextStates(b)
           /\ b # <<>> => r.at > 0 \/ r.fault # NoFault
<1> DEFINE r == TextStep(encoding, b, limit, s)
           bad == CharacterFault(encoding, b, s.at)
           more == Character(encoding, b, s.at)
           taken == Taking(encoding, b, s.at)
<1> SUFFICES r \in TextStates(b) /\ (b # <<>> => r.at > 0 \/ r.fault # NoFault)
  OBVIOUS
<1>1. /\ s = [text |-> s.text, at |-> s.at, fault |-> s.fault]
      /\ s.text \in Seq(Nat) /\ s.at \in 0..Len(b) /\ s.fault \in Faults
      /\ s.at > 0 => s.text # <<>>
  BY DEF TextStates
<1>2. CASE s.fault # NoFault \/ s.at = Len(b)
  <2>1. r = s
    BY <1>2 DEF TextStep
  <2>2. b # <<>> => Len(b) > 0
    OBVIOUS
  <2> HIDE DEF r
  <2> QED
    BY <1>1, <1>2, <2>1, <2>2
<1>3. CASE s.fault = NoFault /\ s.at # Len(b)
  <2>1. s.at \in Nat /\ s.at < Len(b)
    BY <1>1, <1>3
  <2>2. bad \in Faults /\
        (bad = NoFault => /\ more \in Seq(Nat) /\ more # <<>>
                          /\ taken \in Nat /\ taken > 0 /\ s.at + taken <= Len(b))
    BY <2>1, CharacterIs
  <2>3. CASE bad # NoFault
    <3>1. r = [text |-> s.text, at |-> s.at, fault |-> bad]
      BY <1>1, <1>3, <2>3 DEF TextStep
    <3> HIDE DEF r, bad
    <3> QED
      BY <1>1, <2>2, <2>3, <3>1 DEF TextStates
  <2>4. CASE bad = NoFault /\ Len(s.text) + Len(more) > limit
    <3>1. r = [text |-> s.text, at |-> s.at, fault |-> Fault("LimitExceeded", s.at)]
      BY <1>1, <1>3, <2>4 DEF TextStep
    <3>2. Fault("LimitExceeded", s.at) \in Faults /\ Fault("LimitExceeded", s.at) # NoFault
      BY <2>1 DEF Fault, Faults, NoFault
    <3> HIDE DEF r
    <3> QED
      BY <1>1, <3>1, <3>2 DEF TextStates
  <2>5. CASE bad = NoFault /\ ~(Len(s.text) + Len(more) > limit)
    <3>1. r = [text |-> s.text \o more, at |-> s.at + taken, fault |-> s.fault]
      BY <1>1, <1>3, <2>5 DEF TextStep
    <3> HIDE DEF r, more, taken
    <3>2. s.text \o more \in Seq(Nat) /\ s.text \o more # <<>>
      BY <1>1, <2>2, <2>5
    <3>3. s.at + taken \in 0..Len(b) /\ s.at + taken > 0
      BY <2>1, <2>2, <2>5
    <3> QED
      BY <1>1, <3>1, <3>2, <3>3 DEF TextStates
  <2> QED
    BY <2>3, <2>4, <2>5
<1> QED
  BY <1>1, <1>2, <1>3

\* Text decoded without a fault is bytes, and there is some if there was some
\* to decode.
LEMMA TextIs ==
    ASSUME NEW encoding \in Encodings, NEW b \in Seq(Byte), NEW limit
    PROVE  LET t == DecodeText(encoding, b, limit) IN
           /\ t.text \in Seq(Nat) /\ t.fault \in Faults
           /\ b # <<>> /\ t.fault = NoFault => t.text # <<>>
<1> DEFINE n == Len(b)
           V == TextStates(b)
           G(g) == [s \in SUBSET (1..n) |->
                       IF s = {} THEN NoText ELSE TextStep(encoding, b, limit, g[s \ {Max(s)}])]
           it == CHOOSE g : g = G(g)
           F == [p \in (1..n) \X V |-> TextStep(encoding, b, limit, p[2])]
<1>1. n \in Nat /\ DOMAIN b = 1..n
  OBVIOUS
<1>2. DecodeText(encoding, b, limit) = it[1..n]
  BY <1>1 DEF DecodeText, FoldLeft, MapThenFoldSet, TextStep, NoText
<1>3. \A s \in V : TextStep(encoding, b, limit, s) \in V
  BY TextStepIs
<1>4. NoText \in V
  <2>1. NoFault \in Faults /\ <<>> \in Seq(Nat)
    BY DEF NoFault, Fault, Faults
  <2> QED
    BY <1>1, <2>1 DEF NoText, TextStates
<1> HIDE DEF V, n
<1>5. /\ F \in [(1..n) \X V -> V]
      /\ \A x \in 1..n, s \in V : F[<<x, s>>] = TextStep(encoding, b, limit, s)
  BY <1>3
<1> HIDE DEF F
<1>6. PICK g \in [SUBSET (1..n) -> V] : IsSolution(g, n, NoText, F)
  BY <1>1, <1>4, <1>5, LeftFoldExists
<1>7. ASSUME NEW s \in SUBSET (1..n), s # {} PROVE Max(s) \in 1..n /\ s \ {Max(s)} \in SUBSET (1..n)
  BY <1>1, <1>7, GreatestNumber
<1>8. ASSUME NEW s \in SUBSET (1..n), s # {}
      PROVE  g[s] = TextStep(encoding, b, limit, g[s \ {Max(s)}])
  <2>1. g[s \ {Max(s)}] \in V
    BY <1>6, <1>7, <1>8
  <2> QED
    BY <1>5, <1>6, <1>7, <1>8, <2>1 DEF IsSolution
<1>9. g = G(g)
  BY <1>6, <1>8 DEF IsSolution
<1> HIDE DEF G
<1>10. it = G(it)
  BY <1>9
<1> HIDE DEF it
<1>11. it[{}] = NoText /\ \A s \in SUBSET (1..n) :
          s # {} => it[s] = TextStep(encoding, b, limit, it[s \ {Max(s)}])
  BY <1>10 DEF G
<1>12. ASSUME NEW k \in 0..n - 1
       PROVE  it[1..k + 1] = TextStep(encoding, b, limit, it[1..k]) /\ k + 1 \in 1..n
  <2>1. /\ 1..k + 1 \in SUBSET (1..n) /\ 1..k + 1 # {} /\ k + 1 \in 1..n
        /\ Max(1..k + 1) = k + 1 /\ (1..k + 1) \ {k + 1} = 1..k
    BY <1>1, Latest
  <2> QED
    BY <1>11, <2>1
<1>13. Follows(it, n, V, NoText, F)
  BY <1>5, <1>11, <1>12 DEF Follows
<1>14. Passes(it, n, V, NoText, F)
  BY <1>1, <1>4, <1>5, <1>13, LeftFold
<1>15. PICK h \in [0..n -> V] : IsLeftFold(h, n, NoText, F) /\ h[n] = it[1..n]
  BY <1>14 DEF Passes
<1>16. h[n] \in V
  BY <1>1
<1>17. ASSUME b # <<>> PROVE h[n].at > 0 \/ h[n].fault # NoFault
  <2>1. n - 1 \in 0..n - 1 /\ n \in 1..n /\ (n - 1) + 1 = n
    BY <1>1, <1>17 DEF n
  <2>2. h[n - 1] \in V /\ h[n] = F[<<n, h[n - 1]>>]
    BY <1>1, <1>15, <2>1 DEF IsLeftFold
  <2>3. h[n] = TextStep(encoding, b, limit, h[n - 1])
    BY <1>5, <2>1, <2>2
  <2> QED
    BY <1>17, <2>2, <2>3, TextStepIs DEF V
<1> QED
  BY <1>2, <1>15, <1>16, <1>17 DEF V, TextStates

-----------------------------------------------------------------------------
(* The lyrics: the operations of a text.                                   *)

Ops == [kind : {"Text", "LineBreak", "ParagraphBreak"}, offset : Nat, length : Nat]

\* As Tiles, of the operations for the bytes of text before end.
OpTiles(text, ops, i, end) ==
    LET op == ops[i]
        after == op.offset + Width(text, op)
    IN  /\ op.offset = 0 <=> i = 1
        /\ after = IF i = Len(ops) THEN end ELSE ops[i + 1].offset
        /\ IF op.kind = "Text"
           THEN /\ op.length > 0
                /\ \A k \in op.offset + 1..after : text[k] \notin Newlines
                /\ i < Len(ops) => ops[i + 1].kind # "Text"
           ELSE \/ IsMark(text, op)
                \/ op.kind = "LineBreak" /\ text[op.offset + 1] \in Newlines

TilesTo(text, ops, end) ==
    /\ \A i \in DOMAIN ops : OpTiles(text, ops, i, end)
    /\ ops = <<>> <=> end = 0
    /\ ops # <<>> /\ ops[Len(ops)].kind = "Text" /\ end < Len(text) => text[end + 1] \in Newlines

TileStates(text) ==
    {s \in [at : 0..Len(text), list : Seq(Ops)] : TilesTo(text, s.list, s.at)}

LEMMA TilesToAll ==
    ASSUME NEW text \in Seq(Nat), text # <<>>, NEW ops, TilesTo(text, ops, Len(text))
    PROVE  Tiles(text, ops)
<1>1. Len(text) # 0
  OBVIOUS
<1>2. ops # <<>>
  BY <1>1 DEF TilesTo
<1>3. ASSUME NEW i \in DOMAIN ops PROVE OpTiles(text, ops, i, Len(text))
  BY <1>3 DEF TilesTo
<1> QED
  BY <1>2, <1>3 DEF Tiles, OpTiles

\* One more operation, for the bytes from at to end.
LEMMA TilesOn ==
    ASSUME NEW text \in Seq(Nat), NEW s \in TileStates(text), NEW op \in Ops,
           op.offset = s.at, NEW end \in 0..Len(text), end > s.at,
           s.at + Width(text, op) = end,
           IF op.kind = "Text"
           THEN /\ op.length > 0
                /\ \A k \in s.at + 1..end : text[k] \notin Newlines
                /\ end < Len(text) => text[end + 1] \in Newlines
           ELSE /\ op.kind = "LineBreak" /\ text[s.at + 1] \in Newlines
    PROVE  [at |-> end, list |-> Append(s.list, op)] \in TileStates(text)
<1> DEFINE ops == s.list
           new == Append(s.list, op)
           n == Len(s.list)
<1>1. /\ ops \in Seq(Ops) /\ s.at \in 0..Len(text) /\ s.at \in Nat /\ end \in Nat
      /\ \A i \in 1..n : OpTiles(text, ops, i, s.at)
      /\ ops = <<>> <=> s.at = 0
      /\ ops # <<>> /\ ops[n].kind = "Text" /\ s.at < Len(text) => text[s.at + 1] \in Newlines
  BY DEF TileStates, TilesTo
<1>2. n \in Nat /\ (n = 0 <=> ops = <<>>)
  BY <1>1
<1>3. /\ new \in Seq(Ops) /\ Len(new) = n + 1 /\ DOMAIN new = 1..n + 1
      /\ \A i \in 1..n : new[i] = ops[i]
      /\ new[n + 1] = op
      /\ new # <<>>
  BY <1>1, AppendProperties
<1>3a. s.at < Len(text) /\ Len(text) \in Nat
  BY <1>1
<1> HIDE DEF ops, new, n
<1>4. OpTiles(text, new, n + 1, end)
  <2>1. op.offset = 0 <=> n + 1 = 1
    BY <1>1, <1>2
  <2> QED
    BY <1>2, <1>3, <2>1 DEF OpTiles
<1>5. ASSUME NEW i \in 1..n - 1 PROVE OpTiles(text, new, i, end)
  <2>1. i \in 1..n /\ i + 1 \in 1..n /\ i # n /\ i # n + 1
    BY <1>2
  <2>2. OpTiles(text, ops, i, s.at) /\ new[i] = ops[i] /\ new[i + 1] = ops[i + 1]
    BY <1>1, <1>3, <2>1
  <2>3. i < n /\ i < n + 1 /\ Len(ops) = n /\ Len(new) = n + 1
    BY <1>2, <1>3, <2>1 DEF n, ops
  <2> QED
    BY <2>1, <2>2, <2>3 DEF OpTiles
<1>6. ASSUME n > 0 PROVE OpTiles(text, new, n, end)
  <2>1. n \in 1..n /\ n # n + 1 /\ n < n + 1 /\ ops # <<>>
    BY <1>2, <1>6
  <2>2. OpTiles(text, ops, n, s.at) /\ new[n] = ops[n] /\ new[n + 1] = op
    BY <1>1, <1>3, <2>1
  <2>3. Len(ops) = n /\ Len(new) = n + 1
    BY <1>3 DEF n, ops
  <2>4. ops[n].kind = "Text" => op.kind # "Text"
    <3> SUFFICES ASSUME ops[n].kind = "Text", op.kind = "Text" PROVE FALSE
      OBVIOUS
    <3>1. text[s.at + 1] \in Newlines
      BY <1>1, <1>3a, <2>1
    <3>2. s.at + 1 \in s.at + 1..end
      BY <1>1
    <3> QED
      BY <3>1, <3>2
  <2> QED
    BY <2>1, <2>2, <2>3, <2>4 DEF OpTiles
<1>7. \A i \in DOMAIN new : OpTiles(text, new, i, end)
  BY <1>2, <1>3, <1>4, <1>5, <1>6
<1>8. new = <<>> <=> end = 0
  BY <1>1, <1>3
<1>9. new[Len(new)].kind = "Text" /\ end < Len(text) => text[end + 1] \in Newlines
  BY <1>3
<1> QED
  BY <1>3, <1>7, <1>8, <1>9 DEF TilesTo, TileStates, new

\* One step of the loop over the text.
OperationStep(text, s) ==
    IF s.at = Len(text) THEN s
    ELSE IF text[s.at + 1] \in Newlines
    THEN [at |-> AfterNewline(text, s.at),
          list |-> Append(s.list, Operation("LineBreak", s.at, 0))]
    ELSE [at |-> RunEnd(text, s.at),
          list |-> Append(s.list, Operation("Text", s.at, RunEnd(text, s.at) - s.at))]

LEMMA RunEndIs ==
    ASSUME NEW text \in Seq(Nat), NEW o \in Nat, o < Len(text), text[o + 1] \notin Newlines
    PROVE  LET end == RunEnd(text, o) IN
           /\ end \in 0..Len(text) /\ end > o
           /\ \A k \in o + 1..end : text[k] \notin Newlines
           /\ end < Len(text) => text[end + 1] \in Newlines
<1> DEFINE T == {Len(text)} \cup {i \in o..Len(text) - 1 : text[i + 1] \in Newlines}
           end == RunEnd(text, o)
<1>1. T \subseteq Nat /\ T # {} /\ Len(text) \in T /\ Len(text) \in Nat
  OBVIOUS
<1>2. end = Min(T)
  BY DEF RunEnd
<1>3. end \in T /\ \A i \in T : end <= i
  <2> HIDE DEF T, end
  <2> QED
    BY <1>1, <1>2, MinIsLeast
<1> HIDE DEF end
<1>4. \A i \in o..Len(text) - 1 : text[i + 1] \in Newlines => i \in T
  OBVIOUS
<1>5. end \in Nat /\ end <= Len(text) /\ end > o
      /\ (end < Len(text) => text[end + 1] \in Newlines)
  BY <1>1, <1>3
<1> HIDE DEF T
<1>6. ASSUME NEW k \in o + 1..end PROVE text[k] \notin Newlines
  <2>1. k - 1 \in o..Len(text) - 1 /\ (k - 1) + 1 = k /\ k \in Nat
    BY <1>1, <1>5
  <2>2. k - 1 \notin T
    BY <1>3, <1>5, <2>1
  <2> QED
    BY <1>4, <2>1, <2>2
<1> QED
  BY <1>1, <1>5, <1>6 DEF end

LEMMA NewlineIs ==
    ASSUME NEW text \in Seq(Nat), NEW o \in Nat, o < Len(text), text[o + 1] \in Newlines
    PROVE  LET end == AfterNewline(text, o)
               op == Operation("LineBreak", o, 0) IN
           /\ end \in 0..Len(text) /\ end > o
           /\ op \in Ops /\ op.offset = o /\ op.kind = "LineBreak"
           /\ o + Width(text, op) = end
<1> DEFINE op == Operation("LineBreak", o, 0)
           rest == SubSeq(text, o + 1, Len(text))
<1>1. op \in Ops /\ op.offset = o /\ op.kind = "LineBreak"
  BY DEF Operation, Ops
<1>2. /\ Len(rest) = Len(text) - o /\ rest[1] = text[o + 1]
      /\ o + 2 <= Len(text) => rest[2] = text[o + 2]
  OBVIOUS
<1>3. IsPrefix(<<CR, LF>>, rest) <=>
         o + 2 <= Len(text) /\ text[o + 1] = CR /\ text[o + 2] = LF
  <2>1. IsPrefix(<<CR, LF>>, rest) <=>
           2 <= Len(rest) /\ \A i \in 1..2 : <<CR, LF>>[i] = rest[i]
    BY DEF IsPrefix
  <2> HIDE DEF rest
  <2> QED
    BY <1>2, <2>1
<1>4. Width(text, op) = IF IsPrefix(<<CR, LF>>, rest) THEN 2 ELSE 1
  BY <1>1 DEF Width
<1> HIDE DEF op, rest
<1>5. AfterNewline(text, o) =
         IF o + 2 <= Len(text) /\ text[o + 1] = CR /\ text[o + 2] = LF THEN o + 2 ELSE o + 1
  BY DEF AfterNewline, Has
<1> QED
  BY <1>1, <1>3, <1>4, <1>5 DEF op

LEMMA OperationStepIs ==
    ASSUME NEW text \in Seq(Nat), NEW s \in TileStates(text)
    PROVE  LET r == OperationStep(text, s) IN
           /\ r \in TileStates(text)
           /\ r.at = Len(text) \/ r.at > s.at
<1> DEFINE r == OperationStep(text, s)
<1>1. s.at \in 0..Len(text) /\ s.at \in Nat /\ Len(text) \in Nat
  BY DEF TileStates
<1>2. CASE s.at = Len(text)
  BY <1>2 DEF OperationStep
<1>3. CASE s.at # Len(text) /\ text[s.at + 1] \in Newlines
  <2> DEFINE end == AfterNewline(text, s.at)
             op == Operation("LineBreak", s.at, 0)
  <2>1. r = [at |-> end, list |-> Append(s.list, op)]
    BY <1>3 DEF OperationStep
  <2>2. /\ end \in 0..Len(text) /\ end > s.at
        /\ op \in Ops /\ op.offset = s.at /\ op.kind = "LineBreak"
        /\ s.at + Width(text, op) = end
    BY <1>1, <1>3, NewlineIs
  <2> HIDE DEF r, end, op
  <2>3. r \in TileStates(text)
    BY <1>3, <2>1, <2>2, TilesOn
  <2> QED
    BY <2>1, <2>2, <2>3 DEF r
<1>4. CASE s.at # Len(text) /\ text[s.at + 1] \notin Newlines
  <2> DEFINE end == RunEnd(text, s.at)
             op == Operation("Text", s.at, end - s.at)
  <2>1. r = [at |-> end, list |-> Append(s.list, op)]
    BY <1>4 DEF OperationStep
  <2>2. /\ end \in 0..Len(text) /\ end > s.at
        /\ \A k \in s.at + 1..end : text[k] \notin Newlines
        /\ end < Len(text) => text[end + 1] \in Newlines
    BY <1>1, <1>4, RunEndIs
  <2> HIDE DEF r, end
  <2>3. op.kind = "Text" /\ op.offset = s.at /\ op.length = end - s.at
    BY DEF Operation
  <2>4. end - s.at \in Nat /\ end - s.at > 0
    BY <1>1, <2>2
  <2>5. op \in Ops
    BY <1>1, <2>4 DEF Operation, Ops
  <2>6. s.at + Width(text, op) = end
    BY <1>1, <2>2, <2>3 DEF Width
  <2> HIDE DEF op
  <2>7. r \in TileStates(text)
    BY <2>1, <2>2, <2>3, <2>4, <2>5, <2>6, TilesOn
  <2> QED
    BY <2>1, <2>2, <2>7 DEF r
<1> QED
  BY <1>2, <1>3, <1>4

MarkBreak(text, i) ==
    Operation(IF text[i] = Slash THEN "LineBreak" ELSE "ParagraphBreak", i - 1, 0)

\* The loop starts after the marks, with their breaks.
FirstTiles(text) ==
    [at |-> Marks(text), list |-> [i \in 1..Marks(text) |-> MarkBreak(text, i)]]

LEMMA MarksAre ==
    ASSUME NEW text \in Seq(Nat)
    PROVE  /\ Marks(text) \in 0..Len(text)
           /\ Marks(text) > 0 => profile = "NamedText"
           /\ \A i \in 1..Marks(text) : text[i] \in {Slash, Backslash}
<1> DEFINE T == {Len(text)} \cup {i \in 0..Len(text) - 1 : text[i + 1] \notin {Slash, Backslash}}
           m == Min(T)
<1>1. T \subseteq Nat /\ T # {} /\ Len(text) \in T /\ Len(text) \in Nat
  OBVIOUS
<1>2. m \in T /\ \A i \in T : m <= i
  <2> HIDE DEF T
  <2> QED
    BY <1>1, MinIsLeast
<1>3. Marks(text) = IF profile = "NamedText" THEN m ELSE 0
  BY DEF Marks
<1> HIDE DEF m
<1>4. \A i \in 0..Len(text) - 1 : text[i + 1] \notin {Slash, Backslash} => i \in T
  OBVIOUS
<1> HIDE DEF T
<1>5. m \in Nat /\ m <= Len(text)
  BY <1>1, <1>2
<1>6. ASSUME NEW i \in 1..m PROVE text[i] \in {Slash, Backslash}
  <2>1. i - 1 \in 0..Len(text) - 1 /\ (i - 1) + 1 = i
    BY <1>1, <1>5
  <2>2. i - 1 \notin T
    BY <1>2, <1>5, <2>1
  <2> QED
    BY <1>4, <2>1, <2>2
<1> QED
  BY <1>1, <1>3, <1>5, <1>6

LEMMA FirstTilesAre ==
    ASSUME NEW text \in Seq(Nat)
    PROVE  FirstTiles(text) \in TileStates(text)
<1> DEFINE m == Marks(text)
           ops == [i \in 1..m |-> MarkBreak(text, i)]
<1>1. m \in 0..Len(text) /\ m \in Nat /\ Len(text) \in Nat
      /\ (m > 0 => profile = "NamedText")
      /\ \A i \in 1..m : text[i] \in {Slash, Backslash}
  BY MarksAre
<1> HIDE DEF m
<1>2. ASSUME NEW i \in 1..m
      PROVE  /\ ops[i] \in Ops /\ ops[i].offset = i - 1
             /\ ops[i].kind = IF text[i] = Slash THEN "LineBreak" ELSE "ParagraphBreak"
  <2>1. i - 1 \in Nat
    OBVIOUS
  <2>2. ops[i] = [kind |-> IF text[i] = Slash THEN "LineBreak" ELSE "ParagraphBreak",
                  offset |-> i - 1, length |-> 0]
    BY DEF MarkBreak, Operation
  <2> HIDE DEF ops
  <2> QED
    BY <2>1, <2>2 DEF Ops
<1>3. ops \in Seq(Ops) /\ Len(ops) = m /\ DOMAIN ops = 1..m
  <2>1. ops \in [1..m -> Ops]
    BY <1>2
  <2> HIDE DEF ops
  <2> QED
    BY <1>1, <2>1, SeqDef
<1> HIDE DEF ops
<1>4. ASSUME NEW i \in 1..m PROVE Width(text, ops[i]) = 1
  <2> DEFINE rest == SubSeq(text, (i - 1) + 1, Len(text))
  <2>1. ops[i].kind # "Text" /\ ops[i].offset = i - 1
    BY <1>2
  <2>2. Len(rest) >= 1 /\ rest[1] = text[i]
    BY <1>1
  <2>3. IsPrefix(<<CR, LF>>, rest) => CR = rest[1]
    <3>1. IsPrefix(<<CR, LF>>, rest) => \A k \in 1..2 : <<CR, LF>>[k] = rest[k]
      BY DEF IsPrefix
    <3> HIDE DEF rest
    <3> QED
      BY <3>1
  <2>4. Width(text, ops[i]) =
           IF ops[i].kind = "LineBreak" /\ IsPrefix(<<CR, LF>>, rest) THEN 2 ELSE 1
    BY <2>1 DEF Width
  <2> HIDE DEF rest
  <2>5. text[i] # CR
    BY <1>1 DEF CR, Slash, Backslash
  <2> QED
    BY <2>2, <2>3, <2>4, <2>5
<1>5. ASSUME NEW i \in 1..m PROVE OpTiles(text, ops, i, m)
  <2>1. IsMark(text, ops[i])
    <3>1. profile = "NamedText" /\ (i - 1) + 1 = i /\ 1..i \subseteq 1..m
      BY <1>1
    <3>2. \A k \in 1..(i - 1) + 1 : text[k] \in {Slash, Backslash}
      BY <1>1, <3>1
    <3> QED
      BY <1>2, <3>1, <3>2 DEF IsMark
  <2>2. ops[i].offset = i - 1 /\ ops[i].kind # "Text" /\ Width(text, ops[i]) = 1
    BY <1>2, <1>4
  <2>3. i # m => i + 1 \in 1..m /\ ops[i + 1].offset = i
    <3> SUFFICES ASSUME i # m PROVE i + 1 \in 1..m /\ ops[i + 1].offset = i
      OBVIOUS
    <3>1. i + 1 \in 1..m /\ (i + 1) - 1 = i
      BY <1>1
    <3> QED
      BY <1>2, <3>1
  <2>4. ops[i].offset + Width(text, ops[i]) = i /\ (ops[i].offset = 0 <=> i = 1)
    BY <2>2
  <2> QED
    BY <1>3, <2>1, <2>2, <2>3, <2>4 DEF OpTiles
<1>6. ops = <<>> <=> m = 0
  BY <1>3
<1>7. ops # <<>> => ops[Len(ops)].kind # "Text"
  BY <1>1, <1>2, <1>3, <1>6
<1>8. TilesTo(text, ops, m)
  BY <1>3, <1>5, <1>6, <1>7 DEF TilesTo
<1> QED
  BY <1>1, <1>3, <1>8 DEF FirstTiles, TileStates, m, ops

\* The operations of a text stand for all of it.
LEMMA OperationsTile ==
    ASSUME NEW text \in Seq(Nat)
    PROVE  /\ Operations(text) \in Seq(Ops)
           /\ text # <<>> => Tiles(text, Operations(text))
<1> DEFINE n == Len(text)
           V == TileStates(text)
           first == FirstTiles(text)
           G(g) == [s \in SUBSET (1..n) |->
                       IF s = {} THEN first ELSE OperationStep(text, g[s \ {Max(s)}])]
           it == CHOOSE g : g = G(g)
           F == [p \in (1..n) \X V |-> OperationStep(text, p[2])]
<1>1. n \in Nat /\ DOMAIN text = 1..n
  OBVIOUS
<1>2. Operations(text) = it[1..n].list
  BY <1>1 DEF Operations, FoldLeft, MapThenFoldSet, OperationStep, FirstTiles, MarkBreak
<1>3. \A s \in V : OperationStep(text, s) \in V
  BY OperationStepIs
<1>4. first \in V
  BY FirstTilesAre
<1> HIDE DEF V, n, first
<1>5. F \in [(1..n) \X V -> V] /\ \A x \in 1..n, s \in V : F[<<x, s>>] = OperationStep(text, s)
  BY <1>3
<1> HIDE DEF F
<1>6. PICK g \in [SUBSET (1..n) -> V] : IsSolution(g, n, first, F)
  BY <1>1, <1>4, <1>5, LeftFoldExists
<1>7. ASSUME NEW s \in SUBSET (1..n), s # {} PROVE Max(s) \in 1..n /\ s \ {Max(s)} \in SUBSET (1..n)
  BY <1>1, <1>7, GreatestNumber
<1>8. ASSUME NEW s \in SUBSET (1..n), s # {}
      PROVE  g[s] = OperationStep(text, g[s \ {Max(s)}])
  <2>1. g[s \ {Max(s)}] \in V
    BY <1>6, <1>7, <1>8
  <2> QED
    BY <1>5, <1>6, <1>7, <1>8, <2>1 DEF IsSolution
<1>9. g = G(g)
  BY <1>6, <1>8 DEF IsSolution
<1> HIDE DEF G
<1>10. it = G(it)
  BY <1>9
<1> HIDE DEF it
<1>11. it[{}] = first /\ \A s \in SUBSET (1..n) :
          s # {} => it[s] = OperationStep(text, it[s \ {Max(s)}])
  BY <1>10 DEF G
<1>12. ASSUME NEW k \in 0..n - 1
       PROVE  it[1..k + 1] = OperationStep(text, it[1..k]) /\ k + 1 \in 1..n
  <2>1. /\ 1..k + 1 \in SUBSET (1..n) /\ 1..k + 1 # {} /\ k + 1 \in 1..n
        /\ Max(1..k + 1) = k + 1 /\ (1..k + 1) \ {k + 1} = 1..k
    BY <1>1, Latest
  <2> QED
    BY <1>11, <2>1
<1>13. Follows(it, n, V, first, F)
  BY <1>5, <1>11, <1>12 DEF Follows
<1>14. Passes(it, n, V, first, F)
  BY <1>1, <1>4, <1>5, <1>13, LeftFold
<1>15. PICK h \in [0..n -> V] : IsLeftFold(h, n, first, F) /\ h[n] = it[1..n]
  BY <1>14 DEF Passes
<1> DEFINE S == {k \in Nat : k <= n => h[k].at >= k}
<1>16. ASSUME NEW k \in 0..n PROVE h[k] \in V /\ h[k].at \in 0..n
  BY <1>15 DEF V, TileStates, n
<1>17. 0 \in S
  BY <1>1, <1>16
<1>18. ASSUME NEW k \in Nat, k \in S PROVE k + 1 \in S
  <2> SUFFICES ASSUME k + 1 <= n PROVE h[k + 1].at >= k + 1
    OBVIOUS
  <2>1. k \in 0..n - 1 /\ k \in 0..n /\ k + 1 \in 1..n /\ h[k].at >= k
    BY <1>1, <1>18
  <2>2. h[k + 1] = F[<<k + 1, h[k]>>] /\ h[k] \in V /\ h[k].at \in 0..n
    BY <1>15, <1>16, <2>1 DEF IsLeftFold
  <2>3. h[k + 1] = OperationStep(text, h[k])
    BY <1>5, <2>1, <2>2
  <2>4. h[k + 1].at = n \/ h[k + 1].at > h[k].at
    BY <2>2, <2>3, OperationStepIs DEF V, n
  <2>5. h[k + 1].at \in 0..n
    BY <1>16, <2>1
  <2> QED
    BY <1>1, <2>1, <2>2, <2>4, <2>5
<1>19. h[n] \in V /\ h[n].at = n
  <2> HIDE DEF S
  <2>1. Nat \subseteq S
    BY <1>17, <1>18, Counting
  <2>2. h[n].at >= n /\ n \in 0..n
    BY <1>1, <2>1 DEF S
  <2> QED
    BY <1>1, <1>16, <2>2
<1>20. Operations(text) \in Seq(Ops) /\ TilesTo(text, Operations(text), Len(text))
  BY <1>2, <1>15, <1>19 DEF V, TileStates, n
<1> QED
  BY <1>20, TilesToAll

-----------------------------------------------------------------------------
(* The lyrics: what is kept of an event.                                   *)

\* What an event on the timeline carries is bytes of the file.
TimelineBytes == \A i \in 1..Len(timeline) : timeline[i].event.data \in Seq(Byte)

LEMMA TimelineBytesStep ==
    ASSUME CompileInv, TimelineBytes, [CompileNext]_compileVars
    PROVE  TimelineBytes'
<1>1. IsSequence(timeline) /\ Len(timeline) \in Nat
  BY SequenceShape DEF CompileInv, Placed
<1>2. CASE UNCHANGED timeline
  BY <1>2 DEF TimelineBytes
<1>3. CASE Compile
  <2>1. Earliest \in Events
    BY <1>3, EarliestIs DEF Compile, CompileInv, Merged, Compiling
  <2>2. Earliest.event.data \in Seq(Byte)
    BY <2>1, EventsAre DEF CompileInv, IsTimed
  <2> DEFINE new == OnTimeline(time + Interval, Earliest)
  <2>3. timeline' = Append(timeline, new)
    BY <1>3 DEF Compile
  <2>4. new.event = Earliest.event
    BY DEF OnTimeline
  <2> HIDE DEF new
  <2>5. /\ Len(timeline') = Len(timeline) + 1
        /\ \A i \in 1..Len(timeline) : timeline'[i] = timeline[i]
        /\ timeline'[Len(timeline) + 1] = new
    BY <1>1, <2>3, AppendIs
  <2>6. ASSUME NEW i \in 1..Len(timeline') PROVE timeline'[i].event.data \in Seq(Byte)
    <3>1. i \in 1..Len(timeline) \/ i = Len(timeline) + 1
      BY <1>1, <2>5
    <3> QED
      BY <2>2, <2>4, <2>5, <3>1 DEF TimelineBytes
  <2> QED
    BY <2>6 DEF TimelineBytes
<1>4. Compile \/ UNCHANGED timeline
  BY DEF CompileNext, Merge, TimeOverflow, Compiled, scheduleVars, compileVars
<1> QED
  BY <1>2, <1>3, <1>4

\* A cue and its storage.
IsCue(c) ==
    /\ Len(c.raw) \in Nat /\ Len(c.text) \in Nat /\ Len(c.operations) \in Nat
    /\ Tiles(c.text, c.operations)

IsRemark(m) == Len(m.raw) \in Nat /\ Len(m.text) \in Nat

LEMMA ProfileTiles == ASSUME profile' = profile PROVE \A c : IsCue(c)' <=> IsCue(c)
<1>1. \A text, op : IsMark(text, op)' <=> IsMark(text, op)
  BY DEF IsMark
<1>2. \A text, op : Width(text, op)' = Width(text, op)
  OBVIOUS
<1>3. \A text, ops : Tiles(text, ops)' <=> Tiles(text, ops)
  BY <1>1, <1>2 DEF Tiles
<1> QED
  BY <1>3 DEF IsCue

LEMMA StorageIs ==
    /\ \A c : IsCue(c) => CueStorage(c) \in Nat
    /\ \A m : IsRemark(m) => MetadataStorage(m) \in Nat
<1>1. CueBytes \in Nat /\ MetadataBytes \in Nat /\ OperationBytes \in Nat
  BY OptionsAssumption
<1>2. \A x, y \in Nat : x * y \in Nat
  OBVIOUS
<1>3. ASSUME NEW c, IsCue(c) PROVE CueStorage(c) \in Nat
  <2> DEFINE n == Len(c.operations) * OperationBytes
  <2> DEFINE a == Len(c.raw)
             b == Len(c.text)
  <2>1. n \in Nat /\ a \in Nat /\ b \in Nat
    BY <1>1, <1>2, <1>3 DEF IsCue
  <2>2. CueStorage(c) = (a + CueBytes + b) + n
    BY DEF CueStorage, Charged
  <2> HIDE DEF n, a, b
  <2> QED
    BY <1>1, <2>1, <2>2
<1>4. ASSUME NEW m, IsRemark(m) PROVE MetadataStorage(m) \in Nat
  <2> DEFINE a == Len(m.raw)
             b == Len(m.text)
  <2>1. a \in Nat /\ b \in Nat
    BY <1>4 DEF IsRemark
  <2>2. MetadataStorage(m) = a + MetadataBytes + b
    BY DEF MetadataStorage, Charged
  <2> HIDE DEF a, b
  <2> QED
    BY <1>1, <2>1, <2>2
<1> QED
  BY <1>3, <1>4

CueCosts(s) == [i \in 1..Len(s) |-> CueStorage(s[i])]
MetadataCosts(s) == [i \in 1..Len(s) |-> MetadataStorage(s[i])]
CueTotal(s) == FoldLeft(LAMBDA n, c : n + CueStorage(c), 0, s)
MetadataTotal(s) == FoldLeft(LAMBDA n, m : n + MetadataStorage(m), 0, s)

LEMMA CueTotalIs ==
    ASSUME NEW s, IsSequence(s), \A i \in 1..Len(s) : IsCue(s[i])
    PROVE  /\ CueCosts(s) \in [1..Len(s) -> Nat]
           /\ IsTotal(CueTotal(s), CueCosts(s), Len(s))
<1> DEFINE n == Len(s)
           w == CueCosts(s)
           G(g) == [t \in SUBSET (1..n) |->
                       IF t = {} THEN 0 ELSE g[t \ {Max(t)}] + CueStorage(s[Max(t)])]
           it == CHOOSE g : g = G(g)
<1>1. n \in Nat /\ DOMAIN s = 1..n
  BY SequenceShape
<1>2. CueTotal(s) = it[1..n]
  BY <1>1 DEF CueTotal, FoldLeft, MapThenFoldSet
<1>3. w \in [1..n -> Nat] /\ \A i \in 1..n : w[i] = CueStorage(s[i])
  BY StorageIs DEF CueCosts
<1> HIDE DEF n, w
<1>4. ASSUME NEW t \in SUBSET (1..n), t # {} PROVE Max(t) \in 1..n
  BY <1>1, <1>4, GreatestNumber
<1>5. PICK g \in [SUBSET (1..n) -> Nat] : RunningTotals(g, w, n)
  BY <1>1, <1>3, SumExists
<1>6. g = G(g)
  BY <1>3, <1>4, <1>5 DEF RunningTotals
<1> HIDE DEF G
<1>7. it = G(it)
  BY <1>6
<1> HIDE DEF it
<1>8. RunningTotals(it, w, n)
  BY <1>3, <1>4, <1>7 DEF G, RunningTotals
<1>9. IsTotal(it[1..n], w, n)
  BY <1>1, <1>3, <1>8, SumIsTotal
<1> QED
  BY <1>2, <1>3, <1>9 DEF n, w

LEMMA MetadataTotalIs ==
    ASSUME NEW s, IsSequence(s), \A i \in 1..Len(s) : IsRemark(s[i])
    PROVE  /\ MetadataCosts(s) \in [1..Len(s) -> Nat]
           /\ IsTotal(MetadataTotal(s), MetadataCosts(s), Len(s))
<1> DEFINE n == Len(s)
           w == MetadataCosts(s)
           G(g) == [t \in SUBSET (1..n) |->
                       IF t = {} THEN 0 ELSE g[t \ {Max(t)}] + MetadataStorage(s[Max(t)])]
           it == CHOOSE g : g = G(g)
<1>1. n \in Nat /\ DOMAIN s = 1..n
  BY SequenceShape
<1>2. MetadataTotal(s) = it[1..n]
  BY <1>1 DEF MetadataTotal, FoldLeft, MapThenFoldSet
<1>3. w \in [1..n -> Nat] /\ \A i \in 1..n : w[i] = MetadataStorage(s[i])
  BY StorageIs DEF MetadataCosts
<1> HIDE DEF n, w
<1>4. ASSUME NEW t \in SUBSET (1..n), t # {} PROVE Max(t) \in 1..n
  BY <1>1, <1>4, GreatestNumber
<1>5. PICK g \in [SUBSET (1..n) -> Nat] : RunningTotals(g, w, n)
  BY <1>1, <1>3, SumExists
<1>6. g = G(g)
  BY <1>3, <1>4, <1>5 DEF RunningTotals
<1> HIDE DEF G
<1>7. it = G(it)
  BY <1>6
<1> HIDE DEF it
<1>8. RunningTotals(it, w, n)
  BY <1>3, <1>4, <1>7 DEF G, RunningTotals
<1>9. IsTotal(it[1..n], w, n)
  BY <1>1, <1>3, <1>8, SumIsTotal
<1> QED
  BY <1>2, <1>3, <1>9 DEF n, w

\* One more record adds its storage.
LEMMA CueTotalGrows ==
    ASSUME NEW s, IsSequence(s), \A i \in 1..Len(s) : IsCue(s[i]), NEW c, IsCue(c)
    PROVE  /\ CueTotal(s) \in Nat
           /\ CueTotal(Append(s, c)) = CueTotal(s) + CueStorage(c)
<1> DEFINE t == Append(s, c)
<1>1. /\ IsSequence(t) /\ Len(t) = Len(s) + 1 /\ Len(s) \in Nat
      /\ \A i \in 1..Len(s) : t[i] = s[i]
      /\ t[Len(s) + 1] = c
  BY AppendIs, SequenceShape
<1> HIDE DEF t
<1>2. \A i \in 1..Len(t) : IsCue(t[i])
  BY <1>1
<1>3. /\ CueCosts(s) \in [1..Len(s) -> Nat] /\ CueCosts(t) \in [1..Len(s) + 1 -> Nat]
      /\ IsTotal(CueTotal(s), CueCosts(s), Len(s))
      /\ IsTotal(CueTotal(t), CueCosts(t), Len(s) + 1)
  BY <1>1, <1>2, CueTotalIs
<1>4. /\ \A i \in 1..Len(s) : CueCosts(t)[i] = CueCosts(s)[i]
      /\ CueCosts(t)[Len(s) + 1] = CueStorage(c)
  BY <1>1 DEF CueCosts
<1>5. CueTotal(s) \in Nat /\ CueTotal(t) = CueTotal(s) + CueCosts(t)[Len(s) + 1]
  BY <1>1, <1>3, <1>4, TotalGrows
<1> QED
  BY <1>4, <1>5 DEF t

LEMMA MetadataTotalGrows ==
    ASSUME NEW s, IsSequence(s), \A i \in 1..Len(s) : IsRemark(s[i]), NEW m, IsRemark(m)
    PROVE  /\ MetadataTotal(s) \in Nat
           /\ MetadataTotal(Append(s, m)) = MetadataTotal(s) + MetadataStorage(m)
<1> DEFINE t == Append(s, m)
<1>1. /\ IsSequence(t) /\ Len(t) = Len(s) + 1 /\ Len(s) \in Nat
      /\ \A i \in 1..Len(s) : t[i] = s[i]
      /\ t[Len(s) + 1] = m
  BY AppendIs, SequenceShape
<1> HIDE DEF t
<1>2. \A i \in 1..Len(t) : IsRemark(t[i])
  BY <1>1
<1>3. /\ MetadataCosts(s) \in [1..Len(s) -> Nat] /\ MetadataCosts(t) \in [1..Len(s) + 1 -> Nat]
      /\ IsTotal(MetadataTotal(s), MetadataCosts(s), Len(s))
      /\ IsTotal(MetadataTotal(t), MetadataCosts(t), Len(s) + 1)
  BY <1>1, <1>2, MetadataTotalIs
<1>4. /\ \A i \in 1..Len(s) : MetadataCosts(t)[i] = MetadataCosts(s)[i]
      /\ MetadataCosts(t)[Len(s) + 1] = MetadataStorage(m)
  BY <1>1 DEF MetadataCosts
<1>5. MetadataTotal(s) \in Nat /\ MetadataTotal(t) = MetadataTotal(s) + MetadataCosts(t)[Len(s) + 1]
  BY <1>1, <1>3, <1>4, TotalGrows
<1> QED
  BY <1>4, <1>5 DEF t

LEMMA NothingStored == CueTotal(<<>>) = 0 /\ MetadataTotal(<<>>) = 0
<1>1. IsSequence(<<>>) /\ Len(<<>>) = 0
  BY NoEvents
<1>2. /\ \A i \in 1..Len(<<>>) : IsCue(<<>>[i])
      /\ \A i \in 1..Len(<<>>) : IsRemark(<<>>[i])
  BY <1>1
<1>3. /\ IsTotal(CueTotal(<<>>), CueCosts(<<>>), 0)
      /\ IsTotal(MetadataTotal(<<>>), MetadataCosts(<<>>), 0)
  BY <1>1, <1>2, CueTotalIs, MetadataTotalIs
<1> QED
  BY <1>3, TotalOfNone

-----------------------------------------------------------------------------
(* The lyrics are the text.                                                *)

Selected == {i \in 1..read : IsSelected(timeline[i])}

\* Every selected event so far has its record.
Recorded ==
    /\ {cues[i].index : i \in DOMAIN cues} \cup {metadata[i].index : i \in DOMAIN metadata}
          = Selected
    /\ Len(cues) + Len(metadata) = Cardinality(Selected)

\* What is charged is what is kept.
Stored ==
    /\ sourceBytes \in Nat /\ stagedBytes \in Nat
    /\ stagedBytes = CueTotal(cues) + MetadataTotal(metadata)
                        + (IF title = None THEN 0 ELSE Len(title))
    /\ title # None => Len(title) \in Nat

Unextracted ==
    extraction = "none" =>
        /\ read = 0 /\ cues = <<>> /\ metadata = <<>> /\ title = None
        /\ stagedBytes = 0 /\ sourceBytes = 0

WithinLimits ==
    extraction # "none" =>
        /\ options \in Options(file)
        /\ stagedBytes <= options.stagedBytes
        /\ sourceBytes <= options.sourceBytes

TextInv ==
    /\ \A i \in 1..Len(cues) : IsCue(cues[i])
    /\ IsSequence(metadata) /\ \A i \in 1..Len(metadata) : IsRemark(metadata[i])
    /\ Recorded /\ Stored /\ Unextracted /\ WithinLimits

LEMMA NothingRecorded == {i \in 1..0 : IsSelected(timeline[i])} = {} /\ Cardinality({}) = 0
<1>1. 1..0 = {}
  OBVIOUS
<1> QED
  BY <1>1, FS_EmptySet

LEMMA TextInit == SongInit => TextInv
<1> SUFFICES ASSUME SongInit PROVE TextInv
  OBVIOUS
<1>1. /\ extraction = "none" /\ read = 0 /\ sourceBytes = 0 /\ stagedBytes = 0
      /\ cues = <<>> /\ metadata = <<>> /\ title = None
  BY DEF SongInit, LyricInit
<1>2. IsSequence(<<>>) /\ Len(<<>>) = 0
  BY NoEvents
<1>3. Selected = {} /\ Cardinality(Selected) = 0
  BY <1>1, NothingRecorded DEF Selected
<1>4. Recorded
  BY <1>1, <1>2, <1>3 DEF Recorded
<1>5. Stored
  BY <1>1, NothingStored DEF Stored
<1> QED
  BY <1>1, <1>2, <1>4, <1>5 DEF TextInv, Unextracted, WithinLimits

\* The event ahead is the one to record next, and has bytes.
LEMMA CurrentIs ==
    ASSUME CueInv, IsSequence(timeline), TimelineBytes, Ahead # {}
    PROVE  /\ Min(Ahead) \in Nat /\ Min(Ahead) > read
           /\ Raw \in Seq(Byte) /\ Raw # <<>> /\ Len(Raw) \in Nat
           /\ {i \in 1..Min(Ahead) : IsSelected(timeline[i])} = Selected \cup {Min(Ahead)}
           /\ Min(Ahead) \notin Selected
           /\ IsFiniteSet(Selected)
<1>1. /\ DOMAIN timeline = 1..Len(timeline) /\ Len(timeline) \in Nat
      /\ read \in Nat
  BY SequenceShape DEF CueInv
<1>2. Ahead \subseteq Nat
  BY <1>1 DEF Ahead
<1>3. Min(Ahead) \in Ahead /\ \A i \in Ahead : Min(Ahead) <= i
  BY <1>2, MinIsLeast
<1> DEFINE m == Min(Ahead)
<1>4. m \in 1..Len(timeline) /\ m \in Nat /\ m > read /\ IsSelected(timeline[m])
  BY <1>1, <1>3 DEF Ahead
<1>5. Raw \in Seq(Byte) /\ Raw # <<>>
  BY <1>4 DEF TimelineBytes, Raw, Current, IsSelected, IsLyric, Says
<1> HIDE DEF m
<1>6. \A i \in 1..m : IsSelected(timeline[i]) => i \in 1..read \/ i = m
  <2> SUFFICES ASSUME NEW i \in 1..m, IsSelected(timeline[i]), i > read, i # m PROVE FALSE
    BY <1>1
  <2>1. i \in 1..Len(timeline) /\ i < m
    BY <1>1, <1>4
  <2>2. i \in Ahead
    BY <1>1, <2>1 DEF Ahead
  <2> QED
    BY <1>3, <1>4, <2>1, <2>2 DEF m
<1>7. {i \in 1..m : IsSelected(timeline[i])} = Selected \cup {m}
  BY <1>1, <1>4, <1>6 DEF Selected
<1>8. IsFiniteSet(Selected)
  <2>1. IsFiniteSet(1..read)
    BY <1>1, FS_Interval
  <2> QED
    BY <2>1, FS_Subset DEF Selected
<1>9. m \notin Selected
  BY <1>1, <1>4 DEF Selected
<1> QED
  BY <1>4, <1>5, <1>7, <1>8, <1>9 DEF m

\* An event that is taken has been decoded, and what it takes is charged.
LEMMA TakenIs ==
    ASSUME CueInv, TextInv, CompileInv, TimelineBytes, Takes
    PROVE  /\ Text.text \in Seq(Nat) /\ Text.text # <<>>
           /\ TitleBytes \in Nat
           /\ stagedBytes' = stagedBytes + Len(Raw)
                                + (IF ToMetadata THEN MetadataBytes ELSE CueBytes)
                                + Len(Text.text) + TitleBytes + OperationCharge
           /\ sourceBytes' \in Nat
           /\ WithinLimits'
<1>1. IsSequence(timeline) /\ file \in Files
  BY DEF CompileInv, ReadInv, Placed
<1>2. /\ extraction = "reading" /\ extraction' = "reading" /\ Ahead # {} /\ EventError = "none"
      /\ options' = options /\ file' = file
      /\ sourceBytes' = sourceBytes + Len(Raw)
      /\ stagedBytes' = options.stagedBytes - Room + Len(Text.text) + TitleBytes + OperationCharge
  BY DEF Takes, compileVars, readVars
<1>3. /\ options \in Options(file) /\ options.encoding \in Encodings
      /\ options.stagedBytes \in Nat /\ options.sourceBytes \in Nat
  <2>1. options \in Options(file)
    BY <1>2 DEF TextInv, WithinLimits
  <2> QED
    BY <1>1, <2>1, OptionsAssumption DEF Encodings
<1>4. Raw \in Seq(Byte) /\ Raw # <<>> /\ Len(Raw) \in Nat
  BY <1>1, <1>2, CurrentIs
<1>5. ~(sourceBytes + Len(Raw) > options.sourceBytes)
  BY <1>2 DEF EventError
<1>7. /\ Text.text \in Seq(Nat) /\ Text.fault \in Faults
      /\ Text.fault = NoFault => Text.text # <<>>
  <2> DEFINE t == DecodeText(options.encoding, Raw, Room)
  <2>1. t.text \in Seq(Nat) /\ t.fault \in Faults /\ (t.fault = NoFault => t.text # <<>>)
    BY <1>3, <1>4, TextIs
  <2> QED
    BY <2>1 DEF Text
<1>8. Text.fault = NoFault
  <2>1. Text.fault = NoFault \/ Text.fault.code = "none"
    BY <1>2 DEF EventError
  <2> QED
    BY <1>7, <2>1 DEF Faults
<1>6. ~(Len(Text.text) + TitleBytes + OperationCharge > Room)
  BY <1>2, <1>8 DEF EventError
<1> DEFINE n == Len(Text.text)
           size == IF ToMetadata THEN MetadataBytes ELSE CueBytes
           a == Len(Raw)
           k == OperationCharge
<1>9. n \in Nat /\ n > 0 /\ size \in Nat
  BY <1>7, <1>8, OptionsAssumption
<1>10. TitleBytes \in Nat
  <2>1. TakesTitle => n > 2
    BY DEF TakesTitle, IsTitle
  <2>2. TitleBytes = IF TakesTitle THEN n - 2 ELSE 0
    BY DEF TitleBytes
  <2> HIDE DEF n
  <2> QED
    BY <1>9, <2>1, <2>2
<1>11. k \in Nat
  <2>1. \A x, y \in Nat : x * y \in Nat
    OBVIOUS
  <2>2. Len(Operations(Text.text)) \in Nat
    BY <1>7, OperationsTile
  <2>3. OperationBytes \in Nat
    BY OptionsAssumption
  <2> QED
    BY <2>1, <2>2, <2>3 DEF OperationCharge
<1>12. Room = options.stagedBytes - stagedBytes - a - size
  BY DEF Room
<1>13. stagedBytes \in Nat /\ sourceBytes \in Nat
  BY DEF TextInv, Stored
<1>14. a \in Nat
  BY <1>4
<1>15. /\ stagedBytes' = options.stagedBytes - Room + n + TitleBytes + k
       /\ ~(n + TitleBytes + k > Room)
       /\ sourceBytes' = sourceBytes + a /\ ~(sourceBytes + a > options.sourceBytes)
  BY <1>2, <1>5, <1>6
<1>16. /\ Text.text \in Seq(Nat) /\ Text.text # <<>>
  BY <1>7, <1>8
<1> HIDE DEF n, size, a, k
<1>17. /\ stagedBytes' = stagedBytes + a + size + n + TitleBytes + k
       /\ stagedBytes' <= options.stagedBytes
       /\ sourceBytes' \in Nat /\ sourceBytes' <= options.sourceBytes
  BY <1>3, <1>9, <1>10, <1>11, <1>12, <1>13, <1>14, <1>15
<1>18. WithinLimits'
  BY <1>2, <1>3, <1>17 DEF WithinLimits
<1> QED
  BY <1>10, <1>16, <1>17, <1>18 DEF a, size, n, k

LEMMA TakeCueKeeps ==
    ASSUME CueInv, TextInv, CompileInv, TimelineBytes, TakeCue
    PROVE  TextInv'
<1> DEFINE cue == [index |-> Min(Ahead), time |-> Current.time, raw |-> Raw,
                   text |-> Text.text, operations |-> Operations(Text.text)]
<1>1. /\ Takes /\ ~ToMetadata
      /\ cues' = Append(cues, cue) /\ metadata' = metadata /\ title' = title
      /\ read' = Min(Ahead) /\ Ahead # {}
      /\ extraction' = "reading"
      /\ timeline' = timeline /\ profile' = profile /\ lyricTrack' = lyricTrack
  BY DEF TakeCue, Takes, compileVars, scheduleVars
<1>2. /\ Text.text \in Seq(Nat) /\ Text.text # <<>>
      /\ stagedBytes' = stagedBytes + Len(Raw) + CueBytes + Len(Text.text) + TitleBytes
                           + OperationCharge
      /\ sourceBytes' \in Nat /\ WithinLimits'
  BY <1>1, TakenIs
<1>3. TitleBytes = 0 /\ OperationCharge = Len(Operations(Text.text)) * OperationBytes
  BY <1>1 DEF TitleBytes, TakesTitle, OperationCharge
<1>4. /\ Min(Ahead) \in Nat /\ Min(Ahead) > read
      /\ Len(Raw) \in Nat
      /\ {i \in 1..Min(Ahead) : IsSelected(timeline[i])} = Selected \cup {Min(Ahead)}
      /\ Min(Ahead) \notin Selected
      /\ IsFiniteSet(Selected)
  BY <1>1, CurrentIs DEF CompileInv, Placed
<1>5. IsCue(cue) /\ cue.index = Min(Ahead)
      /\ CueStorage(cue) = Len(Raw) + CueBytes + Len(Text.text)
                              + Len(Operations(Text.text)) * OperationBytes
  <2>1. /\ cue.raw = Raw /\ cue.text = Text.text /\ cue.operations = Operations(Text.text)
        /\ cue.index = Min(Ahead)
    OBVIOUS
  <2> HIDE DEF cue
  <2>2. Operations(Text.text) \in Seq(Ops) /\ Tiles(Text.text, Operations(Text.text))
    BY <1>2, OperationsTile
  <2>3. Len(Operations(Text.text)) \in Nat /\ Len(Text.text) \in Nat
    BY <1>2, <2>2
  <2> QED
    BY <1>4, <2>1, <2>2, <2>3 DEF IsCue, CueStorage, Charged
<1> HIDE DEF cue
<1>6. /\ IsSequence(cues) /\ DOMAIN cues = 1..Len(cues) /\ Len(cues) \in Nat
      /\ IsSequence(cues') /\ DOMAIN cues' = 1..Len(cues) + 1 /\ Len(cues') = Len(cues) + 1
      /\ \A i \in 1..Len(cues) : cues'[i] = cues[i]
      /\ cues'[Len(cues) + 1] = cue
  BY <1>1, AppendIs, SequenceShape DEF CueInv
<1>7. \A i \in 1..Len(cues') : IsCue(cues'[i])
  <2> SUFFICES ASSUME NEW i \in 1..Len(cues') PROVE IsCue(cues'[i])
    OBVIOUS
  <2>1. i \in 1..Len(cues) \/ i = Len(cues) + 1
    BY <1>6
  <2> QED
    BY <1>5, <1>6, <2>1 DEF TextInv
<1>8. Selected' = Selected \cup {Min(Ahead)}
  <2>1. Selected' = {i \in 1..read' : IsSelected(timeline[i])'}
    BY DEF Selected
  <2>2. \A i : IsSelected(timeline[i])' <=> IsSelected(timeline[i])
    BY <1>1 DEF IsSelected
  <2> QED
    BY <1>1, <1>4, <2>1, <2>2
<1>9. Recorded'
  <2>1. {cues'[i].index : i \in DOMAIN cues'}
           = {cues[i].index : i \in DOMAIN cues} \cup {Min(Ahead)}
    BY <1>5, <1>6
  <2>2. Cardinality(Selected') = Cardinality(Selected) + 1
    BY <1>4, <1>8, FS_AddElement
  <2>3. Len(metadata) \in Nat /\ Cardinality(Selected) \in Nat
    BY <1>4, FS_CardinalityType, SequenceShape DEF TextInv
  <2>4. Len(cues) + Len(metadata) = Cardinality(Selected)
        /\ {cues[i].index : i \in DOMAIN cues} \cup {metadata[i].index : i \in DOMAIN metadata}
              = Selected
    BY DEF TextInv, Recorded
  <2>5. Len(cues') + Len(metadata') = Cardinality(Selected')
    BY <1>1, <1>6, <2>2, <2>3, <2>4
  <2>6. {cues'[i].index : i \in DOMAIN cues'} \cup {metadata'[i].index : i \in DOMAIN metadata'}
           = Selected'
    BY <1>1, <1>8, <2>1, <2>4
  <2> QED
    BY <2>5, <2>6 DEF Recorded
<1>10. Stored'
  <2>1. CueTotal(cues) \in Nat /\ CueTotal(cues') = CueTotal(cues) + CueStorage(cue)
    BY <1>1, <1>5, <1>6, CueTotalGrows DEF TextInv
  <2>2. MetadataTotal(metadata) \in Nat
    <3>1. /\ IsTotal(MetadataTotal(metadata), MetadataCosts(metadata), Len(metadata))
          /\ Len(metadata) \in Nat
      BY MetadataTotalIs, SequenceShape DEF TextInv
    <3> QED
      BY <3>1 DEF IsTotal
  <2> DEFINE rest == IF title = None THEN 0 ELSE Len(title)
             k == Len(Operations(Text.text)) * OperationBytes
  <2>3. /\ stagedBytes = CueTotal(cues) + MetadataTotal(metadata) + rest
        /\ title # None => Len(title) \in Nat
        /\ stagedBytes \in Nat
    BY DEF TextInv, Stored
  <2>4. rest \in Nat
    BY <2>3
  <2>5. CueBytes \in Nat /\ Len(Text.text) \in Nat /\ CueStorage(cue) \in Nat
    BY <1>2, <1>5, StorageIs, OptionsAssumption
  <2> DEFINE n == Len(Text.text)
             r == Len(Raw)
  <2>6. k \in Nat
    <3>1. \A x, y \in Nat : x * y \in Nat
      OBVIOUS
    <3>2. Len(Operations(Text.text)) \in Nat
      BY <1>2, OperationsTile
    <3> QED
      BY <3>1, <3>2, OptionsAssumption
  <2>7. stagedBytes' = stagedBytes + r + CueBytes + n + k
    <3>1. stagedBytes' = stagedBytes + r + CueBytes + n + 0 + k
      BY <1>2, <1>3
    <3>2. r \in Nat /\ n \in Nat
      BY <1>4, <2>5
    <3> HIDE DEF r, n, k
    <3> QED
      BY <2>3, <2>5, <2>6, <3>1, <3>2
  <2>8. CueStorage(cue) = r + CueBytes + n + k /\ r \in Nat /\ n \in Nat
    BY <1>4, <1>5, <2>5
  <2>8a. rest' = rest
    BY <1>1
  <2> HIDE DEF rest, k, n, r
  <2>9. stagedBytes' \in Nat /\ stagedBytes' = CueTotal(cues') + MetadataTotal(metadata) + rest
    <3> DEFINE p == CueTotal(cues)
               q == MetadataTotal(metadata)
               c == CueStorage(cue)
    <3>1. p \in Nat /\ q \in Nat /\ c \in Nat /\ stagedBytes = p + q + rest
          /\ CueTotal(cues') = p + c /\ MetadataTotal(metadata) = q
          /\ stagedBytes \in Nat
      BY <2>1, <2>2, <2>3, <2>5
    <3>2. c = r + CueBytes + n + k
      BY <2>8
    <3>3. stagedBytes' = stagedBytes + r + CueBytes + n + k /\ rest \in Nat
          /\ r \in Nat /\ n \in Nat /\ k \in Nat /\ CueBytes \in Nat
      BY <2>4, <2>5, <2>6, <2>7, <2>8
    <3> HIDE DEF p, q, c
    <3>4. stagedBytes' \in Nat /\ stagedBytes' = (p + c) + q + rest
      BY <3>1, <3>2, <3>3
    <3> QED
      BY <3>1, <3>4
  <2>10. CueTotal(cues)' = CueTotal(cues') /\ MetadataTotal(metadata)' = MetadataTotal(metadata)
    <3>1. CueTotal(cues)' = CueTotal(cues')
      OBVIOUS
    <3>2. MetadataTotal(metadata)' = MetadataTotal(metadata')
      OBVIOUS
    <3> QED
      BY <1>1, <3>1, <3>2
  <2> QED
    BY <1>1, <1>2, <2>3, <2>9, <2>10 DEF Stored, rest
<1>11. (\A i \in 1..Len(cues) : IsCue(cues[i]))'
  <2>1. \A c : IsCue(c)' <=> IsCue(c)
    BY <1>1, ProfileTiles
  <2> QED
    BY <1>7, <2>1
<1>12. IsSequence(metadata)' /\ (\A i \in 1..Len(metadata) : IsRemark(metadata[i]))'
  BY <1>1 DEF TextInv
<1> QED
  BY <1>1, <1>2, <1>9, <1>10, <1>11, <1>12 DEF TextInv, Unextracted

LEMMA TakeMetadataKeeps ==
    ASSUME CueInv, TextInv, CompileInv, TimelineBytes, TakeMetadata
    PROVE  TextInv'
<1> DEFINE remark == [index |-> Min(Ahead), raw |-> Raw, text |-> Text.text]
<1>1. /\ Takes /\ ToMetadata
      /\ metadata' = Append(metadata, remark) /\ cues' = cues
      /\ title' = IF TakesTitle THEN SubSeq(Text.text, 3, Len(Text.text)) ELSE title
      /\ read' = Min(Ahead) /\ Ahead # {}
      /\ extraction' = "reading"
      /\ timeline' = timeline /\ profile' = profile /\ lyricTrack' = lyricTrack
  BY DEF TakeMetadata, Takes, compileVars, scheduleVars
<1>2. /\ Text.text \in Seq(Nat) /\ Text.text # <<>> /\ TitleBytes \in Nat
      /\ stagedBytes' = stagedBytes + Len(Raw) + MetadataBytes + Len(Text.text) + TitleBytes
                           + OperationCharge
      /\ sourceBytes' \in Nat /\ WithinLimits'
  BY <1>1, TakenIs
<1>3. OperationCharge = 0
  BY <1>1 DEF OperationCharge
<1>4. /\ Min(Ahead) \in Nat /\ Min(Ahead) > read
      /\ Len(Raw) \in Nat
      /\ {i \in 1..Min(Ahead) : IsSelected(timeline[i])} = Selected \cup {Min(Ahead)}
      /\ Min(Ahead) \notin Selected
      /\ IsFiniteSet(Selected)
  BY <1>1, CurrentIs DEF CompileInv, Placed
<1>5. IsRemark(remark) /\ remark.index = Min(Ahead)
      /\ MetadataStorage(remark) = Len(Raw) + MetadataBytes + Len(Text.text)
  <2>1. remark.raw = Raw /\ remark.text = Text.text /\ remark.index = Min(Ahead)
    OBVIOUS
  <2> HIDE DEF remark
  <2>2. Len(Text.text) \in Nat
    BY <1>2
  <2> QED
    BY <1>4, <2>1, <2>2 DEF IsRemark, MetadataStorage, Charged
<1> HIDE DEF remark
<1>6. /\ IsSequence(metadata) /\ DOMAIN metadata = 1..Len(metadata) /\ Len(metadata) \in Nat
      /\ IsSequence(metadata') /\ DOMAIN metadata' = 1..Len(metadata) + 1
      /\ Len(metadata') = Len(metadata) + 1
      /\ \A i \in 1..Len(metadata) : metadata'[i] = metadata[i]
      /\ metadata'[Len(metadata) + 1] = remark
  BY <1>1, AppendIs, SequenceShape DEF TextInv
<1>7. \A i \in 1..Len(metadata') : IsRemark(metadata'[i])
  <2> SUFFICES ASSUME NEW i \in 1..Len(metadata') PROVE IsRemark(metadata'[i])
    OBVIOUS
  <2>1. i \in 1..Len(metadata) \/ i = Len(metadata) + 1
    BY <1>6
  <2> QED
    BY <1>5, <1>6, <2>1 DEF TextInv
<1>8. Selected' = Selected \cup {Min(Ahead)}
  <2>1. Selected' = {i \in 1..read' : IsSelected(timeline[i])'}
    BY DEF Selected
  <2>2. \A i : IsSelected(timeline[i])' <=> IsSelected(timeline[i])
    BY <1>1 DEF IsSelected
  <2> QED
    BY <1>1, <1>4, <2>1, <2>2
<1>9. Recorded'
  <2>1. {metadata'[i].index : i \in DOMAIN metadata'}
           = {metadata[i].index : i \in DOMAIN metadata} \cup {Min(Ahead)}
    BY <1>5, <1>6
  <2>2. Cardinality(Selected') = Cardinality(Selected) + 1
    BY <1>4, <1>8, FS_AddElement
  <2>3. Len(cues) \in Nat /\ Cardinality(Selected) \in Nat
    BY <1>4, FS_CardinalityType, SequenceShape DEF CueInv
  <2>4. Len(cues) + Len(metadata) = Cardinality(Selected)
        /\ {cues[i].index : i \in DOMAIN cues} \cup {metadata[i].index : i \in DOMAIN metadata}
              = Selected
    BY DEF TextInv, Recorded
  <2>5. Len(cues') + Len(metadata') = Cardinality(Selected')
    BY <1>1, <1>6, <2>2, <2>3, <2>4
  <2>6. {cues'[i].index : i \in DOMAIN cues'} \cup {metadata'[i].index : i \in DOMAIN metadata'}
           = Selected'
    BY <1>1, <1>8, <2>1, <2>4
  <2> QED
    BY <2>5, <2>6 DEF Recorded
<1> DEFINE rest == IF title = None THEN 0 ELSE Len(title)
           after == IF title' = None THEN 0 ELSE Len(title')
<1>10. /\ after \in Nat /\ rest \in Nat /\ after = rest + TitleBytes
       /\ title' # None => Len(title') \in Nat
  <2>1. title # None => Len(title) \in Nat
    BY DEF TextInv, Stored
  <2>2. CASE TakesTitle
    <3> DEFINE t == Text.text
               cut == SubSeq(t, 3, Len(t))
    <3>1. title = None /\ Len(t) > 2 /\ TitleBytes = Len(t) - 2 /\ title' = cut
      BY <1>1, <2>2 DEF TakesTitle, IsTitle, TitleBytes
    <3>2. t \in Seq(Nat) /\ Len(t) \in Nat
      BY <1>2
    <3> HIDE DEF t
    <3>3. cut \in Seq(Nat) /\ Len(cut) = Len(t) - 2
      BY <3>1, <3>2
    <3> HIDE DEF cut
    <3>4. title' # None
      BY <3>1, <3>3, NoneAssumption
    <3> QED
      BY <1>2, <3>1, <3>2, <3>3, <3>4
  <2>3. CASE ~TakesTitle
    <3>1. title' = title /\ TitleBytes = 0
      BY <1>1, <2>3 DEF TitleBytes
    <3>2. rest \in Nat /\ after = rest
      BY <2>1, <3>1
    <3> HIDE DEF rest, after
    <3> QED
      BY <2>1, <3>1, <3>2
  <2> QED
    BY <2>2, <2>3
<1>11. Stored'
  <2>1. MetadataTotal(metadata) \in Nat
        /\ MetadataTotal(metadata') = MetadataTotal(metadata) + MetadataStorage(remark)
    BY <1>1, <1>5, <1>6, MetadataTotalGrows DEF TextInv
  <2>2. CueTotal(cues) \in Nat
    <3>1. IsTotal(CueTotal(cues), CueCosts(cues), Len(cues)) /\ Len(cues) \in Nat
      BY CueTotalIs, SequenceShape DEF TextInv, CueInv
    <3> QED
      BY <3>1 DEF IsTotal
  <2> DEFINE p == CueTotal(cues)
             q == MetadataTotal(metadata)
             m == MetadataStorage(remark)
             n == Len(Text.text)
             r == Len(Raw)
  <2>3. stagedBytes \in Nat /\ stagedBytes = p + q + rest
    BY DEF TextInv, Stored
  <2>4. n \in Nat /\ r \in Nat /\ MetadataBytes \in Nat /\ m = r + MetadataBytes + n
    BY <1>2, <1>4, <1>5, OptionsAssumption
  <2>5. stagedBytes' = stagedBytes + r + MetadataBytes + n + TitleBytes + 0
    BY <1>2, <1>3
  <2>6. p \in Nat /\ q \in Nat /\ MetadataTotal(metadata') = q + m /\ CueTotal(cues') = p
    BY <1>1, <2>1, <2>2
  <2>7. CueTotal(cues)' = CueTotal(cues') /\ MetadataTotal(metadata)' = MetadataTotal(metadata')
    OBVIOUS
  <2> HIDE DEF rest, after, p, q, m, n, r
  <2> DEFINE u == stagedBytes'
  <2>7a. /\ rest \in Nat /\ after = rest + TitleBytes /\ TitleBytes \in Nat
         /\ u = stagedBytes + r + MetadataBytes + n + TitleBytes + 0
    <3>1. rest \in Nat /\ after = rest + TitleBytes
      BY <1>10
    <3>2. TitleBytes \in Nat
      BY <1>2
    <3>3. u = stagedBytes + r + MetadataBytes + n + TitleBytes + 0
      BY <2>5
    <3> QED
      BY <3>1, <3>2, <3>3
  <2> HIDE DEF u
  <2>7b. u \in Nat /\ u = p + (q + m) + after
    BY <2>3, <2>4, <2>6, <2>7a
  <2>8. stagedBytes' \in Nat /\ stagedBytes' = p + (q + m) + after
    BY <2>7b DEF u
  <2>9. stagedBytes' \in Nat /\ stagedBytes' = CueTotal(cues)' + MetadataTotal(metadata)' + after
    BY <2>6, <2>7, <2>8
  <2> QED
    BY <1>2, <1>10, <2>9 DEF Stored, after
<1>12. (\A i \in 1..Len(cues) : IsCue(cues[i]))'
  BY <1>1, ProfileTiles DEF TextInv
<1>13. IsSequence(metadata)' /\ (\A i \in 1..Len(metadata) : IsRemark(metadata[i]))'
  BY <1>6, <1>7
<1> QED
  BY <1>1, <1>2, <1>9, <1>11, <1>12, <1>13 DEF TextInv, Unextracted

\* Steps that leave what was recorded.
LEMMA TextStays ==
    ASSUME TextInv, UNCHANGED <<cues, metadata, title, read, stagedBytes, sourceBytes>>,
           \/ extraction = "none" /\ cues = <<>> /\ read = 0
           \/ UNCHANGED <<timeline, profile, lyricTrack>>,
           Unextracted', WithinLimits'
    PROVE  TextInv'
<1>1. Selected' = Selected
  <2>1. Selected' = {i \in 1..read' : IsSelected(timeline[i])'}
    BY DEF Selected
  <2>2. CASE read = 0
    BY <2>1, <2>2 DEF Selected
  <2>3. CASE UNCHANGED <<timeline, profile, lyricTrack>>
    <3>1. \A i : IsSelected(timeline[i])' <=> IsSelected(timeline[i])
      BY <2>3 DEF IsSelected
    <3> QED
      BY <2>1, <3>1 DEF Selected
  <2> QED
    BY <2>2, <2>3
<1>2. Recorded'
  BY <1>1 DEF TextInv, Recorded
<1>3. Stored'
  <2>1. CueTotal(cues)' = CueTotal(cues') /\ MetadataTotal(metadata)' = MetadataTotal(metadata')
    OBVIOUS
  <2>2. CueTotal(cues)' = CueTotal(cues) /\ MetadataTotal(metadata)' = MetadataTotal(metadata)
    BY <2>1
  <2> QED
    BY <2>2 DEF TextInv, Stored
<1>4. (\A i \in 1..Len(cues) : IsCue(cues[i]))'
  <2>1. CASE cues = <<>>
    <3>1. Len(cues') = 0
      BY <2>1, NoEvents
    <3> QED
      BY <3>1
  <2>2. CASE profile' = profile
    BY <2>2, ProfileTiles DEF TextInv
  <2> QED
    BY <2>1, <2>2
<1>5. IsSequence(metadata)' /\ (\A i \in 1..Len(metadata) : IsRemark(metadata[i]))'
  BY DEF TextInv
<1> QED
  BY <1>2, <1>3, <1>4, <1>5 DEF TextInv

LEMMA SelectKeeps ==
    ASSUME CueInv, TextInv, CompileInv, NEW o \in Options(file), Select(o)
    PROVE  TextInv'
<1>1. /\ extraction = "none" /\ options' = o /\ file' = file
      /\ UNCHANGED <<cues, metadata, title, read, stagedBytes, sourceBytes>>
      /\ extraction' # "none"
  BY DEF Select, compileVars, readVars
<1>2. cues = <<>> /\ read = 0 /\ stagedBytes = 0 /\ sourceBytes = 0
  BY <1>1 DEF TextInv, Unextracted
<1>3. o.stagedBytes \in Nat /\ o.sourceBytes \in Nat
  BY OptionsAssumption DEF CompileInv, ReadInv
<1>4. WithinLimits'
  BY <1>1, <1>2, <1>3 DEF WithinLimits
<1>5. Unextracted'
  BY <1>1 DEF Unextracted
<1> QED
  BY <1>1, <1>2, <1>4, <1>5, TextStays

LEMMA TextInvStep ==
    ASSUME TextInv, CueInv, CompileInv, TimelineBytes, [SongNext]_songVars
    PROVE  TextInv'
<1>1. CASE CompileNext /\ UNCHANGED lyricVars
  <2>1. stage # "compiled"
    BY <1>1 DEF CompileNext, ReadNext, ReadHeader, ReadTrack, ParseEnds, ParseFails, ParseFault,
                DecodeEvent, DecodeEnd, DecodeFails, Merge, Compile, TimeOverflow, Compiled
  <2>2. /\ extraction = "none" /\ extraction' = "none"
        /\ UNCHANGED <<cues, metadata, title, read, stagedBytes, sourceBytes>>
    BY <1>1, <2>1 DEF CueInv, lyricVars
  <2>3. Unextracted' /\ WithinLimits' /\ read = 0 /\ cues = <<>>
    BY <2>2 DEF TextInv, Unextracted, WithinLimits
  <2> QED
    BY <2>2, <2>3, TextStays
<1>2. ASSUME UNCHANGED compileVars, extraction # "none" \/ extraction' = extraction,
             extraction' = "none" => extraction = "none",
             UNCHANGED <<options, profile, lyricTrack, read, sourceBytes, stagedBytes, cues,
                         metadata, title>>
      PROVE  TextInv'
  <2>1. file' = file /\ timeline' = timeline
    BY <1>2 DEF compileVars, readVars, scheduleVars
  <2>2. Unextracted' /\ WithinLimits'
    BY <1>2, <2>1 DEF TextInv, Unextracted, WithinLimits
  <2> QED
    BY <1>2, <2>1, <2>2, TextStays
<1>3. CASE LyricNext
  <2>1. CASE TakeCue
    BY <2>1, TakeCueKeeps
  <2>2. CASE TakeMetadata
    BY <2>2, TakeMetadataKeeps
  <2>3. CASE ExtractionFails
    <3>1. EventError \in {"none", "LimitExceeded", Text.fault.code} /\ extraction' = EventError
      BY <2>3 DEF ExtractionFails, EventError
    <3> QED
      BY <1>2, <2>3 DEF ExtractionFails
  <2>4. CASE Extracted
    BY <1>2, <2>4 DEF Extracted
  <2> QED
    BY <1>3, <2>1, <2>2, <2>3, <2>4, SelectKeeps DEF LyricNext
<1>4. ASSUME UNCHANGED compileVars, UNCHANGED lyricVars PROVE TextInv'
  BY <1>2, <1>4 DEF lyricVars
<1>5. CASE PlaySong
  <2>1. UNCHANGED compileVars /\ UNCHANGED lyricVars
    BY <1>5 DEF PlaySong, Session, Prepare, PrepareFails, Play, Pause, CompleteReleaseTail, Stop,
                Render, RenderFails, Reset, clockVars
  <2> QED
    BY <1>4, <2>1
<1>6. CASE ShowLyrics \/ Advance \/ ClearLyrics
  BY <1>4, <1>6 DEF ShowLyrics, Advance, ClearLyrics, vars
<1>7. CASE UNCHANGED songVars
  BY <1>4, <1>7 DEF songVars, vars
<1> QED
  BY <1>1, <1>3, <1>5, <1>6, <1>7 DEF SongNext

\* Through limits reached at any point, every selected event so far became one
\* cue or one piece of metadata, a cue's operations are its text, and the storage
\* charged is the storage kept: for every file, configuration and record size.
THEOREM LyricsCarryTheText == SongSpec => []LyricsAreTheText
<1>1. ASSUME TextInv, CueInv, DeliveryInv, InOrder PROVE LyricsAreTheText
  <2>1. DOMAIN cues = 1..Len(cues) /\ CuesInOrder
    BY <1>1, SequenceShape, OrderOfCues DEF CueInv, DeliveryInv
  <2>2. \A i \in DOMAIN cues : Tiles(cues[i].text, cues[i].operations)
    BY <1>1, <2>1 DEF TextInv, IsCue
  <2>3. \A i, j \in DOMAIN cues :
           i < j => cues[i].index < cues[j].index /\ cues[i].time <= cues[j].time
    BY <1>1, <2>1 DEF CueInv, CuesInOrder
  <2>4. stagedBytes = CueTotal(cues) + MetadataTotal(metadata)
                         + (IF title = None THEN 0 ELSE Len(title))
    BY <1>1 DEF TextInv, Stored
  <2>5. /\ {cues[i].index : i \in DOMAIN cues} \cup {metadata[i].index : i \in DOMAIN metadata}
              = {i \in 1..read : IsSelected(timeline[i])}
        /\ Len(cues) + Len(metadata) = Cardinality({i \in 1..read : IsSelected(timeline[i])})
    BY <1>1 DEF TextInv, Recorded, Selected
  <2>6. extraction # "none" =>
           stagedBytes <= options.stagedBytes /\ sourceBytes <= options.sourceBytes
    BY <1>1 DEF TextInv, WithinLimits
  <2> QED
    BY <2>2, <2>3, <2>4, <2>5, <2>6 DEF LyricsAreTheText, CueTotal, MetadataTotal
<1>2. SongInit => CueInv /\ TimelineBytes
  <2> SUFFICES ASSUME SongInit PROVE CueInv /\ TimelineBytes
    OBVIOUS
  <2>1. cues = <<>> /\ read = 0 /\ extraction = "none" /\ timeline = <<>>
    BY DEF SongInit, LyricInit, Init, CompileInit
  <2>2. IsSequence(<<>>) /\ Len(<<>>) = 0
    BY NoEvents
  <2> QED
    BY <2>1, <2>2 DEF CueInv, TimelineBytes
<1>3. CueInv /\ DeliveryInv /\ [SongNext]_songVars => CueInv'
  BY CueStep
<1>4. TimelineBytes /\ CompileInv /\ [SongNext]_songVars => TimelineBytes'
  BY SongStep, SessionCompiles, TimelineBytesStep
<1>5. TextInv /\ CueInv /\ CompileInv /\ TimelineBytes /\ [SongNext]_songVars => TextInv'
  BY TextInvStep
<1> QED
  BY <1>1, <1>2, <1>3, <1>4, <1>5, TextInit, SongIsSession, CompileInvariant, TimelineInOrder,
     DeliveryInvariant, PTL DEF SongSpec
=============================================================================
