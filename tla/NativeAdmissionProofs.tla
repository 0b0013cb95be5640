------------------------- MODULE NativeAdmissionProofs -------------------------
(***************************************************************************)
(* Proofs about NativeAdmission, for any directories, names, paths and     *)
(* roots, and any moves by other programs.  The invariant has four parts:  *)
(* the directories stay a tree, which is what makes a climb meet all that  *)
(* contains the store (Tree); guards, their roots and the owner agree,     *)
(* also while a mutation is staged (Agreement); guards are apart from each *)
(* other and from the store (Separation); and what a fence has established *)
(* so far still holds if nothing moved since it began (Fenced, Published). *)
(***************************************************************************)
EXTENDS NativeAdmission, SequenceTheorems, FiniteSetTheorems, NaturalsInduction,
        WellFoundedInduction, TLAPS

-----------------------------------------------------------------------------
(* The directory tree.                                                     *)

\* The path of d in a tree whose paths are w.
Step(p, w, d) == Append(IF p[d].up = Top THEN <<>> ELSE w[p[d].up], p[d].name)

Placement == [Dirs -> [up : Dirs \cup {Top}, name : Names]]
PathsOf(p, w) == w \in [Dirs -> Seq(Names)] /\ \A d \in Dirs : w[d] = Step(p, w, d)

LEMMA LeastNumber ==
    ASSUME NEW T, T \subseteq Nat, T # {}
    PROVE  \E x \in T : \A y \in T : x <= y
<1>1. PICK x \in T : \A y \in T : <<y, x>> \notin OpToRel(<, Nat)
  BY WFMin, NatLessThanWellFounded
<1>2. ASSUME NEW y \in T PROVE x <= y
  <2>1. ~ y < x
    BY <1>1 DEF OpToRel
  <2> QED
    BY <2>1
<1> QED
  BY <1>2

\* A tree has one path for every directory.
LEMMA OnePath ==
    ASSUME NEW p \in Placement, NEW w, PathsOf(p, w), NEW f,
           f = [d \in Dirs |-> Step(p, f, d)]
    PROVE  f = w
<1>1. \A d \in Dirs : p[d].up \in Dirs \cup {Top} /\ p[d].name \in Names
  BY DEF Placement
<1>2. \A d \in Dirs : Len(w[d]) \in Nat /\ w[d] = Step(p, w, d)
  BY DEF PathsOf
<1> DEFINE T == {Len(w[d]) : d \in {e \in Dirs : f[e] # w[e]}}
<1>3. ASSUME T # {} PROVE FALSE
  <2>1. T \subseteq Nat
    BY <1>2
  <2>2. PICK x \in T : \A y \in T : x <= y
    BY <1>3, <2>1, LeastNumber
  <2>3. PICK d \in Dirs : f[d] # w[d] /\ x = Len(w[d])
    BY <2>2
  <2>4. f[d] = Step(p, f, d) /\ w[d] = Step(p, w, d)
    BY <1>2, <2>3
  <2>5. p[d].up \in Dirs /\ p[d].up # Top /\ f[p[d].up] # w[p[d].up]
    BY <1>1, <2>3, <2>4 DEF Step
  <2>6. Len(w[p[d].up]) \in T
    BY <2>5
  <2>7. w[d] = Append(w[p[d].up], p[d].name) /\ w[p[d].up] \in Seq(Names) /\ p[d].name \in Names
    BY <1>1, <2>4, <2>5 DEF Step, PathsOf
  <2>8. Len(w[d]) = Len(w[p[d].up]) + 1
    BY <2>7
  <2>9. x <= Len(w[p[d].up])
    BY <2>2, <2>6
  <2> QED
    BY <2>3, <2>8, <2>9, <2>1, <2>6
<1>4. \A d \in Dirs : f[d] = w[d]
  BY <1>3
<1> QED
  BY <1>4 DEF PathsOf

PathsIn(p) == CHOOSE f : f = [d \in Dirs |-> Step(p, f, d)]

LEMMA PathsAre ==
    ASSUME NEW p \in Placement, NEW w, PathsOf(p, w)
    PROVE  PathsIn(p) = w
<1> DEFINE IsPath(f) == f = [d \in Dirs |-> Step(p, f, d)]
<1>1. PathsIn(p) = CHOOSE f : IsPath(f)
  BY DEF PathsIn
<1>2. IsPath(w)
  BY DEF PathsOf
<1>3. IsPath(PathsIn(p))
  BY <1>1, <1>2
<1> QED
  BY <1>3, OnePath

LEMMA PathOfIs == PathOf = PathsIn(place) /\ PathOf' = PathsIn(place')
  BY DEF PathOf, PathsIn, Step

Tree ==
    /\ place \in Placement
    /\ \A d, e \in Dirs : place[d] = place[e] => d = e
    /\ PathsOf(place, PathOf)

LEMMA TreeParts ==
    ASSUME Tree, NEW d \in Dirs
    PROVE  /\ PathOf[d] \in Seq(Names) /\ PathOf[d] # <<>> /\ place[d].name \in Names
           /\ place[d] = [up |-> place[d].up, name |-> place[d].name]
           /\ Len(PathOf[d]) \in Nat
           /\ \/ place[d].up = Top /\ PathOf[d] = <<place[d].name>> /\ Len(PathOf[d]) = 1
              \/ /\ place[d].up \in Dirs /\ place[d].up # Top
                 /\ PathOf[place[d].up] \in Seq(Names)
                 /\ PathOf[d] = Append(PathOf[place[d].up], place[d].name)
                 /\ Len(PathOf[d]) = Len(PathOf[place[d].up]) + 1
<1>1. place[d] \in [up : Dirs \cup {Top}, name : Names]
  BY DEF Tree, Placement
<1>2. PathOf[d] \in Seq(Names) /\ PathOf[d] = Step(place, PathOf, d)
  BY DEF Tree, PathsOf
<1>3. CASE place[d].up = Top
  BY <1>1, <1>2, <1>3 DEF Step
<1>4. CASE place[d].up # Top
  <2>1. place[d].up \in Dirs /\ PathOf[place[d].up] \in Seq(Names)
    BY <1>1, <1>4 DEF Tree, PathsOf
  <2> QED
    BY <1>1, <1>2, <1>4, <2>1 DEF Step
<1> QED
  BY <1>3, <1>4

LEMMA Nonempty ==
    ASSUME Tree, NEW d \in Dirs
    PROVE  /\ PathOf[d] \in Seq(Names) /\ Len(PathOf[d]) \in Nat /\ Len(PathOf[d]) >= 1
           /\ place[d].name \in Names
<1>1. PathOf[d] \in Seq(Names) /\ PathOf[d] # <<>> /\ place[d].name \in Names
  BY TreeParts
<1> QED
  BY <1>1, EmptySeq

\* No two directories are at one path.
LEMMA PathsDiffer ==
    ASSUME Tree, NEW d \in Dirs, NEW e \in Dirs, PathOf[d] = PathOf[e]
    PROVE  d = e
<1> DEFINE Twins == {x \in Dirs : \E y \in Dirs : y # x /\ PathOf[x] = PathOf[y]}
           T == {Len(PathOf[x]) : x \in Twins}
<1>1. ASSUME T # {} PROVE FALSE
  <2>1. T \subseteq Nat
    BY TreeParts
  <2>2. PICK n \in T : \A k \in T : n <= k
    BY <1>1, <2>1, LeastNumber
  <2>3. PICK x \in Dirs, y \in Dirs : y # x /\ PathOf[x] = PathOf[y] /\ n = Len(PathOf[x])
    BY <2>2
  <2>4. place[x] # place[y]
    BY <2>3 DEF Tree
  <2>5. ASSUME place[x].up = Top, place[y].up # Top PROVE FALSE
    <3>1. Len(PathOf[x]) = 1
      BY <2>5, TreeParts, DirsAssumption
    <3>2. Len(PathOf[y]) = Len(PathOf[place[y].up]) + 1 /\ place[y].up \in Dirs
      BY <2>5, TreeParts
    <3>3. Len(PathOf[place[y].up]) \in Nat /\ Len(PathOf[place[y].up]) >= 1
      BY <3>2, Nonempty
    <3>4. 1 = Len(PathOf[place[y].up]) + 1
      <4>1. PathOf[x] = PathOf[y]
        BY <2>3
      <4> QED
        BY ONLY <3>1, <3>2, <4>1
    <3> QED
      BY ONLY <3>3, <3>4
  <2>6. ASSUME place[y].up = Top, place[x].up # Top PROVE FALSE
    <3>1. Len(PathOf[y]) = 1
      BY <2>6, TreeParts, DirsAssumption
    <3>2. Len(PathOf[x]) = Len(PathOf[place[x].up]) + 1 /\ place[x].up \in Dirs
      BY <2>6, TreeParts
    <3>3. Len(PathOf[place[x].up]) \in Nat /\ Len(PathOf[place[x].up]) >= 1
      BY <3>2, Nonempty
    <3>4. 1 = Len(PathOf[place[x].up]) + 1
      <4>1. PathOf[x] = PathOf[y]
        BY <2>3
      <4> QED
        BY ONLY <3>1, <3>2, <4>1
    <3> QED
      BY ONLY <3>3, <3>4
  <2>7. ASSUME place[y].up = Top, place[x].up = Top PROVE FALSE
    <3>1. PathOf[x] = <<place[x].name>> /\ PathOf[y] = <<place[y].name>>
      BY <2>7, TreeParts, DirsAssumption
    <3>2. place[x].name = place[y].name
      <4>1. PathOf[x][1] = place[x].name /\ PathOf[y][1] = place[y].name
        BY <3>1
      <4> QED
        BY <2>3, <4>1
    <3>3. place[x] = [up |-> place[x].up, name |-> place[x].name]
          /\ place[y] = [up |-> place[y].up, name |-> place[y].name]
      BY TreeParts
    <3> QED
      BY <2>4, <2>7, <3>2, <3>3
  <2>8. ASSUME place[y].up # Top, place[x].up # Top PROVE FALSE
    <3>1. /\ place[x].up \in Dirs /\ place[y].up \in Dirs
          /\ PathOf[x] = Append(PathOf[place[x].up], place[x].name)
          /\ PathOf[y] = Append(PathOf[place[y].up], place[y].name)
          /\ Len(PathOf[x]) = Len(PathOf[place[x].up]) + 1
      BY <2>8, TreeParts
    <3>2. PathOf[place[x].up] = PathOf[place[y].up] /\ place[x].name = place[y].name
      <4> DEFINE s == PathOf[place[x].up]  t == PathOf[place[y].up]
                 m == place[x].name        k == place[y].name
      <4>1. Append(s, m) = Append(t, k)
        BY <2>3, <3>1
      <4>2. s \in Seq(Names) /\ m \in Names /\ t \in Seq(Names) /\ k \in Names
        BY <3>1, Nonempty
      <4> HIDE DEF s, t, m, k
      <4>3. s = t /\ m = k
        BY <4>1, <4>2, AppendInjective
      <4> QED
        BY <4>3 DEF s, t, m, k
    <3>3. place[x].up # place[y].up
      BY <2>4, <3>2, TreeParts
    <3>4. Len(PathOf[place[x].up]) \in T
      BY <3>1, <3>2, <3>3
    <3> QED
      <4>1. n <= Len(PathOf[place[x].up])
        BY <2>2, <3>4
      <4>2. Len(PathOf[place[x].up]) \in Nat
        BY <3>1, Nonempty
      <4> QED
        BY <2>3, <3>1, <4>1, <4>2
  <2> QED
    BY <2>5, <2>6, <2>7, <2>8
<1>2. Twins = {}
  BY <1>1
<1> QED
  BY <1>2

LEMMA EnclosesIs ==
    ASSUME NEW p \in Seq(Names), NEW q \in Seq(Names)
    PROVE  Encloses(p, q) <=> Len(p) <= Len(q) /\ \A i \in 1..Len(p) : p[i] = q[i]
<1>1. SubSeq(p, 1, Len(p)) = p
  BY SubSeqFull
<1>2. CASE Len(p) <= Len(q)
  <2>1. /\ SubSeq(q, 1, Len(p)) \in Seq(Names) /\ Len(SubSeq(q, 1, Len(p))) = Len(p)
        /\ \A i \in 1..Len(p) : SubSeq(q, 1, Len(p))[i] = q[i]
    BY <1>2, LenProperties
  <2>2. p = SubSeq(q, 1, Len(p)) <=> \A i \in 1..Len(p) : p[i] = q[i]
    <3>1. ASSUME \A i \in 1..Len(p) : p[i] = q[i] PROVE p = SubSeq(q, 1, Len(p))
      BY <2>1, <3>1, SeqEqual
    <3>2. ASSUME p = SubSeq(q, 1, Len(p)) PROVE \A i \in 1..Len(p) : p[i] = q[i]
      BY <2>1, <3>2
    <3> QED
      BY <3>1, <3>2
  <2> QED
    BY <1>1, <1>2, <2>2 DEF Encloses, IsPrefix
<1>3. CASE ~(Len(p) <= Len(q))
  BY <1>3 DEF Encloses, IsPrefix
<1> QED
  BY <1>2, <1>3

\* What contains a directory is the directory, or contains its parent.
LEMMA AboveUp ==
    ASSUME Tree, NEW d \in Dirs, NEW e \in Dirs
    PROVE  e \in Above(d) <=> (e = d \/ (place[d].up # Top /\ e \in Above(place[d].up)))
<1>1. /\ PathOf[e] \in Seq(Names) /\ PathOf[d] \in Seq(Names)
      /\ Len(PathOf[e]) \in Nat /\ Len(PathOf[e]) >= 1
  BY Nonempty
<1>4. d \in Above(d)
  BY <1>1, EnclosesIs DEF Above
<1>2. CASE place[d].up = Top
  <2>1. PathOf[d] = <<place[d].name>>
    BY <1>2, TreeParts, DirsAssumption
  <2>2. e \in Above(d) <=> Len(PathOf[e]) <= 1 /\ \A i \in 1..Len(PathOf[e]) : PathOf[e][i] = PathOf[d][i]
    BY <1>1, <2>1, EnclosesIs DEF Above
  <2>3. ASSUME e \in Above(d) PROVE PathOf[e] = PathOf[d]
    <3>1. Len(PathOf[e]) = 1 /\ Len(PathOf[d]) = 1
      BY <1>1, <2>1, <2>2, <2>3
    <3> QED
      BY <1>1, <2>2, <2>3, <3>1, SeqEqual
  <2>4. e \in Above(d) => e = d
    BY <2>3, PathsDiffer
  <2> QED
    BY <1>2, <1>4, <2>4
<1>3. CASE place[d].up # Top
  <2> DEFINE up == place[d].up
  <2>1. /\ up \in Dirs /\ PathOf[d] = Append(PathOf[up], place[d].name)
        /\ Len(PathOf[d]) = Len(PathOf[up]) + 1 /\ Len(PathOf[up]) \in Nat
        /\ PathOf[up] \in Seq(Names) /\ PathOf[d] \in Seq(Names) /\ PathOf[e] \in Seq(Names)
    BY <1>3, TreeParts
  <2>2. \A i \in 1..Len(PathOf[up]) : PathOf[d][i] = PathOf[up][i]
    BY <2>1
  <2>3. e \in Above(d) <=> /\ Len(PathOf[e]) <= Len(PathOf[up]) + 1
                           /\ \A i \in 1..Len(PathOf[e]) : PathOf[e][i] = PathOf[d][i]
    BY <2>1, EnclosesIs DEF Above
  <2>4. e \in Above(up) <=> /\ Len(PathOf[e]) <= Len(PathOf[up])
                            /\ \A i \in 1..Len(PathOf[e]) : PathOf[e][i] = PathOf[up][i]
    BY <2>1, EnclosesIs DEF Above
  <2>5. Len(PathOf[e]) \in Nat
    BY <2>1
  <2>6. CASE Len(PathOf[e]) = Len(PathOf[up]) + 1
    <3>1. e \in Above(d) => PathOf[e] = PathOf[d]
      BY <2>1, <2>3, <2>6, SeqEqual
    <3>2. e \notin Above(up)
      BY <2>1, <2>4, <2>6
    <3>3. e \in Above(d) => e = d
      BY <3>1, PathsDiffer
    <3> QED
      BY <1>4, <3>2, <3>3
  <2>7. CASE Len(PathOf[e]) # Len(PathOf[up]) + 1
    <3>1. e # d
      BY <2>1, <2>7
    <3>2. e \in Above(d) <=> e \in Above(up)
      BY <2>1, <2>2, <2>3, <2>4, <2>5, <2>7
    <3> QED
      BY <1>3, <3>1, <3>2
  <2> QED
    BY <2>6, <2>7
<1> QED
  BY <1>2, <1>3

LEMMA Rebase ==
    ASSUME NEW h \in Seq(Names), NEW p \in Seq(Names), NEW k \in 0..Len(p), NEW n \in Names
    PROVE  h \o SubSeq(Append(p, n), k + 1, Len(p) + 1) = Append(h \o SubSeq(p, k + 1, Len(p)), n)
<1> DEFINE rest == SubSeq(p, k + 1, Len(p))
           more == SubSeq(Append(p, n), k + 1, Len(p) + 1)
<1>1. Append(p, n) \in Seq(Names) /\ Len(Append(p, n)) = Len(p) + 1 /\ Append(p, n)[Len(p) + 1] = n
      /\ \A i \in 1..Len(p) : Append(p, n)[i] = p[i]
  OBVIOUS
<1>2. rest \in Seq(Names) /\ Len(rest) = Len(p) - k /\ \A i \in 1..Len(p) - k : rest[i] = p[k + i]
  OBVIOUS
<1>3. more \in Seq(Names) /\ Len(more) = Len(p) - k + 1
      /\ \A i \in 1..Len(p) - k + 1 : more[i] = Append(p, n)[k + i]
  BY <1>1
<1>4. \A i \in 1..Len(p) - k : more[i] = rest[i]
  BY <1>1, <1>2, <1>3
<1>5. more[Len(p) - k + 1] = n
  BY <1>1, <1>3
<1> HIDE DEF rest, more
<1>6. more = Append(rest, n)
  <2>1. Append(rest, n) \in Seq(Names) /\ Len(Append(rest, n)) = Len(p) - k + 1
        /\ Append(rest, n)[Len(p) - k + 1] = n /\ \A i \in 1..Len(p) - k : Append(rest, n)[i] = rest[i]
    BY <1>2
  <2>2. \A i \in 1..Len(p) - k + 1 : more[i] = Append(rest, n)[i]
    <3>1. \A i \in 1..Len(p) - k + 1 : i \in 1..Len(p) - k \/ i = Len(p) - k + 1
      OBVIOUS
    <3> QED
      BY <1>4, <1>5, <2>1, <3>1
  <2> QED
    BY <1>3, <2>1, <2>2, SeqEqual
<1>7. h \o Append(rest, n) = Append(h \o rest, n)
  <2>1. \A s \in Seq(Names) : Append(s, n) = s \o <<n>>
    BY AppendIsConcat
  <2>2. <<n>> \in Seq(Names) /\ h \o rest \in Seq(Names)
    BY <1>2, ConcatProperties
  <2> QED
    BY <1>2, <2>1, <2>2, ConcatAssociative
<1> QED
  BY <1>6, <1>7 DEF rest, more

\* A move takes a directory along with everything in it.
LEMMA MoveKeepsTree ==
    ASSUME Tree, NEW d \in Dirs, NEW up \in Dirs \cup {Top}, NEW name \in Names, Move(d, up, name)
    PROVE  Tree'
<1> DEFINE new  == [place EXCEPT ![d] = [up |-> up, name |-> name]]
           head == Append(IF up = Top THEN <<>> ELSE PathOf[up], name)
           tail(e) == SubSeq(PathOf[e], Len(PathOf[d]) + 1, Len(PathOf[e]))
           w == [e \in Dirs |-> IF d \in Above(e) THEN head \o tail(e) ELSE PathOf[e]]
<1>1. place' = new /\ (up \in Dirs => d \notin Above(up))
      /\ \A e \in Dirs : place[e] # [up |-> up, name |-> name]
  BY DEF Move
<1>2. place \in Placement /\ \A e, f \in Dirs : place[e] = place[f] => e = f
  BY DEF Tree
<1>3. new \in Placement /\ \A e \in Dirs : new[e] = IF e = d THEN [up |-> up, name |-> name] ELSE place[e]
  BY <1>2 DEF Placement
<1>4. \A e, f \in Dirs : new[e] = new[f] => e = f
  BY <1>1, <1>2, <1>3
<1>5. \A e \in Dirs : PathOf[e] \in Seq(Names) /\ Len(PathOf[e]) \in Nat
  BY Nonempty
<1>6. head \in Seq(Names)
  BY <1>5
<1>7. ASSUME NEW e \in Dirs PROVE tail(e) \in Seq(Names)
  BY <1>5, SubSeqProperties
<1>8. w \in [Dirs -> Seq(Names)]
  BY <1>5, <1>6, <1>7, ConcatProperties
<1> HIDE DEF head, tail
<1>9. ASSUME NEW e \in Dirs, e = d PROVE w[e] = Step(new, w, e)
  <2>1. d \in Above(d)
    BY AboveUp
  <2>2. tail(d) = <<>>
    BY <1>5, SubSeqEmpty DEF tail
  <2>3. w[d] = head
    BY <1>6, <2>1, <2>2, ConcatEmptySeq
  <2>4. new[e].up = up /\ new[e].name = name
    BY <1>3, <1>9
  <2>5. up # Top => up \in Dirs /\ w[up] = PathOf[up]
    BY <1>1
  <2> QED
    BY <1>9, <2>3, <2>4, <2>5 DEF head, Step
<1>10. ASSUME NEW e \in Dirs, e # d, d \in Above(e) PROVE w[e] = Step(new, w, e)
  <2> DEFINE u == place[e].up
  <2>1. u # Top /\ d \in Above(u)
    BY <1>10, AboveUp
  <2>2. u \in Dirs /\ PathOf[e] = Append(PathOf[u], place[e].name) /\ PathOf[u] \in Seq(Names)
        /\ place[e].name \in Names /\ Len(PathOf[e]) = Len(PathOf[u]) + 1
    BY <2>1, TreeParts
  <2>3. Len(PathOf[d]) \in 0..Len(PathOf[u])
    <3>1. Encloses(PathOf[d], PathOf[u])
      BY <2>1 DEF Above
    <3> QED
      BY <1>5, <2>2, <3>1, EnclosesIs
  <2>4. new[e] = place[e]
    BY <1>3, <1>10
  <2>5. w[u] = head \o tail(u) /\ w[e] = head \o tail(e)
    BY <1>10, <2>1, <2>2
  <2>6. head \o tail(e) = Append(head \o tail(u), place[e].name)
    <3> DEFINE p == PathOf[u]  n == place[e].name  k == Len(PathOf[d])
    <3>1. tail(e) = SubSeq(Append(p, n), k + 1, Len(p) + 1) /\ tail(u) = SubSeq(p, k + 1, Len(p))
      BY <2>2 DEF tail
    <3>2. p \in Seq(Names) /\ n \in Names /\ k \in 0..Len(p)
      BY <2>2, <2>3
    <3> HIDE DEF p, n, k
    <3>3. head \o tail(e) = Append(head \o tail(u), n)
      BY <1>6, <3>1, <3>2, Rebase
    <3> QED
      BY <3>3 DEF n
  <2> QED
    BY <2>1, <2>4, <2>5, <2>6 DEF Step
<1>11. ASSUME NEW e \in Dirs, d \notin Above(e) PROVE w[e] = Step(new, w, e)
  <2>1. e # d
    BY <1>11, AboveUp
  <2>2. new[e] = place[e] /\ w[e] = PathOf[e]
    BY <1>3, <1>11, <2>1
  <2>3. PathOf[e] = Step(place, PathOf, e)
    BY DEF Tree, PathsOf
  <2>4. place[e].up # Top => place[e].up \in Dirs /\ d \notin Above(place[e].up)
    BY <1>11, AboveUp, TreeParts
  <2>5. place[e].up # Top => w[place[e].up] = PathOf[place[e].up]
    BY <2>4
  <2> QED
    BY <2>2, <2>3, <2>5 DEF Step
<1>12. PathsOf(new, w)
  BY <1>8, <1>9, <1>10, <1>11 DEF PathsOf
<1>13. PathsIn(new) = w
  BY <1>3, <1>12, PathsAre
<1> HIDE DEF new, w
<1>14. place' \in Placement /\ PathsOf(place', PathOf')
  BY <1>1, <1>3, <1>12, <1>13, PathOfIs
<1>15. \A e, f \in Dirs : place'[e] = place'[f] => e = f
  BY <1>1, <1>4
<1> QED
  BY <1>14, <1>15 DEF Tree

LEMMA TreeInit == Init => Tree
<1> SUFFICES ASSUME Init PROVE Tree
  OBVIOUS
<1>1. place = FirstPlace /\ place \in Placement /\ \A d, e \in Dirs : place[d] = place[e] => d = e
  BY FirstPlaceAssumption DEF Init, Placement
<1>2. PICK path \in [Dirs -> UNION {[1..n -> Names] : n \in 1..Cardinality(Dirs)}] :
          \A d \in Dirs : path[d] = Step(FirstPlace, path, d)
  BY FirstPlaceAssumption DEF Step
<1>3. path \in [Dirs -> Seq(Names)]
  <2>1. UNION {[1..n -> Names] : n \in 1..Cardinality(Dirs)} \subseteq Seq(Names)
    <3>1. \A n \in 1..Cardinality(Dirs) : n \in Nat
      OBVIOUS
    <3>2. \A n \in Nat : [1..n -> Names] \subseteq Seq(Names)
      OBVIOUS
    <3> QED
      BY <3>1, <3>2
  <2> QED
    BY <2>1
<1>4. PathsIn(place) = path
  BY <1>1, <1>2, <1>3, PathsAre DEF PathsOf
<1> QED
  BY <1>1, <1>2, <1>3, <1>4, PathOfIs DEF Tree, PathsOf

-----------------------------------------------------------------------------
(* Types.                                                                  *)

Rows == Seq(Paths \cup {Detached})
Pending == [target : RootIds \cup {NoRoot}, path : Paths \cup {<<>>}, retired : Nat,
            guards : Seq(Guard), ids : Seq(RootIds \cup {NoRoot}), roots : Rows]

\* The rows of live guards, whatever phase the service is in.
Types ==
    /\ service \in {"none", "Ready", "RecoveryRequired", "Closed"}
    /\ roots \in Rows
    /\ admission \in Seq(Guard)
    /\ ids \in Seq(RootIds) /\ Len(ids) = Len(admission)
    /\ phase \in Phases
    /\ phase # "idle" => service = "Ready"
    /\ at \in Nat
    /\ pos \in Dirs \cup {NoDir}
    /\ pending \in Pending

-----------------------------------------------------------------------------
(* Guards and owner agree.                                                 *)

\* Every attached root has one guard, under its own path.
Agree(guards, owners, rows) ==
    /\ Len(owners) = Len(guards)
    /\ \A i, j \in DOMAIN owners : owners[i] = owners[j] => i = j
    /\ ToSet(owners) = Attached(rows)
    /\ \A i \in DOMAIN owners : guards[i].path = rows[owners[i]]

InUse == {"Ready", "RecoveryRequired"}

LiveAgrees ==
    /\ service \in InUse => Agree(admission, ids, roots)
    /\ service \notin InUse => admission = <<>> /\ ids = <<>>

WithRequest == {"previous", "open", "stage", "own"}

\* What rootTransaction asked for: the row it retires is one of the root's own,
\* and is retired exactly when the root moves.
Request ==
    phase \in WithRequest =>
        /\ pending.path \in Paths
        /\ pending.target = NoRoot => Len(roots) + 1 \in RootIds
        /\ pending.target # NoRoot => pending.target \in DOMAIN roots
        /\ \/ /\ pending.retired = 0
              /\ \A i \in DOMAIN ids : ids[i] = pending.target => admission[i].path = pending.path
           \/ /\ pending.retired \in DOMAIN ids
              /\ ids[pending.retired] = pending.target
              /\ admission[pending.retired].path # pending.path

\* The staged rows: those kept, and the one opened for the mutation.
StagedRows ==
    phase \in {"stage", "own"} =>
        /\ pending.ids = StagedIds
        /\ Len(pending.guards) = Len(pending.ids)
        /\ \A i \in DOMAIN pending.guards :
              IF i \in DOMAIN admission /\ i # pending.retired THEN pending.guards[i] = admission[i]
              ELSE pending.guards[i].path = pending.path

\* A root that stays at its path stays with its directory.
Continues(guards, owners) ==
    \A i \in DOMAIN admission, j \in DOMAIN guards :
        ids[i] = owners[j] /\ admission[i].path = guards[j].path => admission[i].dir = guards[j].dir

\* What is about to be saved.
Agreed ==
    phase \in {"begin", "fence", "publish"} =>
        /\ pending.ids \in Seq(RootIds)
        /\ Agree(pending.guards, pending.ids, pending.roots)
        /\ Continues(pending.guards, pending.ids)
        /\ phase = "begin" => pending.guards = admission

Agreement == Types /\ LiveAgrees /\ Request /\ StagedRows /\ Agreed

LEMMA ToSetIs == ASSUME NEW S, NEW s \in Seq(S) PROVE ToSet(s) = {s[i] : i \in DOMAIN s}
  BY DEF ToSet

LEMMA EmptyAgree == ASSUME NEW rows, Attached(rows) = {} PROVE Agree(<<>>, <<>>, rows)
  BY DEF Agree, ToSet

LEMMA AgreementInit == Init => Agreement
<1> SUFFICES ASSUME Init PROVE Agreement
  OBVIOUS
<1>1. NoMutation \in Pending
  BY DEF NoMutation, Pending, Rows
<1> QED
  BY <1>1 DEF Init, Agreement, Types, LiveAgrees, Request, StagedRows, Agreed, InUse, WithRequest, Phases, Rows

LEMMA NoMutationType == NoMutation \in Pending
  BY DEF NoMutation, Pending, Rows

\* The steps that leave the guards and what is staged alone.
LEMMA FrameAgrees ==
    ASSUME Agreement, UNCHANGED <<live, phase, pending>>, at' \in Nat, pos' \in Dirs \cup {NoDir}
    PROVE  Agreement'
<1> USE DEF Agreement, live
<1>1. Types' /\ LiveAgrees'
  BY DEF Types, LiveAgrees
<1>2. Request'
  BY DEF Request
<1>3. StagedRows'
  BY DEF StagedRows, StagedIds, Opens
<1>4. Agreed'
  BY DEF Agreed, Continues
<1> QED
  BY <1>1, <1>2, <1>3, <1>4

\* The end of a call, with or without success.
LEMMA EndAgrees ==
    ASSUME Agreement, NEW state \in InUse, service = "Ready", EndCall(state)
    PROVE  Agreement'
<1>1. Types'
  BY NoMutationType DEF Agreement, Types, EndCall, Idle, InUse, Phases
<1>2. LiveAgrees'
  BY DEF Agreement, LiveAgrees, EndCall, InUse
<1> QED
  BY <1>1, <1>2 DEF Agreement, Request, StagedRows, Agreed, EndCall, Idle, WithRequest

LEMMA CheckAgrees ==
    ASSUME Agreement, Tree,
           Environment \/ Check \/ CheckPrevious
    PROVE  Agreement'
<1>1. CASE Environment \/ CheckRoot \/ StartClimb \/ CheckPrevious
  <2>1. UNCHANGED <<live, phase, pending>>
    BY <1>1 DEF Environment, Move, CheckRoot, StartClimb, CheckPrevious, live
  <2>2. at' \in Nat /\ pos' \in Dirs \cup {NoDir}
    <3>1. at \in Nat /\ pos \in Dirs \cup {NoDir} /\ Store \in Dirs
      BY DirsAssumption DEF Agreement, Types
    <3>2. \/ at' \in {at, at + 1} /\ pos' = pos
          \/ at' = 0 /\ pos' = Store
      BY <1>1 DEF Environment, Move, CheckRoot, StartClimb, CheckPrevious
    <3> QED
      BY <3>1, <3>2
  <2> QED
    BY <2>1, <2>2, FrameAgrees
<1>2. CASE Climb
  <2>1. place[pos].up \in Dirs
    BY <1>2 DEF Climb, Agreement, Types, Tree, Placement
  <2> QED
    BY <1>2, <2>1, FrameAgrees DEF Climb, Agreement, Types
<1>3. CASE Passed
  <2>1. /\ \/ phase = "begin" /\ phase' = "fence"
           \/ phase = "stage" /\ phase' = "own"
           \/ phase = "fence" /\ phase' = "publish"
        /\ at' = 1 /\ pos' = NoDir /\ UNCHANGED <<service, roots, admission, ids, pending>>
    BY <1>3 DEF Passed, Enter, Checking, live
  <2>2. Types' /\ LiveAgrees'
    BY <2>1 DEF Agreement, Types, LiveAgrees, Phases
  <2>3. Request'
    BY <2>1 DEF Agreement, Request, WithRequest
  <2>4. StagedRows'
    BY <2>1 DEF Agreement, StagedRows, StagedIds, Opens
  <2>5. Agreed'
    BY <2>1 DEF Agreement, Agreed, Continues
  <2> QED
    BY <2>2, <2>3, <2>4, <2>5 DEF Agreement
<1>4. CASE Distrust
  BY <1>4, EndAgrees DEF Distrust, CheckFails, Checking, InUse, Agreement, Types
<1> QED
  BY <1>1, <1>2, <1>3, <1>4 DEF Check

LEMMA StageRootAgrees ==
    ASSUME Agreement, NEW t \in RootIds \cup {NoRoot}, NEW p \in Paths, StageRoot(t, p)
    PROVE  Agreement'
<1> DEFINE row == {i \in DOMAIN ids : ids[i] = t /\ admission[i].path # p}
           e == IF row = {} THEN 0 ELSE CHOOSE i \in row : TRUE
<1>1. /\ pending' = [target |-> t, path |-> p, retired |-> e,
                     guards |-> <<>>, ids |-> <<>>, roots |-> <<>>]
      /\ UNCHANGED <<service, roots, admission, ids>>
      /\ service = "Ready" /\ phase' = "previous" /\ at' = 1 /\ pos' = NoDir
      /\ t # NoRoot => t \in DOMAIN roots
      /\ t = NoRoot => Len(roots) + 1 \in RootIds
  BY DEF StageRoot, NoMutation, Enter, live
<1>2. DOMAIN ids \subseteq Nat
  BY DEF Agreement, Types
<1>3. CASE row = {}
  <2>1. e = 0 /\ \A i \in DOMAIN ids : ids[i] = t => admission[i].path = p
    BY <1>3
  <2> QED
    BY <1>1, <2>1 DEF Agreement, Types, Pending, Rows, LiveAgrees, Request, StagedRows, Agreed, WithRequest, Phases
<1>4. CASE row # {}
  <2>1. e \in DOMAIN ids /\ ids[e] = t /\ admission[e].path # p
    BY <1>4
  <2> HIDE DEF e, row
  <2> QED
    BY <1>1, <1>2, <2>1 DEF Agreement, Types, Pending, Rows, LiveAgrees, Request, StagedRows, Agreed, WithRequest, Phases
<1> QED
  BY <1>3, <1>4

\* What OpenFresh stages.
LEMMA StagedIs ==
    ASSUME Agreement, phase = "open", Openable
    PROVE  /\ StagedGuards \in Seq(Guard) /\ StagedIds \in Seq(RootIds \cup {NoRoot})
           /\ Len(StagedGuards) = Len(StagedIds)
           /\ \A i \in DOMAIN StagedGuards :
                 IF i \in DOMAIN admission /\ i # pending.retired THEN StagedGuards[i] = admission[i]
                 ELSE StagedGuards[i].path = pending.path
<1> DEFINE fresh == [path |-> pending.path, dir |-> Walk(pending.path)]
           rows  == [i \in DOMAIN admission |->
                        IF i = pending.retired THEN fresh ELSE Kept(admission[i])]
<1>1. /\ admission \in Seq(Guard) /\ ids \in Seq(RootIds) /\ Len(ids) = Len(admission)
      /\ pending.path \in Paths /\ pending.retired \in Nat /\ pending.target \in RootIds \cup {NoRoot}
      /\ pending.retired # 0 => pending.retired \in DOMAIN ids
  BY DEF Agreement, Types, Pending, Request, WithRequest
<1>2. Opens => fresh \in Guard /\ fresh.path = pending.path
  <2>1. Walk(pending.path) # NoDir => Walk(pending.path) \in Dirs
    <3> DEFINE here == {d \in Dirs : PathOf[d] = pending.path}
    <3>1. Walk(pending.path) = IF here = {} THEN NoDir ELSE CHOOSE d \in here : TRUE
      BY DEF Walk
    <3>2. here # {} => (CHOOSE d \in here : TRUE) \in here
      OBVIOUS
    <3> QED
      BY <3>1, <3>2
  <2> QED
    BY <1>1, <2>1 DEF Openable, CanOpen, Guard
<1> HIDE DEF fresh
<1>3. pending.retired # 0 => Opens
  BY DEF Opens
<1>4. /\ rows \in Seq(Guard) /\ Len(rows) = Len(admission)
      /\ \A i \in DOMAIN rows : IF i # pending.retired THEN rows[i] = admission[i] ELSE rows[i] = fresh
  <2>1. \A i \in DOMAIN admission : i = pending.retired => Opens
    BY <1>1, <1>3
  <2>2. DOMAIN admission = 1..Len(admission) /\ Len(admission) \in Nat
    BY <1>1
  <2>3. rows \in [1..Len(admission) -> Guard]
    BY <1>1, <1>2, <2>1, <2>2 DEF Kept
  <2> QED
    BY <2>2, <2>3 DEF Kept
<1>5. StagedGuards = IF Opens /\ pending.retired = 0 THEN Append(rows, fresh) ELSE rows
  BY DEF StagedGuards, fresh
<1> HIDE DEF rows
<1>6. CASE Opens /\ pending.retired = 0
  <2>1. StagedGuards = Append(rows, fresh) /\ StagedIds = Append(ids, pending.target)
    BY <1>5, <1>6 DEF StagedIds
  <2> QED
    BY <1>1, <1>2, <1>4, <1>6, <2>1
<1>7. CASE ~(Opens /\ pending.retired = 0)
  <2>1. StagedGuards = rows /\ StagedIds = ids
    BY <1>5, <1>7 DEF StagedIds
  <2>2. \A i \in DOMAIN rows : i = pending.retired => Opens
    BY <1>1, <1>3, <1>4
  <2>3. ids \in Seq(RootIds \cup {NoRoot})
    BY <1>1
  <2> QED
    BY <1>1, <1>2, <1>4, <2>1, <2>2, <2>3
<1> QED
  BY <1>6, <1>7

LEMMA OpenFreshAgrees ==
    ASSUME Agreement, OpenFresh
    PROVE  Agreement'
<1> DEFINE g == StagedGuards  o == StagedIds
<1>1. /\ pending' = [target |-> pending.target, path |-> pending.path, retired |-> pending.retired,
                     guards |-> g, ids |-> o, roots |-> pending.roots]
      /\ UNCHANGED <<service, roots, admission, ids>>
      /\ phase = "open" /\ Openable /\ phase' = "stage" /\ at' = 1 /\ pos' = NoDir
  BY DEF OpenFresh, Enter, live, Agreement, Types, Pending
<1>2. /\ g \in Seq(Guard) /\ o \in Seq(RootIds \cup {NoRoot}) /\ Len(g) = Len(o)
      /\ \A i \in DOMAIN g :
            IF i \in DOMAIN admission /\ i # pending.retired THEN g[i] = admission[i]
            ELSE g[i].path = pending.path
  BY <1>1, StagedIs
<1>3. StagedIds' = o
  BY <1>1 DEF StagedIds, Opens
<1> HIDE DEF g, o
<1>4. Types' /\ LiveAgrees'
  BY <1>1, <1>2 DEF Agreement, Types, LiveAgrees, Pending, Phases
<1>5. Request'
  BY <1>1 DEF Agreement, Request, WithRequest
<1>6. StagedRows' /\ Agreed'
  BY <1>1, <1>2, <1>3 DEF Agreement, StagedRows, Agreed
<1> QED
  BY <1>4, <1>5, <1>6 DEF Agreement

-----------------------------------------------------------------------------
(* The association of guards with roots.                                   *)

\* The root the mutation attaches, and the root of every staged row.
NewRoot == IF pending.target = NoRoot THEN Len(roots) + 1 ELSE pending.target
RootOf(i) == IF i \in DOMAIN ids THEN ids[i] ELSE NewRoot

LEMMA OwnerRootsAre ==
    ASSUME Agreement, phase \in WithRequest
    PROVE  /\ OwnerRoots \in Rows
           /\ NewRoot \in RootIds
           /\ OwnerRoots[NewRoot] = pending.path
           /\ Attached(OwnerRoots) = Attached(roots) \cup {NewRoot}
           /\ \A r \in Attached(roots) : r # NewRoot => OwnerRoots[r] = roots[r]
           /\ pending.target = NoRoot => NewRoot \notin Attached(roots)
<1>1. /\ roots \in Rows /\ pending.path \in Paths /\ pending.path # Detached
      /\ pending.target = NoRoot => Len(roots) + 1 \in RootIds
      /\ pending.target # NoRoot => pending.target \in DOMAIN roots /\ pending.target \in RootIds
      /\ Len(roots) \in Nat /\ DOMAIN roots = 1..Len(roots)
  BY DirsAssumption DEF Agreement, Types, Request, Pending, Rows
<1>2. CASE pending.target = NoRoot
  <2>1. /\ OwnerRoots \in Rows /\ DOMAIN OwnerRoots = 1..Len(roots) + 1
        /\ OwnerRoots[Len(roots) + 1] = pending.path
        /\ \A r \in 1..Len(roots) : OwnerRoots[r] = roots[r]
    BY <1>1, <1>2 DEF OwnerRoots, Rows
  <2>2. Attached(OwnerRoots) = Attached(roots) \cup {Len(roots) + 1}
    BY <1>1, <2>1 DEF Attached
  <2>3. NewRoot = Len(roots) + 1
    BY <1>2 DEF NewRoot
  <2>4. Len(roots) + 1 \notin Attached(roots) /\ Attached(roots) \subseteq 1..Len(roots)
    BY <1>1 DEF Attached
  <2> QED
    BY <1>1, <1>2, <2>1, <2>2, <2>3, <2>4
<1>3. CASE pending.target # NoRoot
  <2>1. /\ OwnerRoots \in Rows /\ DOMAIN OwnerRoots = DOMAIN roots
        /\ OwnerRoots[pending.target] = pending.path
        /\ \A r \in DOMAIN roots : r # pending.target => OwnerRoots[r] = roots[r]
    BY <1>1, <1>3 DEF OwnerRoots, Rows
  <2>2. Attached(OwnerRoots) = Attached(roots) \cup {pending.target}
    BY <1>1, <1>3, <2>1 DEF Attached
  <2>3. NewRoot = pending.target
    BY <1>3 DEF NewRoot
  <2>4. Attached(roots) \subseteq DOMAIN roots
    BY DEF Attached
  <2> QED
    BY <1>1, <1>3, <2>1, <2>2, <2>3, <2>4
<1> QED
  BY <1>2, <1>3

\* The staged rows are the live ones and, unless the root was attached already,
\* one more.
LEMMA StagedRowsAre ==
    ASSUME Agreement, phase = "own"
    PROVE  /\ DOMAIN pending.guards = DOMAIN pending.ids
           /\ \A i \in DOMAIN ids : i \in DOMAIN pending.ids /\ pending.ids[i] = ids[i]
           /\ \/ pending.ids = ids /\ NewRoot \in ToSet(ids)
              \/ /\ DOMAIN pending.ids = DOMAIN ids \cup {Len(pending.guards)}
                 /\ Len(pending.guards) \notin DOMAIN ids
                 /\ pending.ids[Len(pending.guards)] = pending.target
                 /\ NewRoot \notin ToSet(ids) /\ pending.target \notin ToSet(ids)
<1>1. /\ ids \in Seq(RootIds) /\ pending.ids \in Seq(RootIds \cup {NoRoot})
      /\ pending.guards \in Seq(Guard) /\ Len(pending.guards) = Len(pending.ids)
      /\ pending.ids = StagedIds /\ pending.target \in RootIds \cup {NoRoot}
  BY DEF Agreement, Types, StagedRows, Pending
<1>2. DOMAIN pending.guards = DOMAIN pending.ids
  BY <1>1
<1>3. /\ Agree(admission, ids, roots)
      /\ \/ pending.retired = 0
         \/ pending.retired \in DOMAIN ids /\ ids[pending.retired] = pending.target
  BY DEF Agreement, Types, LiveAgrees, InUse, Request, WithRequest
<1>4. ToSet(ids) \subseteq RootIds /\ NoRoot \notin RootIds
  BY <1>1, DirsAssumption DEF ToSet
<1>5. CASE Opens /\ pending.retired = 0
  <2>1. pending.target \notin ToSet(ids) /\ pending.ids = Append(ids, pending.target)
    BY <1>1, <1>5 DEF Opens, StagedIds
  <2>2. NewRoot \notin ToSet(ids)
    BY <1>3, <2>1, OwnerRootsAre DEF NewRoot, Agree, WithRequest
  <2>3. /\ Len(pending.ids) = Len(ids) + 1 /\ DOMAIN ids = 1..Len(ids) /\ Len(ids) \in Nat
        /\ DOMAIN pending.ids = 1..Len(ids) + 1
        /\ \A i \in 1..Len(ids) : pending.ids[i] = ids[i]
        /\ pending.ids[Len(ids) + 1] = pending.target
    BY <1>1, <2>1
  <2>4. 1..Len(ids) + 1 = 1..Len(ids) \cup {Len(ids) + 1}
    BY <2>3
  <2>5. Len(pending.guards) = Len(ids) + 1
    BY <1>1, <2>3
  <2>6. /\ \A i \in DOMAIN ids : i \in DOMAIN pending.ids /\ pending.ids[i] = ids[i]
        /\ DOMAIN pending.ids = DOMAIN ids \cup {Len(ids) + 1} /\ Len(ids) + 1 \notin DOMAIN ids
    BY <2>3, <2>4
  <2> QED
    BY <1>2, <2>1, <2>2, <2>3, <2>5, <2>6
<1>6. CASE ~(Opens /\ pending.retired = 0)
  <2>1. pending.ids = ids
    BY <1>1, <1>6 DEF StagedIds
  <2>2. pending.target \in ToSet(ids)
    BY <1>3, <1>6 DEF Opens, ToSet
  <2>3. NewRoot = pending.target
    BY <1>4, <2>2 DEF NewRoot
  <2> QED
    BY <1>2, <2>1, <2>2, <2>3
<1> QED
  BY <1>5, <1>6

\* So IndexOf is the inverse of RootOf, whatever the order of the guards.
LEMMA Association ==
    ASSUME Agreement, phase = "own"
    PROVE  /\ \A i \in DOMAIN pending.guards :
                /\ RootOf(i) \in Attached(OwnerRoots) /\ RootOf(i) \in RootIds
                /\ IndexOf(RootOf(i)) = i
                /\ pending.guards[i].path = OwnerRoots[RootOf(i)]
           /\ \A r \in Attached(OwnerRoots) : \E i \in DOMAIN pending.guards : r = RootOf(i)
<1>1. /\ ids \in Seq(RootIds) /\ Len(ids) = Len(admission) /\ admission \in Seq(Guard)
      /\ Agree(admission, ids, roots) /\ pending.guards \in Seq(Guard)
      /\ pending.target \in RootIds \cup {NoRoot}
  BY DEF Agreement, Types, LiveAgrees, InUse, Pending
<1>2. /\ NewRoot \in RootIds
      /\ OwnerRoots[NewRoot] = pending.path
      /\ Attached(OwnerRoots) = ToSet(ids) \cup {NewRoot}
      /\ \A r \in ToSet(ids) : r # NewRoot => OwnerRoots[r] = roots[r]
  BY <1>1, OwnerRootsAre DEF Agree, WithRequest
<1>3. /\ \A i \in DOMAIN ids : ids[i] \in ToSet(ids) /\ ids[i] \in RootIds
      /\ \A r \in ToSet(ids) : \E i \in DOMAIN ids : r = ids[i]
      /\ DOMAIN ids = DOMAIN admission
  BY <1>1 DEF ToSet
<1>4. /\ \A i \in DOMAIN ids : i \in DOMAIN pending.guards /\ i \in DOMAIN pending.ids /\ pending.ids[i] = ids[i]
      /\ DOMAIN pending.guards = DOMAIN pending.ids
      /\ \/ pending.ids = ids /\ NewRoot \in ToSet(ids)
         \/ /\ DOMAIN pending.ids = DOMAIN ids \cup {Len(pending.guards)}
            /\ Len(pending.guards) \notin DOMAIN ids
            /\ pending.ids[Len(pending.guards)] = pending.target
            /\ NewRoot \notin ToSet(ids) /\ pending.target \notin ToSet(ids)
  BY StagedRowsAre
<1>5. NewRoot \in ToSet(ids) => NewRoot = pending.target
  BY <1>1, OwnerRootsAre DEF NewRoot, Agree, WithRequest
<1>6. ASSUME NEW i \in DOMAIN ids
      PROVE  IndexOf(ids[i]) = i /\ pending.guards[i].path = OwnerRoots[ids[i]]
  <2>1. \A j \in DOMAIN pending.ids : pending.ids[j] = ids[i] => j = i
    BY <1>1, <1>3, <1>4 DEF Agree
  <2>2. ids[i] \in ToSet(pending.ids)
    BY <1>4 DEF ToSet
  <2>3. IndexOf(ids[i]) = i
    BY <1>4, <2>1, <2>2 DEF IndexOf
  <2>4. pending.guards[i].path = IF i = pending.retired THEN pending.path ELSE roots[ids[i]]
    BY <1>1, <1>3, <1>4 DEF Agreement, StagedRows, Agree
  <2>5. \/ /\ pending.retired = 0
           /\ ids[i] = pending.target => admission[i].path = pending.path
        \/ pending.retired \in DOMAIN ids /\ ids[pending.retired] = pending.target
    BY DEF Agreement, Request, WithRequest
  <2>6. CASE ids[i] = NewRoot
    <3>1. NewRoot = pending.target
      BY <1>3, <1>5, <2>6
    <3>2. i = pending.retired \/ admission[i].path = pending.path
      BY <1>1, <2>5, <2>6, <3>1 DEF Agree
    <3>3. admission[i].path = roots[ids[i]]
      BY <1>1 DEF Agree
    <3> QED
      BY <1>2, <2>3, <2>4, <2>6, <3>2, <3>3
  <2>7. CASE ids[i] # NewRoot
    <3>1. i # pending.retired
      <4>1. i = pending.retired => ids[i] = pending.target
        BY <1>1, <2>5
      <4>2. pending.target \in RootIds => NewRoot = pending.target
        BY DirsAssumption DEF NewRoot
      <4> QED
        BY <1>3, <2>7, <4>1, <4>2
    <3> QED
      BY <1>2, <1>3, <2>3, <2>4, <2>7, <3>1
  <2> QED
    BY <2>6, <2>7
<1>7. ASSUME NEW i \in DOMAIN pending.guards, i \notin DOMAIN ids
      PROVE  IndexOf(NewRoot) = i /\ pending.guards[i].path = OwnerRoots[NewRoot]
  <2>1. i = Len(pending.guards) /\ DOMAIN pending.ids = DOMAIN ids \cup {i} /\ pending.ids[i] = pending.target
        /\ NewRoot \notin ToSet(ids) /\ pending.target \notin ToSet(ids)
    BY <1>4, <1>7
  <2>2. pending.guards[i].path = pending.path
    BY <1>3, <1>7 DEF Agreement, StagedRows
  <2>3. CASE NewRoot \in ToSet(pending.ids)
    <3>1. PICK j \in DOMAIN pending.ids : pending.ids[j] = NewRoot
      BY <2>3 DEF ToSet
    <3>2. \A k \in DOMAIN pending.ids : pending.ids[k] = NewRoot => k = i
      BY <1>3, <1>4, <2>1
    <3> QED
      BY <1>2, <2>2, <2>3, <3>1, <3>2 DEF IndexOf
  <2>4. CASE NewRoot \notin ToSet(pending.ids)
    BY <1>2, <2>1, <2>2, <2>4 DEF IndexOf
  <2> QED
    BY <2>3, <2>4
<1>8. ASSUME NEW i \in DOMAIN pending.guards
      PROVE  /\ RootOf(i) \in Attached(OwnerRoots) /\ RootOf(i) \in RootIds
             /\ IndexOf(RootOf(i)) = i /\ pending.guards[i].path = OwnerRoots[RootOf(i)]
  BY <1>2, <1>3, <1>6, <1>7 DEF RootOf
<1>9. ASSUME NEW r \in Attached(OwnerRoots)
      PROVE  \E i \in DOMAIN pending.guards : r = RootOf(i)
  <2>1. CASE r \in ToSet(ids)
    BY <1>3, <1>4, <2>1 DEF RootOf
  <2>2. CASE r \notin ToSet(ids)
    BY <1>2, <1>4, <2>2 DEF RootOf
  <2> QED
    BY <2>1, <2>2
<1> QED
  BY <1>8, <1>9

LEMMA Counted ==
    ASSUME NEW n \in Nat, NEW T, NEW f \in [1..n -> T],
           \A i, j \in 1..n : f[i] = f[j] => i = j, \A r \in T : \E i \in 1..n : f[i] = r
    PROVE  Cardinality(T) = n
<1>1. f \in Bijection(1..n, T)
  BY DEF Bijection, Injection, Surjection, IsInjective
<1>2. IsFiniteSet(1..n) /\ Cardinality(1..n) = n
  BY FS_Interval
<1> QED
  BY <1>1, <1>2, FS_Bijection DEF ExistsBijection

\* The check that guards and owner agree finds no difference.
LEMMA AlwaysAssociates ==
    ASSUME Agreement, phase = "own"
    PROVE  Associates
<1> DEFINE f == [i \in 1..Len(pending.guards) |-> RootOf(i)]
<1>1. pending.guards \in Seq(Guard) /\ Len(pending.guards) \in Nat
      /\ DOMAIN pending.guards = 1..Len(pending.guards)
  BY DEF Agreement, Types, Pending
<1>2. f \in [1..Len(pending.guards) -> Attached(OwnerRoots)]
  BY <1>1, Association
<1>3. \A i, j \in 1..Len(pending.guards) : f[i] = f[j] => i = j
  <2>1. \A i \in 1..Len(pending.guards) : IndexOf(f[i]) = i
    BY <1>1, Association
  <2> QED
    BY <2>1
<1>6. \A r \in Attached(OwnerRoots) : \E i \in 1..Len(pending.guards) : f[i] = r
  BY <1>1, Association
<1>4. Cardinality(Attached(OwnerRoots)) = Len(pending.guards)
  <2> HIDE DEF f
  <2> QED
    BY <1>1, <1>2, <1>3, <1>6, Counted
<1>5. \A r \in Attached(OwnerRoots) : pending.guards[IndexOf(r)].path = OwnerRoots[r]
  BY Association
<1> QED
  BY <1>4, <1>5 DEF Associates

LEMMA AssociateAgrees ==
    ASSUME Agreement, Associate
    PROVE  Agreement'
<1> DEFINE new == [i \in DOMAIN pending.guards |-> CHOOSE r \in Attached(OwnerRoots) : IndexOf(r) = i]
           rows == OwnerRoots
           guards == pending.guards
<1>1. /\ pending' = [target |-> pending.target, path |-> pending.path, retired |-> pending.retired,
                     guards |-> guards, ids |-> new, roots |-> rows]
      /\ UNCHANGED <<service, roots, admission, ids>>
      /\ phase = "own" /\ phase' = "fence" /\ at' = 1 /\ pos' = NoDir
  BY DEF Associate, Enter, live, Agreement, Types, Pending
<1>2. \A i \in DOMAIN guards : /\ new[i] = RootOf(i) /\ new[i] \in Attached(rows) /\ new[i] \in RootIds
                               /\ IndexOf(new[i]) = i /\ guards[i].path = rows[new[i]]
  <2> TAKE i \in DOMAIN guards
  <2>1. \A r \in Attached(OwnerRoots) : IndexOf(r) = i => r = RootOf(i)
    BY <1>1, Association
  <2> QED
    BY <1>1, <2>1, Association
<1>3. \A r \in Attached(rows) : \E i \in DOMAIN guards : r = new[i]
  BY <1>1, <1>2, Association
<1>4. guards \in Seq(Guard) /\ DOMAIN new = DOMAIN guards
  BY DEF Agreement, Types, Pending
<1>5. new \in Seq(RootIds) /\ Len(new) = Len(guards)
  <2>1. DOMAIN guards = 1..Len(guards) /\ Len(guards) \in Nat
    BY <1>4
  <2>2. new \in [1..Len(guards) -> RootIds]
    BY <1>2, <2>1
  <2> QED
    BY <2>1, <2>2
<1>6. rows \in Rows
  BY <1>1, OwnerRootsAre DEF WithRequest
<1>7. \A i \in DOMAIN guards, j \in DOMAIN guards : new[i] = new[j] => i = j
  BY <1>2
<1> HIDE DEF new, rows
<1>8. Agree(guards, new, rows)
  BY <1>2, <1>3, <1>4, <1>5, <1>7 DEF Agree, ToSet
<1>9. Continues(guards, new)
  <2> SUFFICES ASSUME NEW i \in DOMAIN admission, NEW j \in DOMAIN guards,
                      ids[i] = new[j], admission[i].path = guards[j].path
               PROVE  admission[i].dir = guards[j].dir
    BY DEF Continues
  <2>1. DOMAIN admission = DOMAIN ids
    BY DEF Agreement, Types
  <2>2. i \in DOMAIN guards /\ i \in DOMAIN ids
    BY <1>1, <2>1, StagedRowsAre
  <2>3. new[i] = ids[i]
    BY <1>2, <2>2 DEF RootOf
  <2>4. i = j
    BY <1>7, <2>2, <2>3
  <2>5. CASE i = pending.retired
    <3>1. guards[i].path = pending.path
      BY <1>1, <2>2, <2>5 DEF Agreement, StagedRows
    <3>2. admission[i].path # pending.path
      <4>1. i # 0
        BY <2>2 DEF Agreement, Types
      <4> QED
        BY <1>1, <2>5, <4>1 DEF Agreement, Request, WithRequest
    <3> QED
      BY <2>4, <3>1, <3>2
  <2>6. CASE i # pending.retired
    BY <1>1, <2>2, <2>4, <2>6 DEF Agreement, StagedRows
  <2> QED
    BY <2>5, <2>6
<1>10. Types'
  <2>1. pending' \in Pending
    BY <1>1, <1>4, <1>5, <1>6 DEF Agreement, Types, Pending
  <2> QED
    BY <1>1, <2>1 DEF Agreement, Types, Phases
<1>11. LiveAgrees'
  BY <1>1 DEF Agreement, LiveAgrees
<1>12. Request' /\ StagedRows'
  BY <1>1 DEF Request, StagedRows, WithRequest
<1>13. Agreed'
  BY <1>1, <1>5, <1>8, <1>9 DEF Agreed, Continues
<1> QED
  BY <1>10, <1>11, <1>12, <1>13 DEF Agreement

LEMMA MutateAgrees ==
    ASSUME Agreement, Mutate
    PROVE  Agreement'
<1>1. /\ pending' = [target |-> NoRoot, path |-> <<>>, retired |-> 0,
                     guards |-> admission, ids |-> ids, roots |-> roots]
      /\ UNCHANGED <<service, roots, admission, ids>>
      /\ service = "Ready" /\ phase' = "begin" /\ at' = 1 /\ pos' = NoDir
  BY DEF Mutate, Enter, live, NoMutation
<1>2. Agree(admission, ids, roots) /\ ids \in Seq(RootIds)
  BY <1>1 DEF Agreement, Types, LiveAgrees, InUse
<1>3. Continues(admission, ids)
  BY <1>2 DEF Agreement, Types, Agree, Continues
<1>4. Types'
  <2>1. ids \in Seq(RootIds \cup {NoRoot})
    BY DEF Agreement, Types
  <2>2. pending' \in Pending
    BY <1>1, <2>1 DEF Agreement, Types, Pending
  <2> QED
    BY <1>1, <2>2 DEF Agreement, Types, Phases
<1>5. LiveAgrees'
  BY <1>1 DEF Agreement, LiveAgrees
<1>6. Request' /\ StagedRows'
  BY <1>1 DEF Request, StagedRows, WithRequest
<1>7. Agreed'
  BY <1>1, <1>2, <1>3 DEF Agreed, Continues
<1> QED
  BY <1>4, <1>5, <1>6, <1>7 DEF Agreement

LEMMA CommitAgrees ==
    ASSUME Agreement, Commit
    PROVE  Agreement' /\ Continues(admission', ids')
<1>1. /\ roots' = pending.roots /\ admission' = pending.guards /\ ids' = pending.ids
      /\ phase = "publish" /\ phase' = "idle" /\ at' = 0 /\ pos' = NoDir /\ pending' = NoMutation
      /\ service = "Ready" /\ UNCHANGED service
  BY DEF Commit, InstallIds, Idle, Agreement, Types
<1>2. /\ Agree(pending.guards, pending.ids, pending.roots) /\ Continues(pending.guards, pending.ids)
      /\ pending.ids \in Seq(RootIds)
  BY <1>1 DEF Agreement, Agreed
<1>3. Types'
  BY <1>1, <1>2, NoMutationType DEF Agreement, Types, Phases, Agree, Pending
<1>4. LiveAgrees'
  BY <1>1, <1>2 DEF LiveAgrees, InUse
<1> QED
  BY <1>1, <1>2, <1>3, <1>4 DEF Agreement, Request, StagedRows, Agreed, WithRequest

LEMMA LifeAgrees ==
    ASSUME Agreement, StageWithoutAuthority \/ AllPrevious \/ RefuseStage \/ CommitUncertain \/ Abandon
                 \/ Start \/ Close \/ Destroy
    PROVE  Agreement'
<1>1. CASE StageWithoutAuthority
  BY <1>1, EndAgrees DEF StageWithoutAuthority, InUse
<1>2. CASE AllPrevious
  <2>1. /\ phase = "previous" /\ phase' = "open" /\ at' = 1 /\ pos' = NoDir
        /\ UNCHANGED <<service, roots, admission, ids, pending>>
    BY <1>2 DEF AllPrevious, Enter, live
  <2>2. Types' /\ LiveAgrees'
    BY <2>1 DEF Agreement, Types, LiveAgrees, Phases
  <2> QED
    BY <2>1, <2>2 DEF Agreement, Request, WithRequest, StagedRows, Agreed
<1>3. CASE RefuseStage
  <2>1. phase # "idle" /\ AfterRefusal \in InUse
    BY <1>3 DEF RefuseStage, AfterRefusal, InUse
  <2> QED
    BY <1>3, <2>1, EndAgrees DEF RefuseStage, Agreement, Types
<1>4. CASE CommitUncertain \/ Abandon
  BY <1>4, EndAgrees DEF CommitUncertain, Abandon, InUse, Agreement, Types
<1>5. CASE Start
  <2>1. PICK n \in Len(roots)..Cardinality(RootIds) : roots' = [r \in 1..n |-> Detached]
    BY <1>5 DEF Start
  <2>2. /\ service = "none" /\ service' = "Ready" /\ admission' = <<>> /\ ids' = <<>>
        /\ UNCHANGED <<phase, at, pos, pending>>
    BY <1>5 DEF Start
  <2>3. n \in Nat
    <3>1. Len(roots) \in Nat
      BY DEF Agreement, Types, Rows
    <3> QED
      BY <2>1, <3>1
  <2>4. roots' \in Rows /\ Attached(roots') = {}
    BY <2>1, <2>3 DEF Rows, Attached
  <2>5. phase = "idle"
    BY <2>2 DEF Agreement, Types
  <2>6. Agree(admission', ids', roots')
    BY <2>2, <2>4, EmptyAgree
  <2> QED
    BY <2>2, <2>4, <2>5, <2>6 DEF Agreement, Types, LiveAgrees, InUse, Request, WithRequest, StagedRows, Agreed
<1>6. CASE Close
  BY <1>6 DEF Close, Agreement, Types, LiveAgrees, InUse, Request, WithRequest, StagedRows, Agreed
<1>7. CASE Destroy
  <2>1. Types'
    BY <1>7, NoMutationType DEF Destroy, Idle, Agreement, Types, Phases
  <2> QED
    BY <1>7, <2>1 DEF Destroy, Idle, Agreement, LiveAgrees, InUse, Request, WithRequest, StagedRows, Agreed
<1> QED
  BY <1>1, <1>2, <1>3, <1>4, <1>5, <1>6, <1>7

LEMMA StaysPut ==
    ASSUME Agreement, \/ UNCHANGED <<admission, ids>>
                 \/ admission' = <<>>
                 \/ Continues(admission', ids')
    PROVE  Continues(admission', ids')
<1>1. \A i, j \in DOMAIN ids : ids[i] = ids[j] => i = j
  BY DEF Agreement, LiveAgrees, Agree
<1>2. DOMAIN ids = DOMAIN admission
  BY DEF Agreement, Types
<1>3. admission' = <<>> => DOMAIN admission' = {}
  OBVIOUS
<1> QED
  BY <1>1, <1>2, <1>3 DEF Continues

LEMMA AgreementStep ==
    ASSUME Agreement, Tree, [Next]_vars
    PROVE  Agreement' /\ Continues(admission', ids')
<1>1. CASE Environment \/ Check
  <2>1. UNCHANGED <<admission, ids>>
    BY <1>1 DEF Environment, Move, Check, CheckRoot, StartClimb, Climb, Passed, Distrust, EndCall, live
  <2> QED
    BY <1>1, <2>1, CheckAgrees, StaysPut
<1>2. CASE Staging
  <2>1. UNCHANGED <<admission, ids>>
    BY <1>2 DEF Staging, StageRoot, StageWithoutAuthority, CheckPrevious, AllPrevious, OpenFresh,
                RefuseStage, EndCall, live
  <2>2. Agreement'
    BY <1>2, StageRootAgrees, CheckAgrees, OpenFreshAgrees, LifeAgrees DEF Staging
  <2> QED
    BY <2>1, <2>2, StaysPut
<1>3. CASE Associate \/ Mutate \/ CommitUncertain \/ Abandon
  <2>1. UNCHANGED <<admission, ids>>
    BY <1>3 DEF Associate, Mutate, CommitUncertain, Abandon, EndCall, live
  <2> QED
    BY <1>3, <2>1, AssociateAgrees, MutateAgrees, LifeAgrees, StaysPut
<1>4. CASE Commit
  BY <1>4, CommitAgrees
<1>5. CASE Start \/ Close \/ Destroy
  <2>1. admission' = <<>>
    BY <1>5 DEF Start, Close, Destroy
  <2> QED
    BY <1>5, <2>1, LifeAgrees, StaysPut
<1>6. CASE UNCHANGED vars
  <2>1. UNCHANGED <<live, phase, pending, at, pos, admission, ids>>
    BY <1>6 DEF vars, live
  <2>2. at' \in Nat /\ pos' \in Dirs \cup {NoDir}
    BY <2>1 DEF Agreement, Types
  <2> QED
    BY <2>1, <2>2, FrameAgrees, StaysPut
<1> QED
  BY <1>1, <1>2, <1>3, <1>4, <1>5, <1>6 DEF Next, Save

LEMMA NoAlarm == Agreement => NoFalseAlarm
<1> SUFFICES ASSUME Agreement PROVE NoFalseAlarm
  OBVIOUS
<1>1. phase = "own" => Associates
  BY AlwaysAssociates
<1>2. ASSUME service = "Ready"
      PROVE  /\ ToSet(ids) = Attached(roots) /\ Len(ids) = Cardinality(Attached(roots))
             /\ \A i \in DOMAIN ids : admission[i].path = roots[ids[i]]
  <2>1. Agree(admission, ids, roots) /\ ids \in Seq(RootIds)
    BY <1>2 DEF Agreement, Types, LiveAgrees, InUse
  <2>2. Len(ids) \in Nat /\ DOMAIN ids = 1..Len(ids)
    BY <2>1
  <2>3. /\ ids \in [1..Len(ids) -> ToSet(ids)]
        /\ \A r \in ToSet(ids) : \E i \in 1..Len(ids) : ids[i] = r
    BY <2>1, <2>2 DEF ToSet
  <2>4. Cardinality(ToSet(ids)) = Len(ids)
    BY <2>1, <2>2, <2>3, Counted DEF Agree
  <2> QED
    BY <2>1, <2>4 DEF Agree
<1> QED
  BY <1>1, <1>2 DEF NoFalseAlarm

-----------------------------------------------------------------------------
(* Guards are apart.                                                       *)

Held(guards) == {guards[i].dir : i \in DOMAIN guards}

Separate(guards) ==
    /\ \A i, j \in DOMAIN guards : i # j => Apart(guards[i], guards[j])
    /\ \A i \in DOMAIN guards : ~Encloses(guards[i].path, StorePath)

\* The paths are told apart when the rows are staged, the directory of the
\* store when the climb that follows has left it.
Separation ==
    /\ Separate(admission) /\ Store \notin Held(admission)
    /\ phase \in {"stage", "own", "fence", "publish"} => Separate(pending.guards)
    /\ phase \in {"own", "fence", "publish"} => Store \notin Held(pending.guards)
    /\ phase = "stage" /\ pos # NoDir => pos = Store \/ Store \notin Held(pending.guards)

LEMMA OutsideIs == ASSUME NEW d PROVE OutsideRoots(d) <=> d \notin Held(Checked)
  BY DEF OutsideRoots, ToSet, Held

LEMMA NoneHeld == Separate(<<>>) /\ Store \notin Held(<<>>)
  BY DEF Separate, Held

LEMMA SeparationInit == Init => Separation
  BY NoneHeld DEF Init, Separation

LEMMA SeparationStep ==
    ASSUME Agreement, Separation, [Next]_vars
    PROVE  Separation'
<1> USE DEF Separation
<1>1. CASE Environment
  BY <1>1 DEF Environment, Move, live
<1>2. CASE Check
  <2>1. CASE CheckRoot
    BY <2>1 DEF CheckRoot, live, Agreement, Types
  <2>2. CASE StartClimb
    BY <2>2 DEF StartClimb, live
  <2>3. CASE Climb
    <3>1. phase = "stage" => Store \notin Held(pending.guards)
      BY <2>3, OutsideIs DEF Climb, Checked
    <3> QED
      BY <2>3, <3>1 DEF Climb, live
  <2>4. CASE Passed
    <3>1. phase = "stage" => Store \notin Held(pending.guards)
      BY <2>4, OutsideIs DEF Passed, Checked
    <3>2. phase = "begin" => pending.guards = admission
      BY DEF Agreement, Agreed
    <3>3. /\ \/ phase = "begin" /\ phase' = "fence"
             \/ phase = "stage" /\ phase' = "own"
             \/ phase = "fence" /\ phase' = "publish"
          /\ UNCHANGED <<admission, pending>>
      BY <2>4 DEF Passed, Enter, Checking, live
    <3> QED
      BY <3>1, <3>2, <3>3
  <2>5. CASE Distrust
    BY <2>5 DEF Distrust, EndCall, Idle
  <2> QED
    BY <1>2, <2>1, <2>2, <2>3, <2>4, <2>5 DEF Check
<1>3. CASE Staging
  <2>1. ASSUME NEW t, NEW p, StageRoot(t, p) PROVE Separation'
    BY <2>1 DEF StageRoot, Enter, live
  <2>2. CASE StageWithoutAuthority \/ RefuseStage
    BY <2>2 DEF StageWithoutAuthority, RefuseStage, EndCall, Idle
  <2>3. CASE CheckPrevious \/ AllPrevious
    BY <2>3 DEF CheckPrevious, AllPrevious, Enter, live
  <2>4. CASE OpenFresh
    <3> DEFINE g == StagedGuards
    <3>1. Separate(g)
      BY <2>4 DEF OpenFresh, Openable, Separate, ToSet
    <3>2. pending'.guards = g
      BY <2>4 DEF OpenFresh, Agreement, Types, Pending
    <3> HIDE DEF g
    <3> QED
      BY <2>4, <3>1, <3>2 DEF OpenFresh, Enter, live
  <2> QED
    BY <1>3, <2>1, <2>2, <2>3, <2>4 DEF Staging
<1>4. CASE Save
  <2>1. CASE Associate
    <3>1. pending'.guards = pending.guards
      BY <2>1 DEF Associate, Agreement, Types, Pending
    <3> QED
      BY <2>1, <3>1 DEF Associate, Enter, live
  <2>2. CASE Mutate
    BY <2>2 DEF Mutate, Enter, live
  <2>3. CASE Commit
    BY <2>3 DEF Commit, Idle
  <2>4. CASE CommitUncertain \/ Abandon
    BY <2>4 DEF CommitUncertain, Abandon, EndCall, Idle
  <2> QED
    BY <1>4, <2>1, <2>2, <2>3, <2>4 DEF Save
<1>5. CASE Start \/ Close
  BY <1>5, NoneHeld DEF Start, Close, Agreement, Types
<1>6. CASE Destroy
  BY <1>6, NoneHeld DEF Destroy, Idle
<1>7. CASE UNCHANGED vars
  BY <1>7 DEF vars
<1> QED
  BY <1>1, <1>2, <1>3, <1>4, <1>5, <1>6, <1>7 DEF Next

-----------------------------------------------------------------------------
(* A quiet save.                                                           *)

\* What the fence has established so far, if nothing moved since it began:
\* the lease and the roots it has checked, and that no root contains the
\* store up to where the climb is.
Fenced ==
    phase = "fence" /\ quiet =>
        /\ at > 1 \/ pos # NoDir => Authority
        /\ \A i \in DOMAIN pending.guards : i < at \/ pos # NoDir => Holds(pending.guards[i])
        /\ pos # NoDir => \A e \in Above(Store) : e \in Above(pos) \/ e \notin Held(pending.guards)

Published ==
    phase = "publish" /\ quiet =>
        /\ Authority
        /\ \A i \in DOMAIN pending.guards : Holds(pending.guards[i])
        /\ Above(Store) \cap Held(pending.guards) = {}

LEMMA StillThere ==
    ASSUME UNCHANGED place
    PROVE  /\ Authority' <=> Authority
           /\ \A g : Holds(g)' <=> Holds(g)
           /\ \A d : Above(d)' = Above(d)
<1>1. PathOf' = PathOf
  BY DEF PathOf
<1>2. \A p : Walk(p)' = Walk(p)
  BY <1>1 DEF Walk
<1> QED
  BY <1>1, <1>2 DEF Authority, Holds, Above

\* The root is nothing's child: a climb that has reached it has met everything
\* that contains the store.
LEMMA ClimbMeetsAll ==
    ASSUME Tree, Store \in Dirs, pos \in Dirs, NEW held,
           \A e \in Above(Store) : e \in Above(pos) \/ e \notin held, pos \notin held
    PROVE  /\ place[pos].up = Top => Above(Store) \cap held = {}
           /\ place[pos].up # Top => \A e \in Above(Store) : e \in Above(place[pos].up) \/ e \notin held
<1>1. \A e \in Above(Store) : e \in Dirs
  BY DEF Above
<1>2. \A e \in Dirs : e \in Above(pos) => e = pos \/ (place[pos].up # Top /\ e \in Above(place[pos].up))
  BY AboveUp
<1> QED
  BY <1>1, <1>2

LEMMA CheckFences ==
    ASSUME Agreement, Tree, Fenced, Published, CheckRoot \/ StartClimb \/ Climb
    PROVE  Fenced' /\ Published'
<1>1. /\ UNCHANGED <<place, quiet, phase, pending>> /\ phase # "publish"
      /\ Authority' <=> Authority
      /\ \A g : Holds(g)' <=> Holds(g)
      /\ \A d : Above(d)' = Above(d)
  BY StillThere DEF CheckRoot, StartClimb, Climb, Checking
<1>2. Published'
  BY <1>1 DEF Published
<1>3. Fenced'
  <2> SUFFICES ASSUME phase = "fence", quiet
               PROVE  /\ at' > 1 \/ pos' # NoDir => Authority
                      /\ \A i \in DOMAIN pending.guards : i < at' \/ pos' # NoDir => Holds(pending.guards[i])
                      /\ pos' # NoDir => \A e \in Above(Store) : e \in Above(pos') \/ e \notin Held(pending.guards)
    BY <1>1 DEF Fenced
  <2>1. Checked = pending.guards /\ at \in Nat /\ pos \in Dirs \cup {NoDir} /\ pending.guards \in Seq(Guard)
        /\ DOMAIN pending.guards = 1..Len(pending.guards) /\ Len(pending.guards) \in Nat
    BY DEF Checked, Agreement, Types, Pending
  <2>2. CASE CheckRoot
    <3>1. at \in 1..Len(pending.guards) /\ (at = 1 => Authority) /\ Holds(pending.guards[at])
          /\ at' = at + 1 /\ pos' = pos
      BY <2>1, <2>2 DEF CheckRoot
    <3> QED
      BY <2>1, <3>1 DEF Fenced
  <2>3. CASE StartClimb
    <3>1. at = Len(pending.guards) + 1 /\ (Len(pending.guards) = 0 => Authority) /\ pos' = Store
      BY <2>1, <2>3 DEF StartClimb
    <3>2. Authority
      BY <2>1, <3>1 DEF Fenced
    <3>3. \A i \in DOMAIN pending.guards : Holds(pending.guards[i])
      BY <2>1, <3>1 DEF Fenced
    <3> QED
      BY <3>1, <3>2, <3>3
  <2>4. CASE Climb
    <3>1. pos # NoDir /\ pos \notin Held(pending.guards) /\ place[pos].up # Top /\ pos' = place[pos].up
          /\ pos \in Dirs
      BY <2>1, <2>4, OutsideIs DEF Climb
    <3>2. \A e \in Above(Store) : e \in Above(pos') \/ e \notin Held(pending.guards)
      BY <3>1, ClimbMeetsAll, DirsAssumption DEF Fenced
    <3> QED
      BY <3>1, <3>2 DEF Fenced
  <2> QED
    BY <2>2, <2>3, <2>4
<1> QED
  BY <1>2, <1>3

LEMMA PassFences ==
    ASSUME Agreement, Tree, Fenced, Published, Passed
    PROVE  Fenced' /\ Published'
<1>1. /\ UNCHANGED <<place, pending>> /\ at' = 1 /\ pos' = NoDir
      /\ \/ phase = "begin" /\ phase' = "fence"
         \/ phase = "stage" /\ phase' = "own"
         \/ phase = "fence" /\ phase' = "publish" /\ (quiet' <=> quiet)
  BY DEF Passed, Enter, Checking
<1>2. Fenced'
  <2>1. DOMAIN pending.guards \subseteq 1..Len(pending.guards) /\ Len(pending.guards) \in Nat
    BY DEF Agreement, Types, Pending
  <2> QED
    BY <1>1, <2>1 DEF Fenced
<1>3. Published'
  <2> SUFFICES ASSUME phase = "fence", quiet
               PROVE  /\ Authority
                      /\ \A i \in DOMAIN pending.guards : Holds(pending.guards[i])
                      /\ Above(Store) \cap Held(pending.guards) = {}
    BY <1>1, StillThere DEF Published
  <2>1. pos \in Dirs /\ pos # NoDir /\ place[pos].up = Top /\ pos \notin Held(pending.guards)
    BY OutsideIs DEF Passed, Checked, Agreement, Types
  <2>2. Above(Store) \cap Held(pending.guards) = {}
    BY <2>1, ClimbMeetsAll, DirsAssumption DEF Fenced
  <2> QED
    BY <2>1, <2>2 DEF Fenced
<1> QED
  BY <1>2, <1>3

LEMMA QuietStep ==
    ASSUME Agreement, Tree, Fenced, Published, [Next]_vars
    PROVE  Fenced' /\ Published'
<1>1. CASE Environment
  <2>1. ~quiet'
    BY <1>1 DEF Environment, Move
  <2> QED
    BY <2>1 DEF Fenced, Published
<1>2. CASE Check
  BY <1>2, CheckFences, PassFences DEF Check, Distrust, EndCall, Idle, Fenced, Published
<1>3. ASSUME phase' \notin {"fence", "publish"} PROVE Fenced' /\ Published'
  BY <1>3 DEF Fenced, Published
<1>4. CASE Staging
  <2>1. phase' \notin {"fence", "publish"}
    BY <1>4 DEF Staging, StageRoot, StageWithoutAuthority, CheckPrevious, AllPrevious, OpenFresh,
                RefuseStage, EndCall, Idle, Enter
  <2> QED
    BY <1>3, <2>1
<1>5. CASE Associate
  <2>1. DOMAIN pending.guards \subseteq 1..Len(pending.guards) /\ Len(pending.guards) \in Nat
    BY DEF Agreement, Types, Pending
  <2>2. pending'.guards = pending.guards /\ phase' = "fence" /\ at' = 1 /\ pos' = NoDir
    BY <1>5 DEF Associate, Enter, Agreement, Types, Pending
  <2> QED
    BY <2>1, <2>2 DEF Fenced, Published
<1>6. CASE Mutate \/ Commit \/ CommitUncertain \/ Abandon \/ Destroy
  <2>1. phase' \notin {"fence", "publish"}
    BY <1>6 DEF Mutate, Commit, CommitUncertain, Abandon, Destroy, EndCall, Idle, Enter
  <2> QED
    BY <1>3, <2>1
<1>7. CASE Start \/ Close
  <2>1. phase' = "idle"
    BY <1>7 DEF Start, Close, Agreement, Types
  <2> QED
    BY <1>3, <2>1
<1>8. CASE UNCHANGED vars
  <2>1. /\ UNCHANGED <<place, quiet, phase, pending, at, pos>>
        /\ Authority' <=> Authority
        /\ \A g : Holds(g)' <=> Holds(g)
        /\ \A d : Above(d)' = Above(d)
    BY <1>8, StillThere DEF vars
  <2> QED
    BY <2>1 DEF Fenced, Published
<1> QED
  BY <1>1, <1>2, <1>4, <1>5, <1>6, <1>7, <1>8 DEF Next, Save

-----------------------------------------------------------------------------
(* Theorems.                                                               *)

Inv == Tree /\ Agreement /\ Separation /\ Fenced /\ Published

LEMMA TreeStep == Tree /\ [Next]_vars => Tree'
<1> SUFFICES ASSUME Tree, [Next]_vars PROVE Tree'
  OBVIOUS
<1>1. CASE Environment
  BY <1>1, MoveKeepsTree DEF Environment
<1>2. CASE UNCHANGED place
  BY <1>2, PathOfIs DEF Tree
<1>3. Environment \/ UNCHANGED place
  BY DEF Next, Check, CheckRoot, StartClimb, Climb, Passed, Distrust, Staging, StageRoot,
         StageWithoutAuthority, CheckPrevious, AllPrevious, OpenFresh, RefuseStage, Save, Associate,
         Mutate, Commit, CommitUncertain, Abandon, Start, Close, Destroy, EndCall, vars
<1> QED
  BY <1>1, <1>2, <1>3

LEMMA InvInit == Init => Inv
<1>1. Init => Fenced /\ Published
  BY DEF Init, Fenced, Published
<1> QED
  BY <1>1, TreeInit, AgreementInit, SeparationInit DEF Inv

LEMMA InvStep == Inv /\ [Next]_vars => Inv' /\ Continues(admission', ids')
  BY TreeStep, AgreementStep, SeparationStep, QuietStep DEF Inv

LEMMA Invariant == Spec => []Inv
<1>1. Inv /\ [Next]_vars => Inv'
  BY InvStep
<1> QED
  BY <1>1, InvInit, PTL DEF Spec

\* Type correctness: every guard has its root, and a call runs only in a Ready
\* service.
THEOREM TypeCorrect == Spec => []TypeOK
<1>1. Inv => TypeOK
  BY DEF Inv, Agreement, Types, Rows, Pending, TypeOK
<1> QED
  BY <1>1, Invariant, PTL

\* associateAdmission's check never ends a call of a sound service: whatever
\* was attached, moved, refused or abandoned before, its guards are those of
\* its attached roots, each under the path of its own root.
THEOREM AlarmIsNeverFalse == Spec => []NoFalseAlarm
<1>1. Inv => NoFalseAlarm
  BY NoAlarm DEF Inv
<1> QED
  BY <1>1, Invariant, PTL

\* No directory is ever held under two roots, none of them is the store's and
\* no root's path leads to it, wherever directories move meanwhile.
THEOREM RootsApart == Spec => []GuardsApart
<1>1. Inv => GuardsApart
  <2> SUFFICES ASSUME Separate(admission), Store \notin Held(admission) PROVE GuardsApart
    BY DEF Inv, Separation
  <2> QED
    BY DEF Separate, Held, Apart, ToSet, GuardsApart
<1> QED
  BY <1>1, Invariant, PTL

\* A root that stays at its path keeps the directory it was admitted with: no
\* step, and no mutation of another root, adopts a replacement.
THEOREM NeverRefreshed == Spec => GuardsNeverRefreshed
<1> DEFINE Stay == \A i \in DOMAIN admission, j \in DOMAIN admission' :
                      ids[i] = ids'[j] /\ admission[i].path = admission'[j].path
                         => admission[i].dir = admission'[j].dir
<1>1. Inv /\ [Next]_vars => [Stay]_vars
  BY InvStep DEF Continues
<1> QED
  BY <1>1, Invariant, PTL DEF Spec, GuardsNeverRefreshed

\* What is published over a fence during which nothing moved is outside every
\* root, the lease holds, and every root is where its path leads.  This is
\* what the fence is for, and that the climb suffices rests on the tree.
THEOREM QuietIsSound == Spec => []QuietCommitIsSound
<1>1. Inv => QuietCommitIsSound
  <2> SUFFICES ASSUME Published PROVE QuietCommitIsSound
    BY DEF Inv
  <2> QED
    BY DEF Published, Held, ToSet, QuietCommitIsSound
<1> QED
  BY <1>1, Invariant, PTL
================================================================================
