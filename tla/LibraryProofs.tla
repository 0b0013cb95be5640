----------------------------- MODULE LibraryProofs -----------------------------
(***************************************************************************)
(* Proofs about LibraryService and about the sessions that run over it     *)
(* (LibrarySession), for any directories, names, overrides and bounds of   *)
(* the counters.  Of the service: what a Ready one shows is durable, and a *)
(* song identity is never given twice.  Of the sessions: what the replies  *)
(* say about the store, when it is saved, and the exit code; and that they *)
(* take no step that is not one of the service and the controller.         *)
(***************************************************************************)
EXTENDS LibrarySession, FiniteSetTheorems, TLAPS

\* The rows of a table, by their identity.
Rows(Row) == UNION {[Ids -> Row] : Ids \in SUBSET Nat}

SongRow == [root : Nat, locator : Locators, state : {"Ready", "Invalid", "Missing"},
            source : Paths \cup {NoPath}, override : Overrides \cup {NoOverride}]
BindingRow == [path : Paths \cup {NoPath}, attached : BOOLEAN, savedHint : Paths \cup {NoPath}]
RootRow == [attachmentGeneration : Nat, policy : {Policy}]

Owner ==
    {o \in [revision : Nat, nextRoot : Nat, nextSong : Nat,
            roots : Rows(RootRow), songs : Rows(SongRow), binding : Rows(BindingRow)] :
        DOMAIN o.binding = DOMAIN o.roots}

\* What the store holds.
Projection ==
    [catalogRevision : Nat, nextRoot : Nat, nextSong : Nat,
     roots : Rows([attachmentGeneration : Nat, policy : {Policy}, hint : Paths \cup {NoPath}]),
     songs : Rows([root : Nat, locator : Locators, override : Overrides \cup {NoOverride}])]

\* The identities of a table of songs are below its allocator, and those that
\* are not among the known ones were allocated since `from`.
Allocated(songs, next, known, from) ==
    \A s \in DOMAIN songs : s < next /\ (s \in known \/ s >= from)

\* What a mutation makes of an owner, or a checkpoint that may be restored
\* after it.
Follows(p, o) ==
    p.nextSong >= o.nextSong /\ Allocated(p.songs, p.nextSong, DOMAIN o.songs, o.nextSong)

-----------------------------------------------------------------------------
(* Tables.                                                                 *)

LEMMA RowsAre ==
    ASSUME NEW Row, NEW f \in Rows(Row)
    PROVE  DOMAIN f \subseteq Nat /\ f = [x \in DOMAIN f |-> f[x]] /\ \A x \in DOMAIN f : f[x] \in Row
BY DEF Rows

LEMMA AreRows ==
    ASSUME NEW Row, NEW Ids, Ids \subseteq Nat, NEW f \in [Ids -> Row]
    PROVE  f \in Rows(Row) /\ DOMAIN f = Ids
BY DEF Rows

LEMMA OwnerParts ==
    ASSUME NEW o \in Owner
    PROVE  /\ o.revision \in Nat /\ o.nextRoot \in Nat /\ o.nextSong \in Nat
           /\ o.roots \in Rows(RootRow) /\ o.songs \in Rows(SongRow) /\ o.binding \in Rows(BindingRow)
           /\ DOMAIN o.binding = DOMAIN o.roots
           /\ o = [revision |-> o.revision, nextRoot |-> o.nextRoot, nextSong |-> o.nextSong,
                   roots |-> o.roots, songs |-> o.songs, binding |-> o.binding]
BY DEF Owner

LEMMA RevisedIs ==
    ASSUME NEW o \in Owner
    PROVE  Revised(o) = [revision |-> o.revision + 1, nextRoot |-> o.nextRoot,
                         nextSong |-> o.nextSong, roots |-> o.roots, songs |-> o.songs,
                         binding |-> o.binding]
BY DEF Revised, Owner

LEMMA EmptyIsOwner ==
    EmptyOwner \in Owner /\ DOMAIN EmptyOwner.songs = {} /\ EmptyOwner.nextSong = 1
<1>1. \A Row : [x \in {} |-> 0] \in Rows(Row)
  <2> TAKE Row
  <2>1. [x \in {} |-> 0] \in [{} -> Row]
    OBVIOUS
  <2> QED
    BY <2>1, AreRows
<1> QED
  BY <1>1 DEF EmptyOwner, Owner

-----------------------------------------------------------------------------
(* The two conversions.                                                    *)

LEMMA AbsentIsNone == Absent \notin Projection
<1>1. DOMAIN Capture(EmptyOwner) = {"catalogRevision", "nextRoot", "nextSong", "roots", "songs"}
  BY DEF Capture
<1>2. \A p \in Projection :
        DOMAIN p = {"catalogRevision", "nextRoot", "nextSong", "roots", "songs"}
  BY DEF Projection
<1> QED
  BY <1>1, <1>2, AbsentAssumption

LEMMA CaptureIs ==
    ASSUME NEW o \in Owner
    PROVE  /\ Capture(o) \in Projection
           /\ Capture(o).nextSong = o.nextSong
           /\ DOMAIN Capture(o).songs = DOMAIN o.songs
<1> DEFINE roots == [r \in DOMAIN o.roots |->
        [attachmentGeneration |-> o.roots[r].attachmentGeneration,
         policy |-> o.roots[r].policy,
         hint |-> IF Attached(o, r) THEN o.binding[r].path ELSE o.binding[r].savedHint]]
           songs == [s \in DOMAIN o.songs |->
        [root |-> o.songs[s].root, locator |-> o.songs[s].locator,
         override |-> o.songs[s].override]]
<1>1. roots \in Rows([attachmentGeneration : Nat, policy : {Policy}, hint : Paths \cup {NoPath}])
  <2>1. DOMAIN o.roots \subseteq Nat
        /\ \A r \in DOMAIN o.roots : o.roots[r] \in RootRow /\ o.binding[r] \in BindingRow
    BY OwnerParts, RowsAre
  <2>2. roots \in [DOMAIN o.roots ->
                      [attachmentGeneration : Nat, policy : {Policy}, hint : Paths \cup {NoPath}]]
    BY <2>1 DEF RootRow, BindingRow
  <2> QED
    BY <2>1, <2>2, AreRows
<1>2. songs \in Rows([root : Nat, locator : Locators, override : Overrides \cup {NoOverride}])
      /\ DOMAIN songs = DOMAIN o.songs
  <2>1. DOMAIN o.songs \subseteq Nat /\ \A s \in DOMAIN o.songs : o.songs[s] \in SongRow
    BY OwnerParts, RowsAre
  <2>2. songs \in [DOMAIN o.songs ->
                      [root : Nat, locator : Locators, override : Overrides \cup {NoOverride}]]
    BY <2>1 DEF SongRow
  <2> QED
    BY <2>1, <2>2, AreRows
<1>3. Capture(o) = [catalogRevision |-> o.revision, nextRoot |-> o.nextRoot,
                    nextSong |-> o.nextSong, roots |-> roots, songs |-> songs]
  BY DEF Capture
<1> HIDE DEF roots, songs
<1> QED
  BY <1>1, <1>2, <1>3, OwnerParts DEF Projection

LEMMA RestoreIs ==
    ASSUME NEW p \in Projection
    PROVE  /\ Restore(p) \in Owner
           /\ Restore(p).nextSong = p.nextSong
           /\ DOMAIN Restore(p).songs = DOMAIN p.songs
<1> DEFINE roots == [r \in DOMAIN p.roots |->
        [attachmentGeneration |-> p.roots[r].attachmentGeneration,
         policy |-> p.roots[r].policy]]
           songs == [s \in DOMAIN p.songs |->
        [root |-> p.songs[s].root, locator |-> p.songs[s].locator,
         state |-> "Invalid", source |-> NoPath, override |-> p.songs[s].override]]
           binding == [r \in DOMAIN p.roots |->
        [path |-> NoPath, attached |-> FALSE, savedHint |-> p.roots[r].hint]]
<1>1. /\ p.roots \in Rows([attachmentGeneration : Nat, policy : {Policy}, hint : Paths \cup {NoPath}])
      /\ p.songs \in Rows([root : Nat, locator : Locators, override : Overrides \cup {NoOverride}])
      /\ p.catalogRevision \in Nat /\ p.nextRoot \in Nat /\ p.nextSong \in Nat
  BY DEF Projection
<1>2. roots \in Rows(RootRow) /\ binding \in Rows(BindingRow) /\ DOMAIN binding = DOMAIN roots
  <2>1. DOMAIN p.roots \subseteq Nat
        /\ \A r \in DOMAIN p.roots :
              p.roots[r] \in [attachmentGeneration : Nat, policy : {Policy}, hint : Paths \cup {NoPath}]
    BY <1>1, RowsAre
  <2>2. roots \in [DOMAIN p.roots -> RootRow] /\ binding \in [DOMAIN p.roots -> BindingRow]
    BY <2>1 DEF RootRow, BindingRow
  <2> QED
    BY <2>1, <2>2, AreRows
<1>3. songs \in Rows(SongRow) /\ DOMAIN songs = DOMAIN p.songs
  <2>1. DOMAIN p.songs \subseteq Nat
        /\ \A s \in DOMAIN p.songs :
              p.songs[s] \in [root : Nat, locator : Locators, override : Overrides \cup {NoOverride}]
    BY <1>1, RowsAre
  <2>2. songs \in [DOMAIN p.songs -> SongRow]
    BY <2>1 DEF SongRow
  <2> QED
    BY <2>1, <2>2, AreRows
<1>4. Restore(p) = [revision |-> p.catalogRevision, nextRoot |-> p.nextRoot,
                    nextSong |-> p.nextSong, roots |-> roots, songs |-> songs,
                    binding |-> binding]
  BY DEF Restore
<1> HIDE DEF roots, songs, binding
<1> QED
  BY <1>1, <1>2, <1>3, <1>4 DEF Owner

-----------------------------------------------------------------------------
(* Every mutation makes an owner that follows the one it was made of.      *)

LEMMA RegisteredFollows ==
    ASSUME NEW o \in Owner, Allocated(o.songs, o.nextSong, {}, 0), NEW p \in Paths
    PROVE  Registered(o, p) \in Owner /\ Follows(Registered(o, p), o)
           /\ Registered(o, p).songs = o.songs /\ Registered(o, p).nextSong = o.nextSong
<1> DEFINE roots == Extend(o.roots, o.nextRoot, [attachmentGeneration |-> 1, policy |-> Policy])
           bound == Extend(o.binding, o.nextRoot,
                           [path |-> p, attached |-> TRUE, savedHint |-> NoPath])
<1>1. /\ o.revision \in Nat /\ o.nextRoot \in Nat /\ o.nextSong \in Nat
      /\ DOMAIN o.roots \subseteq Nat /\ DOMAIN o.binding = DOMAIN o.roots
      /\ \A r \in DOMAIN o.roots : o.roots[r] \in RootRow /\ o.binding[r] \in BindingRow
  BY OwnerParts, RowsAre
<1>2. /\ roots \in [DOMAIN o.roots \cup {o.nextRoot} -> RootRow]
      /\ bound \in [DOMAIN o.roots \cup {o.nextRoot} -> BindingRow]
  BY <1>1 DEF Extend, RootRow, BindingRow
<1> HIDE DEF roots, bound
<1>3. roots \in Rows(RootRow) /\ bound \in Rows(BindingRow) /\ DOMAIN bound = DOMAIN roots
  <2>1. DOMAIN o.roots \cup {o.nextRoot} \subseteq Nat
    BY <1>1
  <2> QED
    BY <1>2, <2>1, AreRows
<1>4. Registered(o, p) = [revision |-> o.revision + 1, nextRoot |-> o.nextRoot + 1,
                          nextSong |-> o.nextSong, roots |-> roots, songs |-> o.songs,
                          binding |-> bound]
  BY DEF Registered, roots, bound
<1> QED
  BY <1>1, <1>3, <1>4, OwnerParts DEF Owner, Follows, Allocated

LEMMA ReattachedFollows ==
    ASSUME NEW o \in Owner, Allocated(o.songs, o.nextSong, {}, 0), NEW p \in Paths,
           NEW r \in DOMAIN o.roots
    PROVE  Reattached(o, r, p) \in Owner /\ Follows(Reattached(o, r, p), o)
<1> DEFINE roots == [o.roots EXCEPT ![r].attachmentGeneration = @ + 1]
           bound == [o.binding EXCEPT ![r].path = p, ![r].attached = TRUE]
           songs == SongsDetached(o, r)
<1>1. /\ o.revision \in Nat /\ o.nextRoot \in Nat /\ o.nextSong \in Nat
      /\ o.roots \in [DOMAIN o.roots -> RootRow] /\ o.binding \in [DOMAIN o.roots -> BindingRow]
      /\ o.songs \in [DOMAIN o.songs -> SongRow]
      /\ DOMAIN o.roots \subseteq Nat /\ DOMAIN o.songs \subseteq Nat
  <2>1. \A Row, f : f \in Rows(Row) => f \in [DOMAIN f -> Row] /\ DOMAIN f \subseteq Nat
    BY DEF Rows
  <2> QED
    BY <2>1, OwnerParts
<1>2. roots \in [DOMAIN o.roots -> RootRow]
  BY <1>1 DEF RootRow
<1>3. bound \in [DOMAIN o.roots -> BindingRow]
  BY <1>1 DEF BindingRow
<1>4. songs \in [DOMAIN o.songs -> SongRow]
  BY <1>1 DEF SongsDetached, Unverified, SongRow
<1>5. roots \in Rows(RootRow) /\ bound \in Rows(BindingRow) /\ songs \in Rows(SongRow)
      /\ DOMAIN bound = DOMAIN roots /\ DOMAIN songs = DOMAIN o.songs
  BY <1>1, <1>2, <1>3, <1>4, AreRows
<1>6. Reattached(o, r, p) = [revision |-> o.revision + 1, nextRoot |-> o.nextRoot,
                             nextSong |-> o.nextSong, roots |-> roots, songs |-> songs,
                             binding |-> bound]
  BY DEF Reattached, NextGeneration
<1> HIDE DEF roots, bound, songs
<1> QED
  BY <1>1, <1>5, <1>6 DEF Owner, Follows, Allocated

\* Names can be numbered.
LEMMA Numbering ==
    ASSUME NEW fresh, IsFiniteSet(fresh), NEW from \in Nat
    PROVE  LET ids == from..(from + Cardinality(fresh) - 1) IN
           /\ Cardinality(fresh) \in Nat
           /\ \E f \in [ids -> fresh] : \A i, j \in ids : f[i] = f[j] => i = j
<1> DEFINE n == Cardinality(fresh)
           ids == from..(from + n - 1)
<1>1. n \in Nat /\ ExistsBijection(1..n, fresh)
  BY FS_CardinalityType
<1>2. PICK g : g \in Bijection(1..n, fresh)
  BY <1>1 DEF ExistsBijection
<1>3. g \in [1..n -> fresh] /\ \A i, j \in 1..n : g[i] = g[j] => i = j
  BY <1>2 DEF Bijection, Injection, IsInjective
<1> HIDE DEF n
<1> DEFINE f == [i \in ids |-> g[i - from + 1]]
<1>4. f \in [ids -> fresh]
  BY <1>1, <1>3
<1>5. \A i, j \in ids : f[i] = f[j] => i = j
  BY <1>1, <1>3
<1> QED
  BY <1>1, <1>4, <1>5 DEF n

LEMMA ScannedFollows ==
    ASSUME NEW o \in Owner, Allocated(o.songs, o.nextSong, {}, 0), NEW r \in DOMAIN o.roots,
           NEW found \in Findings
    PROVE  Scanned(o, r, found) \in Owner /\ Follows(Scanned(o, r, found), o)
<1> DEFINE fresh == NewLocators(o, r, found)
           n == Cardinality(fresh)
           ids == o.nextSong..(o.nextSong + n - 1)
           name == CHOOSE f \in [ids -> fresh] : \A i, j \in ids : f[i] = f[j] => i = j
           songs == [s \in DOMAIN o.songs \cup ids |->
            IF s \notin DOMAIN o.songs
            THEN [root |-> r, locator |-> name[s], state |-> found[name[s]].state,
                  source |-> SourceRead(o, r, found[name[s]]), override |-> NoOverride]
            ELSE IF o.songs[s].root = r
                 THEN Rescanned(o, r, o.songs[s], found)
                 ELSE o.songs[s]]
<1>1. /\ o.revision \in Nat /\ o.nextRoot \in Nat /\ o.nextSong \in Nat
      /\ o.songs \in [DOMAIN o.songs -> SongRow] /\ DOMAIN o.songs \subseteq Nat
      /\ r \in Nat /\ o.binding[r] \in BindingRow
  <2>1. \A Row, f : f \in Rows(Row) => f \in [DOMAIN f -> Row] /\ DOMAIN f \subseteq Nat
    BY DEF Rows
  <2> QED
    BY <2>1, OwnerParts
<1>2. found \in [DOMAIN found -> Candidate] /\ DOMAIN found \subseteq Locators
  BY DEF Findings
<1>3. IsFiniteSet(fresh) /\ fresh \subseteq DOMAIN found
  BY <1>2, LocatorsAssumption, FS_Subset DEF NewLocators
<1>4. n \in Nat /\ name \in [ids -> fresh]
  <2> HIDE DEF fresh
  <2>1. n \in Nat /\ \E f \in [ids -> fresh] : \A i, j \in ids : f[i] = f[j] => i = j
    BY <1>1, <1>3, Numbering
  <2> QED
    BY <2>1
<1> HIDE DEF n, name, fresh
<1>5. \A s \in ids : name[s] \in Locators /\ found[name[s]] \in Candidate
  BY <1>2, <1>3, <1>4
<1>6. \A c \in Candidate : SourceRead(o, r, c) \in Paths \cup {NoPath}
                           /\ c.state \in {"Ready", "Invalid", "Missing"}
  BY <1>1 DEF SourceRead, BindingRow, Candidate
<1>7. songs \in [DOMAIN o.songs \cup ids -> SongRow]
  <2>1. ASSUME NEW s \in ids
        PROVE  [root |-> r, locator |-> name[s], state |-> found[name[s]].state,
                source |-> SourceRead(o, r, found[name[s]]), override |-> NoOverride] \in SongRow
    BY <1>1, <1>5, <1>6 DEF SongRow
  <2>2. ASSUME NEW s \in DOMAIN o.songs
        PROVE  Rescanned(o, r, o.songs[s], found) \in SongRow
    BY <1>1, <1>2, <1>6 DEF SongRow, Rescanned
  <2> QED
    BY <1>1, <2>1, <2>2
<1>8. songs \in Rows(SongRow) /\ DOMAIN songs = DOMAIN o.songs \cup ids
  <2> HIDE DEF songs
  <2>1. DOMAIN o.songs \cup ids \subseteq Nat
    BY <1>1, <1>4
  <2> QED
    BY <1>7, <2>1, AreRows
<1>9. Scanned(o, r, found) = [revision |-> o.revision + 1, nextRoot |-> o.nextRoot,
                              nextSong |-> o.nextSong + n, roots |-> o.roots, songs |-> songs,
                              binding |-> o.binding]
  BY DEF Scanned, n, name, fresh
<1> HIDE DEF songs
<1> QED
  BY <1>1, <1>4, <1>8, <1>9, OwnerParts DEF Owner, Follows, Allocated

\* The row of a relocated song.
Moved(o, s, r, l) == AfterRelocation([o.songs[s] EXCEPT !.root = r, !.locator = l])

LEMMA RelocatedIs ==
    ASSUME NEW o \in Owner, NEW s \in DOMAIN o.songs, NEW r, NEW l
    PROVE  Relocated(o, s, r, l) =
               [revision |-> o.revision + 1, nextRoot |-> o.nextRoot, nextSong |-> o.nextSong,
                roots |-> o.roots,
                songs |-> [o.songs EXCEPT ![s] = Moved(o, s, r, l)],
                binding |-> o.binding]
<1> DEFINE row == Moved(o, s, r, l)
<1>1. Revised(o).songs[s] = o.songs[s]
  BY RevisedIs
<1>2. Relocated(o, s, r, l) = [Revised(o) EXCEPT !.songs[s] = row]
  BY <1>1 DEF Relocated, Moved
<1> HIDE DEF row
<1>3. Relocated(o, s, r, l) =
          [revision |-> o.revision + 1, nextRoot |-> o.nextRoot, nextSong |-> o.nextSong,
           roots |-> o.roots, songs |-> [o.songs EXCEPT ![s] = row], binding |-> o.binding]
  BY <1>2, RevisedIs
<1> QED
  BY <1>3 DEF row

LEMMA RelocatedFollows ==
    ASSUME NEW o \in Owner, Allocated(o.songs, o.nextSong, {}, 0), NEW s \in DOMAIN o.songs,
           NEW r \in DOMAIN o.roots, NEW l \in Locators
    PROVE  Relocated(o, s, r, l) \in Owner /\ Follows(Relocated(o, s, r, l), o)
<1> DEFINE songs == [o.songs EXCEPT ![s] = Moved(o, s, r, l)]
<1>1. /\ o.revision \in Nat /\ o.nextSong \in Nat /\ r \in Nat
      /\ o.songs \in [DOMAIN o.songs -> SongRow] /\ DOMAIN o.songs \subseteq Nat
  <2>1. \A Row, f : f \in Rows(Row) => f \in [DOMAIN f -> Row] /\ DOMAIN f \subseteq Nat
    BY DEF Rows
  <2> QED
    BY <2>1, OwnerParts
<1>2. songs \in [DOMAIN o.songs -> SongRow]
  BY <1>1 DEF Moved, AfterRelocation, Unverified, SongRow
<1>3. songs \in Rows(SongRow) /\ DOMAIN songs = DOMAIN o.songs
  BY <1>1, <1>2, AreRows
<1>4. Relocated(o, s, r, l) = [revision |-> o.revision + 1, nextRoot |-> o.nextRoot,
                               nextSong |-> o.nextSong, roots |-> o.roots, songs |-> songs,
                               binding |-> o.binding]
  BY RelocatedIs
<1> HIDE DEF songs
<1> QED
  BY <1>1, <1>3, <1>4, OwnerParts DEF Owner, Follows, Allocated

LEMMA RemovedIs ==
    ASSUME NEW o \in Owner, NEW s \in DOMAIN o.songs
    PROVE  Removed(o, s) =
               [revision |-> o.revision + 1, nextRoot |-> o.nextRoot, nextSong |-> o.nextSong,
                roots |-> o.roots, songs |-> [t \in DOMAIN o.songs \ {s} |-> o.songs[t]],
                binding |-> o.binding]
BY RevisedIs DEF Removed

LEMMA RemovedFollows ==
    ASSUME NEW o \in Owner, Allocated(o.songs, o.nextSong, {}, 0), NEW s \in DOMAIN o.songs
    PROVE  Removed(o, s) \in Owner /\ Follows(Removed(o, s), o)
<1> DEFINE songs == [t \in DOMAIN o.songs \ {s} |-> o.songs[t]]
<1>1. /\ o.revision \in Nat /\ o.nextSong \in Nat
      /\ o.songs \in [DOMAIN o.songs -> SongRow] /\ DOMAIN o.songs \subseteq Nat
  <2>1. \A Row, f : f \in Rows(Row) => f \in [DOMAIN f -> Row] /\ DOMAIN f \subseteq Nat
    BY DEF Rows
  <2> QED
    BY <2>1, OwnerParts
<1>2. songs \in Rows(SongRow) /\ DOMAIN songs = DOMAIN o.songs \ {s}
  BY <1>1, AreRows
<1>3. Removed(o, s) = [revision |-> o.revision + 1, nextRoot |-> o.nextRoot,
                       nextSong |-> o.nextSong, roots |-> o.roots, songs |-> songs,
                       binding |-> o.binding]
  BY RemovedIs
<1> HIDE DEF songs
<1> QED
  BY <1>1, <1>2, <1>3, OwnerParts DEF Owner, Follows, Allocated

LEMMA OverriddenIs ==
    ASSUME NEW o \in Owner, NEW s \in DOMAIN o.songs, NEW v
    PROVE  Overridden(o, s, v) =
               [revision |-> o.revision + 1, nextRoot |-> o.nextRoot, nextSong |-> o.nextSong,
                roots |-> o.roots, binding |-> o.binding,
                songs |-> [o.songs EXCEPT ![s].override = v]]
BY RevisedIs DEF Overridden

LEMMA OverriddenFollows ==
    ASSUME NEW o \in Owner, Allocated(o.songs, o.nextSong, {}, 0), NEW s \in DOMAIN o.songs,
           NEW v \in Overrides \cup {NoOverride}
    PROVE  Overridden(o, s, v) \in Owner /\ Follows(Overridden(o, s, v), o)
<1> DEFINE songs == [o.songs EXCEPT ![s].override = v]
<1>1. /\ o.revision \in Nat /\ o.nextSong \in Nat
      /\ o.songs \in [DOMAIN o.songs -> SongRow] /\ DOMAIN o.songs \subseteq Nat
  <2>1. \A Row, f : f \in Rows(Row) => f \in [DOMAIN f -> Row] /\ DOMAIN f \subseteq Nat
    BY DEF Rows
  <2> QED
    BY <2>1, OwnerParts
<1>2. songs \in [DOMAIN o.songs -> SongRow]
  BY <1>1 DEF SongRow
<1>3. songs \in Rows(SongRow) /\ DOMAIN songs = DOMAIN o.songs
  BY <1>1, <1>2, AreRows
<1>4. Overridden(o, s, v) = [revision |-> o.revision + 1, nextRoot |-> o.nextRoot,
                             nextSong |-> o.nextSong, roots |-> o.roots, songs |-> songs,
                             binding |-> o.binding]
  BY OverriddenIs
<1> HIDE DEF songs
<1> QED
  BY <1>1, <1>3, <1>4, OwnerParts DEF Owner, Follows, Allocated

-----------------------------------------------------------------------------
(* The invariants.                                                         *)

\* A Ready service knows what is in the store, and only a published save that
\* is not acknowledged yet lies between the store and what it has confirmed.
Known ==
    /\ call \in Calls
    /\ call # "idle" => service \in {"Ready", "Creating"}
    /\ call = "published" => value = Capture(staged)
    /\ service = "Ready" => Capture(owner) = confirmed
    /\ service = "Ready" /\ call # "published" => value = confirmed

\* Whatever can become the owner next has given new identities only beyond
\* those that callers have seen.
Identities ==
    /\ owner \in Owner /\ staged \in Owner
    /\ {value, confirmed} \subseteq Projection \cup {Absent}
    /\ Allocated(owner.songs, owner.nextSong, {}, 0)
    /\ exposed \subseteq {s \in Nat : s < owner.nextSong}
    /\ \A p \in {value, confirmed} : p # Absent => Follows(p, owner)
    /\ value = Absent => confirmed = Absent
    /\ confirmed = Absent => exposed = {} /\ owner = EmptyOwner
    /\ call # "idle" => Follows(staged, owner)

SInv == Known /\ Identities

Fresh == \A s \in DOMAIN owner'.songs \ DOMAIN owner.songs : s \notin exposed

LEMMA CapturedFollows ==
    ASSUME NEW o \in Owner, NEW n \in Owner, Follows(n, o)
    PROVE  Capture(n) \in Projection /\ Capture(n) # Absent /\ Follows(Capture(n), o)
BY CaptureIs, AbsentIsNone DEF Follows, Allocated

LEMMA InitHolds == Init => SInv
<1> SUFFICES ASSUME Init PROVE SInv
  OBVIOUS
<1>1. Known
  BY DEF Init, Known, Calls
<1>2. Identities
  BY EmptyIsOwner DEF Init, Identities, Allocated
<1> QED
  BY <1>1, <1>2 DEF SInv

\* A mutation leaves the store and the owner alone.
LEMMA MutateKeeps ==
    ASSUME SInv, Mutate
    PROVE  SInv'
<1>1. owner \in Owner /\ Allocated(owner.songs, owner.nextSong, {}, 0)
      /\ DOMAIN owner.binding = DOMAIN owner.roots
  BY OwnerParts DEF SInv, Identities
<1>2. Follows(owner, owner)
  BY <1>1, OwnerParts DEF Follows, Allocated
<1>3. \E n \in Owner : Follows(n, owner) /\ Stage(n) /\ service = "Ready"
  <2>1. CASE \E p \in Paths : RegisterRoot(p)
    BY <1>1, <2>1, RegisteredFollows DEF RegisterRoot, MayMutate
  <2>2. CASE \E p \in Paths, r \in DOMAIN owner.roots : ReattachRoot(r, p)
    BY <1>1, <1>2, <2>2, ReattachedFollows DEF ReattachRoot, MayMutate
  <2>3. CASE \E r \in DOMAIN owner.roots, found \in Findings : Scan(r, found)
    BY <1>1, <2>3, ScannedFollows DEF Scan, MayMutate
  <2>4. CASE \E s \in DOMAIN owner.songs, r \in DOMAIN owner.roots, l \in Locators :
                RelocateSong(s, r, l)
    BY <1>1, <2>4, RelocatedFollows DEF RelocateSong, MayMutate
  <2>5. CASE \E s \in DOMAIN owner.songs : RemoveSong(s)
    BY <1>1, <2>5, RemovedFollows DEF RemoveSong, MayMutate
  <2>6. CASE \E s \in DOMAIN owner.songs, v \in Overrides \cup {NoOverride} :
                ReplaceUserOverrides(s, v)
    BY <1>1, <1>2, <2>6, OverriddenFollows DEF ReplaceUserOverrides, MayMutate
  <2> QED
    BY <2>1, <2>2, <2>3, <2>4, <2>5, <2>6 DEF Mutate
<1>4. PICK n \in Owner : Follows(n, owner) /\ Stage(n) /\ service = "Ready"
  BY <1>3
<1>5. /\ call' = "staged" /\ staged' = n
      /\ UNCHANGED <<service, owner, baseline, value, confirmed, exposed>>
  BY <1>4 DEF Stage, storeVars
<1>6. service = "Ready" => value = confirmed
  <2>1. call = "idle"
    BY DEF Mutate, RegisterRoot, ReattachRoot, Scan, RelocateSong, RemoveSong,
           ReplaceUserOverrides, MayMutate
  <2> QED
    BY <2>1 DEF SInv, Known
<1>7. Known'
  BY <1>4, <1>5, <1>6 DEF SInv, Known, Calls
<1>8. Identities'
  BY <1>4, <1>5 DEF SInv, Identities
<1> QED
  BY <1>5, <1>7, <1>8 DEF SInv

LEMMA SaveKeeps ==
    ASSUME SInv, Save
    PROVE  SInv' /\ Fresh
<1>1. EmptyOwner \in Owner
  BY EmptyIsOwner
<1> USE DEF Fresh
<1>2. CASE SaveUnchanged \/ NotCommitted \/ Distrusted
  <2>1. /\ call = "staged" /\ EndCall /\ UNCHANGED <<owner, value, confirmed, exposed>>
        /\ service' = "Ready" => service = "Ready"
    BY <1>2 DEF SaveUnchanged, NotCommitted, Distrusted, AfterFailure, AfterDoubt, IsCreate, storeVars,
                SInv, Known
  <2>2. Known'
    BY <2>1 DEF SInv, Known, EndCall, Calls
  <2>3. Identities'
    BY <1>1, <2>1 DEF SInv, Identities, EndCall
  <2> QED
    BY <2>1, <2>2, <2>3 DEF SInv
<1>3. CASE Publish
  <2>1. /\ call = "staged" /\ call' = "published" /\ value' = Capture(staged)
        /\ UNCHANGED <<service, owner, staged, confirmed, exposed>>
    BY <1>3 DEF Publish
  <2>2. Known'
    BY <2>1 DEF SInv, Known, Calls
  <2>3. Identities'
    BY <2>1, CapturedFollows DEF SInv, Identities
  <2> QED
    BY <2>1, <2>2, <2>3 DEF SInv
<1>4. CASE Acknowledge
  <2>1. /\ value = Capture(staged) /\ confirmed' = value /\ value' = value
        /\ owner' = staged /\ service' = "Ready" /\ call' = "idle" /\ staged' = EmptyOwner
        /\ exposed' = exposed \cup DOMAIN staged.songs
    BY <1>4 DEF Acknowledge, SInv, Known, Synchronised, EndCall, Visible
  <2>2. /\ staged \in Owner /\ owner \in Owner /\ Follows(staged, owner)
        /\ exposed \subseteq {s \in Nat : s < owner.nextSong}
    BY <1>4 DEF Acknowledge, SInv, Identities
  <2>3. /\ staged.nextSong \in Nat /\ owner.nextSong \in Nat /\ DOMAIN staged.songs \subseteq Nat
    BY <2>2, OwnerParts, RowsAre
  <2>4. Allocated(staged.songs, staged.nextSong, {}, 0) /\ Follows(staged, staged)
    BY <2>2, <2>3 DEF Follows, Allocated
  <2>5. Capture(staged) \in Projection /\ Capture(staged) # Absent /\ Follows(Capture(staged), staged)
    BY <2>2, <2>4, CapturedFollows
  <2>6. exposed' \subseteq {s \in Nat : s < staged.nextSong}
    <3>1. \A s \in exposed : s \in Nat /\ s < staged.nextSong
      BY <2>2, <2>3 DEF Follows
    <3>2. \A s \in DOMAIN staged.songs : s \in Nat /\ s < staged.nextSong
      BY <2>3, <2>4 DEF Allocated
    <3> QED
      BY <2>1, <3>1, <3>2
  <2>7. Known'
    BY <2>1 DEF Known, Calls
  <2>8. Identities'
    BY <1>1, <2>1, <2>2, <2>4, <2>5, <2>6 DEF Identities
  <2>9. Fresh
    BY <2>1, <2>2, <2>3 DEF Follows, Allocated
  <2> QED
    BY <2>7, <2>8, <2>9 DEF SInv
<1>5. CASE CommitUncertain
  <2>1. /\ value' = value \/ (call = "staged" /\ value' = Capture(staged))
        /\ EndCall /\ service' \in {"none", "RecoveryRequired"}
        /\ UNCHANGED <<owner, confirmed, exposed>> /\ call # "idle"
    BY <1>5 DEF CommitUncertain, AfterDoubt, AfterFailure
  <2>2. Known'
    BY <2>1 DEF Known, EndCall, Calls
  <2>3. Identities'
    BY <1>1, <2>1, CapturedFollows DEF SInv, Identities, EndCall
  <2> QED
    BY <2>1, <2>2, <2>3 DEF SInv
<1> QED
  BY <1>2, <1>3, <1>4, <1>5 DEF Save

LEMMA BeginKeeps ==
    ASSUME SInv, Begin
    PROVE  SInv' /\ Fresh
<1> USE DEF Fresh
<1>1. CASE Open
  <2>1. /\ service = "none" /\ call = "idle" /\ value # Absent /\ confirmed' = value
        /\ value' = value /\ owner' = Restore(value) /\ Capture(owner') = value
        /\ service' = "Ready" /\ exposed' = exposed \cup DOMAIN owner'.songs
        /\ UNCHANGED <<call, staged>>
    BY <1>1 DEF Open, Synchronised, Visible, callVars, SInv, Known
  <2>2. /\ value \in Projection /\ Follows(value, owner) /\ owner \in Owner /\ staged \in Owner
        /\ exposed \subseteq {s \in Nat : s < owner.nextSong}
    BY <2>1 DEF SInv, Identities
  <2>3. owner' \in Owner /\ owner'.nextSong = value.nextSong /\ DOMAIN owner'.songs = DOMAIN value.songs
    BY <2>1, <2>2, RestoreIs
  <2>4. owner'.nextSong \in Nat /\ DOMAIN owner'.songs \subseteq Nat /\ owner.nextSong \in Nat
    BY <2>2, <2>3, OwnerParts, RowsAre
  <2>5. Allocated(owner'.songs, owner'.nextSong, {}, 0) /\ Follows(value, owner')
    BY <2>2, <2>3, <2>4 DEF Follows, Allocated
  <2>6. exposed' \subseteq {s \in Nat : s < owner'.nextSong}
    <3>1. \A s \in exposed : s \in Nat /\ s < owner'.nextSong
      BY <2>2, <2>3, <2>4 DEF Follows
    <3>2. \A s \in DOMAIN owner'.songs : s \in Nat /\ s < owner'.nextSong
      BY <2>4, <2>5 DEF Allocated
    <3> QED
      BY <2>1, <3>1, <3>2
  <2>7. Known'
    BY <2>1 DEF Known, Calls
  <2>8. Identities'
    BY <2>1, <2>2, <2>3, <2>5, <2>6 DEF Identities
  <2>9. Fresh
    BY <2>1, <2>2, <2>3, <2>4 DEF Follows, Allocated
  <2> QED
    BY <2>7, <2>8, <2>9 DEF SInv
<1>2. CASE OpenFails
  <2>1. /\ service = "none" /\ confirmed' = value
        /\ UNCHANGED <<service, owner, baseline, call, staged, value, exposed>>
    BY <1>2 DEF OpenFails, callVars
  <2>2. Known' /\ Identities'
    BY <2>1 DEF SInv, Known, Identities
  <2> QED
    BY <2>1, <2>2 DEF SInv
<1>3. ASSUME NEW o, Create(o), o = EmptyOwner \/ \E p \in Paths : o = Registered(EmptyOwner, p)
      PROVE  SInv' /\ UNCHANGED owner
  <2>1. /\ value = Absent /\ service' = "Creating" /\ call' = "staged" /\ staged' = o
        /\ UNCHANGED <<owner, value, confirmed, exposed>>
    BY <1>3 DEF Create, storeVars
  <2>2. owner = EmptyOwner
    BY <2>1 DEF SInv, Identities
  <2>3. o \in Owner /\ Follows(o, owner)
    <3>1. Allocated(EmptyOwner.songs, EmptyOwner.nextSong, {}, 0) /\ Follows(EmptyOwner, EmptyOwner)
      BY EmptyIsOwner DEF Allocated, Follows
    <3> QED
      BY <1>3, <2>2, <3>1, EmptyIsOwner, RegisteredFollows
  <2>4. Known'
    BY <2>1 DEF Known, Calls
  <2>5. Identities'
    BY <2>1, <2>3 DEF SInv, Identities
  <2> QED
    BY <2>1, <2>4, <2>5 DEF SInv
<1> QED
  BY <1>1, <1>2, <1>3 DEF Begin

\* The end of a service, in order or not.
LEMMA EndKeeps ==
    ASSUME SInv, LoseAuthority \/ Close \/ Crash \/ PowerCut \/ UNCHANGED vars
    PROVE  SInv' /\ Fresh
<1>1. EmptyOwner \in Owner
  BY EmptyIsOwner
<1>2. CASE LoseAuthority \/ Close \/ UNCHANGED vars
  BY <1>2 DEF LoseAuthority, Close, vars, callVars, storeVars, SInv, Known, Identities, Fresh
<1>3. CASE Crash
  BY <1>1, <1>3 DEF Crash, EndCall, storeVars, SInv, Known, Identities, Calls, Fresh
<1>4. CASE PowerCut
  BY <1>1, <1>4 DEF PowerCut, EndCall, SInv, Known, Identities, Calls, Fresh
<1> QED
  BY <1>2, <1>3, <1>4

LEMMA StepHolds == SInv /\ [Next]_vars => SInv' /\ Fresh
<1> SUFFICES ASSUME SInv, [Next]_vars PROVE SInv' /\ Fresh
  OBVIOUS
<1>1. CASE Mutate
  <2>1. UNCHANGED owner
    BY <1>1 DEF Mutate, RegisterRoot, ReattachRoot, Scan, RelocateSong, RemoveSong,
                ReplaceUserOverrides, Stage
  <2> QED
    BY <1>1, <2>1, MutateKeeps DEF Fresh
<1> QED
  BY <1>1, SaveKeeps, BeginKeeps, EndKeeps DEF Next

-----------------------------------------------------------------------------
\* The strengthened invariant of the service.
THEOREM Invariant == Spec => []SInv
BY InitHolds, StepHolds, PTL DEF Spec

\* Between calls a Ready service shows the checkpoint that is in the store and
\* durable, for any sequence of mutations, failed and uncertain saves, crashes,
\* power cuts and recoveries.
THEOREM Durable == Spec => []LiveIsDurable
<1>1. SInv => LiveIsDurable
  BY DEF SInv, Known, LiveIsDurable
<1> QED
  BY <1>1, Invariant, PTL

\* An identity that callers have seen is never given to another song, through
\* scans that allocate, removals, uncertain commits and recoveries.
THEOREM NeverReused == Spec => IdentityNeverReused
<1>1. SInv /\ [Next]_vars =>
          [\A s \in DOMAIN owner'.songs \ DOMAIN owner.songs : s \notin exposed]_vars
  BY StepHolds DEF Fresh
<1> QED
  BY <1>1, Invariant, PTL DEF Spec, IdentityNeverReused

-----------------------------------------------------------------------------
(* What an owner says of files.                                            *)

\* Of an owner, or of a projection: a song has a root, and no two songs of a
\* root have one name.
Tidy(x) ==
    /\ \A r \in DOMAIN x.roots : r < x.nextRoot
    /\ \A s \in DOMAIN x.songs : x.songs[s].root \in DOMAIN x.roots
    /\ \A s, t \in DOMAIN x.songs :
          s # t /\ x.songs[s].root = x.songs[t].root =>
              ~Aliases(x.songs[s].locator, x.songs[t].locator)

\* A song's bytes were read under the directory its root is attached to.
Current(o, song) ==
    /\ song.state = "Ready" => song.source # NoPath
    /\ song.source # NoPath =>
          Attached(o, song.root) /\ o.binding[song.root].path = song.source

Placed(o) ==
    /\ \A r \in DOMAIN o.binding : Attached(o, r) => o.binding[r].path \in Paths
    /\ \A q, r \in DOMAIN o.binding :
          q # r /\ Attached(o, q) /\ Attached(o, r) =>
              ~Overlap(o.binding[q].path, o.binding[r].path)
    /\ \A s \in DOMAIN o.songs : Current(o, o.songs[s])

Good(o) == Tidy(o) /\ Placed(o)

LEMMA EmptyIsGood == Good(EmptyOwner)
BY DEF EmptyOwner, Good, Tidy, Placed

LEMMA CaptureIsTidy ==
    ASSUME NEW o \in Owner, Tidy(o)
    PROVE  Tidy(Capture(o))
<1>1. /\ DOMAIN Capture(o).roots = DOMAIN o.roots /\ Capture(o).nextRoot = o.nextRoot
      /\ DOMAIN Capture(o).songs = DOMAIN o.songs
      /\ \A s \in DOMAIN o.songs : Capture(o).songs[s].root = o.songs[s].root
                                /\ Capture(o).songs[s].locator = o.songs[s].locator
  BY DEF Capture
<1> QED
  BY <1>1 DEF Tidy

LEMMA RestoreIsGood ==
    ASSUME NEW p \in Projection, Tidy(p)
    PROVE  Good(Restore(p))
<1>1. /\ DOMAIN Restore(p).roots = DOMAIN p.roots /\ Restore(p).nextRoot = p.nextRoot
      /\ DOMAIN Restore(p).songs = DOMAIN p.songs
      /\ DOMAIN Restore(p).binding = DOMAIN p.roots
      /\ \A s \in DOMAIN p.songs : /\ Restore(p).songs[s].root = p.songs[s].root
                                 /\ Restore(p).songs[s].locator = p.songs[s].locator
                                 /\ Restore(p).songs[s].state = "Invalid"
                                 /\ Restore(p).songs[s].source = NoPath
      /\ \A r \in DOMAIN p.roots : Restore(p).binding[r].attached = FALSE
  BY DEF Restore
<1> QED
  BY <1>1 DEF Good, Tidy, Placed, Current, Attached

\* The tables as functions.
LEMMA Tables ==
    ASSUME NEW o \in Owner
    PROVE  /\ o.nextRoot \in Nat /\ o.nextSong \in Nat
           /\ o.roots \in [DOMAIN o.roots -> RootRow] /\ DOMAIN o.roots \subseteq Nat
           /\ o.binding \in [DOMAIN o.roots -> BindingRow]
           /\ o.songs \in [DOMAIN o.songs -> SongRow] /\ DOMAIN o.songs \subseteq Nat
<1>1. \A Row, f : f \in Rows(Row) => f \in [DOMAIN f -> Row] /\ DOMAIN f \subseteq Nat
  BY DEF Rows
<1> QED
  BY <1>1, OwnerParts

LEMMA UnverifiedIs ==
    ASSUME NEW song \in SongRow
    PROVE  /\ Unverified(song).root = song.root /\ Unverified(song).locator = song.locator
           /\ Unverified(song).state = "Invalid" /\ Unverified(song).source = NoPath
BY DEF Unverified, SongRow

LEMMA RegisteredIsGood ==
    ASSUME NEW o \in Owner, Good(o), NEW p \in Paths, Disjoint(o, o.nextRoot, p)
    PROVE  Good(Registered(o, p))
<1> DEFINE n == Registered(o, p)
           fresh == [path |-> p, attached |-> TRUE, savedHint |-> NoPath]
<1>1. /\ n.nextRoot = o.nextRoot + 1 /\ n.songs = o.songs
      /\ DOMAIN n.roots = DOMAIN o.roots \cup {o.nextRoot}
      /\ n.binding = Extend(o.binding, o.nextRoot, fresh)
  BY DEF Registered, Extend
<1>2. o.nextRoot \notin DOMAIN o.roots /\ DOMAIN o.binding = DOMAIN o.roots
  BY Tables, OwnerParts DEF Good, Tidy
<1>3. /\ DOMAIN n.binding = DOMAIN o.roots \cup {o.nextRoot}
      /\ \A r \in DOMAIN o.roots : n.binding[r] = o.binding[r]
      /\ n.binding[o.nextRoot].path = p /\ n.binding[o.nextRoot].attached = TRUE
  BY <1>1, <1>2 DEF Extend
<1> HIDE DEF n
<1>4. Tidy(n)
  BY <1>1, Tables DEF Good, Tidy
<1>5. \A r \in DOMAIN n.binding : Attached(n, r) => n.binding[r].path \in Paths
  BY <1>2, <1>3 DEF Good, Placed, Attached
<1>6. ASSUME NEW q \in DOMAIN n.binding, NEW r \in DOMAIN n.binding, q # r,
             Attached(n, q), Attached(n, r)
      PROVE  ~Overlap(n.binding[q].path, n.binding[r].path)
  <2>1. \A k \in DOMAIN o.roots : Attached(n, k) => ~Overlap(o.binding[k].path, p)
    BY <1>2, <1>3 DEF Disjoint, Attached
  <2>2. CASE q = o.nextRoot
    BY <1>3, <1>6, <2>1, <2>2 DEF Overlap
  <2>3. CASE r = o.nextRoot
    BY <1>3, <1>6, <2>1, <2>3
  <2>4. CASE q \in DOMAIN o.roots /\ r \in DOMAIN o.roots
    BY <1>2, <1>3, <1>6, <2>4 DEF Good, Placed, Attached
  <2> QED
    BY <1>3, <2>2, <2>3, <2>4
<1>7. ASSUME NEW s \in DOMAIN n.songs PROVE Current(n, n.songs[s])
  <2>1. n.songs[s] = o.songs[s] /\ Current(o, o.songs[s]) /\ o.songs[s].root \in DOMAIN o.roots
    BY <1>1 DEF Good, Tidy, Placed
  <2>2. n.binding[o.songs[s].root] = o.binding[o.songs[s].root]
    BY <1>3, <2>1
  <2> QED
    BY <2>1, <2>2 DEF Current, Attached
<1> QED
  BY <1>4, <1>5, <1>6, <1>7 DEF Good, Placed, n

LEMMA ReattachedIsGood ==
    ASSUME NEW o \in Owner, Good(o), NEW r \in DOMAIN o.roots, NEW p \in Paths,
           CanReattach(o, r, p)
    PROVE  Good(Reattached(o, r, p))
<1> DEFINE n == Reattached(o, r, p)
<1>1. /\ n.nextRoot = o.nextRoot /\ n.songs = SongsDetached(o, r)
      /\ n.roots = [o.roots EXCEPT ![r].attachmentGeneration = NextGeneration(@)]
      /\ n.binding = [o.binding EXCEPT ![r].path = p, ![r].attached = TRUE]
  BY DEF Reattached
<1>2. DOMAIN n.roots = DOMAIN o.roots /\ DOMAIN o.binding = DOMAIN o.roots
  BY <1>1, OwnerParts
<1>3. /\ DOMAIN n.binding = DOMAIN o.roots
      /\ \A k \in DOMAIN o.roots \ {r} : n.binding[k] = o.binding[k]
      /\ n.binding[r].path = p /\ n.binding[r].attached = TRUE
  BY <1>1, <1>2, Tables DEF BindingRow
<1>4. /\ DOMAIN n.songs = DOMAIN o.songs
      /\ \A s \in DOMAIN o.songs :
            /\ n.songs[s].root = o.songs[s].root /\ n.songs[s].locator = o.songs[s].locator
            /\ o.songs[s].root = r => n.songs[s].source = NoPath /\ n.songs[s].state = "Invalid"
            /\ o.songs[s].root # r => n.songs[s] = o.songs[s]
  BY <1>1, Tables, UnverifiedIs DEF SongsDetached
<1> HIDE DEF n
<1>5. Tidy(n)
  BY <1>1, <1>2, <1>4 DEF Good, Tidy
<1>6. \A k \in DOMAIN n.binding : Attached(n, k) => n.binding[k].path \in Paths
  BY <1>2, <1>3 DEF Good, Placed, Attached
<1>7. ASSUME NEW q \in DOMAIN n.binding, NEW k \in DOMAIN n.binding, q # k,
             Attached(n, q), Attached(n, k)
      PROVE  ~Overlap(n.binding[q].path, n.binding[k].path)
  <2>1. \A j \in DOMAIN o.roots \ {r} : Attached(n, j) => ~Overlap(o.binding[j].path, p)
    BY <1>2, <1>3 DEF CanReattach, Disjoint, Attached
  <2>2. CASE q = r
    BY <1>3, <1>7, <2>1, <2>2 DEF Overlap
  <2>3. CASE k = r
    BY <1>3, <1>7, <2>1, <2>3
  <2>4. CASE q # r /\ k # r
    BY <1>2, <1>3, <1>7, <2>4 DEF Good, Placed, Attached
  <2> QED
    BY <2>2, <2>3, <2>4
<1>8. ASSUME NEW s \in DOMAIN n.songs PROVE Current(n, n.songs[s])
  <2>1. CASE o.songs[s].root = r
    BY <1>4, <2>1 DEF Current
  <2>2. CASE o.songs[s].root # r
    BY <1>3, <1>4, <2>2 DEF Good, Tidy, Placed, Current, Attached
  <2> QED
    BY <2>1, <2>2
<1> QED
  BY <1>5, <1>6, <1>7, <1>8 DEF Good, Placed, n

LEMMA RescannedIs ==
    ASSUME NEW o, NEW r, NEW song \in SongRow, NEW found
    PROVE  /\ Rescanned(o, r, song, found).root = song.root
           /\ Rescanned(o, r, song, found).locator = song.locator
           /\ song.locator \in DOMAIN found =>
                 /\ Rescanned(o, r, song, found).state = found[song.locator].state
                 /\ Rescanned(o, r, song, found).source = SourceRead(o, r, found[song.locator])
           /\ song.locator \notin DOMAIN found =>
                 /\ Rescanned(o, r, song, found).state = "Missing"
                 /\ Rescanned(o, r, song, found).source = NoPath
<1>1. CASE song.locator \in DOMAIN found
  <2> DEFINE state == found[song.locator].state
             source == SourceRead(o, r, found[song.locator])
  <2>1. Rescanned(o, r, song, found) = [song EXCEPT !.state = state, !.source = source]
    BY <1>1 DEF Rescanned
  <2> HIDE DEF state, source
  <2>2. /\ [song EXCEPT !.state = state, !.source = source].root = song.root
        /\ [song EXCEPT !.state = state, !.source = source].locator = song.locator
        /\ [song EXCEPT !.state = state, !.source = source].state = state
        /\ [song EXCEPT !.state = state, !.source = source].source = source
    BY DEF SongRow
  <2> QED
    BY <1>1, <2>1, <2>2 DEF state, source
<1>2. CASE song.locator \notin DOMAIN found
  BY <1>2 DEF Rescanned, SongRow
<1> QED
  BY <1>1, <1>2

LEMMA ScannedIsGood ==
    ASSUME NEW o \in Owner, Good(o), NEW r \in DOMAIN o.roots, NEW found \in Findings,
           CanScan(o, r, found), Allocated(o.songs, o.nextSong, {}, 0)
    PROVE  Good(Scanned(o, r, found))
<1> DEFINE fresh == NewLocators(o, r, found)
           n == Cardinality(fresh)
           ids == o.nextSong..(o.nextSong + n - 1)
           name == CHOOSE f \in [ids -> fresh] : \A i, j \in ids : f[i] = f[j] => i = j
           new == Scanned(o, r, found)
<1>1. /\ o.nextSong \in Nat /\ o.songs \in [DOMAIN o.songs -> SongRow]
      /\ DOMAIN o.songs \subseteq Nat /\ DOMAIN o.binding = DOMAIN o.roots
      /\ \A s \in DOMAIN o.songs : s < o.nextSong
  BY Tables, OwnerParts DEF Allocated
<1>2. /\ DOMAIN found \subseteq Locators
      /\ \A l \in DOMAIN found : found[l] \in Candidate /\ (found[l].state = "Ready" => found[l].read)
  BY DEF Findings
<1>3. IsFiniteSet(fresh) /\ fresh \subseteq DOMAIN found
  BY <1>2, LocatorsAssumption, FS_Subset DEF NewLocators
<1>4. n \in Nat /\ name \in [ids -> fresh] /\ \A i, j \in ids : name[i] = name[j] => i = j
  <2> HIDE DEF fresh
  <2>1. n \in Nat /\ \E f \in [ids -> fresh] : \A i, j \in ids : f[i] = f[j] => i = j
    BY <1>1, <1>3, Numbering
  <2> QED
    BY <2>1
<1>5. /\ new.nextRoot = o.nextRoot /\ new.roots = o.roots /\ new.binding = o.binding
      /\ new.songs = [s \in DOMAIN o.songs \cup ids |->
            IF s \notin DOMAIN o.songs
            THEN [root |-> r, locator |-> name[s], state |-> found[name[s]].state,
                  source |-> SourceRead(o, r, found[name[s]]), override |-> NoOverride]
            ELSE IF o.songs[s].root = r
                 THEN Rescanned(o, r, o.songs[s], found)
                 ELSE o.songs[s]]
  BY DEF Scanned
<1> HIDE DEF n, name, new
<1>6. \A s \in ids : s \notin DOMAIN o.songs
  BY <1>1, <1>4
<1>7. /\ DOMAIN new.songs = DOMAIN o.songs \cup ids
      /\ \A s \in ids :
            /\ new.songs[s].root = r /\ new.songs[s].locator = name[s]
            /\ new.songs[s].state = found[name[s]].state
            /\ new.songs[s].source = SourceRead(o, r, found[name[s]])
      /\ \A s \in DOMAIN o.songs :
            /\ o.songs[s].root = r => new.songs[s] = Rescanned(o, r, o.songs[s], found)
            /\ o.songs[s].root # r => new.songs[s] = o.songs[s]
  BY <1>5, <1>6
<1>8. \A s \in DOMAIN o.songs : /\ new.songs[s].root = o.songs[s].root
                              /\ new.songs[s].locator = o.songs[s].locator
  BY <1>1, <1>7, RescannedIs
<1>9. ASSUME NEW s \in DOMAIN new.songs, NEW t \in DOMAIN new.songs, s # t,
             new.songs[s].root = new.songs[t].root
      PROVE  ~Aliases(new.songs[s].locator, new.songs[t].locator)
  <2>1. \A i \in ids, u \in DOMAIN o.songs :
          o.songs[u].root = r => ~Aliases(o.songs[u].locator, name[i])
    BY <1>4 DEF CanScan, NoCaseRename, KnownLocators, SongsOf
  <2>2. CASE s \in DOMAIN o.songs /\ t \in DOMAIN o.songs
    BY <1>8, <1>9, <2>2 DEF Good, Tidy
  <2>3. CASE s \in ids /\ t \in ids
    <3>1. name[s] \in DOMAIN found /\ name[t] \in DOMAIN found /\ name[s] # name[t]
      BY <1>3, <1>4, <1>9, <2>3
    <3> QED
      BY <1>7, <2>3, <3>1 DEF CanScan, Unambiguous
  <2>4. CASE s \in ids /\ t \in DOMAIN o.songs
    BY <1>7, <1>8, <1>9, <2>1, <2>4 DEF Aliases
  <2>5. CASE s \in DOMAIN o.songs /\ t \in ids
    BY <1>7, <1>8, <1>9, <2>1, <2>5
  <2> QED
    BY <1>7, <2>2, <2>3, <2>4, <2>5
<1>10. Tidy(new)
  BY <1>5, <1>7, <1>8, <1>9 DEF Good, Tidy
<1>11. Attached(o, r) /\ o.binding[r].path \in Paths /\ o.binding[r].path # NoPath
  BY <1>1, NoPathAssumption DEF CanScan, Good, Placed
<1>12. ASSUME NEW s \in DOMAIN new.songs PROVE Current(new, new.songs[s])
  <2>1. \A l \in DOMAIN found :
          /\ found[l].state = "Ready" => SourceRead(o, r, found[l]) # NoPath
          /\ SourceRead(o, r, found[l]) \in {o.binding[r].path, NoPath}
    BY <1>2, <1>11 DEF SourceRead
  <2>2. CASE s \in ids
    <3>1. name[s] \in DOMAIN found
      BY <1>3, <1>4, <2>2
    <3> QED
      BY <1>5, <1>7, <1>11, <2>1, <2>2, <3>1 DEF Current, Attached
  <2>3. CASE s \in DOMAIN o.songs /\ o.songs[s].root = r
    <3>1. new.songs[s] = Rescanned(o, r, o.songs[s], found) /\ o.songs[s] \in SongRow
      BY <1>1, <1>7, <2>3
    <3>2. new.songs[s].root = r
      BY <2>3, <3>1, RescannedIs
    <3>3. CASE o.songs[s].locator \in DOMAIN found
      <4>1. /\ new.songs[s].state = found[o.songs[s].locator].state
            /\ new.songs[s].source = SourceRead(o, r, found[o.songs[s].locator])
        BY <3>1, <3>3, RescannedIs
      <4> QED
        BY <1>5, <1>11, <2>1, <3>2, <3>3, <4>1 DEF Current, Attached
    <3>4. CASE o.songs[s].locator \notin DOMAIN found
      <4>1. new.songs[s].state = "Missing" /\ new.songs[s].source = NoPath
        BY <3>1, <3>4, RescannedIs
      <4> QED
        BY <4>1 DEF Current
    <3> QED
      BY <3>3, <3>4
  <2>4. CASE s \in DOMAIN o.songs /\ o.songs[s].root # r
    BY <1>5, <1>7, <2>4 DEF Good, Placed, Current, Attached
  <2> QED
    BY <1>7, <2>2, <2>3, <2>4
<1> QED
  BY <1>5, <1>10, <1>12 DEF Good, Placed, Attached, new

LEMMA RelocatedIsGood ==
    ASSUME NEW o \in Owner, Good(o), NEW s \in DOMAIN o.songs, NEW r \in DOMAIN o.roots,
           NEW l \in Locators, CanRelocate(o, s, r, l)
    PROVE  Good(Relocated(o, s, r, l))
<1> DEFINE n == Relocated(o, s, r, l)
           row == Moved(o, s, r, l)
<1>1. /\ n.nextRoot = o.nextRoot /\ n.roots = o.roots /\ n.binding = o.binding
      /\ n.songs = [o.songs EXCEPT ![s] = row]
  BY RelocatedIs
<1>2. /\ row.root = r /\ row.locator = l /\ row.state = "Invalid" /\ row.source = NoPath
  <2>1. /\ [o.songs[s] EXCEPT !.root = r, !.locator = l] \in SongRow
        /\ [o.songs[s] EXCEPT !.root = r, !.locator = l].root = r
        /\ [o.songs[s] EXCEPT !.root = r, !.locator = l].locator = l
    BY Tables DEF SongRow
  <2> QED
    BY <2>1, UnverifiedIs DEF Moved, AfterRelocation
<1> HIDE DEF n, row
<1>3. /\ DOMAIN n.songs = DOMAIN o.songs /\ n.songs[s] = row
      /\ \A t \in DOMAIN o.songs \ {s} : n.songs[t] = o.songs[t]
  BY <1>1
<1>4. \A t \in DOMAIN o.songs \ {s} :
        o.songs[t].root = r => ~Aliases(o.songs[t].locator, l) /\ ~Aliases(l, o.songs[t].locator)
  BY DEF CanRelocate, SongsOf, Aliases
<1>5. Tidy(n)
  <2>1. ASSUME NEW t \in DOMAIN n.songs, NEW u \in DOMAIN n.songs, t # u,
               n.songs[t].root = n.songs[u].root
        PROVE  ~Aliases(n.songs[t].locator, n.songs[u].locator)
    BY <1>2, <1>3, <1>4, <2>1 DEF Good, Tidy
  <2> QED
    BY <1>1, <1>2, <1>3, <2>1 DEF Good, Tidy
<1>6. ASSUME NEW t \in DOMAIN n.songs PROVE Current(n, n.songs[t])
  BY <1>1, <1>2, <1>3 DEF Good, Placed, Current, Attached
<1> QED
  BY <1>1, <1>5, <1>6 DEF Good, Placed, Attached, n

LEMMA RemovedIsGood ==
    ASSUME NEW o \in Owner, Good(o), NEW s \in DOMAIN o.songs
    PROVE  Good(Removed(o, s))
<1> DEFINE n == Removed(o, s)
           songs == [t \in DOMAIN o.songs \ {s} |-> o.songs[t]]
<1>1. /\ n.nextRoot = o.nextRoot /\ n.roots = o.roots /\ n.binding = o.binding
      /\ n.songs = songs
  <2>1. n = [revision |-> o.revision + 1, nextRoot |-> o.nextRoot, nextSong |-> o.nextSong,
             roots |-> o.roots, songs |-> songs, binding |-> o.binding]
    BY RemovedIs
  <2> HIDE DEF songs, n
  <2> QED
    BY <2>1
<1> HIDE DEF n
<1>2. DOMAIN n.songs \subseteq DOMAIN o.songs /\ \A t \in DOMAIN n.songs : n.songs[t] = o.songs[t]
  BY <1>1
<1> QED
  BY <1>1, <1>2 DEF Good, Tidy, Placed, Current, Attached, n

LEMMA OverriddenIsGood ==
    ASSUME NEW o \in Owner, Good(o), NEW s \in DOMAIN o.songs, NEW v
    PROVE  Good(Overridden(o, s, v))
<1> DEFINE n == Overridden(o, s, v)
<1>1. /\ n.nextRoot = o.nextRoot /\ n.roots = o.roots /\ n.binding = o.binding
      /\ n.songs = [o.songs EXCEPT ![s].override = v]
  BY OverriddenIs
<1> HIDE DEF n
<1>2. /\ DOMAIN n.songs = DOMAIN o.songs
      /\ \A t \in DOMAIN n.songs :
            /\ n.songs[t].root = o.songs[t].root /\ n.songs[t].locator = o.songs[t].locator
            /\ n.songs[t].state = o.songs[t].state /\ n.songs[t].source = o.songs[t].source
  BY <1>1, Tables DEF SongRow
<1> QED
  BY <1>1, <1>2 DEF Good, Tidy, Placed, Current, Attached, n

-----------------------------------------------------------------------------
(* They hold of whatever can become the owner, or what the store holds.    *)
FInv ==
    /\ SInv
    /\ Good(owner) /\ Good(staged)
    /\ \A p \in {value, confirmed} : p # Absent => Tidy(p)

LEMMA FilesInit == Init => FInv
BY InitHolds, EmptyIsGood DEF Init, FInv

\* What a mutation stages is as good as the owner it was made of.
LEMMA StagedIsGood ==
    ASSUME FInv, Mutate
    PROVE  Good(staged') /\ UNCHANGED <<owner, value, confirmed>>
<1>1. /\ owner \in Owner /\ Allocated(owner.songs, owner.nextSong, {}, 0) /\ Good(owner)
      /\ DOMAIN owner.binding = DOMAIN owner.roots
  BY OwnerParts DEF FInv, SInv, Identities
<1>2. \E n : Good(n) /\ Stage(n)
  <2>1. CASE \E p \in Paths : RegisterRoot(p)
    BY <1>1, <2>1, RegisteredIsGood DEF RegisterRoot, CanRegister
  <2>2. CASE \E p \in Paths, r \in DOMAIN owner.roots : ReattachRoot(r, p)
    BY <1>1, <2>2, ReattachedIsGood DEF ReattachRoot
  <2>3. CASE \E r \in DOMAIN owner.roots, found \in Findings : Scan(r, found)
    BY <1>1, <2>3, ScannedIsGood DEF Scan
  <2>4. CASE \E s \in DOMAIN owner.songs, r \in DOMAIN owner.roots, l \in Locators :
                RelocateSong(s, r, l)
    BY <1>1, <2>4, RelocatedIsGood DEF RelocateSong
  <2>5. CASE \E s \in DOMAIN owner.songs : RemoveSong(s)
    BY <1>1, <2>5, RemovedIsGood DEF RemoveSong
  <2>6. CASE \E s \in DOMAIN owner.songs, v \in Overrides \cup {NoOverride} :
                ReplaceUserOverrides(s, v)
    BY <1>1, <2>6, OverriddenIsGood DEF ReplaceUserOverrides
  <2> QED
    BY <2>1, <2>2, <2>3, <2>4, <2>5, <2>6 DEF Mutate
<1> QED
  BY <1>2 DEF Stage, storeVars

\* A library is created from a good owner, and a restored one is good.
LEMMA BegunIsGood ==
    ASSUME FInv, Begin
    PROVE  FInv'
<1>1. SInv'
  BY BeginKeeps DEF FInv
<1>2. CASE Open
  <2>1. value # Absent /\ owner' = Restore(value) /\ confirmed' = value /\ UNCHANGED <<staged, value>>
    BY <1>2 DEF Open, Synchronised, callVars
  <2>2. value \in Projection /\ Tidy(value)
    BY <2>1 DEF FInv, SInv, Identities
  <2> QED
    BY <1>1, <2>1, <2>2, RestoreIsGood DEF FInv
<1>3. CASE OpenFails
  BY <1>1, <1>3 DEF OpenFails, callVars, FInv
<1>4. ASSUME NEW o, Create(o), Good(o) PROVE FInv'
  BY <1>1, <1>4 DEF Create, storeVars, FInv
<1>5. \A p \in Paths : Good(Registered(EmptyOwner, p))
  <2>1. \A p \in Paths : Disjoint(EmptyOwner, EmptyOwner.nextRoot, p)
    BY DEF Disjoint, EmptyOwner
  <2> QED
    BY <2>1, EmptyIsOwner, EmptyIsGood, RegisteredIsGood
<1> QED
  BY <1>2, <1>3, <1>4, <1>5, EmptyIsGood DEF Begin

LEMMA FilesStep == FInv /\ [Next]_vars => FInv'
<1> SUFFICES ASSUME FInv, [Next]_vars PROVE FInv'
  OBVIOUS
<1>1. SInv'
  BY StepHolds DEF FInv
<1>2. CASE Mutate
  BY <1>1, <1>2, StagedIsGood DEF FInv
<1>3. CASE Publish \/ CommitUncertain
  <2>1. /\ owner' = owner /\ confirmed' = confirmed /\ staged' \in {staged, EmptyOwner}
        /\ value' \in {value, Capture(staged)}
    BY <1>3 DEF Publish, CommitUncertain, EndCall
  <2>2. Tidy(Capture(staged))
    BY CaptureIsTidy DEF FInv, SInv, Identities, Good
  <2> QED
    BY <1>1, <2>1, <2>2, EmptyIsGood DEF FInv
<1>4. CASE Acknowledge
  BY <1>1, <1>4, EmptyIsGood DEF Acknowledge, Synchronised, EndCall, FInv
<1>5. CASE SaveUnchanged \/ NotCommitted \/ Distrusted \/ Crash \/ PowerCut
  <2>1. /\ owner' = owner /\ staged' = EmptyOwner /\ confirmed' = confirmed
        /\ value' \in {value, confirmed}
    BY <1>5 DEF SaveUnchanged, NotCommitted, Distrusted, Crash, PowerCut, EndCall, storeVars
  <2> QED
    BY <1>1, <2>1, EmptyIsGood DEF FInv
<1>6. CASE LoseAuthority \/ Close \/ UNCHANGED vars
  BY <1>1, <1>6 DEF LoseAuthority, Close, vars, callVars, storeVars, FInv
<1> QED
  BY <1>2, <1>3, <1>4, <1>5, <1>6, BegunIsGood DEF Next, Save

THEOREM FilesInvariant == Spec => []FInv
BY FilesInit, FilesStep, PTL DEF Spec

\* What the catalog knows of a song's bytes was read under the directory its
\* root is attached to, through reattachments, relocations, scans and
\* restored checkpoints.
THEOREM SourcesCurrent == Spec => []SourceIsCurrent
<1>1. FInv => SourceIsCurrent
  BY DEF FInv, Good, Placed, Current, SourceIsCurrent
<1> QED
  BY <1>1, FilesInvariant, PTL

\* Attached roots are never nested and no two songs of a root have names
\* equal up to case, so no file has two entries.
THEOREM OneEntry == Spec => []OneEntryPerFile
<1>1. FInv => OneEntryPerFile
  BY DEF FInv, Good, Tidy, Placed, OneEntryPerFile
<1> QED
  BY <1>1, FilesInvariant, PTL

-----------------------------------------------------------------------------
(* What the store's history rule says of a mutation.                       *)

\* A root as it was, or attached anew.
RootKept(o, n, r) ==
    \/ n.roots[r] = o.roots[r] /\ n.binding[r] = o.binding[r]
    \/ /\ n.roots[r].attachmentGeneration > o.roots[r].attachmentGeneration
       /\ n.roots[r].policy = o.roots[r].policy

Continues(o, n) ==
    /\ n.revision > o.revision /\ n.nextRoot >= o.nextRoot
    /\ \A r \in DOMAIN n.roots \ DOMAIN o.roots : r >= o.nextRoot
    /\ DOMAIN o.roots \subseteq DOMAIN n.roots
    /\ \A r \in DOMAIN o.roots : RootKept(o, n, r)

LEMMA ContinuedIsHistory ==
    ASSUME NEW o \in Owner, NEW n \in Owner, Follows(n, o), Continues(o, n)
    PROVE  Rule!History(Capture(o), Capture(n))
<1>1. \A x \in Owner :
        /\ Capture(x).catalogRevision = x.revision /\ Capture(x).nextRoot = x.nextRoot
        /\ Capture(x).nextSong = x.nextSong
        /\ DOMAIN Capture(x).roots = DOMAIN x.roots /\ DOMAIN Capture(x).songs = DOMAIN x.songs
        /\ \A r \in DOMAIN x.roots :
              /\ Capture(x).roots[r].attachmentGeneration = x.roots[r].attachmentGeneration
              /\ Capture(x).roots[r].policy = x.roots[r].policy
              /\ Capture(x).roots[r].hint = IF Attached(x, r) THEN x.binding[r].path
                                            ELSE x.binding[r].savedHint
  BY DEF Capture
<1>2. ASSUME NEW r \in DOMAIN o.roots
      PROVE  Rule!RootContinues(Capture(o).roots[r], Capture(n).roots[r])
  <2>1. r \in DOMAIN n.roots /\ RootKept(o, n, r)
    BY DEF Continues
  <2>2. /\ o.roots[r].attachmentGeneration \in Nat /\ n.roots[r].attachmentGeneration \in Nat
    BY <2>1, Tables DEF RootRow
  <2> QED
    BY <1>1, <2>1, <2>2 DEF RootKept, Attached, Rule!RootContinues
<1> QED
  BY <1>1, <1>2 DEF Continues, Follows, Allocated, Rule!History

LEMMA RegisteredContinues ==
    ASSUME NEW o \in Owner, Good(o), NEW p
    PROVE  Continues(o, Registered(o, p))
<1> DEFINE n == Registered(o, p)
<1>1. /\ n.revision = o.revision + 1 /\ n.nextRoot = o.nextRoot + 1
      /\ DOMAIN n.roots = DOMAIN o.roots \cup {o.nextRoot}
      /\ \A r \in DOMAIN o.roots : r # o.nextRoot => n.roots[r] = o.roots[r]
      /\ \A r \in DOMAIN o.binding : r # o.nextRoot => n.binding[r] = o.binding[r]
  BY DEF Registered, Extend
<1>2. /\ o.revision \in Nat /\ o.nextRoot \in Nat /\ o.nextRoot \notin DOMAIN o.roots
      /\ DOMAIN o.binding = DOMAIN o.roots
  BY OwnerParts, Tables DEF Good, Tidy
<1> HIDE DEF n
<1> QED
  BY <1>1, <1>2 DEF Continues, RootKept, n

LEMMA ReattachedContinues ==
    ASSUME NEW o \in Owner, NEW r \in DOMAIN o.roots, NEW p
    PROVE  Continues(o, Reattached(o, r, p))
<1> DEFINE n == Reattached(o, r, p)
<1>1. /\ n.revision = o.revision + 1 /\ n.nextRoot = o.nextRoot
      /\ n.roots = [o.roots EXCEPT ![r].attachmentGeneration = @ + 1]
      /\ n.binding = [o.binding EXCEPT ![r].path = p, ![r].attached = TRUE]
  BY DEF Reattached, NextGeneration
<1>2. /\ DOMAIN n.roots = DOMAIN o.roots
      /\ n.roots[r].attachmentGeneration = o.roots[r].attachmentGeneration + 1
      /\ n.roots[r].policy = o.roots[r].policy
      /\ \A q \in DOMAIN o.roots \ {r} : n.roots[q] = o.roots[q] /\ n.binding[q] = o.binding[q]
  BY <1>1, Tables, OwnerParts DEF RootRow
<1>3. o.revision \in Nat /\ o.nextRoot \in Nat /\ o.roots[r].attachmentGeneration \in Nat
  BY OwnerParts, Tables DEF RootRow
<1> HIDE DEF n
<1> QED
  BY <1>1, <1>2, <1>3 DEF Continues, RootKept, n

\* The other mutations leave the roots alone.
LEMMA RootsAlone ==
    ASSUME NEW o \in Owner, NEW n, n.revision = o.revision + 1, n.nextRoot = o.nextRoot,
           n.roots = o.roots, n.binding = o.binding
    PROVE  Continues(o, n)
BY OwnerParts DEF Continues, RootKept

\* The service expects what it captured, nobody else saves, and what it has
\* staged continues it.
Expected ==
    /\ service = "Ready" => baseline = Capture(owner)
    /\ call = "staged" => value = baseline
    /\ call # "idle" /\ service = "Creating" => baseline = Absent
    /\ call = "staged" /\ service = "Ready" /\ staged # owner =>
          Rule!History(Capture(owner), Capture(staged))

LEMMA StagedContinues ==
    ASSUME FInv, Mutate, staged' # owner
    PROVE  Rule!History(Capture(owner), Capture(staged'))
<1>1. owner \in Owner /\ Good(owner) /\ DOMAIN owner.binding = DOMAIN owner.roots
  BY OwnerParts DEF FInv, SInv, Identities
<1>2. staged' \in Owner /\ Follows(staged', owner)
  <2>1. SInv' /\ call' = "staged" /\ owner' = owner
    BY MutateKeeps DEF FInv, Mutate, RegisterRoot, ReattachRoot, Scan, RelocateSong, RemoveSong,
                       ReplaceUserOverrides, Stage
  <2> QED
    BY <2>1 DEF SInv, Identities
<1>3. \E n : Stage(n) /\ (n = owner \/ Continues(owner, n))
  <2>1. CASE \E p \in Paths : RegisterRoot(p)
    BY <1>1, <2>1, RegisteredContinues DEF RegisterRoot
  <2>2. CASE \E p \in Paths, r \in DOMAIN owner.roots : ReattachRoot(r, p)
    BY <1>1, <2>2, ReattachedContinues DEF ReattachRoot
  <2>3. CASE \E r \in DOMAIN owner.roots, found \in Findings : Scan(r, found)
    <3>1. PICK r \in DOMAIN owner.roots, found \in Findings : Scan(r, found)
      BY <2>3
    <3>2. /\ Scanned(owner, r, found).revision = owner.revision + 1
          /\ Scanned(owner, r, found).nextRoot = owner.nextRoot
          /\ Scanned(owner, r, found).roots = owner.roots
          /\ Scanned(owner, r, found).binding = owner.binding
      BY DEF Scanned
    <3> QED
      BY <1>1, <3>1, <3>2, RootsAlone DEF Scan
  <2>4. CASE \E s \in DOMAIN owner.songs, r \in DOMAIN owner.roots, l \in Locators :
                RelocateSong(s, r, l)
    <3>1. PICK s \in DOMAIN owner.songs, r \in DOMAIN owner.roots, l \in Locators :
              RelocateSong(s, r, l)
      BY <2>4
    <3>2. Continues(owner, Relocated(owner, s, r, l))
      BY <1>1, RelocatedIs, RootsAlone
    <3> QED
      BY <3>1, <3>2 DEF RelocateSong
  <2>5. CASE \E s \in DOMAIN owner.songs : RemoveSong(s)
    <3>1. PICK s \in DOMAIN owner.songs : RemoveSong(s)
      BY <2>5
    <3> DEFINE songs == [t \in DOMAIN owner.songs \ {s} |-> owner.songs[t]]
    <3>2. Removed(owner, s) =
              [revision |-> owner.revision + 1, nextRoot |-> owner.nextRoot,
               nextSong |-> owner.nextSong, roots |-> owner.roots, songs |-> songs,
               binding |-> owner.binding]
      BY <1>1, RemovedIs
    <3> HIDE DEF songs
    <3>3. Continues(owner, Removed(owner, s))
      BY <1>1, <3>2, RootsAlone
    <3> QED
      BY <3>1, <3>3 DEF RemoveSong
  <2>6. CASE \E s \in DOMAIN owner.songs, v \in Overrides \cup {NoOverride} :
                ReplaceUserOverrides(s, v)
    <3>1. PICK s \in DOMAIN owner.songs, v \in Overrides \cup {NoOverride} :
              ReplaceUserOverrides(s, v)
      BY <2>6
    <3>2. Continues(owner, Overridden(owner, s, v))
      BY <1>1, OverriddenIs, RootsAlone
    <3> QED
      BY <3>1, <3>2 DEF ReplaceUserOverrides
  <2> QED
    BY <2>1, <2>2, <2>3, <2>4, <2>5, <2>6 DEF Mutate
<1> QED
  BY <1>1, <1>2, <1>3, ContinuedIsHistory DEF Stage

LEMMA ExpectedStep == FInv /\ Expected /\ [Next]_vars => Expected'
<1> SUFFICES ASSUME FInv, Expected, [Next]_vars PROVE Expected'
  OBVIOUS
<1>1. CASE Mutate
  <2>1. /\ service = "Ready" /\ call = "idle" /\ Capture(owner) = baseline /\ call' = "staged"
        /\ UNCHANGED <<service, owner, baseline, value>>
    BY <1>1 DEF Mutate, RegisterRoot, ReattachRoot, Scan, RelocateSong, RemoveSong,
                ReplaceUserOverrides, Stage, MayMutate, OwnerIsBaseline, storeVars
  <2>2. value = baseline
    BY <2>1 DEF FInv, SInv, Known
  <2> QED
    BY <1>1, <2>1, <2>2, StagedContinues DEF Expected
<1>2. CASE Publish
  BY <1>2 DEF Publish, Expected
<1>3. CASE Acknowledge
  BY <1>3 DEF Acknowledge, EndCall, Expected
<1>4. CASE Open
  BY <1>4 DEF Open, callVars, Expected, FInv, SInv, Known
<1>5. CASE SaveUnchanged \/ NotCommitted \/ Distrusted \/ CommitUncertain \/ Crash \/ PowerCut
  <2>1. /\ call' = "idle" /\ UNCHANGED <<owner, baseline>>
        /\ service' = "Ready" => service = "Ready"
    BY <1>5 DEF SaveUnchanged, NotCommitted, Distrusted, CommitUncertain, Crash, PowerCut, EndCall,
                AfterFailure, AfterDoubt, IsCreate, FInv, SInv, Known
  <2> QED
    BY <2>1 DEF Expected
<1>6. CASE LoseAuthority \/ Close \/ OpenFails \/ UNCHANGED vars
  BY <1>6 DEF LoseAuthority, Close, OpenFails, vars, callVars, storeVars, Expected
<1>7. ASSUME NEW o, Create(o) PROVE Expected'
  BY <1>7 DEF Create, storeVars, Expected
<1> QED
  BY <1>1, <1>2, <1>3, <1>4, <1>5, <1>6, <1>7 DEF Next, Save, Begin

\* The store's history rule never refuses what the service stages, whatever
\* mutation it is and whatever failed before it.
THEOREM AlwaysAcceptable == Spec => []StagedIsAcceptable
<1>1. Init => Expected
  BY DEF Init, Expected
<1>2. FInv /\ Expected => StagedIsAcceptable
  BY DEF FInv, SInv, Known, Expected, StagedIsAcceptable, Changed, IsCreate, Acceptable
<1> QED
  BY <1>1, <1>2, ExpectedStep, FilesInvariant, PTL DEF Spec

-----------------------------------------------------------------------------
(* Types, and the bounds of the counters.                                  *)

\* Identities of an owner or a projection of this revision are numbered
\* without a gap for roots, and below their allocator for songs.
Numbered(x, revision) ==
    /\ {revision, x.nextRoot, x.nextSong} \subseteq 0..MaxValue
    /\ x.nextRoot > 0 /\ x.nextSong > 0
    /\ DOMAIN x.roots = 1..x.nextRoot - 1
    /\ DOMAIN x.songs \subseteq 1..x.nextSong - 1

LEMMA EmptyIsNumbered == Numbered(EmptyOwner, EmptyOwner.revision)
BY MaxValueAssumption DEF EmptyOwner, Numbered

LEMMA ConversionsAreNumbered ==
    /\ \A o \in Owner : Numbered(o, o.revision) => Numbered(Capture(o), Capture(o).catalogRevision)
    /\ \A p \in Projection : Numbered(p, p.catalogRevision) => Numbered(Restore(p), Restore(p).revision)
<1>1. \A o \in Owner :
        /\ Capture(o).catalogRevision = o.revision /\ Capture(o).nextRoot = o.nextRoot
        /\ Capture(o).nextSong = o.nextSong
        /\ DOMAIN Capture(o).roots = DOMAIN o.roots /\ DOMAIN Capture(o).songs = DOMAIN o.songs
  BY DEF Capture
<1>2. \A p \in Projection :
        /\ Restore(p).revision = p.catalogRevision /\ Restore(p).nextRoot = p.nextRoot
        /\ Restore(p).nextSong = p.nextSong
        /\ DOMAIN Restore(p).roots = DOMAIN p.roots /\ DOMAIN Restore(p).songs = DOMAIN p.songs
  BY DEF Restore
<1> QED
  BY <1>1, <1>2 DEF Numbered

LEMMA RegisteredIsNumbered ==
    ASSUME NEW o \in Owner, Numbered(o, o.revision), o.nextRoot < MaxValue, CanRevise(o), NEW p
    PROVE  Numbered(Registered(o, p), Registered(o, p).revision)
<1> DEFINE n == Registered(o, p)
<1>1. /\ n.revision = o.revision + 1 /\ n.nextRoot = o.nextRoot + 1 /\ n.nextSong = o.nextSong
      /\ DOMAIN n.roots = DOMAIN o.roots \cup {o.nextRoot} /\ n.songs = o.songs
  BY DEF Registered, Extend
<1>2. o.revision \in Nat /\ o.nextRoot \in Nat /\ o.nextSong \in Nat
  BY OwnerParts
<1> HIDE DEF n
<1>3. {n.revision, n.nextRoot, n.nextSong} \subseteq 0..MaxValue /\ n.nextRoot > 0
  BY <1>1, <1>2, MaxValueAssumption DEF Numbered, CanRevise
<1>4. DOMAIN n.roots = 1..n.nextRoot - 1
  BY <1>1, <1>2 DEF Numbered
<1> QED
  BY <1>1, <1>3, <1>4 DEF Numbered, n

LEMMA ScannedIsNumbered ==
    ASSUME NEW o \in Owner, Numbered(o, o.revision), Allocated(o.songs, o.nextSong, {}, 0),
           NEW r \in DOMAIN o.roots, NEW found \in Findings, CanScan(o, r, found)
    PROVE  Numbered(Scanned(o, r, found), Scanned(o, r, found).revision)
<1> DEFINE n == Scanned(o, r, found)
           k == Cardinality(NewLocators(o, r, found))
<1>1. /\ n.revision = o.revision + 1 /\ n.nextRoot = o.nextRoot /\ n.nextSong = o.nextSong + k
      /\ n.roots = o.roots
      /\ DOMAIN n.songs = DOMAIN o.songs \cup (o.nextSong..(o.nextSong + k - 1))
  BY DEF Scanned
<1>2. k \in Nat
  <2>1. DOMAIN found \subseteq Locators
    BY DEF Findings
  <2>2. IsFiniteSet(NewLocators(o, r, found))
    BY <2>1, LocatorsAssumption, FS_Subset DEF NewLocators
  <2> QED
    BY <2>2, FS_CardinalityType
<1>3. /\ o.revision \in Nat /\ o.nextRoot \in Nat /\ o.nextSong \in Nat
      /\ o.revision < MaxValue /\ o.nextSong + k <= MaxValue
  BY OwnerParts DEF CanScan, CanRevise
<1> HIDE DEF n, k
<1>4. {n.revision, n.nextRoot, n.nextSong} \subseteq 0..MaxValue /\ n.nextRoot > 0
  BY <1>1, <1>2, <1>3, MaxValueAssumption DEF Numbered
<1>5. o.nextSong > 0 /\ n.nextSong > 0
  BY <1>1, <1>2, <1>3 DEF Numbered
<1>6. DOMAIN n.songs \subseteq 1..n.nextSong - 1
  BY <1>1, <1>2, <1>3, <1>5 DEF Numbered
<1> QED
  BY <1>1, <1>4, <1>5, <1>6 DEF Numbered, n

\* The other mutations allocate nothing.
LEMMA NothingAllocated ==
    ASSUME NEW o \in Owner, Numbered(o, o.revision), CanRevise(o), NEW n,
           n.revision = o.revision + 1, n.nextRoot = o.nextRoot, n.nextSong = o.nextSong,
           DOMAIN n.roots = DOMAIN o.roots, DOMAIN n.songs \subseteq DOMAIN o.songs
    PROVE  Numbered(n, n.revision)
<1>1. o.revision \in Nat /\ o.revision < MaxValue
  BY OwnerParts DEF CanRevise
<1> QED
  BY <1>1, MaxValueAssumption DEF Numbered

TypeInv ==
    /\ Numbered(owner, owner.revision) /\ Numbered(staged, staged.revision)
    /\ \A p \in {value, confirmed} : p # Absent => Numbered(p, p.catalogRevision)
    /\ service \in States
    /\ exposed \subseteq 1..MaxValue

LEMMA StagedIsNumbered ==
    ASSUME FInv, TypeInv, Mutate
    PROVE  Numbered(staged', staged'.revision)
<1>1. /\ owner \in Owner /\ Allocated(owner.songs, owner.nextSong, {}, 0)
      /\ Numbered(owner, owner.revision)
  BY DEF FInv, SInv, Identities, TypeInv
<1>2. \E n : Stage(n) /\ Numbered(n, n.revision)
  <2>1. CASE \E p \in Paths : RegisterRoot(p)
    BY <1>1, <2>1, RegisteredIsNumbered DEF RegisterRoot, CanRegister
  <2>2. CASE \E p \in Paths, r \in DOMAIN owner.roots : ReattachRoot(r, p)
    <3>1. PICK p \in Paths, r \in DOMAIN owner.roots : ReattachRoot(r, p)
      BY <2>2
    <3> DEFINE n == Reattached(owner, r, p)
    <3>2. /\ n.revision = owner.revision + 1 /\ n.nextRoot = owner.nextRoot
          /\ n.nextSong = owner.nextSong /\ DOMAIN n.roots = DOMAIN owner.roots
          /\ DOMAIN n.songs = DOMAIN owner.songs
      BY <1>1, Tables DEF Reattached, SongsDetached
    <3>3. CanRevise(owner) => Numbered(n, n.revision)
      <4> HIDE DEF n
      <4> QED
        BY <1>1, <3>2, NothingAllocated
    <3> QED
      BY <1>1, <3>1, <3>3 DEF ReattachRoot, CanReattach
  <2>3. CASE \E r \in DOMAIN owner.roots, found \in Findings : Scan(r, found)
    BY <1>1, <2>3, ScannedIsNumbered DEF Scan
  <2>4. CASE \E s \in DOMAIN owner.songs, r \in DOMAIN owner.roots, l \in Locators :
                RelocateSong(s, r, l)
    <3>1. PICK s \in DOMAIN owner.songs, r \in DOMAIN owner.roots, l \in Locators :
              RelocateSong(s, r, l)
      BY <2>4
    <3> DEFINE n == Relocated(owner, s, r, l)
    <3>2. /\ n.revision = owner.revision + 1 /\ n.nextRoot = owner.nextRoot
          /\ n.nextSong = owner.nextSong /\ n.roots = owner.roots
          /\ DOMAIN n.songs = DOMAIN owner.songs
      BY <1>1, RelocatedIs
    <3> HIDE DEF n
    <3>3. Numbered(n, n.revision)
      BY <1>1, <3>1, <3>2, NothingAllocated DEF RelocateSong, CanRelocate
    <3> QED
      BY <3>1, <3>3 DEF RelocateSong, n
  <2>5. CASE \E s \in DOMAIN owner.songs : RemoveSong(s)
    <3>1. PICK s \in DOMAIN owner.songs : RemoveSong(s)
      BY <2>5
    <3> DEFINE n == Removed(owner, s)
               songs == [t \in DOMAIN owner.songs \ {s} |-> owner.songs[t]]
    <3>2. n = [revision |-> owner.revision + 1, nextRoot |-> owner.nextRoot,
               nextSong |-> owner.nextSong, roots |-> owner.roots, songs |-> songs,
               binding |-> owner.binding]
      BY <1>1, RemovedIs
    <3>3. DOMAIN songs \subseteq DOMAIN owner.songs
      OBVIOUS
    <3> HIDE DEF n, songs
    <3>4. Numbered(n, n.revision)
      BY <1>1, <3>1, <3>2, <3>3, NothingAllocated DEF RemoveSong, CanRemove
    <3> QED
      BY <3>1, <3>4 DEF RemoveSong, n
  <2>6. CASE \E s \in DOMAIN owner.songs, v \in Overrides \cup {NoOverride} :
                ReplaceUserOverrides(s, v)
    <3>1. PICK s \in DOMAIN owner.songs, v \in Overrides \cup {NoOverride} :
              ReplaceUserOverrides(s, v)
      BY <2>6
    <3> DEFINE n == Overridden(owner, s, v)
    <3>2. /\ n.revision = owner.revision + 1 /\ n.nextRoot = owner.nextRoot
          /\ n.nextSong = owner.nextSong /\ n.roots = owner.roots
          /\ DOMAIN n.songs = DOMAIN owner.songs
      BY <1>1, OverriddenIs
    <3>3. CanRevise(owner) => Numbered(n, n.revision)
      <4> HIDE DEF n
      <4> QED
        BY <1>1, <3>2, NothingAllocated
    <3> QED
      BY <1>1, <3>1, <3>3 DEF ReplaceUserOverrides, CanOverride
  <2> QED
    BY <2>1, <2>2, <2>3, <2>4, <2>5, <2>6 DEF Mutate
<1> QED
  BY <1>2 DEF Stage

LEMMA TypeStep == FInv /\ TypeInv /\ [Next]_vars => TypeInv'
<1> SUFFICES ASSUME FInv, TypeInv, [Next]_vars PROVE TypeInv'
  OBVIOUS
<1>1. \A o \in Owner : Numbered(o, o.revision) => DOMAIN o.songs \subseteq 1..MaxValue
  BY OwnerParts, MaxValueAssumption DEF Numbered
<1>2. owner \in Owner /\ staged \in Owner /\ EmptyOwner \in Owner
  BY EmptyIsOwner DEF FInv, SInv, Identities
<1>3. CASE Mutate
  <2>1. UNCHANGED <<service, owner, value, confirmed, exposed>>
    BY <1>3 DEF Mutate, RegisterRoot, ReattachRoot, Scan, RelocateSong, RemoveSong,
                ReplaceUserOverrides, Stage, storeVars
  <2> QED
    BY <1>3, <2>1, StagedIsNumbered DEF TypeInv
<1>4. CASE Publish \/ CommitUncertain
  <2>1. /\ UNCHANGED <<owner, confirmed, exposed>> /\ staged' \in {staged, EmptyOwner}
        /\ value' \in {value, Capture(staged)} /\ service' \in States
    BY <1>4 DEF Publish, CommitUncertain, EndCall, AfterDoubt, AfterFailure, States, TypeInv
  <2> QED
    BY <1>2, <2>1, ConversionsAreNumbered, EmptyIsNumbered DEF TypeInv
<1>5. CASE Acknowledge
  BY <1>1, <1>2, <1>5, EmptyIsNumbered
     DEF Acknowledge, Synchronised, EndCall, Visible, TypeInv, States
<1>6. CASE Open
  <2>1. value # Absent /\ owner' = Restore(value) /\ confirmed' = value /\ UNCHANGED <<staged, value>>
        /\ service' = "Ready" /\ exposed' = exposed \cup DOMAIN owner'.songs
    BY <1>6 DEF Open, Synchronised, callVars, Visible
  <2>2. value \in Projection /\ Numbered(value, value.catalogRevision)
    BY <2>1 DEF FInv, SInv, Identities, TypeInv
  <2>3. owner' \in Owner /\ Numbered(owner', owner'.revision)
    BY <2>1, <2>2, RestoreIs, ConversionsAreNumbered
  <2>4. DOMAIN owner'.songs \subseteq 1..MaxValue
    BY <1>1, <2>3
  <2> QED
    BY <2>1, <2>3, <2>4 DEF TypeInv, States
<1>7. ASSUME NEW o, Create(o), Numbered(o, o.revision) PROVE TypeInv'
  BY <1>7 DEF Create, storeVars, TypeInv, States
<1>8. \A p \in Paths : Numbered(Registered(EmptyOwner, p), Registered(EmptyOwner, p).revision)
  <2>1. EmptyOwner.nextRoot < MaxValue /\ CanRevise(EmptyOwner)
    BY MaxValueAssumption DEF EmptyOwner, CanRevise
  <2> QED
    BY <1>2, <2>1, EmptyIsNumbered, RegisteredIsNumbered
<1>9. CASE SaveUnchanged \/ NotCommitted \/ Distrusted \/ Crash \/ PowerCut
  <2>1. /\ UNCHANGED <<owner, confirmed, exposed>> /\ staged' = EmptyOwner
        /\ value' \in {value, confirmed} /\ service' \in States
    BY <1>9 DEF SaveUnchanged, NotCommitted, Distrusted, Crash, PowerCut, EndCall, storeVars,
                AfterFailure, AfterDoubt, States, TypeInv
  <2> QED
    BY <2>1, EmptyIsNumbered DEF TypeInv
<1>10. CASE LoseAuthority \/ Close \/ OpenFails \/ UNCHANGED vars
  BY <1>10 DEF LoseAuthority, Close, OpenFails, vars, callVars, storeVars, TypeInv, States
<1> QED
  BY <1>3, <1>4, <1>5, <1>6, <1>7, <1>8, <1>9, <1>10, EmptyIsNumbered DEF Next, Save, Begin

\* Type correctness: identities below their allocators, no gap between roots,
\* every song of a root there is, and no counter beyond its bound.
THEOREM TypeCorrect == Spec => []TypeOK
<1>1. Init => TypeInv
  BY EmptyIsNumbered DEF Init, TypeInv, States
<1>2. FInv /\ TypeInv => TypeOK
  BY OwnerParts DEF FInv, SInv, Known, Identities, Good, Tidy, TypeInv, Numbered, TypeOK
<1> QED
  BY <1>1, <1>2, TypeStep, FilesInvariant, PTL DEF Spec

-----------------------------------------------------------------------------
(* The sessions: what the caller knows, silence and the exit code.         *)

\* What the service is doing at each place of the session.
Steps ==
    /\ call # "idle" <=> at \in {"creating", "call"}
    /\ at = "creating" => service = "Creating"
    /\ at \in {"call", "greet", "format"} => service = "Ready"
    /\ at = "prompt" => service \in {"Ready", "RecoveryRequired"}
    /\ at = "reply" /\ service \notin {"Ready", "RecoveryRequired"} => reply.terminal
    /\ at = "off" => service = "none"
    /\ at = "end" => service \in {"none", "Closed"}
    /\ at \in {"reply", "finish", "destroy", "close"} =>
          service \in {"none", "Ready", "RecoveryRequired"}
    /\ service = "Creating" => at = "creating"
    /\ service = "Closed" => at = "end"

\* Where the gate may be held: never while the service saves.
GateHeld ==
    /\ audible => held
    /\ held => entry = "audio" /\ at \in {"prompt", "reply", "finish", "destroy"}

Stored == {value, confirmed}

\* What a reply under way will tell covers the store, place by place: the
\* doubt is the checkpoint being saved, and it is dropped only when the store
\* has it or cannot have it.
Knows ==
    /\ Stored \subseteq believed \cup doubt
    /\ doubt # {} => at \in {"creating", "call", "format", "reply", "greet", "end"}
    /\ call # "idle" => doubt = {Capture(staged)}
    /\ call # "published" /\ at \in {"creating", "call"} => Stored \subseteq believed
    /\ call = "published" => value = Capture(staged)
    /\ at = "greet" => lastCommit \in {"Saved", "Unknown"}
    /\ at = "format" => lastCommit \in {"Saved", "NoChange"}
    /\ at \in {"format", "greet"} /\ lastCommit = "Saved" => Stored \subseteq doubt
    /\ at \in {"format", "greet"} /\ lastCommit # "Saved" => Stored \subseteq believed
    /\ at = "reply" /\ reply.commit = "Saved" => Stored \subseteq doubt
    /\ at = "reply" /\ reply.commit \notin {"Saved", "Uncertain"} => Stored \subseteq believed

Closing == {"finish", "destroy", "close"}

\* The exit code so far says what went wrong so far.
Honest ==
    /\ at \notin Closing \cup {"off", "end"} =>
          /\ trouble \subseteq {"error", "play"}
          /\ "error" \in trouble => ordinary # 0
          /\ "play" \in trouble => ordinary # 0 \/ (at = "reply" /\ reply.exit # 0)
    /\ at \in Closing \cup {"end"} /\ exit = 0 => trouble = {}
    /\ at \in Closing \cup {"end"} /\ "lost" \in trouble => exit = 74

\* A service that needs recovery, other than through a play, has been reported
\* in the last reply, or is about to be.
Reported ==
    service = "RecoveryRequired" /\ "play" \notin trouble =>
        /\ at # "prompt"
        /\ at = "reply" => reply.exit = 76 /\ reply.terminal
        /\ at \in Closing => exit \in {74, 76}

RunInv == Steps /\ GateHeld /\ Knows /\ Honest /\ Reported

LEMMA RunInit == SessionInit => RunInv
  BY DEF SessionInit, Init, Gate!Init, RunInv, Steps, GateHeld, Knows, Stored, Honest, Reported, Closing

\* A service that lost its authority is reported with 76, and for the last time.
LEMMA ServiceErrorIs ==
    ASSUME NEW commit, ServiceError(commit)
    PROVE  /\ reply'.commit = commit /\ at' = "reply" /\ lastCommit' = commit
           /\ service' = "RecoveryRequired" => reply'.exit = 76 /\ reply'.terminal
<1>1. CASE Recovery
  <2>1. Recovery = TRUE
    BY <1>1 DEF Recovery
  <2>2. reply' = [commit |-> commit, exit |-> 76, terminal |-> TRUE]
    BY <2>1 DEF ServiceError, Respond, Answer
  <2> QED
    BY <2>2 DEF ServiceError, Respond
<1>2. CASE ~Recovery
  BY <1>2 DEF ServiceError, Respond, Answer, Recovery
<1> QED
  BY <1>1, <1>2

\* Starting: the store is opened, created, or the program refused.
LEMMA StartKeeps ==
    ASSUME RunInv, OpenLibrary \/ OpenRefused \/ CreateLibrary \/ Created \/ CreateFails
                   \/ AudioRefused \/ Greet
    PROVE  RunInv'
<1> USE DEF RunInv, Steps, GateHeld, Knows, Stored, Honest, Reported, Closing, gateVars, knowledge,
            outcome, NewRun, Quiet, Respond, Answer, NoReply
<1>1. CASE OpenLibrary
  BY <1>1 DEF OpenLibrary, Open, Synchronised, callVars
<1>2. CASE OpenRefused
  BY <1>2 DEF OpenRefused, OpenFails, callVars
<1>3. CASE CreateLibrary
  BY <1>3 DEF CreateLibrary, Create, storeVars
<1>4. CASE Created
  BY <1>4 DEF Created, Acknowledge, Synchronised, EndCall
<1>5. CASE CreateFails
  BY <1>5 DEF CreateFails, NotCommitted, Distrusted, CommitUncertain, EndCall, AfterFailure,
              AfterDoubt, IsCreate, storeVars
<1>6. CASE AudioRefused
  BY <1>6 DEF AudioRefused, Crash, EndCall, storeVars
<1>7. CASE Greet
  BY <1>7 DEF Greet, vars
<1> QED
  BY <1>1, <1>2, <1>3, <1>4, <1>5, <1>6, <1>7

\* A mutation only stages: the service is Ready and the store untouched.
LEMMA PerformStages ==
    ASSUME NEW verb, Performs(verb)
    PROVE  /\ verb \in MutatingVerbs
           /\ service = "Ready" /\ call = "idle" /\ call' = "staged"
           /\ UNCHANGED <<service, value, confirmed>>
  BY DEF Performs, RegisterRoot, ReattachRoot, Scan, RelocateSong, RemoveSong, ReplaceUserOverrides,
         MayMutate, Stage, storeVars, MutatingVerbs, Verbs

LEMMA LineKeeps ==
    ASSUME RunInv, Line
    PROVE  RunInv'
<1> USE DEF RunInv, Steps, GateHeld, Knows, Stored, Honest, Reported, Closing, gateVars, knowledge,
            outcome, Quiet, Respond, Answer, NoReply, Rejection
<1>1. CASE NotReady \/ RejectLine \/ Query \/ Quit
  BY <1>1 DEF NotReady, RejectLine, Query, Quit, Ready, vars
<1>2. CASE PrepareLine \/ MutationRefused
  <2>1. /\ at = "prompt" /\ service = "Ready" /\ at' = "reply"
        /\ UNCHANGED <<call, staged, value, confirmed>> /\ service' \in {"Ready", "RecoveryRequired"}
        /\ reply'.commit \in {"Unknown", "Rejected"}
        /\ service' = "RecoveryRequired" => reply'.exit = 76 /\ reply'.terminal
        /\ UNCHANGED <<held, audible, entry, believed, doubt, ordinary, exit, trouble>>
    <3>1. \/ reply' = [commit |-> "Unknown", exit |-> 0, terminal |-> FALSE] /\ UNCHANGED vars
                /\ at' = "reply"
          \/ (LoseAuthority \/ UNCHANGED vars) /\ ServiceError("Rejected")
      BY <1>2 DEF PrepareLine, MutationRefused
    <3>2. /\ at = "prompt" /\ service = "Ready"
          /\ UNCHANGED <<held, audible, entry, believed, doubt, ordinary, exit, trouble>>
      BY <1>2 DEF PrepareLine, MutationRefused, Ready
    <3>3. CASE (LoseAuthority \/ UNCHANGED vars) /\ ServiceError("Rejected")
      BY <3>2, <3>3, ServiceErrorIs DEF LoseAuthority, vars, callVars, storeVars
    <3> QED
      BY <3>1, <3>2, <3>3 DEF vars
  <2> QED
    BY <2>1
<1>3. ASSUME NEW verb \in Verbs, MutateLine(verb) PROVE RunInv'
  BY <1>3, PerformStages DEF MutateLine, Ready, Admitted, MutationAllowed
<1>4. CASE ShowLine \/ PlayUnprepared
  BY <1>4 DEF ShowLine, PlayUnprepared, AudioLine, LoseAuthority, vars, callVars, storeVars
<1>5. CASE PlayLine
  BY <1>5 DEF PlayLine, AudioLine, Gate!Take, vars
<1>6. CASE StopLine
  BY <1>6 DEF StopLine, AudioLine, Gate!LetGo, Unconfirmed, Gate!Silence, vars
<1> QED
  BY <1>1, <1>2, <1>3, <1>4, <1>5, <1>6 DEF Line

LEMMA CallKeeps ==
    ASSUME RunInv, PublishCall \/ AcknowledgeCall \/ SaveFails \/ Complete
    PROVE  RunInv'
<1> USE DEF RunInv, Steps, GateHeld, Knows, Stored, Honest, Reported, Closing, gateVars, knowledge,
            outcome, Quiet, Respond, Answer
<1>1. CASE PublishCall
  BY <1>1 DEF PublishCall, Publish
<1>2. CASE AcknowledgeCall
  BY <1>2 DEF AcknowledgeCall, Acknowledge, SaveUnchanged, Synchronised, EndCall, storeVars
<1>3. CASE SaveFails
  <2>1. /\ at = "call" /\ at' = "reply" /\ service = "Ready" /\ call' = "idle"
        /\ UNCHANGED <<confirmed, held, audible, entry, believed, doubt, ordinary, exit, trouble>>
    BY <1>3 DEF SaveFails, NotCommitted, Distrusted, CommitUncertain, EndCall, storeVars, ServiceError
  <2>2. /\ service' \in {"Ready", "RecoveryRequired"}
        /\ service' = "RecoveryRequired" => reply'.exit = 76 /\ reply'.terminal
    <3>1. service' \in {"Ready", "RecoveryRequired"}
      BY <1>3, <2>1 DEF SaveFails, NotCommitted, Distrusted, CommitUncertain, AfterFailure, AfterDoubt,
                        IsCreate
    <3>2. \E commit : ServiceError(commit)
      BY <1>3 DEF SaveFails
    <3> QED
      BY <3>1, <3>2, ServiceErrorIs
  <2>3. \/ call = "staged" /\ value' = value /\ reply'.commit = "Rejected"
        \/ value' \in {value, Capture(staged)} /\ reply'.commit = "Uncertain"
    BY <1>3, ServiceErrorIs DEF SaveFails, NotCommitted, Distrusted, CommitUncertain, storeVars
  <2> QED
    BY <2>1, <2>2, <2>3
<1>4. CASE Complete
  BY <1>4 DEF Complete, LocalError, Kept, vars
<1> QED
  BY <1>1, <1>2, <1>3, <1>4

LEMMA ClosingKeeps ==
    ASSUME RunInv, Deliver \/ Lose \/ EndOfInput \/ Finish \/ DestroyController \/ CloseService
                   \/ Exit \/ SongEnds \/ Kill \/ CutPower
    PROVE  RunInv'
<1> USE DEF RunInv, Steps, GateHeld, Knows, Stored, Honest, Reported, Closing, gateVars, knowledge,
            outcome
<1>1. CASE Deliver
  <2>1. /\ at = "reply" /\ at' = (IF reply.terminal THEN "finish" ELSE "prompt") /\ doubt' = {}
        /\ believed' = IF reply.commit = "Saved" THEN doubt
                       ELSE IF reply.commit = "Uncertain" THEN believed \cup doubt ELSE believed
        /\ UNCHANGED <<service, call, staged, value, confirmed, held, audible, entry, lastCommit>>
    BY <1>1 DEF Deliver, Told, vars
  <2>2. /\ ordinary' = IF reply.exit # 0 THEN reply.exit ELSE ordinary
        /\ trouble' = IF reply.exit # 0 THEN trouble \cup {"error"} ELSE trouble
        /\ reply.terminal => exit' = ordinary'
    BY <1>1 DEF Deliver, Ordinary
  <2>3. Steps'
    BY <2>1
  <2>4. GateHeld' /\ Knows'
    BY <2>1
  <2>5. Honest' /\ Reported'
    BY <2>1, <2>2
  <2> QED
    BY <2>3, <2>4, <2>5
<1>2. CASE Lose
  BY <1>2 DEF Lose, Untold, vars
<1>3. CASE EndOfInput
  BY <1>3 DEF EndOfInput, vars
<1>4. CASE Finish
  BY <1>4 DEF Finish, AfterFinish, Gate!LetGo, Gate!Silence, Unconfirmed, vars
<1>5. CASE DestroyController
  BY <1>5 DEF DestroyController, Gate!LetGo, vars
<1>6. CASE CloseService
  BY <1>6 DEF CloseService, Close, vars, callVars, storeVars
<1>7. CASE Exit
  BY <1>7 DEF Exit, Leave, Untold, Crash, EndCall, vars, storeVars
<1>8. CASE SongEnds
  BY <1>8 DEF SongEnds, Gate!Silence, vars
<1>9. CASE Kill
  BY <1>9 DEF Kill, Leave, Untold, NewRun, Gate!LetGo, Crash, EndCall, vars, storeVars
<1>10. CASE CutPower
  BY <1>10 DEF CutPower, PowerCut, Untold, NewRun, Gate!LetGo, EndCall
<1> QED
  BY <1>1, <1>2, <1>3, <1>4, <1>5, <1>6, <1>7, <1>8, <1>9, <1>10

LEMMA RunStep == RunInv /\ [SessionNext]_sessionVars => RunInv'
<1>1. ASSUME RunInv, UNCHANGED sessionVars PROVE RunInv'
  BY <1>1 DEF sessionVars, vars, gateVars, knowledge, outcome, RunInv, Steps, GateHeld, Knows, Stored,
              Honest, Reported, Closing
<1> QED
  BY <1>1, StartKeeps, LineKeeps, CallKeeps, ClosingKeeps DEF SessionNext, Run

LEMMA RunInvariant == SessionSpec => []RunInv
  BY RunInit, RunStep, PTL DEF SessionSpec

\* Whatever fails, gets lost, is killed or loses power, in any order over any
\* number of runs: the caller can tell from the replies what the store holds.
THEOREM CallerKnows == SessionSpec => []CallerKnowsTheStore
<1>1. RunInv => CallerKnowsTheStore
  BY DEF RunInv, Knows, Stored, CallerKnowsTheStore
<1> QED
  BY <1>1, RunInvariant, PTL

\* No mutation is saved while a song sounds, and the service is closed after
\* playback, also when a stop was not confirmed.
THEOREM SavesInSilence == SessionSpec => []SilentWhileSaving
<1>1. RunInv => SilentWhileSaving
  BY DEF RunInv, Steps, GateHeld, SilentWhileSaving
<1> QED
  BY <1>1, RunInvariant, PTL

\* The exit code claims no success that was not delivered: it is 0 only for a
\* run without any trouble, and 74 where a reply got lost.  Unless a play has
\* lost the authority, a service in need of recovery gets no further line and
\* its run ends with 76, or with 74 where input, output or memory fails.
THEOREM ExitSaysIt == SessionSpec => []ExitIsHonest
<1>1. RunInv => ExitIsHonest
  BY DEF RunInv, Honest, Reported, Closing, ExitIsHonest
<1> QED
  BY <1>1, RunInvariant, PTL

-----------------------------------------------------------------------------
(* The session over its parts.                                             *)

LEMMA SessionStepOfService == [SessionNext]_sessionVars => [Next]_vars
<1> SUFFICES ASSUME [SessionNext]_sessionVars PROVE [Next]_vars
  OBVIOUS
<1>1. CASE OpenLibrary \/ OpenRefused \/ CreateLibrary
  BY <1>1 DEF OpenLibrary, OpenRefused, CreateLibrary, Next, Begin
<1>2. CASE Line
  <2>1. ASSUME NEW verb \in Verbs, MutateLine(verb) PROVE Next
    <3>1. Performs(verb) => Mutate
      BY DEF Performs, Mutate
    <3> QED
      BY <2>1, <3>1 DEF MutateLine, Next
  <2>2. CASE MutationRefused \/ PrepareLine \/ PlayUnprepared
    BY <2>2 DEF MutationRefused, PrepareLine, PlayUnprepared, Next
  <2>3. CASE NotReady \/ RejectLine \/ Query \/ Quit \/ ShowLine \/ PlayLine \/ StopLine
    BY <2>3 DEF NotReady, RejectLine, Query, Quit, ShowLine, PlayLine, StopLine, vars
  <2> QED
    BY <1>2, <2>1, <2>2, <2>3 DEF Line
<1>3. CASE Run
  <2>1. CASE Created \/ CreateFails \/ PublishCall \/ AcknowledgeCall \/ SaveFails
    BY <2>1 DEF Created, CreateFails, PublishCall, AcknowledgeCall, SaveFails, Next, Save
  <2>2. CASE AudioRefused \/ CloseService \/ Exit
    BY <2>2 DEF AudioRefused, CloseService, Exit, Leave, Next
  <2>3. CASE Greet \/ Complete \/ Deliver \/ Lose \/ Finish \/ DestroyController
    BY <2>3 DEF Greet, Complete, Deliver, Lose, Finish, DestroyController, vars
  <2> QED
    BY <1>3, <2>1, <2>2, <2>3 DEF Run
<1>4. CASE EndOfInput \/ SongEnds \/ Kill \/ CutPower \/ UNCHANGED sessionVars
  BY <1>4 DEF EndOfInput, SongEnds, Kill, Leave, CutPower, sessionVars, vars, Next
<1> QED
  BY <1>1, <1>2, <1>3, <1>4 DEF SessionNext

LEMMA SessionStepOfGate == [SessionNext]_sessionVars => [Gate!Next]_(Gate!vars)
<1> SUFFICES ASSUME [SessionNext]_sessionVars PROVE [Gate!Next]_(Gate!vars)
  OBVIOUS
<1> USE DEF Gate!vars, gateVars
<1>1. CASE OpenLibrary \/ OpenRefused \/ CreateLibrary
  BY <1>1 DEF OpenLibrary, OpenRefused, CreateLibrary
<1>2. CASE Line
  <2>1. ASSUME NEW verb \in Verbs, MutateLine(verb) PROVE UNCHANGED gateVars
    BY <2>1 DEF MutateLine
  <2>2. CASE MutationRefused \/ PrepareLine \/ PlayUnprepared \/ NotReady \/ RejectLine \/ Query
             \/ Quit \/ ShowLine
    BY <2>2 DEF MutationRefused, PrepareLine, PlayUnprepared, NotReady, RejectLine, Query, Quit,
                ShowLine, Quiet
  <2>3. CASE PlayLine \/ StopLine
    BY <2>3 DEF PlayLine, StopLine, Unconfirmed, Gate!Next
  <2> QED
    BY <1>2, <2>1, <2>2, <2>3 DEF Line
<1>3. CASE Run
  <2>1. CASE Created \/ CreateFails \/ PublishCall \/ AcknowledgeCall \/ SaveFails \/ Greet \/ Complete
    BY <2>1 DEF Created, CreateFails, PublishCall, AcknowledgeCall, SaveFails, Greet, Complete, Quiet
  <2>2. CASE AudioRefused \/ CloseService \/ Exit \/ Deliver \/ Lose
    BY <2>2 DEF AudioRefused, CloseService, Exit, Deliver, Lose
  <2>3. CASE Finish \/ DestroyController
    BY <2>3 DEF Finish, DestroyController, Unconfirmed, Gate!Next
  <2> QED
    BY <1>3, <2>1, <2>2, <2>3 DEF Run
<1>4. CASE EndOfInput \/ SongEnds \/ Kill \/ CutPower \/ UNCHANGED sessionVars
  BY <1>4 DEF EndOfInput, SongEnds, Kill, CutPower, sessionVars, Gate!Next
<1> QED
  BY <1>1, <1>2, <1>3, <1>4 DEF SessionNext

\* The session takes no step over the service or the controller that is not
\* one of theirs: whatever is proved of the two holds in every run.
THEOREM SessionRunsBoth == SessionSpec => Spec /\ Gate!Spec
<1>1. SessionInit => Init /\ Gate!Init
  BY DEF SessionInit
<1> QED
  BY <1>1, SessionStepOfService, SessionStepOfGate, PTL DEF SessionSpec, Spec, Gate!Spec

LEMMA AnswerType ==
    ASSUME NEW commit \in Outcomes, NEW code \in Exits, NEW terminal \in BOOLEAN
    PROVE  Answer(commit, code, terminal) \in Reply
  BY DEF Answer, Reply

LEMMA ServiceErrorType ==
    ASSUME NEW commit \in Outcomes, ServiceError(commit)
    PROVE  reply' \in Reply /\ at' \in Places /\ lastCommit' \in Outcomes
<1>1. (service' = "RecoveryRequired") \in BOOLEAN
  OBVIOUS
<1>2. (IF Recovery THEN 76 ELSE 1) \in Exits
  BY DEF Exits
<1>3. reply' = Answer(commit, IF Recovery THEN 76 ELSE 1, service' = "RecoveryRequired")
  BY DEF ServiceError, Respond, Recovery
<1>4. reply' \in Reply
  BY <1>1, <1>2, <1>3, AnswerType
<1> QED
  BY <1>4 DEF ServiceError, Respond, Places

\* The session's own part of SessionTypeOK.
SessionTypes ==
    /\ entry \in Entries
    /\ at \in Places
    /\ lastCommit \in Outcomes
    /\ reply \in Reply
    /\ ordinary \in Exits /\ exit \in Exits
    /\ trouble \subseteq {"error", "lost", "unconfirmed", "refused", "play"}

LEMMA SessionTypesStep == SessionTypes /\ [SessionNext]_sessionVars => SessionTypes'
<1> SUFFICES ASSUME SessionTypes, [SessionNext]_sessionVars PROVE SessionTypes'
  OBVIOUS
<1> USE DEF SessionTypes, Quiet, knowledge, outcome, Respond
<1>1. /\ NoReply \in Reply /\ Rejection \in Reply
      /\ \A commit \in Outcomes, code \in Exits, t \in {TRUE, FALSE} : Answer(commit, code, t) \in Reply
  BY AnswerType DEF NoReply, Rejection, Outcomes, Exits
<1>2. /\ Outcomes = {"Unknown", "Saved", "NoChange", "Rejected", "Uncertain"}
      /\ Exits = {0, 1, 74, 76} /\ Entries = {"management", "audio"}
      /\ {"off", "creating", "greet", "prompt", "call", "format", "reply",
          "finish", "destroy", "close", "end"} \subseteq Places
  BY DEF Outcomes, Exits, Entries, Places
<1>3. CASE OpenLibrary \/ OpenRefused \/ CreateLibrary
  BY <1>1, <1>2, <1>3 DEF OpenLibrary, OpenRefused, CreateLibrary, NewRun
<1>4. CASE Line
  <2>1. CASE NotReady \/ RejectLine \/ Query \/ Quit
    BY <1>1, <1>2, <2>1 DEF NotReady, RejectLine, Query, Quit
  <2>2. CASE PrepareLine \/ MutationRefused
    BY <1>1, <1>2, <2>2, ServiceErrorType DEF PrepareLine, MutationRefused
  <2>3. ASSUME NEW verb \in Verbs, MutateLine(verb) PROVE SessionTypes'
    BY <1>2, <2>3 DEF MutateLine
  <2>4. CASE ShowLine \/ PlayUnprepared \/ PlayLine \/ StopLine
    BY <1>1, <1>2, <2>4 DEF ShowLine, PlayUnprepared, PlayLine, StopLine, AudioLine
  <2> QED
    BY <1>4, <2>1, <2>2, <2>3, <2>4 DEF Line
<1>5. CASE Run
  <2>1. CASE Created \/ AudioRefused
    BY <1>2, <2>1 DEF Created, AudioRefused
  <2>2. CASE Greet
    <3>1. Answer(lastCommit, 0, FALSE) \in Reply
      BY <1>2, AnswerType
    <3> QED
      BY <1>2, <2>2, <3>1 DEF Greet
  <2>8. CASE CreateFails
    <3>1. Answer("Rejected", 1, TRUE) \in Reply /\ Answer("Uncertain", 1, TRUE) \in Reply
      BY <1>2, AnswerType
    <3> QED
      BY <1>2, <2>8, <3>1 DEF CreateFails
  <2>3. CASE PublishCall \/ AcknowledgeCall
    BY <1>2, <2>3 DEF PublishCall, AcknowledgeCall
  <2>4. CASE SaveFails
    BY <1>2, <2>4, ServiceErrorType DEF SaveFails
  <2>5. CASE Complete
    <3>1. Kept \in Outcomes
      BY <1>2 DEF Kept
    <3>2. /\ Answer(lastCommit, 0, FALSE) \in Reply /\ Answer(Kept, 74, TRUE) \in Reply
          /\ Answer(Kept, 1, FALSE) \in Reply
      <4> HIDE DEF SessionTypes
      <4>1. {0, 1, 74} \subseteq Exits /\ lastCommit \in Outcomes
        BY <1>2 DEF SessionTypes
      <4> QED
        BY <3>1, <4>1, AnswerType
    <3>3. at' = "reply" /\ reply' \in Reply /\ lastCommit' \in Outcomes
      BY <2>5, <3>1, <3>2 DEF Complete, LocalError
    <3> QED
      BY <1>2, <2>5, <3>3 DEF Complete
  <2>6. CASE Deliver
    <3>1. reply.exit \in Exits
      BY DEF Reply
    <3> QED
      BY <1>1, <1>2, <2>6, <3>1 DEF Deliver, Ordinary
  <2>7. CASE Lose
    BY <1>1, <1>2, <2>7 DEF Lose
  <2>9. CASE Finish
    BY <1>2, <2>9 DEF Finish, AfterFinish
  <2>10. CASE DestroyController \/ CloseService \/ Exit
    BY <1>2, <2>10 DEF DestroyController, CloseService, Exit
  <2> QED
    BY <1>5, <2>1, <2>2, <2>3, <2>4, <2>5, <2>6, <2>7, <2>8, <2>9, <2>10 DEF Run
<1>6. CASE EndOfInput \/ SongEnds \/ Kill \/ CutPower \/ UNCHANGED sessionVars
  BY <1>1, <1>2, <1>6 DEF EndOfInput, SongEnds, Kill, CutPower, NewRun, sessionVars
<1> QED
  BY <1>3, <1>4, <1>5, <1>6 DEF SessionNext

Flags == held \in BOOLEAN /\ audible \in BOOLEAN

LEMMA FlagsStep == Flags /\ [SessionNext]_sessionVars => Flags'
<1>1. Flags /\ [Gate!Next]_(Gate!vars) => Flags'
  BY Zenon DEF Flags, Gate!Next, Gate!vars, Gate!Take, Gate!Sound, Gate!Silence, Gate!LetGo
<1> QED
  BY <1>1, SessionStepOfGate

\* Type correctness of the session, for any library.
THEOREM SessionTypeCorrect == SessionSpec => []SessionTypeOK
<1>1. SessionInit => SessionTypes
  <2>1. NoReply \in Reply
    BY AnswerType DEF NoReply, Outcomes, Exits
  <2> QED
    BY <2>1 DEF SessionInit, SessionTypes, Entries, Places, Outcomes, Exits
<1>2. SessionInit => Flags
  BY Zenon DEF SessionInit, Gate!Init, Flags
<1>3. SessionSpec => []SessionTypes
  BY <1>1, SessionTypesStep, PTL DEF SessionSpec
<1>4. SessionSpec => []Flags
  BY <1>2, FlagsStep, PTL DEF SessionSpec
<1>5. SessionTypes /\ Flags /\ RunInv => SessionTypeOK
  <2> SUFFICES ASSUME SessionTypes, Flags, RunInv PROVE SessionTypeOK
    OBVIOUS
  <2>1. {held, audible} \subseteq BOOLEAN
    BY Zenon DEF Flags
  <2>2. entry = "management" => ~held
    BY DEF RunInv, GateHeld
  <2>3. at \in {"off", "end"} => service = "none" \/ service = "Closed"
    BY DEF RunInv, Steps
  <2> QED
    BY <2>1, <2>2, <2>3 DEF SessionTypes, SessionTypeOK
<1> QED
  BY <1>3, <1>4, <1>5, RunInvariant, PTL

\* So a session never spoils the library: at every moment of it what a Ready
\* service shows is durable, every source is where the binding says, a file
\* has one entry, and what is staged can be accepted.
THEOREM SessionKeepsLibrary ==
    SessionSpec => [](LiveIsDurable /\ SourceIsCurrent /\ OneEntryPerFile /\ StagedIsAcceptable)
  BY SessionRunsBoth, Durable, SourcesCurrent, OneEntry, AlwaysAcceptable, PTL

\* And in no session, after any failure or power cut, is a song identity given
\* to a second song.
THEOREM SessionReusesNothing == SessionSpec => IdentityNeverReused
  BY SessionRunsBoth, NeverReused
================================================================================
