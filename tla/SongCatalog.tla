------------------------------ MODULE SongCatalog ------------------------------
(***************************************************************************)
(* The song catalog and its discovery owner as values: what each operation *)
(* of SongCatalog (library/SongCatalog.hpp) and SongDiscovery              *)
(* (library/SongDiscovery.hpp) makes of them, and the two conversions      *)
(* between an owner and the projection a checkpoint stores.                *)
(*                                                                         *)
(* An owner is a record                                                    *)
(*   revision            of the current snapshot                           *)
(*   nextRoot, nextSong  the identity allocators                           *)
(*   roots    root id |-> [attachmentGeneration, policy]                   *)
(*   songs    song id |-> [root, locator, state, source, override]         *)
(*   binding  root id |-> [path, attached, savedHint], roots_ of discovery *)
(* `source` stands for the revision and metadata of the last bytes a scan  *)
(* accepted and is the path they were read under.  Byte budgets, text      *)
(* rules and allocation failures are refusals that change nothing.         *)
(***************************************************************************)
EXTENDS Naturals, FiniteSets

CONSTANTS
    Paths,      \* canonical directories
    Nested,     \* pairs of paths, the first containing the second
    Locators,   \* relative file names
    Fold,       \* locator |-> its ASCII case folding
    Overrides,  \* the records a user may set
    NoPath,     \* no path, hint or source
    NoOverride,
    MaxValue    \* UINT64_MAX, for revisions, identities and generations

ASSUME NestedAssumption == Nested \subseteq Paths \X Paths
ASSUME FoldAssumption == DOMAIN Fold = Locators
ASSUME NoPathAssumption == NoPath \notin Paths
ASSUME NoOverrideAssumption == NoOverride \notin Overrides
ASSUME LocatorsAssumption == IsFiniteSet(Locators)
ASSUME MaxValueAssumption == MaxValue \in Nat \ {0, 1}

Policy == "ExactLegacySchema"
EmptyOwner ==
    [revision |-> 0, nextRoot |-> 1, nextSong |-> 1,
     roots |-> [r \in {} |-> 0], songs |-> [s \in {} |-> 0],
     binding |-> [r \in {} |-> 0]]

Extend(f, x, v) == [y \in DOMAIN f \cup {x} |-> IF y = x THEN v ELSE f[y]]

\* catalogAliases: equal up to ASCII case.
Aliases(a, b) == Fold[a] = Fold[b]
Overlap(p, q) == p = q \/ <<p, q>> \in Nested \/ <<q, p>> \in Nested
Attached(o, r) == o.binding[r].attached
SongsOf(o, r) == {s \in DOMAIN o.songs : o.songs[s].root = r}

\* A song whose source has to be validated by a later scan.
Unverified(song) == [song EXCEPT !.state = "Invalid", !.source = NoPath]

CanRevise(o) == o.revision < MaxValue
Revised(o) == [o EXCEPT !.revision = @ + 1]

-----------------------------------------------------------------------------
(* Roots.                                                                  *)

\* p and the directory of any other attached root are not nested.
Disjoint(o, r, p) ==
    \A q \in DOMAIN o.binding :
        q # r /\ Attached(o, q) => ~Overlap(o.binding[q].path, p)

CanRegister(o, p) ==
    o.nextRoot < MaxValue /\ CanRevise(o) /\ Disjoint(o, o.nextRoot, p)

Registered(o, p) ==
    [revision |-> o.revision + 1, nextRoot |-> o.nextRoot + 1, nextSong |-> o.nextSong,
     roots |-> Extend(o.roots, o.nextRoot, [attachmentGeneration |-> 1, policy |-> Policy]),
     songs |-> o.songs,
     binding |-> Extend(o.binding, o.nextRoot,
                        [path |-> p, attached |-> TRUE, savedHint |-> NoPath])]

\* A root already attached to p is left as it is, with no new revision.
ReattachIsNoChange(o, r, p) == Attached(o, r) /\ o.binding[r].path = p

CanReattach(o, r, p) ==
    /\ r \in DOMAIN o.binding
    /\ Disjoint(o, r, p)
    /\ \/ ReattachIsNoChange(o, r, p)
       \/ o.roots[r].attachmentGeneration < MaxValue /\ CanRevise(o)

\* Mutant: a reattachment keeps its generation.
SameGeneration(n) == n
NextGeneration(n) == n + 1

\* Mutant: the songs of a reattached root stay as scanned.
SongsKept(o, r) == o.songs

\* stageRootReattachment: every song of the root loses its source.
SongsDetached(o, r) ==
    [s \in DOMAIN o.songs |->
        IF o.songs[s].root = r THEN Unverified(o.songs[s]) ELSE o.songs[s]]

Reattached(o, r, p) ==
    [revision |-> o.revision + 1, nextRoot |-> o.nextRoot, nextSong |-> o.nextSong,
     roots |-> [o.roots EXCEPT ![r].attachmentGeneration = NextGeneration(@)],
     songs |-> SongsDetached(o, r),
     binding |-> [o.binding EXCEPT ![r].path = p, ![r].attached = TRUE]]

-----------------------------------------------------------------------------
(* A complete scan: `found` maps the locators on disk to what reading them *)
(* gave, verified by a second reading.                                     *)

Candidate == [state : {"Ready", "Invalid"}, read : BOOLEAN]

KnownLocators(o, r) == {o.songs[s].locator : s \in SongsOf(o, r)}
NewLocators(o, r, found) == DOMAIN found \ KnownLocators(o, r)

\* Mutant: new names are checked against each other only.
IncomingOnly(o, r, found) == TRUE

\* A new name that an entry of the root, also a Missing one, has in another
\* case needs an explicit relocation.
NoCaseRename(o, r, found) ==
    \A l \in NewLocators(o, r, found), k \in KnownLocators(o, r) : ~Aliases(k, l)

\* The enumeration fails when two names on disk differ only by case.
Unambiguous(found) == \A k, l \in DOMAIN found : Aliases(k, l) => k = l

CanScan(o, r, found) ==
    /\ r \in DOMAIN o.binding
    /\ Attached(o, r)
    /\ Unambiguous(found)
    /\ NoCaseRename(o, r, found)
    /\ CanRevise(o)
    /\ o.nextSong + Cardinality(NewLocators(o, r, found)) <= MaxValue

SourceRead(o, r, c) == IF c.read THEN o.binding[r].path ELSE NoPath

\* The entry of a song of the scanned root.
Rescanned(o, r, song, found) ==
    IF song.locator \in DOMAIN found
    THEN LET c == found[song.locator] IN
         [song EXCEPT !.state = c.state, !.source = SourceRead(o, r, c)]
    ELSE [song EXCEPT !.state = "Missing", !.source = NoPath]

\* The possible results of commitScan: the new names get the next identities,
\* in byte order of the names; any order stands for it.
Scanned(o, r, found) ==
    LET fresh == NewLocators(o, r, found)
        ids == o.nextSong..(o.nextSong + Cardinality(fresh) - 1)
        name == CHOOSE f \in [ids -> fresh] : \A i, j \in ids : f[i] = f[j] => i = j
    IN
    [revision |-> o.revision + 1, nextRoot |-> o.nextRoot,
     nextSong |-> o.nextSong + Cardinality(fresh), roots |-> o.roots, binding |-> o.binding,
     songs |-> [s \in DOMAIN o.songs \cup ids |->
        IF s \notin DOMAIN o.songs
        THEN [root |-> r, locator |-> name[s], state |-> found[name[s]].state,
              source |-> SourceRead(o, r, found[name[s]]), override |-> NoOverride]
        ELSE IF o.songs[s].root = r
             THEN Rescanned(o, r, o.songs[s], found)
             ELSE o.songs[s]]]

-----------------------------------------------------------------------------
(* Songs.                                                                  *)

CanRelocate(o, s, r, l) ==
    /\ r \in DOMAIN o.roots
    /\ s \in DOMAIN o.songs
    /\ \A t \in SongsOf(o, r) \ {s} : ~Aliases(o.songs[t].locator, l)
    /\ CanRevise(o)

\* The new place has to be scanned first.
AfterRelocation(song) == Unverified(song)

Relocated(o, s, r, l) ==
    [Revised(o) EXCEPT
        !.songs[s] = AfterRelocation([@ EXCEPT !.root = r, !.locator = l])]

CanRemove(o, s) == s \in DOMAIN o.songs /\ CanRevise(o)

Removed(o, s) ==
    [Revised(o) EXCEPT !.songs = [t \in DOMAIN @ \ {s} |-> @[t]]]

\* The record a song already has is accepted with no new revision.
OverrideIsNoChange(o, s, v) == o.songs[s].override = v

CanOverride(o, s, v) ==
    s \in DOMAIN o.songs /\ (OverrideIsNoChange(o, s, v) \/ CanRevise(o))

Overridden(o, s, v) == [Revised(o) EXCEPT !.songs[s].override = v]

-----------------------------------------------------------------------------
(* Checkpoints.                                                            *)

\* CatalogCheckpointCapture::acquire: an attached root is stored by its path,
\* a detached one by the hint it was restored with.
Capture(o) ==
    [catalogRevision |-> o.revision, nextRoot |-> o.nextRoot, nextSong |-> o.nextSong,
     roots |-> [r \in DOMAIN o.roots |->
        [attachmentGeneration |-> o.roots[r].attachmentGeneration,
         policy |-> o.roots[r].policy,
         hint |-> IF Attached(o, r) THEN o.binding[r].path ELSE o.binding[r].savedHint]],
     songs |-> [s \in DOMAIN o.songs |->
        [root |-> o.songs[s].root, locator |-> o.songs[s].locator,
         override |-> o.songs[s].override]]]

\* CatalogCheckpointRestore: everything detached, nothing verified,
\* the allocators where they were.
Restore(p) ==
    [revision |-> p.catalogRevision, nextRoot |-> p.nextRoot,
     nextSong |-> p.nextSong,
     roots |-> [r \in DOMAIN p.roots |->
        [attachmentGeneration |-> p.roots[r].attachmentGeneration,
         policy |-> p.roots[r].policy]],
     songs |-> [s \in DOMAIN p.songs |->
        [root |-> p.songs[s].root, locator |-> p.songs[s].locator,
         state |-> "Invalid", source |-> NoPath, override |-> p.songs[s].override]],
     binding |-> [r \in DOMAIN p.roots |->
        [path |-> NoPath, attached |-> FALSE, savedHint |-> p.roots[r].hint]]]
=============================================================================
