------------------------ MODULE CheckpointProjection ------------------------
(***************************************************************************)
(* The value a catalog checkpoint carries and the history rule that ties   *)
(* a checkpoint to the one it replaces (library/CatalogCheckpointCodec.hpp *)
(* and StoreDetail in library/CatalogCheckpointStore.hpp).                 *)
(*                                                                         *)
(* A projection is a record                                                *)
(*   catalogRevision   revision of the captured snapshot                   *)
(*   nextRoot,nextSong the identity allocators' high-water marks           *)
(*   roots   root id |-> [attachmentGeneration, policy, hint]              *)
(*   songs   song id |-> [root, locator, override]                         *)
(* Rows are keyed functions, so the order of the vectors in the code is    *)
(* already forgotten, as equalProjection and history forget it.  The       *)
(* publication sequence is kept outside, in the wire.                      *)
(***************************************************************************)
EXTENDS Naturals

CONSTANTS
    Projections,  \* the projections callers try to save
    MaxSequence,  \* UINT64_MAX: the largest publication sequence
    Absent        \* no checkpoint

\* A complete encoded checkpoint.  Its commit token is the sequence and the
\* SHA-256 digest of the whole; two wires with one digest are not modelled,
\* so the token is the wire.
Wire == [sequence : 1..MaxSequence, projection : Projections]

ASSUME SequenceAssumption == MaxSequence \in Nat \ {0}
ASSUME AbsentAssumption == Absent \notin Wire

\* CheckpointDetail::validate, without the text rules: identities are
\* below their allocator, generations start at 1, every song names a root
\* of the same projection, and no two songs share a source key (`locator`
\* here is the key, the locator with its case folded).
ValidProjection(p) ==
    /\ p.nextRoot > 0
    /\ p.nextSong > 0
    /\ \A r \in DOMAIN p.roots :
          /\ r > 0
          /\ r < p.nextRoot
          /\ p.roots[r].attachmentGeneration > 0
    /\ \A s \in DOMAIN p.songs :
          /\ s > 0
          /\ s < p.nextSong
          /\ p.songs[s].root \in DOMAIN p.roots
    /\ \A s, t \in DOMAIN p.songs :
          /\ p.songs[s].root = p.songs[t].root
          /\ p.songs[s].locator = p.songs[t].locator
          => s = t

\* StoreDetail::equalProjection: everything but the publication sequence.
EqualProjection(a, b) ==
    /\ a.catalogRevision = b.catalogRevision
    /\ a.nextRoot = b.nextRoot
    /\ a.nextSong = b.nextSong
    /\ a.roots = b.roots
    /\ a.songs = b.songs

\* A retained root keeps its policy, never goes back to an older
\* attachment generation, and changes its hint only with a new one.
RootContinues(before, after) ==
    /\ after.attachmentGeneration >= before.attachmentGeneration
    /\ after.policy = before.policy
    /\ \/ after.attachmentGeneration # before.attachmentGeneration
       \/ after.hint = before.hint

\* StoreDetail::history: what a changed save must satisfy against the
\* projection it replaces.
History(old, next) ==
    /\ next.catalogRevision > old.catalogRevision
    /\ next.nextRoot >= old.nextRoot
    /\ next.nextSong >= old.nextSong
    /\ \A r \in DOMAIN next.roots \ DOMAIN old.roots : r >= old.nextRoot
    /\ DOMAIN old.roots \subseteq DOMAIN next.roots
    /\ \A r \in DOMAIN old.roots : RootContinues(old.roots[r], next.roots[r])
    /\ \A s \in DOMAIN next.songs \ DOMAIN old.songs : s >= old.nextSong

\* The sequence CatalogCheckpointStore::save gives a candidate that
\* replaces `old`: one more than the current one, 1 for the first.
NextSequence(old) == IF old = Absent THEN 1 ELSE old.sequence + 1

\* w is a checkpoint save may publish over `old`.
Successor(old, w) ==
    /\ w.sequence = NextSequence(old)
    /\ old # Absent => History(old.projection, w.projection)
=============================================================================
