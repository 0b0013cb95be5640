-------------------------- MODULE MCCheckpointStore --------------------------
(***************************************************************************)
(* Instances of CheckpointStore for TLC: model values for stores and       *)
(* files, and projections that make every rule of History matter.          *)
(***************************************************************************)
EXTENDS CheckpointStoreInvariant, TLC

Root(generation) == [attachmentGeneration |-> generation, policy |-> "first", hint |-> "h"]
Song(locator) == [root |-> 1, locator |-> locator, override |-> "none"]

OneSong == [catalogRevision |-> 2, nextRoot |-> 2, nextSong |-> 2,
            roots |-> 1 :> Root(1), songs |-> 1 :> Song("a")]
\* The song is gone, its identity is spent.
SongRemoved == [OneSong EXCEPT !.catalogRevision = 3, !.songs = <<>>]
\* Against SongRemoved: the spent identity comes back.
SongReused == [OneSong EXCEPT !.catalogRevision = 4]
\* Against OneSong: another catalog with the same revision.
OtherSong == [OneSong EXCEPT !.songs = 1 :> Song("b")]
\* Two songs under one source key.
Invalid == [OneSong EXCEPT !.nextSong = 3, !.songs = 1 :> Song("a") @@ 2 :> Song("a")]

MCProjections == {OneSong, SongRemoved, SongReused, OtherSong, Invalid}
FewProjections == {OneSong, SongRemoved}

FileSymmetry == Permutations(Files)
Symmetry == Permutations(Files) \cup Permutations(Stores)
==============================================================================
