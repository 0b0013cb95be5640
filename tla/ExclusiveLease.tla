---------------------------- MODULE ExclusiveLease ----------------------------
(***************************************************************************)
(* What the writer lease promises, without files: every directory has one  *)
(* owner or none, and a lease changes hands only through nobody.           *)
(*                                                                         *)
(* WriterLease implements this module where no other program touches the   *)
(* lock files; CheckpointStore relies on it for its variable lock.         *)
(***************************************************************************)
CONSTANTS Leases, Directories, None

VARIABLE owner   \* the lease that owns each directory, or None

Init == owner = [d \in Directories |-> None]

Take(d, l) == owner[d] = None /\ owner' = [owner EXCEPT ![d] = l]

\* Any number of owners let go at once: a process may end with all it holds.
LetGo(D) == owner' = [d \in Directories |-> IF d \in D THEN None ELSE owner[d]]

Next ==
    \/ \E d \in Directories, l \in Leases : Take(d, l)
    \/ \E D \in SUBSET Directories : LetGo(D)

Spec == Init /\ [][Next]_owner
=============================================================================
