----------------------------- MODULE WriterLease ------------------------------
(***************************************************************************)
(* LinuxCheckpointLease (library/LinuxCheckpointLease.hpp): the exclusive  *)
(* right to write one library.  A lease reserves its key in a registry of  *)
(* its process, then locks a file beside the primary with flock.  Leases   *)
(* of one process may be used by different threads, and processes share    *)
(* nothing but the file system.                                            *)
(*                                                                         *)
(* A directory holds one library here, so a key is a directory; a second   *)
(* primary in it would be a second lock file.  An inode number is free for *)
(* reuse once no name and no descriptor refers to it.  Other programs may  *)
(* move any directory, and in the Disturbed ones remove, replace or link   *)
(* lock files, which the locking protocol cannot stop, only notice.        *)
(***************************************************************************)
EXTENDS Integers, FiniteSets

CONSTANTS Leases, Processes, ProcessOf, Paths, Directories, Inodes, None,
          MaxOwners,  \* registry entries of a process: 64 in the code
          Disturbed   \* directories whose lock files other programs touch

ASSUME LeaseAssumption ==
    /\ ProcessOf \in [Leases -> Processes]
    /\ None \notin Leases \cup Paths \cup Directories \cup Inodes
    /\ MaxOwners \in Nat \ {0}
    /\ Disturbed \subseteq Directories

VARIABLES
    at,        \* the directory each path leads to, or None
    lockName,  \* the inode each directory's lock name refers to, or None
    odd,       \* inodes that are not a regular file with exactly one link
    locked,    \* the lease that has the flock of each inode, or None
    registry,  \* the reservations of each process
    mutex,     \* who is in each process's registry section, or None
    lease      \* what each lease knows, and how far its call has come

vars == <<at, lockName, odd, locked, registry, mutex, lease>>
fileVars == <<at, lockName, odd>>

Phases == {"free", "walked", "reserving", "reserved", "exists", "stated",
           "opened", "verified", "locked", "observed", "held", "closed", "erasing"}
Reserved == Phases \ {"free", "walked", "reserving"}
HasLock == {"locked", "observed", "held"}

\* A lease: its phase, path and directory, the file it looked at, the file it
\* has open.
Knowledge == [pc : Phases, path : Paths \cup {None}, dir : Directories \cup {None},
              prior : Inodes \cup {None}, fd : Inodes \cup {None}]

\* The reservations a process can have.
Registries == {S \in SUBSET Leases : IsFiniteSet(S) /\ Cardinality(S) <= MaxOwners}

FreeLease == [pc |-> "free", path |-> None, dir |-> None, prior |-> None, fd |-> None]

Init ==
    /\ at \in [Paths -> Directories]
    /\ \A p, q \in Paths : at[p] = at[q] => p = q
    /\ lockName = [d \in Directories |-> None]
    /\ odd = {}
    /\ locked = [i \in Inodes |-> None]
    /\ registry = [p \in Processes |-> {}]
    /\ mutex = [p \in Processes |-> None]
    /\ lease = [l \in Leases |-> FreeLease]

TypeOK ==
    /\ at \in [Paths -> Directories \cup {None}]
    /\ lockName \in [Directories -> Inodes \cup {None}]
    /\ odd \subseteq Inodes
    /\ locked \in [Inodes -> Leases \cup {None}]
    /\ registry \in [Processes -> Registries]
    /\ mutex \in [Processes -> Leases \cup {None}]
    /\ lease \in [Leases -> Knowledge]

-----------------------------------------------------------------------------
(* Helpers.                                                                *)

Process(l) == ProcessOf[l]

\* An inode number no name and no open descriptor refers to.
Unused(i) == (\A d \in Directories : lockName[d] # i) /\ (\A l \in Leases : lease[l].fd # i)

Becomes(l, pc) == lease' = [lease EXCEPT ![l].pc = pc]

\* release(): closing the descriptor gives the flock up and keeps the file;
\* the directory's descriptor goes with it.
CloseLock(l) ==
    locked' = [i \in Inodes |-> IF locked[i] = l THEN None ELSE locked[i]]

\* The failure of an acquire, or a release: what is reserved is still to be
\* erased; what is not is forgotten at once.
Drop(l) ==
    /\ CloseLock(l)
    /\ lease' = [lease EXCEPT ![l] =
                    IF l \in registry[Process(l)]
                    THEN [FreeLease EXCEPT !.pc = "closed", !.dir = lease[l].dir]
                    ELSE FreeLease]

-----------------------------------------------------------------------------
(* acquire.                                                                *)

\* The walk to the directory and the look at the primary in it.
Walk(l, p) ==
    /\ lease[l].pc = "free"
    /\ at[p] # None
    /\ lease' = [lease EXCEPT ![l] = [FreeLease EXCEPT !.pc = "walked", !.path = p, !.dir = at[p]]]
    /\ UNCHANGED <<fileVars, locked, registry, mutex>>

\* The registry's mutex is tried, not waited for: a contender answers Busy.
TryMutex(l) ==
    /\ lease[l].pc = "walked"
    /\ IF mutex[Process(l)] = None
       THEN /\ mutex' = [mutex EXCEPT ![Process(l)] = l]
            /\ Becomes(l, "reserving")
            /\ UNCHANGED locked
       ELSE Drop(l) /\ UNCHANGED mutex
    /\ UNCHANGED <<fileVars, registry>>

\* No lease of this process has the key, and there is an entry left.
MayReserve(l) ==
    /\ \A m \in registry[Process(l)] : lease[m].dir # lease[l].dir
    /\ Cardinality(registry[Process(l)]) < MaxOwners

Reserve(l) ==
    /\ lease[l].pc = "reserving"
    /\ mutex' = [mutex EXCEPT ![Process(l)] = None]
    /\ IF MayReserve(l)
       THEN /\ registry' = [registry EXCEPT ![Process(l)] = @ \cup {l}]
            /\ Becomes(l, "reserved")
            /\ UNCHANGED locked
       ELSE Drop(l) /\ UNCHANGED registry
    /\ UNCHANGED fileVars

\* The reservation cannot be allocated: nothing was published, the guard is
\* unlocked by unwinding.
ReserveThrows(l) ==
    /\ lease[l].pc = "reserving"
    /\ mutex' = [mutex EXCEPT ![Process(l)] = None]
    /\ Drop(l)
    /\ UNCHANGED <<fileVars, registry>>

\* O_CREAT | O_EXCL.
CreateLock(l) ==
    /\ lease[l].pc = "reserved"
    /\ LET d == lease[l].dir IN
       \/ /\ lockName[d] = None
          /\ \E i \in Inodes :
                /\ Unused(i)
                /\ lockName' = [lockName EXCEPT ![d] = i]
                /\ odd' = odd \ {i}
                /\ lease' = [lease EXCEPT ![l].pc = "opened", ![l].fd = i]
       \/ /\ lockName[d] # None
          /\ Becomes(l, "exists")
          /\ UNCHANGED <<lockName, odd>>
    /\ UNCHANGED <<at, locked, registry, mutex>>

\* fstatat of the file that was there.
StatLock(l) ==
    /\ lease[l].pc = "exists"
    /\ LET i == lockName[lease[l].dir] IN
       IF i = None \/ i \in odd
       THEN Drop(l)
       ELSE /\ lease' = [lease EXCEPT ![l].pc = "stated", ![l].prior = i]
            /\ UNCHANGED locked
    /\ UNCHANGED <<fileVars, registry, mutex>>

\* openat of the existing file.
OpenLock(l) ==
    /\ lease[l].pc = "stated"
    /\ LET i == lockName[lease[l].dir] IN
       IF i = None
       THEN Drop(l)
       ELSE /\ lease' = [lease EXCEPT ![l].pc = "opened", ![l].fd = i]
            /\ UNCHANGED locked
    /\ UNCHANGED <<fileVars, registry, mutex>>

\* fstat: one regular file, and the one that was looked at.
VerifyLock(l) ==
    /\ lease[l].pc = "opened"
    /\ IF lease[l].fd \in odd \/ (lease[l].prior # None /\ lease[l].prior # lease[l].fd)
       THEN Drop(l)
       ELSE Becomes(l, "verified") /\ UNCHANGED locked
    /\ UNCHANGED <<fileVars, registry, mutex>>

\* Mutant: a shared lock.
SharedFlock(l) == TRUE

\* LOCK_EX | LOCK_NB succeeds: nobody has the inode's lock.
FlockFree(l) == locked[lease[l].fd] = None

Flock(l) ==
    /\ lease[l].pc = "verified"
    /\ IF FlockFree(l)
       THEN /\ locked' = [locked EXCEPT ![lease[l].fd] = l]
            /\ Becomes(l, "locked")
       ELSE Drop(l)
    /\ UNCHANGED <<fileVars, registry, mutex>>

\* The two halves of check(): the path still leads to the directory, and the
\* lock name in that directory is the file this lease has locked.
PathOk(l) == at[lease[l].path] = lease[l].dir

\* Mutant: any plain file under the lock name will do.
AnyFile(l) == lockName[lease[l].dir] \notin odd \cup {None}

NameOk(l) == lockName[lease[l].dir] = lease[l].fd /\ lease[l].fd \notin odd

Observe(l) ==
    /\ lease[l].pc = "locked"
    /\ IF PathOk(l) THEN Becomes(l, "observed") /\ UNCHANGED locked ELSE Drop(l)
    /\ UNCHANGED <<fileVars, registry, mutex>>

Hold(l) ==
    /\ lease[l].pc = "observed"
    /\ IF NameOk(l) THEN Becomes(l, "held") /\ UNCHANGED locked ELSE Drop(l)
    /\ UNCHANGED <<fileVars, registry, mutex>>

\* A system call fails, or the primary is not a plain file.
Fail(l) ==
    /\ lease[l].pc \in Phases \ {"free", "reserving", "held", "closed", "erasing"}
    /\ Drop(l)
    /\ UNCHANGED <<fileVars, registry, mutex>>

-----------------------------------------------------------------------------
(* release, and the end of a process.                                      *)

Release(l) ==
    /\ lease[l].pc = "held"
    /\ Drop(l)
    /\ UNCHANGED <<fileVars, registry, mutex>>

\* The entry is erased under the mutex, which release waits for.
LockRegistry(l) ==
    /\ lease[l].pc = "closed"
    /\ mutex[Process(l)] = None
    /\ mutex' = [mutex EXCEPT ![Process(l)] = l]
    /\ Becomes(l, "erasing")
    /\ UNCHANGED <<fileVars, locked, registry>>

\* Mutant: the entry is forgotten.
KeepEntry(l) == UNCHANGED registry

EraseEntry(l) == registry' = [registry EXCEPT ![Process(l)] = @ \ {l}]

Erase(l) ==
    /\ lease[l].pc = "erasing"
    /\ EraseEntry(l)
    /\ mutex' = [mutex EXCEPT ![Process(l)] = None]
    /\ lease' = [lease EXCEPT ![l] = FreeLease]
    /\ UNCHANGED <<fileVars, locked>>

\* The kernel closes everything a process had open.
Die(p) ==
    /\ \E l \in Leases : Process(l) = p /\ lease[l].pc # "free"
    /\ lease' = [l \in Leases |-> IF Process(l) = p THEN FreeLease ELSE lease[l]]
    /\ locked' = [i \in Inodes |->
                    IF locked[i] # None /\ Process(locked[i]) = p THEN None ELSE locked[i]]
    /\ registry' = [registry EXCEPT ![p] = {}]
    /\ mutex' = [mutex EXCEPT ![p] = None]
    /\ UNCHANGED fileVars

-----------------------------------------------------------------------------
(* Other programs.                                                         *)

\* The lock name is removed, moved away or given to another file; the files
\* concerned may be left with no link, with one or with several.
Replace(d) ==
    /\ d \in Disturbed
    /\ \E i \in Inodes \cup {None} :
          /\ \A e \in Directories \ {d} : i = None \/ lockName[e] # i
          /\ lockName' = [lockName EXCEPT ![d] = i]
          /\ \E o \in SUBSET (Inodes \cap {i, lockName[d]}) :
                odd' = (odd \ {i, lockName[d]}) \cup o
    /\ UNCHANGED <<at, locked, registry, mutex, lease>>

MoveDirectory(p) ==
    /\ \E d \in Directories \cup {None} :
          /\ \A q \in Paths \ {p} : d = None \/ at[q] # d
          /\ at' = [at EXCEPT ![p] = d]
    /\ UNCHANGED <<lockName, odd, locked, registry, mutex, lease>>

-----------------------------------------------------------------------------
\* What a lease in the middle of a call does next.
Continue(l) ==
    \/ TryMutex(l) \/ Reserve(l) \/ CreateLock(l) \/ StatLock(l) \/ OpenLock(l)
    \/ VerifyLock(l) \/ Flock(l) \/ Observe(l) \/ Hold(l) \/ LockRegistry(l) \/ Erase(l)

Next ==
    \/ \E l \in Leases :
          \/ \E p \in Paths : Walk(l, p)
          \/ Continue(l) \/ ReserveThrows(l) \/ Fail(l) \/ Release(l)
    \/ \E p \in Processes : Die(p)
    \/ \E d \in Directories : Replace(d)
    \/ \E p \in Paths : MoveDirectory(p)

Spec == Init /\ [][Next]_vars

-----------------------------------------------------------------------------
(* Properties.                                                             *)

\* A lease whose check would succeed now.
Confirmed(l) == lease[l].pc = "held" /\ PathOk(l) /\ NameOk(l)

\* Whatever other programs do to the lock files and the directories, no two
\* leases can both confirm their right to the same library.
OneConfirmedWriter ==
    \A l, m \in Leases :
        l # m /\ Confirmed(l) /\ Confirmed(m) =>
            lease[l].path # lease[m].path /\ lease[l].dir # lease[m].dir

\* Where the lock files are left alone, two leases never hold the same
\* directory, not even while one is being released or has failed its check.
OneWriter ==
    \A l, m \in Leases :
        l # m /\ lease[l].pc \in HasLock /\ lease[m].pc \in HasLock
              /\ lease[l].dir \notin Disturbed =>
            lease[l].dir # lease[m].dir

\* A lease that is free has left nothing behind that could refuse the next:
\* no flock, no reservation, no mutex; and a descriptor closes its lock.
NothingLeaks ==
    /\ \A l \in Leases :
          lease[l].pc = "free" =>
              /\ \A i \in Inodes : locked[i] # l
              /\ l \notin registry[Process(l)]
              /\ mutex[Process(l)] # l
    /\ \A i \in Inodes : locked[i] # None => lease[locked[i]].fd = i

\* Where the lock files are left alone, the lease is the exclusive lease it
\* is meant to be: the owner of a directory is the lease that has the flock
\* of its lock file, wherever the directory is moved to.
Quiet == Directories \ Disturbed
Owner == [d \in Quiet |-> IF lockName[d] = None THEN None ELSE locked[lockName[d]]]
Abstract == INSTANCE ExclusiveLease WITH owner <- Owner, Directories <- Quiet
ImplementsExclusiveLease == Abstract!Spec
=============================================================================
