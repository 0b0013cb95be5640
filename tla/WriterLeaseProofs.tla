--------------------------- MODULE WriterLeaseProofs --------------------------
(***************************************************************************)
(* The writer lease is exclusive for any number of processes, leases,      *)
(* directories and files.  The invariant ties the kernel's lock table to   *)
(* what each lease knows: whoever is recorded as holding an inode has it   *)
(* open and believes to have locked it, and conversely.  From that two     *)
(* leases that confirm the same lock file are one, whatever other programs *)
(* did to the names; and where names are left alone, the file a lease has  *)
(* open is the one its directory names, so holding is already exclusive.   *)
(***************************************************************************)
EXTENDS WriterLease, FiniteSetTheorems, TLAPS

\* The open file of a lease, in each phase of its call.
Descriptors ==
    /\ \A l \in Leases :
          /\ lease[l].pc \in {"opened", "verified"} \cup HasLock => lease[l].fd \in Inodes
          /\ lease[l].pc \notin {"opened", "verified"} \cup HasLock => lease[l].fd = None
          /\ lease[l].pc \notin {"free", "closed", "erasing"} =>
                lease[l].path \in Paths /\ lease[l].dir \in Directories

\* The kernel's locks are the ones the leases believe to have.
Locks ==
    \A l \in Leases, i \in Inodes :
        locked[i] = l <=> lease[l].pc \in HasLock /\ lease[l].fd = i

\* A file has one name.
OneName ==
    \A d, e \in Directories : lockName[d] = lockName[e] /\ lockName[d] # None => d = e

\* A lock file of a quiet directory is open in the leases for that directory
\* and in no other.
QuietFiles ==
    \A l \in Leases, d \in Quiet :
        lease[l].fd # None => (lease[l].dir = d <=> lockName[d] = lease[l].fd)

IInv == TypeOK /\ Descriptors /\ Locks /\ OneName /\ QuietFiles

-----------------------------------------------------------------------------

\* Knowledge records.
LEMMA FreeType == FreeLease \in Knowledge
  BY DEF FreeLease, Knowledge, Phases

LEMMA PhaseType ==
    ASSUME NEW r \in Knowledge, NEW pc \in Phases
    PROVE  /\ [r EXCEPT !.pc = pc] \in Knowledge
           /\ [r EXCEPT !.pc = pc].pc = pc
           /\ [r EXCEPT !.pc = pc].path = r.path
           /\ [r EXCEPT !.pc = pc].dir = r.dir
           /\ [r EXCEPT !.pc = pc].prior = r.prior
           /\ [r EXCEPT !.pc = pc].fd = r.fd
  BY DEF Knowledge

LEMMA EmptyRegistry == {} \in Registries
  BY FS_EmptySet, LeaseAssumption DEF Registries

\* One lease changes, and stays a record of the type.
LEMMA OneLease ==
    ASSUME lease \in [Leases -> Knowledge], NEW l \in Leases, NEW r \in Knowledge,
           lease' = [lease EXCEPT ![l] = r]
    PROVE  /\ lease' \in [Leases -> Knowledge]
           /\ lease'[l] = r
           /\ \A m \in Leases \ {l} : lease'[m] = lease[m]
  OBVIOUS

LEMMA InitIInv == Init => IInv
<1> SUFFICES ASSUME Init PROVE IInv
  OBVIOUS
<1>1. \A l \in Leases : lease[l] = FreeLease
  BY DEF Init
<1>2. TypeOK
  BY FreeType, EmptyRegistry DEF Init, TypeOK
<1>3. Descriptors /\ Locks
  BY <1>1, LeaseAssumption DEF Init, Descriptors, Locks, FreeLease, HasLock
<1>4. OneName /\ QuietFiles
  BY <1>1 DEF Init, OneName, QuietFiles, Quiet, FreeLease
<1> QED
  BY <1>2, <1>3, <1>4 DEF IInv

\* A dropped lease has nothing open and no lock, and nothing else changes.
LEMMA DropIInv ==
    ASSUME IInv, NEW l \in Leases, Drop(l), UNCHANGED fileVars,
           registry' \in [Processes -> Registries],
           mutex' \in [Processes -> Leases \cup {None}]
    PROVE  IInv'
<1> DEFINE kept == [FreeLease EXCEPT !.pc = "closed", !.dir = lease[l].dir]
<1>1. /\ lease' \in [Leases -> Knowledge]
      /\ lease'[l].pc \in {"free", "closed"}
      /\ lease'[l].fd = None
      /\ \A m \in Leases \ {l} : lease'[m] = lease[m]
  <2>1. lease \in [Leases -> Knowledge] /\ lease[l].dir \in Directories \cup {None}
    BY DEF IInv, TypeOK, Knowledge
  <2>2. /\ kept \in Knowledge /\ kept.pc = "closed" /\ kept.fd = None
        /\ FreeLease.pc = "free" /\ FreeLease.fd = None
    BY <2>1 DEF Knowledge, FreeLease, Phases
  <2>3. \E r \in {kept, FreeLease} : lease' = [lease EXCEPT ![l] = r]
    BY DEF Drop
  <2> HIDE DEF kept
  <2> QED
    BY <2>1, <2>2, <2>3, FreeType, OneLease
<1>2. /\ locked' \in [Inodes -> Leases \cup {None}]
      /\ \A i \in Inodes : locked'[i] = IF locked[i] = l THEN None ELSE locked[i]
  BY DEF Drop, CloseLock, IInv, TypeOK
<1>3. TypeOK'
  BY <1>1, <1>2 DEF IInv, TypeOK, fileVars
<1>4. Descriptors'
  BY <1>1 DEF IInv, Descriptors, HasLock
<1>5. Locks'
  BY <1>1, <1>2, LeaseAssumption DEF IInv, Locks, HasLock
<1>6. OneName' /\ QuietFiles'
  BY <1>1 DEF IInv, OneName, QuietFiles, Quiet, fileVars
<1> QED
  BY <1>3, <1>4, <1>5, <1>6 DEF IInv

\* A lease that moves on to a phase with the same descriptors.
LEMMA PhaseIInv ==
    ASSUME IInv, NEW l \in Leases, NEW pc \in Phases, Becomes(l, pc), UNCHANGED <<fileVars, locked>>,
           registry' \in [Processes -> Registries],
           mutex' \in [Processes -> Leases \cup {None}],
           pc \in {"opened", "verified"} \cup HasLock <=>
               lease[l].pc \in {"opened", "verified"} \cup HasLock,
           pc \in HasLock <=> lease[l].pc \in HasLock,
           pc \notin {"free", "closed", "erasing"} => lease[l].pc \notin {"free", "closed", "erasing"}
    PROVE  IInv'
<1>1. /\ lease' \in [Leases -> Knowledge]
      /\ lease'[l].pc = pc
      /\ lease'[l].fd = lease[l].fd
      /\ lease'[l].path = lease[l].path
      /\ lease'[l].dir = lease[l].dir
      /\ \A m \in Leases \ {l} : lease'[m] = lease[m]
  <2>1. lease \in [Leases -> Knowledge] /\ lease[l] \in Knowledge
    BY DEF IInv, TypeOK
  <2>2. lease' = [lease EXCEPT ![l] = [lease[l] EXCEPT !.pc = pc]]
    BY <2>1 DEF Becomes
  <2> QED
    BY <2>1, <2>2, PhaseType, OneLease
<1>2. TypeOK'
  BY <1>1 DEF IInv, TypeOK, fileVars
<1>3. Descriptors'
  BY <1>1 DEF IInv, Descriptors
<1>4. Locks'
  BY <1>1 DEF IInv, Locks
<1>5. OneName' /\ QuietFiles'
  BY <1>1 DEF IInv, OneName, QuietFiles, Quiet, fileVars
<1> QED
  BY <1>2, <1>3, <1>4, <1>5 DEF IInv

\* Where a call of acquire or release leaves the registry and its mutex.
LEMMA RegistryTypes ==
    ASSUME IInv, NEW l \in Leases
    PROVE  /\ registry \in [Processes -> Registries]
           /\ mutex \in [Processes -> Leases \cup {None}]
           /\ MayReserve(l) =>
                 [registry EXCEPT ![Process(l)] = @ \cup {l}] \in [Processes -> Registries]
           /\ [registry EXCEPT ![Process(l)] = @ \ {l}] \in [Processes -> Registries]
           /\ [mutex EXCEPT ![Process(l)] = None] \in [Processes -> Leases \cup {None}]
           /\ [mutex EXCEPT ![Process(l)] = l] \in [Processes -> Leases \cup {None}]
<1> DEFINE S == registry[Process(l)]
<1>1. /\ registry \in [Processes -> Registries] /\ Process(l) \in Processes
      /\ mutex \in [Processes -> Leases \cup {None}] /\ MaxOwners \in Nat
  BY LeaseAssumption DEF IInv, TypeOK, Process
<1>2. S \in Registries
  BY <1>1
<1>3. S \subseteq Leases /\ IsFiniteSet(S) /\ Cardinality(S) <= MaxOwners /\ Cardinality(S) \in Nat
  BY <1>2, FS_CardinalityType DEF Registries
<1>4. MayReserve(l) => S \cup {l} \in Registries
  <2>1. /\ IsFiniteSet(S \cup {l})
        /\ Cardinality(S \cup {l}) = IF l \in S THEN Cardinality(S) ELSE Cardinality(S) + 1
    BY <1>3, FS_AddElement
  <2> QED
    BY <1>1, <1>3, <2>1 DEF MayReserve, Registries
<1>5. S \ {l} \in Registries
  <2>1. /\ IsFiniteSet(S \ {l})
        /\ Cardinality(S \ {l}) = IF l \in S THEN Cardinality(S) - 1 ELSE Cardinality(S)
    BY <1>3, FS_RemoveElement
  <2> QED
    BY <1>1, <1>3, <2>1 DEF Registries
<1> QED
  BY <1>1, <1>4, <1>5

LEMMA WalkIInv ==
    ASSUME IInv, NEW l \in Leases, NEW p \in Paths, Walk(l, p)
    PROVE  IInv'
<1>1. at[p] \in Directories
  BY DEF IInv, TypeOK, Walk
<1>2. /\ lease' \in [Leases -> Knowledge]
      /\ lease'[l].pc = "walked"
      /\ lease'[l].fd = None
      /\ lease'[l].path = p
      /\ lease'[l].dir = at[p]
      /\ lease[l].pc = "free"
      /\ \A m \in Leases \ {l} : lease'[m] = lease[m]
  <2> DEFINE r == [FreeLease EXCEPT !.pc = "walked", !.path = p, !.dir = at[p]]
  <2>1. r \in Knowledge /\ r.pc = "walked" /\ r.fd = None /\ r.path = p /\ r.dir = at[p]
    BY <1>1 DEF FreeLease, Knowledge, Phases
  <2>2. lease \in [Leases -> Knowledge] /\ lease' = [lease EXCEPT ![l] = r] /\ lease[l].pc = "free"
    BY DEF Walk, IInv, TypeOK
  <2> HIDE DEF r
  <2> QED
    BY <2>1, <2>2, OneLease
<1>3. TypeOK'
  BY <1>2 DEF IInv, TypeOK, Walk, fileVars
<1>4. Descriptors'
  BY <1>1, <1>2 DEF IInv, Descriptors, HasLock
<1>5. Locks'
  BY <1>2 DEF IInv, Locks, HasLock, Walk
<1>6. OneName' /\ QuietFiles'
  BY <1>2 DEF IInv, OneName, QuietFiles, Quiet, fileVars, Walk
<1> QED
  BY <1>3, <1>4, <1>5, <1>6 DEF IInv

\* A lease opens the file its directory names; the file may be a new one.
LEMMA OpenedIInv ==
    ASSUME IInv, NEW l \in Leases, NEW i \in Inodes,
           lease[l].pc \in {"reserved", "stated"},
           lease' = [lease EXCEPT ![l].pc = "opened", ![l].fd = i],
           \/ lockName[lease[l].dir] = i /\ UNCHANGED lockName
           \/ /\ lockName[lease[l].dir] = None
              /\ Unused(i)
              /\ lockName' = [lockName EXCEPT ![lease[l].dir] = i],
           odd' \subseteq Inodes, UNCHANGED <<at, locked, registry, mutex>>
    PROVE  IInv'
<1>1. lease[l].dir \in Directories /\ lease[l].fd = None
  BY DEF IInv, Descriptors, HasLock
<1>2. /\ lease' \in [Leases -> Knowledge]
      /\ lease'[l].pc = "opened"
      /\ lease'[l].fd = i
      /\ lease'[l].path = lease[l].path
      /\ lease'[l].dir = lease[l].dir
      /\ \A m \in Leases \ {l} : lease'[m] = lease[m]
  <2> DEFINE r == [lease[l] EXCEPT !.pc = "opened", !.fd = i]
  <2>1. lease \in [Leases -> Knowledge] /\ lease[l] \in Knowledge
    BY DEF IInv, TypeOK
  <2>2. /\ r \in Knowledge /\ r.pc = "opened" /\ r.fd = i
        /\ r.path = lease[l].path /\ r.dir = lease[l].dir
    BY <2>1 DEF Knowledge, Phases
  <2>3. lease' = [lease EXCEPT ![l] = r]
    BY <2>1
  <2> HIDE DEF r
  <2> QED
    BY <2>1, <2>2, <2>3, OneLease
<1>3. lockName' \in [Directories -> Inodes \cup {None}] /\ lockName'[lease[l].dir] = i
  BY <1>1 DEF IInv, TypeOK
<1>4. TypeOK'
  BY <1>2, <1>3 DEF IInv, TypeOK
<1>5. Descriptors'
  BY <1>2 DEF IInv, Descriptors, HasLock
<1>6. Locks'
  BY <1>2 DEF IInv, Locks, HasLock
<1>7. OneName'
  BY <1>1, <1>3 DEF IInv, TypeOK, OneName, Unused
<1>8. QuietFiles'
  <2> SUFFICES ASSUME NEW m \in Leases, NEW d \in Quiet, lease'[m].fd # None
               PROVE  lease'[m].dir = d <=> lockName'[d] = lease'[m].fd
    BY DEF QuietFiles, Quiet
  <2>1. d \in Directories
    BY DEF Quiet
  <2>2. CASE m = l
    <3>1. lockName'[d] = i => d = lease[l].dir
      BY <1>1, <2>1, LeaseAssumption DEF IInv, TypeOK, OneName, Unused
    <3> QED
      BY <2>2, <1>2, <1>3, <3>1
  <2>3. CASE m # l
    <3>1. lease'[m] = lease[m] /\ (lease[m].dir = d <=> lockName[d] = lease[m].fd)
      BY <2>3, <1>2 DEF IInv, QuietFiles
    <3>2. CASE lockName'[d] = lockName[d]
      BY <3>1, <3>2
    <3>3. CASE lockName'[d] # lockName[d]
      <4>1. lockName[d] = None /\ lockName'[d] = i /\ Unused(i)
        BY <1>1, <2>1, <3>3 DEF IInv, TypeOK
      <4> QED
        BY <3>1, <4>1 DEF Unused
    <3> QED
      BY <3>2, <3>3
  <2> QED
    BY <2>2, <2>3
<1> QED
  BY <1>4, <1>5, <1>6, <1>7, <1>8 DEF IInv

-----------------------------------------------------------------------------

\* Every step of one lease.
LEMMA LeaseStepIInv ==
    ASSUME IInv, NEW l \in Leases,
           \/ \E p \in Paths : Walk(l, p)
           \/ Continue(l) \/ ReserveThrows(l) \/ Fail(l) \/ Release(l)
    PROVE  IInv'
<1>1. ASSUME NEW p \in Paths, Walk(l, p) PROVE IInv'
  BY <1>1, WalkIInv
<1>2. CASE TryMutex(l)
  <2>1. CASE Drop(l)
    BY <1>2, <2>1, DropIInv, RegistryTypes DEF TryMutex
  <2>2. CASE Becomes(l, "reserving") /\ UNCHANGED locked
    BY <1>2, <2>2, PhaseIInv, RegistryTypes DEF TryMutex, Phases, HasLock
  <2> QED
    BY <1>2, <2>1, <2>2 DEF TryMutex
<1>3. CASE Reserve(l)
  <2>1. CASE Drop(l)
    BY <1>3, <2>1, DropIInv, RegistryTypes DEF Reserve
  <2>2. CASE Becomes(l, "reserved") /\ UNCHANGED locked
    BY <1>3, <2>2, PhaseIInv, RegistryTypes DEF Reserve, Phases, HasLock
  <2> QED
    BY <1>3, <2>1, <2>2 DEF Reserve
<1>4. CASE CreateLock(l)
  <2>1. CASE lockName[lease[l].dir] = None
    BY <1>4, <2>1, OpenedIInv DEF CreateLock, IInv, TypeOK
  <2>2. CASE lockName[lease[l].dir] # None
    BY <1>4, <2>2, PhaseIInv, RegistryTypes DEF CreateLock, Phases, HasLock, fileVars
  <2> QED
    BY <2>1, <2>2
<1>5. CASE StatLock(l)
  <2>1. CASE Drop(l)
    BY <1>5, <2>1, DropIInv, RegistryTypes DEF StatLock
  <2>2. CASE ~Drop(l)
    <3> DEFINE i == lockName[lease[l].dir]
               r == [lease[l] EXCEPT !.pc = "stated", !.prior = i]
    <3>1. /\ lease \in [Leases -> Knowledge] /\ lease[l] \in Knowledge
          /\ lease[l].pc = "exists"
          /\ lease' = [lease EXCEPT ![l] = r]
      <4>1. lease \in [Leases -> Knowledge]
        BY DEF IInv, TypeOK
      <4>2. lease' = [lease EXCEPT ![l].pc = "stated", ![l].prior = i] /\ lease[l].pc = "exists"
        BY <1>5, <2>2 DEF StatLock
      <4>3. lease[l] \in Knowledge
        BY <4>1
      <4>4. [lease EXCEPT ![l].pc = "stated", ![l].prior = i] = [lease EXCEPT ![l] = r]
        BY <4>1
      <4> QED
        BY <4>1, <4>2, <4>3, <4>4
    <3>2. i \in Inodes \cup {None}
      <4>1. lease[l].dir \in Directories
        BY <3>1 DEF IInv, Descriptors
      <4> QED
        BY <4>1 DEF IInv, TypeOK
    <3>3. /\ r \in Knowledge /\ r.pc = "stated" /\ r.fd = lease[l].fd
          /\ r.path = lease[l].path /\ r.dir = lease[l].dir
      BY <3>1, <3>2 DEF Knowledge, Phases
    <3> HIDE DEF r, i
    <3>4. /\ lease' \in [Leases -> Knowledge] /\ lease'[l] = r
          /\ \A m \in Leases \ {l} : lease'[m] = lease[m]
      BY <3>1, <3>3, OneLease
    <3>5. UNCHANGED <<at, lockName, odd, locked, registry, mutex>>
      BY <1>5, <2>2 DEF StatLock, fileVars
    <3>6. TypeOK'
      BY <3>4, <3>5 DEF IInv, TypeOK
    <3>7. Descriptors'
      BY <3>1, <3>3, <3>4 DEF IInv, Descriptors, HasLock
    <3>8. Locks'
      BY <3>1, <3>3, <3>4, <3>5 DEF IInv, Locks, HasLock
    <3>9. OneName' /\ QuietFiles'
      BY <3>3, <3>4, <3>5 DEF IInv, OneName, QuietFiles, Quiet
    <3> QED
      BY <3>6, <3>7, <3>8, <3>9 DEF IInv
  <2> QED
    BY <2>1, <2>2
<1>6. CASE OpenLock(l)
  <2>1. CASE Drop(l)
    BY <1>6, <2>1, DropIInv, RegistryTypes DEF OpenLock
  <2>2. CASE ~Drop(l)
    <3>1. lockName[lease[l].dir] \in Inodes
      <4>1. lease[l].dir \in Directories
        BY <1>6 DEF OpenLock, IInv, Descriptors
      <4> QED
        BY <1>6, <2>2, <4>1 DEF OpenLock, IInv, TypeOK
    <3> QED
      BY <1>6, <2>2, <3>1, OpenedIInv DEF OpenLock, fileVars, IInv, TypeOK
  <2> QED
    BY <2>1, <2>2
<1>7. CASE VerifyLock(l)
  <2>1. CASE Drop(l)
    BY <1>7, <2>1, DropIInv, RegistryTypes DEF VerifyLock
  <2>2. CASE Becomes(l, "verified") /\ UNCHANGED locked
    BY <1>7, <2>2, PhaseIInv, RegistryTypes DEF VerifyLock, Phases, HasLock
  <2> QED
    BY <1>7, <2>1, <2>2 DEF VerifyLock
<1>8. CASE Flock(l)
  <2>1. CASE Drop(l)
    BY <1>8, <2>1, DropIInv, RegistryTypes DEF Flock
  <2>2. CASE ~Drop(l)
    <3>1. /\ lease \in [Leases -> Knowledge] /\ lease[l] \in Knowledge
          /\ lease[l].pc = "verified" /\ lease[l].fd \in Inodes /\ locked[lease[l].fd] = None
          /\ locked' = [locked EXCEPT ![lease[l].fd] = l]
          /\ lease' = [lease EXCEPT ![l] = [lease[l] EXCEPT !.pc = "locked"]]
          /\ UNCHANGED <<at, lockName, odd, registry, mutex>>
      BY <1>8, <2>2 DEF Flock, FlockFree, Becomes, IInv, TypeOK, Descriptors, fileVars
    <3>2. /\ lease' \in [Leases -> Knowledge]
          /\ lease'[l].pc = "locked" /\ lease'[l].fd = lease[l].fd
          /\ lease'[l].path = lease[l].path /\ lease'[l].dir = lease[l].dir
          /\ \A m \in Leases \ {l} : lease'[m] = lease[m]
      <4>1. "locked" \in Phases
        BY DEF Phases
      <4> QED
        BY <3>1, <4>1, PhaseType, OneLease
    <3>3. TypeOK'
      BY <3>1, <3>2 DEF IInv, TypeOK
    <3>4. Descriptors'
      BY <3>1, <3>2 DEF IInv, Descriptors, HasLock
    <3>5. Locks'
      <4>1. \A i \in Inodes : locked'[i] = IF i = lease[l].fd THEN l ELSE locked[i]
        BY <3>1 DEF IInv, TypeOK
      <4> QED
        BY <3>1, <3>2, <4>1, LeaseAssumption DEF IInv, Locks, HasLock
    <3>6. OneName' /\ QuietFiles'
      BY <3>1, <3>2 DEF IInv, OneName, QuietFiles, Quiet
    <3> QED
      BY <3>3, <3>4, <3>5, <3>6 DEF IInv
  <2> QED
    BY <2>1, <2>2
<1>9. CASE Observe(l)
  <2>1. CASE Drop(l)
    BY <1>9, <2>1, DropIInv, RegistryTypes DEF Observe
  <2>2. CASE Becomes(l, "observed") /\ UNCHANGED locked
    BY <1>9, <2>2, PhaseIInv, RegistryTypes DEF Observe, Phases, HasLock
  <2> QED
    BY <1>9, <2>1, <2>2 DEF Observe
<1>10. CASE Hold(l)
  <2>1. CASE Drop(l)
    BY <1>10, <2>1, DropIInv, RegistryTypes DEF Hold
  <2>2. CASE Becomes(l, "held") /\ UNCHANGED locked
    BY <1>10, <2>2, PhaseIInv, RegistryTypes DEF Hold, Phases, HasLock
  <2> QED
    BY <1>10, <2>1, <2>2 DEF Hold
<1>11. CASE ReserveThrows(l) \/ Fail(l) \/ Release(l)
  BY <1>11, DropIInv, RegistryTypes DEF ReserveThrows, Fail, Release
<1>12. CASE LockRegistry(l)
  BY <1>12, PhaseIInv, RegistryTypes DEF LockRegistry, Phases, HasLock
<1>13. CASE Erase(l)
  <2>1. /\ lease \in [Leases -> Knowledge]
        /\ lease[l].pc = "erasing"
        /\ lease' = [lease EXCEPT ![l] = FreeLease]
        /\ UNCHANGED <<at, lockName, odd, locked>>
        /\ registry' \in [Processes -> Registries]
        /\ mutex' \in [Processes -> Leases \cup {None}]
    BY <1>13, RegistryTypes DEF Erase, EraseEntry, fileVars, IInv, TypeOK
  <2>2. /\ lease' \in [Leases -> Knowledge] /\ lease'[l] = FreeLease
        /\ \A m \in Leases \ {l} : lease'[m] = lease[m]
    BY <2>1, FreeType, OneLease
  <2>3. TypeOK'
    BY <2>1, <2>2 DEF IInv, TypeOK
  <2>4. Descriptors'
    BY <2>2 DEF IInv, Descriptors, HasLock, FreeLease
  <2>5. Locks'
    BY <2>1, <2>2 DEF IInv, Locks, HasLock, FreeLease
  <2>6. OneName' /\ QuietFiles'
    BY <2>1, <2>2 DEF IInv, OneName, QuietFiles, Quiet, FreeLease
  <2> QED
    BY <2>3, <2>4, <2>5, <2>6 DEF IInv
<1> QED
  BY <1>1, <1>2, <1>3, <1>4, <1>5, <1>6, <1>7, <1>8, <1>9, <1>10, <1>11, <1>12, <1>13 DEF Continue

\* The end of a process takes its locks and its leases together.
LEMMA DieIInv ==
    ASSUME IInv, NEW p \in Processes, Die(p)
    PROVE  IInv'
<1>1. /\ lease \in [Leases -> Knowledge] /\ locked \in [Inodes -> Leases \cup {None}]
      /\ registry \in [Processes -> Registries]
      /\ mutex \in [Processes -> Leases \cup {None}]
      /\ UNCHANGED <<at, lockName, odd>>
  BY DEF IInv, TypeOK, Die, fileVars
<1>2. /\ lease' \in [Leases -> Knowledge]
      /\ \A l \in Leases : lease'[l] = IF Process(l) = p THEN FreeLease ELSE lease[l]
  BY <1>1, FreeType DEF Die
<1>3. /\ locked' \in [Inodes -> Leases \cup {None}]
      /\ \A i \in Inodes : locked'[i] = IF locked[i] # None /\ Process(locked[i]) = p
                                        THEN None ELSE locked[i]
  BY <1>1 DEF Die
<1>4. TypeOK'
  BY <1>1, <1>2, <1>3, EmptyRegistry DEF IInv, TypeOK, Die
<1>5. Descriptors'
  BY <1>2 DEF IInv, Descriptors, HasLock, FreeLease
<1>6. Locks'
  BY <1>2, <1>3, LeaseAssumption DEF IInv, Locks, HasLock, FreeLease
<1>7. OneName' /\ QuietFiles'
  BY <1>1, <1>2 DEF IInv, OneName, QuietFiles, Quiet, FreeLease
<1> QED
  BY <1>4, <1>5, <1>6, <1>7 DEF IInv

\* Other programs change names and links only.
LEMMA OthersIInv ==
    ASSUME IInv, (\E d \in Directories : Replace(d)) \/ (\E p \in Paths : MoveDirectory(p))
    PROVE  IInv'
<1>1. UNCHANGED <<locked, registry, mutex, lease>>
  BY DEF Replace, MoveDirectory
<1>2. at' \in [Paths -> Directories \cup {None}]
  BY DEF IInv, TypeOK, Replace, MoveDirectory
<1>3. lockName' \in [Directories -> Inodes \cup {None}] /\ odd' \subseteq Inodes
  BY DEF IInv, TypeOK, Replace, MoveDirectory
<1>4. OneName'
  <2>1. ASSUME NEW d \in Directories, Replace(d) PROVE OneName'
    BY <2>1 DEF IInv, TypeOK, OneName, Replace
  <2> QED
    BY <2>1 DEF IInv, OneName, MoveDirectory
<1>5. Descriptors' /\ Locks'
  BY <1>1 DEF IInv, Descriptors, Locks
<1>6. QuietFiles'
  <2>1. \A d \in Quiet : lockName'[d] = lockName[d]
    BY DEF IInv, TypeOK, Replace, MoveDirectory, Quiet
  <2> QED
    BY <1>1, <2>1 DEF IInv, QuietFiles, Quiet
<1> QED
  BY <1>1, <1>2, <1>3, <1>4, <1>5, <1>6 DEF IInv, TypeOK

LEMMA NextIInv == IInv /\ [Next]_vars => IInv'
<1> SUFFICES ASSUME IInv, [Next]_vars PROVE IInv'
  OBVIOUS
<1>1. CASE UNCHANGED vars
  BY <1>1 DEF vars, IInv, TypeOK, Descriptors, Locks, OneName, QuietFiles, Quiet
<1>2. CASE Next
  BY <1>2, LeaseStepIInv, DieIInv, OthersIInv DEF Next
<1> QED
  BY <1>1, <1>2

LEMMA Inductive == Spec => []IInv
  BY InitIInv, NextIInv, PTL DEF Spec

\* Every variable of the lease, the registry and the kernel's table keeps to
\* its type, for any number of processes and files.
THEOREM TypeCorrect == Spec => []TypeOK
<1>1. IInv => TypeOK
  BY DEF IInv
<1> QED
  BY Inductive, <1>1, PTL

\* Whatever other programs do to lock files and directories, no two leases
\* can both confirm their right to one library: check() compares the locked
\* file with the named one, and the kernel's lock on a file has one holder.
THEOREM ConfirmedWriterIsUnique == Spec => []OneConfirmedWriter
<1>1. IInv => OneConfirmedWriter
  <2> SUFFICES ASSUME IInv, NEW l \in Leases, NEW m \in Leases, l # m,
                      Confirmed(l), Confirmed(m)
               PROVE  lease[l].path # lease[m].path /\ lease[l].dir # lease[m].dir
    BY DEF OneConfirmedWriter
  <2>1. lease[l].fd \in Inodes /\ lease[l].pc \in HasLock /\ lease[m].pc \in HasLock
    BY DEF IInv, Descriptors, Confirmed, HasLock
  <2>2. lease[l].fd # lease[m].fd
    BY <2>1 DEF IInv, Locks
  <2>3. lease[l].dir # lease[m].dir
    BY <2>2 DEF Confirmed, NameOk
  <2> QED
    BY <2>3 DEF Confirmed, PathOk
<1> QED
  BY Inductive, <1>1, PTL

\* Where lock files are left alone, no two leases hold one directory, even
\* before their first check and while they are being released.
THEOREM WriterIsUnique == Spec => []OneWriter
<1>1. IInv => OneWriter
  <2> SUFFICES ASSUME IInv, NEW l \in Leases, NEW m \in Leases, l # m,
                      lease[l].pc \in HasLock, lease[m].pc \in HasLock,
                      lease[l].dir \notin Disturbed, lease[l].dir = lease[m].dir
               PROVE  FALSE
    BY DEF OneWriter
  <2>1. lease[l].fd \in Inodes /\ lease[m].fd \in Inodes /\ lease[l].dir \in Quiet
    BY DEF IInv, Descriptors, Quiet, HasLock
  <2>2. lease[l].fd = lease[m].fd
    BY <2>1, LeaseAssumption DEF IInv, QuietFiles
  <2> QED
    BY <2>1, <2>2 DEF IInv, Locks
<1> QED
  BY Inductive, <1>1, PTL

-----------------------------------------------------------------------------
(* What a lease leaves behind.                                             *)

\* A reservation is that of a lease of the process, in a phase that will
\* erase it; the mutex is held only inside a registry section.
Books ==
    /\ \A l \in Leases, p \in Processes :
          l \in registry[p] => p = Process(l) /\ lease[l].pc \in Reserved
    /\ \A l \in Leases, p \in Processes :
          mutex[p] = l => p = Process(l) /\ lease[l].pc \in {"reserving", "erasing"}

\* A step that changes one lease, and nothing that others have booked.
LEMMA BooksOfOne ==
    ASSUME IInv, Books, NEW l \in Leases,
           \A m \in Leases \ {l} : lease'[m].pc = lease[m].pc,
           \A m \in Leases \ {l}, p \in Processes :
              /\ m \in registry'[p] => m \in registry[p]
              /\ mutex'[p] = m => mutex[p] = m,
           \A p \in Processes :
              /\ l \in registry'[p] => p = Process(l) /\ lease'[l].pc \in Reserved
              /\ mutex'[p] = l => p = Process(l) /\ lease'[l].pc \in {"reserving", "erasing"}
    PROVE  Books'
  BY DEF Books, Process

\* The phase of a lease that drops what it has.
LEMMA DropPhase ==
    ASSUME IInv, NEW l \in Leases, Drop(l)
    PROVE  /\ lease'[l].pc = IF l \in registry[Process(l)] THEN "closed" ELSE "free"
           /\ \A m \in Leases \ {l} : lease'[m] = lease[m]
<1> DEFINE kept == [FreeLease EXCEPT !.pc = "closed", !.dir = lease[l].dir]
<1>1. kept.pc = "closed" /\ FreeLease.pc = "free"
  BY DEF FreeLease
<1>2. lease' = [lease EXCEPT ![l] = IF l \in registry[Process(l)] THEN kept ELSE FreeLease]
  BY DEF Drop
<1>3. lease \in [Leases -> Knowledge]
  BY DEF IInv, TypeOK
<1> HIDE DEF kept
<1> QED
  BY <1>1, <1>2, <1>3

\* The phase of a lease that goes on.
LEMMA BecomesPhase ==
    ASSUME IInv, NEW l \in Leases, NEW pc, Becomes(l, pc)
    PROVE  /\ lease'[l].pc = pc
           /\ \A m \in Leases \ {l} : lease'[m] = lease[m]
  BY DEF IInv, TypeOK, Becomes, Knowledge

\* A lease outside the registry sections drops what it has, or goes on to a
\* phase as reserved as the one it was in.
LEMMA OutsideBooks ==
    ASSUME IInv, Books, NEW l \in Leases, UNCHANGED <<registry, mutex>>,
           lease[l].pc \notin {"reserving", "erasing"},
           \/ Drop(l)
           \/ /\ lease[l].pc \in Reserved => lease'[l].pc \in Reserved
              /\ \A m \in Leases \ {l} : lease'[m] = lease[m]
    PROVE  Books'
<1>1. \A m \in Leases \ {l} : lease'[m] = lease[m]
  BY DropPhase
<1>2. \A p \in Processes : l \in registry[p] => p = Process(l) /\ lease'[l].pc \in Reserved
  <2>1. "closed" \in Reserved
    BY DEF Reserved, Phases
  <2> QED
    BY <2>1, DropPhase DEF Books
<1>3. \A p \in Processes : mutex[p] # l
  BY DEF Books
<1> QED
  BY <1>1, <1>2, <1>3, BooksOfOne

\* Every step of one lease keeps the books.
LEMMA LeaseStepBooks ==
    ASSUME IInv, Books, NEW l \in Leases,
           \/ \E p \in Paths : Walk(l, p)
           \/ Continue(l) \/ ReserveThrows(l) \/ Fail(l) \/ Release(l)
    PROVE  Books'
<1>1. /\ registry \in [Processes -> Registries] /\ mutex \in [Processes -> Leases \cup {None}]
      /\ lease \in [Leases -> Knowledge] /\ Process(l) \in Processes
  BY LeaseAssumption DEF IInv, TypeOK, Process
<1>2. ASSUME NEW p \in Paths, Walk(l, p) PROVE Books'
  BY <1>1, <1>2, OutsideBooks DEF Walk, Reserved, Phases
<1>3. CASE TryMutex(l)
  <2>1. CASE mutex[Process(l)] # None
    BY <1>3, <2>1, OutsideBooks DEF TryMutex
  <2>2. CASE mutex[Process(l)] = None
    <3>1. /\ lease'[l].pc = "reserving" /\ UNCHANGED registry
          /\ \A m \in Leases \ {l} : lease'[m] = lease[m]
          /\ mutex' = [mutex EXCEPT ![Process(l)] = l]
      BY <1>3, <2>2, BecomesPhase DEF TryMutex
    <3>2. \A p \in Processes : l \notin registry[p]
      BY <1>3 DEF TryMutex, Books, Reserved
    <3>3. \A p \in Processes : mutex[p] # l
      BY <1>3 DEF TryMutex, Books
    <3> QED
      BY <1>1, <3>1, <3>2, <3>3, BooksOfOne
  <2> QED
    BY <2>1, <2>2
<1>4. CASE Reserve(l) \/ ReserveThrows(l)
  <2>1. lease[l].pc = "reserving" /\ mutex' = [mutex EXCEPT ![Process(l)] = None]
    BY <1>4 DEF Reserve, ReserveThrows
  <2>2. \A p \in Processes : l \notin registry[p] /\ mutex'[p] # l
    <3>1. \A p \in Processes : mutex'[p] = IF p = Process(l) THEN None ELSE mutex[p]
      BY <1>1, <2>1
    <3> QED
      BY <2>1, <3>1, LeaseAssumption DEF Books, Reserved
  <2> DEFINE others == \A m \in Leases \ {l}, p \in Processes :
                          mutex'[p] = m => mutex[p] = m
  <2>0. others
    BY <1>1, <2>1, LeaseAssumption
  <2> HIDE DEF others
  <2>3. CASE UNCHANGED registry /\ Drop(l)
    <3>1. \A m \in Leases \ {l} : lease'[m].pc = lease[m].pc
      BY <2>3, DropPhase
    <3>2. \A p \in Processes : l \notin registry'[p] /\ mutex'[p] # l
      BY <2>2, <2>3
    <3> QED
      BY <2>0, <2>3, <3>1, <3>2, BooksOfOne DEF others
  <2>4. CASE /\ registry' = [registry EXCEPT ![Process(l)] = @ \cup {l}]
             /\ Becomes(l, "reserved")
    <3>1. lease'[l].pc \in Reserved /\ \A m \in Leases \ {l} : lease'[m] = lease[m]
      BY <2>4, BecomesPhase DEF Reserved, Phases
    <3>2. /\ \A m \in Leases \ {l}, p \in Processes : m \in registry'[p] => m \in registry[p]
          /\ \A p \in Processes : l \in registry'[p] => p = Process(l)
      BY <1>1, <2>2, <2>4
    <3> QED
      BY <2>0, <2>2, <3>1, <3>2, BooksOfOne DEF others
  <2> QED
    BY <1>4, <2>3, <2>4 DEF Reserve, ReserveThrows
<1>5. CASE CreateLock(l) \/ StatLock(l) \/ OpenLock(l) \/ VerifyLock(l) \/ Flock(l)
           \/ Observe(l) \/ Hold(l)
  <2>1. /\ lease[l].pc \notin {"reserving", "erasing"} /\ UNCHANGED <<registry, mutex>>
    BY <1>5 DEF CreateLock, StatLock, OpenLock, VerifyLock, Flock, Observe, Hold
  <2>2. CASE Drop(l)
    BY <2>1, <2>2, OutsideBooks
  <2>3. CASE ~Drop(l)
    <3>1. \/ \E pc \in Reserved : Becomes(l, pc)
          \/ \E i \in Inodes \cup {None} :
                lease' = [lease EXCEPT ![l].pc = "stated", ![l].prior = i]
          \/ \E i \in Inodes \cup {None} :
                lease' = [lease EXCEPT ![l].pc = "opened", ![l].fd = i]
      <4>1. {"exists", "verified", "locked", "observed", "held"} \subseteq Reserved
        BY DEF Reserved, Phases
      <4>2. CASE CreateLock(l)
        BY <4>1, <4>2 DEF CreateLock
      <4>3. CASE StatLock(l) \/ OpenLock(l)
        <5>1. lockName[lease[l].dir] \in Inodes \cup {None}
          BY <4>3 DEF StatLock, OpenLock, IInv, TypeOK, Descriptors
        <5> QED
          BY <2>3, <4>3, <5>1 DEF StatLock, OpenLock
      <4>4. CASE VerifyLock(l) \/ Flock(l) \/ Observe(l) \/ Hold(l)
        BY <2>3, <4>1, <4>4 DEF VerifyLock, Flock, Observe, Hold
      <4> QED
        BY <1>5, <4>2, <4>3, <4>4
    <3>2. lease'[l].pc \in Reserved /\ \A m \in Leases \ {l} : lease'[m] = lease[m]
      <4>1. {"stated", "opened"} \subseteq Reserved
        BY DEF Reserved, Phases
      <4>2. ASSUME NEW pc \in Reserved, Becomes(l, pc)
            PROVE  lease'[l].pc \in Reserved /\ \A m \in Leases \ {l} : lease'[m] = lease[m]
        BY <4>2, BecomesPhase
      <4>3. ASSUME NEW i, lease' = [lease EXCEPT ![l].pc = "stated", ![l].prior = i]
            PROVE  lease'[l].pc = "stated" /\ \A m \in Leases \ {l} : lease'[m] = lease[m]
        BY <1>1, <4>3 DEF Knowledge
      <4>4. ASSUME NEW i, lease' = [lease EXCEPT ![l].pc = "opened", ![l].fd = i]
            PROVE  lease'[l].pc = "opened" /\ \A m \in Leases \ {l} : lease'[m] = lease[m]
        BY <1>1, <4>4 DEF Knowledge
      <4> QED
        BY <3>1, <4>1, <4>2, <4>3, <4>4
    <3> QED
      BY <2>1, <3>2, OutsideBooks
  <2> QED
    BY <2>2, <2>3
<1>6. CASE Fail(l) \/ Release(l)
  BY <1>6, OutsideBooks DEF Fail, Release
<1>7. CASE LockRegistry(l)
  <2>1. /\ lease'[l].pc = "erasing" /\ UNCHANGED registry /\ lease[l].pc = "closed"
        /\ \A m \in Leases \ {l} : lease'[m] = lease[m]
        /\ mutex' = [mutex EXCEPT ![Process(l)] = l]
    BY <1>7, BecomesPhase DEF LockRegistry
  <2>2. "erasing" \in Reserved /\ \A p \in Processes : mutex[p] # l
    BY <2>1 DEF Reserved, Phases, Books
  <2> QED
    BY <1>1, <2>1, <2>2, BooksOfOne DEF Books
<1>8. CASE Erase(l)
  <2>1. /\ registry' = [registry EXCEPT ![Process(l)] = @ \ {l}]
        /\ mutex' = [mutex EXCEPT ![Process(l)] = None]
        /\ \A m \in Leases \ {l} : lease'[m] = lease[m]
    BY <1>1, <1>8 DEF Erase, EraseEntry
  <2>2. \A p \in Processes : l \notin registry'[p] /\ mutex'[p] # l
    BY <1>1, <2>1, LeaseAssumption DEF Books
  <2>3. \A m \in Leases \ {l}, p \in Processes :
           /\ m \in registry'[p] => m \in registry[p]
           /\ mutex'[p] = m => mutex[p] = m
    BY <1>1, <2>1, LeaseAssumption
  <2> QED
    BY <2>1, <2>2, <2>3, BooksOfOne
<1> QED
  BY <1>2, <1>3, <1>4, <1>5, <1>6, <1>7, <1>8 DEF Continue

LEMMA BooksKept == IInv /\ Books /\ [Next]_vars => Books'
<1> SUFFICES ASSUME IInv, Books, [Next]_vars PROVE Books'
  OBVIOUS
<1>1. ASSUME NEW p \in Processes, Die(p) PROVE Books'
  <2>1. /\ \A l \in Leases : lease'[l] = IF Process(l) = p THEN FreeLease ELSE lease[l]
        /\ \A q \in Processes : registry'[q] = IF q = p THEN {} ELSE registry[q]
        /\ \A q \in Processes : mutex'[q] = IF q = p THEN None ELSE mutex[q]
    BY <1>1 DEF Die, IInv, TypeOK
  <2> QED
    BY <2>1, LeaseAssumption DEF Books, Process
<1>2. CASE (\E d \in Directories : Replace(d)) \/ (\E p \in Paths : MoveDirectory(p))
  BY <1>2 DEF Replace, MoveDirectory, Books
<1>3. CASE UNCHANGED vars
  BY <1>3 DEF vars, Books
<1> QED
  BY <1>1, <1>2, <1>3, LeaseStepBooks DEF Next

\* Whatever way a call ended, failed, released or killed with its process, a
\* lease that is free again has no lock, no reservation and no mutex left, for
\* any number of leases: the next acquire is never refused by a dead one.
THEOREM NothingIsLeft == Spec => []NothingLeaks
<1>1. Init => Books
  BY LeaseAssumption DEF Init, Books
<1>2. Spec => []Books
  BY <1>1, BooksKept, Inductive, PTL DEF Spec
<1>3. IInv /\ Books => NothingLeaks
  <2> SUFFICES ASSUME IInv, Books PROVE NothingLeaks
    OBVIOUS
  <2>1. ASSUME NEW i \in Inodes, locked[i] # None PROVE lease[locked[i]].fd = i
    BY <2>1 DEF IInv, TypeOK, Locks
  <2>2. ASSUME NEW l \in Leases, lease[l].pc = "free"
        PROVE  /\ \A i \in Inodes : locked[i] # l
               /\ l \notin registry[Process(l)]
               /\ mutex[Process(l)] # l
    <3>1. Process(l) \in Processes
      BY LeaseAssumption DEF Process
    <3> QED
      BY <2>2, <3>1 DEF IInv, Locks, Books, HasLock, Reserved
  <2> QED
    BY <2>1, <2>2 DEF NothingLeaks
<1> QED
  BY <1>2, <1>3, Inductive, PTL

-----------------------------------------------------------------------------
(* Refinement.                                                             *)

\* The owner of a quiet directory: whoever has the lock of the file it names.
LEMMA OwnerIs ==
    ASSUME NEW d \in Quiet
    PROVE  Owner[d] = IF lockName[d] = None THEN None ELSE locked[lockName[d]]
  BY DEF Owner

\* Locks that only disappear are owners letting go.
LEMMA DroppedLetsGo ==
    ASSUME IInv, UNCHANGED lockName,
           \A i \in Inodes : locked'[i] \in {locked[i], None}
    PROVE  \E D \in SUBSET Quiet : Abstract!LetGo(D)
<1> DEFINE D == {d \in Quiet : Owner'[d] = None}
<1>1. \A d \in Quiet : Owner'[d] \in {Owner[d], None}
  BY DEF Owner, Quiet, IInv, TypeOK
<1>2. Owner' = [d \in Quiet |-> IF d \in D THEN None ELSE Owner[d]]
  BY <1>1 DEF Owner, Quiet
<1>3. Abstract!LetGo(D)
  BY <1>2 DEF Abstract!LetGo
<1> QED
  BY <1>3

\* Every step is a step of the exclusive lease of the quiet directories or none.
LEMMA StepRefines ==
    ASSUME IInv, [Next]_vars
    PROVE  [Abstract!Next]_Owner
<1>1. CASE UNCHANGED <<lockName, locked>>
  <2>1. UNCHANGED Owner
    BY <1>1 DEF Owner, Quiet
  <2> QED
    BY <2>1
<1>2. ASSUME NEW l \in Leases, Drop(l), UNCHANGED lockName PROVE Abstract!Next
  <2>1. \A i \in Inodes : locked'[i] \in {locked[i], None}
    BY <1>2 DEF Drop, CloseLock, IInv, TypeOK
  <2> QED
    BY <1>2, <2>1, DroppedLetsGo DEF Abstract!Next
<1>3. ASSUME NEW l \in Leases, CreateLock(l), lockName[lease[l].dir] = None
      PROVE  UNCHANGED Owner
  <2>1. PICK i \in Inodes : Unused(i) /\ lockName' = [lockName EXCEPT ![lease[l].dir] = i]
    BY <1>3 DEF CreateLock
  <2>2. locked[i] = None
    BY <2>1 DEF IInv, TypeOK, Locks, Unused
  <2>3. lease[l].dir \in Directories /\ UNCHANGED locked
    BY <1>3 DEF CreateLock, IInv, Descriptors
  <2>4. \A d \in Quiet : Owner'[d] = Owner[d]
    BY <1>3, <2>1, <2>2, <2>3, LeaseAssumption DEF Owner, Quiet, IInv, TypeOK
  <2> QED
    BY <2>4 DEF Owner, Quiet
<1>4. ASSUME NEW l \in Leases, Flock(l), FlockFree(l), ~Drop(l)
      PROVE  Abstract!Next \/ UNCHANGED Owner
  <2> DEFINE d == lease[l].dir
             i == lease[l].fd
  <2>1. d \in Directories /\ i \in Inodes /\ i # None
    BY <1>4, LeaseAssumption DEF Flock, IInv, Descriptors
  <2>2. \A e \in Quiet : d = e <=> lockName[e] = i
    BY <2>1 DEF IInv, QuietFiles
  <2>3. locked' = [locked EXCEPT ![i] = l] /\ locked[i] = None /\ UNCHANGED lockName
    BY <1>4 DEF Flock, FlockFree, fileVars
  <2> HIDE DEF d, i
  <2>4. \A e \in Quiet : Owner'[e] = IF e = d THEN l ELSE Owner[e]
    BY <2>1, <2>2, <2>3 DEF Owner, Quiet, IInv, TypeOK
  <2>5. CASE d \in Quiet
    <3>1. Owner[d] = None
      BY <2>1, <2>2, <2>3, <2>5 DEF Owner
    <3>2. Abstract!Take(d, l)
      BY <2>4, <2>5, <3>1 DEF Owner, Quiet, Abstract!Take
    <3> QED
      BY <2>5, <3>2 DEF Abstract!Next
  <2>6. CASE d \notin Quiet
    BY <2>4, <2>6 DEF Owner, Quiet
  <2> QED
    BY <2>5, <2>6
<1>5. ASSUME NEW p \in Processes, Die(p) PROVE Abstract!Next
  <2>1. \A i \in Inodes : locked'[i] \in {locked[i], None}
    BY <1>5 DEF Die, IInv, TypeOK
  <2> QED
    BY <1>5, <2>1, DroppedLetsGo DEF Die, fileVars, Abstract!Next
<1>6. ASSUME NEW l \in Leases, Continue(l) \/ ReserveThrows(l) \/ Fail(l) \/ Release(l)
      PROVE  \/ UNCHANGED <<lockName, locked>>
             \/ Drop(l) /\ UNCHANGED lockName
             \/ CreateLock(l) /\ lockName[lease[l].dir] = None
             \/ Flock(l) /\ FlockFree(l) /\ ~Drop(l)
  <2>1. CASE TryMutex(l) \/ Reserve(l) \/ StatLock(l) \/ OpenLock(l) \/ VerifyLock(l)
    BY <2>1 DEF TryMutex, Reserve, StatLock, OpenLock, VerifyLock, fileVars
  <2>2. CASE Observe(l) \/ Hold(l) \/ LockRegistry(l) \/ Erase(l)
    BY <2>2 DEF Observe, Hold, LockRegistry, Erase, fileVars
  <2>3. CASE CreateLock(l)
    BY <2>3 DEF CreateLock
  <2>4. CASE Flock(l)
    BY <2>4 DEF Flock, fileVars
  <2>5. CASE ReserveThrows(l) \/ Fail(l) \/ Release(l)
    BY <2>5 DEF ReserveThrows, Fail, Release, fileVars
  <2> QED
    BY <1>6, <2>1, <2>2, <2>3, <2>4, <2>5 DEF Continue
<1>7. CASE \E l \in Leases, p \in Paths : Walk(l, p)
  BY <1>1, <1>7 DEF Walk, fileVars
<1>8. CASE \E l \in Leases : Continue(l) \/ ReserveThrows(l) \/ Fail(l) \/ Release(l)
  BY <1>1, <1>2, <1>3, <1>4, <1>6, <1>8
<1>9. CASE \E p \in Processes : Die(p)
  BY <1>5, <1>9
<1>10. CASE (\E d \in Directories : Replace(d)) \/ (\E p \in Paths : MoveDirectory(p))
  <2>1. UNCHANGED locked /\ \A d \in Quiet : lockName'[d] = lockName[d]
    BY <1>10 DEF IInv, TypeOK, Replace, MoveDirectory, Quiet
  <2> QED
    BY <2>1 DEF Owner, Quiet
<1>11. CASE UNCHANGED vars
  BY <1>1, <1>11 DEF vars
<1> QED
  BY <1>7, <1>8, <1>9, <1>10, <1>11 DEF Next

\* Where lock files are left alone, the writer lease implements the exclusive
\* lease: the right to a library changes hands only through nobody.
THEOREM Refinement == Spec => ImplementsExclusiveLease
<1>1. Init => Abstract!Init
  BY DEF Init, Owner, Quiet, Abstract!Init
<1>2. IInv /\ [Next]_vars => [Abstract!Next]_Owner
  BY StepRefines
<1> QED
  BY <1>1, <1>2, Inductive, PTL DEF Spec, ImplementsExclusiveLease, Abstract!Spec
=============================================================================
