---------------------------- MODULE CheckpointStore ----------------------------
(***************************************************************************)
(* The durable commit protocol of the song library: the coordinator        *)
(* CatalogCheckpointStore (library/CatalogCheckpointStore.hpp) over the    *)
(* Linux provider (library/LinuxCheckpointProvider.hpp), one action per    *)
(* provider call that the file system or another process can see.          *)
(*                                                                         *)
(* Several stores share one directory that holds one primary name and      *)
(* stage names.  The directory and the file data have a cached state, seen *)
(* by every process, and a durable one, seen after a power cut:            *)
(*   - the durable primary name is any file it named since the last        *)
(*     directory fsync (diskPrimary);                                      *)
(*   - a stage name is surely on disk (mustLink), surely not, or either    *)
(*     (mayLink);                                                          *)
(*   - the data of a file outside `safe` (not fsynced) may be lost.        *)
(* A process crash keeps the cached state and loses the store's memory and *)
(* its lock; a power cut also falls back to a durable state.  A call that  *)
(* fails after an fsync is modelled as if it had not reached it: the sync  *)
(* would only rule out outcomes of a power cut.                            *)
(***************************************************************************)
EXTENDS CheckpointProjection, FiniteSets

CONSTANTS
    Stores,      \* store objects, each with its own provider
    NoStore,     \* nobody holds the lock file
    Files,       \* file identities (device and inode)
    NoFile,      \* no such name, or no open descriptor
    Torn,        \* the content of a file that does not decode
    MaxForeign   \* bound on foreign replacements of the primary

ASSUME NoStoreAssumption == NoStore \notin Stores
ASSUME NoFileAssumption == NoFile \notin Files
ASSUME TornAssumption == Torn \notin Wire \cup {Absent}
ASSUME ForeignAssumption == MaxForeign \in Nat

VARIABLES
    primary,     \* the file the primary name refers to, in the cache
    staged,      \* the files with a stage name, in the cache
    diskPrimary, \* the files the primary name may refer to on disk
    mustLink,    \* stage names that are on disk whatever happens
    mayLink,     \* stage names that may be on disk
    bytes,       \* file -> content, in the cache
    safe,        \* files whose data is on disk
    lock,        \* who holds the lease (registry entry and flock)
    pc,          \* where each store is
    faulted,     \* the fault latch
    ack,         \* ack_, the token the store believes is on disk
    observed,    \* primary_, the descriptor of the last primary read
    slots,       \* occupied provider slots
    kind,        \* which artifact the save is staging
    want,        \* the encoded candidate of the running save
    art,         \* [candidate, prior] artifacts of the running save
    issued,      \* expectations handed to the callers of each store
    confirmed,   \* history: the last checkpoint handed out as durable
    foreign,     \* how many foreign replacements happened
    raced        \* one of them between the last check and the rename

dirVars   == <<primary, staged, diskPrimary, mustLink, mayLink>>
fileVars  == <<bytes, safe>>
saveVars  == <<kind, want, art>>
storeVars == <<faulted, ack, observed, slots, issued>>
vars == <<dirVars, fileVars, lock, pc, storeVars, saveVars, confirmed, foreign,
          raced>>

Kinds == {"candidate", "prior"}
NoArtifacts == [k \in Kinds |-> NoFile]
Artifacts == [Kinds -> Files \cup {NoFile}]

OpenPhases == {"probing", "reading", "reconciling"}
StagePhases == {"create", "write", "sync", "recheck", "admit", "rename"}
SavePhases == StagePhases \cup {"syncPublication", "cleanup"}
Phases == {"closed", "idle"} \cup OpenPhases \cup SavePhases

\* What decoding a file yields; Torn stands for bytes that do not decode.
Content(f) == IF f = NoFile THEN Absent ELSE bytes[f]
Held(s) == {art[s][k] : k \in Kinds} \ {NoFile}

\* Files that a name, a possible disk state or an open descriptor refers to.
InUse ==
    {primary} \cup staged \cup diskPrimary \cup mayLink
      \cup UNION {slots[s] \cup {observed[s]} : s \in Stores}
Fresh == Files \ InUse

TypeOK ==
    /\ primary \in Files \cup {NoFile}
    /\ staged \subseteq Files
    /\ diskPrimary \subseteq Files \cup {NoFile}
    /\ mustLink \subseteq Files
    /\ mayLink \subseteq Files
    /\ bytes \in [Files -> Wire \cup {Torn}]
    /\ safe \subseteq Files
    /\ lock \in Stores \cup {NoStore}
    /\ pc \in [Stores -> Phases]
    /\ faulted \in [Stores -> BOOLEAN]
    /\ ack \in [Stores -> Wire \cup {Absent}]
    /\ observed \in [Stores -> Files \cup {NoFile}]
    /\ slots \in [Stores -> SUBSET Files]
    /\ kind \in [Stores -> Kinds]
    /\ want \in [Stores -> Wire \cup {Absent}]
    /\ art \in [Stores -> Artifacts]
    /\ issued \in [Stores -> SUBSET (Wire \cup {Absent})]
    /\ confirmed \in Wire \cup {Absent}
    /\ foreign \in 0..MaxForeign
    /\ raced \in BOOLEAN

Init ==
    /\ primary = NoFile
    /\ staged = {}
    /\ diskPrimary = {NoFile}
    /\ mustLink = {}
    /\ mayLink = {}
    /\ bytes = [f \in Files |-> Torn]
    /\ safe = {}
    /\ lock = NoStore
    /\ pc = [s \in Stores |-> "closed"]
    /\ faulted = [s \in Stores |-> FALSE]
    /\ ack = [s \in Stores |-> Absent]
    /\ observed = [s \in Stores |-> NoFile]
    /\ slots = [s \in Stores |-> {}]
    /\ kind = [s \in Stores |-> "candidate"]
    /\ want = [s \in Stores |-> Absent]
    /\ art = [s \in Stores |-> NoArtifacts]
    /\ issued = [s \in Stores |-> {}]
    /\ confirmed = Absent
    /\ foreign = 0
    /\ raced = FALSE

-----------------------------------------------------------------------------
(* The directory, as the provider's system calls change it.                *)

Link(f) ==
    /\ staged' = staged \cup {f}
    /\ mayLink' = mayLink \cup {f}
    /\ UNCHANGED <<primary, diskPrimary, mustLink>>

Unlink(removed) ==
    /\ staged' = staged \ removed
    /\ mustLink' = mustLink \ removed
    /\ UNCHANGED <<primary, diskPrimary, mayLink>>

RenameToPrimary(f) ==
    /\ primary' = f
    /\ staged' = staged \ {f}
    /\ diskPrimary' = diskPrimary \cup {f}
    /\ mustLink' = mustLink \ {f}
    /\ UNCHANGED mayLink

\* Mutant: no directory fsync.
NoDirectorySync == UNCHANGED dirVars

\* fsync of the parent directory leaves the disk no choice.
SyncDirectory ==
    /\ diskPrimary' = {primary}
    /\ mustLink' = staged
    /\ mayLink' = staged
    /\ UNCHANGED <<primary, staged>>

\* Mutant: no file fsync.
NoFileSync(f) == UNCHANGED safe

\* fsync of a file, if there is one.
SyncFile(f) == safe' = safe \cup ({f} \ {NoFile})

-----------------------------------------------------------------------------
(* Ends of a call.                                                         *)

Goto(s, phase) == pc' = [pc EXCEPT ![s] = phase]

\* Mutant: an uncertain publication does not latch the fault.
NoLatch(s) == UNCHANGED faulted

Latch(s) == faulted' = [faulted EXCEPT ![s] = TRUE]

\* The save returns; its Artifacts go out of scope, the slots stay as
\* the preceding clean-up left them.
EndSave(s) ==
    /\ Goto(s, "idle")
    /\ kind' = [kind EXCEPT ![s] = "candidate"]
    /\ want' = [want EXCEPT ![s] = Absent]
    /\ art' = [art EXCEPT ![s] = NoArtifacts]

\* provider_.release(): descriptors and slots are dropped, the artifacts
\* keep their names, the lock file stays.
Release(s) ==
    /\ lock' = NoStore
    /\ Goto(s, "closed")
    /\ slots' = [slots EXCEPT ![s] = {}]
    /\ observed' = [observed EXCEPT ![s] = NoFile]

\* A failed call may have got as far as reading the primary again.
MaybeReread(s) ==
    \E o \in {observed[s], primary, NoFile} :
        observed' = [observed EXCEPT ![s] = o]

-----------------------------------------------------------------------------
(* open: acquire with its probe, read and decode, reconcile.               *)

\* Neither the process registry nor flock knows another holder.
LeaseFree == lock = NoStore

\* Take the lease and create the probe's two artifacts.
Acquire(s) ==
    /\ pc[s] = "closed"
    /\ LeaseFree
    /\ lock' = s
    /\ \E a, b \in Fresh :
          /\ a # b
          /\ staged' = staged \cup {a, b}
          /\ mayLink' = mayLink \cup {a, b}
          /\ bytes' = [bytes EXCEPT ![a] = Torn, ![b] = Torn]
          /\ safe' = safe \ {a, b}
          /\ slots' = [slots EXCEPT ![s] = {a, b}]
    /\ Goto(s, "probing")
    /\ UNCHANGED <<primary, diskPrimary, mustLink, faulted, ack, observed,
                   issued, saveVars, confirmed, foreign, raced>>

\* The probe renamed one artifact over the other's freed name, removed it
\* and synchronised the directory.
ProbeSucceeds(s) ==
    /\ pc[s] = "probing"
    /\ staged' = staged \ slots[s]
    /\ mustLink' = staged'
    /\ mayLink' = staged'
    /\ diskPrimary' = {primary}
    /\ slots' = [slots EXCEPT ![s] = {}]
    /\ Goto(s, "reading")
    /\ UNCHANGED <<primary, fileVars, lock, faulted, ack, observed, issued,
                   saveVars, confirmed, foreign, raced>>

\* A failed probe may leave either artifact, with or without a directory
\* synchronisation on the way.
ProbeFails(s) ==
    /\ pc[s] = "probing"
    /\ \E left \in SUBSET slots[s] :
          /\ staged' = (staged \ slots[s]) \cup left
          /\ \/ /\ mustLink' = mustLink \ slots[s]
                /\ UNCHANGED <<mayLink, diskPrimary>>
             \/ /\ mustLink' = staged'
                /\ mayLink' = staged'
                /\ diskPrimary' = {primary}
    /\ Release(s)
    /\ UNCHANGED <<primary, fileVars, faulted, ack, issued, saveVars,
                   confirmed, foreign, raced>>

\* Only a decodable primary is accepted, and a store that left a save
\* uncertain does not accept a missing one.
ReadAtOpen(s) ==
    /\ pc[s] = "reading"
    /\ Content(primary) # Torn
    /\ faulted[s] => primary # NoFile
    /\ observed' = [observed EXCEPT ![s] = primary]
    /\ Goto(s, "reconciling")
    /\ UNCHANGED <<dirVars, fileVars, lock, faulted, ack, slots, issued,
                   saveVars, confirmed, foreign, raced>>

\* reconcilePublication: the primary is still the file that was read; its
\* data and the directory are synchronised before the store may write.
Reconcile(s) ==
    /\ pc[s] = "reconciling"
    /\ primary = observed[s]
    /\ SyncDirectory
    /\ SyncFile(primary)
    /\ ack' = [ack EXCEPT ![s] = Content(primary)]
    /\ faulted' = [faulted EXCEPT ![s] = FALSE]
    /\ issued' = [issued EXCEPT ![s] = @ \cup {Content(primary)}]
    /\ confirmed' = Content(primary)
    /\ Goto(s, "idle")
    /\ UNCHANGED <<bytes, lock, observed, slots, saveVars, foreign, raced>>

OpenFails(s) ==
    /\ pc[s] \in {"reading", "reconciling"}
    /\ \E synced \in SUBSET ({observed[s]} \ {NoFile}) : safe' = safe \cup synced
    /\ Release(s)
    /\ UNCHANGED <<dirVars, bytes, faulted, ack, issued, saveVars, confirmed,
                   foreign, raced>>

-----------------------------------------------------------------------------
(* save.                                                                   *)

\* A changed projection passes the ticket, validity, token and history
\* checks; the candidate is encoded with the next sequence.
BeginSave(s) ==
    /\ pc[s] = "idle"
    /\ ~faulted[s]
    /\ \E ticket \in issued[s], w \in Wire :
          /\ ticket = ack[s]
          /\ ValidProjection(w.projection)
          /\ Content(primary) = ack[s]
          /\ Successor(ack[s], w)
          /\ want' = [want EXCEPT ![s] = w]
    /\ observed' = [observed EXCEPT ![s] = primary]
    /\ kind' = [kind EXCEPT ![s] = "candidate"]
    /\ Goto(s, "create")
    /\ UNCHANGED <<dirVars, fileVars, lock, faulted, ack, slots, issued, art,
                   confirmed, foreign, raced>>

\* The projection on disk again: no new sequence, the same token.
SaveUnchanged(s) ==
    /\ pc[s] = "idle"
    /\ ~faulted[s]
    /\ ack[s] \in issued[s]
    /\ ack[s] # Absent
    /\ Content(primary) = ack[s]
    /\ \E p \in Projections : EqualProjection(ack[s].projection, p)
    /\ observed' = [observed EXCEPT ![s] = primary]
    /\ UNCHANGED <<dirVars, fileVars, lock, pc, faulted, ack, slots, issued,
                   saveVars, confirmed, foreign, raced>>

\* Every refusal before staging (NotCommitted): faulted, foreign or stale ticket, invalid
\* projection, limit, changed primary, history, exhausted counter,
\* cancellation, I/O.
RefuseSave(s) ==
    /\ pc[s] = "idle"
    /\ IF faulted[s] THEN UNCHANGED observed ELSE MaybeReread(s)
    /\ UNCHANGED <<dirVars, fileVars, lock, pc, faulted, ack, slots, issued,
                   saveVars, confirmed, foreign, raced>>

\* createArtifact: one of the provider's two slots, an exclusive new name.
CreateArtifact(s) ==
    /\ pc[s] = "create"
    /\ Cardinality(slots[s]) < 2
    /\ \E f \in Fresh :
          /\ Link(f)
          /\ bytes' = [bytes EXCEPT ![f] = Torn]
          /\ safe' = safe \ {f}
          /\ slots' = [slots EXCEPT ![s] = @ \cup {f}]
          /\ art' = [art EXCEPT ![s][kind[s]] = f]
    /\ Goto(s, "write")
    /\ UNCHANGED <<lock, faulted, ack, observed, issued, kind, want, confirmed, foreign, raced>>

\* What the artifact being staged has to hold.
Image(s) == IF kind[s] = "candidate" THEN want[s] ELSE ack[s]

WriteArtifact(s) ==
    LET f == art[s][kind[s]] IN
    /\ pc[s] = "write"
    /\ bytes' = [bytes EXCEPT ![f] = Image(s)]
    /\ safe' = safe \ {f}
    /\ Goto(s, "sync")
    /\ UNCHANGED <<dirVars, lock, storeVars, saveVars, confirmed,
                   foreign, raced>>

\* Mutant: an update stages no copy of the checkpoint it replaces.
NeverStagesPrior(s) == FALSE

\* An update stages a copy of the replaced checkpoint after the candidate.
StagesPrior(s) == kind[s] = "candidate" /\ ack[s] # Absent

\* syncArtifact (file, then directory) and the byte-exact read back.
SyncArtifact(s) ==
    LET f == art[s][kind[s]] IN
    /\ pc[s] = "sync"
    /\ bytes[f] = Image(s)
    /\ SyncFile(f)
    /\ SyncDirectory
    /\ Goto(s, IF StagesPrior(s) THEN "create" ELSE "recheck")
    /\ kind' = [kind EXCEPT ![s] = IF StagesPrior(s) THEN "prior" ELSE @]
    /\ UNCHANGED <<bytes, lock, storeVars, want, art, confirmed,
                   foreign, raced>>

\* The primary is read and decoded again; its token must not have moved.
Recheck(s) ==
    /\ pc[s] = "recheck"
    /\ Content(primary) = ack[s]
    /\ observed' = [observed EXCEPT ![s] = primary]
    /\ Goto(s, "admit")
    /\ UNCHANGED <<dirVars, fileVars, lock, faulted, ack, slots, issued,
                   saveVars, confirmed, foreign, raced>>

\* Mutant: publish does not look at the primary again.
AnyFile(s) == TRUE

\* An update still finds the file it read; a create leaves it to the rename.
SameFile(s) == ack[s] # Absent => primary = observed[s]

\* publish, up to the rename: an update still finds the file it read under
\* the primary name.
Admit(s) ==
    /\ pc[s] = "admit"
    /\ SameFile(s)
    /\ raced' = FALSE
    /\ Goto(s, "rename")
    /\ UNCHANGED <<dirVars, fileVars, lock, storeVars, saveVars, confirmed, foreign>>

\* A create renames with RENAME_NOREPLACE.
MayRename(s) == ack[s] = Absent => primary = NoFile

RenameSucceeds(s) ==
    /\ pc[s] = "rename"
    /\ MayRename(s)
    /\ RenameToPrimary(art[s]["candidate"])
    /\ Goto(s, "syncPublication")
    /\ UNCHANGED <<fileVars, lock, storeVars, saveVars, confirmed,
                   foreign, raced>>

\* Any other native error proves nothing about the directory.  Both
\* artifacts are preserved and the store refuses writes (Uncertain).
RenameUncertain(s) ==
    /\ pc[s] = "rename"
    /\ \/ MayRename(s) /\ RenameToPrimary(art[s]["candidate"])
       \/ UNCHANGED dirVars
    /\ Latch(s)
    /\ EndSave(s)
    /\ UNCHANGED <<fileVars, lock, ack, observed, slots, issued, confirmed,
                   foreign, raced>>

\* Mutant: a primary that changed during staging is not answered.
FailsBeforeRecheck(s) == pc[s] \in StagePhases \ {"recheck", "rename"}

\* A definite failure before publication, EEXIST of a create included.
FailsDefinitely(s) ==
    /\ pc[s] \in StagePhases
    /\ pc[s] = "rename" => ~MayRename(s)

\* The save removes its own artifacts, or fails to and loses the slots.
Abandon(s) ==
    /\ FailsDefinitely(s)
    /\ \E removed \in SUBSET Held(s) :
          /\ Unlink(removed)
          /\ slots' = [slots EXCEPT ![s] = @ \ removed]
    /\ IF pc[s] \in {"recheck", "admit"} THEN MaybeReread(s) ELSE UNCHANGED observed
    /\ EndSave(s)
    /\ UNCHANGED <<fileVars, lock, faulted, ack, issued, confirmed, foreign,
                   raced>>

\* The directory is synchronised: the new token is acknowledged.
SyncPublication(s) ==
    /\ pc[s] = "syncPublication"
    /\ SyncDirectory
    /\ ack' = [ack EXCEPT ![s] = want[s]]
    /\ confirmed' = want[s]
    /\ Goto(s, "cleanup")
    /\ UNCHANGED <<fileVars, lock, faulted, observed, slots, issued, saveVars,
                   foreign, raced>>

SyncPublicationFails(s) ==
    /\ pc[s] = "syncPublication"
    /\ Latch(s)
    /\ EndSave(s)
    /\ UNCHANGED <<dirVars, fileVars, lock, ack, observed, slots, issued,
                   confirmed, foreign, raced>>

\* After the acknowledgment: the consumed candidate frees its slot without
\* an unlink; the prior copy is removed, or a warning leaves it and its slot.
Cleanup(s) ==
    /\ pc[s] = "cleanup"
    /\ \E removed \in SUBSET ({art[s]["prior"]} \ {NoFile}) :
          /\ Unlink(removed)
          /\ slots' = [slots EXCEPT ![s] = @ \ (removed \cup {art[s]["candidate"]})]
    /\ issued' = [issued EXCEPT ![s] = @ \cup {want[s]}]
    /\ EndSave(s)
    /\ UNCHANGED <<fileVars, lock, faulted, ack, observed, confirmed, foreign,
                   raced>>

\* close: the fault latch survives it.
Close(s) ==
    /\ pc[s] = "idle"
    /\ Release(s)
    /\ ack' = [ack EXCEPT ![s] = Absent]
    /\ UNCHANGED <<dirVars, fileVars, faulted, issued, saveVars, confirmed,
                   foreign, raced>>

-----------------------------------------------------------------------------
(* The environment.                                                        *)

Reset(f, S, v) == [s \in Stores |-> IF s \in S THEN v ELSE f[s]]

\* The stores of S are gone: their processes died, or their objects were
\* destroyed.  A new object has a new origin and no fault latch.
Forget(S) ==
    /\ lock' = IF lock \in S THEN NoStore ELSE lock
    /\ pc' = Reset(pc, S, "closed")
    /\ faulted' = Reset(faulted, S, FALSE)
    /\ ack' = Reset(ack, S, Absent)
    /\ observed' = Reset(observed, S, NoFile)
    /\ slots' = Reset(slots, S, {})
    /\ kind' = Reset(kind, S, "candidate")
    /\ want' = Reset(want, S, Absent)
    /\ art' = Reset(art, S, NoArtifacts)
    /\ issued' = Reset(issued, S, {})

Crash(s) ==
    /\ pc[s] # "closed" \/ faulted[s] \/ issued[s] # {}
    /\ Forget({s})
    /\ UNCHANGED <<dirVars, fileVars, confirmed, foreign, raced>>

\* Every process dies and the machine restarts from one of the directories
\* the disk may hold; data that was not synchronised may be lost.
PowerCut ==
    /\ \E f \in diskPrimary, kept \in SUBSET (mayLink \ mustLink) :
          LET links == (mustLink \cup kept) \ {f}
              found == (links \cup {f}) \ {NoFile}
          IN
          /\ primary' = f
          /\ staged' = links
          /\ diskPrimary' = {f}
          /\ mustLink' = links
          /\ mayLink' = links
          /\ \E lost \in SUBSET (found \ safe) :
                bytes' = [g \in Files |-> IF g \in found \ lost THEN bytes[g] ELSE Torn]
          /\ safe' = found
    /\ Forget(Stores)
    /\ UNCHANGED <<confirmed, foreign, raced>>

\* A writer that ignores the lock file replaces or removes the primary.
ForeignReplace ==
    /\ foreign < MaxForeign
    /\ foreign' = foreign + 1
    /\ \/ /\ primary # NoFile
          /\ primary' = NoFile
          /\ diskPrimary' = diskPrimary \cup {NoFile}
          /\ UNCHANGED fileVars
       \/ \E f \in Fresh, c \in {w \in Wire : ValidProjection(w.projection)} \cup {Torn} :
             /\ primary' = f
             /\ diskPrimary' = diskPrimary \cup {f}
             /\ bytes' = [bytes EXCEPT ![f] = c]
             /\ safe' = safe \ {f}
    /\ raced' = (raced \/ \E s \in Stores : pc[s] = "rename")
    /\ UNCHANGED <<staged, mustLink, mayLink, lock, pc, storeVars, saveVars,
                   confirmed>>

-----------------------------------------------------------------------------
\* What a store does by itself once a call is running.
Work(s) ==
    \/ ProbeSucceeds(s) \/ ProbeFails(s) \/ ReadAtOpen(s) \/ Reconcile(s)
    \/ OpenFails(s)
    \/ CreateArtifact(s) \/ WriteArtifact(s) \/ SyncArtifact(s) \/ Recheck(s)
    \/ Admit(s) \/ RenameSucceeds(s) \/ RenameUncertain(s) \/ Abandon(s)
    \/ SyncPublication(s) \/ SyncPublicationFails(s) \/ Cleanup(s)

\* What its caller starts.
Call(s) ==
    \/ Acquire(s) \/ BeginSave(s) \/ SaveUnchanged(s) \/ RefuseSave(s) \/ Close(s)

Next == PowerCut \/ \E s \in Stores : Work(s) \/ Call(s) \/ Crash(s)

\* Every participant takes the lock.
Spec == Init /\ [][Next]_vars

\* The same with writers that do not.
ForeignSpec == Init /\ [][Next \/ ForeignReplace]_vars

\* Calls that run to their end beside such writers: a call is straight-line
\* code of one thread that never waits.  A crash would only end it earlier.
CallSpec ==
    /\ Init
    /\ [][ForeignReplace \/ \E s \in Stores : Work(s) \/ Call(s)]_vars
    /\ \A s \in Stores : WF_vars(Work(s))

-----------------------------------------------------------------------------
(* Properties.                                                             *)

SequenceOf(c) == IF c = Absent THEN 0 ELSE c.sequence

\* A checkpoint handed to a caller as opened or saved is never lost: every
\* directory a power cut may leave names a complete, synchronised checkpoint
\* at least as new (fsync order of stage, publish, syncPublication and
\* reconcilePublication).
HandedOutSurvives ==
    \A f \in diskPrimary :
        /\ f # NoFile => f \in safe /\ bytes[f] \in Wire
        /\ SequenceOf(Content(f)) >= SequenceOf(confirmed)

\* Between calls an open store that is not faulted knows the disk: whatever
\* a power cut leaves is the checkpoint its next expectation names.  So a
\* save that answered NotCommitted left nothing behind that could surface.
IdleKnowsDisk ==
    \A s \in Stores :
        pc[s] = "idle" /\ ~faulted[s] =>
            \A f \in diskPrimary : Content(f) = ack[s]

\* As long as some possible disk shows an unconfirmed checkpoint, the
\* confirmed one it replaced is on disk too, as the primary or as a complete
\* stage file (CATALOG-PERSISTENCE-CONTRACT section 7: keep the previous
\* recovery artifact until a confirmed save).
RecoveryCopyOnDisk ==
    confirmed # Absent =>
        \/ \A f \in diskPrimary : Content(f) = confirmed
        \/ \E g \in mustLink \cap safe : bytes[g] = confirmed

\* A save replaces only the checkpoint its ticket named: a foreign change
\* made before the last check is noticed, one made after it can still be
\* overwritten by an update but never by a create.
NoSilentOverwrite ==
    [][\A s \in Stores :
          pc[s] = "rename" /\ primary' # primary /\ foreign' = foreign
             /\ pc'[s] # "closed" /\ (~raced \/ ack[s] = Absent)
          => Content(primary) = ack[s]]_vars

\* Every call ends, whatever other writers do to the directory meanwhile.
CallsEnd ==
    \A s \in Stores :
        pc[s] \in OpenPhases \cup SavePhases ~> pc[s] \in {"idle", "closed"}

\* The store implements the register: one unconfirmed checkpoint at a time,
\* always a legal successor of the confirmed one, and failures fall back to
\* nothing older than the confirmed one.
Register == INSTANCE CommitRegister WITH value <- Content(primary)
ImplementsRegister == Register!Spec
=============================================================================
