---------------------------- MODULE LibraryService ----------------------------
(***************************************************************************)
(* DurableLibraryService (library/DurableLibraryService.hpp): one live     *)
(* catalog over one checkpoint store.  A mutation is made on a private     *)
(* copy of the owner, saved, and installed only when the store has         *)
(* acknowledged it; a failure whose effect on the disk is unknown sends    *)
(* the service to RecoveryRequired, which only a fresh service leaves.     *)
(*                                                                         *)
(* The store appears as its specification CommitRegister: the value a      *)
(* reader of the primary finds, and the value last handed out as durable,  *)
(* to which a power cut may fall back.  A save is refused, published,      *)
(* acknowledged or left uncertain; sequences and tokens are inside         *)
(* CheckpointStore.  The admission of native roots is its outcome only: a  *)
(* check that fails.  Between the steps of a call other calls answer Busy  *)
(* and change nothing.                                                     *)
(***************************************************************************)
EXTENDS SongCatalog

CONSTANT Absent   \* the store holds no checkpoint

\* It has not the fields of a projection.
ASSUME AbsentAssumption == DOMAIN Absent # DOMAIN Capture(EmptyOwner)

\* The history rule of the store; its bounds play no part in it.
Rule == INSTANCE CheckpointProjection
        WITH Projections <- {}, MaxSequence <- MaxValue

VARIABLES
    service,    \* "none", or the state of the one service
    owner,      \* its live owner; without one, what callers saw last
    baseline,   \* the projection its expectation stands for
    call,       \* "idle", or how far the running mutation is
    staged,     \* the private copy a mutation has made
    value,      \* the checkpoint in the store
    confirmed,  \* the checkpoint last handed out as durable
    exposed     \* history: every song identity callers have seen

vars == <<service, owner, baseline, call, staged, value, confirmed, exposed>>
callVars == <<call, staged>>
storeVars == <<value, confirmed>>

States == {"none", "Creating", "Ready", "RecoveryRequired", "Closed"}
Calls == {"idle", "staged", "published"}

Init ==
    /\ service = "none"
    /\ owner = EmptyOwner
    /\ baseline = Absent
    /\ call = "idle"
    /\ staged = EmptyOwner
    /\ value = Absent
    /\ confirmed = Absent
    /\ exposed = {}

TypeOK ==
    /\ service \in States
    /\ DOMAIN owner.binding = DOMAIN owner.roots
    /\ DOMAIN owner.roots = 1..owner.nextRoot - 1
    /\ DOMAIN owner.songs \subseteq 1..owner.nextSong - 1
    /\ \A s \in DOMAIN owner.songs : owner.songs[s].root \in DOMAIN owner.roots
    /\ {owner.revision, owner.nextRoot, owner.nextSong} \subseteq 0..MaxValue
    /\ call \in Calls
    /\ call # "idle" => service \in {"Ready", "Creating"}
    /\ exposed \subseteq 1..MaxValue

-----------------------------------------------------------------------------
(* Staging.                                                                *)

Visible(o) == exposed' = exposed \cup DOMAIN o.songs

\* The call ends and the staged copy is gone.
EndCall == call' = "idle" /\ staged' = EmptyOwner

\* The owner is still the one the service captured: baselineMatches.
OwnerIsBaseline == Capture(owner) = baseline

\* A mutation starts on a service that is Ready; an owner that is not the
\* captured one is BaselineMismatch.
MayMutate == service = "Ready" /\ call = "idle" /\ OwnerIsBaseline

\* The changed copy is captured into the projection to save.  A mutation of
\* songs leaves the roots and their directories alone.
Stage(o) ==
    /\ call' = "staged"
    /\ staged' = o
    /\ UNCHANGED <<service, owner, baseline, storeVars, exposed>>

RegisterRoot(p) ==
    MayMutate /\ CanRegister(owner, p) /\ Stage(Registered(owner, p))

ReattachRoot(r, p) ==
    /\ MayMutate
    /\ CanReattach(owner, r, p)
    /\ Stage(IF ReattachIsNoChange(owner, r, p) THEN owner ELSE Reattached(owner, r, p))

Scan(r, found) ==
    MayMutate /\ CanScan(owner, r, found) /\ Stage(Scanned(owner, r, found))

RelocateSong(s, r, l) ==
    MayMutate /\ CanRelocate(owner, s, r, l) /\ Stage(Relocated(owner, s, r, l))

RemoveSong(s) == MayMutate /\ CanRemove(owner, s) /\ Stage(Removed(owner, s))

ReplaceUserOverrides(s, v) ==
    /\ MayMutate
    /\ CanOverride(owner, s, v)
    /\ Stage(IF OverrideIsNoChange(owner, s, v) THEN owner ELSE Overridden(owner, s, v))

\* createLinux: the store is opened and empty, the given owner is captured
\* and is to be saved first.
Create(o) ==
    /\ service = "none"
    /\ value = Absent
    /\ service' = "Creating"
    /\ baseline' = Absent
    /\ call' = "staged"
    /\ staged' = o
    /\ UNCHANGED <<owner, storeVars, exposed>>

-----------------------------------------------------------------------------
(* Saving.                                                                 *)

IsCreate == service = "Creating"
Changed == IsCreate \/ staged # owner

\* The service that leaves a failed save: a create has none to leave.
AfterFailure(state) == IF IsCreate THEN "none" ELSE state

\* An unchanged projection is acknowledged as it is.
SaveUnchanged ==
    /\ call = "staged"
    /\ ~Changed
    /\ value = baseline
    /\ EndCall
    /\ UNCHANGED <<service, owner, baseline, storeVars, exposed>>

\* What the store accepts over the service's expectation.
Acceptable ==
    /\ value = baseline
    /\ baseline # Absent => Rule!History(baseline, Capture(staged))

\* The new checkpoint is the primary, but the directory is not synchronised.
Publish ==
    /\ call = "staged"
    /\ Changed
    /\ Acceptable
    /\ value' = Capture(staged)
    /\ call' = "published"
    /\ UNCHANGED <<service, owner, baseline, staged, confirmed, exposed>>

\* Mutant: the store answers without synchronising the directory.
NotSynchronised == UNCHANGED confirmed

\* The store synchronises before it hands a checkpoint out.
Synchronised == confirmed' = value

\* The store acknowledges: owner, maps, counters and baseline are swapped in.
Acknowledge ==
    /\ call = "published"
    /\ Synchronised
    /\ owner' = staged
    /\ baseline' = Capture(staged)
    /\ service' = "Ready"
    /\ EndCall
    /\ Visible(staged)
    /\ UNCHANGED value

\* NotCommitted: a limit, a cancellation, an I/O error.
NotCommitted ==
    /\ call = "staged"
    /\ service' = AfterFailure("Ready")
    /\ EndCall
    /\ UNCHANGED <<owner, baseline, storeVars, exposed>>

\* Mutant: an uncertain commit leaves the service in use.
StillReady == AfterFailure("Ready")

AfterDoubt == AfterFailure("RecoveryRequired")

\* StaleCheckpoint, or a root whose admission no longer holds, before the
\* rename: the disk is unchanged but this service is no longer trusted.
Distrusted ==
    /\ call = "staged"
    /\ service' = AfterDoubt
    /\ EndCall
    /\ UNCHANGED <<owner, baseline, storeVars, exposed>>

\* CommitUncertain: the rename may have happened, or it did and the
\* directory could not be synchronised.
CommitUncertain ==
    /\ \/ call = "staged" /\ Changed /\ Acceptable /\ value' \in {value, Capture(staged)}
       \/ call = "published" /\ UNCHANGED value
    /\ service' = AfterDoubt
    /\ EndCall
    /\ UNCHANGED <<owner, baseline, confirmed, exposed>>

-----------------------------------------------------------------------------
(* The rest of the service's life.                                         *)

\* openLinux: the store confirms what it holds; the restored owner captures
\* to the very projection it came from, or the open fails.
Open ==
    /\ service = "none"
    /\ value # Absent
    /\ Synchronised
    /\ owner' = Restore(value)
    /\ Capture(Restore(value)) = value
    /\ baseline' = Capture(Restore(value))
    /\ service' = "Ready"
    /\ Visible(Restore(value))
    /\ UNCHANGED <<callVars, value>>

\* A failed open or create may have confirmed what is on disk.
OpenFails ==
    /\ service = "none"
    /\ confirmed' = value
    /\ UNCHANGED <<service, owner, baseline, callVars, value, exposed>>

\* A preparation, or a check before a mutation, finds its authority gone.
LoseAuthority ==
    /\ service = "Ready"
    /\ call = "idle"
    /\ service' = "RecoveryRequired"
    /\ UNCHANGED <<owner, baseline, callVars, storeVars, exposed>>

Close ==
    /\ service \in {"Ready", "RecoveryRequired"}
    /\ call = "idle"
    /\ service' = "Closed"
    /\ UNCHANGED <<owner, baseline, callVars, storeVars, exposed>>

\* The service is destroyed, or its process dies, in a call or between two.
Crash ==
    /\ service # "none"
    /\ service' = "none"
    /\ EndCall
    /\ UNCHANGED <<owner, baseline, storeVars, exposed>>

\* A power cut may also lose what was not confirmed.
PowerCut ==
    /\ service' = "none"
    /\ EndCall
    /\ value' = confirmed
    /\ UNCHANGED <<owner, baseline, confirmed, exposed>>

\* What two readings of a directory may agree on.
Findings == UNION {[L -> {c \in Candidate : c.state = "Ready" => c.read}] :
                   L \in SUBSET Locators}

Mutate ==
    \/ \E p \in Paths : RegisterRoot(p) \/ \E r \in DOMAIN owner.roots : ReattachRoot(r, p)
    \/ \E r \in DOMAIN owner.roots, found \in Findings : Scan(r, found)
    \/ \E s \in DOMAIN owner.songs :
          \/ \E r \in DOMAIN owner.roots, l \in Locators : RelocateSong(s, r, l)
          \/ RemoveSong(s)
          \/ \E v \in Overrides \cup {NoOverride} : ReplaceUserOverrides(s, v)

Save ==
    \/ SaveUnchanged \/ Publish \/ Acknowledge \/ NotCommitted \/ Distrusted
    \/ CommitUncertain

\* A library is created from an owner with or without a registered root.
Begin ==
    \/ Open \/ OpenFails
    \/ Create(EmptyOwner)
    \/ \E p \in Paths : Create(Registered(EmptyOwner, p))

Next == Begin \/ Mutate \/ Save \/ LoseAuthority \/ Close \/ Crash \/ PowerCut

Spec == Init /\ [][Next]_vars

-----------------------------------------------------------------------------
(* Properties.                                                             *)

\* Between calls a Ready service shows exactly the checkpoint that is in the
\* store and durable: whatever failed before left no trace in either.
LiveIsDurable ==
    service = "Ready" /\ call = "idle" =>
        /\ Capture(owner) = confirmed
        /\ value = confirmed

\* A song identity that callers have seen and that then left the catalog is
\* never given to another song, through removals, failed and uncertain
\* commits, crashes and recoveries.
IdentityNeverReused ==
    [][\A s \in DOMAIN owner'.songs \ DOMAIN owner.songs : s \notin exposed]_vars

\* What the catalog knows of a song's bytes was read under the directory its
\* root is attached to now; a Ready song is always known.
SourceIsCurrent ==
    \A s \in DOMAIN owner.songs :
        LET song == owner.songs[s] IN
        /\ song.state = "Ready" => song.source # NoPath
        /\ song.source # NoPath =>
              Attached(owner, song.root) /\ owner.binding[song.root].path = song.source

\* No file has two entries: attached roots are not nested, and no two songs
\* of a root have names equal up to case.
OneEntryPerFile ==
    /\ \A q, r \in DOMAIN owner.binding :
          q # r /\ Attached(owner, q) /\ Attached(owner, r) =>
              ~Overlap(owner.binding[q].path, owner.binding[r].path)
    /\ \A s, t \in DOMAIN owner.songs :
          s # t /\ owner.songs[s].root = owner.songs[t].root =>
              ~Aliases(owner.songs[s].locator, owner.songs[t].locator)

\* The store's history rule never refuses what the service stages.
StagedIsAcceptable == call = "staged" /\ Changed => Acceptable
=============================================================================
