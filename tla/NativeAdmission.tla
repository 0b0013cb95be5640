---------------------------- MODULE NativeAdmission ---------------------------
(***************************************************************************)
(* The guards that DurableLibraryService keeps on its directories          *)
(* (library/NativeStoreBinding.hpp).  For every attached root it holds the *)
(* directory it opened when the root was admitted; before it trusts a path *)
(* again it walks the path and compares what it finds with what it holds,  *)
(* then climbs from the directory of the store to be sure that no root     *)
(* contains it.  A registration or a reattachment stages a second set of   *)
(* guards beside the live one, and only an acknowledged save swaps it in.  *)
(*                                                                         *)
(* Other programs move directories between any two of these steps; a       *)
(* directory that is removed and replaced is one moved out of every path   *)
(* and another moved in.  A walk is one step.  All directories are on one  *)
(* mount and there are no symbolic links.  Byte, descriptor and depth      *)
(* limits are refusals like any other (Abandon).  The service starts       *)
(* without attached roots, as app/library_main.cpp creates and opens it.   *)
(***************************************************************************)
EXTENDS Naturals, FiniteSets, Sequences, SequencesExt

CONSTANTS Dirs,       \* directories that can be held, by identity
          Store,      \* the directory of the checkpoint store
          Top,        \* what a climb stops at
          Names,      \* names of directory entries
          FirstPlace, \* where the directories are at first
          StorePath,  \* where the lease expects the directory of the store
          Paths,      \* the paths users register
          RootIds,    \* identities of roots
          NoDir, Detached, NoRoot

ASSUME DirsAssumption ==
    /\ IsFiniteSet(Dirs)
    /\ Store \in Dirs
    /\ Top \notin Dirs
    /\ NoDir \notin Dirs \cup {Top}
    /\ RootIds \subseteq Nat
    /\ NoRoot \notin RootIds
    /\ Detached \notin Paths

\* At first the directories form a tree: no two are at one place, and each has
\* a path.
ASSUME FirstPlaceAssumption ==
    /\ FirstPlace \in [Dirs -> [up : Dirs \cup {Top}, name : Names]]
    /\ \A d, e \in Dirs : FirstPlace[d] = FirstPlace[e] => d = e
    /\ \E path \in [Dirs -> UNION {[1..n -> Names] : n \in 1..Cardinality(Dirs)}] :
          \A d \in Dirs :
             LET p == FirstPlace[d]
             IN  path[d] = Append(IF p.up = Top THEN <<>> ELSE path[p.up], p.name)

VARIABLES
    place,      \* where each directory is: its parent and its name there
    quiet,      \* history: nothing has moved since the last fence began
    service,    \* "none", or the state of the one service
    roots,      \* its owner: the path of each root, or Detached
    admission,  \* its live guards
    ids,        \* admissionRoots_: the root each of them belongs to
    phase,      \* what the running call is doing
    at,         \* the guard it checks next, or 0 while it climbs
    pos,        \* the directory the climb has reached
    pending     \* the mutation it is staging

vars == <<place, quiet, service, roots, admission, ids, phase, at, pos, pending>>
live == <<service, roots, admission, ids>>

NoMutation == [target |-> NoRoot, path |-> <<>>, retired |-> 0,
               guards |-> <<>>, ids |-> <<>>, roots |-> <<>>]

Phases == {"idle", "begin", "previous", "open", "stage", "own", "fence", "publish"}

Guard == [path : Paths, dir : Dirs]

Init ==
    /\ place = FirstPlace
    /\ quiet = FALSE
    /\ service = "none"
    /\ roots = <<>>
    /\ admission = <<>>
    /\ ids = <<>>
    /\ phase = "idle"
    /\ at = 0
    /\ pos = NoDir
    /\ pending = NoMutation

TypeOK ==
    /\ service \in {"none", "Ready", "RecoveryRequired", "Closed"}
    /\ roots \in Seq(Paths \cup {Detached})
    /\ admission \in Seq(Guard)
    /\ ids \in Seq(RootIds) /\ Len(ids) = Len(admission)
    /\ phase \in Phases
    /\ phase # "idle" => service = "Ready"
    /\ pos \in Dirs \cup {NoDir}
    /\ pending.guards \in Seq(Guard)

-----------------------------------------------------------------------------
(* The directory tree.                                                     *)

\* The path of every directory.
PathOf == LET path[d \in Dirs] ==
                  LET p == place[d] IN
                  Append(IF p.up = Top THEN <<>> ELSE path[p.up], p.name)
          IN  path

\* LinuxCheckpointLease::walk: the directory a path leads to.
Walk(path) ==
    LET here == {d \in Dirs : PathOf[d] = path}
    IN  IF here = {} THEN NoDir ELSE CHOOSE d \in here : TRUE

Encloses(p, q) == IsPrefix(p, q)
Overlap(p, q) == Encloses(p, q) \/ Encloses(q, p)

\* d or a directory that contains it.
Above(d) == {e \in Dirs : Encloses(PathOf[e], PathOf[d])}

\* The lease's directory is still where its path leads.
Authority == Walk(StorePath) = Store

\* checkRoot
Holds(guard) == Walk(guard.path) = guard.dir

\* Another program moves a directory.
Move(d, up, name) ==
    /\ up \in Dirs => d \notin Above(up)
    /\ \A e \in Dirs : place[e] # [up |-> up, name |-> name]
    /\ place' = [place EXCEPT ![d] = [up |-> up, name |-> name]]
    /\ quiet' = FALSE
    /\ UNCHANGED <<live, phase, at, pos, pending>>

-----------------------------------------------------------------------------
(* Checking guards.                                                        *)

Idle == phase' = "idle" /\ at' = 0 /\ pos' = NoDir /\ pending' = NoMutation

\* The call ends; what it staged is gone and the live guards stay.
EndCall(state) ==
    /\ Idle
    /\ service' = state
    /\ UNCHANGED <<place, quiet, roots, admission, ids>>

\* A call goes on to its next phase, which checks guards from the first one.
Enter(next) == phase' = next /\ at' = 1 /\ pos' = NoDir

\* Mutant: every fence looks at the live guards, not at the staged ones.
LiveGuards == admission

\* PendingAdmission: what a check looks at while a mutation is being saved.
Checked == IF phase \in {"stage", "fence"} THEN pending.guards ELSE admission

Checking == phase \in {"begin", "stage", "fence"}

\* One root is where it was, and the lease too when the first is checked.
CheckRoot ==
    /\ Checking
    /\ at \in 1..Len(Checked)
    /\ at = 1 => Authority
    /\ Holds(Checked[at])
    /\ at' = at + 1
    /\ UNCHANGED <<place, quiet, live, phase, pos, pending>>

\* All roots have been checked; the climb starts at the held directory of the
\* store, whatever its path says.
StartClimb ==
    /\ Checking
    /\ at = Len(Checked) + 1
    /\ Len(Checked) = 0 => Authority
    /\ at' = 0
    /\ pos' = Store
    /\ UNCHANGED <<place, quiet, live, phase, pending>>

OutsideRoots(d) == d \notin {g.dir : g \in ToSet(Checked)}

Climb ==
    /\ Checking
    /\ pos # NoDir
    /\ OutsideRoots(pos)
    /\ place[pos].up # Top
    /\ pos' = place[pos].up
    /\ UNCHANGED <<place, quiet, live, phase, at, pending>>

\* The climb has reached the top: the check is passed.  A new fence begins
\* when the mutation is ready to be saved.
Passed ==
    /\ Checking
    /\ pos # NoDir
    /\ OutsideRoots(pos)
    /\ place[pos].up = Top
    /\ Enter(CASE phase = "begin" -> "fence"
               [] phase = "stage" -> "own"
               [] phase = "fence" -> "publish")
    /\ quiet' = (phase = "begin" \/ quiet)
    /\ UNCHANGED <<place, live, pending>>

CheckFails ==
    /\ Checking
    /\ \/ at \in 1..Len(Checked) /\ ~Holds(Checked[at])
       \/ at = 1 /\ ~Authority
       \/ pos # NoDir /\ ~OutsideRoots(pos)

\* Drift of a root that the mutation keeps, or of the store.
Drift ==
    \/ ~Authority
    \/ \E i \in DOMAIN admission : i # pending.retired /\ ~Holds(admission[i])

\* A refused stage leaves the service in use unless the live guards, the
\* retired one excepted, no longer hold either.
AfterRefusal == IF Drift THEN "RecoveryRequired" ELSE "Ready"

Distrust == CheckFails /\ phase # "stage" /\ EndCall("RecoveryRequired")

-----------------------------------------------------------------------------
(* Staging a root.                                                         *)

\* rootTransaction: t is the root to reattach, or NoRoot for a new one.  The
\* row of an attached root that moves is retired.
StageRoot(t, p) ==
    /\ service = "Ready"
    /\ phase = "idle"
    /\ Authority
    /\ Walk(p) # NoDir
    /\ t # NoRoot => t \in DOMAIN roots
    /\ t = NoRoot => Len(roots) + 1 \in RootIds
    /\ LET row == {i \in DOMAIN ids : ids[i] = t /\ admission[i].path # p}
       IN  pending' = [NoMutation EXCEPT !.target = t, !.path = p,
                           !.retired = IF row = {} THEN 0 ELSE CHOOSE i \in row : TRUE]
    /\ Enter("previous")
    /\ UNCHANGED <<place, quiet, live>>

StageWithoutAuthority ==
    service = "Ready" /\ phase = "idle" /\ ~Authority /\ EndCall("RecoveryRequired")

\* The roots that stay are checked before anything is opened.
CheckPrevious ==
    /\ phase = "previous"
    /\ at \in DOMAIN admission
    /\ at = pending.retired \/ Holds(admission[at])
    /\ at' = at + 1
    /\ UNCHANGED <<place, quiet, live, phase, pos, pending>>

AllPrevious ==
    /\ phase = "previous"
    /\ at = Len(admission) + 1
    /\ Enter("open")
    /\ UNCHANGED <<place, quiet, live, pending>>

\* A directory is opened for the mutation, unless the root is attached to the
\* very path already.
Opens == pending.retired # 0 \/ pending.target \notin ToSet(ids)

\* Mutant: a root that stays is opened again from its path.
Reopened(guard) == [guard EXCEPT !.dir = IF Walk(guard.path) = NoDir THEN @ ELSE Walk(guard.path)]

\* A root that stays keeps the directory it was admitted with.
Kept(guard) == guard

\* The staged guards and their roots: kept rows by index, the retired row
\* replaced in place, a first attachment appended.
StagedGuards ==
    LET fresh == [path |-> pending.path, dir |-> Walk(pending.path)]
        rows  == [i \in DOMAIN admission |->
                     IF i = pending.retired THEN fresh ELSE Kept(admission[i])]
    IN  IF Opens /\ pending.retired = 0 THEN Append(rows, fresh) ELSE rows

StagedIds ==
    IF Opens /\ pending.retired = 0 THEN Append(ids, pending.target) ELSE ids

\* Mutant: two roots are only told apart by their paths.
PathsApart(g, h) == ~Overlap(g.path, h.path)

Apart(g, h) == ~Overlap(g.path, h.path) /\ g.dir # h.dir

CanOpen(path) == Walk(path) # NoDir

Openable ==
    /\ Opens => CanOpen(pending.path)
    /\ \A g \in ToSet(StagedGuards) : ~Encloses(g.path, StorePath)
    /\ \A i, j \in DOMAIN StagedGuards : i # j => Apart(StagedGuards[i], StagedGuards[j])

OpenFresh ==
    /\ phase = "open"
    /\ Openable
    /\ pending' = [pending EXCEPT !.guards = StagedGuards, !.ids = StagedIds]
    /\ Enter("stage")
    /\ UNCHANGED <<place, quiet, live>>

RefuseStage ==
    /\ \/ phase = "previous" /\ at \in DOMAIN admission
          /\ at # pending.retired /\ ~Holds(admission[at])
       \/ phase = "open" /\ ~Openable
       \/ phase = "stage" /\ CheckFails
    /\ EndCall(AfterRefusal)

-----------------------------------------------------------------------------
(* The owner's own mutation, and the association of guards with roots.     *)

\* What SongDiscovery accepts: a directory, apart from the other roots.
OwnerAccepts ==
    /\ Walk(pending.path) # NoDir
    /\ \A r \in DOMAIN roots :
          r # pending.target /\ roots[r] # Detached => ~Overlap(roots[r], pending.path)

OwnerRoots ==
    IF pending.target = NoRoot THEN Append(roots, pending.path)
    ELSE [roots EXCEPT ![pending.target] = pending.path]

Attached(rows) == {r \in DOMAIN rows : rows[r] # Detached}

\* Mutant: guards are taken to be in the order of the owner's roots.
InOrder(r) == Cardinality({q \in Attached(OwnerRoots) : q <= r})

\* The guard of an attached root: the row its identity had, or the new row.
IndexOf(r) ==
    IF r \in ToSet(pending.ids) THEN CHOOSE i \in DOMAIN pending.ids : pending.ids[i] = r
    ELSE Len(pending.guards)

\* associateAdmission's own consistency check.
Associates ==
    /\ Cardinality(Attached(OwnerRoots)) = Len(pending.guards)
    /\ \A r \in Attached(OwnerRoots) : pending.guards[IndexOf(r)].path = OwnerRoots[r]

\* The staged owner and its guards agree and the save begins.  NoFalseAlarm
\* shows that the check never finds anything else, which would end the call
\* and the use of the service.
Associate ==
    /\ phase = "own"
    /\ OwnerAccepts
    /\ Associates
    /\ pending' = [pending EXCEPT
          !.roots = OwnerRoots,
          !.ids = [i \in DOMAIN pending.guards |->
                      CHOOSE r \in Attached(OwnerRoots) : IndexOf(r) = i]]
    /\ Enter("fence")
    /\ quiet' = TRUE
    /\ UNCHANGED <<place, live>>

\* A mutation that changes no root is checked twice, against the live guards.
Mutate ==
    /\ service = "Ready"
    /\ phase = "idle"
    /\ pending' = [NoMutation EXCEPT !.guards = admission, !.ids = ids, !.roots = roots]
    /\ Enter("begin")
    /\ UNCHANGED <<place, quiet, live>>

-----------------------------------------------------------------------------
(* Saving, and the rest of the service's life.                             *)

InstallIds == ids' = pending.ids

\* commitOwner: the save is acknowledged and everything is swapped in.
Commit ==
    /\ phase = "publish"
    /\ roots' = pending.roots
    /\ admission' = pending.guards
    /\ InstallIds
    /\ Idle
    /\ UNCHANGED <<place, quiet, service>>

CommitUncertain == phase = "publish" /\ EndCall("RecoveryRequired")

\* A cancellation, a limit, an I/O error, or the owner's own refusal.
Abandon == phase # "idle" /\ EndCall("Ready")

\* createLinux with a new owner, or openLinux with a restored one: the roots
\* are known, with those that a save left uncertain, and none is attached.
Start ==
    /\ service = "none"
    /\ Authority
    /\ service' = "Ready"
    /\ \E n \in Len(roots)..Cardinality(RootIds) : roots' = [r \in 1..n |-> Detached]
    /\ admission' = <<>>
    /\ ids' = <<>>
    /\ UNCHANGED <<place, quiet, phase, at, pos, pending>>

Close ==
    /\ service \in {"Ready", "RecoveryRequired"}
    /\ phase = "idle"
    /\ service' = "Closed"
    /\ admission' = <<>>
    /\ ids' = <<>>
    /\ UNCHANGED <<place, quiet, roots, phase, at, pos, pending>>

\* The service is destroyed, or its process dies in the middle of a call.
Destroy ==
    /\ service # "none"
    /\ Idle
    /\ service' = "none"
    /\ admission' = <<>>
    /\ ids' = <<>>
    /\ UNCHANGED <<place, quiet, roots>>

Environment == \E d \in Dirs, up \in Dirs \cup {Top}, name \in Names : Move(d, up, name)

Check == CheckRoot \/ StartClimb \/ Climb \/ Passed \/ Distrust

Staging ==
    \/ \E t \in RootIds \cup {NoRoot}, p \in Paths : StageRoot(t, p)
    \/ StageWithoutAuthority \/ CheckPrevious \/ AllPrevious \/ OpenFresh \/ RefuseStage

Save == Associate \/ Mutate \/ Commit \/ CommitUncertain \/ Abandon

Next == Environment \/ Check \/ Staging \/ Save \/ Start \/ Close \/ Destroy

Spec == Init /\ [][Next]_vars

-----------------------------------------------------------------------------
(* Properties.                                                             *)

\* A sound service never distrusts itself: the check that guards and owner
\* agree finds no difference, and between calls the guards of a Ready service
\* are those of its attached roots, each under the path of its own root, in
\* whatever order they were attached and whichever calls failed.
NoFalseAlarm ==
    /\ phase = "own" /\ OwnerAccepts => Associates
    /\ service = "Ready" /\ phase = "idle" =>
          /\ ToSet(ids) = Attached(roots)
          /\ Len(ids) = Cardinality(Attached(roots))
          /\ \A i \in DOMAIN ids : admission[i].path = roots[ids[i]]

\* No directory is held under two roots, and the store's never under any,
\* although directories move between the steps that decide it.
GuardsApart ==
    /\ \A i, j \in DOMAIN admission : i # j =>
          /\ admission[i].dir # admission[j].dir
          /\ ~Overlap(admission[i].path, admission[j].path)
    /\ \A g \in ToSet(admission) : g.dir # Store /\ ~Encloses(g.path, StorePath)

\* As long as a root stays at its path it stays with the directory it was
\* admitted with: no mutation of another root adopts a replacement.
GuardsNeverRefreshed ==
    [][\A i \in DOMAIN admission, j \in DOMAIN admission' :
          ids[i] = ids'[j] /\ admission[i].path = admission'[j].path
             => admission[i].dir = admission'[j].dir]_vars

\* If nothing moves while a save is fenced, what is published is outside
\* every root, and every root is the directory its path leads to.
QuietCommitIsSound ==
    phase = "publish" /\ quiet =>
        /\ Authority
        /\ \A g \in ToSet(pending.guards) : Holds(g) /\ g.dir \notin Above(Store)
=============================================================================
