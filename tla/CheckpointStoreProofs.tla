-------------------------- MODULE CheckpointStoreProofs --------------------------
(***************************************************************************)
(* IInv is an inductive invariant of CheckpointStore, for any set of       *)
(* stores, files and projections: every action keeps each of its           *)
(* conjuncts, the safety properties follow from it, and under it each step *)
(* is a step of CommitRegister or leaves the register alone.  ForeignInv   *)
(* is what still holds beside writers that ignore the lock.                *)
(*                                                                         *)
(* Most actions are taken by the store that holds the lease; the first     *)
(* step of their lemmas is that every other store is then closed, so that  *)
(* the conjuncts that quantify over stores concern one store only.         *)
(***************************************************************************)
EXTENDS CheckpointStoreInvariant, TLAPS

USE NoStoreAssumption, NoFileAssumption, TornAssumption, SequenceAssumption,
    AbsentAssumption
\* Tuples of variables and sets of names that every leaf may look into.
USE DEF NoArtifacts, Artifacts, Kinds, Phases, OpenPhases, SavePhases,
        StagePhases, Goto, dirVars, fileVars, saveVars, storeVars

-----------------------------------------------------------------------------
(* One lemma per action of a store: it keeps the invariant.                *)

\* Taking the lease and making the probe's files (acquire) touches no file
\* that a name or a descriptor refers to.
LEMMA AcquireStep ==
    ASSUME IInv, TypeOK', NEW s \in Stores, Acquire(s)
    PROVE  IInv'
<1>1. TypeOK /\ TypeOK'
  BY DEF IInv
<1>2. lock' \in {s, NoStore} /\ \A t \in Stores : t # s => pc[t] = "closed"
  BY <1>1 DEF IInv, LockExclusive, Acquire, LeaseFree
<1>3. LockExclusive'
  BY <1>1, <1>2 DEF IInv, LockExclusive, TypeOK, Acquire, InUse, LeaseFree,
     Content
<1>4. DiskCoherent'
  BY <1>1, <1>2 DEF IInv, DiskCoherent, TypeOK, Acquire, Fresh, InUse,
     LeaseFree, Content
<1>5. OneAhead'
  BY <1>1, <1>2 DEF IInv, OneAhead, TypeOK, Acquire, Fresh, InUse, LeaseFree,
     Content
<1>6. AckKnowsDisk'
  BY <1>1, <1>2 DEF IInv, AckKnowsDisk, Acquire, InUse, LeaseFree, Content
<1>7. SaveIsLegal'
  BY <1>1, <1>2 DEF IInv, SaveIsLegal, Acquire, InUse, LeaseFree, Content
<1>8. WritesNewFile'
  BY <1>1, <1>2 DEF IInv, WritesNewFile, Acquire, InUse, LeaseFree, Content
<1>9. CandidateStaged'
  BY <1>1, <1>2 DEF IInv, CandidateStaged, Acquire, InUse, LeaseFree, Content,
     CandidateDone
<1>10. NamesNest'
  BY <1>1, <1>2 DEF IInv, NamesNest, TypeOK, Acquire, InUse, LeaseFree,
     Content
<1>11. PriorStaged'
  BY <1>1, <1>2 DEF IInv, PriorStaged, Acquire, InUse, LeaseFree, Content
<1>12. RecoveryKept'
  BY <1>1, <1>2 DEF IInv, RecoveryKept, TypeOK, AckKnowsDisk, SaveIsLegal,
     NamesNest, DiskCoherent, PriorStaged, WritesNewFile, CandidateStaged,
     Acquire, Fresh, InUse, LeaseFree, Content, Settled, CandidateDone
<1> QED
  BY <1>1, <1>3, <1>4, <1>5, <1>6, <1>7, <1>8, <1>9, <1>10, <1>11, <1>12 DEF
     IInv

\* The probe ends with a directory fsync and without its own names.
LEMMA ProbeSucceedsStep ==
    ASSUME IInv, TypeOK', NEW s \in Stores, ProbeSucceeds(s)
    PROVE  IInv'
<1>1. TypeOK /\ TypeOK'
  BY DEF IInv
<1>2. lock' \in {s, NoStore} /\ \A t \in Stores : t # s => pc[t] = "closed"
  BY <1>1 DEF IInv, LockExclusive, ProbeSucceeds
<1>3. LockExclusive'
  BY <1>1, <1>2 DEF IInv, LockExclusive, ProbeSucceeds
<1>4. DiskCoherent'
  BY <1>1, <1>2 DEF IInv, DiskCoherent, ProbeSucceeds
<1>5. OneAhead'
  BY <1>1, <1>2 DEF IInv, OneAhead, ProbeSucceeds, Content
<1>6. AckKnowsDisk'
  BY <1>1, <1>2 DEF IInv, AckKnowsDisk, ProbeSucceeds
<1>7. SaveIsLegal'
  BY <1>1, <1>2 DEF IInv, SaveIsLegal, ProbeSucceeds
<1>8. WritesNewFile'
  BY <1>1, <1>2 DEF IInv, WritesNewFile, ProbeSucceeds
<1>9. CandidateStaged'
  BY <1>1, <1>2 DEF IInv, CandidateStaged, ProbeSucceeds, CandidateDone
<1>10. NamesNest'
  BY <1>1, <1>2 DEF IInv, NamesNest, TypeOK, ProbeSucceeds
<1>11. PriorStaged'
  BY <1>1, <1>2 DEF IInv, PriorStaged, ProbeSucceeds
<1>12. RecoveryKept'
  BY <1>1, <1>2 DEF IInv, RecoveryKept, NamesNest, DiskCoherent,
     WritesNewFile, CandidateStaged, ProbeSucceeds, Content, Settled,
     CandidateDone
<1> QED
  BY <1>1, <1>3, <1>4, <1>5, <1>6, <1>7, <1>8, <1>9, <1>10, <1>11, <1>12 DEF
     IInv

\* A failed probe may leave its names behind; nothing else changes.
LEMMA ProbeFailsStep ==
    ASSUME IInv, TypeOK', NEW s \in Stores, ProbeFails(s)
    PROVE  IInv'
<1>1. TypeOK /\ TypeOK'
  BY DEF IInv
<1>2. lock' \in {s, NoStore} /\ \A t \in Stores : t # s => pc[t] = "closed"
  BY <1>1 DEF IInv, LockExclusive, ProbeFails, Release
<1> QED
  BY <1>1, <1>2 DEF IInv, LockExclusive, DiskCoherent, OneAhead, AckKnowsDisk,
     SaveIsLegal, WritesNewFile, CandidateStaged, NamesNest, PriorStaged,
     RecoveryKept, TypeOK, ProbeFails, Release, Content, CandidateDone,
     Settled

\* Reading and decoding at open changes no file.
LEMMA ReadAtOpenStep ==
    ASSUME IInv, TypeOK', NEW s \in Stores, ReadAtOpen(s)
    PROVE  IInv'
<1>1. TypeOK /\ TypeOK'
  BY DEF IInv
<1>2. lock' \in {s, NoStore} /\ \A t \in Stores : t # s => pc[t] = "closed"
  BY <1>1 DEF IInv, LockExclusive, ReadAtOpen
<1> QED
  BY <1>1, <1>2 DEF IInv, LockExclusive, DiskCoherent, OneAhead, AckKnowsDisk,
     SaveIsLegal, WritesNewFile, CandidateStaged, NamesNest, PriorStaged,
     RecoveryKept, ReadAtOpen, Content, CandidateDone, Settled

\* reconcilePublication confirms what it has just synchronised.
LEMMA ReconcileStep ==
    ASSUME IInv, TypeOK', NEW s \in Stores, Reconcile(s)
    PROVE  IInv'
<1>1. TypeOK /\ TypeOK'
  BY DEF IInv
<1>2. lock' \in {s, NoStore} /\ \A t \in Stores : t # s => pc[t] = "closed"
  BY <1>1 DEF IInv, LockExclusive, Reconcile
<1>3. LockExclusive'
  BY <1>1, <1>2 DEF IInv, LockExclusive, Reconcile, SyncFile, Content
<1>4. DiskCoherent'
  BY <1>1, <1>2 DEF IInv, DiskCoherent, Reconcile, SyncDirectory, SyncFile,
     Content
<1>5. OneAhead'
  BY <1>1, <1>2 DEF IInv, OneAhead, Reconcile, SyncDirectory, SyncFile,
     Content
<1>6. AckKnowsDisk'
  BY <1>1, <1>2 DEF IInv, AckKnowsDisk, TypeOK, Reconcile, SyncDirectory,
     SyncFile, Content, Settled
<1>7. SaveIsLegal'
  BY <1>1, <1>2 DEF IInv, SaveIsLegal, Reconcile, SyncFile, Content
<1>8. WritesNewFile'
  BY <1>1, <1>2 DEF IInv, WritesNewFile, Reconcile, SyncFile, Content
<1>9. CandidateStaged'
  BY <1>1, <1>2 DEF IInv, CandidateStaged, Reconcile, SyncFile, Content,
     CandidateDone
<1>10. NamesNest'
  BY <1>1, <1>2 DEF IInv, NamesNest, Reconcile, SyncDirectory, SyncFile,
     Content
<1>11. PriorStaged'
  BY <1>1, <1>2 DEF IInv, PriorStaged, Reconcile, SyncFile, Content
<1>12. RecoveryKept'
  BY <1>1, <1>2 DEF IInv, RecoveryKept, WritesNewFile, CandidateStaged,
     Reconcile, SyncDirectory, SyncFile, Content, Settled, CandidateDone
<1> QED
  BY <1>1, <1>3, <1>4, <1>5, <1>6, <1>7, <1>8, <1>9, <1>10, <1>11, <1>12 DEF
     IInv

\* A failed open gives the lease up and may have synchronised the file it
\* read.
LEMMA OpenFailsStep ==
    ASSUME IInv, TypeOK', NEW s \in Stores, OpenFails(s)
    PROVE  IInv'
<1>1. TypeOK /\ TypeOK'
  BY DEF IInv
<1>2. lock' \in {s, NoStore} /\ \A t \in Stores : t # s => pc[t] = "closed"
  BY <1>1 DEF IInv, LockExclusive, OpenFails, Release
<1> QED
  BY <1>1, <1>2 DEF IInv, LockExclusive, DiskCoherent, OneAhead, AckKnowsDisk,
     SaveIsLegal, WritesNewFile, CandidateStaged, NamesNest, PriorStaged,
     RecoveryKept, TypeOK, OpenFails, Release, Content, CandidateDone, Settled

\* A save starts only with a legal successor of the confirmed checkpoint.
LEMMA BeginSaveStep ==
    ASSUME IInv, TypeOK', NEW s \in Stores, BeginSave(s)
    PROVE  IInv'
<1>1. TypeOK /\ TypeOK'
  BY DEF IInv
<1>2. lock' \in {s, NoStore} /\ \A t \in Stores : t # s => pc[t] = "closed"
  BY <1>1 DEF IInv, LockExclusive, BeginSave
<1>3. LockExclusive'
  BY <1>1, <1>2 DEF IInv, LockExclusive, BeginSave
<1>4. DiskCoherent'
  BY <1>1, <1>2 DEF IInv, DiskCoherent, BeginSave, Content
<1>5. OneAhead'
  BY <1>1, <1>2 DEF IInv, OneAhead, BeginSave, Content
<1>6. AckKnowsDisk'
  BY <1>1, <1>2 DEF IInv, AckKnowsDisk, BeginSave, Content, Settled
<1>7. SaveIsLegal'
  BY <1>1, <1>2 DEF IInv, SaveIsLegal, TypeOK, DiskCoherent, AckKnowsDisk,
     CandidateStaged, WritesNewFile, BeginSave, Content, CandidateDone,
     Settled
<1>8. WritesNewFile'
  BY <1>1, <1>2 DEF IInv, WritesNewFile, BeginSave
<1>9. CandidateStaged'
  BY <1>1, <1>2 DEF IInv, CandidateStaged, TypeOK, BeginSave, CandidateDone
<1>10. NamesNest'
  BY <1>1, <1>2 DEF IInv, NamesNest, BeginSave
<1>11. PriorStaged'
  BY <1>1, <1>2 DEF IInv, PriorStaged, BeginSave
<1>12. RecoveryKept'
  BY <1>1, <1>2 DEF IInv, RecoveryKept, WritesNewFile, CandidateStaged,
     BeginSave, Content, Settled, CandidateDone
<1> QED
  BY <1>1, <1>3, <1>4, <1>5, <1>6, <1>7, <1>8, <1>9, <1>10, <1>11, <1>12 DEF
     IInv

\* A save of the stored projection reads and changes nothing.
LEMMA SaveUnchangedStep ==
    ASSUME IInv, TypeOK', NEW s \in Stores, SaveUnchanged(s)
    PROVE  IInv'
<1>1. TypeOK /\ TypeOK'
  BY DEF IInv
<1>2. lock' \in {s, NoStore} /\ \A t \in Stores : t # s => pc[t] = "closed"
  BY <1>1 DEF IInv, LockExclusive, SaveUnchanged
<1> QED
  BY <1>1, <1>2 DEF IInv, LockExclusive, DiskCoherent, OneAhead, AckKnowsDisk,
     SaveIsLegal, WritesNewFile, CandidateStaged, NamesNest, PriorStaged,
     RecoveryKept, SaveUnchanged, Content, CandidateDone, Settled

\* A refused save reads at most.
LEMMA RefuseSaveStep ==
    ASSUME IInv, TypeOK', NEW s \in Stores, RefuseSave(s)
    PROVE  IInv'
<1>1. TypeOK /\ TypeOK'
  BY DEF IInv
<1>2. lock' \in {s, NoStore} /\ \A t \in Stores : t # s => pc[t] = "closed"
  BY <1>1 DEF IInv, LockExclusive, RefuseSave
<1> QED
  BY <1>1, <1>2 DEF IInv, LockExclusive, DiskCoherent, OneAhead, AckKnowsDisk,
     SaveIsLegal, WritesNewFile, CandidateStaged, NamesNest, PriorStaged,
     RecoveryKept, RefuseSave, MaybeReread, Content, CandidateDone, Settled

\* createArtifact takes a file nobody refers to.
LEMMA CreateArtifactStep ==
    ASSUME IInv, TypeOK', NEW s \in Stores, CreateArtifact(s)
    PROVE  IInv'
<1>1. TypeOK /\ TypeOK'
  BY DEF IInv
<1>2. lock' \in {s, NoStore} /\ \A t \in Stores : t # s => pc[t] = "closed"
  BY <1>1 DEF IInv, LockExclusive, CreateArtifact
<1>3. LockExclusive'
  BY <1>1, <1>2 DEF IInv, LockExclusive, CreateArtifact, Fresh, InUse, Content
<1>4. DiskCoherent'
  BY <1>1, <1>2 DEF IInv, DiskCoherent, CreateArtifact, Link, Fresh, InUse,
     Content
<1>5. OneAhead'
  BY <1>1, <1>2 DEF IInv, OneAhead, CreateArtifact, Link, Fresh, InUse,
     Content
<1>6. AckKnowsDisk'
  BY <1>1, <1>2 DEF IInv, AckKnowsDisk, CreateArtifact, Link, Fresh, InUse,
     Content, Settled
<1>7. SaveIsLegal'
  BY <1>1, <1>2 DEF IInv, SaveIsLegal, CreateArtifact, Fresh, InUse, Content
<1>8. WritesNewFile'
  BY <1>1, <1>2 DEF IInv, WritesNewFile, TypeOK, CreateArtifact, Link, Fresh,
     InUse, Content
<1>9. CandidateStaged'
  BY <1>1, <1>2 DEF IInv, CandidateStaged, TypeOK, CreateArtifact, Fresh,
     InUse, Content, CandidateDone
<1>10. NamesNest'
  BY <1>1, <1>2 DEF IInv, NamesNest, CreateArtifact, Link, Fresh, InUse,
     Content
<1>11. PriorStaged'
  BY <1>1, <1>2 DEF IInv, PriorStaged, CreateArtifact, Fresh, InUse, Content
<1>12. RecoveryKept'
  BY <1>1, <1>2 DEF IInv, RecoveryKept, NamesNest, WritesNewFile,
     CandidateStaged, CreateArtifact, Link, Fresh, InUse, Content, Settled,
     CandidateDone
<1> QED
  BY <1>1, <1>3, <1>4, <1>5, <1>6, <1>7, <1>8, <1>9, <1>10, <1>11, <1>12 DEF
     IInv

\* writeArtifact changes the data of the save's own file only.
LEMMA WriteArtifactStep ==
    ASSUME IInv, TypeOK', NEW s \in Stores, WriteArtifact(s)
    PROVE  IInv'
<1>1. TypeOK /\ TypeOK'
  BY DEF IInv
<1>2. lock' \in {s, NoStore} /\ \A t \in Stores : t # s => pc[t] = "closed"
  BY <1>1 DEF IInv, LockExclusive, WriteArtifact
<1>3. LockExclusive'
  BY <1>1, <1>2 DEF IInv, LockExclusive, WriteArtifact, Content
<1>4. DiskCoherent'
  BY <1>1, <1>2 DEF IInv, DiskCoherent, WritesNewFile, WriteArtifact, Content
<1>5. OneAhead'
  BY <1>1, <1>2 DEF IInv, OneAhead, AckKnowsDisk, SaveIsLegal, WriteArtifact,
     Image, Content, Settled
<1>6. AckKnowsDisk'
  BY <1>1, <1>2 DEF IInv, AckKnowsDisk, WritesNewFile, WriteArtifact, Content,
     Settled
<1>7. SaveIsLegal'
  BY <1>1, <1>2 DEF IInv, SaveIsLegal, WriteArtifact, Content
<1>8. WritesNewFile'
  BY <1>1, <1>2 DEF IInv, WritesNewFile, WriteArtifact, Content
<1>9. CandidateStaged'
  BY <1>1, <1>2 DEF IInv, CandidateStaged, WriteArtifact, Content,
     CandidateDone
<1>10. NamesNest'
  BY <1>1, <1>2 DEF IInv, NamesNest, WriteArtifact, Content
<1>11. PriorStaged'
  BY <1>1, <1>2 DEF IInv, PriorStaged, WriteArtifact, Content
<1>12. RecoveryKept'
  BY <1>1, <1>2 DEF IInv, RecoveryKept, AckKnowsDisk, SaveIsLegal,
     WritesNewFile, CandidateStaged, WriteArtifact, Content, Settled,
     CandidateDone
<1> QED
  BY <1>1, <1>3, <1>4, <1>5, <1>6, <1>7, <1>8, <1>9, <1>10, <1>11, <1>12 DEF
     IInv

\* syncArtifact makes the artifact durable; with the prior copy the recovery
\* pair is complete.
LEMMA SyncArtifactStep ==
    ASSUME IInv, TypeOK', NEW s \in Stores, SyncArtifact(s)
    PROVE  IInv'
<1>1. TypeOK /\ TypeOK'
  BY DEF IInv
<1>2. lock' \in {s, NoStore} /\ \A t \in Stores : t # s => pc[t] = "closed"
  BY <1>1 DEF IInv, LockExclusive, SyncArtifact
<1>3. LockExclusive'
  BY <1>1, <1>2 DEF IInv, LockExclusive, SyncArtifact, SyncFile, StagesPrior,
     Image, Content
<1>4. DiskCoherent'
  BY <1>1, <1>2 DEF IInv, DiskCoherent, SyncArtifact, SyncDirectory, SyncFile,
     StagesPrior, Image, Content
<1>5. OneAhead'
  BY <1>1, <1>2 DEF IInv, OneAhead, SyncArtifact, SyncDirectory, SyncFile,
     StagesPrior, Image, Content
<1>6. AckKnowsDisk'
  BY <1>1, <1>2 DEF IInv, AckKnowsDisk, DiskCoherent, SyncArtifact,
     SyncDirectory, SyncFile, StagesPrior, Image, Content, Settled
<1>7. SaveIsLegal'
  BY <1>1, <1>2 DEF IInv, SaveIsLegal, TypeOK, SyncArtifact, SyncFile,
     StagesPrior, Image, Content
<1>8. WritesNewFile'
  BY <1>1, <1>2 DEF IInv, WritesNewFile, TypeOK, SyncArtifact, SyncFile,
     StagesPrior, Image, Content
<1>9. CandidateStaged'
  BY <1>1, <1>2 DEF IInv, CandidateStaged, TypeOK, WritesNewFile,
     SyncArtifact, SyncFile, StagesPrior, Image, Content, CandidateDone
<1>10. NamesNest'
  BY <1>1, <1>2 DEF IInv, NamesNest, SyncArtifact, SyncDirectory, SyncFile,
     StagesPrior, Image, Content
<1>11. PriorStaged'
  BY <1>1, <1>2 DEF IInv, PriorStaged, TypeOK, WritesNewFile, CandidateStaged,
     SyncArtifact, SyncDirectory, SyncFile, StagesPrior, Image, Content,
     CandidateDone
<1>12. RecoveryKept'
  BY <1>1, <1>2 DEF IInv, RecoveryKept, NamesNest, DiskCoherent,
     WritesNewFile, CandidateStaged, SyncArtifact, SyncDirectory, SyncFile,
     StagesPrior, Image, Content, Settled, CandidateDone
<1> QED
  BY <1>1, <1>3, <1>4, <1>5, <1>6, <1>7, <1>8, <1>9, <1>10, <1>11, <1>12 DEF
     IInv

\* The last check before publication reads the primary again.
LEMMA RecheckStep ==
    ASSUME IInv, TypeOK', NEW s \in Stores, Recheck(s)
    PROVE  IInv'
<1>1. TypeOK /\ TypeOK'
  BY DEF IInv
<1>2. lock' \in {s, NoStore} /\ \A t \in Stores : t # s => pc[t] = "closed"
  BY <1>1 DEF IInv, LockExclusive, Recheck
<1> QED
  BY <1>1, <1>2 DEF IInv, LockExclusive, DiskCoherent, OneAhead, AckKnowsDisk,
     SaveIsLegal, WritesNewFile, CandidateStaged, NamesNest, PriorStaged,
     RecoveryKept, Recheck, Content, CandidateDone, Settled

\* publish compares the file identity and changes nothing.
LEMMA AdmitStep ==
    ASSUME IInv, TypeOK', NEW s \in Stores, Admit(s)
    PROVE  IInv'
<1>1. TypeOK /\ TypeOK'
  BY DEF IInv
<1>2. lock' \in {s, NoStore} /\ \A t \in Stores : t # s => pc[t] = "closed"
  BY <1>1 DEF IInv, LockExclusive, Admit
<1> QED
  BY <1>1, <1>2 DEF IInv, LockExclusive, DiskCoherent, OneAhead, AckKnowsDisk,
     SaveIsLegal, WritesNewFile, CandidateStaged, NamesNest, PriorStaged,
     RecoveryKept, Admit, Content, CandidateDone, Settled

\* The rename shows a complete, synchronised successor, with a copy of the
\* old checkpoint beside it.
LEMMA RenameSucceedsStep ==
    ASSUME IInv, TypeOK', NEW s \in Stores, RenameSucceeds(s)
    PROVE  IInv'
<1>1. TypeOK /\ TypeOK'
  BY DEF IInv
<1>2. lock' \in {s, NoStore} /\ \A t \in Stores : t # s => pc[t] = "closed"
  BY <1>1 DEF IInv, LockExclusive, RenameSucceeds
<1>3. LockExclusive'
  BY <1>1, <1>2 DEF IInv, LockExclusive, RenameSucceeds, MayRename, Content
<1>4. DiskCoherent'
  BY <1>1, <1>2 DEF IInv, DiskCoherent, AckKnowsDisk, SaveIsLegal,
     CandidateStaged, RenameSucceeds, RenameToPrimary, MayRename, Content,
     CandidateDone, Settled
<1>5. OneAhead'
  BY <1>1, <1>2 DEF IInv, OneAhead, TypeOK, AckKnowsDisk, SaveIsLegal,
     CandidateStaged, RenameSucceeds, RenameToPrimary, MayRename, Content,
     CandidateDone, Settled
<1>6. AckKnowsDisk'
  BY <1>1, <1>2 DEF IInv, AckKnowsDisk, TypeOK, RenameSucceeds, MayRename,
     Content
<1>7. SaveIsLegal'
  BY <1>1, <1>2 DEF IInv, SaveIsLegal, TypeOK, DiskCoherent, AckKnowsDisk,
     CandidateStaged, WritesNewFile, RenameSucceeds, RenameToPrimary,
     MayRename, Content, CandidateDone, Settled
<1>8. WritesNewFile'
  BY <1>1, <1>2 DEF IInv, WritesNewFile, RenameSucceeds, MayRename, Content
<1>9. CandidateStaged'
  BY <1>1, <1>2 DEF IInv, CandidateStaged, RenameSucceeds, MayRename, Content,
     CandidateDone
<1>10. NamesNest'
  BY <1>1, <1>2 DEF IInv, NamesNest, RenameSucceeds, RenameToPrimary,
     MayRename, Content
<1>11. PriorStaged'
  BY <1>1, <1>2 DEF IInv, PriorStaged, RenameSucceeds, RenameToPrimary,
     MayRename, Content
<1>12. RecoveryKept'
  BY <1>1, <1>2 DEF IInv, RecoveryKept, AckKnowsDisk, SaveIsLegal,
     PriorStaged, WritesNewFile, CandidateStaged, RenameSucceeds,
     RenameToPrimary, MayRename, Content, CandidateDone
<1> QED
  BY <1>1, <1>3, <1>4, <1>5, <1>6, <1>7, <1>8, <1>9, <1>10, <1>11, <1>12 DEF
     IInv

\* An uncertain rename shows such a successor or nothing, and the store stops
\* trusting itself.
LEMMA RenameUncertainStep ==
    ASSUME IInv, TypeOK', NEW s \in Stores, RenameUncertain(s)
    PROVE  IInv'
<1>1. TypeOK /\ TypeOK'
  BY DEF IInv
<1>2. lock' \in {s, NoStore} /\ \A t \in Stores : t # s => pc[t] = "closed"
  BY <1>1 DEF IInv, LockExclusive, RenameUncertain
<1>3. LockExclusive'
  BY <1>1, <1>2 DEF IInv, LockExclusive, RenameUncertain, EndSave, Latch,
     Content
<1>4. DiskCoherent'
  BY <1>1, <1>2 DEF IInv, DiskCoherent, AckKnowsDisk, SaveIsLegal,
     CandidateStaged, RenameUncertain, RenameToPrimary, EndSave, Latch,
     Content, CandidateDone, Settled
<1>5. OneAhead'
  BY <1>1, <1>2 DEF IInv, OneAhead, TypeOK, AckKnowsDisk, SaveIsLegal,
     CandidateStaged, RenameUncertain, RenameToPrimary, EndSave, Latch,
     Content, CandidateDone, Settled
<1>6. AckKnowsDisk'
  BY <1>1, <1>2 DEF IInv, AckKnowsDisk, TypeOK, RenameUncertain, EndSave,
     Latch, Content
<1>7. SaveIsLegal'
  BY <1>1, <1>2 DEF IInv, SaveIsLegal, TypeOK, RenameUncertain, EndSave,
     Latch, Content
<1>8. WritesNewFile'
  BY <1>1, <1>2 DEF IInv, WritesNewFile, RenameUncertain, EndSave, Latch,
     Content
<1>9. CandidateStaged'
  BY <1>1, <1>2 DEF IInv, CandidateStaged, TypeOK, RenameUncertain, EndSave,
     Latch, Content, CandidateDone
<1>10. NamesNest'
  BY <1>1, <1>2 DEF IInv, NamesNest, RenameUncertain, RenameToPrimary,
     EndSave, Latch, Content
<1>11. PriorStaged'
  BY <1>1, <1>2 DEF IInv, PriorStaged, TypeOK, RenameUncertain, EndSave,
     Latch, Content
<1>12. RecoveryKept'
  BY <1>1, <1>2 DEF IInv, RecoveryKept, AckKnowsDisk, SaveIsLegal,
     PriorStaged, WritesNewFile, CandidateStaged, RenameUncertain,
     RenameToPrimary, EndSave, Latch, Content, CandidateDone
<1> QED
  BY <1>1, <1>3, <1>4, <1>5, <1>6, <1>7, <1>8, <1>9, <1>10, <1>11, <1>12 DEF
     IInv

\* Clean-up of a failed save removes names of its own files only.
LEMMA AbandonStep ==
    ASSUME IInv, TypeOK', NEW s \in Stores, Abandon(s)
    PROVE  IInv'
<1>1. TypeOK /\ TypeOK'
  BY DEF IInv
<1>2. lock' \in {s, NoStore} /\ \A t \in Stores : t # s => pc[t] = "closed"
  BY <1>1 DEF IInv, LockExclusive, Abandon, FailsDefinitely
<1>3. LockExclusive'
  BY <1>1, <1>2 DEF IInv, LockExclusive, Abandon, EndSave, MaybeReread, Held,
     FailsDefinitely, Content
<1>4. DiskCoherent'
  BY <1>1, <1>2 DEF IInv, DiskCoherent, Abandon, Unlink, EndSave, MaybeReread,
     Held, FailsDefinitely, Content
<1>5. OneAhead'
  BY <1>1, <1>2 DEF IInv, OneAhead, Abandon, Unlink, EndSave, MaybeReread,
     Held, FailsDefinitely, Content
<1>6. AckKnowsDisk'
  BY <1>1, <1>2 DEF IInv, AckKnowsDisk, Abandon, Unlink, EndSave, MaybeReread,
     Held, FailsDefinitely, Content, Settled
<1>7. SaveIsLegal'
  BY <1>1, <1>2 DEF IInv, SaveIsLegal, TypeOK, Abandon, EndSave, MaybeReread,
     Held, FailsDefinitely, Content
<1>8. WritesNewFile'
  BY <1>1, <1>2 DEF IInv, WritesNewFile, TypeOK, Abandon, EndSave,
     MaybeReread, Held, FailsDefinitely, Content
<1>9. CandidateStaged'
  BY <1>1, <1>2 DEF IInv, CandidateStaged, TypeOK, Abandon, EndSave,
     MaybeReread, Held, FailsDefinitely, Content, CandidateDone
<1>10. NamesNest'
  BY <1>1, <1>2 DEF IInv, NamesNest, Abandon, Unlink, EndSave, MaybeReread,
     Held, FailsDefinitely, Content
<1>11. PriorStaged'
  BY <1>1, <1>2 DEF IInv, PriorStaged, TypeOK, Abandon, EndSave, MaybeReread,
     Held, FailsDefinitely, Content
<1>12. RecoveryKept'
  BY <1>1, <1>2 DEF IInv, RecoveryKept, AckKnowsDisk, SaveIsLegal,
     WritesNewFile, CandidateStaged, Abandon, Unlink, EndSave, MaybeReread,
     Held, FailsDefinitely, Content, Settled, CandidateDone
<1> QED
  BY <1>1, <1>3, <1>4, <1>5, <1>6, <1>7, <1>8, <1>9, <1>10, <1>11, <1>12 DEF
     IInv

\* After the directory fsync the new checkpoint is the only possible one, and
\* confirmed.
LEMMA SyncPublicationStep ==
    ASSUME IInv, TypeOK', NEW s \in Stores, SyncPublication(s)
    PROVE  IInv'
<1>1. TypeOK /\ TypeOK'
  BY DEF IInv
<1>2. lock' \in {s, NoStore} /\ \A t \in Stores : t # s => pc[t] = "closed"
  BY <1>1 DEF IInv, LockExclusive, SyncPublication
<1>3. LockExclusive'
  BY <1>1, <1>2 DEF IInv, LockExclusive, SyncPublication, Content
<1>4. DiskCoherent'
  BY <1>1, <1>2 DEF IInv, DiskCoherent, SyncPublication, SyncDirectory,
     Content
<1>5. OneAhead'
  BY <1>1, <1>2 DEF IInv, OneAhead, SaveIsLegal, SyncPublication,
     SyncDirectory, Content, Settled
<1>6. AckKnowsDisk'
  BY <1>1, <1>2 DEF IInv, AckKnowsDisk, TypeOK, DiskCoherent, SaveIsLegal,
     WritesNewFile, SyncPublication, SyncDirectory, Content, Settled
<1>7. SaveIsLegal'
  BY <1>1, <1>2 DEF IInv, SaveIsLegal, TypeOK, SyncPublication, Content
<1>8. WritesNewFile'
  BY <1>1, <1>2 DEF IInv, WritesNewFile, SyncPublication, Content
<1>9. CandidateStaged'
  BY <1>1, <1>2 DEF IInv, CandidateStaged, SyncPublication, Content,
     CandidateDone
<1>10. NamesNest'
  BY <1>1, <1>2 DEF IInv, NamesNest, SyncPublication, SyncDirectory, Content
<1>11. PriorStaged'
  BY <1>1, <1>2 DEF IInv, PriorStaged, TypeOK, SyncPublication, Content
<1>12. RecoveryKept'
  BY <1>1, <1>2 DEF IInv, RecoveryKept, SaveIsLegal, WritesNewFile,
     CandidateStaged, SyncPublication, SyncDirectory, Content, Settled,
     CandidateDone
<1> QED
  BY <1>1, <1>3, <1>4, <1>5, <1>6, <1>7, <1>8, <1>9, <1>10, <1>11, <1>12 DEF
     IInv

\* A failed directory fsync latches the fault and changes nothing on disk.
LEMMA SyncPublicationFailsStep ==
    ASSUME IInv, TypeOK', NEW s \in Stores, SyncPublicationFails(s)
    PROVE  IInv'
<1>1. TypeOK /\ TypeOK'
  BY DEF IInv
<1>2. lock' \in {s, NoStore} /\ \A t \in Stores : t # s => pc[t] = "closed"
  BY <1>1 DEF IInv, LockExclusive, SyncPublicationFails
<1> QED
  BY <1>1, <1>2 DEF IInv, LockExclusive, DiskCoherent, OneAhead, AckKnowsDisk,
     SaveIsLegal, WritesNewFile, CandidateStaged, NamesNest, PriorStaged,
     RecoveryKept, TypeOK, SyncPublicationFails, EndSave, Latch, Content,
     CandidateDone, Settled

\* Clean-up after the acknowledgment no longer needs the prior copy.
LEMMA CleanupStep ==
    ASSUME IInv, TypeOK', NEW s \in Stores, Cleanup(s)
    PROVE  IInv'
<1>1. TypeOK /\ TypeOK'
  BY DEF IInv
<1>2. lock' \in {s, NoStore} /\ \A t \in Stores : t # s => pc[t] = "closed"
  BY <1>1 DEF IInv, LockExclusive, Cleanup
<1>3. LockExclusive'
  BY <1>1, <1>2 DEF IInv, LockExclusive, Cleanup, EndSave, Content
<1>4. DiskCoherent'
  BY <1>1, <1>2 DEF IInv, DiskCoherent, Cleanup, Unlink, EndSave, Content
<1>5. OneAhead'
  BY <1>1, <1>2 DEF IInv, OneAhead, Cleanup, Unlink, EndSave, Content
<1>6. AckKnowsDisk'
  BY <1>1, <1>2 DEF IInv, AckKnowsDisk, Cleanup, Unlink, EndSave, Content,
     Settled
<1>7. SaveIsLegal'
  BY <1>1, <1>2 DEF IInv, SaveIsLegal, Cleanup, EndSave, Content
<1>8. WritesNewFile'
  BY <1>1, <1>2 DEF IInv, WritesNewFile, Cleanup, EndSave, Content
<1>9. CandidateStaged'
  BY <1>1, <1>2 DEF IInv, CandidateStaged, Cleanup, EndSave, Content,
     CandidateDone
<1>10. NamesNest'
  BY <1>1, <1>2 DEF IInv, NamesNest, Cleanup, Unlink, EndSave, Content
<1>11. PriorStaged'
  BY <1>1, <1>2 DEF IInv, PriorStaged, Cleanup, EndSave, Content
<1>12. RecoveryKept'
  BY <1>1, <1>2 DEF IInv, RecoveryKept, AckKnowsDisk, SaveIsLegal,
     WritesNewFile, CandidateStaged, Cleanup, Unlink, EndSave, Content,
     Settled, CandidateDone
<1> QED
  BY <1>1, <1>3, <1>4, <1>5, <1>6, <1>7, <1>8, <1>9, <1>10, <1>11, <1>12 DEF
     IInv

\* close gives the lease up.
LEMMA CloseStep ==
    ASSUME IInv, TypeOK', NEW s \in Stores, Close(s)
    PROVE  IInv'
<1>1. TypeOK /\ TypeOK'
  BY DEF IInv
<1>2. lock' \in {s, NoStore} /\ \A t \in Stores : t # s => pc[t] = "closed"
  BY <1>1 DEF IInv, LockExclusive, Close, Release
<1> QED
  BY <1>1, <1>2 DEF IInv, LockExclusive, DiskCoherent, OneAhead, AckKnowsDisk,
     SaveIsLegal, WritesNewFile, CandidateStaged, NamesNest, PriorStaged,
     RecoveryKept, TypeOK, Close, Release, Content, CandidateDone, Settled

\* A process crash loses the store's memory and keeps every file.
LEMMA CrashStep ==
    ASSUME IInv, TypeOK', NEW s \in Stores, Crash(s)
    PROVE  IInv'
<1>1. TypeOK /\ TypeOK'
  BY DEF IInv
<1>2. LockExclusive'
  BY <1>1 DEF IInv, LockExclusive, Crash, Forget, Reset, Content
<1>3. DiskCoherent'
  BY <1>1 DEF IInv, DiskCoherent, Crash, Reset, Content
<1>4. OneAhead'
  BY <1>1 DEF IInv, OneAhead, Crash, Reset, Content
<1>5. AckKnowsDisk'
  BY <1>1 DEF IInv, AckKnowsDisk, Crash, Forget, Reset, Content, Settled
<1>6. SaveIsLegal'
  BY <1>1 DEF IInv, SaveIsLegal, Crash, Forget, Reset, Content
<1>7. WritesNewFile'
  BY <1>1 DEF IInv, WritesNewFile, Crash, Forget, Reset, Content
<1>8. CandidateStaged'
  BY <1>1 DEF IInv, CandidateStaged, Crash, Forget, Reset, Content,
     CandidateDone
<1>9. NamesNest'
  BY <1>1 DEF IInv, NamesNest, Crash, Forget, Reset, Content
<1>10. PriorStaged'
  BY <1>1 DEF IInv, PriorStaged, Crash, Forget, Reset, Content
<1>11. RecoveryKept'
  BY <1>1 DEF IInv, RecoveryKept, WritesNewFile, CandidateStaged, Crash,
     Forget, Reset, Content, Settled, CandidateDone
<1> QED
  BY <1>1, <1>2, <1>3, <1>4, <1>5, <1>6, <1>7, <1>8, <1>9, <1>10, <1>11 DEF
     IInv

-----------------------------------------------------------------------------
(* The invariant.                                                          *)

\* The empty directory satisfies the invariant.
LEMMA InitInvariant == Init => IInv
<1> SUFFICES ASSUME Init PROVE IInv
  OBVIOUS
<1>1. TypeOK
  <2>1. art = [s \in Stores |-> [k \in Kinds |-> NoFile]] /\ kind = [s \in Stores |-> "candidate"]
    BY DEF Init
  <2>2. art \in [Stores -> Artifacts] /\ kind \in [Stores -> Kinds]
    BY <2>1
  <2>3. foreign \in 0..MaxForeign
    BY ForeignAssumption DEF Init
  <2>4. pc \in [Stores -> Phases]
    BY DEF Init
  <2> QED
    BY <2>2, <2>3, <2>4 DEF Init, TypeOK
<1>2. Content(primary) = Absent /\ Settled
  BY DEF Init, Content, Settled
<1>3. LockExclusive
  BY DEF Init, LockExclusive
<1>4. DiskCoherent
  BY <1>2 DEF Init, DiskCoherent, Content
<1>5. OneAhead
  BY <1>2 DEF Init, OneAhead
<1>6. AckKnowsDisk /\ SaveIsLegal /\ WritesNewFile /\ CandidateStaged /\ PriorStaged
  BY DEF Init, AckKnowsDisk, SaveIsLegal, WritesNewFile, CandidateStaged,
     CandidateDone, PriorStaged
<1>7. NamesNest /\ RecoveryKept
  BY DEF Init, NamesNest, RecoveryKept
<1> QED
  BY <1>1, <1>3, <1>4, <1>5, <1>6, <1>7 DEF IInv

\* Every action of a store keeps the types.
LEMMA TypeStep ==
    ASSUME IInv, NEW s \in Stores, Work(s) \/ Call(s) \/ Crash(s)
    PROVE  TypeOK'
<1>0. TypeOK
  BY DEF IInv
<1>1. CASE Acquire(s)
  BY <1>0, <1>1 DEF TypeOK, Acquire, Fresh, InUse, LeaseFree
<1>2. CASE ProbeSucceeds(s)
  BY <1>0, <1>2 DEF TypeOK, ProbeSucceeds
<1>3. CASE ProbeFails(s)
  BY <1>0, <1>3 DEF TypeOK, ProbeFails, Release
<1>4. CASE ReadAtOpen(s)
  BY <1>0, <1>4 DEF TypeOK, ReadAtOpen
<1>5. CASE Reconcile(s)
  BY <1>0, <1>5 DEF TypeOK, Reconcile, SyncDirectory, SyncFile, IInv,
     DiskCoherent, SaveIsLegal, Content
<1>6. CASE OpenFails(s)
  BY <1>0, <1>6 DEF TypeOK, OpenFails, Release
<1>7. CASE BeginSave(s)
  BY <1>0, <1>7 DEF TypeOK, BeginSave
<1>8. CASE SaveUnchanged(s)
  BY <1>0, <1>8 DEF TypeOK, SaveUnchanged
<1>9. CASE RefuseSave(s)
  BY <1>0, <1>9 DEF TypeOK, RefuseSave, MaybeReread
<1>10. CASE CreateArtifact(s)
  BY <1>0, <1>10 DEF TypeOK, CreateArtifact, Link, Fresh, InUse
<1>11. CASE WriteArtifact(s)
  BY <1>0, <1>11 DEF TypeOK, WriteArtifact, Image, IInv, DiskCoherent,
     SaveIsLegal
<1>12. CASE SyncArtifact(s)
  BY <1>0, <1>12 DEF TypeOK, SyncArtifact, SyncDirectory, SyncFile,
     StagesPrior, Image
<1>13. CASE Recheck(s)
  BY <1>0, <1>13 DEF TypeOK, Recheck
<1>14. CASE Admit(s)
  BY <1>0, <1>14 DEF TypeOK, Admit
<1>15. CASE RenameSucceeds(s)
  BY <1>0, <1>15 DEF TypeOK, RenameSucceeds, RenameToPrimary, MayRename
<1>16. CASE RenameUncertain(s)
  BY <1>0, <1>16 DEF TypeOK, RenameUncertain, RenameToPrimary, EndSave, Latch
<1>17. CASE Abandon(s)
  BY <1>0, <1>17 DEF TypeOK, Abandon, Unlink, EndSave, MaybeReread, Held,
     FailsDefinitely
<1>18. CASE SyncPublication(s)
  BY <1>0, <1>18 DEF TypeOK, SyncPublication, SyncDirectory
<1>19. CASE SyncPublicationFails(s)
  BY <1>0, <1>19 DEF TypeOK, SyncPublicationFails, EndSave, Latch
<1>20. CASE Cleanup(s)
  BY <1>0, <1>20 DEF TypeOK, Cleanup, Unlink, EndSave
<1>21. CASE Close(s)
  BY <1>0, <1>21 DEF TypeOK, Close, Release
<1>22. CASE Crash(s)
  BY <1>0, <1>22 DEF TypeOK, Crash, Forget, Reset
<1> QED
  BY <1>1, <1>2, <1>3, <1>4, <1>5, <1>6, <1>7, <1>8, <1>9, <1>10, <1>11,
     <1>12, <1>13, <1>14, <1>15, <1>16, <1>17, <1>18, <1>19, <1>20, <1>21,
     <1>22 DEF Work, Call

\* Whatever directory a power cut leaves satisfies the invariant: its primary
\* is one the disk could show, so complete and not older than the confirmed
\* one, and the recovery copy is among the names that were surely on disk.
LEMMA PowerCutStep == ASSUME IInv, PowerCut PROVE IInv'
<1>0. TypeOK
  BY DEF IInv
<1>1. PICK f \in diskPrimary, kept \in SUBSET (mayLink \ mustLink) :
        LET links == (mustLink \cup kept) \ {f}
            found == (links \cup {f}) \ {NoFile}
        IN  /\ primary' = f
            /\ staged' = links
            /\ diskPrimary' = {f}
            /\ mustLink' = links
            /\ mayLink' = links
            /\ \E lost \in SUBSET (found \ safe) :
                  bytes' = [g \in Files |-> IF g \in found \ lost THEN bytes[g] ELSE Torn]
            /\ safe' = found
  BY DEF PowerCut
<1> DEFINE links == (mustLink \cup kept) \ {f}
           found == (links \cup {f}) \ {NoFile}
<1>2. /\ primary' = f /\ staged' = links /\ diskPrimary' = {f}
      /\ mustLink' = links /\ mayLink' = links /\ safe' = found
  BY <1>1
<1>3. PICK lost \in SUBSET (found \ safe) :
        bytes' = [g \in Files |-> IF g \in found \ lost THEN bytes[g] ELSE Torn]
  BY <1>1
<1>4. /\ links \subseteq Files /\ mustLink \ {f} \subseteq links
      /\ f \in Files \cup {NoFile} /\ found \subseteq Files /\ mustLink \ {NoFile} \subseteq found
  BY <1>0 DEF TypeOK
<1> HIDE DEF links, found
<1>5. \A g \in found \cap safe : bytes'[g] = bytes[g]
  BY <1>3, <1>4
<1>6. /\ lock' = NoStore
      /\ pc' = [s \in Stores |-> "closed"]
      /\ faulted' = [s \in Stores |-> FALSE]
      /\ slots' = [s \in Stores |-> {}]
      /\ confirmed' = confirmed
  BY <1>0 DEF PowerCut, Forget, Reset, TypeOK
<1>7. TypeOK'
  <2>1. bytes' \in [Files -> Wire \cup {Torn}]
    BY <1>0, <1>3 DEF TypeOK
  <2>2. /\ ack' \in [Stores -> Wire \cup {Absent}]
        /\ observed' \in [Stores -> Files \cup {NoFile}]
        /\ kind' \in [Stores -> Kinds]
        /\ want' \in [Stores -> Wire \cup {Absent}]
        /\ art' \in [Stores -> Artifacts]
        /\ issued' \in [Stores -> SUBSET (Wire \cup {Absent})]
    BY <1>0 DEF PowerCut, Forget, Reset, TypeOK
  <2>3. foreign' = foreign /\ raced' = raced
    BY DEF PowerCut
  <2> QED
    BY <1>0, <1>2, <1>4, <1>6, <2>1, <2>2, <2>3 DEF TypeOK
<1>8. /\ f # NoFile => f \in found \cap safe /\ bytes[f] \in Wire
      /\ Content(f) \in {confirmed, Content(primary)}
      /\ OneAhead
  <2>1. f # NoFile => f \in found
    BY <1>4 DEF found
  <2> QED
    BY <2>1 DEF IInv, DiskCoherent
<1>9. Content(primary)' = Content(f) /\ (f # NoFile => bytes'[f] = bytes[f])
  BY <1>2, <1>5, <1>8 DEF Content
<1>10. LockExclusive'
  BY <1>6, <1>0 DEF LockExclusive
<1>11. DiskCoherent'
  <2>1. \A g \in diskPrimary' : g = f
    BY <1>2
  <2>2. f # NoFile => f \in safe' /\ bytes'[f] \in Wire
    BY <1>2, <1>8, <1>9
  <2> QED
    BY <1>2, <2>1, <2>2 DEF DiskCoherent, Content
<1>12. OneAhead'
  BY <1>6, <1>8, <1>9 DEF OneAhead, Successor, NextSequence, History
<1>13. AckKnowsDisk' /\ SaveIsLegal' /\ WritesNewFile' /\ CandidateStaged' /\ PriorStaged'
  BY <1>6 DEF AckKnowsDisk, SaveIsLegal, WritesNewFile, CandidateStaged,
     CandidateDone, PriorStaged
<1>14. NamesNest'
  BY <1>2, <1>6 DEF NamesNest
<1>15. RecoveryKept'
  <2>1. CASE confirmed = Absent
    BY <2>1, <1>6 DEF RecoveryKept
  <2>2. CASE Content(f) = confirmed
    <3>1. \A g \in diskPrimary' : Content(g)' = confirmed'
      BY <2>2, <1>2, <1>6, <1>9 DEF Content
    <3> QED
      BY <3>1 DEF RecoveryKept, Settled
  <2>3. CASE confirmed # Absent /\ Content(f) # confirmed
    <3>1. PICK g \in mustLink \cap safe : bytes[g] = confirmed
      BY <2>3 DEF IInv, RecoveryKept, Settled
    <3>2. g # NoFile /\ g \in Files
      BY <1>0 DEF TypeOK
    <3>3. g # f
      BY <2>3, <3>1, <3>2 DEF Content
    <3>4. g \in mustLink' \cap safe' /\ bytes'[g] = confirmed
      BY <1>2, <1>4, <1>5, <3>1, <3>2, <3>3
    <3>5. \A s \in Stores : pc'[s] # "probing"
      BY <1>6
    <3> QED
      BY <1>6, <3>4, <3>5 DEF RecoveryKept
  <2> QED
    BY <2>1, <2>2, <2>3
<1> QED
  BY <1>7, <1>10, <1>11, <1>12, <1>13, <1>14, <1>15 DEF IInv

\* A step that changes no variable keeps the invariant.
LEMMA Stuttering == ASSUME IInv, UNCHANGED vars PROVE IInv'
<1>1. UNCHANGED <<dirVars, fileVars, lock, pc, storeVars, saveVars, confirmed, foreign, raced>>
  BY DEF vars
<1>2. TypeOK'
  BY <1>1 DEF IInv, TypeOK
<1>3. LockExclusive' /\ DiskCoherent' /\ OneAhead' /\ NamesNest'
  BY <1>1 DEF IInv, LockExclusive, DiskCoherent, OneAhead, NamesNest, Content
<1>4. AckKnowsDisk' /\ SaveIsLegal' /\ RecoveryKept'
  BY <1>1 DEF IInv, AckKnowsDisk, SaveIsLegal, RecoveryKept, Settled, Content
<1>5. WritesNewFile' /\ CandidateStaged' /\ PriorStaged'
  BY <1>1 DEF IInv, WritesNewFile, CandidateStaged, CandidateDone, PriorStaged
<1> QED
  BY <1>2, <1>3, <1>4, <1>5 DEF IInv

\* Every step keeps the invariant.
THEOREM InvariantStep == IInv /\ [Next]_vars => IInv'
<1> SUFFICES ASSUME IInv, [Next]_vars PROVE IInv'
  OBVIOUS
<1>1. CASE PowerCut
  BY <1>1, PowerCutStep
<1>2. CASE UNCHANGED vars
  BY <1>2, Stuttering
<1>3. ASSUME NEW s \in Stores, Work(s) \/ Call(s) \/ Crash(s)
      PROVE  IInv'
  <2>1. TypeOK'
    BY <1>3, TypeStep
  <2>2. CASE Work(s)
    BY <2>1, <2>2, ProbeSucceedsStep, ProbeFailsStep, ReadAtOpenStep,
       ReconcileStep, OpenFailsStep,
       CreateArtifactStep, WriteArtifactStep, SyncArtifactStep, RecheckStep, AdmitStep,
       RenameSucceedsStep, RenameUncertainStep, AbandonStep, SyncPublicationStep,
       SyncPublicationFailsStep, CleanupStep
       DEF Work
  <2>3. CASE Call(s)
    BY <2>1, <2>3, AcquireStep, BeginSaveStep, SaveUnchangedStep,
       RefuseSaveStep, CloseStep
       DEF Call
  <2>4. CASE Crash(s)
    BY <2>1, <2>4, CrashStep
  <2> QED
    BY <1>3, <2>2, <2>3, <2>4
<1> QED
  BY <1>1, <1>2, <1>3 DEF Next

-----------------------------------------------------------------------------
(* The properties.                                                         *)

\* IInv holds in every reachable state of stores that take the lock
\* (CatalogCheckpointStore over LinuxCheckpointProvider).
THEOREM Invariant == Spec => []IInv
<1> QED
  BY InitInvariant, InvariantStep, PTL DEF Spec

\* Type correctness of the store and the directory.
THEOREM TypeCorrect == Spec => []TypeOK
<1>1. IInv => TypeOK
  BY DEF IInv
<1> QED
  BY <1>1, Invariant, PTL

\* A checkpoint that open or save handed to a caller survives every power cut
\* (HandedOutSurvives).
THEOREM Durable == Spec => []HandedOutSurvives
<1>1. IInv => HandedOutSurvives
  <2> SUFFICES ASSUME IInv, NEW f \in diskPrimary
               PROVE  /\ f # NoFile => f \in safe /\ bytes[f] \in Wire
                      /\ SequenceOf(Content(f)) >= SequenceOf(confirmed)
    BY DEF HandedOutSurvives
  <2>1. f # NoFile => f \in safe /\ bytes[f] \in Wire
    BY DEF IInv, DiskCoherent
  <2>2. \A c \in Wire \cup {Absent} : SequenceOf(c) \in Nat
    BY DEF SequenceOf, Wire
  <2>3. confirmed \in Wire \cup {Absent}
    BY DEF IInv, TypeOK
  <2>4. CASE Content(f) = confirmed
    <3> DEFINE n == SequenceOf(confirmed)
    <3>1. n \in Nat
      BY <2>2, <2>3
    <3> HIDE DEF n
    <3>2. n >= n
      BY <3>1
    <3> QED
      BY <2>1, <2>4, <3>2 DEF n
  <2>5. CASE Content(f) # confirmed
    <3>1. Content(f) \in Wire /\ Successor(confirmed, Content(f))
      BY <2>5 DEF IInv, DiskCoherent, OneAhead
    <3>2. Content(f).sequence = NextSequence(confirmed) /\ Content(f) # Absent
      BY <3>1, AbsentAssumption DEF Successor
    <3>3. SequenceOf(Content(f)) >= SequenceOf(confirmed)
      BY <2>3, <3>2 DEF SequenceOf, NextSequence, Wire
    <3> QED
      BY <2>1, <3>3
  <2> QED
    BY <2>1, <2>4, <2>5
<1> QED
  BY <1>1, Invariant, PTL

\* A store between calls that is not faulted knows what the disk holds
\* (IdleKnowsDisk), so NotCommitted means that nothing can surface later.
THEOREM IdleKnows == Spec => []IdleKnowsDisk
<1>1. IInv => IdleKnowsDisk
  BY DEF IInv, AckKnowsDisk, Settled, IdleKnowsDisk, Content
<1> QED
  BY <1>1, Invariant, PTL

\* While an unconfirmed checkpoint may be the primary, the confirmed one it
\* replaced is durable beside it (RecoveryCopyOnDisk).
THEOREM RecoveryCopy == Spec => []RecoveryCopyOnDisk
<1>1. IInv => RecoveryCopyOnDisk
  BY DEF IInv, RecoveryKept, Settled, RecoveryCopyOnDisk
<1> QED
  BY <1>1, Invariant, PTL

-----------------------------------------------------------------------------
(* Beside writers that ignore the lock.                                    *)

\* A step of a store keeps ForeignInv: only the lease holder moves, and it
\* writes into no file it has checked.
LEMMA ForeignOwnStep ==
    ASSUME ForeignInv, NEW s \in Stores, Work(s) \/ Call(s) \/ Crash(s)
    PROVE  ForeignInv'
<1>1. TypeOK /\ LockExclusive
  BY DEF ForeignInv
<1>2. /\ \A f \in Files : bytes[f] \in Wire \cup {Torn}
      /\ Content(primary) \in Wire \cup {Torn, Absent}
      /\ primary \in Files \cup {NoFile}
      /\ \A t \in Stores : /\ ack[t] \in Wire \cup {Absent}
                           /\ observed[t] \in Files \cup {NoFile}
  BY <1>1 DEF TypeOK, Content
<1> USE DEF ForeignInv, TypeOK, LockExclusive, StagesCheckpoints, ReadIsWhole,
        CheckedIsAck, AdmittedIsAck, Content
<1>3. CASE Acquire(s)
  BY <1>1, <1>3 DEF Acquire, Fresh, InUse, LeaseFree
<1>4. CASE ProbeSucceeds(s)
  BY <1>1, <1>4 DEF ProbeSucceeds
<1>5. CASE ProbeFails(s)
  BY <1>1, <1>5 DEF ProbeFails, Release
<1>6. CASE ReadAtOpen(s)
  BY <1>1, <1>6 DEF ReadAtOpen
<1>7. CASE Reconcile(s)
  BY <1>1, <1>2, <1>7 DEF Reconcile, SyncDirectory, SyncFile
<1>8. CASE OpenFails(s)
  BY <1>1, <1>8 DEF OpenFails, Release
<1>9. CASE BeginSave(s)
  BY <1>1, <1>9 DEF BeginSave
<1>10. CASE SaveUnchanged(s)
  BY <1>1, <1>10 DEF SaveUnchanged
<1>11. CASE RefuseSave(s)
  <2>1. /\ UNCHANGED <<dirVars, fileVars, lock, pc, faulted, ack, slots, issued,
                      saveVars, confirmed, foreign, raced>>
        /\ pc[s] = "idle"
        /\ observed' \in [Stores -> Files \cup {NoFile}]
        /\ \A t \in Stores : t # s => observed'[t] = observed[t]
    BY <1>1, <1>11 DEF RefuseSave, MaybeReread
  <2>2. TypeOK' /\ LockExclusive' /\ StagesCheckpoints' /\ AdmittedIsAck'
    BY <1>1, <2>1
  <2>3. ReadIsWhole' /\ CheckedIsAck'
    BY <1>1, <2>1
  <2> QED
    BY <2>2, <2>3
<1>12. CASE CreateArtifact(s)
  BY <1>1, <1>12 DEF CreateArtifact, Link, Fresh, InUse
<1>13. CASE WriteArtifact(s)
  <2>1. /\ UNCHANGED <<dirVars, lock, storeVars, saveVars, confirmed, foreign,
                      raced>>
        /\ pc[s] = "write"
        /\ pc' = [pc EXCEPT ![s] = "sync"]
        /\ safe' \in SUBSET Files
        /\ bytes' = [bytes EXCEPT ![art[s][kind[s]]] = Image(s)]
        /\ Image(s) \in Wire
    BY <1>1, <1>13 DEF WriteArtifact, Image
  <2> HIDE DEF Image
  <2>2. bytes' \in [Files -> Wire \cup {Torn}]
    BY <1>1, <2>1
  <2>3. TypeOK'
    BY <1>1, <2>1, <2>2
  <2>4. \A t \in Stores : t # s => pc'[t] = "closed"
    BY <1>1, <2>1
  <2>5. LockExclusive' /\ StagesCheckpoints'
    BY <1>1, <2>1
  <2>6. ReadIsWhole' /\ CheckedIsAck' /\ AdmittedIsAck'
    BY <1>1, <2>1, <2>4
  <2> QED
    BY <2>3, <2>5, <2>6
<1>14. CASE SyncArtifact(s)
  BY <1>1, <1>14 DEF SyncArtifact, SyncDirectory, SyncFile, StagesPrior
<1>15. CASE Recheck(s)
  BY <1>1, <1>15 DEF Recheck
<1>16. CASE Admit(s)
  <2>1. \A t \in Stores : t # s => pc'[t] = "closed"
    BY <1>1, <1>16 DEF Admit
  <2>2. TypeOK' /\ LockExclusive' /\ StagesCheckpoints'
    BY <1>1, <1>16 DEF Admit
  <2>3. ReadIsWhole' /\ CheckedIsAck'
    BY <1>1, <1>16, <2>1 DEF Admit
  <2>4. ack[s] # Absent => Content(primary) = ack[s]
    BY <1>16 DEF Admit, SameFile
  <2>5. AdmittedIsAck'
    BY <1>1, <1>16, <2>1, <2>4 DEF Admit
  <2> QED
    BY <2>2, <2>3, <2>5
<1>17. CASE RenameSucceeds(s)
  BY <1>1, <1>17 DEF RenameSucceeds, RenameToPrimary, MayRename
<1>18. CASE RenameUncertain(s)
  BY <1>1, <1>18 DEF RenameUncertain, RenameToPrimary, EndSave, Latch
<1>19. CASE Abandon(s)
  BY <1>1, <1>19 DEF Abandon, Unlink, EndSave, MaybeReread, Held,
     FailsDefinitely
<1>20. CASE SyncPublication(s)
  BY <1>1, <1>20 DEF SyncPublication, SyncDirectory
<1>21. CASE SyncPublicationFails(s)
  BY <1>1, <1>21 DEF SyncPublicationFails, EndSave, Latch
<1>22. CASE Cleanup(s)
  BY <1>1, <1>22 DEF Cleanup, Unlink, EndSave
<1>23. CASE Close(s)
  BY <1>1, <1>23 DEF Close, Release
<1>24. CASE Crash(s)
  BY <1>1, <1>24 DEF Crash, Forget, Reset
<1> HIDE DEF ForeignInv, TypeOK, LockExclusive, StagesCheckpoints, ReadIsWhole,
        CheckedIsAck, AdmittedIsAck, Content
<1> QED
  BY <1>3, <1>4, <1>5, <1>6, <1>7, <1>8, <1>9, <1>10, <1>11, <1>12, <1>13,
     <1>14, <1>15, <1>16, <1>17, <1>18, <1>19, <1>20, <1>21, <1>22, <1>23,
     <1>24 DEF Work, Call

\* So does every other step: a power cut closes every store, and a foreign
\* writer replaces the primary by a file no store has open.
LEMMA ForeignStep == ForeignInv /\ [Next \/ ForeignReplace]_vars => ForeignInv'
<1> SUFFICES ASSUME ForeignInv, [Next \/ ForeignReplace]_vars PROVE ForeignInv'
  OBVIOUS
<1>1. TypeOK /\ LockExclusive
  BY DEF ForeignInv
<1>2. CASE PowerCut
  BY <1>1, <1>2 DEF PowerCut, Forget, Reset, ForeignInv, TypeOK, LockExclusive,
     StagesCheckpoints, ReadIsWhole, CheckedIsAck, AdmittedIsAck
<1>3. CASE ForeignReplace
  <2>1. TypeOK'
    BY <1>1, <1>3, ForeignAssumption DEF ForeignReplace, TypeOK, Fresh
  <2>2. UNCHANGED <<lock, pc, storeVars, saveVars>>
    BY <1>3 DEF ForeignReplace
  <2>3. \A s \in Stores : Content(observed[s])' = Content(observed[s])
    BY <1>1, <1>3, <2>2 DEF ForeignReplace, TypeOK, Fresh, InUse, Content
  <2>4. LockExclusive' /\ StagesCheckpoints' /\ ReadIsWhole' /\ CheckedIsAck'
    BY <2>2, <2>3 DEF ForeignInv, LockExclusive, StagesCheckpoints,
       ReadIsWhole, CheckedIsAck
  <2>5. AdmittedIsAck'
    BY <1>3 DEF ForeignReplace, AdmittedIsAck
  <2> QED
    BY <2>1, <2>4, <2>5 DEF ForeignInv
<1>4. CASE UNCHANGED vars
  BY <1>4 DEF vars, ForeignInv, TypeOK, LockExclusive, StagesCheckpoints,
     ReadIsWhole, CheckedIsAck, AdmittedIsAck, Content
<1> QED
  BY <1>2, <1>3, <1>4, ForeignOwnStep DEF Next

\* ForeignInv holds beside writers that ignore the lock.
THEOREM ForeignInvariant == ForeignSpec => []ForeignInv
<1>1. Init => ForeignInv
  <2> SUFFICES ASSUME Init PROVE ForeignInv
    OBVIOUS
  <2>1. TypeOK
    BY InitInvariant DEF IInv
  <2>2. \A s \in Stores : pc[s] = "closed"
    BY DEF Init
  <2>3. LockExclusive
    BY <2>2 DEF Init, LockExclusive
  <2>4. StagesCheckpoints /\ ReadIsWhole /\ CheckedIsAck /\ AdmittedIsAck
    BY <2>2 DEF StagesCheckpoints, ReadIsWhole, CheckedIsAck, AdmittedIsAck
  <2> QED
    BY <2>1, <2>3, <2>4 DEF ForeignInv
<1> QED
  BY <1>1, ForeignStep, PTL DEF ForeignSpec

\* A save never overwrites a checkpoint its ticket did not name, unless the
\* foreign writer came between the admission and the rename of an update
\* (NoSilentOverwrite): while a store is about to rename, only its own
\* rename changes the primary, and that one was admitted.
THEOREM NeverSilent == ForeignSpec => NoSilentOverwrite
<1> DEFINE Silent == \A s \in Stores :
          pc[s] = "rename" /\ primary' # primary /\ foreign' = foreign
             /\ pc'[s] # "closed" /\ (~raced \/ ack[s] = Absent)
          => Content(primary) = ack[s]
<1>1. ForeignInv /\ [Next \/ ForeignReplace]_vars => Silent
  <2> SUFFICES ASSUME ForeignInv, [Next \/ ForeignReplace]_vars,
                      NEW s \in Stores, pc[s] = "rename", primary' # primary,
                      foreign' = foreign, pc'[s] # "closed",
                      ~raced \/ ack[s] = Absent
               PROVE  Content(primary) = ack[s]
    OBVIOUS
  <2>1. TypeOK /\ LockExclusive
    BY DEF ForeignInv
  <2>2. ~PowerCut
    BY DEF PowerCut, Forget, Reset
  <2>3. ~ForeignReplace
    BY <2>1 DEF ForeignReplace, TypeOK
  <2>4. PICK t \in Stores : Work(t) \/ Call(t) \/ Crash(t)
    BY <2>2, <2>3 DEF Next, vars
  <2>5. RenameSucceeds(t) \/ RenameUncertain(t)
    BY <2>4 DEF Work, Call, Acquire, ProbeSucceeds, ProbeFails, ReadAtOpen,
       Reconcile, SyncDirectory, OpenFails, BeginSave, SaveUnchanged,
       RefuseSave, CreateArtifact, Link, WriteArtifact, SyncArtifact, Recheck,
       Admit, Abandon, Unlink, SyncPublication, SyncPublicationFails, Cleanup,
       Close, Crash
  <2>6. pc[t] = "rename" /\ (ack[t] = Absent => primary = NoFile)
    BY <2>5 DEF RenameSucceeds, RenameUncertain, MayRename
  <2>7. t = s
    BY <2>1, <2>6 DEF LockExclusive
  <2> QED
    BY <2>6, <2>7 DEF ForeignInv, AdmittedIsAck, Content
<1>2. ForeignInv /\ [Next \/ ForeignReplace]_vars => [Silent]_vars
  BY <1>1
<1> QED
  BY <1>2, ForeignInvariant, PTL DEF ForeignSpec, NoSilentOverwrite

\* The same for calls that run to their end beside foreign writers.
THEOREM CallsNeverSilent == CallSpec => NoSilentOverwrite
<1>1. [ForeignReplace \/ \E s \in Stores : Work(s) \/ Call(s)]_vars
      => [Next \/ ForeignReplace]_vars
  BY DEF Next
<1>2. CallSpec => ForeignSpec
  BY <1>1, PTL DEF CallSpec, ForeignSpec
<1> QED
  BY <1>2, NeverSilent

-----------------------------------------------------------------------------
(* The refinement.                                                         *)

\* What a step of a store does to the register: the visible checkpoint stays
\* and is perhaps confirmed, or a legal successor of the confirmed one
\* appears.
LEMMA RegisterMove ==
    ASSUME IInv, NEW s \in Stores, Work(s) \/ Call(s) \/ Crash(s)
    PROVE  \/ /\ Content(primary)' = Content(primary)
              /\ confirmed' \in {confirmed, Content(primary)}
           \/ /\ Content(primary) = confirmed
              /\ Content(primary)' \in Wire
              /\ Successor(confirmed, Content(primary)')
              /\ confirmed' = confirmed
<1>0. TypeOK
  BY DEF IInv
<1>1. CASE Acquire(s)
  BY <1>0, <1>1 DEF TypeOK, Acquire, Fresh, InUse, Content
<1>2. CASE CreateArtifact(s)
  BY <1>0, <1>2 DEF TypeOK, CreateArtifact, Link, Fresh, InUse, Content
<1>3. CASE WriteArtifact(s)
  <2>1. art[s][kind[s]] # primary
    BY <1>3 DEF WriteArtifact, IInv, WritesNewFile, DiskCoherent
  <2> QED
    BY <1>0, <1>3, <2>1 DEF TypeOK, WriteArtifact, Content
<1>4. CASE Reconcile(s)
  BY <1>4 DEF Reconcile, SyncDirectory, Content
<1>5. CASE SyncPublication(s)
  BY <1>5 DEF SyncPublication, SyncDirectory, Content, IInv, SaveIsLegal
<1>6. CASE RenameSucceeds(s) \/ RenameUncertain(s)
  <2>1. pc[s] = "rename" /\ confirmed' = confirmed /\ UNCHANGED bytes
    BY <1>6 DEF RenameSucceeds, RenameUncertain
  <2>2. /\ Content(primary) = confirmed
        /\ want[s] \in Wire /\ Successor(confirmed, want[s])
    <3>1. ~faulted[s] /\ want[s] \in Wire /\ Successor(ack[s], want[s])
      BY <2>1 DEF IInv, SaveIsLegal
    <3>2. ack[s] = confirmed /\ Settled
      BY <2>1, <3>1 DEF IInv, AckKnowsDisk
    <3> QED
      BY <3>1, <3>2 DEF IInv, DiskCoherent, Settled
  <2>3. art[s]["candidate"] \in Files /\ bytes[art[s]["candidate"]] = want[s]
    BY <1>0, <2>1 DEF TypeOK, IInv, CandidateStaged, CandidateDone
  <2>4. primary' \in {primary, art[s]["candidate"]}
    BY <1>6 DEF RenameSucceeds, RenameUncertain, RenameToPrimary
  <2>5. CASE primary' = primary
    BY <2>1, <2>5 DEF Content
  <2>6. CASE primary' = art[s]["candidate"]
    BY <2>1, <2>2, <2>3, <2>6 DEF Content
  <2> QED
    BY <2>4, <2>5, <2>6
<1>7. ASSUME UNCHANGED <<primary, bytes, confirmed>>
      PROVE  Content(primary)' = Content(primary) /\ confirmed' = confirmed
  BY <1>7 DEF Content
<1>8. CASE Call(s) /\ ~Acquire(s)
  BY <1>7, <1>8 DEF Call, BeginSave, SaveUnchanged, RefuseSave, Close, Release
<1>9. CASE Crash(s)
  BY <1>7, <1>9 DEF Crash
<1>10. CASE \/ ProbeSucceeds(s) \/ ProbeFails(s) \/ ReadAtOpen(s) \/ OpenFails(s)
            \/ SyncArtifact(s) \/ Recheck(s) \/ Admit(s) \/ Abandon(s)
            \/ SyncPublicationFails(s) \/ Cleanup(s)
  BY <1>7, <1>10 DEF ProbeSucceeds, ProbeFails, ReadAtOpen, OpenFails,
     SyncArtifact, SyncDirectory,
     Recheck, Admit, Abandon, Unlink, SyncPublicationFails, Cleanup
<1> QED
  BY <1>1, <1>2, <1>3, <1>4, <1>5, <1>6, <1>8, <1>9, <1>10 DEF Work, Call

\* A power cut leaves the visible checkpoint or falls back to the confirmed
\* one.
LEMMA RegisterLose ==
    ASSUME IInv, PowerCut
    PROVE  /\ Content(primary)' \in {Content(primary), confirmed}
           /\ confirmed' = confirmed
<1>0. TypeOK
  BY DEF IInv
<1>1. PICK f \in diskPrimary, found \in SUBSET Files :
        /\ primary' = f
        /\ f # NoFile => f \in found
        /\ \E lost \in SUBSET (found \ safe) :
              bytes' = [g \in Files |-> IF g \in found \ lost THEN bytes[g] ELSE Torn]
  <2>1. PICK f \in diskPrimary, kept \in SUBSET (mayLink \ mustLink) :
          LET found == (((mustLink \cup kept) \ {f}) \cup {f}) \ {NoFile} IN
          /\ primary' = f
          /\ \E lost \in SUBSET (found \ safe) :
                bytes' = [g \in Files |-> IF g \in found \ lost THEN bytes[g] ELSE Torn]
    BY DEF PowerCut
  <2> DEFINE found == (((mustLink \cup kept) \ {f}) \cup {f}) \ {NoFile}
  <2>2. found \in SUBSET Files /\ (f # NoFile => f \in found)
    BY <1>0 DEF TypeOK
  <2> QED
    BY <2>1, <2>2
<1>2. f \in Files \cup {NoFile} /\ (f # NoFile => f \in safe)
  BY <1>0 DEF TypeOK, IInv, DiskCoherent
<1>3. f # NoFile => bytes'[f] = bytes[f]
  BY <1>1, <1>2
<1>4. Content(primary)' = Content(f)
  BY <1>1, <1>3 DEF Content
<1>5. Content(f) \in {confirmed, Content(primary)}
  BY DEF IInv, DiskCoherent
<1> QED
  BY <1>4, <1>5 DEF PowerCut

\* Every step is a step of the register or leaves it alone.
LEMMA RegisterStep == IInv /\ [Next]_vars => [Register!Next]_(Register!vars)
<1> SUFFICES ASSUME IInv, [Next]_vars PROVE [Register!Next]_(Register!vars)
  OBVIOUS
<1>1. CASE PowerCut
  BY <1>1, RegisterLose DEF Register!Next, Register!Lose, Register!vars
<1>2. CASE UNCHANGED vars
  BY <1>2 DEF vars, dirVars, fileVars, Register!vars, Content
<1>3. ASSUME NEW s \in Stores, Work(s) \/ Call(s) \/ Crash(s)
      PROVE  [Register!Next]_(Register!vars)
  <2>1. CASE Content(primary)' = Content(primary) /\ confirmed' \in {confirmed, Content(primary)}
    BY <2>1 DEF Register!Next, Register!Confirm, Register!vars
  <2>2. CASE /\ Content(primary) = confirmed
             /\ Content(primary)' \in Wire
             /\ Successor(confirmed, Content(primary)')
             /\ confirmed' = confirmed
    BY <2>2 DEF Register!Next, Register!Propose, Register!Wire, Wire,
       Register!Successor, Successor,
       Register!NextSequence, NextSequence, Register!History, History, Register!RootContinues, RootContinues
  <2> QED
    BY <1>3, <2>1, <2>2, RegisterMove
<1> QED
  BY <1>1, <1>2, <1>3 DEF Next

\* The store implements CommitRegister (ImplementsRegister).
THEOREM Implements == Spec => ImplementsRegister
<1>1. Init => Register!Init
  BY DEF Init, Register!Init, Content
<1> QED
  BY <1>1, Invariant, RegisterStep, PTL DEF Spec, ImplementsRegister,
     Register!Spec
=============================================================================
