------------------------ MODULE CheckpointStoreInvariant ------------------------
(***************************************************************************)
(* The inductive invariant behind CheckpointStore's safety properties.     *)
(* The properties alone are not inductive: that a rename never exposes an  *)
(* unsynchronised file, for instance, depends on what the save staged      *)
(* several steps earlier and on nobody else holding the lease meanwhile.   *)
(***************************************************************************)
EXTENDS CheckpointStore

\* Exactly the store that holds the lease is not closed.
LockExclusive == \A s \in Stores : pc[s] # "closed" <=> lock = s

\* Whatever the disk may name as primary is complete and synchronised, and
\* is the confirmed checkpoint or the one the cache names.
DiskCoherent ==
    /\ primary \in diskPrimary
    /\ \A f \in diskPrimary :
          /\ f # NoFile => f \in safe /\ bytes[f] \in Wire
          /\ Content(f) \in {confirmed, Content(primary)}

\* At most one legal step ahead of what was handed out.
OneAhead ==
    Content(primary) # confirmed =>
        Content(primary) \in Wire /\ Successor(confirmed, Content(primary))

Settled == \A f \in diskPrimary : Content(f) = confirmed

\* An open store that is neither faulted nor publishing knows the disk.
AckKnowsDisk ==
    \A s \in Stores :
        pc[s] \in {"idle", "cleanup"} \cup StagePhases /\ ~faulted[s] =>
            ack[s] = confirmed /\ Settled

\* A save only runs unfaulted, with a legal candidate.
SaveIsLegal ==
    \A s \in Stores :
        /\ pc[s] \in SavePhases => ~faulted[s]
        /\ pc[s] \in StagePhases \cup {"syncPublication"} =>
              want[s] \in Wire /\ Successor(ack[s], want[s])
        /\ pc[s] \in StagePhases /\ kind[s] = "prior" => ack[s] \in Wire
        /\ pc[s] = "syncPublication" =>
              Content(primary) = want[s] /\ ack[s] = confirmed

\* The file being written is the save's own, not one the disk may show as
\* primary.
WritesNewFile ==
    \A s \in Stores :
        pc[s] \in {"write", "sync"} =>
            art[s][kind[s]] \in (slots[s] \cap staged) \ diskPrimary

CandidateDone(s) ==
    \/ pc[s] \in {"recheck", "admit", "rename"}
    \/ pc[s] \in {"create", "write", "sync"} /\ kind[s] = "prior"

\* The verified candidate stays what it was verified to be.
CandidateStaged ==
    \A s \in Stores :
        CandidateDone(s) =>
            LET c == art[s]["candidate"] IN
            /\ c \in slots[s] \cap safe
            /\ bytes[c] = want[s]
            /\ pc[s] \in {"write", "sync"} => c # art[s]["prior"]

\* A stage name that must be on disk is in the cache, and what is in the
\* cache may be on disk; a probe's artifacts keep their names till its end.
NamesNest ==
    /\ mustLink \subseteq staged
    /\ staged \subseteq mayLink
    /\ \A s \in Stores : pc[s] = "probing" => slots[s] \subseteq staged

\* The verified copy of the checkpoint an update replaces.
PriorStaged ==
    \A s \in Stores :
        /\ pc[s] \in {"recheck", "admit", "rename", "syncPublication"}
        /\ ack[s] # Absent
        => LET g == art[s]["prior"] IN
           /\ g \in slots[s] \cap mustLink \cap safe
           /\ g # art[s]["candidate"]
           /\ bytes[g] = ack[s]

\* A copy that outlived its save is no probe artifact of a later open.
RecoveryKept ==
    \/ confirmed = Absent
    \/ Settled
    \/ \E g \in mustLink \cap safe :
          /\ bytes[g] = confirmed
          /\ \A s \in Stores : pc[s] = "probing" => g \notin slots[s]

IInv ==
    /\ TypeOK
    /\ LockExclusive
    /\ DiskCoherent
    /\ OneAhead
    /\ AckKnowsDisk
    /\ SaveIsLegal
    /\ WritesNewFile
    /\ CandidateStaged
    /\ NamesNest
    /\ PriorStaged
    /\ RecoveryKept

-----------------------------------------------------------------------------
(* Beside writers that ignore the lock IInv fails: they replace what the   *)
(* store acknowledged.  What still holds concerns the file a save looked   *)
(* at last.                                                                *)

\* A save stages checkpoints: its candidate, then a copy of the acknowledged
\* one.
StagesCheckpoints ==
    \A s \in Stores :
        /\ pc[s] \in SavePhases => want[s] \in Wire
        /\ pc[s] \in StagePhases /\ kind[s] = "prior" => ack[s] \in Wire

\* The primary an open accepted decodes, and stays what was read: nobody
\* writes into a file that is a primary or was one.
ReadIsWhole ==
    \A s \in Stores : pc[s] = "reconciling" => Content(observed[s]) # Torn

\* The file the last check read holds the acknowledged checkpoint, whatever
\* the primary name says by now.
CheckedIsAck ==
    \A s \in Stores : pc[s] = "admit" => Content(observed[s]) = ack[s]

\* An admitted update still replaces that checkpoint, unless a foreign
\* writer came after the admission.
AdmittedIsAck ==
    \A s \in Stores :
        pc[s] = "rename" /\ ~raced /\ ack[s] # Absent => Content(primary) = ack[s]

ForeignInv ==
    /\ TypeOK
    /\ LockExclusive
    /\ StagesCheckpoints
    /\ ReadIsWhole
    /\ CheckedIsAck
    /\ AdmittedIsAck

=============================================================================
