------------------------------ MODULE MediaClock ------------------------------
(***************************************************************************)
(* MediaClockPublicationCell (audio/MediaClockPublication.hpp): the cell   *)
(* through which one writer, the audio callback or the control path while  *)
(* the callback is quiet, publishes the media clock to lyric and display   *)
(* readers.  It is a sequence lock built from C++ atomics.                 *)
(*                                                                         *)
(* The cell is modelled under the release/acquire rules of C++20, not by   *)
(* interleaving on one memory: a location keeps its stores in order, a     *)
(* load returns any store not older than what the reader already knows of  *)
(* the location, and an acquire load of a release store teaches the reader *)
(* whatever the writer had stored before it.  As there is one writer, the  *)
(* sequence counts its own stores, and a payload field is represented by   *)
(* the number of the publication it belongs to: two payloads are told      *)
(* apart whatever they contain.                                            *)
(***************************************************************************)
EXTENDS Naturals

CONSTANTS
    Readers,
    NumFields,     \* payload atomics, stored and loaded in this order
    MaxSequence    \* UINT64_MAX

ASSUME FieldAssumption == NumFields \in Nat \ {0}
ASSUME MaxAssumption == MaxSequence \in Nat

VARIABLES
    sequence,      \* last value stored to sequence_
    field,         \* field[i]: publication last stored to payload field i
    exhausted,     \* exhausted_ is set
    writing,       \* 0 between publications, else the next field to store
    view,          \* what each reader knows, a lower bound per location
    step,          \* the next load of each reader, "idle" between calls
    next,          \* the payload field to load next
    before, after, \* the two loads of sequence_
    got,           \* the fields loaded
    floor,         \* what the reader knew of sequence_ as the call began
    result         \* the answer of the last call

writerVars == <<sequence, field, exhausted, writing>>
callVars == <<step, next, before, after, got, floor>>
vars == <<writerVars, view, callVars, result>>

Fields == 1..NumFields
Steps == {"idle", "sequence", "fields", "again", "latch"}
View == [sequence : Nat, field : [Fields -> Nat], exhausted : BOOLEAN]
NoSnapshot(status) == [status |-> status, revision |-> 0, field |-> [i \in Fields |-> 0]]
Results == [status : {"None", "Unstable", "Exhausted", "Snapshot"},
            revision : Nat, field : [Fields -> Nat]]

TypeOK ==
    /\ sequence \in 0..MaxSequence
    /\ field \in [Fields -> Nat]
    /\ exhausted \in BOOLEAN
    /\ writing \in 0..NumFields + 1
    /\ view \in [Readers -> View]
    /\ step \in [Readers -> Steps]
    /\ next \in [Readers -> 1..NumFields + 1]
    /\ before \in [Readers -> Nat]
    /\ after \in [Readers -> Nat]
    /\ got \in [Readers -> [Fields -> Nat]]
    /\ floor \in [Readers -> Nat]
    /\ result \in [Readers -> Results]

Init ==
    /\ sequence = 0
    /\ field = [i \in Fields |-> 0]
    /\ exhausted = FALSE
    /\ writing = 0
    /\ view = [r \in Readers |->
                 [sequence |-> 0, field |-> [i \in Fields |-> 0], exhausted |-> FALSE]]
    /\ step = [r \in Readers |-> "idle"]
    /\ next = [r \in Readers |-> 1]
    /\ before = [r \in Readers |-> 0]
    /\ after = [r \in Readers |-> 0]
    /\ got = [r \in Readers |-> [i \in Fields |-> 0]]
    /\ floor = [r \in Readers |-> 0]
    /\ result = [r \in Readers |-> NoSnapshot("None")]

-----------------------------------------------------------------------------
(* publish.                                                                *)

\* current > maximum - 2: a publication needs two more sequence values.
NoRoomForTwo == sequence + 2 > MaxSequence

\* exhausted_ is set once and stays.
Exhaust ==
    /\ writing = 0
    /\ exhausted \/ NoRoomForTwo
    /\ exhausted' = TRUE
    /\ UNCHANGED <<sequence, field, writing, view, callVars, result>>

\* The odd sequence announces the publication.
OpenPublication ==
    /\ writing = 0
    /\ ~(exhausted \/ NoRoomForTwo)
    /\ sequence' = sequence + 1
    /\ writing' = 1
    /\ UNCHANGED <<field, exhausted, view, callVars, result>>

StoreField ==
    /\ writing \in Fields
    /\ field' = [field EXCEPT ![writing] = @ + 1]
    /\ writing' = writing + 1
    /\ UNCHANGED <<sequence, exhausted, view, callVars, result>>

\* Mutant: the closing store is left out.
StaysOdd == UNCHANGED sequence

\* The even sequence closes the publication.
BecomesEven == sequence' = sequence + 1

ClosePublication ==
    /\ writing = NumFields + 1
    /\ BecomesEven
    /\ writing' = 0
    /\ UNCHANGED <<field, exhausted, view, callVars, result>>

Publish == Exhaust \/ OpenPublication \/ StoreField \/ ClosePublication

-----------------------------------------------------------------------------
(* What the release stores carry.                                          *)

\* Store v of sequence_ follows every field of the v \div 2 publications
\* closed or opened before it.
SequenceView(v) ==
    [sequence |-> v, field |-> [i \in Fields |-> v \div 2], exhausted |-> FALSE]

\* Mutant: the payload is stored and loaded relaxed.
RelaxedFieldView(i, p) ==
    [sequence |-> 0, field |-> [j \in Fields |-> IF j = i THEN p ELSE 0],
     exhausted |-> FALSE]

\* The store of publication p to field i follows the odd sequence 2p - 1
\* and p's fields up to i; 0 is the initial value.
FieldView(i, p) ==
    [sequence |-> IF p = 0 THEN 0 ELSE 2 * p - 1,
     field |-> [j \in Fields |-> IF j <= i \/ p = 0 THEN p ELSE p - 1],
     exhausted |-> FALSE]

\* exhausted_ is the last store of all.
WriterView == [sequence |-> sequence, field |-> field, exhausted |-> exhausted]

Later(m, n) == IF m >= n THEN m ELSE n
Join(a, b) ==
    [sequence |-> Later(a.sequence, b.sequence),
     field |-> [i \in Fields |-> Later(a.field[i], b.field[i])],
     exhausted |-> a.exhausted \/ b.exhausted]

Learn(r, message) == view' = [view EXCEPT ![r] = Join(@, message)]

-----------------------------------------------------------------------------
(* tryRead.                                                                *)

Goto(r, s) == step' = [step EXCEPT ![r] = s]
Answer(r, a) == Goto(r, "idle") /\ result' = [result EXCEPT ![r] = a]

\* A load of exhausted_ that finds it set ends the call.
FindExhausted(r) ==
    /\ exhausted
    /\ Learn(r, WriterView)
    /\ Answer(r, NoSnapshot("Exhausted"))

Begin(r) ==
    /\ step[r] = "idle"
    /\ floor' = [floor EXCEPT ![r] = view[r].sequence]
    /\ \/ FindExhausted(r)
       \/ /\ ~view[r].exhausted
          /\ Goto(r, "sequence")
          /\ UNCHANGED <<view, result>>
    /\ UNCHANGED <<writerVars, next, before, after, got>>

LoadSequence(r) ==
    /\ step[r] = "sequence"
    /\ \E v \in view[r].sequence..sequence :
          /\ Learn(r, SequenceView(v))
          /\ before' = [before EXCEPT ![r] = v]
          /\ IF v % 2 = 1
             THEN Answer(r, NoSnapshot("Unstable"))
             ELSE Goto(r, "fields") /\ UNCHANGED result
    /\ next' = [next EXCEPT ![r] = 1]
    /\ UNCHANGED <<writerVars, after, got, floor>>

LoadField(r) ==
    /\ step[r] = "fields"
    /\ next[r] \in Fields
    /\ \E p \in view[r].field[next[r]]..field[next[r]] :
          /\ Learn(r, FieldView(next[r], p))
          /\ got' = [got EXCEPT ![r][next[r]] = p]
    /\ next' = [next EXCEPT ![r] = @ + 1]
    /\ IF next[r] = NumFields THEN Goto(r, "again") ELSE UNCHANGED step
    /\ UNCHANGED <<writerVars, before, after, floor, result>>

LoadAgain(r) ==
    /\ step[r] = "again"
    /\ \E v \in view[r].sequence..sequence :
          /\ Learn(r, SequenceView(v))
          /\ after' = [after EXCEPT ![r] = v]
    /\ Goto(r, "latch")
    /\ UNCHANGED <<writerVars, next, before, got, floor, result>>

Stable(r) == before[r] = after[r] /\ after[r] % 2 = 0

Finish(r) ==
    /\ step[r] = "latch"
    /\ \/ FindExhausted(r)
       \/ /\ ~view[r].exhausted
          /\ Answer(r, IF Stable(r)
                       THEN [status |-> "Snapshot", revision |-> before[r], field |-> got[r]]
                       ELSE NoSnapshot("Unstable"))
          /\ UNCHANGED view
    /\ UNCHANGED <<writerVars, next, before, after, got, floor>>

\* The reader meets the writer: the control path that just published reads
\* itself, or synchronised with the thread that did.
Meet(r) ==
    /\ step[r] = "idle"
    /\ Learn(r, WriterView)
    /\ UNCHANGED <<writerVars, callVars, result>>

Read(r) == Begin(r) \/ LoadSequence(r) \/ LoadField(r) \/ LoadAgain(r) \/ Finish(r)

Next == Publish \/ \E r \in Readers : Read(r) \/ Meet(r)

Spec == Init /\ [][Next]_vars

-----------------------------------------------------------------------------
(* Properties.                                                             *)

\* A snapshot is one publication: every field comes from the publication
\* whose closing store its revision names, however the loads and stores of
\* tryRead and publish interleave.
NoTornSnapshot ==
    \A r \in Readers :
        result[r].status = "Snapshot" =>
            \A i \in Fields : 2 * result[r].field[i] = result[r].revision

\* A call that began knowing the last publication, with none following it,
\* returns that publication: the control path that binds a lyric observer
\* after start never polls a generation older than the one it was given.
QuietReadSucceeds ==
    [][\A r \in Readers :
          /\ step[r] # "idle" /\ step'[r] = "idle"
          /\ floor[r] = sequence /\ writing = 0 /\ ~exhausted
          => result'[r] = [status |-> "Snapshot", revision |-> sequence, field |-> field]]_vars
=============================================================================
