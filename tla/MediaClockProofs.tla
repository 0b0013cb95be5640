--------------------------- MODULE MediaClockProofs ---------------------------
(***************************************************************************)
(* A snapshot of the media clock is one publication, for any number of     *)
(* readers, of payload fields and of publications.                         *)
(*                                                                         *)
(* The argument: whatever a reader learns satisfies Causal, because every  *)
(* release store carries the sequence it follows (Messages); so a field of *)
(* a later publication than `before` forces the second load of sequence_   *)
(* past `before` (Reading), and the comparison refuses the snapshot.       *)
(***************************************************************************)
EXTENDS MediaClock, TLAPS

USE FieldAssumption, MaxAssumption

\* What the writer has stored so far; a publication has room to be closed.
WriterCoherent ==
    /\ writing # 0 => sequence < MaxSequence
    /\ \A i \in Fields :
          IF writing = 0
          THEN sequence = 2 * field[i]
          ELSE sequence + 1 = 2 * field[i] + (IF i < writing THEN 0 ELSE 2)

\* A field of publication p is known together with the odd sequence 2p - 1,
\* and sequence v together with the fields of publication v \div 2.
Causal(m) ==
    \A i \in Fields :
        /\ 2 * m.field[i] <= m.sequence + 1
        /\ m.sequence <= 2 * m.field[i] + 1

\* Nobody knows of a store that has not happened.
Happened(m) ==
    /\ m.sequence <= sequence
    /\ \A i \in Fields : m.field[i] <= field[i]
    /\ m.exhausted => exhausted

\* What a call has loaded bounds what it can load next.
Reading(r) ==
    /\ floor[r] <= view[r].sequence
    /\ step[r] = "fields" => next[r] \in Fields
    /\ step[r] \in {"again", "latch"} => next[r] = NumFields + 1
    /\ step[r] \in {"fields", "again", "latch"} =>
          /\ before[r] % 2 = 0
          /\ floor[r] <= before[r]
          /\ before[r] <= view[r].sequence
          /\ \A i \in Fields : i < next[r] =>
                /\ before[r] <= 2 * got[r][i] + 1
                /\ got[r][i] <= view[r].field[i]
    /\ step[r] = "latch" =>
          /\ floor[r] <= after[r]
          /\ after[r] <= sequence
          /\ \A i \in Fields : 2 * got[r][i] <= after[r] + 1

IInv ==
    /\ TypeOK
    /\ WriterCoherent
    /\ \A r \in Readers : Causal(view[r]) /\ Happened(view[r]) /\ Reading(r)
    /\ NoTornSnapshot
-----------------------------------------------------------------------------

\* Joining two views a reader may have gives a view it may have.
LEMMA JoinCausal ==
  ASSUME NEW a \in View, NEW b \in View, Causal(a), Causal(b)
  PROVE  Join(a, b) \in View /\ Causal(Join(a, b))
  BY DEF View, Causal, Join, Later

\* What a reader may learn: a well-formed message about the past.
Message(m) == m \in View /\ Causal(m) /\ Happened(m)

\* A store of sequence_ carries such a message.
LEMMA SequenceMessage ==
  ASSUME TypeOK, WriterCoherent, NEW v \in Nat, v <= sequence
  PROVE  Message(SequenceView(v))
<1>1. v \div 2 \in Nat /\ 2 * (v \div 2) <= v /\ v <= 2 * (v \div 2) + 1
  OBVIOUS
<1>2. SequenceView(v) \in View /\ Causal(SequenceView(v))
  BY <1>1 DEF SequenceView, View, Causal
<1>3. ASSUME NEW i \in Fields PROVE v \div 2 <= field[i]
  BY <1>1 DEF TypeOK, WriterCoherent
<1> QED
  BY <1>2, <1>3 DEF SequenceView, Happened, Message

\* A store of a payload field carries such a message.
LEMMA FieldMessage ==
  ASSUME TypeOK, WriterCoherent, NEW i \in Fields, NEW p \in Nat, p <= field[i]
  PROVE  Message(FieldView(i, p))
<1>1. FieldView(i, p) \in View /\ Causal(FieldView(i, p))
  BY DEF FieldView, View, Causal, Fields
<1>2. 2 * p <= sequence + 1
  BY DEF TypeOK, WriterCoherent
<1>3. ASSUME NEW j \in Fields
      PROVE  (IF j <= i \/ p = 0 THEN p ELSE p - 1) <= field[j]
  <2>1. i \in Nat /\ j \in Nat /\ field[i] \in Nat /\ field[j] \in Nat
        /\ sequence \in Nat /\ writing \in Nat
    BY DEF Fields, TypeOK
  <2>2. field[i] <= field[j] + 1
    BY <2>1 DEF WriterCoherent
  <2>3. j <= i => field[i] <= field[j]
    BY <2>1 DEF WriterCoherent
  <2> QED
    BY <2>1, <2>2, <2>3
<1>4. Happened(FieldView(i, p))
  BY <1>2, <1>3 DEF FieldView, Happened, TypeOK
<1> QED
  BY <1>1, <1>4 DEF Message

\* So does the store of exhausted_, which follows everything.
LEMMA WriterMessage ==
  ASSUME TypeOK, WriterCoherent
  PROVE  Message(WriterView)
  BY DEF WriterView, Message, View, Causal, Happened, TypeOK, WriterCoherent

\* Learning a message keeps what is known of every view, and forgets nothing.
LEMMA LearnKeeps ==
  ASSUME IInv, NEW r \in Readers, NEW m, Message(m), Learn(r, m),
         UNCHANGED writerVars
  PROVE  /\ view' \in [Readers -> View]
         /\ \A q \in Readers : Causal(view[q])' /\ Happened(view[q])'
         /\ \A q \in Readers : q # r => view'[q] = view[q]
         /\ view'[r].sequence >= view[r].sequence
         /\ view'[r].sequence >= m.sequence
         /\ \A i \in Fields : view'[r].field[i] >= view[r].field[i]
         /\ \A i \in Fields : view'[r].field[i] >= m.field[i]
<1>1. m \in View /\ view \in [Readers -> View] /\ Causal(view[r])
  BY DEF IInv, TypeOK, Message
<1>2. view' = [view EXCEPT ![r] = Join(view[r], m)]
  BY <1>1 DEF Learn
<1>3. view'[r] = Join(view[r], m) /\ \A q \in Readers : q # r => view'[q] = view[q]
  BY <1>1, <1>2
<1>4. Join(view[r], m) \in View /\ Causal(Join(view[r], m))
  BY <1>1, JoinCausal DEF Message
<1>5. /\ Join(view[r], m).sequence >= view[r].sequence
      /\ Join(view[r], m).sequence >= m.sequence
      /\ \A i \in Fields : Join(view[r], m).field[i] >= view[r].field[i]
      /\ \A i \in Fields : Join(view[r], m).field[i] >= m.field[i]
  BY <1>1 DEF Join, Later, View
<1>6. Happened(Join(view[r], m))
  BY <1>1 DEF Join, Later, View, Happened, Message, IInv
<1>7. ASSUME NEW q \in Readers PROVE Causal(view[q])' /\ Happened(view[q])'
  <2>1. CASE q = r
    BY <2>1, <1>3, <1>4, <1>6 DEF Causal, Happened, writerVars
  <2>2. CASE q # r
    BY <2>2, <1>3 DEF Causal, Happened, writerVars, IInv
  <2> QED
    BY <2>1, <2>2
<1>8. view' \in [Readers -> View]
  BY <1>1, <1>2, <1>4
<1> QED
  BY <1>3, <1>5, <1>7, <1>8
-----------------------------------------------------------------------------

\* The writer keeps its own bookkeeping.
LEMMA WriterStep ==
  ASSUME TypeOK, WriterCoherent, Publish
  PROVE  TypeOK' /\ WriterCoherent'
<1>0. /\ sequence \in 0..MaxSequence /\ field \in [Fields -> Nat]
      /\ exhausted \in BOOLEAN /\ writing \in 0..NumFields + 1
      /\ UNCHANGED <<view, step, next, before, after, got, floor, result>>
  BY DEF TypeOK, Publish, Exhaust, OpenPublication, StoreField, ClosePublication,
         callVars
<1>1. /\ sequence' \in 0..MaxSequence
      /\ field' \in [Fields -> Nat]
      /\ exhausted' \in BOOLEAN
      /\ writing' \in 0..NumFields + 1
      /\ WriterCoherent'
  <2>1. CASE Exhaust
    BY <2>1, <1>0 DEF Exhaust, WriterCoherent
  <2>2. CASE OpenPublication
    BY <2>2, <1>0 DEF OpenPublication, NoRoomForTwo, WriterCoherent, Fields
  <2>3. CASE StoreField
    <3>1. writing \in 1..NumFields /\ sequence' = sequence /\ writing' = writing + 1
          /\ field' = [field EXCEPT ![writing] = field[writing] + 1]
          /\ exhausted' = exhausted
      BY <2>3 DEF StoreField, Fields
    <3>2. ASSUME NEW i \in Fields
          PROVE  sequence' + 1 = 2 * field'[i] + (IF i < writing' THEN 0 ELSE 2)
      <4>1. CASE i = writing
        BY <3>1, <1>0, <4>1 DEF WriterCoherent, Fields
      <4>2. CASE i # writing
        BY <3>1, <1>0, <4>2 DEF WriterCoherent, Fields
      <4> QED
        BY <4>1, <4>2
    <3>3. field' \in [Fields -> Nat]
      BY <3>1, <1>0 DEF Fields
    <3> QED
      BY <1>0, <3>1, <3>2, <3>3 DEF WriterCoherent
  <2>4. CASE ClosePublication
    <3>1. writing = NumFields + 1 /\ sequence' = sequence + 1 /\ writing' = 0
          /\ UNCHANGED <<field, exhausted>>
      BY <2>4 DEF ClosePublication, BecomesEven
    <3>2. ASSUME NEW i \in Fields PROVE sequence' = 2 * field'[i]
      BY <3>1, <1>0 DEF WriterCoherent, Fields
    <3> QED
      BY <1>0, <3>1, <3>2 DEF WriterCoherent
  <2> QED
    BY <2>1, <2>2, <2>3, <2>4 DEF Publish
<1> QED
  BY <1>0, <1>1 DEF TypeOK

\* The writer's steps disturb no reader: they only add to the past.
LEMMA PublishStep ==
  ASSUME IInv, Publish
  PROVE  IInv'
<1> USE DEF IInv, Publish, callVars
<1>1. TypeOK' /\ WriterCoherent'
  BY WriterStep
<1>3. /\ UNCHANGED <<view, step, next, before, after, got, floor, result>>
      /\ sequence <= sequence' /\ (exhausted => exhausted')
      /\ \A i \in Fields : field[i] <= field'[i]
  BY DEF TypeOK, Exhaust, OpenPublication, StoreField, ClosePublication,
         BecomesEven
<1>4. ASSUME NEW r \in Readers
      PROVE  Causal(view[r])' /\ Happened(view[r])' /\ Reading(r)'
  <2>1. Causal(view[r])'
    BY <1>3 DEF Causal
  <2>2. Happened(view[r])'
    BY <1>1, <1>3 DEF Happened, TypeOK, View
  <2>3. Reading(r)'
    BY <1>1, <1>3 DEF Reading, TypeOK
  <2> QED
    BY <2>1, <2>2, <2>3
<1>5. NoTornSnapshot'
  BY <1>3 DEF NoTornSnapshot
<1> QED
  BY <1>1, <1>4, <1>5

\* What the steps of a reader have in common: they leave the writer and the
\* other readers alone.
LEMMA ReaderStep ==
  ASSUME IInv, NEW r \in Readers, UNCHANGED writerVars, TypeOK',
         \A q \in Readers : Causal(view[q])' /\ Happened(view[q])',
         \A q \in Readers \ {r} :
             UNCHANGED <<view[q], step[q], next[q], before[q], after[q], got[q],
                         floor[q], result[q]>>,
         Reading(r)',
         result'[r].status = "Snapshot" =>
             \A i \in Fields : 2 * result'[r].field[i] = result'[r].revision
  PROVE  IInv'
<1>1. WriterCoherent'
  BY DEF IInv, WriterCoherent, writerVars
<1>2. ASSUME NEW q \in Readers PROVE Reading(q)'
  BY DEF IInv, Reading, writerVars
<1>3. NoTornSnapshot'
  BY DEF IInv, NoTornSnapshot
<1> QED
  BY <1>1, <1>2, <1>3 DEF IInv

\* Begin: an exhausted cell ends the call, otherwise it starts.
LEMMA BeginStep ==
  ASSUME IInv, NEW r \in Readers, Begin(r)
  PROVE  IInv'
<1> USE DEF Begin, Goto, Answer, NoSnapshot, callVars, writerVars
<1>1. CASE FindExhausted(r)
  <2>1. Message(WriterView)
    BY WriterMessage DEF IInv
  <2>2. Learn(r, WriterView)
    BY <1>1 DEF FindExhausted
  <2> HIDE DEF Begin, Goto, Answer, NoSnapshot, callVars, writerVars
  <2>3. UNCHANGED writerVars
    BY DEF Begin
  <2>4. /\ view' \in [Readers -> View]
        /\ \A q \in Readers : Causal(view[q])' /\ Happened(view[q])'
        /\ \A q \in Readers : q # r => view'[q] = view[q]
        /\ view'[r].sequence >= view[r].sequence
    BY <2>1, <2>2, <2>3, LearnKeeps
  <2> USE DEF Begin, Goto, Answer, NoSnapshot, callVars, writerVars
  <2>5. TypeOK'
    BY <1>1, <2>4 DEF IInv, TypeOK, FindExhausted, Steps, Results, View
  <2>6. Reading(r)'
    BY <1>1, <2>4, <2>5 DEF IInv, TypeOK, FindExhausted, Reading, View
  <2> QED
    BY <1>1, <2>4, <2>5, <2>6, ReaderStep DEF IInv, TypeOK, FindExhausted
<1>2. CASE ~FindExhausted(r)
  <2>1. TypeOK'
    BY <1>2 DEF IInv, TypeOK, Steps, Results, View
  <2>2. Reading(r)'
    BY <1>2, <2>1 DEF IInv, TypeOK, Reading, View
  <2> QED
    BY <1>2, <2>1, <2>2, ReaderStep DEF IInv, TypeOK, NoTornSnapshot, Causal, Happened
<1> QED
  BY <1>1, <1>2

\* LoadSequence: an even value bounds the rest of the call from below.
LEMMA LoadSequenceStep ==
  ASSUME IInv, NEW r \in Readers, LoadSequence(r)
  PROVE  IInv'
<1>0. PICK v \in view[r].sequence..sequence :
          /\ Learn(r, SequenceView(v))
          /\ before' = [before EXCEPT ![r] = v]
          /\ IF v % 2 = 1
             THEN Answer(r, NoSnapshot("Unstable"))
             ELSE Goto(r, "fields") /\ UNCHANGED result
  BY DEF LoadSequence
<1>1. v \in Nat /\ v <= sequence /\ view[r].sequence <= v /\ Message(SequenceView(v))
  BY SequenceMessage DEF IInv, TypeOK, View
<1>2. UNCHANGED writerVars /\ Learn(r, SequenceView(v))
  BY <1>0 DEF LoadSequence, writerVars
<1>3. /\ view' \in [Readers -> View]
      /\ \A q \in Readers : Causal(view[q])' /\ Happened(view[q])'
      /\ \A q \in Readers : q # r => view'[q] = view[q]
      /\ view'[r].sequence >= view[r].sequence
      /\ view'[r].sequence >= SequenceView(v).sequence
      /\ \A i \in Fields : view'[r].field[i] >= view[r].field[i]
      /\ \A i \in Fields : view'[r].field[i] >= SequenceView(v).field[i]
  BY <1>1, <1>2, LearnKeeps
<1>4. SequenceView(v).sequence = v
  BY DEF SequenceView
<1>5. /\ before' = [before EXCEPT ![r] = v] /\ next' = [next EXCEPT ![r] = 1]
      /\ UNCHANGED <<after, got, floor>>
  BY <1>0 DEF LoadSequence
<1>6. CASE v % 2 = 1
  <2>1. /\ step' = [step EXCEPT ![r] = "idle"]
        /\ result' = [result EXCEPT ![r] = NoSnapshot("Unstable")]
    BY <1>0, <1>6 DEF Answer, Goto
  <2>2. NoSnapshot("Unstable") \in Results /\ NoSnapshot("Unstable").status # "Snapshot"
    BY DEF NoSnapshot, Results
  <2>3. TypeOK'
    BY <1>1, <1>2, <1>3, <1>5, <2>1, <2>2 DEF IInv, TypeOK, Steps, writerVars
  <2>4. view[r] \in View /\ view'[r] \in View
    BY <1>3 DEF IInv, TypeOK
  <2>5. Reading(r)'
    BY <1>3, <1>5, <2>1, <2>4 DEF IInv, TypeOK, Reading, View
  <2> QED
    BY <1>2, <1>3, <1>5, <2>1, <2>2, <2>3, <2>5, ReaderStep DEF IInv, TypeOK
<1>7. CASE v % 2 # 1
  <2>1. step' = [step EXCEPT ![r] = "fields"] /\ UNCHANGED result
    BY <1>0, <1>7 DEF Goto
  <2>2. TypeOK'
    BY <1>1, <1>2, <1>3, <1>5, <2>1 DEF IInv, TypeOK, Steps, writerVars
  <2>3. /\ view[r] \in View /\ view'[r] \in View
        /\ before'[r] = v /\ next'[r] = 1 /\ step'[r] = "fields" /\ v % 2 = 0
    <3>1. v % 2 = 0
      BY <1>1, <1>7
    <3> QED
      BY <3>1, <1>3, <1>5, <2>1 DEF IInv, TypeOK
  <2>4. /\ floor'[r] <= view'[r].sequence /\ floor'[r] <= v
        /\ v <= view'[r].sequence
    <3>1. floor[r] \in Nat /\ floor[r] <= view[r].sequence /\ floor'[r] = floor[r]
      BY <1>5 DEF IInv, TypeOK, Reading
    <3>2. view[r].sequence \in Nat /\ view'[r].sequence \in Nat
      BY <2>3 DEF View
    <3> QED
      BY <3>1, <3>2, <1>1, <1>3, <1>4
  <2>5. 1 \in Fields /\ \A i \in Fields : ~(i < 1)
    BY DEF Fields
  <2>6. Reading(r)'
    BY <2>3, <2>4, <2>5 DEF Reading
  <2> QED
    BY <1>2, <1>3, <1>5, <2>1, <2>2, <2>6, ReaderStep DEF IInv, TypeOK, NoTornSnapshot
<1> QED
  BY <1>6, <1>7

\* LoadField: a field of a later publication comes with its sequence.
LEMMA LoadFieldStep ==
  ASSUME IInv, NEW r \in Readers, LoadField(r)
  PROVE  IInv'
<1> DEFINE n == next[r]
<1>0. n \in Fields /\ step[r] = "fields" /\ view[r] \in View
  BY DEF LoadField, IInv, TypeOK
<1> PICK p \in view[r].field[n]..field[n] :
          /\ Learn(r, FieldView(n, p))
          /\ got' = [got EXCEPT ![r][n] = p]
  BY DEF LoadField
<1>1. p \in Nat /\ p <= field[n] /\ view[r].field[n] <= p /\ Message(FieldView(n, p))
  <2>1. p \in Nat /\ p <= field[n] /\ view[r].field[n] <= p
    BY <1>0 DEF IInv, TypeOK, View
  <2> QED
    BY <1>0, <2>1, FieldMessage DEF IInv
<1>2. UNCHANGED writerVars /\ Learn(r, FieldView(n, p))
  BY DEF LoadField, writerVars
<1>3. /\ view' \in [Readers -> View]
      /\ \A q \in Readers : Causal(view[q])' /\ Happened(view[q])'
      /\ \A q \in Readers : q # r => view'[q] = view[q]
      /\ view'[r].sequence >= view[r].sequence
      /\ view'[r].sequence >= FieldView(n, p).sequence
      /\ \A i \in Fields : view'[r].field[i] >= view[r].field[i]
      /\ \A i \in Fields : view'[r].field[i] >= FieldView(n, p).field[i]
  BY <1>1, <1>2, LearnKeeps
<1>4. FieldView(n, p).field[n] = p
  <2>1. n <= n
    BY <1>0 DEF Fields
  <2> QED
    BY <1>0, <2>1 DEF FieldView
<1>5. TypeOK'
  <2>1. got' \in [Readers -> [Fields -> Nat]]
    BY <1>0, <1>1 DEF IInv, TypeOK
  <2>2. next' \in [Readers -> 1..NumFields + 1]
    BY <1>0 DEF IInv, TypeOK, LoadField, Fields
  <2>3. step' \in [Readers -> Steps]
    BY DEF IInv, TypeOK, LoadField, Goto, Steps
  <2> QED
    BY <1>3, <2>1, <2>2, <2>3 DEF IInv, TypeOK, LoadField, writerVars
<1>6. /\ view'[r] \in View /\ before'[r] = before[r] /\ floor'[r] = floor[r]
      /\ next'[r] = n + 1
      /\ step'[r] = IF n = NumFields THEN "again" ELSE "fields"
  BY <1>0, <1>3 DEF IInv, TypeOK, LoadField, Goto
<1>7. ASSUME NEW i \in Fields, i < n + 1
      PROVE  before[r] <= 2 * got'[r][i] + 1 /\ got'[r][i] <= view'[r].field[i]
  <2>1. CASE i = n
    <3>1. got'[r][i] = p
      BY <2>1, <1>0 DEF IInv, TypeOK
    <3>2. before[r] <= view[r].sequence /\ view[r].sequence <= 2 * view[r].field[n] + 1
      BY <1>0 DEF IInv, Reading, Causal
    <3> QED
      BY <2>1, <3>1, <3>2, <1>0, <1>1, <1>3, <1>4, <1>6 DEF IInv, TypeOK, View
  <2>2. CASE i # n
    <3>1. got'[r][i] = got[r][i] /\ i < n
      BY <2>2, <1>0, <1>7 DEF IInv, TypeOK, Fields
    <3>2. before[r] <= 2 * got[r][i] + 1 /\ got[r][i] <= view[r].field[i]
      BY <3>1, <1>0 DEF IInv, Reading
    <3> QED
      BY <3>1, <3>2, <1>0, <1>3, <1>6 DEF IInv, TypeOK, View
  <2> QED
    BY <2>1, <2>2
<1>8. /\ before[r] % 2 = 0 /\ floor[r] <= before[r]
      /\ before[r] <= view[r].sequence /\ floor[r] <= view[r].sequence
  BY <1>0 DEF IInv, Reading
<1>9. Reading(r)'
  <2>1. floor[r] <= view'[r].sequence /\ before[r] <= view'[r].sequence
    BY <1>0, <1>3, <1>6, <1>8 DEF IInv, TypeOK, View
  <2>2. IF n = NumFields THEN n + 1 = NumFields + 1 ELSE n + 1 \in Fields
    BY <1>0 DEF Fields
  <2> QED
    BY <1>6, <1>7, <1>8, <2>1, <2>2 DEF Reading
<1> QED
  BY <1>3, <1>5, <1>9, ReaderStep DEF IInv, TypeOK, LoadField, Goto, NoTornSnapshot, writerVars

\* LoadAgain: the fields already loaded bound the second sequence.
LEMMA LoadAgainStep ==
  ASSUME IInv, NEW r \in Readers, LoadAgain(r)
  PROVE  IInv'
<1> PICK v \in view[r].sequence..sequence :
          /\ Learn(r, SequenceView(v))
          /\ after' = [after EXCEPT ![r] = v]
  BY DEF LoadAgain
<1>0. step[r] = "again" /\ view[r] \in View
  BY DEF LoadAgain, IInv, TypeOK
<1>1. v \in Nat /\ v <= sequence /\ view[r].sequence <= v /\ Message(SequenceView(v))
  BY <1>0, SequenceMessage DEF IInv, TypeOK, View
<1>2. UNCHANGED writerVars /\ Learn(r, SequenceView(v))
  BY DEF LoadAgain, writerVars
<1>3. /\ view' \in [Readers -> View]
      /\ \A q \in Readers : Causal(view[q])' /\ Happened(view[q])'
      /\ \A q \in Readers : q # r => view'[q] = view[q]
      /\ view'[r].sequence >= view[r].sequence
      /\ view'[r].sequence >= SequenceView(v).sequence
      /\ \A i \in Fields : view'[r].field[i] >= view[r].field[i]
      /\ \A i \in Fields : view'[r].field[i] >= SequenceView(v).field[i]
  BY <1>1, <1>2, LearnKeeps
<1>4. TypeOK'
  BY <1>1, <1>3 DEF IInv, TypeOK, LoadAgain, Goto, Steps, writerVars
<1>5. /\ view'[r] \in View /\ step'[r] = "latch" /\ after'[r] = v
      /\ UNCHANGED <<sequence, next, before, got, floor>>
  BY <1>3 DEF IInv, TypeOK, LoadAgain, Goto, writerVars
<1>6. ASSUME NEW i \in Fields
      PROVE  /\ before[r] <= 2 * got[r][i] + 1
             /\ got[r][i] <= view'[r].field[i]
             /\ 2 * got[r][i] <= v + 1
  <2>1. i < next[r]
    BY <1>0 DEF IInv, Reading, Fields
  <2>2. before[r] <= 2 * got[r][i] + 1 /\ got[r][i] <= view[r].field[i]
    BY <1>0, <2>1 DEF IInv, Reading
  <2>3. 2 * view[r].field[i] <= view[r].sequence + 1
    BY DEF IInv, Causal
  <2> QED
    BY <1>0, <1>1, <1>3, <1>5, <2>2, <2>3 DEF IInv, TypeOK, View
<1>7. /\ next[r] = NumFields + 1 /\ before[r] % 2 = 0
      /\ floor[r] <= before[r] /\ before[r] <= view[r].sequence
  BY <1>0 DEF IInv, Reading
<1>8. Reading(r)'
  BY <1>0, <1>1, <1>3, <1>5, <1>6, <1>7 DEF IInv, TypeOK, Reading, View
<1> QED
  BY <1>3, <1>4, <1>8, ReaderStep DEF IInv, TypeOK, LoadAgain, Goto, NoTornSnapshot, writerVars

\* Finish: two equal even sequences leave the fields no room.
LEMMA StableIsWhole ==
  ASSUME IInv, NEW r \in Readers, step[r] = "latch", Stable(r)
  PROVE  \A i \in Fields : 2 * got[r][i] = before[r]
<1> SUFFICES ASSUME NEW i \in Fields PROVE 2 * got[r][i] = before[r]
  OBVIOUS
<1>1. got[r][i] \in Nat /\ before[r] \in Nat /\ after[r] = before[r] /\ before[r] % 2 = 0
  BY DEF IInv, TypeOK, Stable
<1>2. i < next[r]
  BY DEF IInv, Reading, Fields
<1>3. before[r] <= 2 * got[r][i] + 1 /\ 2 * got[r][i] <= before[r] + 1
  BY <1>1, <1>2 DEF IInv, Reading
<1> QED
  BY <1>1, <1>3

LEMMA FinishStep ==
  ASSUME IInv, NEW r \in Readers, Finish(r)
  PROVE  IInv'
<1>0. step[r] = "latch" /\ UNCHANGED <<writerVars, next, before, after, got, floor>>
  BY DEF Finish
<1>1. CASE FindExhausted(r)
  <2>1. Message(WriterView) /\ Learn(r, WriterView)
    BY <1>1, WriterMessage DEF IInv, FindExhausted
  <2>2. /\ view' \in [Readers -> View]
        /\ \A q \in Readers : Causal(view[q])' /\ Happened(view[q])'
        /\ \A q \in Readers : q # r => view'[q] = view[q]
        /\ view'[r].sequence >= view[r].sequence
    BY <1>0, <2>1, LearnKeeps
  <2>3. /\ step' = [step EXCEPT ![r] = "idle"]
        /\ result' = [result EXCEPT ![r] = NoSnapshot("Exhausted")]
    BY <1>1 DEF FindExhausted, Answer, Goto
  <2>4. NoSnapshot("Exhausted") \in Results /\ NoSnapshot("Exhausted").status # "Snapshot"
    BY DEF NoSnapshot, Results
  <2>5. TypeOK'
    BY <1>0, <2>2, <2>3, <2>4 DEF IInv, TypeOK, Steps, writerVars
  <2>6. view[r] \in View /\ view'[r] \in View
    BY <2>2 DEF IInv, TypeOK
  <2>7. Reading(r)'
    BY <1>0, <2>2, <2>3, <2>6 DEF IInv, TypeOK, Reading, View
  <2> QED
    BY <1>0, <2>2, <2>3, <2>4, <2>5, <2>7, ReaderStep DEF IInv, TypeOK
<1>2. CASE ~FindExhausted(r)
  <2> DEFINE a == IF Stable(r)
                  THEN [status |-> "Snapshot", revision |-> before[r], field |-> got[r]]
                  ELSE NoSnapshot("Unstable")
  <2>1. /\ step' = [step EXCEPT ![r] = "idle"] /\ result' = [result EXCEPT ![r] = a]
        /\ UNCHANGED view
    BY <1>2 DEF Finish, Answer, Goto
  <2>2. a \in Results
    BY DEF IInv, TypeOK, Results, NoSnapshot
  <2>3. a.status = "Snapshot" => \A i \in Fields : 2 * a.field[i] = a.revision
    BY <1>0, StableIsWhole DEF NoSnapshot
  <2> HIDE DEF a
  <2>4. TypeOK'
    BY <1>0, <2>1, <2>2 DEF IInv, TypeOK, Steps, writerVars
  <2>5. Reading(r)'
    BY <1>0, <2>1 DEF IInv, TypeOK, Reading
  <2> QED
    BY <1>0, <2>1, <2>3, <2>4, <2>5, ReaderStep
       DEF IInv, TypeOK, Causal, Happened, writerVars
<1> QED
  BY <1>1, <1>2

\* Meet: the reader learns everything at once.
LEMMA MeetStep ==
  ASSUME IInv, NEW r \in Readers, Meet(r)
  PROVE  IInv'
<1>1. Message(WriterView) /\ Learn(r, WriterView) /\ UNCHANGED writerVars
      /\ step[r] = "idle" /\ UNCHANGED <<callVars, result>>
  BY WriterMessage DEF IInv, Meet
<1>2. /\ view' \in [Readers -> View]
      /\ \A q \in Readers : Causal(view[q])' /\ Happened(view[q])'
      /\ \A q \in Readers : q # r => view'[q] = view[q]
      /\ view'[r].sequence >= view[r].sequence
  BY <1>1, LearnKeeps
<1>3. TypeOK'
  BY <1>1, <1>2 DEF IInv, TypeOK, writerVars, callVars
<1>4. view[r] \in View /\ view'[r] \in View
  BY <1>2 DEF IInv, TypeOK
<1>5. Reading(r)'
  BY <1>1, <1>2, <1>4 DEF IInv, TypeOK, Reading, View, callVars
<1> QED
  BY <1>1, <1>2, <1>3, <1>5, ReaderStep DEF callVars, IInv, NoTornSnapshot

-----------------------------------------------------------------------------

LEMMA InitInv ==
  ASSUME Init
  PROVE  IInv
<1>1. TypeOK
  <2>1. [sequence |-> 0, field |-> [i \in Fields |-> 0], exhausted |-> FALSE] \in View
    BY DEF View
  <2>2. NoSnapshot("None") \in Results
    BY DEF NoSnapshot, Results
  <2>3. 1 \in 1..NumFields + 1 /\ 0 \in 0..NumFields + 1 /\ 0 \in 0..MaxSequence
    OBVIOUS
  <2> QED
    BY <2>1, <2>2, <2>3 DEF Init, TypeOK, Steps
<1>2. WriterCoherent /\ NoTornSnapshot
  BY DEF Init, WriterCoherent, NoTornSnapshot, NoSnapshot
<1>3. ASSUME NEW r \in Readers PROVE Causal(view[r]) /\ Happened(view[r]) /\ Reading(r)
  BY DEF Init, Causal, Happened, Reading
<1> QED
  BY <1>1, <1>2, <1>3 DEF IInv

LEMMA NextInv ==
  ASSUME IInv, [Next]_vars
  PROVE  IInv'
<1>1. CASE Publish
  BY <1>1, PublishStep
<1>2. ASSUME NEW r \in Readers, Read(r) \/ Meet(r) PROVE IInv'
  BY <1>2, BeginStep, LoadSequenceStep, LoadFieldStep, LoadAgainStep, FinishStep,
     MeetStep DEF Read
<1>3. CASE UNCHANGED vars
  <2> USE <1>3 DEF vars, writerVars, callVars
  <2>1. TypeOK' /\ WriterCoherent' /\ NoTornSnapshot'
    BY DEF IInv, TypeOK, WriterCoherent, NoTornSnapshot
  <2>2. ASSUME NEW r \in Readers
        PROVE  Causal(view[r])' /\ Happened(view[r])' /\ Reading(r)'
    <3>1. Causal(view[r]) /\ Happened(view[r]) /\ Reading(r)
      BY DEF IInv
    <3> QED
      BY <3>1 DEF Causal, Happened, Reading
  <2> QED
    BY <2>1, <2>2 DEF IInv
<1> QED
  BY <1>1, <1>2, <1>3 DEF Next

\* The invariant holds throughout: the cell's sequence never passes its
\* bound, and what a reader knows has happened.
THEOREM Invariant == Spec => []IInv
  BY InitInv, NextInv, PTL DEF Spec

\* Types hold in every state; with them, publish never stores past the bound
\* that it checks once per publication.
THEOREM TypeCorrect == Spec => []TypeOK
<1>1. IInv => TypeOK
  BY DEF IInv
<1> QED
  BY <1>1, Invariant, PTL

\* tryRead never returns a snapshot mixed from two publications.
THEOREM SnapshotIsWhole == Spec => []NoTornSnapshot
<1>1. IInv => NoTornSnapshot
  BY DEF IInv
<1> QED
  BY <1>1, Invariant, PTL
-----------------------------------------------------------------------------

\* A call that ends while nothing was published since the reader last knew of
\* everything returns the last publication.
LEMMA QuietStep ==
  ASSUME IInv, [Next]_vars, NEW r \in Readers,
         step[r] # "idle", step'[r] = "idle",
         floor[r] = sequence, writing = 0, ~exhausted
  PROVE  result'[r] = [status |-> "Snapshot", revision |-> sequence, field |-> field]
<1>0. /\ view[r] \in View /\ sequence \in Nat /\ before[r] \in Nat /\ after[r] \in Nat
      /\ field \in [Fields -> Nat] /\ got[r] \in [Fields -> Nat]
      /\ ~view[r].exhausted
      /\ view[r].sequence = sequence
  BY DEF IInv, TypeOK, View, Happened, Reading
<1>1. \A i \in Fields : sequence = 2 * field[i]
  BY DEF IInv, WriterCoherent
<1>2. sequence % 2 = 0
  <2>1. 1 \in Fields /\ field[1] \in Nat /\ sequence = 2 * field[1]
    BY <1>0, <1>1 DEF Fields
  <2> QED
    BY <2>1
<1>3. LoadSequence(r) \/ Finish(r)
  <2>1. Read(r)
    <3>1. step'[r] # step[r]
      OBVIOUS
    <3>2. ~UNCHANGED step
      BY <3>1
    <3>3. ~Publish /\ ~UNCHANGED vars /\ \A q \in Readers : ~Meet(q)
      BY <3>2 DEF Publish, Exhaust, OpenPublication, StoreField, ClosePublication, Meet,
         vars, callVars
    <3>4. \A q \in Readers : Read(q) => step' = [step EXCEPT ![q] = step'[q]]
      BY DEF Read, Begin, LoadSequence, LoadField, LoadAgain, Finish, FindExhausted,
         Answer, Goto, IInv, TypeOK
    <3> QED
      BY <3>1, <3>3, <3>4 DEF Next, IInv, TypeOK
  <2> QED
    BY <2>1 DEF Read, Begin, LoadField, LoadAgain, Goto, IInv, TypeOK
<1>4. ~LoadSequence(r)
  <2> SUFFICES ASSUME LoadSequence(r) PROVE FALSE
    OBVIOUS
  <2>1. PICK v \in view[r].sequence..sequence :
          IF v % 2 = 1
          THEN Answer(r, NoSnapshot("Unstable"))
          ELSE Goto(r, "fields") /\ UNCHANGED result
    BY DEF LoadSequence
  <2>2. v = sequence
    BY <2>1, <1>0
  <2> QED
    BY <2>1, <2>2, <1>2 DEF Goto, IInv, TypeOK
<1>5. Finish(r)
  BY <1>3, <1>4
<1>6. step[r] = "latch" /\ ~FindExhausted(r)
  BY <1>5 DEF Finish, FindExhausted
<1>7. before[r] = sequence /\ after[r] = sequence
  <2>1. Reading(r)
    BY DEF IInv
  <2>2. /\ floor[r] <= before[r] /\ before[r] <= view[r].sequence
        /\ floor[r] <= after[r] /\ after[r] <= sequence
    BY <2>1, <1>6 DEF Reading
  <2> QED
    BY <2>2, <1>0
<1>8. Stable(r)
  BY <1>2, <1>7 DEF Stable
<1>9. got[r] = field
  <2>1. ASSUME NEW i \in Fields PROVE got[r][i] = field[i]
    <3>1. 2 * got[r][i] = sequence /\ sequence = 2 * field[i]
      BY <1>1, <1>6, <1>7, <1>8, StableIsWhole
    <3> QED
      BY <3>1, <1>0
  <2> QED
    BY <2>1, <1>0
<1>10. result' = [result EXCEPT ![r] =
                    [status |-> "Snapshot", revision |-> before[r], field |-> got[r]]]
  BY <1>5, <1>6, <1>8 DEF Finish, Answer
<1> QED
  BY <1>7, <1>9, <1>10 DEF IInv, TypeOK

\* A read that races no publication succeeds and is the latest: a reader
\* that polls after the control path told it of a generation never gets an
\* older one, and Unstable always means a writer was there.
THEOREM QuietRead == Spec => QuietReadSucceeds
<1>1. IInv /\ [Next]_vars =>
        [\A r \in Readers :
            /\ step[r] # "idle" /\ step'[r] = "idle"
            /\ floor[r] = sequence /\ writing = 0 /\ ~exhausted
            => result'[r] = [status |-> "Snapshot", revision |-> sequence,
                             field |-> field]]_vars
  BY QuietStep DEF vars, callVars
<1> QED
  BY <1>1, Invariant, PTL DEF Spec, QuietReadSucceeds
=============================================================================
