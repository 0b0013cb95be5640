----------------------- MODULE SourceVerificationProofs ------------------------
(***************************************************************************)
(* Proofs about SourceVerification, for any directories, names, bound on   *)
(* the changes of a file, worlds and valid contents: what is compiled is   *)
(* what was recorded, and, in a world where nothing recurs, a verified     *)
(* scan is the directory at one moment.                                    *)
(***************************************************************************)
EXTENDS SourceVerification, WellFoundedInduction, TLAPS

-----------------------------------------------------------------------------
(* Where nothing recurs, a file only ever moves on: its chunks go up, and  *)
(* it is absent, then there, then unreadable, or the last two and then     *)
(* gone for good.                                                          *)

Stage(f) ==
    IF f.at = "file" THEN 1
    ELSE IF f.at = "denied" THEN 2
    ELSE IF f.fixed THEN 3 ELSE 0

\* It came while others looked on; otherwise it was there from the start.
Born(f) == IF f.at = "absent" THEN ~f.fixed ELSE f.fixed

Before(f, g) ==
    /\ f.head <= g.head /\ f.tail <= g.tail
    /\ Stage(f) <= Stage(g)
    /\ Born(f) = Born(g)

\* It has been there; it has not always been there.
HasBeen(f) == Stage(f) >= 1
HasLacked(f) == Born(f) \/ f.at = "absent"

\* What a list of names says of a file at the end of the listing, or later.
Listed(names, l, f) == IF l \in names THEN HasBeen(f) ELSE HasLacked(f)

\* What a candidate says of its file when the file has been read, or later.
ReadFrom(c, f) ==
    IF c.revision = None THEN Stage(f) >= 2
    ELSE c.revision[1] <= f.head /\ c.revision[2] <= f.tail

-----------------------------------------------------------------------------
(* The invariant.                                                          *)

ReadPhases == {"read", "reread", "first", "second"}

\* A read is of the file at hand.
AtHand == reader.loc # None => job.pc \in ReadPhases /\ job.todo # {} /\ reader.loc = Current

\* A Ready entry is valid, and of the directory at hand.
Sound(e) == e.state = "Ready" => e.revision \in Valid /\ e.dir = root.dir

Recorded ==
    /\ \A l \in Locators : Sound(songs[l])
    /\ job.pc # "idle" => \A l \in Locators : Sound(job.found[l])
    /\ held.generation = root.generation => \A l \in Locators : Sound(held.songs[l])
    /\ job.pc \in PreparePhases =>
          /\ job.song.state = "Ready" /\ Sound(job.song)
          /\ \E l \in Locators : job.todo = {l}
    /\ job.pc \in {"compile", "second", "prepared"} =>
          \A l \in job.todo : job.found[l].revision = job.song.revision
                              /\ job.found[l].state = "Ready"

\* The first collection and reading lie behind.
First ==
    /\ job.pc = "enumerate" =>
          \A l \in Locators : l \in job.names \/ l \notin job.todo =>
              Listed(job.names, l, disk[l])
    /\ job.pc \in {"read", "exists"} =>
          /\ job.todo \subseteq job.names
          /\ \A l \in Locators : Listed(job.names, l, disk[l])
          /\ \A l \in job.names \ job.todo : ReadFrom(job.found[l], disk[l])
    /\ job.pc = "exists" => job.todo # {} /\ Stage(disk[Current]) >= 2
    /\ job.pc = "compile" =>
          \A l \in job.todo : HasBeen(disk[l]) /\ ReadFrom(job.found[l], disk[l])
    /\ reader.loc # None /\ job.pc \in {"read", "first"} =>
          /\ reader.head <= disk[reader.loc].head
          /\ reader.rest <= disk[reader.loc].tail
          /\ HasBeen(disk[reader.loc])

\* The second lies ahead of the moment remembered.
Afterwards == {"reenumerate", "reread", "verified", "second", "prepared"}

Second ==
    /\ job.pc \in Afterwards => \A l \in Locators : Before(middle[l], disk[l])
    /\ job.pc \in {"reenumerate", "reread", "verified"} =>
          /\ \A l \in Locators : Listed(job.names, l, middle[l])
          /\ \A l \in job.names : ReadFrom(job.found[l], middle[l])
    /\ job.pc \in {"second", "prepared"} =>
          \A l \in job.todo : HasBeen(middle[l]) /\ ReadFrom(job.found[l], middle[l])
    /\ reader.loc # None /\ job.pc \in {"reread", "second"} =>
          /\ middle[reader.loc].head <= reader.head
          /\ middle[reader.loc].tail <= reader.rest
          /\ Stage(middle[reader.loc]) <= 1

\* A name, and a content, that is the same afterwards was so at that moment.
SameThen(l) == l \in job.names <=> middle[l].at # "absent"
ContentThen(l) ==
    job.found[l].revision # None =>
        /\ middle[l].at = "file"
        /\ job.found[l].revision = <<middle[l].head, middle[l].tail>>

Agreed ==
    /\ job.pc \in {"reenumerate", "reread", "verified"} =>
          \A l \in Locators : (job.pc = "reenumerate" => l \notin job.todo) => SameThen(l)
    /\ job.pc \in {"reread", "verified"} =>
          /\ job.todo \subseteq job.names
          /\ \A l \in job.names \ job.todo : ContentThen(l)
    /\ job.pc = "verified" => job.todo = {}
    /\ job.pc = "prepared" => \A l \in job.todo : ContentThen(l)

VInv == TypeOK /\ AtHand /\ Recorded /\ (~world.recurs => First /\ Second /\ Agreed)

-----------------------------------------------------------------------------
(* Files.                                                                  *)

LEMMA BeforeItself ==
    ASSUME NEW f \in File
    PROVE  Before(f, f) /\ Stage(f) \in 0..3
BY VersionAssumption DEF Before, Stage, File, Versions

LEMMA BeforeBoth ==
    ASSUME NEW f \in File, NEW g \in File, NEW h \in File, Before(f, g), Before(g, h)
    PROVE  Before(f, h)
<1>1. Stage(f) \in Nat /\ Stage(g) \in Nat /\ Stage(h) \in Nat
  BY BeforeItself
<1> HIDE DEF Stage
<1> QED
  BY <1>1, VersionAssumption DEF Before, File, Versions

\* What was said of a file stays true of it.
LEMMA StillTrue ==
    ASSUME NEW f \in File, NEW g \in File, Before(f, g), NEW names, NEW l,
           NEW c \in Entry
    PROVE  /\ HasBeen(f) => HasBeen(g)
           /\ Stage(f) >= 2 => Stage(g) >= 2
           /\ Listed(names, l, f) => Listed(names, l, g)
           /\ ReadFrom(c, f) => ReadFrom(c, g)
<1>1. Stage(f) \in 0..3 /\ Stage(g) \in 0..3 /\ Stage(f) <= Stage(g)
  BY BeforeItself DEF Before
<1>2. /\ HasBeen(f) => HasBeen(g)
      /\ Stage(f) >= 2 => Stage(g) >= 2
  BY <1>1 DEF HasBeen
<1>3. HasLacked(f) => HasLacked(g)
  BY DEF HasLacked, Born, Before, Stage, File
<1>4. ReadFrom(c, f) => ReadFrom(c, g)
  <2>1. f.head \in Nat /\ f.tail \in Nat /\ g.head \in Nat /\ g.tail \in Nat
        /\ f.head <= g.head /\ f.tail <= g.tail
    BY VersionAssumption DEF File, Versions, Before
  <2>2. c.revision # None => c.revision[1] \in Nat /\ c.revision[2] \in Nat
    BY VersionAssumption DEF Entry, Content, Versions
  <2> QED
    BY <1>2, <2>1, <2>2 DEF ReadFrom
<1> QED
  BY <1>2, <1>3, <1>4 DEF Listed

\* There at both ends, or at neither: the same in between.
LEMMA SameBetween ==
    ASSUME NEW m \in File, NEW g \in File, Before(m, g), NEW names, NEW l,
           Listed(names, l, m), (l \in names) = (g.at # "absent")
    PROVE  l \in names <=> m.at # "absent"
BY DEF Before, Stage, Born, HasBeen, HasLacked, Listed, File

LEMMA CurrentIs ==
    ASSUME NEW S, S \subseteq Locators, S # {}
    PROVE  \E l \in S : \A k \in S : l <= k
<1>1. S \subseteq Nat
  BY LocatorAssumption
<1>2. PICK l \in S : \A k \in S : ~ (<<k, l>> \in OpToRel(<, Nat))
  BY <1>1, WFMin, NatLessThanWellFounded
<1>3. \A k \in S : ~ (k < l)
  BY <1>1, <1>2 DEF OpToRel
<1> QED
  BY <1>1, <1>3

LEMMA CurrentIn ==
    ASSUME job \in Job, job.todo # {}
    PROVE  Current \in job.todo /\ Current \in Locators
BY CurrentIs DEF Current, Job

-----------------------------------------------------------------------------
(* Other programs.                                                         *)

LEMMA OthersMoveOn ==
    ASSUME TypeOK, Others
    PROVE  /\ disk' \in [Locators -> File]
           /\ reader' \in Reader
           /\ reader'.loc = reader.loc /\ reader'.head = reader.head
           /\ ~world.recurs => \A l \in Locators : Before(disk[l], disk'[l])
           /\ reader.loc \in Locators => reader'.rest \in {reader.rest, disk'[reader.loc].tail}
<1>1. PICK l \in world.names :
          WriteHead(l) \/ WriteTail(l) \/ Put(l) \/ Remove(l) \/ Permit(l)
  BY DEF Others
<1>2. l \in Locators /\ world.recurs \in BOOLEAN
  BY WorldAssumption DEF TypeOK
<1>3. disk \in [Locators -> File] /\ reader \in Reader /\ disk[l] \in File
  BY <1>2 DEF TypeOK
<1>4. \A v \in Versions : Later(v) \subseteq Versions
                          /\ (~world.recurs => \A w \in Later(v) : w = v + 1)
  BY DEF Later
<1>5. Versions \subseteq Nat
  BY VersionAssumption DEF Versions
<1>6. disk[l].head \in Nat /\ disk[l].tail \in Nat
  <2>1. disk[l].head \in Versions /\ disk[l].tail \in Versions
    BY <1>3 DEF File
  <2> QED
    BY <1>5, <2>1
<1>7. \E f \in File :
          /\ disk' = [disk EXCEPT ![l] = f]
          /\ ~world.recurs => Before(disk[l], f)
          /\ \/ reader' = reader
             \/ reader' = [reader EXCEPT !.live = FALSE]
             \/ reader.loc = l /\ reader' = [reader EXCEPT !.rest = f.tail]
  <2>1. CASE WriteHead(l)
    <3>1. PICK v \in Later(disk[l].head) : disk' = [disk EXCEPT ![l].head = v]
      BY <2>1 DEF WriteHead
    <3>2. v \in Versions /\ (~world.recurs => v = disk[l].head + 1)
      BY <1>3, <1>4 DEF File
    <3>3. LET f == [disk[l] EXCEPT !.head = v]
          IN  f \in File /\ disk' = [disk EXCEPT ![l] = f] /\ (~world.recurs => Before(disk[l], f))
      BY <1>3, <1>5, <3>1, <3>2 DEF File, Before, Stage, Born
    <3> QED
      BY <2>1, <3>3 DEF WriteHead
  <2>2. CASE WriteTail(l)
    <3>1. PICK v \in Later(disk[l].tail) :
              /\ disk' = [disk EXCEPT ![l].tail = v]
              /\ reader' = IF Reading(l) THEN [reader EXCEPT !.rest = v] ELSE reader
      BY <2>2 DEF WriteTail
    <3>2. v \in Versions /\ (~world.recurs => v = disk[l].tail + 1)
      BY <1>3, <1>4 DEF File
    <3>3. LET f == [disk[l] EXCEPT !.tail = v]
          IN  f \in File /\ disk' = [disk EXCEPT ![l] = f] /\ (~world.recurs => Before(disk[l], f))
              /\ f.tail = v
      BY <1>3, <1>5, <3>1, <3>2 DEF File, Before, Stage, Born
    <3> QED
      BY <3>1, <3>3 DEF Reading
  <2>3. CASE Put(l)
    <3>1. PICK v \in Later(disk[l].head), w \in Later(disk[l].tail) :
              disk' = [disk EXCEPT ![l] =
                          [at |-> "file", head |-> v, tail |-> w,
                           fixed |-> disk[l].fixed
                                     \/ (~world.recurs /\ disk[l].at = "absent")]]
      BY <2>3 DEF Put
    <3>2. v \in Versions /\ (~world.recurs => v = disk[l].head + 1)
          /\ w \in Versions /\ (~world.recurs => w = disk[l].tail + 1)
      BY <1>3, <1>4 DEF File
    <3>3. /\ disk[l].at = "absent" => ~disk[l].fixed
          /\ disk[l].at = "denied" => world.recurs
      BY <2>3 DEF Put
    <3>4. LET f == [at |-> "file", head |-> v, tail |-> w,
                    fixed |-> disk[l].fixed \/ (~world.recurs /\ disk[l].at = "absent")]
          IN  f \in File /\ (~world.recurs => Before(disk[l], f))
      <4> DEFINE f == [at |-> "file", head |-> v, tail |-> w,
                       fixed |-> disk[l].fixed \/ (~world.recurs /\ disk[l].at = "absent")]
      <4>1. disk[l].fixed \in BOOLEAN /\ f.fixed \in BOOLEAN
        BY <1>2, <1>3 DEF File
      <4>2. f \in File
        BY <3>2, <4>1 DEF File
      <4>3. f.at = "file" /\ f.head = v /\ f.tail = w
            /\ (~world.recurs /\ disk[l].at = "absent" => f.fixed = TRUE)
            /\ (disk[l].at # "absent" => f.fixed = disk[l].fixed)
        BY <4>1
      <4> HIDE DEF f
      <4>4. ASSUME ~world.recurs PROVE Before(disk[l], f)
        <5>1. disk[l].head <= f.head /\ disk[l].tail <= f.tail
          <6>1. disk[l].head \in Nat /\ disk[l].tail \in Nat
            BY <1>6
          <6> QED
            BY <3>2, <4>3, <4>4, <6>1
        <5>2. CASE disk[l].at = "absent"
          BY <3>3, <4>1, <4>3, <4>4, <5>1, <5>2 DEF Before, Stage, Born
        <5>3. CASE disk[l].at # "absent"
          <6>1. disk[l].at = "file"
            BY <1>3, <3>3, <4>4, <5>3 DEF File
          <6> QED
            BY <4>1, <4>3, <5>1, <5>3, <6>1 DEF Before, Stage, Born
        <5> QED
          BY <5>2, <5>3
      <4> QED
        BY <4>2, <4>4 DEF f
    <3> QED
      BY <2>3, <3>1, <3>4 DEF Put
  <2>4. CASE Remove(l)
    <3>1. disk' = [disk EXCEPT ![l] = IF world.recurs THEN NoFile
                                      ELSE [at |-> "absent", head |-> disk[l].head,
                                            tail |-> disk[l].tail, fixed |-> TRUE]]
          /\ disk[l].at # "absent" /\ ~disk[l].fixed
      BY <2>4 DEF Remove
    <3>2. LET f == IF world.recurs THEN NoFile
                   ELSE [at |-> "absent", head |-> disk[l].head, tail |-> disk[l].tail,
                         fixed |-> TRUE]
          IN  f \in File /\ (~world.recurs => Before(disk[l], f))
      <4>1. CASE world.recurs
        BY <4>1, VersionAssumption DEF File, Versions, NoFile
      <4>2. CASE ~world.recurs
        <5> DEFINE f == [at |-> "absent", head |-> disk[l].head, tail |-> disk[l].tail,
                         fixed |-> TRUE]
        <5>1. f \in File /\ f.at = "absent" /\ f.fixed = TRUE
              /\ f.head = disk[l].head /\ f.tail = disk[l].tail
          BY <1>3 DEF File
        <5> HIDE DEF f
        <5>2. Before(disk[l], f)
          BY <1>3, <1>6, <3>1, <5>1 DEF File, Before, Stage, Born
        <5> QED
          BY <4>2, <5>1, <5>2 DEF f
      <4> QED
        BY <4>1, <4>2
    <3> QED
      BY <2>4, <3>1, <3>2 DEF Remove
  <2>5. CASE Permit(l)
    <3>1. CASE disk[l].at = "file" /\ disk' = [disk EXCEPT ![l].at = "denied"]
      <4>1. LET f == [disk[l] EXCEPT !.at = "denied"]
            IN  /\ f \in File /\ disk' = [disk EXCEPT ![l] = f]
                /\ ~world.recurs => Before(disk[l], f)
        BY <1>3, <1>5, <3>1 DEF File, Before, Stage, Born
      <4> QED
        BY <2>5, <4>1 DEF Permit
    <3>2. CASE disk[l].at = "denied" /\ world.recurs
               /\ disk' = [disk EXCEPT ![l].at = "file"]
      <4>1. LET f == [disk[l] EXCEPT !.at = "file"]
            IN  f \in File /\ disk' = [disk EXCEPT ![l] = f]
        BY <1>3, <3>2 DEF File
      <4> QED
        BY <2>5, <3>2, <4>1 DEF Permit
    <3> QED
      BY <2>5, <3>1, <3>2 DEF Permit
  <2> QED
    BY <1>1, <2>1, <2>2, <2>3, <2>4, <2>5
<1>8. PICK f \in File :
          /\ disk' = [disk EXCEPT ![l] = f]
          /\ ~world.recurs => Before(disk[l], f)
          /\ \/ reader' = reader
             \/ reader' = [reader EXCEPT !.live = FALSE]
             \/ reader.loc = l /\ reader' = [reader EXCEPT !.rest = f.tail]
  BY <1>7
<1>9. /\ disk' \in [Locators -> File]
      /\ ~world.recurs => \A k \in Locators : Before(disk[k], disk'[k])
  BY <1>2, <1>3, <1>8, BeforeItself
<1>10. reader' \in Reader /\ reader'.loc = reader.loc /\ reader'.head = reader.head
  BY <1>3, <1>8 DEF Reader, File
<1>11. disk'[l].tail = f.tail
  BY <1>2, <1>3, <1>8
<1>12. reader'.rest \in {reader.rest, disk'[reader.loc].tail}
  <2>1. CASE reader' = reader \/ reader' = [reader EXCEPT !.live = FALSE]
    BY <1>3, <2>1 DEF Reader
  <2>2. CASE reader.loc = l /\ reader' = [reader EXCEPT !.rest = f.tail]
    <3>1. reader'.rest = f.tail
      BY <1>3, <2>2 DEF Reader
    <3> QED
      BY <1>11, <2>2, <3>1
  <2> QED
    BY <1>8, <2>1, <2>2
<1> QED
  BY <1>9, <1>10, <1>12, Zenon

-----------------------------------------------------------------------------
(* The invariant holds at first, and other programs keep it.               *)

\* What the invariant says in a world where nothing recurs.
Steady == First /\ Second /\ Agreed

LEMMA HoldingsAre ==
    ASSUME NEW files \in Holdings
    PROVE  files \in [Locators -> File]
<1> DEFINE Now == IF world.recurs THEN Versions ELSE {0}
           Plain == [at : {"absent", "file", "denied"}, head : Now, tail : Now, fixed : {FALSE}]
<1>1. Now \subseteq Versions
  BY VersionAssumption DEF Versions
<1>2. files \in [Locators -> Plain]
  BY DEF Holdings
<1>3. ASSUME NEW f \in Plain PROVE f \in File
  <2> HIDE DEF Now
  <2> QED
    BY <1>1, <1>3 DEF File
<1> HIDE DEF Plain
<1> QED
  BY <1>2, <1>3

LEMMA InitHolds == Init => VInv
<1> SUFFICES ASSUME Init PROVE VInv
  OBVIOUS
<1>1. /\ world \in Worlds /\ world.generations \in Nat \ {0}
      /\ world.recurs \in BOOLEAN
  BY WorldAssumption DEF Init
<1>2. 0 \in Versions
  BY VersionAssumption DEF Versions
<1>3. disk \in [Locators -> File] /\ middle \in [Locators -> File]
  <2>1. NoFile \in File
    BY <1>2 DEF NoFile, File
  <2> QED
    BY <2>1, HoldingsAre DEF Init
<1>4. job = NoJob /\ NoJob \in Job /\ job.pc = "idle"
  BY DEF Init, NoJob, Job, NoEntry, Entry
<1>5. reader = NoReader /\ reader \in Reader /\ reader.loc = None
  BY <1>2 DEF Init, NoReader, Reader
<1>6. PICK d \in Dirs : root = [dir |-> d, generation |-> 1]
  BY DEF Init
<1>7. songs = [l \in Locators |-> NoEntry] /\ held = [songs |-> songs, generation |-> 1]
      /\ NoEntry \in Entry /\ NoEntry.state = "none"
  BY DEF Init, NoEntry, Entry
<1>8. TypeOK
  BY <1>1, <1>3, <1>4, <1>5, <1>6, <1>7 DEF TypeOK
<1>9. AtHand
  BY <1>5 DEF AtHand
<1>10. Recorded
  BY <1>4, <1>7 DEF Recorded, Sound, PreparePhases
<1>11. Steady
  BY <1>4, <1>5 DEF Steady, First, Second, Agreed, Afterwards
<1> QED
  BY <1>8, <1>9, <1>10, <1>11 DEF VInv, Steady

LEMMA OthersKeep == VInv /\ Others => VInv'
<1> SUFFICES ASSUME VInv, Others PROVE VInv'
  OBVIOUS
<1>1. /\ disk' \in [Locators -> File] /\ disk \in [Locators -> File]
      /\ reader' \in Reader /\ reader \in Reader
      /\ reader'.loc = reader.loc /\ reader'.head = reader.head
      /\ ~world.recurs => \A l \in Locators : Before(disk[l], disk'[l])
      /\ reader.loc \in Locators => reader'.rest \in {reader.rest, disk'[reader.loc].tail}
  BY OthersMoveOn DEF VInv, TypeOK
<1>2. UNCHANGED <<world, root, songs, held, job, middle>>
  BY DEF Others
<1>3. TypeOK'
  BY <1>1, <1>2 DEF VInv, TypeOK
<1>4. AtHand' /\ Current' = Current
  BY <1>1, <1>2 DEF VInv, AtHand, Current
<1>5. Recorded'
  BY <1>2 DEF VInv, Recorded, Sound
<1>6. ASSUME ~world.recurs PROVE Steady'
  <2>1. \A l \in Locators :
          /\ disk[l] \in File /\ disk'[l] \in File /\ middle[l] \in File
          /\ Before(disk[l], disk'[l])
          /\ disk[l].head <= disk'[l].head /\ disk[l].tail <= disk'[l].tail
          /\ job.found[l] \in Entry
    BY <1>1, <1>6 DEF VInv, TypeOK, Job, Before
  <2>2. First'
    <3>1. \A l \in Locators :
            /\ Listed(job.names, l, disk[l]) => Listed(job.names, l, disk'[l])
            /\ ReadFrom(job.found[l], disk[l]) => ReadFrom(job.found[l], disk'[l])
            /\ HasBeen(disk[l]) => HasBeen(disk'[l])
            /\ Stage(disk[l]) >= 2 => Stage(disk'[l]) >= 2
      BY <2>1, StillTrue
    <3>2. job.todo \subseteq Locators /\ job.names \subseteq Locators
          /\ (job.todo # {} => Current \in Locators)
      BY CurrentIn DEF VInv, TypeOK, Job
    <3>3. First
      BY <1>6 DEF VInv
    <3>4. job'.pc = "enumerate" =>
            \A l \in Locators : l \in job'.names \/ l \notin job'.todo =>
                Listed(job'.names, l, disk'[l])
      BY <1>2, <3>1, <3>3 DEF First
    <3>5. job'.pc \in {"read", "exists"} =>
            /\ job'.todo \subseteq job'.names
            /\ \A l \in Locators : Listed(job'.names, l, disk'[l])
            /\ \A l \in job'.names \ job'.todo : ReadFrom(job'.found[l], disk'[l])
      BY <1>2, <3>1, <3>2, <3>3 DEF First
    <3>6. job'.pc = "exists" => job'.todo # {} /\ Stage(disk'[Current']) >= 2
      BY <1>2, <1>4, <3>1, <3>2, <3>3 DEF First
    <3>7. job'.pc = "compile" =>
            \A l \in job'.todo : HasBeen(disk'[l]) /\ ReadFrom(job'.found[l], disk'[l])
      BY <1>2, <3>1, <3>2, <3>3 DEF First
    <3>8. ASSUME reader'.loc # None, job'.pc \in {"read", "first"}
          PROVE  /\ reader'.head <= disk'[reader'.loc].head
                 /\ reader'.rest <= disk'[reader'.loc].tail
                 /\ HasBeen(disk'[reader'.loc])
      <4> DEFINE l == reader.loc
      <4>1. l \in Locators /\ reader'.loc = l
        BY <1>1, <3>8 DEF Reader
      <4>2. /\ reader.head <= disk[l].head /\ reader.rest <= disk[l].tail
            /\ HasBeen(disk[l])
        BY <1>1, <1>2, <3>3, <3>8 DEF First
      <4>3. /\ reader.head \in Nat /\ reader.rest \in Nat
            /\ disk[l].head \in Nat /\ disk[l].tail \in Nat
            /\ disk'[l].head \in Nat /\ disk'[l].tail \in Nat
        BY <1>1, <4>1, VersionAssumption DEF Reader, File, Versions
      <4>4. reader'.head <= disk'[l].head
        BY <1>1, <2>1, <4>1, <4>2, <4>3
      <4>5. reader'.rest <= disk'[l].tail
        BY <1>1, <2>1, <4>1, <4>2, <4>3
      <4> QED
        BY <3>1, <4>1, <4>2, <4>4, <4>5
    <3> QED
      BY <3>4, <3>5, <3>6, <3>7, <3>8 DEF First
  <2>3. Second'
    <3>1. Second
      BY <1>6 DEF VInv
    <3>2. job'.pc \in Afterwards => \A l \in Locators : Before(middle'[l], disk'[l])
      BY <1>2, <2>1, <3>1, BeforeBoth DEF Second
    <3>3. ASSUME reader'.loc # None, job'.pc \in {"reread", "second"}
          PROVE  /\ middle'[reader'.loc].head <= reader'.head
                 /\ middle'[reader'.loc].tail <= reader'.rest
                 /\ Stage(middle'[reader'.loc]) <= 1
      <4> DEFINE l == reader.loc
      <4>1. l \in Locators /\ reader'.loc = l
        BY <1>1, <3>3 DEF Reader
      <4>2. /\ middle[l].head <= reader.head /\ middle[l].tail <= reader.rest
            /\ Stage(middle[l]) <= 1
        BY <1>1, <1>2, <3>1, <3>3 DEF Second
      <4>3. middle[l].tail <= disk'[l].tail
        BY <1>2, <3>2, <3>3, <4>1 DEF Before, Afterwards
      <4> QED
        BY <1>1, <1>2, <4>1, <4>2, <4>3
    <3> QED
      BY <1>2, <3>1, <3>2, <3>3 DEF Second
  <2>4. Agreed'
    BY <1>2, <1>6 DEF VInv, Agreed, SameThen, ContentThen
  <2> QED
    BY <2>2, <2>3, <2>4 DEF Steady
<1> QED
  BY <1>2, <1>3, <1>4, <1>5, <1>6 DEF VInv, Steady

-----------------------------------------------------------------------------
(* The steps of a call.                                                    *)

LEMMA ReadHeadKeeps == VInv /\ ReadHead => VInv'
<1> SUFFICES ASSUME VInv, ReadHead PROVE VInv'
  OBVIOUS
<1>1. /\ job \in Job /\ disk \in [Locators -> File] /\ middle \in [Locators -> File]
      /\ job.pc \in ReadPhases /\ job.todo # {} /\ disk[Current].at = "file"
      /\ reader' = [loc |-> Current, head |-> disk[Current].head,
                    rest |-> disk[Current].tail, live |-> TRUE]
      /\ UNCHANGED <<world, disk, root, songs, held, job, middle>>
  BY DEF VInv, TypeOK, ReadHead, ReadPhases
<1>2. Current \in Locators /\ Current' = Current /\ disk[Current] \in File
      /\ middle[Current] \in File
  BY <1>1, CurrentIn DEF Current
<1>3. reader'.loc = Current /\ reader'.head = disk[Current].head
      /\ reader'.rest = disk[Current].tail /\ reader' \in Reader
  BY <1>1, <1>2 DEF Reader, File
<1>4. TypeOK'
  BY <1>1, <1>3 DEF VInv, TypeOK, ReadPhases
<1>5. AtHand' /\ Recorded'
  BY <1>1, <1>2, <1>3 DEF VInv, AtHand, Recorded, Sound
<1>6. ASSUME ~world.recurs PROVE Steady'
  <2>1. disk[Current].head \in Nat /\ disk[Current].tail \in Nat /\ HasBeen(disk[Current])
    BY <1>1, <1>2, VersionAssumption DEF File, Versions, HasBeen, Stage
  <2>2. First'
    BY <1>1, <1>2, <1>3, <1>6, <2>1 DEF VInv, First
  <2>3. ASSUME job.pc \in {"reread", "second"}
        PROVE  /\ middle[Current].head <= disk[Current].head
               /\ middle[Current].tail <= disk[Current].tail
               /\ Stage(middle[Current]) <= 1
    <3>1. Before(middle[Current], disk[Current])
      BY <1>2, <1>6, <2>3 DEF VInv, Second, Afterwards
    <3>2. Stage(disk[Current]) = 1
      BY <1>1 DEF Stage
    <3> QED
      BY <3>1, <3>2 DEF Before
  <2>4. Second'
    BY <1>1, <1>2, <1>3, <1>6, <2>3 DEF VInv, Second
  <2>5. Agreed'
    BY <1>1, <1>6 DEF VInv, Agreed, SameThen, ContentThen
  <2> QED
    BY <2>2, <2>4, <2>5 DEF Steady
<1> QED
  BY <1>1, <1>4, <1>5, <1>6 DEF VInv, Steady

\* A step of a call has read what it needed.
LEMMA JobSteps ==
    ASSUME VInv, NEW j \in Job, JobStep(j), middle' \in [Locators -> File]
    PROVE  /\ TypeOK' /\ AtHand'
           /\ job' = j /\ reader'.loc = None
           /\ UNCHANGED <<world, disk, root, songs, held>>
<1>1. job' = j /\ reader' = NoReader /\ UNCHANGED <<world, disk, root, songs, held>>
  BY DEF JobStep
<1>2. reader'.loc = None /\ reader' \in Reader
  BY <1>1, VersionAssumption DEF NoReader, Reader, Versions
<1> QED
  BY <1>1, <1>2 DEF VInv, TypeOK, AtHand

\* It may start or fail: then nothing is claimed of the files.
LEMMA IdleIs == NoJob \in Job /\ NoJob.pc = "idle"
BY DEF NoJob, Job, NoEntry, Entry

LEMMA FailKeeps ==
    ASSUME VInv, Fail, middle' \in [Locators -> File]
    PROVE  VInv'
<1>1. /\ TypeOK' /\ AtHand' /\ job'.pc = "idle" /\ reader'.loc = None
      /\ UNCHANGED <<world, disk, root, songs, held>>
  BY JobSteps, IdleIs DEF Fail
<1>2. Recorded'
  BY <1>1 DEF VInv, Recorded, Sound, PreparePhases
<1>3. Steady'
  BY <1>1 DEF Steady, First, Second, Agreed, Afterwards
<1> QED
  BY <1>1, <1>2, <1>3 DEF VInv, Steady

\* What the steps of a scan and of a preparation start from.
LEMMA Facts ==
    ASSUME VInv
    PROVE  /\ job \in Job /\ job.todo \subseteq Locators /\ job.names \subseteq Locators
           /\ job.found \in [Locators -> Entry] /\ job.song \in Entry
           /\ disk \in [Locators -> File] /\ middle \in [Locators -> File]
           /\ job.todo # {} => Current \in job.todo
           /\ world.recurs \in BOOLEAN
           /\ reader.head \in Versions /\ reader.rest \in Versions /\ Bytes \in Content
           /\ Versions \subseteq Nat
BY CurrentIn, WorldAssumption, VersionAssumption
   DEF VInv, TypeOK, Job, Reader, Versions, Content, Bytes

LEMMA StartScanKeeps == VInv /\ StartScan => VInv'
<1> SUFFICES ASSUME VInv, StartScan PROVE VInv'
  OBVIOUS
<1> DEFINE j == [NoJob EXCEPT !.pc = "enumerate", !.todo = Locators]
<1>1. j \in Job /\ j.pc = "enumerate" /\ j.todo = Locators /\ j.names = {}
      /\ \A l \in Locators : j.found[l].state = "none"
  BY DEF NoJob, Job, NoEntry, Entry, ScanPhases
<1>2. JobStep(j) /\ middle' = middle
  BY DEF StartScan
<1> HIDE DEF j
<1>3. /\ TypeOK' /\ AtHand' /\ job' = j /\ reader'.loc = None
      /\ UNCHANGED <<world, disk, root, songs, held>>
  BY <1>1, <1>2, Facts, JobSteps
<1>4. Recorded'
  BY <1>1, <1>3 DEF VInv, Recorded, Sound, PreparePhases
<1>5. Steady'
  BY <1>1, <1>3 DEF Steady, First, Second, Agreed, Afterwards
<1> QED
  BY <1>3, <1>4, <1>5 DEF VInv, Steady

LEMMA EnumerateKeeps == VInv /\ Enumerate => VInv'
<1> SUFFICES ASSUME VInv, Enumerate PROVE VInv'
  OBVIOUS
<1>1. PICK l \in job.todo :
          JobStep([job EXCEPT !.todo = @ \ {l},
                              !.names = IF disk[l].at = "absent" THEN @ ELSE @ \cup {l}])
  BY DEF Enumerate
<1> DEFINE j == [job EXCEPT !.todo = @ \ {l},
                            !.names = IF disk[l].at = "absent" THEN @ ELSE @ \cup {l}]
<1>2. /\ j \in Job /\ j.pc = "enumerate" /\ j.todo = job.todo \ {l}
      /\ j.names = IF disk[l].at = "absent" THEN job.names ELSE job.names \cup {l}
      /\ j.found = job.found
  BY <1>1, Facts DEF Enumerate, Job
<1>3. JobStep(j) /\ middle' = middle
  BY <1>1 DEF Enumerate
<1> HIDE DEF j
<1>4. /\ TypeOK' /\ AtHand' /\ job' = j /\ reader'.loc = None
      /\ UNCHANGED <<world, disk, root, songs, held>>
  BY <1>2, <1>3, Facts, JobSteps
<1>5. Recorded'
  BY <1>2, <1>4 DEF VInv, Recorded, Sound, PreparePhases, Enumerate
<1>6. ASSUME ~world.recurs PROVE Steady'
  <2>1. \A k \in Locators : k \in job.names \/ k \notin job.todo => Listed(job.names, k, disk[k])
    BY <1>6 DEF VInv, First, Enumerate
  <2>2. Listed(j.names, l, disk[l])
    BY <1>1, <1>2, <2>1, Facts DEF Listed, HasBeen, HasLacked, Stage, File
  <2>3. \A k \in Locators : k # l => Listed(j.names, k, disk[k]) = Listed(job.names, k, disk[k])
                                  /\ (k \in j.names <=> k \in job.names)
    BY <1>2 DEF Listed
  <2>4. \A k \in Locators : k \in j.names \/ k \notin j.todo => Listed(j.names, k, disk[k])
    BY <1>2, <2>1, <2>2, <2>3
  <2> QED
    BY <1>2, <1>4, <2>4 DEF Steady, First, Second, Agreed, Afterwards
<1> QED
  BY <1>4, <1>5, <1>6 DEF VInv, Steady

LEMMA StartReadingKeeps == VInv /\ StartReading => VInv'
<1> SUFFICES ASSUME VInv, StartReading PROVE VInv'
  OBVIOUS
<1> DEFINE j == [job EXCEPT !.pc = "read", !.todo = job.names]
<1>1. /\ j \in Job /\ j.pc = "read" /\ j.todo = job.names /\ j.names = job.names
      /\ j.found = job.found
  BY Facts DEF Job, ScanPhases
<1>2. JobStep(j) /\ middle' = middle /\ job.pc = "enumerate" /\ job.todo = {}
  BY DEF StartReading
<1> HIDE DEF j
<1>3. /\ TypeOK' /\ AtHand' /\ job' = j /\ reader'.loc = None
      /\ UNCHANGED <<world, disk, root, songs, held>>
  BY <1>1, <1>2, Facts, JobSteps
<1>4. Recorded'
  BY <1>1, <1>2, <1>3 DEF VInv, Recorded, Sound, PreparePhases
<1>5. ASSUME ~world.recurs PROVE Steady'
  <2>1. \A l \in Locators : Listed(job.names, l, disk[l])
    BY <1>2, <1>5 DEF VInv, First
  <2> QED
    BY <1>1, <1>3, <2>1 DEF Steady, First, Second, Agreed, Afterwards
<1> QED
  BY <1>3, <1>4, <1>5 DEF VInv, Steady

LEMMA FoundIs ==
    ASSUME VInv, NEW c \in Content
    PROVE  /\ Found(c) \in Entry /\ Found(c).revision = c /\ c # None
           /\ Sound(Found(c))
           /\ c \in Valid => Found(c).state = "Ready"
<1>1. root.dir \in Dirs
  BY DEF VInv, TypeOK
<1> QED
  BY <1>1, NoneAssumption DEF Found, Entry, Sound

\* What a read that is whole says of the file, before the moment and after.
LEMMA ReadBefore ==
    ASSUME VInv, ~world.recurs, Whole, job.pc \in {"read", "first"}
    PROVE  HasBeen(disk[Current]) /\ ReadFrom(Found(Bytes), disk[Current])
<1>1. /\ HasBeen(disk[Current])
      /\ reader.head <= disk[Current].head /\ reader.rest <= disk[Current].tail
  BY DEF VInv, First, Whole, AtHand
<1>2. Found(Bytes).revision = Bytes /\ Bytes # None
  BY FoundIs, Facts
<1>3. Bytes[1] = reader.head /\ Bytes[2] = reader.rest
  BY DEF Bytes
<1> QED
  BY <1>1, <1>2, <1>3 DEF ReadFrom

LEMMA ReadAfter ==
    ASSUME VInv, ~world.recurs, Whole, job.pc \in {"reread", "second"},
           job.found[Current].revision = Bytes,
           HasBeen(middle[Current]), ReadFrom(job.found[Current], middle[Current])
    PROVE  /\ middle[Current].at = "file"
           /\ job.found[Current].revision = <<middle[Current].head, middle[Current].tail>>
<1>1. /\ middle[Current].head <= reader.head /\ middle[Current].tail <= reader.rest
      /\ Stage(middle[Current]) <= 1
      /\ Current \in Locators
  BY Facts DEF VInv, Second, Whole, AtHand
<1>2. middle[Current] \in File
  BY <1>1, Facts
<1>3. middle[Current].at = "file"
  BY <1>1, <1>2 DEF HasBeen, Stage, File
<1>4. Bytes # None /\ Bytes[1] = reader.head /\ Bytes[2] = reader.rest
  BY Facts, FoundIs DEF Bytes
<1>5. reader.head <= middle[Current].head /\ reader.rest <= middle[Current].tail
  BY <1>4 DEF ReadFrom
<1>6. /\ reader.head \in Nat /\ reader.rest \in Nat
      /\ middle[Current].head \in Nat /\ middle[Current].tail \in Nat
  BY <1>2, Facts DEF File
<1>7. reader.head = middle[Current].head /\ reader.rest = middle[Current].tail
  BY <1>1, <1>5, <1>6
<1> QED
  BY <1>3, <1>7 DEF Bytes

LEMMA ReadCandidateKeeps == VInv /\ ReadCandidate => VInv'
<1> SUFFICES ASSUME VInv, ReadCandidate PROVE VInv'
  OBVIOUS
<1> DEFINE c == Found(Bytes)
           j == [job EXCEPT !.todo = @ \ {Current}, !.found[Current] = c]
<1>1. c \in Entry /\ Sound(c) /\ job.pc = "read" /\ Whole
  BY FoundIs, Facts DEF ReadCandidate
<1> HIDE DEF c
<1>2. /\ j \in Job /\ j.pc = "read" /\ j.todo = job.todo \ {Current}
      /\ j.names = job.names /\ j.found = [job.found EXCEPT ![Current] = c]
  BY <1>1, Facts DEF Job
<1>3. JobStep(j) /\ middle' = middle
  BY DEF ReadCandidate, c
<1> HIDE DEF j
<1>4. /\ TypeOK' /\ AtHand' /\ job' = j /\ reader'.loc = None
      /\ UNCHANGED <<world, disk, root, songs, held>>
  BY <1>2, <1>3, Facts, JobSteps
<1>5. Recorded'
  <2>1. \A l \in Locators : Sound(songs[l]) /\ Sound(job.found[l])
    BY <1>1 DEF VInv, Recorded
  <2>2. \A l \in Locators : Sound(j.found[l])
    BY <1>1, <1>2, <2>1, Facts
  <2> QED
    BY <1>2, <1>4, <2>1, <2>2 DEF VInv, Recorded, Sound, PreparePhases
<1>6. ASSUME ~world.recurs PROVE Steady'
  <2>1. ReadFrom(c, disk[Current]) /\ Current \in job.todo
    BY <1>1, <1>6, ReadBefore, Facts DEF c, VInv, AtHand, Whole
  <2>2. /\ job.todo \subseteq job.names
        /\ \A l \in Locators : Listed(job.names, l, disk[l])
        /\ \A l \in job.names \ job.todo : ReadFrom(job.found[l], disk[l])
    BY <1>1, <1>6 DEF VInv, First
  <2>3. \A l \in j.names \ j.todo : ReadFrom(j.found[l], disk[l])
    BY <1>2, <2>1, <2>2, Facts
  <2> QED
    BY <1>2, <1>4, <2>2, <2>3 DEF Steady, First, Second, Agreed, Afterwards
<1> QED
  BY <1>4, <1>5, <1>6 DEF VInv, Steady

LEMMA CannotReadKeeps == VInv /\ CannotRead => VInv'
<1> SUFFICES ASSUME VInv, CannotRead PROVE VInv'
  OBVIOUS
<1> DEFINE j == [job EXCEPT !.pc = "exists"]
<1>1. /\ j \in Job /\ j.pc = "exists" /\ j.todo = job.todo /\ j.names = job.names
      /\ j.found = job.found
  BY Facts DEF Job, ScanPhases
<1>2. JobStep(j) /\ middle' = middle /\ job.pc = "read" /\ Unreadable
  BY DEF CannotRead
<1> HIDE DEF j
<1>3. /\ TypeOK' /\ AtHand' /\ job' = j /\ reader'.loc = None
      /\ UNCHANGED <<world, disk, root, songs, held>> /\ Current' = Current
  BY <1>1, <1>2, Facts, JobSteps DEF Current
<1>4. Recorded'
  BY <1>1, <1>2, <1>3 DEF VInv, Recorded, Sound, PreparePhases
<1>5. ASSUME ~world.recurs PROVE Steady'
  <2>1. /\ job.todo \subseteq job.names
        /\ \A l \in Locators : Listed(job.names, l, disk[l])
        /\ \A l \in job.names \ job.todo : ReadFrom(job.found[l], disk[l])
    BY <1>2, <1>5 DEF VInv, First
  <2>2. job.todo # {} /\ disk[Current].at # "file" /\ Current \in job.todo
    BY <1>2, Facts DEF Unreadable
  <2>3. HasBeen(disk[Current]) /\ disk[Current] \in File
    BY <2>1, <2>2, Facts DEF Listed
  <2>4. Stage(disk[Current]) >= 2
    BY <2>2, <2>3 DEF HasBeen, Stage, File
  <2> QED
    BY <1>1, <1>3, <2>1, <2>2, <2>4 DEF Steady, First, Second, Agreed, Afterwards
<1> QED
  BY <1>3, <1>4, <1>5 DEF VInv, Steady

LEMMA ExistsKeeps == VInv /\ Exists => VInv'
<1> SUFFICES ASSUME VInv, Exists PROVE VInv'
  OBVIOUS
<1>1. CASE disk[Current].at = "absent"
  BY <1>1, Facts, FailKeeps DEF Exists
<1>2. CASE disk[Current].at # "absent"
  <2> DEFINE c == [NoEntry EXCEPT !.state = "Invalid"]
             j == [job EXCEPT !.pc = "read", !.todo = @ \ {Current}, !.found[Current] = c]
  <2>1. c \in Entry /\ Sound(c) /\ c.revision = None /\ job.pc = "exists"
    BY DEF NoEntry, Entry, Sound, Exists
  <2>2. JobStep(j) /\ middle' = middle
    BY <1>2 DEF Exists
  <2> HIDE DEF c
  <2>3. /\ j \in Job /\ j.pc = "read" /\ j.todo = job.todo \ {Current}
        /\ j.names = job.names /\ j.found = [job.found EXCEPT ![Current] = c]
    BY <2>1, Facts DEF Job, ScanPhases
  <2> HIDE DEF j
  <2>4. /\ TypeOK' /\ AtHand' /\ job' = j /\ reader'.loc = None
        /\ UNCHANGED <<world, disk, root, songs, held>>
    BY <2>2, <2>3, Facts, JobSteps
  <2>5. Recorded'
    <3>1. \A l \in Locators : Sound(songs[l]) /\ Sound(job.found[l])
      BY <2>1 DEF VInv, Recorded
    <3>2. \A l \in Locators : Sound(j.found[l])
      BY <2>1, <2>3, <3>1, Facts
    <3> QED
      BY <2>3, <2>4, <3>1, <3>2 DEF VInv, Recorded, Sound, PreparePhases
  <2>6. ASSUME ~world.recurs PROVE Steady'
    <3>1. /\ job.todo \subseteq job.names
          /\ \A l \in Locators : Listed(job.names, l, disk[l])
          /\ \A l \in job.names \ job.todo : ReadFrom(job.found[l], disk[l])
          /\ Stage(disk[Current]) >= 2 /\ job.todo # {}
      BY <2>1, <2>6 DEF VInv, First
    <3>2. ReadFrom(c, disk[Current])
      BY <2>1, <3>1 DEF ReadFrom
    <3>3. \A l \in j.names \ j.todo : ReadFrom(j.found[l], disk[l])
      BY <2>3, <3>1, <3>2, Facts
    <3> QED
      BY <2>3, <2>4, <3>1, <3>3 DEF Steady, First, Second, Agreed, Afterwards
  <2> QED
    BY <2>4, <2>5, <2>6 DEF VInv, Steady
<1> QED
  BY <1>1, <1>2

LEMMA StartAgainKeeps == VInv /\ StartAgain => VInv'
<1> SUFFICES ASSUME VInv, StartAgain PROVE VInv'
  OBVIOUS
<1> DEFINE j == [job EXCEPT !.pc = "reenumerate", !.todo = Locators]
<1>1. /\ j \in Job /\ j.pc = "reenumerate" /\ j.todo = Locators /\ j.names = job.names
      /\ j.found = job.found
  BY Facts DEF Job, ScanPhases
<1>2. /\ JobStep(j) /\ job.pc = "read" /\ job.todo = {}
      /\ middle' \in [Locators -> File] /\ (~world.recurs => middle' = disk)
  <2>1. JobStep(j) /\ job.pc = "read" /\ job.todo = {} /\ Remember
    BY DEF StartAgain
  <2>2. middle' = IF world.recurs THEN middle ELSE disk
    BY <2>1 DEF Remember
  <2> QED
    BY <2>1, <2>2, Facts
<1> HIDE DEF j
<1>3. /\ TypeOK' /\ AtHand' /\ job' = j /\ reader'.loc = None
      /\ UNCHANGED <<world, disk, root, songs, held>>
  BY <1>1, <1>2, Facts, JobSteps
<1>4. Recorded'
  BY <1>1, <1>2, <1>3 DEF VInv, Recorded, Sound, PreparePhases
<1>5. ASSUME ~world.recurs PROVE Steady'
  <2>1. /\ \A l \in Locators : Listed(job.names, l, disk[l])
        /\ \A l \in job.names : ReadFrom(job.found[l], disk[l])
    BY <1>2, <1>5 DEF VInv, First
  <2>2. \A l \in Locators : Before(disk[l], disk[l])
    BY Facts, BeforeItself
  <2> QED
    BY <1>1, <1>2, <1>3, <1>5, <2>1, <2>2 DEF Steady, First, Second, Agreed, Afterwards
<1> QED
  BY <1>3, <1>4, <1>5 DEF VInv, Steady

LEMMA ReenumerateKeeps == VInv /\ Reenumerate => VInv'
<1> SUFFICES ASSUME VInv, Reenumerate PROVE VInv'
  OBVIOUS
<1>1. PICK l \in job.todo :
          IF SameName(l) THEN JobStep([job EXCEPT !.todo = @ \ {l}]) ELSE Fail
  BY DEF Reenumerate
<1>2. CASE ~SameName(l)
  BY <1>1, <1>2, Facts, FailKeeps DEF Reenumerate
<1>3. CASE SameName(l)
  <2> DEFINE j == [job EXCEPT !.todo = @ \ {l}]
  <2>1. /\ j \in Job /\ j.pc = "reenumerate" /\ j.todo = job.todo \ {l}
        /\ j.names = job.names /\ j.found = job.found
    BY Facts DEF Job, Reenumerate
  <2>2. JobStep(j) /\ middle' = middle /\ job.pc = "reenumerate"
    BY <1>1, <1>3 DEF Reenumerate
  <2> HIDE DEF j
  <2>3. /\ TypeOK' /\ AtHand' /\ job' = j /\ reader'.loc = None
        /\ UNCHANGED <<world, disk, root, songs, held>>
    BY <2>1, <2>2, Facts, JobSteps
  <2>4. Recorded'
    BY <2>1, <2>2, <2>3 DEF VInv, Recorded, Sound, PreparePhases
  <2>5. ASSUME ~world.recurs PROVE Steady'
    <3>1. /\ \A k \in Locators : Before(middle[k], disk[k]) /\ Listed(job.names, k, middle[k])
          /\ \A k \in job.names : ReadFrom(job.found[k], middle[k])
          /\ \A k \in Locators : k \notin job.todo => SameThen(k)
      BY <2>2, <2>5 DEF VInv, Second, Agreed, Afterwards
    <3>2. SameThen(l)
      BY <1>1, <1>3, <3>1, SameBetween, Facts DEF SameName, SameThen
    <3>3. \A k \in Locators : k \notin j.todo => (k \in j.names <=> middle[k].at # "absent")
      BY <2>1, <3>1, <3>2 DEF SameThen
    <3> QED
      BY <2>1, <2>2, <2>3, <3>1, <3>3 DEF Steady, First, Second, Agreed, SameThen, Afterwards
  <2> QED
    BY <2>3, <2>4, <2>5 DEF VInv, Steady
<1> QED
  BY <1>2, <1>3

LEMMA StartRereadingKeeps == VInv /\ StartRereading => VInv'
<1> SUFFICES ASSUME VInv, StartRereading PROVE VInv'
  OBVIOUS
<1> DEFINE j == [job EXCEPT !.pc = "reread", !.todo = job.names]
<1>1. /\ j \in Job /\ j.pc = "reread" /\ j.todo = job.names /\ j.names = job.names
      /\ j.found = job.found
  BY Facts DEF Job, ScanPhases
<1>2. JobStep(j) /\ middle' = middle /\ job.pc = "reenumerate" /\ job.todo = {}
  BY DEF StartRereading
<1> HIDE DEF j
<1>3. /\ TypeOK' /\ AtHand' /\ job' = j /\ reader'.loc = None
      /\ UNCHANGED <<world, disk, root, songs, held>>
  BY <1>1, <1>2, Facts, JobSteps
<1>4. Recorded'
  BY <1>1, <1>2, <1>3 DEF VInv, Recorded, Sound, PreparePhases
<1>5. ASSUME ~world.recurs PROVE Steady'
  <2>1. /\ \A k \in Locators : Before(middle[k], disk[k]) /\ Listed(job.names, k, middle[k])
        /\ \A k \in job.names : ReadFrom(job.found[k], middle[k])
        /\ \A k \in Locators : SameThen(k)
    BY <1>2, <1>5 DEF VInv, Second, Agreed, Afterwards
  <2>2. \A k \in Locators : k \in j.names <=> middle[k].at # "absent"
    BY <1>1, <2>1 DEF SameThen
  <2> QED
    BY <1>1, <1>2, <1>3, <2>1, <2>2 DEF Steady, First, Second, Agreed, SameThen, Afterwards
<1> QED
  BY <1>3, <1>4, <1>5 DEF VInv, Steady

LEMMA RereadKeeps == VInv /\ Reread => VInv'
<1> SUFFICES ASSUME VInv, Reread PROVE VInv'
  OBVIOUS
<1>1. CASE ~Agrees
  BY <1>1, Facts, FailKeeps DEF Reread
<1>2. CASE Agrees
  <2> DEFINE j == [job EXCEPT !.todo = @ \ {Current}]
  <2>1. /\ j \in Job /\ j.pc = "reread" /\ j.todo = job.todo \ {Current}
        /\ j.names = job.names /\ j.found = job.found
    BY Facts DEF Job, Reread
  <2>2. JobStep(j) /\ middle' = middle /\ job.pc = "reread"
    BY <1>2 DEF Reread
  <2> HIDE DEF j
  <2>3. /\ TypeOK' /\ AtHand' /\ job' = j /\ reader'.loc = None
        /\ UNCHANGED <<world, disk, root, songs, held>>
    BY <2>1, <2>2, Facts, JobSteps
  <2>4. Recorded'
    BY <2>1, <2>2, <2>3 DEF VInv, Recorded, Sound, PreparePhases
  <2>5. ASSUME ~world.recurs PROVE Steady'
    <3>1. /\ \A k \in Locators : Before(middle[k], disk[k]) /\ Listed(job.names, k, middle[k])
          /\ \A k \in job.names : ReadFrom(job.found[k], middle[k])
          /\ \A k \in Locators : SameThen(k)
          /\ job.todo \subseteq job.names
          /\ \A k \in job.names \ job.todo : ContentThen(k)
      BY <2>2, <2>5 DEF VInv, Second, Agreed, Afterwards
    <3>2. Current \in job.todo
      BY Facts DEF Reread, Whole, Unreadable, VInv, AtHand
    <3>3. ContentThen(Current)
      <4>1. SUFFICES ASSUME job.found[Current].revision # None
                     PROVE  /\ middle[Current].at = "file"
                            /\ job.found[Current].revision
                                 = <<middle[Current].head, middle[Current].tail>>
        BY DEF ContentThen
      <4>2. Whole /\ Bytes = job.found[Current].revision
        BY <1>2, <4>1 DEF Agrees
      <4>3. HasBeen(middle[Current]) /\ ReadFrom(job.found[Current], middle[Current])
        BY <3>1, <3>2, Facts DEF Listed
      <4> QED
        BY <2>2, <2>5, <4>2, <4>3, ReadAfter
    <3>4. /\ \A k \in Locators : k \in j.names <=> middle[k].at # "absent"
          /\ j.todo \subseteq j.names
          /\ \A k \in j.names \ j.todo :
                j.found[k].revision # None =>
                    /\ middle[k].at = "file"
                    /\ j.found[k].revision = <<middle[k].head, middle[k].tail>>
      BY <2>1, <3>1, <3>2, <3>3 DEF SameThen, ContentThen
    <3> QED
      BY <2>1, <2>2, <2>3, <3>1, <3>4
         DEF Steady, First, Second, Agreed, SameThen, ContentThen, Afterwards
  <2> QED
    BY <2>3, <2>4, <2>5 DEF VInv, Steady
<1> QED
  BY <1>1, <1>2

LEMMA VerifyKeeps == VInv /\ Verify => VInv'
<1> SUFFICES ASSUME VInv, Verify PROVE VInv'
  OBVIOUS
<1> DEFINE j == [job EXCEPT !.pc = "verified"]
<1>1. /\ j \in Job /\ j.pc = "verified" /\ j.todo = job.todo /\ j.names = job.names
      /\ j.found = job.found
  BY Facts DEF Job, ScanPhases
<1>2. JobStep(j) /\ middle' = middle /\ job.pc = "reread" /\ job.todo = {}
  BY DEF Verify
<1> HIDE DEF j
<1>3. /\ TypeOK' /\ AtHand' /\ job' = j /\ reader'.loc = None
      /\ UNCHANGED <<world, disk, root, songs, held>>
  BY <1>1, <1>2, Facts, JobSteps
<1>4. Recorded'
  BY <1>1, <1>2, <1>3 DEF VInv, Recorded, Sound, PreparePhases
<1>5. ASSUME ~world.recurs PROVE Steady'
  <2>1. /\ \A k \in Locators : Before(middle[k], disk[k]) /\ Listed(job.names, k, middle[k])
        /\ \A k \in job.names : ReadFrom(job.found[k], middle[k])
        /\ \A k \in Locators : SameThen(k)
        /\ \A k \in job.names : ContentThen(k)
    BY <1>2, <1>5 DEF VInv, Second, Agreed, Afterwards
  <2> QED
    BY <1>1, <1>2, <1>3, <2>1
       DEF Steady, First, Second, Agreed, SameThen, ContentThen, Afterwards
<1> QED
  BY <1>3, <1>4, <1>5 DEF VInv, Steady

LEMMA CommitKeeps == VInv /\ Commit => VInv'
<1> SUFFICES ASSUME VInv, Commit PROVE VInv'
  OBVIOUS
<1>1. /\ job' = NoJob /\ UNCHANGED <<world, disk, root, held, reader, middle>>
      /\ job.pc = "verified"
      /\ songs' = [l \in Locators |->
                     IF l \in job.names THEN job.found[l]
                     ELSE IF songs[l].state = "none" THEN NoEntry
                     ELSE [NoEntry EXCEPT !.state = "Missing"]]
  BY DEF Commit
<1>2. reader.loc = None /\ job' \in Job /\ job'.pc = "idle"
  BY <1>1, IdleIs DEF VInv, AtHand, ReadPhases
<1>3. /\ NoEntry \in Entry /\ NoEntry.state = "none"
      /\ [NoEntry EXCEPT !.state = "Missing"] \in Entry
      /\ [NoEntry EXCEPT !.state = "Missing"].state = "Missing"
  BY DEF NoEntry, Entry
<1>4. songs' \in [Locators -> Entry] /\ \A l \in Locators : Sound(songs'[l])
  <2>1. \A l \in Locators : Sound(job.found[l]) /\ job.found[l] \in Entry
    BY <1>1, Facts DEF VInv, Recorded
  <2>2. \A l \in Locators : songs'[l] \in Entry /\ Sound(songs'[l])
    BY <1>1, <1>3, <2>1 DEF Sound
  <2>3. songs' = [l \in Locators |-> songs'[l]]
    BY <1>1
  <2> HIDE DEF Sound
  <2> QED
    BY <2>2, <2>3
<1>5. TypeOK' /\ AtHand'
  BY <1>1, <1>2, <1>4 DEF VInv, TypeOK, AtHand
<1>6. Recorded'
  BY <1>1, <1>2, <1>4 DEF VInv, Recorded, Sound, PreparePhases
<1>7. Steady'
  BY <1>1, <1>2 DEF Steady, First, Second, Agreed, Afterwards
<1> QED
  BY <1>5, <1>6, <1>7 DEF VInv, Steady

LEMMA StartPrepareKeeps ==
    ASSUME NEW l \in Locators, NEW snapshot \in [Locators -> Entry], NEW generation,
           generation = root.generation => \A k \in Locators : Sound(snapshot[k]),
           VInv, StartPrepare(l, snapshot, generation)
    PROVE  VInv'
<1> DEFINE song == snapshot[l]
           j == [NoJob EXCEPT !.pc = "first", !.todo = {l}, !.song = song]
<1>1. song \in Entry /\ song.state = "Ready" /\ Sound(song)
  BY DEF StartPrepare, Preparable, SameAttachment
<1>2. JobStep(j) /\ middle' = middle
  BY DEF StartPrepare
<1> HIDE DEF song
<1>3. /\ j \in Job /\ j.pc = "first" /\ j.todo = {l} /\ j.song = song
      /\ \A k \in Locators : j.found[k].state = "none"
  BY <1>1 DEF NoJob, Job, NoEntry, Entry, PreparePhases
<1> HIDE DEF j
<1>4. /\ TypeOK' /\ AtHand' /\ job' = j /\ reader'.loc = None
      /\ UNCHANGED <<world, disk, root, songs, held>>
  BY <1>2, <1>3, Facts, JobSteps
<1>5. Recorded'
  BY <1>1, <1>3, <1>4 DEF VInv, Recorded, Sound, PreparePhases
<1>6. Steady'
  BY <1>3, <1>4 DEF Steady, First, Second, Agreed, Afterwards
<1> QED
  BY <1>4, <1>5, <1>6 DEF VInv, Steady

LEMMA ReadFirstKeeps == VInv /\ ReadFirst => VInv'
<1> SUFFICES ASSUME VInv, ReadFirst PROVE VInv'
  OBVIOUS
<1>1. CASE ~(Whole /\ FirstMatches)
  BY <1>1, Facts, FailKeeps DEF ReadFirst
<1>2. CASE Whole /\ FirstMatches
  <2> DEFINE c == Found(Bytes)
             j == [job EXCEPT !.pc = "compile", !.found[Current] = c]
  <2>1. /\ c \in Entry /\ Sound(c) /\ c.revision = Bytes /\ Bytes = job.song.revision
        /\ job.pc = "first" /\ Bytes \in Valid /\ c.state = "Ready"
    <3>1. job.pc = "first" /\ Bytes = job.song.revision
      BY <1>2 DEF ReadFirst, FirstMatches
    <3>2. Bytes \in Valid
      BY <3>1 DEF VInv, Recorded, Sound, PreparePhases
    <3> QED
      BY <3>1, <3>2, FoundIs, Facts
  <2>2. JobStep(j) /\ middle' = middle
    BY <1>2 DEF ReadFirst
  <2>3. \E l \in Locators : job.todo = {l} /\ Current = l
    <3>1. PICK l \in Locators : job.todo = {l}
      BY <2>1 DEF VInv, Recorded, PreparePhases
    <3> QED
      BY <3>1, Facts
  <2>4. ~world.recurs => HasBeen(disk[Current]) /\ ReadFrom(c, disk[Current])
    BY <1>2, <2>1, ReadBefore
  <2> HIDE DEF c
  <2>5. /\ j \in Job /\ j.pc = "compile" /\ j.todo = job.todo
        /\ j.song = job.song /\ j.found = [job.found EXCEPT ![Current] = c]
    BY <2>1, Facts DEF Job, PreparePhases
  <2> HIDE DEF j
  <2>6. /\ TypeOK' /\ AtHand' /\ job' = j /\ reader'.loc = None
        /\ UNCHANGED <<world, disk, root, songs, held>>
    BY <2>2, <2>5, Facts, JobSteps
  <2>7. j.found[Current] = c
    BY <2>3, <2>5, Facts
  <2>8. Recorded'
    <3>1. \A l \in Locators : Sound(job.found[l])
      BY <2>1 DEF VInv, Recorded
    <3>2. \A l \in Locators : Sound(j.found[l])
      BY <2>1, <2>5, <3>1, Facts
    <3>3. /\ j.song.state = "Ready" /\ Sound(j.song)
          /\ \E l \in Locators : j.todo = {l}
      BY <2>1, <2>5 DEF VInv, Recorded, PreparePhases
    <3>4. \A l \in Locators : Sound(songs[l])'
      BY <2>6 DEF VInv, Recorded, Sound
    <3>5. held'.generation = root'.generation => \A l \in Locators : Sound(held.songs[l])'
      BY <2>6 DEF VInv, Recorded, Sound
    <3>6. /\ \A l \in Locators : Sound(job.found[l])'
          /\ job'.song.state = "Ready" /\ Sound(job.song)'
          /\ \E l \in Locators : job'.todo = {l}
      BY <2>6, <3>2, <3>3 DEF Sound
    <3>7. \A l \in job'.todo : job'.found[l].revision = job'.song.revision
                              /\ job'.found[l].state = "Ready"
      BY <2>1, <2>3, <2>5, <2>6, <2>7
    <3> QED
      BY <2>6, <3>4, <3>5, <3>6, <3>7 DEF Recorded
  <2>9. ASSUME ~world.recurs PROVE Steady'
    BY <2>3, <2>4, <2>5, <2>6, <2>7, <2>9 DEF Steady, First, Second, Agreed, Afterwards
  <2> QED
    BY <2>6, <2>8, <2>9 DEF VInv, Steady
<1> QED
  BY <1>1, <1>2

LEMMA CompileKeeps == VInv /\ Compile => VInv'
<1> SUFFICES ASSUME VInv, Compile PROVE VInv'
  OBVIOUS
<1>1. CASE job.found[Current].state # "Ready"
  BY <1>1, Facts, FailKeeps DEF Compile
<1>2. CASE job.found[Current].state = "Ready"
  <2> DEFINE j == [job EXCEPT !.pc = "second"]
  <2>1. /\ j \in Job /\ j.pc = "second" /\ j.todo = job.todo /\ j.names = job.names
        /\ j.found = job.found /\ j.song = job.song
    BY Facts DEF Job, PreparePhases
  <2>2. /\ JobStep(j) /\ job.pc = "compile"
        /\ middle' \in [Locators -> File] /\ (~world.recurs => middle' = disk)
    <3>1. JobStep(j) /\ job.pc = "compile" /\ Remember
      BY <1>2 DEF Compile
    <3>2. middle' = IF world.recurs THEN middle ELSE disk
      BY <3>1 DEF Remember
    <3> QED
      BY <3>1, <3>2, Facts
  <2> HIDE DEF j
  <2>3. /\ TypeOK' /\ AtHand' /\ job' = j /\ reader'.loc = None
        /\ UNCHANGED <<world, disk, root, songs, held>>
    BY <2>1, <2>2, Facts, JobSteps
  <2>4. Recorded'
    BY <2>1, <2>2, <2>3 DEF VInv, Recorded, Sound, PreparePhases
  <2>5. ASSUME ~world.recurs PROVE Steady'
    <3>1. \A l \in job.todo : HasBeen(disk[l]) /\ ReadFrom(job.found[l], disk[l])
      BY <2>2, <2>5 DEF VInv, First
    <3>2. \A l \in Locators : Before(disk[l], disk[l])
      BY Facts, BeforeItself
    <3> QED
      BY <2>1, <2>2, <2>3, <2>5, <3>1, <3>2 DEF Steady, First, Second, Agreed, Afterwards
  <2> QED
    BY <2>3, <2>4, <2>5 DEF VInv, Steady
<1> QED
  BY <1>1, <1>2

LEMMA ReadSecondKeeps == VInv /\ ReadSecond => VInv'
<1> SUFFICES ASSUME VInv, ReadSecond PROVE VInv'
  OBVIOUS
<1>1. CASE ~SecondMatches
  BY <1>1, Facts, FailKeeps DEF ReadSecond
<1>2. CASE SecondMatches
  <2> DEFINE j == [job EXCEPT !.pc = "prepared"]
  <2>1. /\ j \in Job /\ j.pc = "prepared" /\ j.todo = job.todo /\ j.names = job.names
        /\ j.found = job.found /\ j.song = job.song
    BY Facts DEF Job, PreparePhases
  <2>2. JobStep(j) /\ middle' = middle /\ job.pc = "second"
    BY <1>2 DEF ReadSecond
  <2> HIDE DEF j
  <2>3. /\ TypeOK' /\ AtHand' /\ job' = j /\ reader'.loc = None
        /\ UNCHANGED <<world, disk, root, songs, held>>
    BY <2>1, <2>2, Facts, JobSteps
  <2>4. Recorded'
    BY <2>1, <2>2, <2>3 DEF VInv, Recorded, Sound, PreparePhases
  <2>5. ASSUME ~world.recurs PROVE Steady'
    <3>1. /\ \A k \in Locators : Before(middle[k], disk[k])
          /\ \A k \in job.todo : HasBeen(middle[k]) /\ ReadFrom(job.found[k], middle[k])
      BY <2>2, <2>5 DEF VInv, Second, Afterwards
    <3>2. PICK l \in Locators : job.todo = {l} /\ Current = l
      <4>1. PICK l \in Locators : job.todo = {l}
        BY <2>2 DEF VInv, Recorded, PreparePhases
      <4> QED
        BY <4>1, Facts
    <3>3. Whole /\ Bytes = job.found[l].revision
      BY <1>2, <2>2, <3>2 DEF SecondMatches, VInv, Recorded
    <3>4. /\ middle[l].at = "file"
          /\ job.found[l].revision = <<middle[l].head, middle[l].tail>>
      BY <2>2, <2>5, <3>1, <3>2, <3>3, ReadAfter
    <3> QED
      BY <2>1, <2>2, <2>3, <3>1, <3>2, <3>4
         DEF Steady, First, Second, Agreed, ContentThen, Afterwards
  <2> QED
    BY <2>3, <2>4, <2>5 DEF VInv, Steady
<1> QED
  BY <1>1, <1>2

-----------------------------------------------------------------------------
(* Between two calls.                                                      *)

LEMMA ReattachKeeps ==
    ASSUME VInv, NEW d \in Dirs, Reattach(d)
    PROVE  VInv'
<1>1. /\ job.pc = "idle" /\ root.generation < world.generations
      /\ root' = [dir |-> d, generation |-> root.generation + 1]
      /\ disk' \in [Locators -> File]
      /\ UNCHANGED <<world, held, job, reader, middle>>
  BY HoldingsAre DEF Reattach
<1>2. /\ root.generation \in Nat /\ world.generations \in Nat /\ root.generation >= 1
      /\ held \in [songs : [Locators -> Entry], generation : 1..root.generation]
  BY WorldAssumption DEF VInv, TypeOK
<1>3. /\ root' \in [dir : Dirs, generation : 1..world'.generations]
      /\ held' \in [songs : [Locators -> Entry], generation : 1..root'.generation]
      /\ held'.generation # root'.generation
  BY <1>1, <1>2
<1>4. /\ NoEntry \in Entry /\ NoEntry.state = "none"
      /\ [NoEntry EXCEPT !.state = "Invalid"] \in Entry
      /\ [NoEntry EXCEPT !.state = "Invalid"].state = "Invalid"
  BY DEF NoEntry, Entry
<1>5. songs' \in [Locators -> Entry] /\ \A l \in Locators : songs'[l].state # "Ready"
  BY <1>4 DEF Reattach, Detached
<1>6. reader'.loc = None
  BY <1>1 DEF VInv, AtHand, ReadPhases
<1>7. TypeOK'
  BY <1>1, <1>3, <1>5, <1>6 DEF VInv, TypeOK
<1>8. Recorded'
  BY <1>1, <1>3, <1>5 DEF Recorded, Sound, PreparePhases
<1>9. AtHand' /\ Steady'
  BY <1>1, <1>6 DEF AtHand, Steady, First, Second, Agreed, Afterwards
<1> QED
  BY <1>7, <1>8, <1>9 DEF VInv, Steady

LEMMA HoldKeeps == VInv /\ Hold => VInv'
<1> SUFFICES ASSUME VInv, Hold PROVE VInv'
  OBVIOUS
<1>1. /\ job.pc = "idle" /\ held' = [songs |-> songs, generation |-> root.generation]
      /\ UNCHANGED <<world, disk, root, songs, job, reader, middle>>
  BY DEF Hold
<1>2. reader'.loc = None
  BY <1>1 DEF VInv, AtHand, ReadPhases
<1>3. held' \in [songs : [Locators -> Entry], generation : 1..root'.generation]
  BY <1>1, WorldAssumption DEF VInv, TypeOK
<1>4. TypeOK'
  BY <1>1, <1>3 DEF VInv, TypeOK
<1>5. Recorded'
  BY <1>1 DEF VInv, Recorded, Sound, PreparePhases
<1>6. AtHand' /\ Steady'
  BY <1>1, <1>2 DEF AtHand, Steady, First, Second, Agreed, Afterwards
<1> QED
  BY <1>4, <1>5, <1>6 DEF VInv, Steady

-----------------------------------------------------------------------------
LEMMA NextKeeps == VInv /\ [Next]_vars => VInv'
<1> SUFFICES ASSUME VInv, [Next]_vars PROVE VInv'
  OBVIOUS
<1>1. CASE Others
  BY <1>1, OthersKeep
<1>2. CASE StartScan \/ Enumerate \/ StartReading \/ ReadHead
  BY <1>2, StartScanKeeps, EnumerateKeeps, StartReadingKeeps, ReadHeadKeeps
<1>3. CASE ReadCandidate \/ CannotRead \/ Exists \/ StartAgain
  BY <1>3, ReadCandidateKeeps, CannotReadKeeps, ExistsKeeps, StartAgainKeeps
<1>4. CASE Reenumerate \/ StartRereading \/ Reread \/ Verify \/ Commit
  BY <1>4, ReenumerateKeeps, StartRereadingKeeps, RereadKeeps, VerifyKeeps, CommitKeeps
<1>5. ASSUME NEW l \in Locators,
             StartPrepare(l, songs, root.generation)
             \/ StartPrepare(l, held.songs, held.generation)
      PROVE  VInv'
  <2>1. songs \in [Locators -> Entry] /\ held.songs \in [Locators -> Entry]
    BY DEF VInv, TypeOK
  <2>2. /\ \A k \in Locators : Sound(songs[k])
        /\ held.generation = root.generation => \A k \in Locators : Sound(held.songs[k])
    BY DEF VInv, Recorded
  <2> QED
    BY <1>5, <2>1, <2>2, StartPrepareKeeps
<1>6. CASE ReadFirst \/ Compile \/ ReadSecond \/ Hold
  BY <1>6, ReadFirstKeeps, CompileKeeps, ReadSecondKeeps, HoldKeeps
<1>7. CASE Publish \/ Abort
  BY <1>7, Facts, FailKeeps DEF Publish, Abort, Fail
<1>8. ASSUME NEW d \in Dirs, Reattach(d) PROVE VInv'
  BY <1>8, ReattachKeeps
<1>9. CASE UNCHANGED vars
  <2>1. Current' = Current
    BY <1>9 DEF vars, Current
  <2> QED
    BY <1>9, <2>1 DEF vars, VInv, TypeOK, AtHand, Recorded, Sound, First, Second, Agreed,
                      SameThen, ContentThen
<1> QED
  BY <1>1, <1>2, <1>3, <1>4, <1>5, <1>6, <1>7, <1>8, <1>9 DEF Next

\* The invariant holds of every behaviour, in the two kinds of worlds.
THEOREM Invariant == Spec => []VInv
<1>1. Init => VInv
  BY InitHolds
<1>2. VInv /\ [Next]_vars => VInv'
  BY NextKeeps
<1> QED
  BY <1>1, <1>2, PTL DEF Spec

\* What is compiled is what the snapshot recorded, and every Ready entry is
\* valid content of the directory the root is attached to, whatever other
\* programs do to the files (SongPreparation.hpp, DurableLibraryService.hpp).
THEOREM Faithful == Spec => []PreparedIsRecorded
<1>1. VInv => PreparedIsRecorded
  BY DEF VInv, Recorded, Sound, PreparePhases, PreparedIsRecorded
<1> QED
  BY <1>1, Invariant, PTL

\* Where nothing recurs, a verified scan is the directory at one moment, all
\* of its files together (SongDiscovery.hpp).
THEOREM Snapshot == Spec => []ScanIsSnapshot
<1>1. VInv => ScanIsSnapshot
  <2> SUFFICES ASSUME VInv, ~world.recurs, job.pc = "verified", NEW l \in Locators
               PROVE  /\ l \in job.names <=> middle[l].at # "absent"
                      /\ l \in job.names =>
                            IF job.found[l].revision = None
                            THEN middle[l].at = "denied"
                            ELSE /\ middle[l].at = "file"
                                 /\ job.found[l].revision = <<middle[l].head, middle[l].tail>>
    BY DEF ScanIsSnapshot
  <2>1. l \in job.names <=> middle[l].at # "absent"
    BY DEF VInv, Agreed, SameThen
  <2>2. ASSUME l \in job.names, job.found[l].revision = None PROVE middle[l].at = "denied"
    <3>1. Stage(middle[l]) >= 2 /\ middle[l].at # "absent" /\ middle[l] \in File
      BY <2>1, <2>2, Facts DEF VInv, Second, ReadFrom
    <3> QED
      BY <3>1 DEF Stage, File
  <2>3. ASSUME l \in job.names, job.found[l].revision # None
        PROVE  /\ middle[l].at = "file"
               /\ job.found[l].revision = <<middle[l].head, middle[l].tail>>
    BY <2>3 DEF VInv, Agreed, ContentThen
  <2> QED
    BY <2>1, <2>2, <2>3
<1> QED
  BY <1>1, Invariant, PTL

\* There a prepared song was in its file, all at once, when its extraction
\* was over (SongPreparation.hpp).
THEOREM StillThere == Spec => []PreparedStillThere
<1>1. VInv => PreparedStillThere
  <2> SUFFICES ASSUME VInv, ~world.recurs, job.pc = "prepared", NEW l \in job.todo
               PROVE  /\ middle[l].at = "file"
                      /\ job.found[l].revision = <<middle[l].head, middle[l].tail>>
    BY DEF PreparedStillThere
  <2>1. job.found[l].revision # None
    <3>1. Sound(job.song) /\ job.found[l].revision = job.song.revision /\ l \in Locators
      BY Facts DEF VInv, Recorded, PreparePhases
    <3>2. job.song.revision \in Valid
      BY <3>1 DEF VInv, Recorded, PreparePhases, Sound
    <3> QED
      BY <3>1, <3>2, ValidAssumption, NoneAssumption
  <2> QED
    BY <2>1 DEF VInv, Agreed, ContentThen
<1> QED
  BY <1>1, Invariant, PTL
=============================================================================
