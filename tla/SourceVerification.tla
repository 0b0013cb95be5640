-------------------------- MODULE SourceVerification --------------------------
(***************************************************************************)
(* How bytes on disk become catalog entries and prepared songs while other *)
(* programs change the files: the scan of one attached root                *)
(* (library/SongDiscovery.hpp), the preparation of one song                *)
(* (library/SongPreparation.hpp) and the reads both are made of            *)
(* (library/FilesystemSource.hpp).                                         *)
(*                                                                         *)
(* A file has two chunks, which a read takes one after the other from the  *)
(* descriptor it opened, so that a read can see half of a change; its      *)
(* content is the pair of the chunks, and a revision is a content, the     *)
(* digest being free of collisions.  Symbolic links, limits and            *)
(* cancellation are the Abort of a call.  Calls are serialized, and no     *)
(* call changes the root of another.  Only the files of the directory the  *)
(* root is attached to matter; another one holds anything when the root is *)
(* attached to it.                                                         *)
(*                                                                         *)
(* The world of a behaviour says what the other programs do.  Where it     *)
(* recurs, files may return to what they were before; elsewhere a chunk    *)
(* never shows an old value again and a name comes or goes once.           *)
(***************************************************************************)
EXTENDS Naturals, FiniteSets

CONSTANTS
    Dirs,           \* directories a root can be attached to
    Locators,       \* relative file names, numbers in their byte order
    MaxVersion,     \* bound on the values of a chunk
    Worlds,         \* what recurs, the names in use, bound on reattachments
    Valid,          \* the contents that parse, compile and have lyrics
    None

ASSUME LocatorAssumption == Locators \subseteq Nat
ASSUME VersionAssumption == MaxVersion \in Nat
ASSUME WorldAssumption ==
    Worlds \subseteq [recurs : BOOLEAN, names : SUBSET Locators, generations : Nat \ {0}]

VARIABLES
    world,
    disk,    \* the files of the directory the root is attached to
    root,    \* the directory the root is attached to, and its generation
    songs,   \* the current snapshot of the catalog
    held,    \* an older snapshot a caller still has, with its generation
    job,     \* the running scan or preparation
    reader,  \* the read in progress
    middle   \* history: the directory between the two collections

vars == <<world, disk, root, songs, held, job, reader, middle>>

Versions == 0..MaxVersion
Content == Versions \X Versions

ASSUME ValidAssumption == Valid \subseteq Content
ASSUME NoneAssumption == None \notin Content \cup Dirs \cup Locators

File == [at : {"absent", "file", "denied"}, head : Versions, tail : Versions,
         fixed : BOOLEAN]

\* A catalog entry; dir is history, the directory its bytes were read under.
Entry == [state : {"none", "Ready", "Invalid", "Missing"},
          revision : Content \cup {None}, dir : Dirs \cup {None}]
NoEntry == [state |-> "none", revision |-> None, dir |-> None]

ScanPhases == {"enumerate", "read", "exists", "reenumerate", "reread", "verified"}
PreparePhases == {"first", "compile", "second", "prepared"}
Job == [pc : {"idle"} \cup ScanPhases \cup PreparePhases,
        todo : SUBSET Locators, names : SUBSET Locators,
        found : [Locators -> Entry], song : Entry]
NoJob == [pc |-> "idle", todo |-> {}, names |-> {},
          found |-> [l \in Locators |-> NoEntry], song |-> NoEntry]

\* A read: its name and chunks, and whether the open file is the named one.
Reader == [loc : Locators \cup {None}, head : Versions, rest : Versions, live : BOOLEAN]
NoReader == [loc |-> None, head |-> 0, rest |-> 0, live |-> FALSE]

NoFile == [at |-> "absent", head |-> 0, tail |-> 0, fixed |-> FALSE]

\* What a directory holds when the root is attached to it.
Holdings ==
    LET Now == IF world.recurs THEN Versions ELSE {0}
    IN  {files \in [Locators -> [at : {"absent", "file", "denied"}, head : Now, tail : Now,
                                 fixed : {FALSE}]] :
            \A l \in Locators :
                l \notin world.names \/ files[l].at = "absent" => files[l] = NoFile}

Init ==
    /\ world \in Worlds
    /\ disk \in Holdings
    /\ \E d \in Dirs : root = [dir |-> d, generation |-> 1]
    /\ songs = [l \in Locators |-> NoEntry]
    /\ held = [songs |-> songs, generation |-> 1]
    /\ job = NoJob
    /\ reader = NoReader
    /\ middle = [l \in Locators |-> NoFile]

TypeOK ==
    /\ world \in Worlds
    /\ disk \in [Locators -> File]
    /\ root \in [dir : Dirs, generation : 1..world.generations]
    /\ songs \in [Locators -> Entry]
    /\ held \in [songs : [Locators -> Entry], generation : 1..root.generation]
    /\ job \in Job
    /\ reader \in Reader
    /\ reader.loc # None => job.pc \in {"read", "reread", "first", "second"}
    /\ middle \in [Locators -> File]

-----------------------------------------------------------------------------
(* Other programs.                                                         *)

\* The next values a chunk may take.
Later(v) == IF world.recurs THEN Versions ELSE {v + 1} \cap Versions

\* A reader has this very file open.
Reading(l) == reader.loc = l /\ reader.live

WriteHead(l) ==
    /\ disk[l].at # "absent"
    /\ \E v \in Later(disk[l].head) : disk' = [disk EXCEPT ![l].head = v]
    /\ UNCHANGED reader

WriteTail(l) ==
    /\ disk[l].at # "absent"
    /\ \E v \in Later(disk[l].tail) :
          /\ disk' = [disk EXCEPT ![l].tail = v]
          /\ reader' = IF Reading(l) THEN [reader EXCEPT !.rest = v] ELSE reader

\* Another file is created under the name or moved over it: a read that is
\* open keeps the old one.
Put(l) ==
    LET f == disk[l] IN
    /\ f.at = "absent" => ~f.fixed
    /\ f.at = "denied" => world.recurs
    /\ \E v \in Later(f.head), w \in Later(f.tail) :
          disk' = [disk EXCEPT ![l] =
                      [at |-> "file", head |-> v, tail |-> w,
                       fixed |-> f.fixed \/ (~world.recurs /\ f.at = "absent")]]
    /\ reader' = IF Reading(l) THEN [reader EXCEPT !.live = FALSE] ELSE reader

Remove(l) ==
    LET f == disk[l] IN
    /\ f.at # "absent"
    /\ ~f.fixed
    /\ disk' = [disk EXCEPT ![l] = IF world.recurs THEN NoFile
                                    ELSE [at |-> "absent", head |-> f.head, tail |-> f.tail,
                                          fixed |-> TRUE]]
    /\ reader' = IF Reading(l) THEN [reader EXCEPT !.live = FALSE] ELSE reader

\* Permission is taken away or given; open descriptors stay good.
Permit(l) ==
    /\ \/ disk[l].at = "file" /\ disk' = [disk EXCEPT ![l].at = "denied"]
       \/ disk[l].at = "denied" /\ world.recurs /\ disk' = [disk EXCEPT ![l].at = "file"]
    /\ UNCHANGED reader

Others ==
    /\ \E l \in world.names :
          WriteHead(l) \/ WriteTail(l) \/ Put(l) \/ Remove(l) \/ Permit(l)
    /\ UNCHANGED <<world, root, songs, held, job, middle>>

-----------------------------------------------------------------------------
(* Reading a file: open it, take the first chunk, then the rest.           *)

\* The sources are read in byte order.
Current == CHOOSE l \in job.todo : \A k \in job.todo : l <= k

ReadHead ==
    /\ job.pc \in {"read", "reread", "first", "second"}
    /\ job.todo # {}
    /\ reader.loc = None
    /\ disk[Current].at = "file"
    /\ reader' = [loc |-> Current, head |-> disk[Current].head,
                  rest |-> disk[Current].tail, live |-> TRUE]
    /\ UNCHANGED <<world, disk, root, songs, held, job, middle>>

\* The read of the file at hand ends with its content.
Whole == reader.loc # None
Bytes == <<reader.head, reader.rest>>
Unreadable == reader.loc = None /\ job.todo # {} /\ disk[Current].at # "file"

JobStep(j) ==
    /\ job' = j
    /\ reader' = NoReader
    /\ UNCHANGED <<world, disk, root, songs, held>>

\* A call that ends without a result changes nothing.
Fail == JobStep(NoJob)

\* The moment is recorded for the properties that assume no recurrence.
Remember == middle' = IF world.recurs THEN middle ELSE disk

-----------------------------------------------------------------------------
(* A scan: collect the names, read every file, collect and read again.     *)

StartScan ==
    /\ job.pc = "idle"
    /\ JobStep([NoJob EXCEPT !.pc = "enumerate", !.todo = Locators])
    /\ UNCHANGED middle

\* The directory is listed one name at a time, in no particular order.
Enumerate ==
    /\ job.pc = "enumerate"
    /\ \E l \in job.todo :
          JobStep([job EXCEPT !.todo = @ \ {l},
                              !.names = IF disk[l].at = "absent" THEN @ ELSE @ \cup {l}])
    /\ UNCHANGED middle

StartReading ==
    /\ job.pc = "enumerate"
    /\ job.todo = {}
    /\ JobStep([job EXCEPT !.pc = "read", !.todo = job.names])
    /\ UNCHANGED middle

\* A file that was read is a candidate with a revision, valid or not.
Found(c) == [state |-> IF c \in Valid THEN "Ready" ELSE "Invalid",
             revision |-> c, dir |-> root.dir]

ReadCandidate ==
    /\ job.pc = "read"
    /\ Whole
    /\ JobStep([job EXCEPT !.todo = @ \ {Current}, !.found[Current] = Found(Bytes)])
    /\ UNCHANGED middle

\* A file that cannot be read is looked for again: it vanished, or it is a
\* candidate without a revision.
CannotRead ==
    /\ job.pc = "read"
    /\ Unreadable
    /\ JobStep([job EXCEPT !.pc = "exists"])
    /\ UNCHANGED middle

Exists ==
    /\ job.pc = "exists"
    /\ IF disk[Current].at = "absent"
       THEN Fail
       ELSE JobStep([job EXCEPT !.pc = "read", !.todo = @ \ {Current},
                                !.found[Current] = [NoEntry EXCEPT !.state = "Invalid"]])
    /\ UNCHANGED middle

\* Everything was read once; now everything is collected again.
StartAgain ==
    /\ job.pc = "read"
    /\ job.todo = {}
    /\ JobStep([job EXCEPT !.pc = "reenumerate", !.todo = Locators])
    /\ Remember

\* Mutant: only a name that has gone is a change.
NoNameGone(l) == l \in job.names => disk[l].at # "absent"

SameName(l) == (l \in job.names) = (disk[l].at # "absent")

Reenumerate ==
    /\ job.pc = "reenumerate"
    /\ \E l \in job.todo :
          IF SameName(l) THEN JobStep([job EXCEPT !.todo = @ \ {l}]) ELSE Fail
    /\ UNCHANGED middle

StartRereading ==
    /\ job.pc = "reenumerate"
    /\ job.todo = {}
    /\ JobStep([job EXCEPT !.pc = "reread", !.todo = job.names])
    /\ UNCHANGED middle

\* The second reading agrees with the first, in content or in failing.
Agrees ==
    IF job.found[Current].revision = None
    THEN Unreadable
    ELSE Whole /\ Bytes = job.found[Current].revision

Reread ==
    /\ job.pc = "reread"
    /\ Whole \/ Unreadable
    /\ IF Agrees THEN JobStep([job EXCEPT !.todo = @ \ {Current}]) ELSE Fail
    /\ UNCHANGED middle

Verify ==
    /\ job.pc = "reread"
    /\ job.todo = {}
    /\ JobStep([job EXCEPT !.pc = "verified"])
    /\ UNCHANGED middle

\* commitScan: names found get their candidate, known names not found are
\* Missing.
Commit ==
    /\ job.pc = "verified"
    /\ songs' = [l \in Locators |->
                    IF l \in job.names THEN job.found[l]
                    ELSE IF songs[l].state = "none" THEN NoEntry
                    ELSE [NoEntry EXCEPT !.state = "Missing"]]
    /\ job' = NoJob
    /\ UNCHANGED <<world, disk, root, held, reader, middle>>

-----------------------------------------------------------------------------
(* A preparation: read, compile, read again and compare.                   *)

\* Mutant: the generation of the snapshot is not compared.
AnyGeneration(generation) == TRUE

\* The snapshot was taken while the root was attached where it is now.
SameAttachment(generation) == generation = root.generation

\* Only a Ready song with a revision can be prepared.
Preparable(song) == song.state = "Ready" /\ song.revision # None

StartPrepare(l, snapshot, generation) ==
    /\ job.pc = "idle"
    /\ Preparable(snapshot[l])
    /\ SameAttachment(generation)
    /\ JobStep([NoJob EXCEPT !.pc = "first", !.todo = {l}, !.song = snapshot[l]])
    /\ UNCHANGED middle

FirstMatches == Bytes = job.song.revision

ReadFirst ==
    /\ job.pc = "first"
    /\ Whole \/ Unreadable
    /\ IF Whole /\ FirstMatches
       THEN JobStep([job EXCEPT !.pc = "compile", !.found[Current] = Found(Bytes)])
       ELSE Fail
    /\ UNCHANGED middle

\* Compilation and extraction work on the bytes just read; content that is
\* not valid is refused.
Compile ==
    /\ job.pc = "compile"
    /\ IF job.found[Current].state = "Ready"
       THEN JobStep([job EXCEPT !.pc = "second"]) /\ Remember
       ELSE Fail /\ UNCHANGED middle

\* Mutant: the file is not read again.
NoSecondLook == TRUE

SecondMatches == Whole /\ Bytes = job.song.revision

ReadSecond ==
    /\ job.pc = "second"
    /\ Whole \/ Unreadable
    /\ IF SecondMatches THEN JobStep([job EXCEPT !.pc = "prepared"]) ELSE Fail
    /\ UNCHANGED middle

Publish ==
    /\ job.pc = "prepared"
    /\ JobStep(NoJob)
    /\ UNCHANGED middle

-----------------------------------------------------------------------------
\* A limit, an alias, a cancellation, or an allocation that fails.
Abort ==
    /\ job.pc # "idle"
    /\ Fail
    /\ UNCHANGED middle

Detached ==
    [l \in Locators |-> IF songs[l].state = "none" THEN NoEntry
                        ELSE [NoEntry EXCEPT !.state = "Invalid"]]

\* reattachRoot between two calls: every song loses its source.
Reattach(d) ==
    /\ job.pc = "idle"
    /\ d # root.dir
    /\ root.generation < world.generations
    /\ root' = [dir |-> d, generation |-> root.generation + 1]
    /\ disk' \in Holdings
    /\ songs' = Detached
    /\ UNCHANGED <<world, held, job, reader, middle>>

\* A caller keeps the current snapshot.
Hold ==
    /\ job.pc = "idle"
    /\ held' = [songs |-> songs, generation |-> root.generation]
    /\ UNCHANGED <<world, disk, root, songs, job, reader, middle>>

Next ==
    \/ Others \/ ReadHead
    \/ StartScan \/ Enumerate \/ StartReading \/ ReadCandidate \/ CannotRead \/ Exists
    \/ StartAgain \/ Reenumerate \/ StartRereading \/ Reread \/ Verify \/ Commit
    \/ \E l \in Locators : StartPrepare(l, songs, root.generation)
                        \/ StartPrepare(l, held.songs, held.generation)
    \/ ReadFirst \/ Compile \/ ReadSecond \/ Publish
    \/ Abort \/ Hold
    \/ \E d \in Dirs : Reattach(d)

Spec == Init /\ [][Next]_vars

-----------------------------------------------------------------------------
(* Properties.                                                             *)

\* When nothing recurs, what a scan is about to commit is the directory as it
\* stood, all files together, at one moment: between the two collections.
ScanIsSnapshot ==
    ~world.recurs /\ job.pc = "verified" =>
        \A l \in Locators :
            /\ l \in job.names <=> middle[l].at # "absent"
            /\ l \in job.names =>
                  LET c == job.found[l] IN
                  IF c.revision = None
                  THEN middle[l].at = "denied"
                  ELSE middle[l].at = "file" /\ c.revision = <<middle[l].head, middle[l].tail>>

\* When nothing recurs, the file of a prepared song held the compiled bytes,
\* all of them at once, when extraction was over.
PreparedStillThere ==
    ~world.recurs /\ job.pc = "prepared" =>
        \A l \in job.todo :
            /\ middle[l].at = "file"
            /\ job.found[l].revision = <<middle[l].head, middle[l].tail>>

\* Whatever happens to the files, what is compiled is what the snapshot
\* recorded, valid then and now, from the directory it was recorded under; and
\* every Ready entry was read, whole or torn, from the directory the root is
\* attached to, and is content that compiles.
PreparedIsRecorded ==
    /\ job.pc \in {"compile", "second", "prepared"} =>
          \A l \in job.todo :
              /\ job.found[l].revision = job.song.revision
              /\ job.found[l].state = "Ready"
              /\ job.song.dir = root.dir
    /\ \A l \in Locators :
          songs[l].state = "Ready" => songs[l].revision \in Valid /\ songs[l].dir = root.dir
=============================================================================
