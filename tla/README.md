# OpenHDK in TLA+

TLA+ specifications of OpenHDK's library and playback core, the TLC runs that
check them and the TLAPS proofs about them. The reference is the C++ code under
`src/`; `PROJECT.json` names, for every definition that models code, the lines
it stands for.

    tlc -workers 2 -config CheckpointStore.cfg MCCheckpointStore
    tlapm CheckpointStoreProofs.tla

## 1. The system

OpenHDK is a karaoke player. A library of songs lives in one checkpoint file; a
service changes it through saves that either become durable or leave no trace;
a command line tells its caller what was saved. A song is read from a MIDI file,
compiled and rendered by an audio callback, whose media clock drives the lyrics.

| Component (source) | State | Operations | Interacts with | Hard behaviour |
| --- | --- | --- | --- | --- |
| `CatalogCheckpointStore` | open, fault latch, acknowledged token | open, save, close | provider; callers hold expectations | crash between rename and directory sync; error after an effect; stale expectation |
| `LinuxCheckpointProvider` | lease, two artifact slots, descriptor of the primary | probe, create, write, sync, publish, reconcile, clean up | file system, power cuts, other programs | page cache against disk, failed cleanup, window before `renameat` |
| `LinuxCheckpointLease` | registry of a process with its mutex, lock file, directory | acquire, check, release | other leases and processes, other programs | four calls on one name, failure after the reservation, two writers |
| `CatalogCheckpointCodec` | none | encode, decode, validate | store, capture | truncated or foreign bytes |
| `SongCatalog`, `SongDiscovery` | roots, songs, identity counters, revision, root directories | register, reattach, scan, relocate, remove, override | files, service | names equal up to case, nested roots, files that change during a scan, counters at their limit |
| `DurableLibraryService` | live owner, baseline, expectation, guards, state | create, open, six mutations, prepare, close | all above | swap only after acknowledgement, uncertain commit, recovery |
| `NativeStoreAdmission` | guard per attached root: path and held directory | stage, recheck, ancestor climb | service; directories moved by others | checks and use are steps apart |
| `SongPreparation`, `FilesystemSource` | none | read, compile, read again | snapshots, files changed by others | torn bytes, an older snapshot |
| `SmfParser`, `SmfTrackEventDecoder`, `SmfTimelineCompiler` | offset, tick, running status, tempo | parse, decode, merge, compile | preparation | every bound, integer time with remainders, overflow |
| `KarLyricExtractor`, `LyricTextDecoder` | charged storage | choose a track, decode, extract cues | timeline | limits inside an element, newlines, marks, half characters |
| `PlaybackSession` | state, frame clock, event cursor | prepare, play, pause, render, stop | backend | drift, boundary events |
| `MediaClockPublicationCell` | seqlock words, exhausted flag | publish, tryRead | callback, control, observer | weak memory, exhaustion |
| `FluidSynthBackend` | device, session, active flag, generation | initialize, play, stop, shutdown, callback | controller, clock, mixer | callback against control thread, failing device |
| `PlaybackController` | retained song, unconfirmed stop | start, stop, poll, destroy | backend, observer, library session | unknown outcome of start or stop |
| `LyricClockObserver`, `LyricMediaConsumer` | expected generation, cue prefix | bind, poll, advance, stop | clock | clock of another generation, boundary cues |
| `MidiRuntimeMixer` and its sink | gains, mask word, revision; applied snapshot | set, reset, recall, synchronise | control threads, callback | multi-word snapshot without a lock, wrap of the revision |
| Library command line and audio session | commit outcome of the last line, exit code | one line, one reply; finish; destruction | service, controller, caller | failure after a known commit, lost reply, exit in the right order |
| Presets and mixer console | map of names | save, recall, erase | mixer | none beyond the mixer's |
| Dispatcher, limiter, velocity curve, metadata, display, diagnostics | none | pure functions | backend, CLI | arithmetic and text |

What makes each of them correct: nothing handed out as durable is lost and
nothing refused surfaces later (store, service); the caller knows which of the
two it was (session); at most one writer (lease); one entry per file, identities
used once, nothing believed about files of another directory, and nothing
believed that was not there (catalog, discovery, preparation); no directory
adopted without consent (admission); the format is read as it is defined, exact
time and each event once, and lyrics with their events (decoder, timeline,
session, extraction); whole and advancing snapshots (clock); sound excludes
mutations and lyrics follow sound (controller, observer); no update lost and
silence kept (mixer).

## 2. Modules

| Module | Models | Used by |
| --- | --- | --- |
| `CheckpointProjection` | projection, validity, history rule | the next two, `LibraryService` |
| `CommitRegister` | abstract: a register with a confirmed value | implemented by `CheckpointStore` |
| `CheckpointStore` | store, provider and lease over cache and disk | `CheckpointStoreInvariant`, `CheckpointStoreProofs` |
| `ExclusiveLease` | abstract: an owner per directory | implemented by `WriterLease` |
| `WriterLease` | registry, mutex, lock file and flock | `WriterLeaseProofs` |
| `SongCatalog` | the live owner and its operations, as operators | `LibraryService`, `LibraryProofs` |
| `LibraryService` | the service over the store's abstract behaviour | `LibrarySession`, `LibraryProofs` |
| `NativeAdmission` | the service's guards and moving directories | `NativeAdmissionProofs` |
| `SourceVerification` | scan and preparation against changing files | `SourceVerificationProofs` |
| `PlaybackGate` | abstract: sound only while the gate is held | implemented by `Playback`, used by `LibrarySession` |
| `LibrarySession` | management and audio command line over service and gate | `LibraryProofs` |
| `Playback` | controller, observer, backend, callback | `BackendProofs` |
| `MediaClock` | the seqlock under release/acquire views | `MediaClockProofs` |
| `SmfReader` | bytes to events of tracks | `SmfTimeline` |
| `SmfTimeline` | merge and compiler | `PlaybackSession`, `KarLyrics` |
| `KarLyrics` | lyric track, text, cues, limits | `SongPlayback` |
| `PlaybackSession` | session playing a compiled file | `SongPlayback` |
| `SongPlayback` | one song from its bytes to its lyrics on display | `SongPlaybackProofs` |
| `RuntimeMixer` | mixer words and the sink's snapshot | `BackendProofs` |

`MC...` modules give the constants their values for TLC.

How the compositions fit together: `CheckpointStore` implements `CommitRegister`;
`LibraryService` is written over that register's behaviour; `Playback`
implements `PlaybackGate`; `LibrarySession` extends `LibraryService` and takes
`PlaybackGate` as an instance, and every step of a session is shown to be a step
of each, so what is shown of the parts carries over to the session. `SongPlayback` extends the file modules and the session into one run
from bytes to display; what stands between a published position and its reader
is `Playback`'s and `MediaClock`'s.

### State and actions against the code

**CheckpointStore.** A file is a model value with contents in the cache
(`bytes`) and a flag whether its data is on disk (`safe`). `primary` and
`staged` are the directory as a running program sees it; `diskPrimary`,
`mustLink` and `mayLink` are what a power cut may leave of it: every unsynced
change may or may not be there. `pc[s]` walks through `open` and `save` in the
order of the code, one step per system call that others can observe. Each step
may fail in the ways the code tells apart: with nothing done (`Abandon`,
`FailsDefinitely`, `ProbeFails`, `OpenFails`), or after an effect
(`RenameUncertain`, `SyncPublicationFails`), which sets the fault latch. A byte
or count limit, a cancellation and an I/O error are alternatives of the same
step. The commit token is the sequence and a SHA-256 digest; it is modelled by
the encoded value, which assumes no collisions. The probe of `acquire` is two
steps. An fsync that fails and then succeeds on a retry is assumed to have
written the data. The lease appears as an owner that acquires and releases.

**WriterLease** is that lease in detail. `lease[l]` holds the phase of the call
and what it has learnt: the path walked, the directory, the inode it looked at
and the one it opened. The registry's mutex is tried by `acquire` and waited for
by `release`. Every system call is a step, every step may fail, a process may
die between any two. An inode number returns to use once no name and no
descriptor has it. Other programs move directories anywhere; in the directories
of `Disturbed` they also remove, replace and link lock files, which advisory
locking cannot prevent: there only `OneConfirmedWriter` is claimed, elsewhere the
abstract lease. One library per directory stands for the lock name of a primary.

**LibraryService** uses `CommitRegister`'s behaviour for the store: `Publish`
changes what a reader finds, `Acknowledge` makes it durable and swaps the staged
owner in, `CommitUncertain` leaves either value, `PowerCut` returns to the
confirmed one. `Create`, `Open` and the failures around them follow
`initialize`. Operators of `SongCatalog` are the mutations of the owner. A scan
is one step with any outcome that two agreeing readings can have; a scan that
notices a change returns without effect.

**SourceVerification** opens that step up. `disk` is the directory, each file two
chunks read one after the other through an open descriptor that other programs'
replacement leaves behind. A scan lists the names one at a time, reads each
file, lists and reads again and commits; a preparation reads, compiles, reads
again. `Others` writes a chunk, replaces, removes or locks a file between any two
steps. The caller of a preparation uses the current snapshot or an older one it
has `held`. Files that return to an earlier state defeat any check by comparison;
`world.recurs` says whether they may, and the properties say what holds in each
case.

**NativeAdmission** refines the part of the service that `LibraryService` keeps
as an outcome. A guard is a path and the directory held open for it. `Move`
moves a directory between any two steps; a walk is one step, the ancestor climb
is one step per directory. Removal is a move out of reach. One mount, no
symbolic links. The service starts without attached roots, as
`app/library_main.cpp` and `app/library_audio_main.cpp` start it, so the loop of
`admit` over initial paths does not run. A lease is not reopened inside a
service, so lease epochs are left out.

**LibrarySession.** `at` is the place in the program: greeting, prompt, service
call, formatting, reply, finish, destructors. `entry` says whether it is the
management program or the audio one around it. Every line ends in one `reply`
(commit outcome, exit code, whether it ends the session) that is delivered or
lost. `believed` and `doubt` are history: what a caller can conclude from the
replies it got, and what the line in hand may have added; `trouble` is what went
wrong in the run: an error, a lost reply, a stop that was not confirmed, a backend
that did not come up, an authority that a play lost. Mutations, saves and
their failures are actions of `LibraryService`, playback is `PlaybackGate`. The
text of lines and replies is left out: a page that does not fit, a line that does
not parse, output that fails are alternatives. At the end of the input a line
without a newline is a line like others.

**MediaClock** has one step per atomic access and a view per reader: a load may
return any store the reader's view does not exclude, an acquire load of a
release store joins the views.

**SmfReader, SmfTimeline.** A file is a sequence of bytes. `stage` goes from the
header through the chunks, the events of each track (one event per step, with
`offset`, `tick` and the running status) and the merge to compiling, or to an
error; `fault` is the code and the offset the code reports. Faults of one element
are listed in the order of the code's tests. Ticks and times are bounded by
`MaxTime`, which stands for `UINT64_MAX`; the overflow tests are written as in
the code. `ExactTime` is the reference definition: the rational time of a tick
rounded down once.

**KarLyrics** starts from a compiled timeline: `Select` chooses the track or
refuses, then each selected event is one step that charges its storage, decodes
and emits a cue or metadata, or ends the extraction. What a record takes is a
constant (`CueBytes`, `MetadataBytes`, `OperationBytes`).

**PlaybackSession, SongPlayback.** Every operation of the session is an action;
`frames` and `delivered` are history. `SongPlayback` adds the consumer: an
observation at any moment shows the cues that are due at the published time.

**Playback.** The control thread is at `at` inside `call`; the callback runs
between its steps whenever the device runs. Sessions, publication, exhaustion
and generation counter follow the backend. `DeviceStops` is external: the
operating system stops the device. The legacy file player, headless rendering,
frame offsets inside a block and CC7 scaling are left out. The gate is held from
the first call of a start to a confirmed stop.

**RuntimeMixer.** Each store and load of the words is a step, also each
iteration of the compare-exchange loop. The contract documents one control
thread; the loop is written for several, so the model has two. A recalled preset
is `SetChannelFlags`.

## 3. Runs

| Run | Shows | Bounds |
| --- | --- | --- |
| `checkpoint_store` | `HandedOutSurvives`, `IdleKnowsDisk`, `RecoveryCopyOnDisk`, `ImplementsRegister` | 2 stores, 3 files, 5 projections, sequence up to 3 |
| `checkpoint_foreign` | `NoSilentOverwrite`, `CallsEnd` | 1 store, 3 files, 2 projections, sequence up to 2, one foreign change |
| `media_clock` | `NoTornSnapshot`, `QuietReadSucceeds` | 1 reader, 3 fields, sequence up to 7 |
| `library_service` | `LiveIsDurable`, `SourceIsCurrent`, `OneEntryPerFile`, `StagedIsAcceptable`, `IdentityNeverReused` | 2 nested directories beside a third, 3 names of which 2 differ by case, counters up to 5 |
| `native_admission` | `NoFalseAlarm`, `GuardsApart`, `QuietCommitIsSound`, `GuardsNeverRefreshed` | 3 directories, 2 names, 2 roots, 3 paths, one above the store's |
| `playback_session` | `ReadsTheFormat`, `TimesAreExact`, `LyricsAreTheText`, `ClockIsExact`, `EachEventOnce`, `LyricsOnTime` | 4241 files of bytes, up to 11 extraction options each, divisions 2 and 3, tempos 2, 4, 7, rates 3 and 4, blocks of 0 to 2 frames, largest integer 16 |
| `backend` | `LyricsFollowAudio`, `ExhaustedIsSilent`, `ImplementsGate`, `ClockMovesForward`, `PlaybackEnds`; `NoLostUpdate`, `SilencedStaySilent`, `CatchesUp` | 2 songs of length 1 and 4, blocks up to 2, 4 generations, 16 publications; 2 mixer controllers, 2 channels, 3 updates, revision modulo 3 |
| `writer_lease` | `OneConfirmedWriter`, `NothingLeaks`, `ImplementsExclusiveLease` | 2 leases of one process and 1 of another, 1 path, 2 directories of which 1 disturbed, 2 inodes, 1 registry entry |
| `source_verification` | `ScanIsSnapshot`, `PreparedStillThere`, `PreparedIsRecorded` | 2 values per chunk; 2 files that never recur, or 1 file that may and 2 directories |
| `library_session` | `CallerKnowsTheStore`, `ExitIsHonest`, `SilentWhileSaving` | 1 directory, 1 name, counters up to 3, any number of program runs |
| `playback_preparing` | finding: a session is left in `Preparing` | as `backend` |
| `audio_recovery` | finding: recovery ends a session with exit 1 | as `library_session` |

`backend` checks two specifications that share no state, `Playback` and
`RuntimeMixer`: `MCBackend` lets one of them move in each behaviour while the other rests,
so every behaviour of each is checked, and no interleavings, which could show
nothing that the parts do not.

Why the bounds are enough to be interesting:

- Three files are the primary and both artifacts of a save, or one of them and a
  leftover of an earlier failure. The five projections contain a reused identity,
  another catalog of the same revision, a removed song and an invalid projection.
  Sequences, generations, publications and counters stop at a limit that is a
  scaled-down `UINT64_MAX`; the runs reach it and the code's answer to it is part
  of the model.
- Three leases are enough for two contenders inside a process and one outside;
  a registry of one entry is full at once; two inodes are the file that was
  locked and its replacement, and are reused.
- Two chunks are the least that a torn read needs, two values the least that a
  change needs. Where files recur one name is enough, because then nothing is
  claimed across names; the second directory is for snapshots from before a
  reattachment.
- The files of `playback_session`: every pair of short events under tempo changes
  of another track; all payloads of up to four bytes over an alphabet of
  statuses, data and terminators, with and without an end of track; a whole file
  cut at every length and changed at the bytes that matter; and lyric files whose
  texts hold marks, newlines, Thai characters, halves of characters and titles,
  under limits that fall before, inside and after each of their elements.
- Two songs suffice for a restart with a shorter or longer one; four generations
  and sixteen publications allow several starts before exhaustion and reach it in
  each of the steps that publish.
- The mixer's revision wraps modulo 3. The guard `behind < Revisions - 1` says
  that fewer than 2^32 publications happen during one block, which is the only
  case in which inequality of revisions could miss a change.
- Tempos and divisions are chosen so that a tick is no whole number of
  microseconds, and 16 is small enough to be passed by the tick, by the time, by
  the whole quarters and by the fraction.

Deadlock is checked except in two runs. In `checkpoint_foreign`, whose
specification has no crashes, stage files left by failed cleanups may use up the
finite set of files. In `playback_session` a file that does not compile, or whose
lyrics do not fit, is not played and the model ends there.

### Fairness

`CallSpec` of `CheckpointStore` assumes weak fairness of a store's own steps: a
call is straight-line code of one thread that waits for nobody (the lease and the
registry are only tried). `Playback` and `RuntimeMixer` assume weak fairness of
the callback: a running device keeps asking for blocks. Nothing is assumed of
callers, of failures or of the device staying up; `PlaybackEnds` therefore ends
also with a stopped device. The other modules have no liveness properties and
assume nothing.

### Findings

`playback_preparing`: `PlaybackSession::prepare` sets `Preparing` before it copies
the events; if that allocation throws, the session stays there. `stop` refuses
the state, the backend's `clearSession` ignores the refusal, and no later song
can be prepared on that backend. The header calls the state internal
(`audio/PlaybackSession.hpp:114`).

`audio_recovery`: "RecoveryRequired ends the session with exit 76"
(`README.md:352-353`; so do `README.md:397-399` and
`docs/LIBRARY-CLI-ORCHESTRATION-PLAN.md:139-144`). The audio session's `play`
prepares through the service, which may find the lease, its directory or a root
gone and go to `RecoveryRequired`; `playLine` answers `PrepareFailed`, exit 1,
and goes on (`app/LibraryAudioSession.hpp:109-111`), where the management
session's `prepare` answers the same error with 76 and ends. The next management
line is answered with 76; but if the input ends first, the program exits with 1
as after a mistyped line. `RecoveryEndsWith76` is the documented sentence and is
violated. `ExitIsHonest` is what holds beside it, and its exemption is no wider
than this line: only a run in which a play lost the authority (`"play"` in
`trouble`) may go on without it or exit otherwise.

A disagreement between text and code that the models contain but no run is
devoted to:

- `PlaybackController` documents a refused start as one that admitted nothing
  (`app/PlaybackController.hpp:31-32`). The backend also refuses after it has
  admitted a generation, for example when the device does not start
  (`audio/FluidSynthBackend.cpp:402`), and has then published `Failed` for it.
  The controller ends idle either way; all properties of `backend` hold.

Known and documented limits that are not findings: after exhaustion of the
clock a stop cannot be confirmed, so mutations stay excluded until the
controller is destroyed; another program that replaces the checkpoint between
the last check and `renameat` is overwritten (`NoSilentOverwrite` states exactly
this window); failed cleanups keep artifact slots occupied until the store is
closed; a file changed and changed back between two readings passes
(`SourceVerification` states what still holds).

## 4. Proofs

All theorems hold for every value of the constants under the named assumptions
of the modules: finite sets of names, limits that are positive numbers, "nothing"
values that are no members of what they stand beside; of the directories of
`NativeAdmission`, that they form a tree at first; of the files of `SmfTimeline`,
that they are bytes and that one quarter note at any tempo they set fits the
integers (a division of 15 bits times a tempo of 24 bits is far below 2^64, so
the code cannot get there; a scaled-down integer could, and would then refuse
files for a reason the code never has); of `KarLyrics`, what `extract` tests of
its configuration, and that the sizes of its records are numbers. Where a property is not inductive, the
invariant that is proved instead is a conjunction of named parts. Every safety
property that a run checks is also a theorem, except the one that is named at the
end of this section.

- **`CheckpointStoreProofs`**: `TypeCorrect`, `Durable`, `IdleKnows`,
  `RecoveryCopy` and `Implements` (`ImplementsRegister`), from `Invariant`. The
  properties are not inductive: that a rename cannot expose an unsynchronised
  file depends on what the save wrote several steps earlier and on nobody else
  holding the lease. `IInv` adds: the lease is exclusive (`LockExclusive`); what
  the disk may show is synchronised and is the confirmed or the cached checkpoint
  (`DiskCoherent`); the cached one is at most one legal step ahead (`OneAhead`);
  an open, unfaulted store outside a publication knows a settled disk
  (`AckKnowsDisk`); and what a running save has staged (`SaveIsLegal`,
  `WritesNewFile`, `CandidateStaged`, `NamesNest`, `PriorStaged`,
  `RecoveryKept`). The proof goes action by action. The refinement maps
  `primary`'s contents to the register's value: `RenameSucceeds` and
  `RenameUncertain` are `Propose`, the synchronisation is `Confirm`, a power cut
  is `Lose`, everything else stutters.
  Beside programs that ignore the lease `IInv` fails, and rightly: they replace
  what was acknowledged. `NeverSilent` and `CallsNeverSilent`
  (`NoSilentOverwrite`) rest on what is left of it, `ForeignInv`: nobody writes
  into a file that is or was a primary, so what an open read decodes
  (`ReadIsWhole`), the file of the last check holds the acknowledged checkpoint
  whatever the name says by now (`CheckedIsAck`), and only a foreign rename after
  the admission can put another one in its way (`AdmittedIsAck`).
- **`WriterLeaseProofs`**: `TypeCorrect`, `ConfirmedWriterIsUnique`
  (`OneConfirmedWriter`), `NothingIsLeft` (`NothingLeaks`), `WriterIsUnique` and
  `Refinement` (`ImplementsExclusiveLease`), for any number of leases, processes,
  directories and inodes. `Descriptors` says what each phase of a call has open,
  `Locks` that the kernel's locks are those the leases believe to have, `OneName`
  that a file has one name at a time, and `QuietFiles` that in a directory nobody
  disturbs the file a lease has open is the one the directory names. The first
  three hold whatever others do and give uniqueness of the confirmed writer; the
  last gives the refinement, where a directory is held from the successful
  `flock` on. `Books` says whose reservations and mutexes there are: a
  reservation belongs to a lease in a phase that will erase it.
- **`LibraryProofs`**, first of the service: `TypeCorrect`, `Durable`
  (`LiveIsDurable`), `NeverReused` (`IdentityNeverReused`), `SourcesCurrent`,
  `OneEntry` and `AlwaysAcceptable` (`StagedIsAcceptable`), for any directories,
  names, overrides and counter limits. `Known` relates service, store and
  confirmed value between the steps of a call; `Identities` says that every owner
  a step could install (the live one, the staged one, what the store holds and
  what a power cut leaves) has allocated its new identities beyond all that
  callers saw; `Good` says of each of these that it is free of overlaps, aliases
  and stale sources; `Expected` that a staged owner continues the one it was made
  of. Each mutation has a lemma for each of them. A power cut and an uncertain
  commit go backwards or sideways among these values, which is why the invariant
  is about all of them.
  Then of the sessions: `SessionRunsBoth` (every step is a step or a stutter of
  the service and of the gate), so `SessionKeepsLibrary` and
  `SessionReusesNothing` carry the service's theorems over; and `CallerKnows`
  (`CallerKnowsTheStore`), `SavesInSilence` (`SilentWhileSaving`) and `ExitSaysIt`
  (`ExitIsHonest`) from `RunInv`: what the service does at each place of the
  program (`Steps`), where the gate may be held (`GateHeld`), that the reply under
  way will tell of whatever the store may hold (`Knows`), and that the exit code
  so far says what went wrong so far (`Honest`, `Reported`). `ExitSaysIt` says of
  a service in need of recovery that it gets no further line and that the run
  exits with 76, or 74 where input, output or memory fails, unless a `play` lost
  the authority; that case is the finding `audio_recovery`, and of it only a
  nonzero exit is proved.
- **`NativeAdmissionProofs`**: `TypeCorrect`, `AlarmIsNeverFalse`
  (`NoFalseAlarm`), `RootsApart` (`GuardsApart`), `NeverRefreshed`
  (`GuardsNeverRefreshed`) and `QuietIsSound` (`QuietCommitIsSound`), for any
  directories, names and roots. `Agreement` says that the live guards, and the
  rows staged so far, match the roots they are for, and that a row kept over a
  mutation keeps its directory; `Separation`, that live guards and rows staged so
  far are apart by path and by directory, and that a climb that has left the
  store's directory has met none of them. `Fenced`
  is about a fence during which nothing moved: how far the check of the lease,
  of the roots and the climb has come, and what that has established. That the
  climb reaches every directory above the store rests on the directories being a
  tree, which `Tree` shows moves to preserve.
- **`SourceVerificationProofs`**: `Faithful` (`PreparedIsRecorded`), `Snapshot`
  (`ScanIsSnapshot`) and `StillThere` (`PreparedStillThere`). Without any
  assumption on other programs, Ready entries are valid contents of the directory
  at hand (`Recorded`). Where nothing recurs, files only move on (`Before` orders
  what a file can be). The first reading bounds the files at the moment between
  the two readings from below (`First`), the second from above (`Second`), so what
  both agree on was there, all of it, at that moment (`Agreed`).
- **`MediaClockProofs`**: `TypeCorrect`, `SnapshotIsWhole` and `QuietRead`, for
  any number of readers and fields. The invariant relates each reader's view to
  what it has loaded: once it knows field `i` of publication `n`, its view of the
  sequence is at least the opening store of `n`, so the second load of the
  sequence cannot return an older even value.
- **`BackendProofs`**, first of the controller and the backend: `TypeCorrect`, `Refinement` (`ImplementsGate`),
  `LyricsBehindAudio` (`LyricsFollowAudio`), `SilentWhenExhausted`
  (`ExhaustedIsSilent`) and `ClockForward` (`ClockMovesForward`), for any songs,
  blocks and limits. Two threads change session and clock, so the invariant says
  what the callback may still do at every place of the control thread: between the
  admission of a song and the start of the device no callback is in flight
  (`InFlight`), nothing plays that the gate does not cover (`Covered`), the
  committed position is the rendered one (`Positions`), and the record that is to
  be published next follows the one shown (`Clocked`). `Latched` says that an
  exhausted clock silences the backend when the callback returns, `Bound` that the
  observer is bound between calls only. The refinement needs no more than `Covered`.
  Then of the mixer: `MixerTypeCorrect`, `NothingLost` (`NoLostUpdate`) and
  `SilenceKept` (`SilencedStaySilent`), for any number of controllers and
  channels. `Counts` ties the revision to the number of publications the callback
  is behind, which never reaches a full turn, so equal revisions mean that nothing
  was published in between; `Current` says that what a snapshot has read so far is
  current unless an update is under way; `Ordered` that an exchange stores over
  the word it has seen; `Silenced` that masked channels have no notes.
- **`SongPlaybackProofs`** goes from the bytes to the display. `TimelineIsExact`
  (`TimesAreExact`) is proved from `CompileInv`: what the reader has decoded are
  events within the limits of the format, at ticks that only grow along a track
  (`ReadInv`); the compiler takes the events in the order of the merge, under the
  tempo set last (`Merged`); and with what was carried over from conversion to
  conversion the clock is exact, `time * division + remainder` being the integral
  of the tempo map up to the previous tick (`Clock`). So each event on the
  timeline has the rounded musical time and no event comes before an earlier one
  (`Placed`), and a file is refused for its length only where an event's time does
  not fit (`Refused`). The musical time is a fold over the set of tempo events;
  that a fold may start with any element, and that adding the next event changes
  it by one span, is proved by induction on least counterexamples
  (`LeastNumber`), since the library's induction theorems take an operator.
  Of the session: `ExactClock` and `EventsOnce`. The carried remainder makes
  `media * rate + remainder` equal to `frames * Second` (`ClockInv`); a lemma on
  division turns that into exactness of the rounded time. `DeliveryInv` says that
  the delivered events are the prefix before the cursor and that the cursor is the
  first event beyond the media time; that the timeline is in order is
  `TimelineInOrder`, a consequence of `Placed`.
  Then of the song: `SongIsSession` (every step from bytes to display is a step or
  a stutter of `PlaybackSession`, so what is proved of sessions holds of songs)
  and `DisplayOnTime` (`LyricsOnTime`).
  `LyricsCarryTheText` (`LyricsAreTheText`) is proved from `TextInv`: every
  selected event so far has its record (`Recorded`), the storage charged is the
  storage kept (`Stored`) and stays within the options (`WithinLimits`). What an
  event adds follows from the loops over its bytes, which are folds from the
  left. `LeftFold` says that any solution of the equation behind such a fold
  passes through the values of its loop; so text decoded without a fault is bytes
  and not empty (`TextIs`), and the operations stand for all the bytes that the
  loop has passed, the leading marks included (`TilesTo`, `OperationsTile`). A
  record more adds its storage to the sum (`CueTotalGrows`).

Only model-checked: `ReadsTheFormat`, which compares the reader of the format
with a definition that is a fold over bytes and events of its own. Liveness (`CallsEnd`, `PlaybackEnds`, `CatchesUp`) is out
of the prover's reach and stays with TLC.

## 5. Not modelled

- Byte layout and digests of checkpoints: the codec is a pair of sequence and
  projection, or torn bytes. Decoding errors are refusals of `open`.
- Floating-point audio: peak limiter, velocity curve, CC7 scaling under gains;
  they keep no state and TLC has no reals.
- The MIDI event dispatcher: one event in, one call out.
- Metadata and display text, the grammar of command lines and of arguments, and
  the text of replies: functions without state whose results only decide between
  the alternatives the session has.
- The legacy file player, headless rendering, diagnostics: not part of the
  library program.
- Frame offsets inside a block, and the preset registry, a map used by one
  thread.
- Byte ledgers other than as refusals, except in the extraction of lyrics.
- Admission with roots already attached and lease epochs: no program starts or
  reopens a service that way.
- Windows variants of the file operations.

## 6. Plan

Done, in this order: checkpoint store and its abstract register; clock cell;
catalog and service; controller and backend; mixer; native admission; timeline
and session; the lease and its abstraction; scans and preparations against
changing files; the command line over service and gate; bytes, lyrics and
display; proofs.

Left, in modelling: admission with roots already attached and lease epochs; CC7
volumes and the preset registry; the codec's layout; two services taking turns
over one store.

Left, in proving: `ReadsTheFormat`, an induction over the bytes of a track, for
which the lemmas on folds and on least counterexamples are there.
