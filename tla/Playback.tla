------------------------------- MODULE Playback -------------------------------
(***************************************************************************)
(* Playback of one prepared song: PlaybackController and its               *)
(* LyricClockObserver on the control thread, FluidSynthBackend with its    *)
(* PlaybackSession, and the audio device whose callback renders the        *)
(* session on a thread of its own.                                         *)
(*                                                                         *)
(* The control thread is split where the callback may run in between and   *)
(* at every publication of the media clock; `call` and `at` say which call *)
(* it is in and how far.  The clock is the register that module MediaClock *)
(* shows it to be: a reader gets the last complete publication, nothing    *)
(* while one is under way (the observer then holds), or Exhausted.         *)
(* Media time counts rendered blocks.  The observer's cue prefix is given  *)
(* by its song and position.  The legacy file player, which no library     *)
(* session starts, and headless rendering are left out.                    *)
(***************************************************************************)
EXTENDS Integers

CONSTANTS
    Songs,           \* prepared songs
    NoSong,
    Length,          \* song -> time of its last event
    MaxBlock,        \* the most media time one callback renders
    MaxGeneration,   \* playback generations one backend object has
    MaxPublications  \* publications its media clock has

ASSUME NoSongAssumption == NoSong \notin Songs
ASSUME LengthAssumption == Length \in [Songs -> Nat]
ASSUME LimitAssumption == {MaxBlock, MaxGeneration, MaxPublications} \subseteq Nat \ {0}

VARIABLES
    call,       \* the control thread's call
    at,         \* and where it is
    starting,   \* the song a start is about
    answer,     \* what the last start answered
    prepared,   \* the controller's retained song
    observer,   \* the lyric observer: expected generation, song, position
    last,       \* lastAcknowledged_
    device,     \* the audio device
    callback,   \* where the device callback is
    session,    \* PlaybackSession
    active,     \* sessionActive
    generation, \* activeGeneration
    committed,  \* lastCommittedMediaMicroseconds
    admitted,   \* PlaybackGenerationCounter
    clock,      \* the last complete publication
    exhausted,  \* the clock's latch
    published   \* how many publications it took

controlVars == <<call, at, starting, answer>>
controllerVars == <<prepared, observer, last>>
sessionVars == <<session, active>>
clockVars == <<clock, exhausted, published>>
vars == <<controlVars, controllerVars, device, callback, sessionVars,
          generation, committed, admitted, clockVars>>

Unbound == [expected |-> 0, song |-> NoSong, position |-> 0]
Idle == [state |-> "Idle", song |-> NoSong, time |-> 0]
Unavailable == [generation |-> 0, phase |-> "Unavailable", time |-> 0]
Record(p, t) == [generation |-> generation, phase |-> p, time |-> t]

Generations == 0..MaxGeneration
LastTime(song) == Length[song] + MaxBlock
Times == {t \in Nat : t = 0 \/ \E song \in Songs : t <= LastTime(song)}
Places == {"idle", "play", "announce", "prepare", "commit", "startDevice", "bind",
           "stopDevice", "resume", "shutdown", "bringUp"}

TypeOK ==
    /\ call \in {"none", "start", "stop", "destroy", "initialize"}
    /\ at \in Places
    /\ starting \in Songs \cup {NoSong}
    /\ answer \in {"None", "BackendRejected", "Failed", "StopFailed"}
    /\ prepared \in Songs \cup {NoSong}
    /\ observer \in [expected: Generations, song: Songs \cup {NoSong}, position: Times]
    /\ last \in Generations
    /\ device \in {"off", "stopped", "running"}
    /\ callback \in {"idle", "rendered", "failing", "deactivating"}
    /\ session \in [state: {"Idle", "Preparing", "Playing", "Finished"},
                    song: Songs \cup {NoSong}, time: Times]
    /\ active \in BOOLEAN
    /\ generation \in Generations
    /\ committed \in Times
    /\ admitted \in Generations
    /\ clock \in [generation: Generations, time: Times,
                  phase: {"Unavailable", "Preparing", "Playing", "Finished", "Failed", "Stopped"}]
    /\ exhausted \in BOOLEAN
    /\ published \in 0..MaxPublications

Init ==
    /\ call = "none" /\ at = "idle" /\ starting = NoSong /\ answer = "None"
    /\ prepared = NoSong /\ observer = Unbound /\ last = 0
    /\ device = "off" /\ callback = "idle"
    /\ session = Idle /\ active = FALSE
    /\ generation = 0 /\ committed = 0 /\ admitted = 0
    /\ clock = Unavailable /\ exhausted = FALSE /\ published = 0

-----------------------------------------------------------------------------
(* What the calls share.                                                   *)

Publishes(r) ==
    /\ published < MaxPublications
    /\ clock' = r
    /\ published' = published + 1
    /\ UNCHANGED exhausted

\* A publication that no longer fits latches Exhausted and stores nothing.
Exhausts ==
    /\ published = MaxPublications
    /\ exhausted' = TRUE
    /\ UNCHANGED <<clock, published>>

\* A publication whose result is ignored.
MayPublish(r) == Publishes(r) \/ Exhausts

\* session.stop() accepts any state but Idle and the internal ones.
StopSession ==
    session' = IF session.state = "Preparing" THEN session ELSE Idle

\* Mutant: the session is stopped but stays active.
KeepActive == StopSession /\ UNCHANGED active

ClearSession == StopSession /\ active' = FALSE

\* Mutant: ma_device_stop does not wait for the callback.
NeverWaits == device # "off"

\* ma_device_stop returned: no callback is in flight.
Quiescent == device # "off" /\ callback = "idle"

\* restoreDevice: best effort.
Restore == device' \in {"running", "stopped"}

Proceed(place) == at' = place /\ UNCHANGED <<call, starting, answer>>

\* The call returns.
Return(a) == call' = "none" /\ at' = "idle" /\ starting' = NoSong /\ answer' = a
Reject == Return("BackendRejected") /\ UNCHANGED controllerVars

-----------------------------------------------------------------------------
(* PlaybackController::start and the backend's playCompiledTimeline.       *)

\* Mutant: the observer outlives the backend stop.
KeepsObserver == UNCHANGED observer

StopObserver == observer' = Unbound

\* From idle, with the observer stopped first.  A start while a song is
\* retained is answered AlreadyActive and touches nothing.
Start(song) ==
    /\ call = "none"
    /\ prepared = NoSong
    /\ StopObserver
    /\ call' = "start" /\ at' = "play" /\ starting' = song
    /\ UNCHANGED <<answer, prepared, last, device, callback, sessionVars,
                   generation, committed, admitted, clockVars>>

CanAdmit == admitted < MaxGeneration

\* Refused before anything changed: not initialised, a counter at its limit,
\* or a device that does not stop.
PlayRefused ==
    /\ at = "play"
    /\ device \in {"off", "running"} \/ ~CanAdmit \/ exhausted
    /\ Reject
    /\ UNCHANGED <<device, callback, sessionVars, generation, committed, admitted,
                   clockVars>>

\* The device is quiet and the clock readable: the old session ends and a
\* new generation begins.
Admit ==
    /\ at = "play"
    /\ Quiescent
    /\ CanAdmit
    /\ ~exhausted
    /\ device' = "stopped"
    /\ ClearSession
    /\ admitted' = admitted + 1
    /\ generation' = admitted'
    /\ committed' = 0
    /\ Proceed("announce")
    /\ UNCHANGED <<controllerVars, callback, clockVars>>

Announce ==
    /\ at = "announce"
    /\ \/ /\ Publishes(Record("Preparing", 0))
          /\ Proceed("prepare")
          /\ UNCHANGED <<controllerVars, device>>
       \/ Exhausts /\ Restore /\ Reject
    /\ UNCHANGED <<callback, sessionVars, generation, committed, admitted>>

\* session.prepare() and play() on an idle session.
Prepare ==
    /\ at = "prepare"
    /\ session.state = "Idle"
    /\ session' = [state |-> "Playing", song |-> starting, time |-> 0]
    /\ Proceed("commit")
    /\ UNCHANGED <<controllerVars, device, callback, active, generation, committed,
                   admitted, clockVars>>

\* Copying the timeline runs out of memory: the exception leaves the session
\* between its states and the device stopped, and the controller cleans up.
PrepareThrows ==
    /\ at = "prepare"
    /\ session.state = "Idle"
    /\ session' = [Idle EXCEPT !.state = "Preparing"]
    /\ Proceed("stopDevice")
    /\ UNCHANGED <<controllerVars, device, callback, active, generation, committed,
                   admitted, clockVars>>

\* A session that is not idle refuses.
PrepareFails ==
    /\ at = "prepare"
    /\ session.state # "Idle"
    /\ ClearSession
    /\ MayPublish(Record("Failed", 0))
    /\ Restore
    /\ Reject
    /\ UNCHANGED <<callback, generation, committed, admitted>>

Commit ==
    /\ at = "commit"
    /\ \/ /\ Publishes(Record("Playing", 0))
          /\ active' = TRUE
          /\ Proceed("startDevice")
          /\ UNCHANGED <<controllerVars, device, session>>
       \/ Exhausts /\ ClearSession /\ Restore /\ Reject
    /\ UNCHANGED <<callback, generation, committed, admitted>>

\* From here the callback runs, before the controller sees the answer.
DeviceStarts ==
    /\ at = "startDevice"
    /\ device' = "running"
    /\ Proceed("bind")
    /\ UNCHANGED <<controllerVars, callback, sessionVars, generation, committed,
                   admitted, clockVars>>

DeviceFails ==
    /\ at = "startDevice"
    /\ ClearSession
    /\ MayPublish(Record("Failed", 0))
    /\ Restore
    /\ Reject
    /\ UNCHANGED <<callback, generation, committed, admitted>>

\* LyricClockObserver::bind with the acknowledged generation.
Bind ==
    /\ at = "bind"
    /\ IF generation > last
         THEN /\ observer' = [expected |-> generation, song |-> starting, position |-> 0]
              /\ last' = generation
              /\ prepared' = starting
              /\ Return("None")
         ELSE StopObserver /\ Proceed("stopDevice") /\ UNCHANGED <<prepared, last>>
    /\ UNCHANGED <<device, callback, sessionVars, generation, committed, admitted,
                   clockVars>>
-----------------------------------------------------------------------------
(* PlaybackController::stop, the clean-up of a failed start, and the       *)
(* destructor over the backend's stopPlayback.                             *)

Stop ==
    /\ call = "none"
    /\ prepared # NoSong
    /\ StopObserver
    /\ call' = "stop" /\ at' = "stopDevice"
    /\ UNCHANGED <<starting, answer, prepared, last, device, callback, sessionVars,
                   generation, committed, admitted, clockVars>>

\* The destructor of an idle controller does nothing; another controller
\* may then use the backend.
Destroy ==
    /\ call = "none"
    /\ StopObserver
    /\ IF prepared = NoSong
         THEN last' = 0 /\ UNCHANGED <<call, at>>
         ELSE call' = "destroy" /\ at' = "stopDevice" /\ UNCHANGED last
    /\ UNCHANGED <<starting, answer, prepared, device, callback, sessionVars, generation,
                   committed, admitted, clockVars>>

\* Mutant: a failed start forgets its song although the stop failed.
ForgetsSong == prepared' = NoSong

\* finishFailedStart keeps the song of a start it could not undo.
KeepsSong == prepared' = IF call = "start" THEN starting ELSE prepared

\* The backend stop returned false or threw.
Unconfirmed ==
    /\ KeepsSong
    /\ IF call = "destroy" THEN Proceed("shutdown")
                           ELSE Return(IF call = "start" THEN "StopFailed" ELSE answer)
    /\ UNCHANGED <<observer, last>>

Confirmed ==
    /\ prepared' = NoSong
    /\ last' = IF call = "destroy" THEN 0 ELSE last
    /\ Return(IF call = "start" THEN "Failed" ELSE answer)
    /\ UNCHANGED observer

\* Not initialised, or the device does not stop.
StopRefused ==
    /\ at = "stopDevice"
    /\ device \in {"off", "running"}
    /\ Unconfirmed
    /\ UNCHANGED <<device, callback, sessionVars, generation, committed, admitted,
                   clockVars>>

\* The clock cannot be read any more.
StopUnobservable ==
    /\ at = "stopDevice"
    /\ Quiescent
    /\ exhausted
    /\ Restore
    /\ Unconfirmed
    /\ UNCHANGED <<callback, sessionVars, generation, committed, admitted, clockVars>>

\* The generation to close is the one the clock shows.
StopSilences ==
    /\ at = "stopDevice"
    /\ Quiescent
    /\ ~exhausted
    /\ ClearSession
    /\ committed' = 0
    /\ \/ /\ Publishes(IF clock.generation = 0 THEN Unavailable
                       ELSE [clock EXCEPT !.phase = "Stopped", !.time = 0])
          /\ device' = "stopped"
          /\ Proceed("resume")
          /\ UNCHANGED controllerVars
       \/ Exhausts /\ Restore /\ Unconfirmed
    /\ UNCHANGED <<callback, generation, admitted>>

\* A stop is confirmed only with the device running again.
Resume ==
    /\ at = "resume"
    /\ \/ device' = "running" /\ Confirmed
       \/ UNCHANGED device /\ Unconfirmed
    /\ UNCHANGED <<callback, sessionVars, generation, committed, admitted, clockVars>>

-----------------------------------------------------------------------------
(* The backend's shutdown and initialize.                                  *)

\* Uninitialising the device waits for the callback like stopping it.
Shutdown ==
    /\ at = "shutdown"
    /\ callback = "idle"
    /\ device' = "off"
    /\ ClearSession
    /\ generation' = 0
    /\ committed' = 0
    /\ MayPublish(Unavailable)
    /\ IF call = "destroy"
         THEN prepared' = NoSong /\ last' = 0 /\ Return(answer)
         ELSE Proceed("bringUp") /\ UNCHANGED <<prepared, last>>
    /\ UNCHANGED <<observer, callback, admitted>>

Initialize ==
    /\ call = "none"
    /\ prepared = NoSong
    /\ call' = "initialize" /\ at' = "shutdown"
    /\ UNCHANGED <<starting, answer, controllerVars, device, callback, sessionVars,
                   generation, committed, admitted, clockVars>>

\* An exhausted clock needs a new backend object; some failures shut down
\* once more.
BringUp ==
    /\ at = "bringUp"
    /\ \/ ~exhausted /\ device' = "running" /\ UNCHANGED clockVars
       \/ UNCHANGED <<device, clockVars>>
       \/ ~exhausted /\ MayPublish(Unavailable) /\ UNCHANGED device
    /\ Return(answer)
    /\ UNCHANGED <<controllerVars, callback, sessionVars, generation, committed, admitted>>

-----------------------------------------------------------------------------
(* The device and its callback.                                            *)

\* The device may stop by itself.
DeviceStops ==
    /\ device = "running"
    /\ callback = "idle"
    /\ device' = "stopped"
    /\ UNCHANGED <<controlVars, controllerVars, callback, sessionVars, generation,
                   committed, admitted, clockVars>>

\* Mutant: a block that passes the last event does not end the song.
EndsExactly(time) == time = Length[session.song]

\* The event cursor has reached the end of the timeline.
AtEnd(time) == time >= Length[session.song]

\* A block is rendered and its end committed; at the end of the timeline the
\* release tail completes the session.
RenderBlock ==
    /\ device = "running"
    /\ callback = "idle"
    /\ active
    /\ session.state = "Playing"
    /\ \E n \in 1..MaxBlock :
          LET time == session.time + n IN
          /\ time <= LastTime(session.song)
          /\ session' = [session EXCEPT !.time = time,
                                        !.state = IF AtEnd(time) THEN "Finished" ELSE @]
          /\ committed' = time
    /\ callback' = "rendered"
    /\ UNCHANGED <<controlVars, controllerVars, device, active, generation, admitted,
                   clockVars>>

\* Synthesis or dispatch fails, the clock overflows, or the session does not
\* play: the committed position stays.
RenderFails ==
    /\ device = "running"
    /\ callback = "idle"
    /\ active
    /\ StopSession
    /\ callback' = "failing"
    /\ UNCHANGED <<controlVars, controllerVars, device, active, generation, committed,
                   admitted, clockVars>>

PublishFailure ==
    /\ callback = "failing"
    /\ MayPublish(Record("Failed", committed))
    /\ callback' = "deactivating"
    /\ UNCHANGED <<controlVars, controllerVars, device, sessionVars, generation,
                   committed, admitted>>

\* The position, or the end.  What cannot be published is not played on.
PublishBlock ==
    /\ callback = "rendered"
    /\ \/ /\ Publishes(Record(IF session.state = "Finished" THEN "Finished" ELSE "Playing",
                              committed))
          /\ callback' = IF session.state = "Finished" THEN "deactivating" ELSE "idle"
          /\ UNCHANGED sessionVars
       \/ Exhausts /\ ClearSession /\ callback' = "idle"
    /\ UNCHANGED <<controlVars, controllerVars, device, generation, committed, admitted>>

Deactivate ==
    /\ callback = "deactivating"
    /\ active' = FALSE
    /\ callback' = "idle"
    /\ UNCHANGED <<controlVars, controllerVars, device, session, generation, committed,
                   admitted, clockVars>>

-----------------------------------------------------------------------------
\* pollDisplayWithClock: one read drives the observer.  A terminal record, a
\* foreign generation, an exhausted clock and a position that went back clear
\* it; Preparing holds it.
Poll ==
    /\ call = "none"
    /\ observer' =
         IF exhausted THEN Unbound
         ELSE IF observer.expected = 0 THEN observer
         ELSE IF clock.generation # observer.expected THEN Unbound
         ELSE IF clock.phase = "Preparing" THEN observer
         ELSE IF clock.phase \in {"Playing", "Finished"} /\ clock.time >= observer.position
              THEN [observer EXCEPT !.position = clock.time]
         ELSE Unbound
    /\ UNCHANGED <<controlVars, prepared, last, device, callback, sessionVars,
                   generation, committed, admitted, clockVars>>

-----------------------------------------------------------------------------
Control ==
    \/ \E song \in Songs : Start(song)
    \/ PlayRefused \/ Admit \/ Announce \/ Prepare \/ PrepareThrows \/ PrepareFails
    \/ Commit \/ DeviceStarts \/ DeviceFails \/ Bind
    \/ Stop \/ Destroy \/ StopRefused \/ StopUnobservable \/ StopSilences \/ Resume
    \/ Initialize \/ Shutdown \/ BringUp \/ Poll

Callback == RenderBlock \/ PublishFailure \/ PublishBlock \/ Deactivate

Next == Control \/ Callback \/ RenderFails \/ DeviceStops

\* A running device keeps calling back; nothing has to fail.
Spec == Init /\ [][Next]_vars /\ WF_vars(Callback)

-----------------------------------------------------------------------------
(* Properties.                                                             *)

\* The controller is the gate the library session composes with: from the
\* moment a start begins to the end of the call that gives the song up, and
\* at no other time, something may sound.
Gate == INSTANCE PlaybackGate
        WITH held <- prepared # NoSong \/ call \in {"start", "stop", "destroy"},
             audible <- active

ImplementsGate == Gate!Spec

\* The lyrics on display are those of the retained song and never ahead of
\* the audio of the generation they were bound to, whatever was stopped,
\* failed or restarted meanwhile (observer stop before backend stop).
LyricsFollowAudio ==
    observer.expected # 0 =>
        /\ observer.song = prepared
        /\ observer.expected = generation
        /\ observer.position <= committed
        /\ session.state = "Playing" => session.song = observer.song

\* A clock nobody can read any more belongs to a silent backend.
ExhaustedIsSilent == exhausted /\ callback = "idle" => ~active

Rank == [Preparing |-> 0, Playing |-> 1, Finished |-> 2, Failed |-> 2, Stopped |-> 3]

\* The published record of one generation only moves forward, and no record of
\* an older generation follows a newer one: the callback and the control thread
\* never publish against each other (MEDIA-CLOCK-HANDOFF-CONTRACT section 5).
ClockMovesForward ==
    [][clock.generation # 0 /\ clock'.generation # 0 =>
          \/ clock'.generation > clock.generation
          \/ /\ clock'.generation = clock.generation
             /\ Rank[clock'.phase] >= Rank[clock.phase]
             /\ clock'.phase # "Stopped" => clock'.time >= clock.time]_clock

\* What plays on a device that runs comes to an end.
PlaybackEnds == active /\ device = "running" ~> ~active \/ device # "running"

\* "Preparing and Stopping are synchronous internal states"
\* (PlaybackSession.hpp): no call of the backend leaves the session in one,
\* a start that ran out of memory included.
PreparingIsInternal == call = "none" => session.state # "Preparing"
=============================================================================
