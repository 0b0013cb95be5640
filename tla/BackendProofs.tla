----------------------------- MODULE BackendProofs ------------------------------
(***************************************************************************)
(* Proofs about the two protocols between the control thread and the audio *)
(* callback of the backend.                                                *)
(*                                                                         *)
(* Playback, for any songs, blocks and limits: the controller implements   *)
(* the gate, lyrics follow the audio, an exhausted clock is silent, and    *)
(* published records only move forward.  None of them is about one thread  *)
(* alone; the invariant says what the callback may still do at every place *)
(* of the control thread.                                                  *)
(*                                                                         *)
(* RuntimeMixer, for any number of controllers, channels, gains and        *)
(* presets and any width of the revision counter: no update is lost and    *)
(* what is silenced stays silent.                                          *)
(***************************************************************************)
EXTENDS Playback, RuntimeMixer, TLAPS

(* Playback.                                                               *)


Phases == {"Unavailable", "Preparing", "Playing", "Finished", "Failed", "Stopped"}

\* TypeOK but for the flags, which the prover treats apart.
Kinds ==
    /\ call \in {"none", "start", "stop", "destroy", "initialize"}
    /\ at \in Places
    /\ starting \in Songs \cup {NoSong}
    /\ answer \in {"None", "BackendRejected", "Failed", "StopFailed"}
    /\ prepared \in Songs \cup {NoSong}
    /\ observer \in [expected : Generations, song : Songs \cup {NoSong}, position : Times]
    /\ last \in Generations
    /\ device \in {"off", "stopped", "running"}
    /\ callback \in {"idle", "rendered", "failing", "deactivating"}
    /\ session \in [state : {"Idle", "Preparing", "Playing", "Finished"},
                    song : Songs \cup {NoSong}, time : Times]
    /\ generation \in Generations
    /\ committed \in Times
    /\ admitted \in Generations
    /\ clock \in [generation : Generations, phase : Phases, time : Times]
    /\ published \in 0..MaxPublications

\* Where each call can be, and the song it is about.
StartPlaces == {"play", "announce", "prepare", "commit", "startDevice", "bind",
                "stopDevice", "resume"}

Calling ==
    /\ call = "none" => at = "idle"
    /\ call = "start" => at \in StartPlaces /\ starting \in Songs /\ prepared = NoSong
    /\ call = "stop" => at \in {"stopDevice", "resume"} /\ prepared \in Songs
    /\ call = "destroy" => at \in {"stopDevice", "resume", "shutdown"} /\ prepared \in Songs
    /\ call = "initialize" => at \in {"shutdown", "bringUp"} /\ prepared = NoSong

\* Nothing plays that the gate does not cover, nor while a start is on its way
\* to the device or a stop is past it.
Covered ==
    /\ active => prepared # NoSong \/ call \in {"start", "stop", "destroy"}
    /\ at \in {"play", "announce", "prepare", "commit", "resume"} => ~active

\* A callback in flight is that of an active session; the device stands from the
\* admission of a song to its start.
InFlight ==
    /\ callback # "idle" => active
    /\ at \in {"announce", "prepare", "commit", "startDevice"} => device = "stopped" /\ callback = "idle"

\* The latch is set by a publication that does not fit, and found by whoever
\* would play on.
Latched ==
    exhausted => published = MaxPublications /\ (callback = "idle" => ~active)

\* The position that is committed is the one rendered.
Positions ==
    /\ session.state = "Playing" => session.time = committed /\ session.song \in Songs
    /\ at \in {"announce", "prepare", "commit"} => committed = 0
    /\ at \in {"commit", "startDevice", "bind"} /\ session.state = "Playing" =>
          session.song = starting

\* What the clock shows, at each place where something is published after it.
Shown(p) == clock.generation = generation /\ clock.phase = p
Clocked ==
    /\ generation <= admitted /\ clock.generation <= admitted
    /\ clock.phase = "Unavailable" => clock.generation = 0
    /\ at = "announce" => clock.generation < generation
    /\ at \in {"prepare", "commit"} => Shown("Preparing") /\ clock.time = 0
    /\ at = "startDevice" => Shown("Playing") /\ clock.time = 0
    /\ active /\ callback # "deactivating" => Shown("Playing") /\ clock.time <= committed
    /\ ~exhausted /\ (Shown("Playing") \/ Shown("Finished")) => clock.time <= committed

\* A bound observer is the retained song's, between calls.
Bound ==
    observer.expected # 0 =>
        /\ call = "none" /\ prepared # NoSong
        /\ LyricsFollowAudio

PInv == Kinds /\ Calling /\ Covered /\ InFlight /\ Latched /\ Positions /\ Clocked /\ Bound

\* A step of the clock, if it is one.
Forward ==
    clock' # clock /\ clock.generation # 0 /\ clock'.generation # 0 =>
        \/ clock'.generation > clock.generation
        \/ /\ clock'.generation = clock.generation
           /\ Rank[clock'.phase] >= Rank[clock.phase]
           /\ clock'.phase # "Stopped" => clock'.time >= clock.time

LEMMA Limits ==
    /\ MaxBlock \in Nat /\ MaxGeneration \in Nat /\ MaxPublications \in Nat
    /\ 0 \in Times /\ Times \subseteq Nat
    /\ Generations = 0..MaxGeneration
BY LimitAssumption DEF Times, Generations

LEMMA Ranks ==
    /\ Rank["Preparing"] = 0 /\ Rank["Playing"] = 1 /\ Rank["Finished"] = 2
    /\ Rank["Failed"] = 2 /\ Rank["Stopped"] = 3
BY DEF Rank

LEMMA InitHolds == Init => PInv
BY Limits, NoSongAssumption DEF Init, PInv, Kinds, Calling, Covered, InFlight, Latched, Positions, Clocked, Bound,
   Shown, Unbound, Idle, Unavailable, Places, Phases

-----------------------------------------------------------------------------
(* The control thread: a start.                                            *)

LEMMA StartKeeps ==
    ASSUME PInv, \/ \E song \in Songs : Start(song)
                 \/ PlayRefused \/ Admit \/ Announce
    PROVE  PInv' /\ Forward
<1> USE Limits, Ranks, NoSongAssumption
<1> USE DEF PInv, Kinds, Calling, Covered, InFlight, Latched, Positions, Clocked, Shown, Bound,
            LyricsFollowAudio, Forward, Phases, Places, StartPlaces,
            controlVars, controllerVars, sessionVars, clockVars
<1>1. ASSUME NEW song \in Songs, Start(song) PROVE PInv' /\ Forward
  BY <1>1 DEF Start, StopObserver, Unbound
<1>2. CASE PlayRefused
  BY <1>2 DEF PlayRefused, Reject, Return
<1>3. CASE Admit
  BY <1>3 DEF Admit, Quiescent, CanAdmit, ClearSession, StopSession, Idle, Proceed
<1>4. CASE Announce
  BY <1>4 DEF Announce, Publishes, Record, Exhausts, Restore, Reject, Return, Proceed
<1> QED
  BY <1>1, <1>2, <1>3, <1>4

LEMMA PrepareKeeps ==
    ASSUME PInv, Prepare \/ PrepareThrows \/ PrepareFails \/ Commit
    PROVE  PInv' /\ Forward
<1> USE Limits, Ranks, NoSongAssumption
<1> USE DEF PInv, Kinds, Calling, Covered, InFlight, Latched, Positions, Clocked, Shown, Bound,
            LyricsFollowAudio, Forward, Phases, Places, StartPlaces,
            controlVars, controllerVars, sessionVars, clockVars
<1>1. CASE Prepare
  BY <1>1 DEF Prepare, Proceed
<1>2. CASE PrepareThrows
  BY <1>2 DEF PrepareThrows, Idle, Proceed
<1>3. CASE PrepareFails
  BY <1>3 DEF PrepareFails, ClearSession, StopSession, Idle, MayPublish, Publishes, Record,
              Exhausts, Restore, Reject, Return
<1>4. CASE Commit
  BY <1>4 DEF Commit, Publishes, Record, Exhausts, ClearSession, StopSession, Idle, Restore,
              Reject, Return, Proceed
<1> QED
  BY <1>1, <1>2, <1>3, <1>4

LEMMA DeviceKeeps ==
    ASSUME PInv, DeviceStarts \/ DeviceFails \/ Bind
    PROVE  PInv' /\ Forward
<1> USE Limits, Ranks, NoSongAssumption
<1> USE DEF PInv, Kinds, Calling, Covered, InFlight, Latched, Positions, Clocked, Shown, Bound,
            LyricsFollowAudio, Forward, Phases, Places, StartPlaces,
            controlVars, controllerVars, sessionVars, clockVars
<1>1. CASE DeviceStarts
  BY <1>1 DEF DeviceStarts, Proceed
<1>2. CASE DeviceFails
  BY <1>2 DEF DeviceFails, ClearSession, StopSession, Idle, MayPublish, Publishes, Record,
              Exhausts, Restore, Reject, Return
<1>3. CASE Bind
  BY <1>3 DEF Bind, StopObserver, Unbound, Return, Proceed
<1> QED
  BY <1>1, <1>2, <1>3

-----------------------------------------------------------------------------
(* The control thread: stops, shutdown and polls.                          *)

LEMMA StopKeeps ==
    ASSUME PInv, Stop \/ Destroy \/ StopRefused \/ StopUnobservable \/ Resume
    PROVE  PInv' /\ Forward
<1> USE Limits, NoSongAssumption
<1> USE DEF PInv, Kinds, Calling, Covered, InFlight, Latched, Positions, Clocked, Shown, Bound,
            LyricsFollowAudio, Forward, Phases, Places, StartPlaces,
            controlVars, controllerVars, sessionVars, clockVars
<1>1. CASE Stop
  BY <1>1 DEF Stop, StopObserver, Unbound
<1>2. CASE Destroy
  BY <1>2 DEF Destroy, StopObserver, Unbound
<1>3. CASE StopRefused
  BY <1>3 DEF StopRefused, Unconfirmed, KeepsSong, Proceed, Return
<1>4. CASE StopUnobservable
  BY <1>4 DEF StopUnobservable, Quiescent, Restore, Unconfirmed, KeepsSong, Proceed, Return
<1>5. CASE Resume
  BY <1>5 DEF Resume, Confirmed, Unconfirmed, KeepsSong, Proceed, Return
<1> QED
  BY <1>1, <1>2, <1>3, <1>4, <1>5

LEMMA SilenceKeeps ==
    ASSUME PInv, StopSilences
    PROVE  PInv' /\ Forward
<1> USE Limits, Ranks, NoSongAssumption
<1>1. /\ at = "stopDevice" /\ callback = "idle" /\ ~exhausted /\ session' \in {session, Idle}
      /\ session'.state # "Playing" /\ active' = FALSE /\ committed' = 0
      /\ UNCHANGED <<callback, generation, admitted>>
  BY DEF StopSilences, Quiescent, ClearSession, StopSession, Idle
<1> DEFINE closed == IF clock.generation = 0 THEN Unavailable
                     ELSE [clock EXCEPT !.phase = "Stopped", !.time = 0]
<1>2. /\ closed \in [generation : Generations, phase : {"Unavailable", "Stopped"}, time : {0}]
      /\ closed.generation = clock.generation
      /\ closed.generation # 0 => closed.phase = "Stopped"
      /\ closed.phase = "Unavailable" => closed.generation = 0
  BY DEF PInv, Kinds, Unavailable
<1>3. CASE Publishes(closed) /\ device' = "stopped" /\ Proceed("resume") /\ UNCHANGED controllerVars
  <2>1. /\ clock' = closed /\ at' = "resume" /\ device' = "stopped"
        /\ published' \in 0..MaxPublications /\ UNCHANGED <<exhausted, call, starting, answer, prepared, observer, last>>
    BY <1>3 DEF Publishes, Proceed, controllerVars, PInv, Kinds
  <2> HIDE DEF closed
  <2>2. Forward
    <3>1. \A p \in Phases \ {"Unavailable"} : Rank["Stopped"] >= Rank[p]
      BY DEF Phases
    <3>2. clock'.generation = clock.generation /\ clock'.phase \in {"Unavailable", "Stopped"}
      BY <1>2, <2>1
    <3>3. clock'.generation # 0 => clock'.phase = "Stopped"
      BY <1>2, <2>1
    <3>4. clock.generation # 0 => clock.phase # "Unavailable"
      BY DEF PInv, Clocked
    <3> QED
      BY <3>1, <3>2, <3>3, <3>4 DEF Forward, PInv, Kinds
  <2>3. PInv'
    BY <1>1, <1>2, <2>1
       DEF PInv, Kinds, Calling, Covered, InFlight, Latched, Positions, Clocked, Shown, Bound,
           LyricsFollowAudio, Phases, Places, StartPlaces, Idle
  <2> QED
    BY <2>2, <2>3
<1>4. CASE Exhausts /\ Restore /\ Unconfirmed
  BY <1>1, <1>4
     DEF PInv, Kinds, Calling, Covered, InFlight, Latched, Positions, Clocked, Shown, Bound,
         LyricsFollowAudio, Forward, Phases, Places, StartPlaces, Idle,
         Exhausts, Restore, Unconfirmed, KeepsSong, Proceed, Return
<1> QED
  BY <1>3, <1>4 DEF StopSilences

LEMMA ShutdownKeeps ==
    ASSUME PInv, Initialize \/ Shutdown \/ BringUp \/ Poll
    PROVE  PInv' /\ Forward
<1> USE Limits, Ranks, NoSongAssumption
<1> USE DEF PInv, Kinds, Calling, Covered, InFlight, Latched, Positions, Clocked, Shown, Bound,
            LyricsFollowAudio, Forward, Phases, Places, StartPlaces,
            controlVars, controllerVars, sessionVars, clockVars
<1>1. CASE Initialize
  BY <1>1 DEF Initialize
<1>2. CASE Shutdown
  BY <1>2 DEF Shutdown, ClearSession, StopSession, Idle, MayPublish, Publishes, Exhausts,
              Unavailable, Return, Proceed
<1>3. CASE BringUp
  BY <1>3 DEF BringUp, MayPublish, Publishes, Exhausts, Unavailable, Return
<1>4. CASE Poll
  BY <1>4 DEF Poll, Unbound
<1> QED
  BY <1>1, <1>2, <1>3, <1>4

-----------------------------------------------------------------------------
(* The device and its callback.                                            *)

LEMMA RenderKeeps ==
    ASSUME PInv, RenderBlock
    PROVE  PInv' /\ Forward
<1> USE Limits, NoSongAssumption
<1>1. PICK n \in 1..MaxBlock :
        session' = [session EXCEPT !.time = session.time + n,
                                   !.state = IF AtEnd(session.time + n) THEN "Finished" ELSE @]
        /\ committed' = session.time + n /\ session.time + n <= LastTime(session.song)
  BY DEF RenderBlock
<1>2. /\ device = "running" /\ callback = "idle" /\ active /\ session.state = "Playing"
      /\ callback' = "rendered"
      /\ UNCHANGED <<call, at, starting, answer, prepared, observer, last, device, active,
                     generation, admitted, clock, exhausted, published>>
  BY DEF RenderBlock, controlVars, controllerVars, clockVars
<1>3. /\ session' \in [state : {"Playing", "Finished"}, song : Songs, time : Times]
      /\ session'.time = committed' /\ session'.song = session.song
      /\ committed' \in Times /\ committed' >= committed
  <2> DEFINE s == IF AtEnd(session.time + n) THEN "Finished" ELSE "Playing"
  <2>1. session' = [session EXCEPT !.time = session.time + n, !.state = s]
    BY <1>1, <1>2
  <2>2. s \in {"Playing", "Finished"}
    OBVIOUS
  <2> HIDE DEF s
  <2>3. session' = [state |-> s, song |-> session.song, time |-> session.time + n]
    BY <2>1 DEF PInv, Kinds
  <2>4. session.time \in Nat /\ session.time = committed /\ session.song \in Songs
    BY <1>2 DEF PInv, Kinds, Positions
  <2>5. session.time + n \in Times /\ session.time + n >= committed
    BY <1>1, <2>4 DEF Times
  <2> QED
    BY <1>1, <2>2, <2>3, <2>4, <2>5
<1>4. Kinds'
  BY <1>2, <1>3 DEF PInv, Kinds
<1>5. /\ clock.time \in Nat /\ observer.position \in Nat /\ committed \in Nat /\ committed' \in Nat
  BY <1>3 DEF PInv, Kinds
<1>6. Clocked' /\ Bound'
  BY <1>2, <1>3, <1>5 DEF PInv, InFlight, Clocked, Shown, Bound, LyricsFollowAudio
<1>7. Calling' /\ Covered' /\ InFlight' /\ Latched' /\ Positions' /\ Forward
  BY <1>2, <1>3 DEF PInv, Calling, Covered, InFlight, Latched, Positions, Forward
<1> QED
  BY <1>4, <1>6, <1>7 DEF PInv

LEMMA PublishKeeps ==
    ASSUME PInv, PublishBlock
    PROVE  PInv' /\ Forward
<1> USE Limits, Ranks, NoSongAssumption
<1>1. /\ callback = "rendered" /\ active
      /\ clock.generation = generation /\ clock.phase = "Playing" /\ clock.time <= committed
  BY DEF PublishBlock, PInv, InFlight, Clocked, Shown
<1>2. UNCHANGED <<call, at, starting, answer, prepared, observer, last, device, generation,
                  committed, admitted>>
  BY DEF PublishBlock, controlVars, controllerVars
<1>3. ASSUME NEW p \in {"Playing", "Finished"}, Publishes(Record(p, committed)),
             callback' = IF p = "Finished" THEN "deactivating" ELSE "idle", UNCHANGED sessionVars
      PROVE  PInv' /\ Forward
  BY <1>1, <1>2, <1>3
     DEF PInv, Kinds, Calling, Covered, InFlight, Latched, Positions, Clocked, Shown, Bound,
         LyricsFollowAudio, Forward, Phases, Publishes, Record, sessionVars
<1>4. CASE Exhausts /\ ClearSession /\ callback' = "idle"
  BY <1>1, <1>2, <1>4
     DEF PInv, Kinds, Calling, Covered, InFlight, Latched, Positions, Clocked, Shown, Bound,
         LyricsFollowAudio, Forward, Phases, Exhausts, ClearSession, StopSession, Idle
<1>5. CASE session.state = "Finished"
  BY <1>3, <1>4, <1>5 DEF PublishBlock
<1>6. CASE session.state # "Finished"
  BY <1>3, <1>4, <1>6 DEF PublishBlock
<1> QED
  BY <1>5, <1>6

LEMMA FailureKeeps ==
    ASSUME PInv, RenderFails \/ PublishFailure \/ Deactivate \/ DeviceStops
    PROVE  PInv' /\ Forward
<1> USE Limits, Ranks, NoSongAssumption
<1> USE DEF PInv, Kinds, Calling, Covered, InFlight, Latched, Positions, Clocked, Shown, Bound,
            LyricsFollowAudio, Forward, Phases, Places, StartPlaces,
            controlVars, controllerVars, sessionVars, clockVars
<1>1. CASE RenderFails
  BY <1>1 DEF RenderFails, StopSession, Idle
<1>2. CASE PublishFailure
  BY <1>2 DEF PublishFailure, MayPublish, Publishes, Record, Exhausts
<1>3. CASE Deactivate
  BY <1>3 DEF Deactivate
<1>4. CASE DeviceStops
  BY <1>4 DEF DeviceStops
<1> QED
  BY <1>1, <1>2, <1>3, <1>4

LEMMA StepHolds == PInv /\ [Next]_vars => PInv' /\ (Forward \/ UNCHANGED clock)
<1> SUFFICES ASSUME PInv, [Next]_vars PROVE PInv' /\ (Forward \/ UNCHANGED clock)
  OBVIOUS
<1>1. CASE UNCHANGED vars
  BY <1>1 DEF vars, controlVars, controllerVars, sessionVars, clockVars,
              PInv, Kinds, Calling, Covered, InFlight, Latched, Positions, Clocked, Shown, Bound,
              LyricsFollowAudio
<1>2. CASE Next
  BY <1>2, StartKeeps, PrepareKeeps, DeviceKeeps, StopKeeps, SilenceKeeps, ShutdownKeeps,
     RenderKeeps, PublishKeeps, FailureKeeps DEF Next, Control, Callback
<1> QED
  BY <1>1, <1>2

Flag == active \in BOOLEAN /\ exhausted \in BOOLEAN

LEMMA FlagStep == Flag /\ [Next]_vars => Flag'
<1> SUFFICES ASSUME Flag, [Next]_vars PROVE Flag'
  OBVIOUS
<1>1. active' = active \/ active' = FALSE \/ active' = TRUE
  BY Zenon DEF Next, vars, Control, Callback, Start, PlayRefused, Admit, Announce, Prepare,
     PrepareThrows, PrepareFails, Commit, DeviceStarts, DeviceFails, Bind, Stop, Destroy,
     StopRefused, StopUnobservable, StopSilences, Resume, Initialize, Shutdown, BringUp, Poll,
     RenderBlock, RenderFails, PublishFailure, PublishBlock, Deactivate, DeviceStops,
     ClearSession, sessionVars
<1>2. exhausted' = exhausted \/ exhausted' = TRUE
  BY Zenon DEF Next, vars, Control, Callback, Start, PlayRefused, Admit, Announce, Prepare,
     PrepareThrows, PrepareFails, Commit, DeviceStarts, DeviceFails, Bind, Stop, Destroy,
     StopRefused, StopUnobservable, StopSilences, Resume, Initialize, Shutdown, BringUp, Poll,
     RenderBlock, RenderFails, PublishFailure, PublishBlock, Deactivate, DeviceStops,
     MayPublish, Publishes, Exhausts, clockVars
<1> QED
  BY <1>1, <1>2, Zenon DEF Flag

LEMMA FlagHolds == Spec => []Flag
<1>1. Init => Flag
  BY DEF Init, Flag
<1> QED
  BY <1>1, FlagStep, PTL DEF Spec

THEOREM Invariant == Spec => []PInv
BY InitHolds, StepHolds, PTL DEF Spec

\* Type correctness: times within a song and its last block, generations and
\* publications within their limits.
THEOREM TypeCorrect == Spec => []TypeOK
<1>1. PInv /\ Flag => TypeOK
  BY DEF PInv, Kinds, Phases, Flag, TypeOK
<1> QED
  BY <1>1, FlagHolds, Invariant, PTL

\* The controller implements the gate the library session goes by, whatever the
\* device and its callback do.
THEOREM Refinement == Spec => ImplementsGate
<1> DEFINE held == prepared # NoSong \/ call \in {"start", "stop", "destroy"}
<1>1. Init => Gate!Init
  BY DEF Init, Gate!Init
<1>2. PInv /\ PInv' /\ Flag /\ Flag' => [Gate!Next]_(Gate!vars)
  <2> SUFFICES ASSUME PInv, PInv', Flag, Flag'
               PROVE  [Gate!Next]_(Gate!vars)
    OBVIOUS
  <2>1. (active => held) /\ (active' => held')
    BY DEF PInv, Covered
  <2>2. CASE held /\ held' /\ active'
    BY <2>2 DEF Flag, Gate!Next, Gate!Sound
  <2>3. CASE held /\ held' /\ ~active'
    BY <2>3 DEF Flag, Gate!Next, Gate!Silence
  <2>4. CASE ~held /\ held'
    BY <2>4 DEF Flag, Gate!Next, Gate!Take
  <2>5. CASE ~held'
    BY <2>1, <2>5 DEF Flag, Gate!Next, Gate!LetGo
  <2> QED
    BY <2>2, <2>3, <2>4, <2>5
<1> QED
  BY <1>1, <1>2, FlagHolds, Invariant, PTL DEF Spec, ImplementsGate, Gate!Spec

\* The lyrics on display are those of the retained song and never ahead of its
\* audio, for any songs and blocks, whatever the callback does between the
\* steps of a start or a stop.
THEOREM LyricsBehindAudio == Spec => []LyricsFollowAudio
<1>1. PInv => LyricsFollowAudio
  BY DEF PInv, Bound, LyricsFollowAudio
<1> QED
  BY <1>1, Invariant, PTL

\* A clock that nobody can read any more belongs to a silent backend, whoever
\* used its last publication.
THEOREM SilentWhenExhausted == Spec => []ExhaustedIsSilent
<1>1. PInv => ExhaustedIsSilent
  BY DEF PInv, Latched, ExhaustedIsSilent
<1> QED
  BY <1>1, Invariant, PTL

\* Published records only move forward, although two threads publish them.
THEOREM ClockForward == Spec => ClockMovesForward
<1>1. PInv /\ [Next]_vars =>
        [clock.generation # 0 /\ clock'.generation # 0 =>
          \/ clock'.generation > clock.generation
          \/ /\ clock'.generation = clock.generation
             /\ Rank[clock'.phase] >= Rank[clock.phase]
             /\ clock'.phase # "Stopped" => clock'.time >= clock.time]_clock
  BY StepHolds DEF Forward
<1> QED
  BY <1>1, Invariant, PTL DEF Spec, ClockMovesForward

-----------------------------------------------------------------------------
(* RuntimeMixer.                                                           *)

Updates == [pc : {"idle", "exchange", "reset", "publish"}, expected : Masks,
            mask : {"muted", "soloed"}, channel : 0..ChannelCount, on : BOOLEAN]

\* An exchange is about a channel; a reset may have passed the last.
Masking == \A k \in Controllers : ctl[k].pc = "exchange" => ctl[k].channel \in Channels

Types == MixerTypeOK /\ ctl \in [Controllers -> Updates] /\ Masking

\* The revision the callback goes by: that of the snapshot in hand, or known.
Base == IF reader = "idle" THEN known ELSE view.revision

Ahead(n) == IF Base + n < Revisions THEN Base + n ELSE Base + n - Revisions

\* behind counts the publications since that revision, and never wraps.
Counts == revision = Ahead(behind)

\* What the callback has seen is current, as far as it has looked, unless an
\* update is under way or was published since.
Current ==
    behind = 0 /\ Quiet =>
        /\ reader = "idle" => UpToDate
        /\ reader = "gains" => \A c \in Channels : c < next => view.gains[c] = gains[c]
        /\ reader = "apply" => view.gains = gains /\ view.flags = flags

\* An exchange stores over the word it has seen.
Ordered == flags = asked

Silenced == sounding \cap Silent(applied) = {}

MInv == Types /\ Counts /\ Current /\ Ordered /\ Silenced

-----------------------------------------------------------------------------
\* The counter goes one up, or back to zero.
LEMMA WrapStep ==
    ASSUME NEW R \in Nat \ {0}, NEW n \in 0..R - 1
    PROVE  (n + 1) % R = IF n + 1 = R THEN 0 ELSE n + 1
<1>1. CASE n + 1 = R
  BY <1>1
<1>2. CASE n + 1 < R
  BY <1>2
<1> QED
  BY <1>1, <1>2

LEMMA MasksGrow ==
    ASSUME NEW word \in Masks, NEW mask \in {"muted", "soloed"}, NEW c \in Channels,
           NEW on \in BOOLEAN
    PROVE  With(word, mask, c, on) \in Masks
BY DEF With, Masks

LEMMA MixerInitHolds == MixerInit => MInv
<1> SUFFICES ASSUME MixerInit PROVE MInv
  OBVIOUS
<1> USE ChannelsAssumption, GainsAssumption, RevisionsAssumption, UpdatesAssumption
<1>1. Defaults \in [Channels -> Gains] /\ NoMasks \in Masks /\ DefaultSnapshot \in Snapshots
  BY DEF Defaults, NoMasks, Masks, DefaultSnapshot, Snapshots
<1>2. Types
  BY <1>1 DEF MixerInit, Types, MixerTypeOK, Masking, Updates, NoUpdate, Channels
<1>3. Counts /\ Ordered /\ Silenced
  BY DEF MixerInit, Counts, Ahead, Base, Ordered, Silenced, DefaultSnapshot
<1>4. Current
  BY DEF MixerInit, Current, UpToDate, DefaultSnapshot
<1> QED
  BY <1>2, <1>3, <1>4 DEF MInv

-----------------------------------------------------------------------------
(* A step, action by action.                                               *)

\* What the updates leave alone.
LEMMA UpdateFrame ==
    ASSUME NEW k \in Controllers, Update(k)
    PROVE  UNCHANGED <<reader, next, view, applied, known, sounding>>
BY DEF Update, SetGain, BeginMask, ExchangeSucceeds, ExchangeFails, SetChannelFlags, BeginReset,
       ResetGain, ResetFlags, Publish, sinkVars

LEMMA UpdateTypes ==
    ASSUME Types, NEW k \in Controllers, Update(k)
    PROVE  Types'
<1> USE ChannelsAssumption, GainsAssumption, RevisionsAssumption, UpdatesAssumption
<1>1. UNCHANGED <<reader, next, view, applied, known, sounding>>
  BY UpdateFrame
<1>2. /\ gains \in [Channels -> Gains] /\ flags \in Masks /\ asked \in Masks
      /\ revision \in 0..Revisions - 1 /\ behind \in 0..Revisions - 1
      /\ updates \in 0..MaxUpdates /\ ctl \in [Controllers -> Updates] /\ Masking
  BY DEF Types, MixerTypeOK
<1>3. NoMasks \in Masks /\ NoUpdate \in Updates
  BY DEF NoMasks, Masks, NoUpdate, Updates
<1> SUFFICES /\ gains' \in [Channels -> Gains] /\ flags' \in Masks /\ asked' \in Masks
             /\ revision' \in 0..Revisions - 1 /\ behind' \in 0..Revisions - 1
             /\ updates' \in 0..MaxUpdates /\ ctl' \in [Controllers -> Updates] /\ Masking'
  <2>1. \A j \in Controllers : ctl'[j].pc \in {"idle", "exchange", "reset", "publish"}
    BY DEF Updates
  <2> QED
    BY <1>1, <2>1 DEF Types, MixerTypeOK
<1>4. ASSUME NEW c \in Channels, NEW g \in Gains, SetGain(k, c, g)
      PROVE  gains' \in [Channels -> Gains] /\ updates' \in 0..MaxUpdates
             /\ ctl' \in [Controllers -> Updates] /\ Masking'
  BY <1>2, <1>4 DEF SetGain, Starts, Goto, Updates, Masking
<1>5. ASSUME NEW c \in Channels, NEW mask \in {"muted", "soloed"}, NEW on \in BOOLEAN,
             BeginMask(k, mask, c, on)
      PROVE  updates' \in 0..MaxUpdates /\ ctl' \in [Controllers -> Updates] /\ Masking'
  BY <1>2, <1>5 DEF BeginMask, Starts, Updates, Channels, Masking
<1>6. ASSUME ExchangeSucceeds(k)
      PROVE  flags' \in Masks /\ asked' \in Masks
             /\ ctl' \in [Controllers -> Updates] /\ Masking'
  <2>1. ctl[k] \in Updates /\ ctl[k].channel \in Channels
    BY <1>2, <1>6 DEF ExchangeSucceeds, Masking
  <2>2. \A word \in Masks : Updated(ctl[k], word) \in Masks
    BY <2>1, MasksGrow DEF Updated, Updates
  <2>3. flags' = Updated(ctl[k], ctl[k].expected) /\ asked' = Updated(ctl[k], asked)
        /\ ctl' = [ctl EXCEPT ![k] = [NoUpdate EXCEPT !.pc = "publish"]]
    BY <1>6 DEF ExchangeSucceeds
  <2>4. ctl[k].expected \in Masks
    BY <2>1 DEF Updates
  <2> QED
    BY <1>2, <1>3, <2>2, <2>3, <2>4 DEF Updates, Masking
<1>7. ASSUME ExchangeFails(k)
      PROVE  ctl' \in [Controllers -> Updates] /\ Masking'
  BY <1>2, <1>7 DEF ExchangeFails, Updates, Masking
<1>8. ASSUME NEW word \in Presets, SetChannelFlags(k, word)
      PROVE  flags' \in Masks /\ asked' \in Masks /\ updates' \in 0..MaxUpdates
             /\ ctl' \in [Controllers -> Updates] /\ Masking'
  <2>1. word \in Masks
    BY PresetsAssumption DEF Masks, Channels
  <2> QED
    BY <1>2, <1>8, <2>1 DEF SetChannelFlags, Starts, Goto, Updates, Masking
<1>9. ASSUME BeginReset(k)
      PROVE  updates' \in 0..MaxUpdates /\ ctl' \in [Controllers -> Updates] /\ Masking'
  BY <1>2, <1>3, <1>9 DEF BeginReset, Starts, Updates, Masking
<1>10. ASSUME ResetGain(k)
       PROVE  gains' \in [Channels -> Gains] /\ ctl' \in [Controllers -> Updates] /\ Masking'
  <2>1. ctl[k] \in Updates /\ ctl[k].channel \in 0..ChannelCount - 1
    BY <1>2, <1>10 DEF ResetGain, Channels
  <2>2. [ctl[k] EXCEPT !.channel = @ + 1] \in Updates
    BY <2>1 DEF Updates
  <2>3. gains' = [gains EXCEPT ![ctl[k].channel] = 1] /\ ctl[k].pc = "reset"
        /\ ctl' = [ctl EXCEPT ![k] = [ctl[k] EXCEPT !.channel = @ + 1]]
    BY <1>10, <1>2 DEF ResetGain
  <2> QED
    BY <1>2, <2>2, <2>3 DEF Updates, Masking
<1>11. ASSUME ResetFlags(k)
       PROVE  flags' \in Masks /\ asked' \in Masks
              /\ ctl' \in [Controllers -> Updates] /\ Masking'
  BY <1>2, <1>3, <1>11 DEF ResetFlags, Updates, Masking
<1>12. ASSUME Publish(k)
       PROVE  revision' \in 0..Revisions - 1 /\ behind' \in 0..Revisions - 1
              /\ ctl' \in [Controllers -> Updates] /\ Masking'
  <2>1. revision' \in 0..Revisions - 1
    BY <1>2, <1>12, WrapStep DEF Publish, Wrapped
  <2> QED
    BY <1>2, <1>12, <2>1 DEF Publish, Goto, Updates, Masking
<1> QED
  <2>1. \/ \E c \in Channels, g \in Gains : SetGain(k, c, g)
        \/ \E c \in Channels, mask \in {"muted", "soloed"}, on \in BOOLEAN : BeginMask(k, mask, c, on)
        \/ ExchangeSucceeds(k) \/ ExchangeFails(k)
        \/ \E word \in Presets : SetChannelFlags(k, word)
        \/ BeginReset(k) \/ ResetGain(k) \/ ResetFlags(k) \/ Publish(k)
    BY DEF Update
  <2>2. CASE \E c \in Channels, g \in Gains : SetGain(k, c, g)
    BY <1>2, <1>4, <2>2 DEF SetGain, sinkVars
  <2>3. CASE \E c \in Channels, mask \in {"muted", "soloed"}, on \in BOOLEAN : BeginMask(k, mask, c, on)
    BY <1>2, <1>5, <2>3 DEF BeginMask, mixer, sinkVars
  <2>4. CASE ExchangeSucceeds(k)
    BY <1>2, <1>6, <2>4 DEF ExchangeSucceeds, sinkVars
  <2>5. CASE ExchangeFails(k)
    BY <1>2, <1>7, <2>5 DEF ExchangeFails, mixer, sinkVars
  <2>6. CASE \E word \in Presets : SetChannelFlags(k, word)
    BY <1>2, <1>8, <2>6 DEF SetChannelFlags, sinkVars
  <2>7. CASE BeginReset(k)
    BY <1>2, <1>9, <2>7 DEF BeginReset, mixer, sinkVars
  <2>8. CASE ResetGain(k)
    BY <1>2, <1>10, <2>8 DEF ResetGain, sinkVars
  <2>9. CASE ResetFlags(k)
    BY <1>2, <1>11, <2>9 DEF ResetFlags, sinkVars
  <2>10. CASE Publish(k)
    BY <1>2, <1>12, <2>10 DEF Publish
  <2> QED
    BY <2>1, <2>2, <2>3, <2>4, <2>5, <2>6, <2>7, <2>8, <2>9, <2>10

LEMMA SynchroniseTypes ==
    ASSUME Types, Synchronise
    PROVE  Types'
<1> USE ChannelsAssumption, GainsAssumption, RevisionsAssumption
<1>1. /\ gains \in [Channels -> Gains] /\ flags \in Masks
      /\ revision \in 0..Revisions - 1 /\ behind \in 0..Revisions - 1
      /\ view \in Snapshots /\ applied \in Snapshots /\ known \in 0..Revisions - 1
      /\ next \in 0..ChannelCount /\ sounding \subseteq Channels
  BY DEF Types, MixerTypeOK
<1>2. UNCHANGED <<mixer, control>>
  BY DEF Synchronise, ReadRevision, ReadGain, ReadFlags, Apply
<1> SUFFICES /\ behind' \in 0..Revisions - 1 /\ reader' \in {"idle", "gains", "apply"}
             /\ view' \in Snapshots /\ applied' \in Snapshots /\ known' \in 0..Revisions - 1
             /\ next' \in 0..ChannelCount /\ sounding' \subseteq Channels
  BY <1>2 DEF Types, MixerTypeOK, Masking, mixer, control
<1>3. CASE ReadRevision
  <2>1. [view EXCEPT !.revision = revision] \in Snapshots
    BY <1>1 DEF Snapshots
  <2> QED
    BY <1>1, <1>3, <2>1 DEF ReadRevision
<1>4. CASE ReadGain
  <2>1. [view EXCEPT !.gains = [@ EXCEPT ![next] = gains[next]]] \in Snapshots
    BY <1>1, <1>4 DEF Snapshots, ReadGain
  <2>2. next' \in 0..ChannelCount
    BY <1>1, <1>4 DEF ReadGain, Channels
  <2> QED
    BY <1>1, <1>4, <2>1, <2>2 DEF ReadGain
<1>5. CASE ReadFlags
  <2>1. [view EXCEPT !.flags = flags] \in Snapshots
    BY <1>1 DEF Snapshots
  <2> QED
    BY <1>1, <1>5, <2>1 DEF ReadFlags
<1>6. CASE Apply
  <2>1. DefaultSnapshot \in Snapshots
    BY DEF DefaultSnapshot, Snapshots, Defaults, NoMasks, Masks
  <2>2. view.revision \in 0..Revisions - 1
    BY <1>1 DEF Snapshots
  <2> QED
    BY <1>1, <1>6, <2>1, <2>2 DEF Apply, RevisionOf
<1> QED
  BY <1>3, <1>4, <1>5, <1>6 DEF Synchronise

LEMMA NotesKeep ==
    ASSUME MInv, NEW c \in Channels, NoteOn(c) \/ NoteOff(c)
    PROVE  MInv'
<1>1. UNCHANGED <<mixer, control, behind, reader, next, view, applied, known>>
  BY DEF NoteOn, NoteOff
<1>2. Types'
  BY <1>1 DEF MInv, Types, MixerTypeOK, Masking, mixer, control, NoteOn, NoteOff
<1>3. Counts' /\ Current' /\ Ordered'
  BY <1>1 DEF MInv, Counts, Ahead, Base, Current, Quiet, UpToDate, Ordered, mixer, control
<1>4. Silenced'
  BY <1>1 DEF MInv, Silenced, Silent, MaySound, NoteOn, NoteOff, OutputGain
<1> QED
  BY <1>2, <1>3, <1>4 DEF MInv

LEMMA SynchroniseKeeps ==
    ASSUME MInv, Synchronise
    PROVE  MInv'
<1> USE ChannelsAssumption, RevisionsAssumption
<1>1. Types'
  BY SynchroniseTypes DEF MInv
<1>2. UNCHANGED <<mixer, control>> /\ Ordered'
  BY DEF MInv, Synchronise, ReadRevision, ReadGain, ReadFlags, Apply, Ordered, mixer, control
<1>3. gains \in [Channels -> Gains] /\ view \in Snapshots /\ next \in 0..ChannelCount
      /\ revision \in 0..Revisions - 1 /\ behind \in 0..Revisions - 1
  BY DEF MInv, Types, MixerTypeOK
<1>4. Quiet' = Quiet
  BY <1>2 DEF Quiet, control
<1>5. CASE ReadRevision
  <2>1. view' = [view EXCEPT !.revision = revision] /\ behind' = 0 /\ reader' = "gains"
        /\ next' = 0 /\ UNCHANGED <<mixer, applied, sounding>>
    BY <1>5 DEF ReadRevision
  <2>2. Counts'
    BY <1>3, <2>1 DEF Counts, Ahead, Base, Snapshots, mixer
  <2>3. Current' /\ Silenced'
    BY <2>1 DEF Current, MInv, Silenced, Silent, OutputGain, Channels
  <2> QED
    BY <1>1, <1>2, <2>2, <2>3 DEF MInv
<1>6. CASE ReadGain
  <2>1. reader = "gains" /\ next \in Channels /\ next' = next + 1
        /\ view' = [view EXCEPT !.gains = [@ EXCEPT ![next] = gains[next]]]
        /\ UNCHANGED <<mixer, behind, reader, applied, known, sounding>>
    BY <1>6 DEF ReadGain
  <2>2. Counts' /\ Silenced'
    BY <1>3, <2>1 DEF MInv, Counts, Ahead, Base, Snapshots, mixer, Silenced, Silent, OutputGain
  <2>3. Current'
    <3>1. \A d \in Channels : view'.gains[d] = IF d = next THEN gains[d] ELSE view.gains[d]
      BY <1>3, <2>1 DEF Snapshots
    <3>2. \A d \in Channels : d < next' => d = next \/ d < next
      BY <2>1 DEF Channels
    <3> QED
      BY <1>4, <2>1, <3>1, <3>2 DEF MInv, Current, mixer
  <2> QED
    BY <1>1, <1>2, <2>2, <2>3 DEF MInv
<1>7. CASE ReadFlags
  <2>1. reader = "gains" /\ next = ChannelCount /\ reader' = "apply"
        /\ view' = [view EXCEPT !.flags = flags]
        /\ UNCHANGED <<mixer, behind, next, applied, known, sounding>>
    BY <1>7 DEF ReadFlags
  <2>2. Counts' /\ Silenced'
    BY <1>3, <2>1 DEF MInv, Counts, Ahead, Base, Snapshots, mixer, Silenced, Silent, OutputGain
  <2>3. view'.flags = flags /\ view'.gains = view.gains /\ view.gains \in [Channels -> Gains]
    BY <1>3, <2>1 DEF Snapshots
  <2>4. ASSUME behind = 0, Quiet PROVE view.gains = gains
    <3>1. \A c \in Channels : view.gains[c] = gains[c]
      BY <2>1, <2>4 DEF MInv, Current, Channels
    <3> QED
      BY <1>3, <2>3, <3>1
  <2>5. Current'
    BY <1>4, <2>1, <2>3, <2>4 DEF Current, mixer
  <2> QED
    BY <1>1, <1>2, <2>2, <2>5 DEF MInv
<1>8. CASE Apply
  <2>1. reader = "apply" /\ reader' = "idle" /\ applied' = view /\ known' = view.revision
        /\ sounding' = sounding \ (Silent(view) \ Silent(applied)) /\ UNCHANGED <<mixer, behind>>
    BY <1>8 DEF Apply, RevisionOf, CutOff
  <2>2. Counts'
    BY <2>1 DEF MInv, Counts, Ahead, Base, mixer
  <2>3. Current'
    BY <1>4, <2>1 DEF MInv, Current, UpToDate, mixer
  <2>4. Silent(applied') = Silent(view)
    BY <2>1
  <2>5. Silenced'
    <3>1. Silent(applied)' = Silent(view)
      BY <2>1 DEF Silent, OutputGain
    <3> QED
      BY <2>1, <3>1 DEF MInv, Silenced
  <2> QED
    BY <1>1, <1>2, <2>2, <2>3, <2>5 DEF MInv
<1> QED
  BY <1>5, <1>6, <1>7, <1>8 DEF Synchronise

LEMMA UpdateKeeps ==
    ASSUME MInv, NEW k \in Controllers, Update(k)
    PROVE  MInv'
<1> USE RevisionsAssumption
<1>1. Types'
  BY UpdateTypes DEF MInv
<1>2. UNCHANGED <<reader, next, view, applied, known, sounding>>
  BY UpdateFrame
<1>3. Silenced'
  BY <1>2 DEF MInv, Silenced, Silent, OutputGain
<1>4. Ordered'
  BY DEF MInv, Ordered, Update, SetGain, BeginMask, ExchangeSucceeds, AsExpected, ExchangeFails,
         SetChannelFlags, BeginReset, ResetGain, ResetFlags, Publish, mixer
<1>5. revision \in 0..Revisions - 1 /\ behind \in 0..Revisions - 1 /\ Base \in 0..Revisions - 1
      /\ ctl \in [Controllers -> Updates]
  BY DEF MInv, Types, MixerTypeOK, Base, Snapshots
<1>6. CASE Publish(k)
  <2>1. revision' = (revision + 1) % Revisions /\ behind' = behind + 1 /\ behind < Revisions - 1
    BY <1>6 DEF Publish, Wrapped
  <2>2. revision' = IF revision + 1 = Revisions THEN 0 ELSE revision + 1
    BY <1>5, <2>1, WrapStep
  <2>3. Base' = Base
    BY <1>2 DEF Base
  <2>4. Counts'
    BY <1>5, <2>1, <2>2, <2>3 DEF MInv, Counts, Ahead
  <2>5. Current'
    BY <1>5, <2>1 DEF Current
  <2> QED
    BY <1>1, <1>3, <1>4, <2>4, <2>5 DEF MInv
<1>7. CASE ~Publish(k)
  <2>1. UNCHANGED <<revision, behind>> /\ ctl'[k].pc # "idle"
    BY <1>5, <1>7 DEF Update, SetGain, BeginMask, ExchangeSucceeds, ExchangeFails, SetChannelFlags,
       BeginReset, ResetGain, ResetFlags, Starts, Goto, mixer, sinkVars, NoUpdate, Updates
  <2>2. Counts'
    BY <1>2, <2>1 DEF MInv, Counts, Ahead, Base
  <2>3. Current'
    BY <2>1 DEF Current, Quiet
  <2> QED
    BY <1>1, <1>3, <1>4, <2>2, <2>3 DEF MInv
<1> QED
  BY <1>6, <1>7

-----------------------------------------------------------------------------
\* The strengthened invariant of the mixer.
THEOREM MixerInvariant == MixerSpec => []MInv
<1>1. MixerInit => MInv
  BY MixerInitHolds
<1>2. MInv /\ [MixerNext]_mixerVars => MInv'
  <2> SUFFICES ASSUME MInv, [MixerNext]_mixerVars PROVE MInv'
    OBVIOUS
  <2>1. CASE Synchronise
    BY <2>1, SynchroniseKeeps
  <2>2. CASE \E c \in Channels : NoteOn(c) \/ NoteOff(c)
    BY <2>2, NotesKeep
  <2>3. CASE \E k \in Controllers : Update(k)
    BY <2>3, UpdateKeeps
  <2>4. CASE UNCHANGED mixerVars
    BY <2>4 DEF MInv, Types, MixerTypeOK, Masking, Counts, Ahead, Base, Current, Quiet, UpToDate,
                Ordered, Silenced, Silent, OutputGain, mixerVars, mixer, control, sinkVars
  <2> QED
    BY <2>1, <2>2, <2>3, <2>4 DEF MixerNext
<1> QED
  BY <1>1, <1>2, PTL DEF MixerSpec

\* Every variable keeps its type, for any instance.
THEOREM MixerTypeCorrect == MixerSpec => []MixerTypeOK
<1>1. MInv => MixerTypeOK
  BY DEF MInv, Types
<1> QED
  BY <1>1, MixerInvariant, PTL

\* A block that sees no new revision has missed no update, although the
\* counter wraps and the snapshot is read word by word
\* (synchronizeRuntimeMixer, MidiRuntimeMixer::snapshot).
THEOREM NothingLost == MixerSpec => []NoLostUpdate
<1>1. ASSUME MInv PROVE NoLostUpdate
  <2>1. ASSUME reader = "idle", ~NewRevision PROVE behind = 0
    <3>1. Base = revision /\ behind \in 0..Revisions - 1 /\ revision \in 0..Revisions - 1
      BY <1>1, <2>1 DEF Base, NewRevision, MInv, Types, MixerTypeOK
    <3> QED
      BY <1>1, <3>1, RevisionsAssumption DEF MInv, Counts, Ahead
  <2> QED
    BY <1>1, <2>1 DEF NoLostUpdate, MInv, Ordered, Current
<1> QED
  BY <1>1, MixerInvariant, PTL

\* No voice sounds on a channel that the applied snapshot turns off, for any
\* sequence of updates, blocks and notes.
THEOREM SilenceKept == MixerSpec => []SilencedStaySilent
<1>1. MInv => SilencedStaySilent
  BY DEF MInv, Silenced, SilencedStaySilent
<1> QED
  BY <1>1, MixerInvariant, PTL
=============================================================================
