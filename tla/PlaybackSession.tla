---------------------------- MODULE PlaybackSession ---------------------------
(***************************************************************************)
(* One playback of a compiled timeline (audio/PlaybackSession.hpp).  Media *)
(* time is derived from rendered frames alone: the remainder of the        *)
(* division by the sample rate is carried from block to block.  A render   *)
(* delivers the events that have become due.                               *)
(*                                                                         *)
(* Preparing and Stopping begin and end within a call and are not states   *)
(* here; module Playback has the case in which Preparing is left behind.   *)
(* A command that is illegal in a state answers an error and changes       *)
(* nothing.                                                                *)
(***************************************************************************)
EXTENDS SmfTimeline

CONSTANTS Rates,     \* sample rates, in frames per second
          Blocks,    \* numbers of frames in a render call
          Second     \* microseconds in a second

\* One block fits the integers: a callback renders far fewer than 2^40 frames.
ASSUME RatesAssumption ==
    /\ Rates \subseteq Nat
    /\ Blocks \subseteq Nat
    /\ Second \in Nat

VARIABLES
    session,         \* PlaybackSessionState
    sampleRate,
    media,           \* mediaTimeMicroseconds_
    frameRemainder,
    cursor,          \* events before it have been delivered
    frames,          \* history: frames rendered since the session was prepared
    delivered        \* history: what its renders have returned, or NotRendered

CONSTANT NotRendered

ASSUME NotRenderedAssumption == NotRendered \notin Seq(Nat)

sessionVars == <<session, sampleRate, media, frameRemainder, cursor, frames, delivered>>
clockVars == <<sampleRate, media, frameRemainder, cursor, frames, delivered, compileVars>>
vars == <<compileVars, sessionVars>>

Reset ==
    /\ media' = 0
    /\ frameRemainder' = 0
    /\ cursor' = 0
    /\ frames' = 0
    /\ delivered' = NotRendered
    /\ UNCHANGED compileVars

Init ==
    /\ CompileInit
    /\ session = "Idle"
    /\ sampleRate = 0
    /\ media = 0
    /\ frameRemainder = 0
    /\ cursor = 0
    /\ frames = 0
    /\ delivered = NotRendered

TypeOK ==
    /\ session \in {"Idle", "Ready", "Playing", "Paused", "Finished", "Failed"}
    /\ sampleRate \in Rates \cup {0}
    /\ media \in 0..MaxTime
    /\ frameRemainder \in Nat
    /\ sampleRate # 0 => frameRemainder < sampleRate
    /\ cursor \in 0..Len(timeline)
    /\ frames \in Nat
    /\ time \in 0..MaxTime

Prepare(rate) ==
    /\ session = "Idle"
    /\ stage = "compiled"
    /\ rate # 0
    /\ session' = "Ready"
    /\ sampleRate' = rate
    /\ Reset

PrepareFails ==
    /\ session = "Idle"
    /\ stage = "compiled"
    /\ session' = "Failed"
    /\ UNCHANGED clockVars

Play == session \in {"Ready", "Paused"} /\ session' = "Playing" /\ UNCHANGED clockVars

Pause == session = "Playing" /\ session' = "Paused" /\ UNCHANGED clockVars

CompleteReleaseTail ==
    /\ session \in {"Playing", "Paused"}
    /\ cursor = Len(timeline)
    /\ session' = "Finished"
    /\ UNCHANGED clockVars

Stop ==
    /\ session \in {"Ready", "Playing", "Paused", "Finished", "Failed"}
    /\ session' = "Idle"
    /\ sampleRate' = 0
    /\ Reset

\* Mutant: the remainder of the last block is forgotten.
FreshBlock(n) == n * Second

\* Frames in microseconds times the rate, with the remainder carried over.
FrameNumerator(n) == n * Second + frameRemainder

\* What advanceClock refuses is a ClockOverflow.
Advances(n) ==
    /\ n * Second <= MaxTime
    /\ FrameNumerator(n) <= MaxTime
    /\ media <= MaxTime - FrameNumerator(n) \div sampleRate

\* Mutant: the end of the block is not part of it.
DueBefore(end) == Cardinality({i \in DOMAIN timeline : timeline[i].time < end})

\* The events due through a time, its end included: the loop stops at the
\* first later one.
DueThrough(end) ==
    CHOOSE k \in 0..Len(timeline) :
        /\ \A i \in 1..k : i > cursor => timeline[i].time <= end
        /\ k >= cursor
        /\ k < Len(timeline) => timeline[k + 1].time > end

Render(n) ==
    /\ session = "Playing"
    /\ Advances(n)
    /\ media' = media + FrameNumerator(n) \div sampleRate
    /\ frameRemainder' = FrameNumerator(n) % sampleRate
    /\ cursor' = DueThrough(media')
    /\ frames' = frames + n
    /\ delivered' = (IF delivered = NotRendered THEN <<>> ELSE delivered)
                       \o [i \in 1..cursor' - cursor |-> cursor + i]
    /\ UNCHANGED <<session, sampleRate, compileVars>>

RenderFails(n) ==
    /\ session = "Playing"
    /\ ~Advances(n)
    /\ session' = "Failed"
    /\ UNCHANGED clockVars

Session ==
    \/ \E rate \in Rates : Prepare(rate)
    \/ PrepareFails \/ Play \/ Pause \/ CompleteReleaseTail \/ Stop
    \/ \E n \in Blocks : Render(n) \/ RenderFails(n)

Next ==
    \/ Session
    \/ CompileNext /\ UNCHANGED sessionVars

Spec == Init /\ [][Next]_vars

-----------------------------------------------------------------------------
(* Properties.                                                             *)

\* "The clock is invariant to block splitting": however frames were divided
\* into blocks, pauses between them included, media time is the floor of the
\* time they last.
ClockIsExact == sampleRate # 0 => media = (frames * Second) \div sampleRate

\* "Dispatches each remaining event at or before its inclusive end exactly
\* once", and in the order of the timeline.
EachEventOnce ==
    delivered # NotRendered =>
        /\ delivered = [i \in 1..Len(delivered) |-> i]
        /\ {i \in DOMAIN timeline : timeline[i].time <= media} = DOMAIN delivered
=============================================================================
