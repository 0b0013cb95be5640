------------------------------ MODULE SmfTimeline -----------------------------
(***************************************************************************)
(* From the tracks of a MIDI file to one timeline in microseconds          *)
(* (audio/SmfTimelineCompiler.hpp).  The decoded events of all tracks are  *)
(* merged by tick, track and position, and each interval between two of    *)
(* them is converted with the tempo then in force, carrying the remainder  *)
(* of the division into the next.                                          *)
(*                                                                         *)
(* Integers are 64 bits wide in the code, here 0..MaxTime; every sum and   *)
(* product the code tests against the limit is tested against it here.     *)
(***************************************************************************)
EXTENDS SmfReader

CONSTANTS DefaultTempo   \* microseconds per quarter note until a file sets it

\* One quarter note of so many microseconds fits the integers.
QuarterFits(f, microseconds) == (Division(f) - 1) * (microseconds + 1) <= MaxTime

\* 32767 ticks of 2^24 microseconds do in 64 bits, and no larger division or
\* tempo can be encoded.
ASSUME FilesAssumption ==
    /\ MaxTime \in Nat
    /\ DefaultTempo \in Nat
    /\ \A f \in Files :
          /\ f \in Seq(0..255)
          /\ HeaderFault(f) = NoFault /\ ~Smpte(Division(f)) =>
                /\ QuarterFits(f, DefaultTempo)
                /\ \A o \in 14..Len(f) - 6 :
                      LET length == Vlq(f, o + 2) IN
                      /\ Field(f, o, 2) = <<255, Tempo>>
                      /\ length.value = 3
                      /\ Has(f, length.next, 3)
                      => QuarterFits(f, Number(256, Field(f, length.next, 3)))

VARIABLES
    todo,      \* the merged events that are not yet on the timeline
    timeline,  \* the events that are, each with its time
    tempo, previousTick, time, remainder

scheduleVars == <<todo, timeline, tempo, previousTick, time, remainder>>
compileVars == <<readVars, scheduleVars>>

CompileInit ==
    /\ ReadInit
    /\ todo = {}
    /\ timeline = <<>>
    /\ tempo = DefaultTempo
    /\ previousTick = 0
    /\ time = 0
    /\ remainder = 0

\* The events of all tracks, each with its place.
Events ==
    UNION {{[track |-> t, source |-> i, event |-> tracks[t][i]] : i \in DOMAIN tracks[t]} :
           t \in DOMAIN tracks}

TickOf(e) == e.event.tick

\* The order of the merge.
Precedes(d, e) ==
    \/ TickOf(d) < TickOf(e)
    \/ TickOf(d) = TickOf(e) /\ d.track < e.track
    \/ TickOf(d) = TickOf(e) /\ d.track = e.track /\ d.source <= e.source

Merge ==
    /\ stage = "merge"
    /\ todo' = Events
    /\ stage' = "compile"
    /\ UNCHANGED <<file, fault, division, payloads, decodeVars>>
    /\ UNCHANGED <<timeline, tempo, previousTick, time, remainder>>

\* The next event of the merged order.
Earliest == CHOOSE e \in todo : \A d \in todo : Precedes(e, d)

Delta == TickOf(Earliest) - previousTick

\* Mutant: every interval is rounded by itself.
RoundsEach == (Delta % division) * tempo

\* Ticks short of a quarter note, with the remainder carried over.
Numerator == (Delta % division) * tempo + remainder

WholeTime == (Delta \div division) * tempo
Interval == WholeTime + Numerator \div division

\* What convertInterval tests.
FitsInterval == WholeTime <= MaxTime /\ Numerator <= MaxTime /\ Interval <= MaxTime

\* convertInterval and its caller refuse what does not fit.
Fits == FitsInterval /\ time <= MaxTime - Interval

\* An event on the timeline.
OnTimeline(t, e) == [time |-> t, track |-> e.track, source |-> e.source, event |-> e.event]

SetsTempo(e) == e.event.meta = Tempo
TempoOf(e) == Number(256, e.event.data)

Compile ==
    /\ stage = "compile"
    /\ todo # {}
    /\ Fits
    /\ time' = time + Interval
    /\ remainder' = Numerator % division
    /\ previousTick' = TickOf(Earliest)
    /\ timeline' = Append(timeline, OnTimeline(time + Interval, Earliest))
    /\ tempo' = IF SetsTempo(Earliest) THEN TempoOf(Earliest) ELSE tempo
    /\ todo' = todo \ {Earliest}
    /\ UNCHANGED readVars

TimeOverflow ==
    /\ stage = "compile"
    /\ todo # {}
    /\ ~Fits
    /\ stage' = "TimeOverflow"
    /\ UNCHANGED <<file, fault, division, payloads, decodeVars, scheduleVars>>

Compiled ==
    /\ stage = "compile"
    /\ todo = {}
    /\ stage' = "compiled"
    /\ UNCHANGED <<file, fault, division, payloads, decodeVars, scheduleVars>>

CompileNext ==
    \/ ReadNext /\ UNCHANGED scheduleVars
    \/ Merge \/ Compile \/ TimeOverflow \/ Compiled

-----------------------------------------------------------------------------
(* Properties.                                                             *)

\* The tempo of the tick that ends at t: the last one set before it.
TempoAt(t) ==
    LET set == {e \in Events : SetsTempo(e) /\ TickOf(e) < t}
    IN  IF set = {} THEN DefaultTempo
        ELSE TempoOf(CHOOSE e \in set : \A d \in set : Precedes(d, e))

\* The musical time through a tick, in microseconds times the division.
ExactTime(t) == MapThenSumSet(TempoAt, 1..t)

InOrder ==
    /\ \A i \in DOMAIN timeline : timeline[i].time \in 0..MaxTime
    /\ \A i, j \in DOMAIN timeline : i < j => timeline[i].time <= timeline[j].time

\* "An event timestamp is floor of the total integrated musical time through
\* its tick": no rounding accumulates over intervals and tempo changes, and
\* time never runs back.  A file is refused for its length only if an event's
\* time really does not fit, whichever of the tests on the way refused it.
TimesAreExact ==
    /\ InOrder
    /\ \A i \in DOMAIN timeline :
          timeline[i].time = ExactTime(TickOf(timeline[i])) \div division
    /\ stage = "TimeOverflow" => ExactTime(TickOf(Earliest)) \div division > MaxTime
=============================================================================
