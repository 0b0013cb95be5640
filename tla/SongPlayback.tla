------------------------------ MODULE SongPlayback ----------------------------
(***************************************************************************)
(* A song from its bytes to its lyrics on display: the file is read and    *)
(* compiled, its lyrics are extracted (both before a playback begins,      *)
(* library/SongPreparation.hpp), a session plays the timeline and the      *)
(* consumer (lyrics/LyricMediaConsumer.hpp) shows the cues that are due.   *)
(*                                                                         *)
(* The consumer reads the media time that the session publishes.  What     *)
(* happens between a publication and a read, and a read of another         *)
(* playback, is module Playback's.                                         *)
(***************************************************************************)
EXTENDS PlaybackSession, KarLyrics

VARIABLES
    shown,     \* cues that have been shown, or None without a timeline
    position   \* the last media time observed, or None

showVars == <<shown, position>>
songVars == <<vars, lyricVars, showVars>>

\* Mutant: a cue is shown only after its time.
CuesBefore(t) == Cardinality({i \in DOMAIN cues : cues[i].time < t})

\* The loop of advance stops at the first cue that is not due.
CuesThrough(t) ==
    CHOOSE k \in shown..Len(cues) :
        /\ \A i \in shown + 1..k : cues[i].time <= t
        /\ k < Len(cues) => cues[k + 1].time > t

\* Once the start is acknowledged.
ShowLyrics ==
    /\ session = "Playing"
    /\ shown = None
    /\ shown' = 0
    /\ position' = None
    /\ UNCHANGED <<vars, lyricVars>>

\* A position before the last one is refused; a playback has none.
Advance ==
    /\ session \in {"Playing", "Paused", "Finished"}
    /\ shown # None
    /\ position # None => media >= position
    /\ shown' = CuesThrough(media)
    /\ position' = media
    /\ UNCHANGED <<vars, lyricVars>>

\* A failed or stopped playback takes the lyrics off the display.
HideLyrics == shown' = None /\ position' = None

ClearLyrics ==
    /\ session = "Failed"
    /\ shown # None
    /\ HideLyrics
    /\ UNCHANGED <<vars, lyricVars>>

PlaySong ==
    /\ extraction = "done"
    /\ Session
    /\ IF session' = "Idle" THEN HideLyrics ELSE UNCHANGED showVars
    /\ UNCHANGED lyricVars

SongInit == Init /\ LyricInit /\ shown = None /\ position = None

SongNext ==
    \/ CompileNext /\ UNCHANGED <<sessionVars, lyricVars, showVars>>
    \/ LyricNext /\ UNCHANGED <<sessionVars, showVars>>
    \/ PlaySong \/ ShowLyrics \/ Advance \/ ClearLyrics

SongSpec == SongInit /\ [][SongNext]_songVars

-----------------------------------------------------------------------------
(* Properties.                                                             *)

\* The display is "the emitted immutable cue prefix" of the position last
\* observed, however the observations fell; and after an observation that is
\* up to date, a cue is on display if and only if the synthesizer has been
\* given the event it came from.
LyricsOnTime ==
    shown # None =>
        /\ IF position = None THEN shown = 0
           ELSE \A i \in DOMAIN cues : i <= shown <=> cues[i].time <= position
        /\ position = media /\ delivered # NotRendered =>
              \A i \in DOMAIN cues : i <= shown <=> cues[i].index \in ToSet(delivered)
=============================================================================
