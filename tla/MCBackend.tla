------------------------------- MODULE MCBackend -------------------------------
(* Playback and the runtime mixer of one backend, which share no state: of    *)
(* each behaviour one part is in view and moves, and the other rests, so that *)
(* every behaviour of each is checked and none of their interleavings, which  *)
(* could show no more.                                                        *)
EXTENDS MCPlayback, MCRuntimeMixer

VARIABLE inView

backendVars == <<vars, mixerVars, inView>>

PlaybackStep == inView = "playback" /\ Next /\ UNCHANGED <<mixerVars, inView>>
MixerStep == inView = "mixer" /\ MixerNext /\ UNCHANGED <<vars, inView>>

BackendInit == Init /\ MixerInit /\ inView \in {"playback", "mixer"}

\* The fairness is that of each part, where it is the part that moves.
BackendSpec ==
    /\ BackendInit
    /\ [][PlaybackStep \/ MixerStep]_backendVars
    /\ WF_backendVars(inView = "playback" /\ Callback /\ UNCHANGED <<mixerVars, inView>>)
    /\ WF_backendVars(inView = "mixer" /\ Synchronise /\ UNCHANGED <<vars, inView>>)
=============================================================================
