------------------------------ MODULE RuntimeMixer ------------------------------
(***************************************************************************)
(* The channel mixer shared by the control side and the audio callback:    *)
(* MidiRuntimeMixer (audio/MidiRuntimeMixer.hpp) and its only reader, the  *)
(* FluidSynthMidiCommandSink of audio/FluidSynthBackend.cpp.  There is no  *)
(* lock: an update stores into one atomic word and then adds one to the    *)
(* revision, the callback reads the revision first and the words after it. *)
(*                                                                         *)
(* Every load and store is a step of its own.  Stores release and loads    *)
(* acquire, so what a load sees is never older than what was stored before *)
(* the revision it follows; that is what interleaving the steps gives.     *)
(*                                                                         *)
(* Several controllers may update, as the compare-exchange loop allows;    *)
(* the application has one.  A recalled preset is a SetChannelFlags.       *)
(***************************************************************************)
EXTENDS Naturals, FiniteSets

CONSTANTS
    Controllers,
    ChannelCount,
    Gains,        \* 0 is silence, 1 the default
    Presets,      \* the pairs of masks that are set as a whole
    Revisions,    \* 2^32: the revision counter wraps
    MaxUpdates    \* bound on the updates of a behaviour

ASSUME ChannelsAssumption == ChannelCount \in Nat \ {0}
ASSUME GainsAssumption == Gains \subseteq Nat /\ 1 \in Gains
ASSUME PresetsAssumption ==
    \A p \in Presets :
        p \in [muted : SUBSET (0..ChannelCount - 1), soloed : SUBSET (0..ChannelCount - 1)]
ASSUME RevisionsAssumption == Revisions \in Nat \ {0, 1}
ASSUME UpdatesAssumption == MaxUpdates \in Nat

VARIABLES
    gains,     \* gains_
    flags,     \* channelFlags_: both masks in one word
    revision,  \* revision_
    ctl,       \* controller -> its running update
    asked,     \* history: the masks the updates amount to, in their order
    updates,   \* updates started
    behind,    \* publications the callback's view does not count
    reader,    \* the callback: "idle", or how far its snapshot is
    next,      \* the channel whose gain it loads next
    view,      \* the snapshot being taken
    applied,   \* mixerSnapshot_
    known,     \* mixerRevision_
    sounding   \* channels with a voice

mixer == <<gains, flags, revision>>
control == <<ctl, asked, updates>>
sinkVars == <<behind, reader, next, view, applied, known, sounding>>
mixerVars == <<mixer, control, sinkVars>>

Channels == 0..ChannelCount - 1

Masks == [muted : SUBSET Channels, soloed : SUBSET Channels]
NoMasks == [muted |-> {}, soloed |-> {}]
Defaults == [c \in Channels |-> 1]
Snapshots ==
    [gains : [Channels -> Gains], flags : Masks, revision : 0..Revisions - 1]
DefaultSnapshot == [gains |-> Defaults, flags |-> NoMasks, revision |-> 0]

\* An update: what is left to do, the channel it is about or a reset has come
\* to, and for a mask update its bit and the word the exchange expects.
NoUpdate == [pc |-> "idle", expected |-> NoMasks, mask |-> "muted", channel |-> 0,
             on |-> FALSE]

\* outputGain: what a snapshot makes of a channel.
OutputGain(s, c) ==
    IF \/ c \in s.flags.muted
       \/ s.flags.soloed # {} /\ c \notin s.flags.soloed
    THEN 0 ELSE s.gains[c]

Silent(s) == {c \in Channels : OutputGain(s, c) = 0}

MixerTypeOK ==
    /\ gains \in [Channels -> Gains]
    /\ flags \in Masks
    /\ revision \in 0..Revisions - 1
    /\ asked \in Masks
    /\ updates \in 0..MaxUpdates
    /\ behind \in 0..Revisions - 1
    /\ reader \in {"idle", "gains", "apply"}
    /\ next \in 0..ChannelCount
    /\ view \in Snapshots
    /\ known \in 0..Revisions - 1
    /\ applied \in Snapshots
    /\ sounding \subseteq Channels
    /\ \A k \in Controllers : ctl[k].pc \in {"idle", "exchange", "reset", "publish"}

MixerInit ==
    /\ gains = Defaults
    /\ flags = NoMasks
    /\ revision = 0
    /\ ctl = [k \in Controllers |-> NoUpdate]
    /\ asked = NoMasks
    /\ updates = 0
    /\ behind = 0
    /\ reader = "idle"
    /\ next = 0
    /\ known = 0
    /\ view = DefaultSnapshot
    /\ applied = DefaultSnapshot
    /\ sounding = {}

-----------------------------------------------------------------------------
(* Updates.                                                                *)

Starts(k) ==
    /\ ctl[k].pc = "idle"
    /\ updates < MaxUpdates
    /\ updates' = updates + 1

Goto(k, pc) == ctl' = [ctl EXCEPT ![k].pc = pc]

With(word, mask, c, on) ==
    [word EXCEPT ![mask] = IF on THEN @ \cup {c} ELSE @ \ {c}]

SetGain(k, c, g) ==
    /\ Starts(k)
    /\ gains' = [gains EXCEPT ![c] = g]
    /\ Goto(k, "publish")
    /\ UNCHANGED <<flags, revision, asked, sinkVars>>

\* setMuted and setSoloed: updateMask loads the word.
BeginMask(k, mask, c, on) ==
    /\ Starts(k)
    /\ ctl' = [ctl EXCEPT ![k] = [pc |-> "exchange", expected |-> flags,
                                  mask |-> mask, channel |-> c, on |-> on]]
    /\ UNCHANGED <<mixer, asked, sinkVars>>

Updated(u, word) == With(word, u.mask, u.channel, u.on)

AsExpected(u) == flags = u.expected

\* The exchange stores only over the word it expects, with its own bit.
ExchangeSucceeds(k) ==
    LET u == ctl[k] IN
    /\ u.pc = "exchange"
    /\ AsExpected(u)
    /\ flags' = Updated(u, u.expected)
    /\ asked' = Updated(u, asked)
    /\ ctl' = [ctl EXCEPT ![k] = [NoUpdate EXCEPT !.pc = "publish"]]
    /\ UNCHANGED <<gains, revision, updates, sinkVars>>

\* It fails, also spuriously, and loads the word again.
ExchangeFails(k) ==
    /\ ctl[k].pc = "exchange"
    /\ ctl' = [ctl EXCEPT ![k].expected = flags]
    /\ UNCHANGED <<mixer, asked, updates, sinkVars>>

SetChannelFlags(k, word) ==
    /\ Starts(k)
    /\ flags' = word
    /\ asked' = word
    /\ Goto(k, "publish")
    /\ UNCHANGED <<gains, revision, sinkVars>>

\* reset stores the default gains one by one, then the masks.
BeginReset(k) ==
    /\ Starts(k)
    /\ ctl' = [ctl EXCEPT ![k] = [NoUpdate EXCEPT !.pc = "reset"]]
    /\ UNCHANGED <<mixer, asked, sinkVars>>

ResetGain(k) ==
    /\ ctl[k].pc = "reset"
    /\ ctl[k].channel \in Channels
    /\ gains' = [gains EXCEPT ![ctl[k].channel] = 1]
    /\ ctl' = [ctl EXCEPT ![k].channel = @ + 1]
    /\ UNCHANGED <<flags, revision, asked, updates, sinkVars>>

ResetFlags(k) ==
    /\ ctl[k].pc = "reset"
    /\ ctl[k].channel = ChannelCount
    /\ flags' = NoMasks
    /\ asked' = NoMasks
    /\ ctl' = [ctl EXCEPT ![k] = [NoUpdate EXCEPT !.pc = "publish"]]
    /\ UNCHANGED <<gains, revision, updates, sinkVars>>

Wrapped(n) == n % Revisions

\* The counter is far wider than the publications of one audio block.
Publish(k) ==
    /\ ctl[k].pc = "publish"
    /\ behind < Revisions - 1
    /\ revision' = Wrapped(revision + 1)
    /\ behind' = behind + 1
    /\ Goto(k, "idle")
    /\ UNCHANGED <<gains, flags, asked, updates, reader, next, view, applied, known,
                   sounding>>

-----------------------------------------------------------------------------
(* The callback, at the start of a block: synchronizeRuntimeMixer.         *)

\* Mutant: only a larger revision is new.
OnlyLater == revision > known

NewRevision == revision # known

\* The snapshot begins by loading the revision once more.
ReadRevision ==
    /\ reader = "idle"
    /\ NewRevision
    /\ view' = [view EXCEPT !.revision = revision]
    /\ behind' = 0
    /\ reader' = "gains"
    /\ next' = 0
    /\ UNCHANGED <<mixer, control, applied, known, sounding>>

ReadGain ==
    /\ reader = "gains"
    /\ next \in Channels
    /\ view' = [view EXCEPT !.gains[next] = gains[next]]
    /\ next' = next + 1
    /\ UNCHANGED <<mixer, control, behind, reader, applied, known, sounding>>

ReadFlags ==
    /\ reader = "gains"
    /\ next = ChannelCount
    /\ view' = [view EXCEPT !.flags = flags]
    /\ reader' = "apply"
    /\ UNCHANGED <<mixer, control, behind, next, applied, known, sounding>>

\* Mutant: the revision is loaded after the words it stands for.
LatestRevision(s) == revision

RevisionOf(s) == s.revision

\* Mutant: nothing is cut off.
CutsNothing(old, new) == {}

\* A channel that becomes silent gets All Sound Off (CC 120).
CutOff(old, new) == Silent(new) \ Silent(old)

Apply ==
    /\ reader = "apply"
    /\ applied' = view
    /\ known' = RevisionOf(view)
    /\ sounding' = sounding \ CutOff(applied, view)
    /\ view' = DefaultSnapshot
    /\ reader' = "idle"
    /\ next' = 0
    /\ UNCHANGED <<mixer, control, behind>>

(* The events of the block.                                                *)

MaySound(c) == OutputGain(applied, c) # 0

NoteOn(c) ==
    /\ reader = "idle"
    /\ MaySound(c)
    /\ sounding' = sounding \cup {c}
    /\ UNCHANGED <<mixer, control, behind, reader, next, view, applied, known>>

NoteOff(c) ==
    /\ reader = "idle"
    /\ sounding' = sounding \ {c}
    /\ UNCHANGED <<mixer, control, behind, reader, next, view, applied, known>>

-----------------------------------------------------------------------------
Update(k) ==
    \/ \E c \in Channels :
          \/ \E g \in Gains : SetGain(k, c, g)
          \/ \E mask \in {"muted", "soloed"}, on \in BOOLEAN : BeginMask(k, mask, c, on)
    \/ ExchangeSucceeds(k) \/ ExchangeFails(k)
    \/ \E word \in Presets : SetChannelFlags(k, word)
    \/ BeginReset(k) \/ ResetGain(k) \/ ResetFlags(k)
    \/ Publish(k)

Synchronise == ReadRevision \/ ReadGain \/ ReadFlags \/ Apply

MixerNext ==
    \/ Synchronise
    \/ \E c \in Channels : NoteOn(c) \/ NoteOff(c)
    \/ \E k \in Controllers : Update(k)

\* A running device keeps asking for blocks.
MixerSpec == MixerInit /\ [][MixerNext]_mixerVars /\ WF_mixerVars(Synchronise)

-----------------------------------------------------------------------------
(* Properties.                                                             *)

Quiet == \A k \in Controllers : ctl[k].pc = "idle"
UpToDate == applied.gains = gains /\ applied.flags = flags

\* A callback that sees no new revision has missed nothing: between blocks
\* and between updates what it mixes with is what was set, although neither
\* side ever waited and the counter may have wrapped.  And what was set is what
\* the updates amount to: no change of one bit undoes another controller's
\* (updateMask).
NoLostUpdate ==
    /\ flags = asked
    /\ Quiet /\ reader = "idle" /\ ~NewRevision => UpToDate

\* Between blocks no voice sounds on a channel that the applied snapshot
\* turns off (PLAYBACK-SESSION-CONTRACT, CC 120 on the transition), however
\* many updates one block skipped.
SilencedStaySilent == reader = "idle" => sounding \cap Silent(applied) = {}

\* When the controllers rest, the callback comes to use what they set.
CatchesUp == Quiet ~> UpToDate \/ ~Quiet
=============================================================================
