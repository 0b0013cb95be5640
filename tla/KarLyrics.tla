------------------------------- MODULE KarLyrics ------------------------------
(***************************************************************************)
(* The lyrics of a compiled song: which track carries them, the decoding   *)
(* of their text and the display operations of each cue                    *)
(* (lyrics/KarLyricExtractor.hpp, lyrics/LyricTextDecoder.hpp).            *)
(*                                                                         *)
(* Text is bytes, in the source and, as UTF-8, in the result.  Storage is  *)
(* charged before it is used; what a record takes is a constant.           *)
(***************************************************************************)
EXTENDS SmfTimeline

CONSTANTS Options(_),   \* what the extraction of a file may be asked for
          CueBytes, MetadataBytes, OperationBytes   \* sizeof of the records

\* extract refuses any other configuration.
ASSUME OptionsAssumption ==
    /\ \A o \in UNION {Options(f) : f \in Files} :
          /\ o.encoding \in {"Utf8", "Tis620"}
          /\ {o.sourceBytes, o.cues, o.titleBytes, o.stagedBytes} \subseteq Nat \ {0}
          /\ o.track \in (Nat \ {0}) \cup {None}
    /\ {CueBytes, MetadataBytes, OperationBytes} \subseteq Nat

VARIABLES
    extraction,   \* "none", "reading", "done" or the error that ended it
    options,
    profile,      \* "NoLyrics", "LyricMeta" or "NamedText"
    lyricTrack,
    read,         \* events of the timeline that have been looked at
    sourceBytes, stagedBytes,
    cues, metadata, title

lyricVars == <<extraction, options, profile, lyricTrack, read, sourceBytes, stagedBytes,
               cues, metadata, title>>

CR == 13
LF == 10
At == 64
Slash == 47
Backslash == 92
Newlines == {CR, LF}

-----------------------------------------------------------------------------
(* Text.                                                                   *)

\* The length of a UTF-8 sequence by its first byte; 0 if none begins so.
Length(b) ==
    CASE b \in 0..127 -> 1
      [] b \in 194..223 -> 2
      [] b \in 224..239 -> 3
      [] b \in 240..244 -> 4
      [] OTHER -> 0

\* Neither overlong nor a surrogate nor out of range.
Continues(first, i, b) ==
    /\ b \in 128..191
    /\ i = 1 => /\ first = 224 => b >= 160
                /\ first = 237 => b <= 159
                /\ first = 240 => b >= 144
                /\ first = 244 => b <= 143

\* The first byte that spoils the sequence at o.
Spoilt(b, o) ==
    {i \in 1..Length(b[o + 1]) - 1 : ~Has(b, o, i + 1) \/ ~Continues(b[o + 1], i, b[o + 1 + i])}

ThaiScalar(b) ==
    CASE b \in 0..159 -> b
      [] b \in 161..218 -> 3585 + b - 161
      [] b = 223 -> 3647
      [] b \in 224..251 -> 3648 + b - 224
      [] OTHER -> None

Utf8(scalar) ==
    IF scalar < 128 THEN <<scalar>>
    ELSE IF scalar < 2048 THEN <<192 + scalar \div 64, 128 + (scalar % 64)>>
    ELSE <<224 + scalar \div 4096, 128 + ((scalar \div 64) % 64), 128 + (scalar % 64)>>

Control(b) == b < 32 /\ b \notin {9, 10, 13}

CharacterFault(encoding, b, o) ==
    IF encoding = "Tis620"
    THEN IF ThaiScalar(b[o + 1]) = None \/ Control(b[o + 1]) THEN Fault("InvalidText", o)
         ELSE NoFault
    ELSE IF Length(b[o + 1]) = 0 THEN Fault("InvalidText", o)
    ELSE IF Spoilt(b, o) # {} THEN Fault("InvalidText", o + Min(Spoilt(b, o)))
    ELSE IF Control(b[o + 1]) THEN Fault("InvalidText", o)
    ELSE NoFault

Character(encoding, b, o) ==
    IF encoding = "Tis620" THEN Utf8(ThaiScalar(b[o + 1])) ELSE Field(b, o, Length(b[o + 1]))

Taking(encoding, b, o) == IF encoding = "Tis620" THEN 1 ELSE Length(b[o + 1])

\* decodeLyricText: one character after the other, into at most limit bytes.
DecodeText(encoding, b, limit) ==
    LET Step(s, k) ==
            IF s.fault # NoFault \/ s.at = Len(b) THEN s
            ELSE LET bad == CharacterFault(encoding, b, s.at)
                     more == Character(encoding, b, s.at)
                 IN  IF bad # NoFault THEN [s EXCEPT !.fault = bad]
                     ELSE IF Len(s.text) + Len(more) > limit
                          THEN [s EXCEPT !.fault = Fault("LimitExceeded", s.at)]
                     ELSE [s EXCEPT !.text = @ \o more, !.at = @ + Taking(encoding, b, @)]
    IN  FoldLeft(Step, [text |-> <<>>, at |-> 0, fault |-> NoFault], b)

-----------------------------------------------------------------------------
(* The track.                                                              *)

Blank == {32, 9}
Lower(b) == IF b \in 65..90 THEN b + 32 ELSE b

\* Without blanks around it and without regard to case.
Trimmed(b) ==
    LET kept == {i \in DOMAIN b : b[i] \notin Blank}
    IN  IF kept = {} THEN <<>> ELSE [i \in 1..Max(kept) - Min(kept) + 1 |-> Lower(b[Min(kept) + i - 1])]

Words == <<119, 111, 114, 100, 115>>
Lyrics == <<108, 121, 114, 105, 99, 115>>

Says(e, type) == e.event.meta = type /\ e.event.data # <<>>
IsLyric(e) == Says(e, 5)
IsMetadata(e) == Says(e, 1) /\ Head(e.event.data) = At
IsNamedText(e) == Says(e, 1) /\ ~IsMetadata(e)
NamesLyrics(e) == e.event.meta = 3 /\ Trimmed(e.event.data) \in {Words, Lyrics}

\* All events, or those of the one track that is asked for.
Eligible(asked) == {e \in ToSet(timeline) : asked \in {None, e.track}}

SungTracks(asked) == {e.track : e \in {d \in Eligible(asked) : IsLyric(d)}}

TextTracks(asked) ==
    {e.track : e \in {d \in Eligible(asked) : IsNamedText(d)}}
        \cap {e.track : e \in {d \in Eligible(asked) : NamesLyrics(d)}}

Candidates(asked) ==
    IF SungTracks(asked) # {} THEN SungTracks(asked) ELSE TextTracks(asked)

LyricInit ==
    /\ extraction = "none"
    /\ options = None
    /\ profile = "NoLyrics" /\ lyricTrack = None
    /\ read = 0 /\ sourceBytes = 0 /\ stagedBytes = 0
    /\ cues = <<>> /\ metadata = <<>> /\ title = None

Select(o) ==
    /\ stage = "compiled" /\ extraction = "none"
    /\ options' = o
    /\ LET found == Candidates(o.track) IN
          IF o.track # None /\ o.track > Len(tracks)
          THEN extraction' = "InvalidLyricTrack" /\ UNCHANGED <<profile, lyricTrack>>
          ELSE IF Cardinality(found) > 1
          THEN extraction' = "AmbiguousLyricTrack" /\ UNCHANGED <<profile, lyricTrack>>
          ELSE IF found = {}
          THEN extraction' = "done" /\ UNCHANGED <<profile, lyricTrack>>
          ELSE /\ extraction' = "reading"
               /\ \E t \in found : lyricTrack' = t
               /\ profile' = IF SungTracks(o.track) # {} THEN "LyricMeta" ELSE "NamedText"
    /\ UNCHANGED <<read, sourceBytes, stagedBytes, cues, metadata, title, compileVars>>

-----------------------------------------------------------------------------
(* The cues.                                                               *)

IsSelected(e) ==
    e.track = lyricTrack /\ IF profile = "LyricMeta" THEN IsLyric(e) ELSE Says(e, 1)

Ahead == {i \in DOMAIN timeline : i > read /\ IsSelected(timeline[i])}
Current == timeline[Min(Ahead)]
Raw == Current.event.data
ToMetadata == profile = "NamedText" /\ IsMetadata(Current)

\* What storage is left once the bytes and the record are charged.
Room == options.stagedBytes - stagedBytes - Len(Raw)
          - (IF ToMetadata THEN MetadataBytes ELSE CueBytes)

Text == DecodeText(options.encoding, Raw, Room)

\* "@T" and more is a title; the first one counts.
IsTitle(text) == Len(text) > 2 /\ SubSeq(text, 1, 2) = <<At, 84>>
TakesTitle == ToMetadata /\ title = None /\ IsTitle(Text.text)
TitleBytes == IF TakesTitle THEN Len(Text.text) - 2 ELSE 0

Operation(kind, o, n) == [kind |-> kind, offset |-> o, length |-> n]

\* Mutant: a CRLF is two newlines.
EachNewline(text, o) == o + 1

\* A CRLF is one newline.
AfterNewline(text, o) ==
    IF text[o + 1] = CR /\ Has(text, o, 2) /\ text[o + 2] = LF THEN o + 2 ELSE o + 1

\* Where the run of text at o ends.
RunEnd(text, o) == Min({Len(text)} \cup {i \in o..Len(text) - 1 : text[i + 1] \in Newlines})

\* The leading marks of named text.
Marks(text) ==
    IF profile = "NamedText"
    THEN Min({Len(text)} \cup {i \in 0..Len(text) - 1 : text[i + 1] \notin {Slash, Backslash}})
    ELSE 0

Operations(text) ==
    LET MarkBreak(i) == Operation(IF text[i] = Slash THEN "LineBreak" ELSE "ParagraphBreak",
                                  i - 1, 0)
        Step(s, k) ==
            IF s.at = Len(text) THEN s
            ELSE IF text[s.at + 1] \in Newlines
            THEN [at |-> AfterNewline(text, s.at),
                  list |-> Append(s.list, Operation("LineBreak", s.at, 0))]
            ELSE [at |-> RunEnd(text, s.at),
                  list |-> Append(s.list, Operation("Text", s.at, RunEnd(text, s.at) - s.at))]
    IN  FoldLeft(Step, [at |-> Marks(text), list |-> [i \in 1..Marks(text) |-> MarkBreak(i)]],
                 text).list

OperationCharge == IF ToMetadata THEN 0 ELSE Len(Operations(Text.text)) * OperationBytes

\* Why the next event cannot be taken; the tests come in this order.
EventError ==
    IF \/ sourceBytes + Len(Raw) > options.sourceBytes
       \/ ~ToMetadata /\ Len(cues) >= options.cues
       \/ Room <= 0
    THEN "LimitExceeded"
    ELSE IF Text.fault # NoFault THEN Text.fault.code
    ELSE IF TitleBytes > options.titleBytes
            \/ Len(Text.text) + TitleBytes + OperationCharge > Room
    THEN "LimitExceeded"
    ELSE "none"

Takes ==
    /\ extraction = "reading" /\ Ahead # {}
    /\ EventError = "none"
    /\ read' = Min(Ahead)
    /\ sourceBytes' = sourceBytes + Len(Raw)
    /\ stagedBytes' = options.stagedBytes - Room + Len(Text.text) + TitleBytes + OperationCharge
    /\ UNCHANGED <<extraction, options, profile, lyricTrack, compileVars>>

TakeCue ==
    /\ Takes
    /\ ~ToMetadata
    /\ cues' = Append(cues, [index |-> Min(Ahead), time |-> Current.time, raw |-> Raw,
                             text |-> Text.text, operations |-> Operations(Text.text)])
    /\ UNCHANGED <<metadata, title>>

TakeMetadata ==
    /\ Takes
    /\ ToMetadata
    /\ metadata' = Append(metadata, [index |-> Min(Ahead), raw |-> Raw, text |-> Text.text])
    /\ title' = IF TakesTitle THEN SubSeq(Text.text, 3, Len(Text.text)) ELSE title
    /\ UNCHANGED cues

ExtractionFails ==
    /\ extraction = "reading" /\ Ahead # {}
    /\ EventError # "none"
    /\ extraction' = EventError
    /\ UNCHANGED <<options, profile, lyricTrack, read, sourceBytes, stagedBytes, cues,
                   metadata, title, compileVars>>

Extracted ==
    /\ extraction = "reading" /\ Ahead = {}
    /\ extraction' = "done"
    /\ UNCHANGED <<options, profile, lyricTrack, read, sourceBytes, stagedBytes, cues,
                   metadata, title, compileVars>>

LyricNext ==
    \/ \E o \in Options(file) : Select(o)
    \/ TakeCue \/ TakeMetadata \/ ExtractionFails \/ Extracted

-----------------------------------------------------------------------------
(* Properties.                                                             *)

\* The bytes of its cue that an operation stands for.
Width(text, op) ==
    CASE op.kind = "Text" -> op.length
      [] op.kind = "LineBreak" /\ IsPrefix(<<CR, LF>>, SubSeq(text, op.offset + 1, Len(text))) -> 2
      [] OTHER -> 1

\* Marks before it make one more, and only in named text.
IsMark(text, op) ==
    /\ profile = "NamedText"
    /\ \A i \in 1..op.offset + 1 : text[i] \in {Slash, Backslash}
    /\ op.kind = IF text[op.offset + 1] = Slash THEN "LineBreak" ELSE "ParagraphBreak"

\* The operations of a cue stand for all its bytes, each once and in order:
\* runs of text as long as can be, and a break for each newline and mark.
Tiles(text, ops) ==
    /\ \A i \in DOMAIN ops :
          LET op == ops[i]
              after == op.offset + Width(text, op)
          IN  /\ op.offset = 0 <=> i = 1
              /\ after = IF i = Len(ops) THEN Len(text) ELSE ops[i + 1].offset
              /\ IF op.kind = "Text"
                 THEN /\ op.length > 0
                      /\ \A k \in op.offset + 1..after : text[k] \notin Newlines
                      /\ i < Len(ops) => ops[i + 1].kind # "Text"
                 ELSE \/ IsMark(text, op)
                      \/ op.kind = "LineBreak" /\ text[op.offset + 1] \in Newlines
    /\ ops # <<>>

\* What is kept of an event: its bytes, its record and its text.
Charged(record, size) == Len(record.raw) + size + Len(record.text)
CueStorage(c) == Charged(c, CueBytes) + Len(c.operations) * OperationBytes
MetadataStorage(m) == Charged(m, MetadataBytes)

\* Through limits reached at any point: every selected event so far became one
\* cue or one piece of metadata, in its order; a cue's operations are its text;
\* and the storage charged is exactly the storage kept, within the limit.
LyricsAreTheText ==
    /\ \A i \in DOMAIN cues : Tiles(cues[i].text, cues[i].operations)
    /\ \A i, j \in DOMAIN cues : i < j => cues[i].index < cues[j].index /\ cues[i].time <= cues[j].time
    /\ {cues[i].index : i \in DOMAIN cues} \cup {metadata[i].index : i \in DOMAIN metadata}
          = {i \in 1..read : IsSelected(timeline[i])}
    /\ Len(cues) + Len(metadata) = Cardinality({i \in 1..read : IsSelected(timeline[i])})
    /\ stagedBytes =
          FoldLeft(LAMBDA n, c : n + CueStorage(c), 0, cues)
            + FoldLeft(LAMBDA n, m : n + MetadataStorage(m), 0, metadata)
            + (IF title = None THEN 0 ELSE Len(title))
    /\ extraction # "none" => stagedBytes <= options.stagedBytes /\ sourceBytes <= options.sourceBytes
=============================================================================
