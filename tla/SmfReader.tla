------------------------------- MODULE SmfReader ------------------------------
(***************************************************************************)
(* From the bytes of a MIDI file to the events of its tracks: the reader   *)
(* (audio/SmfByteReader.hpp), the chunks (audio/SmfParser.hpp) and the     *)
(* events of one chunk (audio/SmfTrackEventDecoder.hpp).  Every read is    *)
(* bounds-checked and the first fault ends the file; the faults of one     *)
(* element are listed in the order in which the code comes upon them.      *)
(*                                                                         *)
(* Offsets count from zero, as in the code: the byte at o is b[o + 1].     *)
(* Ticks are 64 bits wide there, here 0..MaxTime.                          *)
(***************************************************************************)
EXTENDS Integers, FiniteSets, FiniteSetsExt, Sequences, SequencesExt

CONSTANTS Files,     \* the files to read, sequences of bytes
          MaxTime,   \* UINT64_MAX
          None

ASSUME NoneAssumption == None \notin Nat \cup Seq(Nat)

VARIABLES
    file,      \* the bytes
    stage,     \* what is done next, or the error that ended it
    fault,     \* the decoder's or parser's error
    division,
    payloads,  \* the bytes of the track chunks
    tracks,    \* the events of the tracks decoded so far
    events,    \* the events of the track being decoded
    offset, tick, running

decodeVars == <<tracks, events, offset, tick, running>>
readVars == <<file, stage, fault, division, payloads, decodeVars>>

-----------------------------------------------------------------------------
(* Bounded reads.                                                          *)

Fault(code, at) == [code |-> code, offset |-> at]
NoFault == Fault("none", 0)

Has(b, o, n) == o + n <= Len(b)
Field(b, o, n) == SubSeq(b, o + 1, o + n)

\* Big-endian, in digits of the base.
Number(base, digits) == FoldLeft(LAMBDA n, d : base * n + d, 0, digits)

\* A variable-length quantity: at most four bytes, the last below 128.
Vlq(b, o) ==
    LET ends == {n \in 1..4 : Has(b, o, n) /\ b[o + n] < 128}
    IN  IF ends # {}
        THEN [fault |-> NoFault, next |-> o + Min(ends),
              value |-> Number(128, [i \in 1..Min(ends) |-> b[o + i] % 128])]
        ELSE [fault |-> IF Has(b, o, 4) THEN Fault("MalformedVlq", o + 3)
                        ELSE Fault("TruncatedEvent", Len(b)),
              next |-> o, value |-> 0]

-----------------------------------------------------------------------------
(* Chunks.                                                                 *)

MThd == <<77, 84, 104, 100>>
MTrk == <<77, 84, 114, 107>>

Mismatches(b, o, name) == {i \in 0..3 : b[o + i + 1] # name[i + 1]}

Smpte(d) == d >= 32768

ValidDivision(d) ==
    \/ d # 0 /\ ~Smpte(d)
    \/ d % 256 # 0 /\ d \div 256 \in {226, 227, 231, 232}

Format(b) == Number(256, Field(b, 8, 2))
TrackCount(b) == Number(256, Field(b, 10, 2))
Division(b) == Number(256, Field(b, 12, 2))

HeaderFault(b) ==
    IF ~Has(b, 0, 4) THEN Fault("TruncatedHeader", Len(b))
    ELSE IF Mismatches(b, 0, MThd) # {}
         THEN Fault("InvalidHeaderChunk", Min(Mismatches(b, 0, MThd)))
    ELSE IF ~Has(b, 4, 4) THEN Fault("TruncatedHeader", Len(b))
    ELSE IF Field(b, 4, 4) # <<0, 0, 0, 6>> THEN Fault("InvalidHeaderLength", 4)
    ELSE IF ~Has(b, 8, 6) THEN Fault("TruncatedHeader", Len(b))
    ELSE IF Format(b) > 1 THEN Fault("UnsupportedFormat", 8)
    ELSE IF TrackCount(b) = 0 \/ (Format(b) = 0 /\ TrackCount(b) # 1)
         THEN Fault("InvalidTrackCount", 10)
    ELSE IF ~ValidDivision(Division(b)) THEN Fault("InvalidDivision", 12)
    ELSE NoFault

\* The payload lies within the file.
WholeChunk(b, o) == Has(b, o + 8, Number(256, Field(b, o + 4, 4)))

ChunkFault(b, o) ==
    IF ~Has(b, o, 4) THEN Fault("TruncatedTrackChunk", Len(b))
    ELSE IF Mismatches(b, o, MTrk) # {}
         THEN Fault("InvalidTrackChunk", o + Min(Mismatches(b, o, MTrk)))
    ELSE IF ~Has(b, o, 8) \/ ~WholeChunk(b, o) THEN Fault("TruncatedTrackChunk", Len(b))
    ELSE NoFault

ReadInit ==
    /\ file \in Files
    /\ stage = "header"
    /\ fault = NoFault
    /\ division = 0
    /\ payloads = <<>> /\ tracks = <<>> /\ events = <<>>
    /\ offset = 0 /\ tick = 0 /\ running = None

ReadHeader ==
    /\ stage = "header"
    /\ HeaderFault(file) = NoFault
    /\ division' = Division(file)
    /\ offset' = 14
    /\ stage' = "chunks"
    /\ UNCHANGED <<file, fault, payloads, tracks, events, tick, running>>

ReadTrack ==
    /\ stage = "chunks"
    /\ Len(payloads) < TrackCount(file)
    /\ ChunkFault(file, offset) = NoFault
    /\ LET n == Number(256, Field(file, offset + 4, 4)) IN
          /\ payloads' = Append(payloads, Field(file, offset + 8, n))
          /\ offset' = offset + 8 + n
    /\ UNCHANGED <<file, stage, fault, division, tracks, events, tick, running>>

\* The timeline compiler refuses SMPTE divisions before it decodes.
ParseEnds ==
    /\ stage = "chunks"
    /\ Len(payloads) = TrackCount(file)
    /\ offset = Len(file)
    /\ offset' = 0
    /\ stage' = IF Smpte(division) THEN "UnsupportedSmpteDivision" ELSE "decode"
    /\ UNCHANGED <<file, fault, division, payloads, tracks, events, tick, running>>

ParseFault ==
    CASE stage = "header" -> HeaderFault(file)
      [] stage = "chunks" /\ Len(payloads) < TrackCount(file) -> ChunkFault(file, offset)
      [] stage = "chunks" /\ Len(payloads) = TrackCount(file) ->
            IF offset < Len(file) THEN Fault("TrailingData", offset) ELSE NoFault
      [] OTHER -> NoFault

ParseFails ==
    /\ ParseFault # NoFault
    /\ fault' = ParseFault
    /\ stage' = "InvalidSmf"
    /\ UNCHANGED <<file, division, payloads, decodeVars>>

-----------------------------------------------------------------------------
(* Events of a track.                                                      *)

Tempo == 81        \* FF 51
EndOfTrack == 47   \* FF 2F

DataLength(status) == IF status \div 16 \in {12, 13} THEN 1 ELSE 2

\* The data bytes still missing at o.
ChannelFault(p, o, n) ==
    LET bad == {i \in 1..n : Has(p, o, i) /\ p[o + i] > 127}
    IN  IF bad # {} THEN Fault("InvalidChannelData", o + Min(bad) - 1)
        ELSE IF ~Has(p, o, n) THEN Fault("TruncatedEvent", Len(p))
        ELSE NoFault

MetaFault(p, o) ==
    LET n == Vlq(p, o + 1) IN
    IF ~Has(p, o, 1) THEN Fault("TruncatedEvent", Len(p))
    ELSE IF n.fault # NoFault THEN n.fault
    ELSE IF \/ p[o + 1] = Tempo /\ n.value # 3
            \/ p[o + 1] = EndOfTrack /\ n.value # 0
         THEN Fault("InvalidMetaLength", o + 1)
    ELSE IF ~Has(p, n.next, n.value) THEN Fault("TruncatedEvent", Len(p))
    ELSE IF p[o + 1] = Tempo /\ Field(p, n.next, 3) = <<0, 0, 0>>
         THEN Fault("InvalidTempoValue", n.next)
    ELSE NoFault

SysExFault(p, o) ==
    LET n == Vlq(p, o) IN
    IF n.fault # NoFault THEN n.fault
    ELSE IF ~Has(p, n.next, n.value) THEN Fault("TruncatedEvent", Len(p))
    ELSE NoFault

\* The event at o, t ticks into the track, with r as running status.
EventFault(p, o, t, r) ==
    LET delta == Vlq(p, o)
        at == delta.next
        status == p[at + 1]
    IN  IF delta.fault # NoFault THEN delta.fault
        ELSE IF t > MaxTime - delta.value THEN Fault("TickOverflow", o)
        ELSE IF ~Has(p, at, 1) THEN Fault("TruncatedEvent", Len(p))
        ELSE IF status < 128 /\ r = None THEN Fault("MissingRunningStatus", at)
        ELSE IF status < 128 THEN ChannelFault(p, at + 1, DataLength(r) - 1)
        ELSE IF status < 240 THEN ChannelFault(p, at + 1, DataLength(status))
        ELSE IF status = 255 THEN MetaFault(p, at + 1)
        ELSE IF status \in {240, 247} THEN SysExFault(p, at + 1)
        ELSE Fault("InvalidSystemEvent", at)

\* Mutant: a meta event leaves the running status in force.
KeepsStatus(status, r) == IF status < 240 THEN status ELSE r

\* System and meta events end the running status.
NextStatus(status, r) == IF status < 240 THEN status ELSE None

Event(t, status, meta, data) == [tick |-> t, status |-> status, meta |-> meta, data |-> data]

\* The event, where there is no fault, and what comes after it.
EventAt(p, o, t, r) ==
    LET delta == Vlq(p, o)
        at == delta.next
        now == t + delta.value
        status == IF p[at + 1] < 128 THEN r ELSE p[at + 1]
        first == IF p[at + 1] < 128 THEN at ELSE at + 1
        count == Vlq(p, IF status = 255 THEN at + 2 ELSE at + 1)
    IN  IF status < 240
        THEN [event |-> Event(now, status, None, Field(p, first, DataLength(status))),
              next |-> first + DataLength(status), running |-> NextStatus(status, r)]
        ELSE [event |-> Event(now, status, IF status = 255 THEN p[at + 2] ELSE None,
                              Field(p, count.next, count.value)),
              next |-> count.next + count.value, running |-> NextStatus(status, r)]

Payload == payloads[Len(tracks) + 1]
Here == EventAt(Payload, offset, tick, running)
EndsTrack(e) == e.meta = EndOfTrack

DecodeFault ==
    IF offset = Len(Payload) THEN Fault("MissingEndOfTrack", Len(Payload))
    ELSE IF EventFault(Payload, offset, tick, running) # NoFault
         THEN EventFault(Payload, offset, tick, running)
    ELSE IF EndsTrack(Here.event) /\ Here.next < Len(Payload)
         THEN Fault("TrailingDataAfterEndOfTrack", Here.next)
    ELSE NoFault

DecodeEvent ==
    /\ stage = "decode"
    /\ DecodeFault = NoFault
    /\ ~EndsTrack(Here.event)
    /\ events' = Append(events, Here.event)
    /\ offset' = Here.next
    /\ tick' = Here.event.tick
    /\ running' = Here.running
    /\ UNCHANGED <<file, stage, fault, division, payloads, tracks>>

DecodeEnd ==
    /\ stage = "decode"
    /\ DecodeFault = NoFault
    /\ EndsTrack(Here.event)
    /\ tracks' = Append(tracks, Append(events, Here.event))
    /\ events' = <<>> /\ offset' = 0 /\ tick' = 0 /\ running' = None
    /\ stage' = IF Len(tracks') = Len(payloads) THEN "merge" ELSE "decode"
    /\ UNCHANGED <<file, fault, division, payloads>>

DecodeFails ==
    /\ stage = "decode"
    /\ DecodeFault # NoFault
    /\ fault' = DecodeFault
    /\ stage' = "TrackDecodeFailed"
    /\ UNCHANGED <<file, division, payloads, decodeVars>>

ReadNext ==
    \/ ReadHeader \/ ReadTrack \/ ParseEnds \/ ParseFails
    \/ DecodeEvent \/ DecodeEnd \/ DecodeFails

-----------------------------------------------------------------------------
(* Properties.                                                             *)

IsVlq(s) ==
    Len(s) \in 1..4 /\ s[Len(s)] < 128 /\ \A i \in 1..Len(s) - 1 : s[i] > 127

VlqValue(s) == Number(128, [i \in DOMAIN s |-> s[i] % 128])

\* The numbers of data bytes that s can announce and then have.
Counts(s) ==
    {Len(s) - n : n \in {m \in 1..Len(s) :
                            IsVlq(Field(s, 0, m)) /\ VlqValue(Field(s, 0, m)) = Len(s) - m}}

\* The grammar of one event after its delta time; r is the status that may be
\* left out.
IsBody(s, r) ==
    \/ r # None /\ Len(s) = DataLength(r) /\ \A i \in DOMAIN s : s[i] < 128
    \/ /\ s[1] \in 128..239 /\ Len(s) = 1 + DataLength(s[1])
       /\ \A i \in 2..Len(s) : s[i] < 128
    \/ s[1] \in {240, 247} /\ Counts(Tail(s)) # {}
    \/ /\ s[1] = 255 /\ Len(s) > 2
       /\ \E n \in Counts(SubSeq(s, 3, Len(s))) :
             /\ s[2] = EndOfTrack => n = 0
             /\ s[2] = Tempo => n = 3 /\ SubSeq(s, Len(s) - 2, Len(s)) # <<0, 0, 0>>

\* The bytes s are an event d ticks after the last.
IsEvent(s, r, d) ==
    \E n \in 1..Len(s) - 1 :
        /\ IsVlq(Field(s, 0, n)) /\ VlqValue(Field(s, 0, n)) = d
        /\ IsBody(SubSeq(s, n + 1, Len(s)), r)

\* The status of the event before, if that is a channel's.
Omissible ==
    IF events = <<>> \/ Last(events).status >= 240 THEN None ELSE Last(events).status

Rest == Field(Payload, offset, Len(Payload) - offset)

\* What a step of the decoder takes from the payload.
Taken == IF tracks' = tracks THEN Field(Payload, offset, offset' - offset) ELSE Rest
TakenEvent == IF tracks' = tracks THEN Last(events') ELSE Last(Last(tracks'))

\* Every byte of a parsed file is the header's or one chunk's.  The decoder
\* takes one event at a time, exactly as the grammar says, and the
\* payload ends with the one end of track; it refuses a payload only where no
\* such event follows.  "For truncation [the offset] is payload.size()", for
\* any other fault it is a byte of the event in hand or after the last.
ReadsTheFormat ==
    [][stage = "decode" =>
       /\ Len(file) = 14 + FoldLeft(LAMBDA sum, p : sum + 8 + Len(p), 0, payloads)
       /\ \/ /\ stage' = "TrackDecodeFailed"
             /\ \A n \in 1..Len(Rest) : \A d \in 0..MaxTime - tick :
                   IsEvent(Field(Rest, 0, n), Omissible, d) => EndsTrack(Here.event) /\ n < Len(Rest)
             /\ fault'.offset \in offset..Len(Payload)
             /\ fault'.offset = Len(Payload) <=>
                   fault'.code \in {"TruncatedEvent", "MissingEndOfTrack"}
          \/ /\ IsEvent(Taken, Omissible, TakenEvent.tick - tick)
             /\ EndsTrack(TakenEvent) <=> tracks' # tracks]_readVars
=============================================================================
