--------------------------- MODULE MCPlaybackSession --------------------------
EXTENDS SongPlayback

Word(n) == <<n \div 256, n % 256>>
Long(n) == <<0, 0>> \o Word(n)
Bytes(parts) == FlattenSeq(parts)

Chunk(p) == MTrk \o Long(Len(p)) \o p
Header(format, count, div) == MThd \o Long(6) \o Word(format) \o Word(count) \o Word(div)
File(payloads_) ==
    Header(IF Len(payloads_) = 1 THEN 0 ELSE 1, Len(payloads_), 3)
        \o Bytes([i \in DOMAIN payloads_ |-> Chunk(payloads_[i])])

Meta(d, type, data) == <<d, 255, type, Len(data)>> \o data
End(d) == Meta(d, EndOfTrack, <<>>)
SetTempo(d, t) == Meta(d, Tempo, <<0, 0, t>>)
Program(d) == <<d, 192, 5>>

-----------------------------------------------------------------------------
(* Tempo changes under another track, and notes without a status.          *)

Waits == {0, 1, 2}
Middle == {Program(d) : d \in Waits} \cup {<<1, 5>>}
          \cup {SetTempo(d, t) : d \in Waits, t \in {2, 7}}
Heads == {<<>>} \cup Middle \cup {d \o e : d, e \in Middle}

TempoFiles ==
    {File(<<h \o End(d), s>>) :
        h \in Heads, d \in {0, 5}, s \in {SetTempo(c, t) \o End(1) : c \in {1, 2}, t \in {2, 7}}}

-----------------------------------------------------------------------------
(* Payloads of any bytes, with and without an end of track.                *)

Strings(alphabet, n) == UNION {[1..k -> alphabet] : k \in 0..n}

AnyPayloads == Strings({0, EndOfTrack, 129, 192, 255}, 4)
               \cup Strings({1, EndOfTrack, 127, 128, 144, 240, 241, 247, 255}, 3)

\* Long quantities, a delta beyond the last tick, tempos of wrong lengths or
\* zero, a status after a meta event and after a system exclusive message.
OddPayloads ==
    {<<129, 129, 129, 129, 0>>, <<129, 128, 0, 192, 5>>, <<17, 192, 5>>,
     <<16, 192, 5, 1, 5>>, <<0, 192, 5, 0, 240, 1, 247, 0, 5>>,
     <<0, 192, 5, 0, 255, 1, 0, 0, 5>>, <<0, 145, 5, 6, 0, 5, 6>>, <<0, 145, 5, 6, 0, 5, 200>>,
     <<0, 255, Tempo, 2, 0, 5>>, <<0, 255, Tempo, 3, 0, 0, 0>>, <<0, 255, Tempo, 3, 0, 0>>,
     <<0, 255, EndOfTrack, 1, 0>>, <<0, 255, 1, 128, 1, 65>>, <<0, 255, 1, 5, 65>>,
     <<0, 247, 2, 1, 2>>, <<0, 240, 3, 1>>, <<0, 248>>}

OddFiles ==
    {File(<<p>>) : p \in AnyPayloads \cup OddPayloads}
    \cup {File(<<p \o End(0)>>) : p \in AnyPayloads \cup OddPayloads}

\* A file cut short anywhere, with a byte too many or one byte changed.
Whole == File(<<Program(0) \o End(1), End(0)>>)

BrokenFiles ==
    {SubSeq(Whole, 1, n) : n \in 0..Len(Whole)}
    \cup {Whole \o <<0>>}
    \cup {[Whole EXCEPT ![i] = b] : i \in {1, 4, 8, 10, 12, 15, 18, 22}, b \in {0, 2, 3, 77}}
    \cup {[Whole EXCEPT ![13] = b] : b \in {128, 226}}
    \cup {[Whole EXCEPT ![14] = b] : b \in {0, 2}}
    \cup {Header(0, 1, div) \o Chunk(End(0)) : div \in {0, 32768, 57600, 57601, 59137, 59393, 65281}}
    \cup {Header(0, 2, 3) \o Chunk(End(0)) \o Chunk(End(0))}

-----------------------------------------------------------------------------
(* Lyrics.                                                                 *)

Lyric(d, text) == Meta(d, 5, text)
Line(d, text) == Meta(d, 1, text)
Name(text) == Meta(0, 3, text)

KoKai == <<224, 184, 129>>   \* U+0E01, three bytes of UTF-8; 161 in TIS-620

Texts == {<<65>>, <<Slash, Backslash, 65, Slash>>, <<65, CR, LF, 66, LF>>, <<CR, CR>>,
          KoKai, <<161, 65>>, <<65, 224, 184>>, <<7>>, <<>>, <<At, 84, 65>>}

LyricTracks == {Lyric(0, s) \o Lyric(2, t) \o End(1) : s \in {<<65>>, <<LF>>}, t \in Texts}

WordTracks(names, first) ==
    {Name(n) \o Line(0, s) \o Line(1, t) \o End(0) : n \in names, s \in first, t \in Texts}

Songs == {File(<<t>>) : t \in LyricTracks \cup WordTracks({Words}, {<<At, 84, 65, 66>>})}

OtherSongs ==
    {File(<<t>>) : t \in WordTracks({Words}, {<<Slash, 66>>})
                         \cup WordTracks({<<32, 76>> \o Tail(Lyrics) \o <<9>>, <<65>>}, {<<65>>})}
    \cup {File(<<s, t>>) : s \in {SetTempo(1, 7) \o End(0), Lyric(1, <<66>>) \o End(0)},
                           t \in {Lyric(1, <<65>>) \o End(0), Name(Words) \o Line(1, <<65>>) \o End(0)}}

MCFiles == TempoFiles \cup OddFiles \cup BrokenFiles \cup Songs \cup OtherSongs

Option(e, n, c, t, b, k) ==
    [encoding |-> e, sourceBytes |-> n, cues |-> c, titleBytes |-> t, stagedBytes |-> b, track |-> k]

Large == Option("Utf8", 9, 9, 9, 60, None)

MCOptions(f) ==
    CASE f \in Songs ->
            {Large, Option("Tis620", 9, 9, 9, 60, 1), Option("Utf8", 9, 9, 1, 60, None),
             Option("Utf8", 3, 9, 9, 60, None), Option("Utf8", 9, 1, 9, 60, None)}
            \cup {Option("Utf8", 9, 9, 9, b, None) : b \in 14..19}
      [] f \in OtherSongs -> {Large, Option("Utf8", 9, 9, 9, 60, 2)}
      [] OTHER -> {Large}
=============================================================================
