---------------------------- MODULE MCStreamLine ----------------------------
\* Cases: every converter and every record type, with values at the limits of
\* their types and of the formats.
EXTENDS StreamLine

F(conv, flags, width, prec, info) ==
    [conv |-> conv, flags |-> flags, width |-> width, prec |-> prec, info |-> info]
Plain(conv) == F(conv, {}, 0, -1, <<>>)
Format(fmt) == [kind |-> "format", fmt |-> fmt, byte |-> 0]
Field(fmt) == [kind |-> "field", fmt |-> fmt, byte |-> 0]
Literal(b) == [kind |-> "byte", fmt |-> Plain("d"), byte |-> b]
SkipToken == [kind |-> "skip", fmt |-> Plain("d"), byte |-> 0]
WhiteToken == [kind |-> "white", fmt |-> Plain("d"), byte |-> 0]

\* A record of a kind with all the fields that some kind uses.
Fields(kind) ==
    [kind |-> kind, val |-> 0, rval |-> 0, oval |-> 0, osv |-> <<>>, sval |-> <<>>, rbv |-> 0,
     mask |-> 0, shft |-> 0, sdef |-> FALSE, states |-> <<>>, linr |-> FALSE, aslo |-> 0, aoff |-> 0,
     mlst |-> 0, alst |-> 0, oraw |-> 0, orbv |-> 0, seen |-> 0, archived |-> 0,
     size |-> 6, len |-> 0, nelm |-> 3, ftvl |-> "SHORT",
     field |-> [kind |-> "waveform", own |-> FALSE, ftvl |-> "SHORT", nelm |-> 2, size |-> 6,
                val |-> <<>>, alarm |-> FALSE]]
StringFields(kind) == [Fields(kind) EXCEPT !.val = <<>>, !.oval = <<>>, !.seen = <<>>, !.archived = <<>>]
ArrayFields(kind, ftvl) == [StringFields(kind) EXCEPT !.ftvl = ftvl]
Case(out, in, sep, sent, blank) ==
    [out |-> out, in |-> in, sep |-> sep, extra |-> FALSE, init |-> FALSE, noisy |-> FALSE,
     sent |-> sent, blank |-> blank]

\* Integers: 16 bits, through a longin record.
Integers16 == {-32768, -129, -10, -1, 0, 1, 9, 10, 99, 127, 128, 255, 4660, 32767}
IntegerFormats ==
    {F(c, fl, w, -1, <<>>) : c \in StdLong, fl \in {{}, {"0"}, {"-"}, {"+"}, {" "}, {"#"}, {"+", "0"}}, w \in {0, 7}}
    \cup {F(c, fl, 0, p, <<>>) : c \in {"d", "x"}, fl \in {{}, {"#"}}, p \in {1, 6}}
    \cup {F("b", fl, w, p, <<48, 49>>) : fl \in {{}, {"#"}, {"0"}, {"-"}, {"#", "-"}, {"#", "0"}, {"#", "0", "-"}},
                                         w \in {0, 18}, p \in {-1, 16}}
    \cup {F("r", fl, w, p, <<>>) : fl \in {{}, {"0"}, {"#"}, {"#", "0"}}, w \in {0, 2, 4}, p \in {-1, 2}}
    \cup {F("D", fl, w, p, <<>>) : fl \in {{}, {"+"}, {"#"}}, w \in {0, 3}, p \in {-1, 5}}
ScanOf(fmt) ==
    CASE fmt.conv \in StdLong \cup {"f", "s"} -> [fmt EXCEPT !.prec = -1, !.width = 0]
      [] fmt.conv = "b" -> [fmt EXCEPT !.width = 0]
      [] fmt.conv = "r" -> [fmt EXCEPT !.width = Higher(@, IF fmt.prec < 0 THEN 1 ELSE Lower(fmt.prec, LongBytes))]
      [] fmt.conv = "D" -> [fmt EXCEPT !.width = ((IF fmt.prec < 0 THEN 2 * LongBytes ELSE fmt.prec)
                                                   + (IF "+" \in fmt.flags THEN 2 ELSE 1)) \div 2]
      [] OTHER -> fmt
IntegerCases ==
    {Case(<<Format(f)>>, <<Format(ScanOf(f)), WhiteToken>>, <<>>, [Fields("longin") EXCEPT !.val = v], Fields("longin")) :
        f \in IntegerFormats, v \in Integers16}

\* Doubles, in tenths, through an ai record with a slope and an offset.
DoubleFormats ==
    {F("f", fl, w, p, <<>>) : fl \in {{}, {"+"}, {" "}, {"0"}, {"-"}}, w \in {0, 8}, p \in {-1, 1, 3}}
    \cup {F("m", fl, w, p, <<>>) : fl \in {{}, {"+"}, {"-"}, {" "}}, w \in {0, 12}, p \in {-1, 4, 6}}
    \cup {F("R", fl, w, -1, <<>>) : fl \in {{}, {"#"}}, w \in {0, 4, 8}}
DoubleCases ==
    {Case(<<Format(f)>>, <<Format(ScanOf(f)), WhiteToken>>, <<>>,
          [Fields("ai") EXCEPT !.val = v, !.aslo = s, !.aoff = 10],
          [Fields("ai") EXCEPT !.aslo = s, !.aoff = 10]) :
        f \in DoubleFormats, v \in {-1230, -10, 0, 10, 12, 1000, 9990}, s \in {0, 2}}

\* Strings of at most 5 bytes, white space among them.
a == 97
b == 98
Texts == {<<>>, <<a>>, <<a, b>>, <<b, 32, a>>, <<32, a>>, <<a, b, a, b, a>>}
StringFormats ==
    {F("s", fl, w, p, <<>>) : fl \in {{}, {"-"}, {"#"}, {"0"}}, w \in {0, 3, 5}, p \in {-1, 5}}
StringScans(fmt) ==
    {ScanOf(fmt), F("c", {}, 7, -1, <<>>), F("[", {}, 0, -1, Charset(FALSE, {a, b})),
     F("/", {}, 0, 1, [set |-> {a, b, 32}, empty |-> FALSE, subst |-> <<>>])}
StringCases ==
    {Case(<<Format(f)>>, <<Format(g)>>, <<>>, [StringFields(kind) EXCEPT !.val = v], StringFields(kind)) :
        f \in StringFormats, g \in UNION {StringScans(x) : x \in StringFormats}, v \in Texts,
        kind \in {"stringin", "lsi"}}

\* The record types, each with the formats it takes. The second choice of the
\* enum has a number of its own, the last one an escaped skip.
Enum == F("{", {"#"}, 0, -1,
          [choices |-> EnumChoices(<<[text |-> <<a>>, index |-> <<>>], [text |-> <<b>>, index |-> <<>>],
                                     [text |-> <<a, b>>, index |-> <<5>>]>>), default |-> <<>>])
Off == [value |-> 0, name |-> <<a>>]
On  == [value |-> 1, name |-> <<b>>]
States == {<<Off, On>>,
           <<[value |-> 2, name |-> <<a>>], [value |-> 0, name |-> <<b>>], [value |-> 3, name |-> <<a, b>>]>>}
Names == <<[value |-> 0, name |-> <<a>>], [value |-> 0, name |-> <<b>>]>>
Numbers == {Plain("d"), Plain("u"), F("x", {"0", "#"}, 6, -1, <<>>), F("r", {"0"}, 0, 2, <<>>)}
\* mbbi and bi records hold the RVAL that their VAL came from.
RawOf(r) == [r EXCEPT !.rval = IF r.kind = "bi" THEN (IF r.mask # 0 /\ r.val = 1 THEN r.mask ELSE r.val)
                               ELSE (IF r.sdef THEN AllStates(r)[r.val + 1].value ELSE r.val) * 2^r.shft]
Binaries == {RawOf([Fields(kind) EXCEPT !.val = v, !.states = <<Off, On>>, !.mask = m]) :
                kind \in {"bi", "bo"}, v \in {0, 1}, m \in {0, 4}}
MultiBits == {RawOf([Fields(kind) EXCEPT !.val = v, !.sdef = TRUE, !.states = st, !.mask = m, !.shft = s]) :
                 kind \in {"mbbi", "mbbo"}, v \in {0, 1}, st \in States \cup {Names}, m \in {0, 3}, s \in {0, 2}}
             \cup {RawOf([Fields(kind) EXCEPT !.val = v, !.mask = m, !.shft = s]) :
                      kind \in {"mbbi", "mbbo", "mbbiDirect", "mbboDirect"}, v \in {0, 1, 6}, m \in {0, 7}, s \in {0, 2}}
Longs == {[Fields(kind) EXCEPT !.val = v] : kind \in {"longin", "longout", "int64in", "int64out"}, v \in {0, 1, 5, 500}}
Analogs == {[Fields(kind) EXCEPT !.val = 10 * v, !.oval = 10 * v, !.rval = v, !.aslo = s] :
               kind \in {"ai", "ao"}, v \in {0, 5, 500}, s \in {0, 2}}
           \cup {[Fields(kind) EXCEPT !.val = 10 * v, !.oval = 10 * v] : kind \in {"calcout", "scalcout"}, v \in {0, 5, 500}}
BlankOf(r) == [r EXCEPT !.val = 0, !.rval = 0, !.oval = 0]
RecordCases ==
    {Case(<<Literal(a), Format(f)>>, <<SkipToken, Format(ScanOf(f))>>, <<>>, r, BlankOf(r)) :
        f \in Numbers \cup {Enum, Plain("s"), Plain("f")},
        r \in Binaries \cup MultiBits \cup Longs \cup Analogs}

\* Readback in an @init handler: the clients have seen the value 0 before.
InitCases == {[k EXCEPT !.init = TRUE] : k \in {c \in RecordCases : c.sent.kind \in Outputs}}
StringInitCases ==
    {[Case(<<Format(Plain("s"))>>, <<Format(Plain("s"))>>, <<>>,
           [StringFields(kind) EXCEPT !.val = <<a, b>>], StringFields(kind)) EXCEPT !.init = TRUE] :
        kind \in {"stringout", "lso"}}

\* Arrays with separators: "," and " , " and a skipped byte.
Comma == [kind |-> "byte", byte |-> 44]
Separators == {<<Comma>>, <<[kind |-> "white"], Comma>>}
ArrayValues == {<<>>, <<1>>, <<-5, 0>>, <<100, 2, 3>>}
ArrayCases ==
    {Case(<<Format(f)>>, <<Format(ScanOf(f))>>, sep, [ArrayFields(kind, t) EXCEPT !.val = v], ArrayFields(kind, t)) :
        kind \in Arrays, f \in {Plain("d"), F("d", {"+"}, 4, -1, <<>>)}, sep \in Separators, t \in {"SHORT", "CHAR"},
        v \in ArrayValues}
    \cup {Case(<<Format(Plain("f"))>>, <<Format(Plain("f"))>>, <<Comma>>,
               [ArrayFields("waveform", "DOUBLE") EXCEPT !.val = v], ArrayFields("waveform", "DOUBLE")) :
             v \in ArrayValues}
StringArrayCases ==
    {Case(<<Format(Plain("s"))>>, <<Format(F("[", {}, 0, -1, Charset(FALSE, {a, b})))>>, <<Comma>>,
          [ArrayFields("aai", "STRING") EXCEPT !.val = v], ArrayFields("aai", "STRING")) :
        v \in {<<>>, << <<a>>, <<b, a>> >>}}
CharArrayCases ==
    {Case(<<Format(Plain("s"))>>, <<Format(Plain("s"))>>, <<Comma>>,
          [ArrayFields(kind, "CHAR") EXCEPT !.val = v], ArrayFields(kind, "CHAR")) :
        kind \in {"aai", "aao"}, v \in {<<a, 0>>, <<a, b>>, <<a, b, 0>>}}
\* Fields of this and of another record, also where no value follows.
FieldCases ==
    {[Case(<<Field(Plain(c)), Literal(32)>>, <<Field(Plain(c)), WhiteToken>>, <<Comma>>,
          [Fields("longin") EXCEPT !.field.val = v, !.field.ftvl = t],
          [Fields("longin") EXCEPT !.field.own = own, !.field.ftvl = t]) EXCEPT !.extra = extra] :
        c \in {"d", "s"}, v \in {<<>>, <<1>>, <<97, 0>>}, own \in BOOLEAN, extra \in BOOLEAN, t \in {"SHORT", "CHAR"}}

\* Modifiers of input formats, comparison, and substitution.
Digit1 == [set |-> 49..57, empty |-> FALSE, subst |-> <<38, 48>>]
ModifierCases ==
    {[Case(<<Format(Plain("d"))>>, in, <<>>, [Fields("longin") EXCEPT !.val = v], [Fields("longin") EXCEPT !.val = 12])
        EXCEPT !.extra = extra] :
        v \in {0, 12, 345}, extra \in BOOLEAN,
        in \in {<<Format(F("d", {"*"}, 0, -1, <<>>))>>, <<Format(F("d", {"!"}, 2, -1, <<>>))>>,
                <<Format(F("d", {"="}, 0, -1, <<>>))>>, <<Format(F("r", {"*"}, 3, -1, <<>>))>>,
                <<Format(F("b", {"?"}, 0, -1, <<a, b>>)), Format(Plain("d"))>>,
                <<Format(F("/", {"#"}, 0, -1, Digit1)), Format(Plain("d"))>>,
                <<Format(F("/", {"#", "+"}, 2, 1, Digit1)), Format(Plain("d"))>>,
                <<Format(F("/", {"#", "-"}, 1, -1, Digit1)), Format(Plain("d"))>>}}

\* Checksums: of "123456789", and behind a value.
Text9 == <<49, 50, 51, 52, 53, 54, 55, 56, 57>>
Sum(name, flags) == F("<", flags, 0, -1, C!ChecksumInfo(FALSE, FALSE, name))
Literals(text) == [i \in DOMAIN text |-> Literal(text[i])]
CheckCases ==
    {Case(Append(Literals(Text9), Format(Sum(name, fl))), Append(Literals(Text9), Format(Sum(name, fl))), <<>>,
          Fields("longin"), Fields("longin")) : name \in DOMAIN C!checksumMap, fl \in {{}, {"#"}, {"0"}, {"-"}, {"+"}}}
NoisyCases ==
    {[Case(<<Format(Plain("d")), Literal(a), Format(Sum(name, fl))>>, <<Format(Plain("d")), Literal(a), Format(Sum(name, fl))>>,
           <<>>, [Fields("longin") EXCEPT !.val = v], Fields("longin")) EXCEPT !.noisy = TRUE] :
        name \in {"sum8", "nsum16", "xor8", "crc8", "ccitt8", "crc16", "crc16r", "modbus", "ccitt16", "crc32",
                  "crc32r", "adler32", "lrc"},
        fl \in {{}, {"#"}, {"0"}, {"0", "#"}, {"-"}}, v \in {7, -210}}

MCCases == <<IntegerCases, DoubleCases, StringCases, RecordCases, InitCases, StringInitCases, ArrayCases,
             StringArrayCases, CharArrayCases, FieldCases, ModifierCases, CheckCases, NoisyCases>>
MCNoise == {0, 32, 49, 97, 255}
=============================================================================
