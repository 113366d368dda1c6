----------------------------- MODULE StreamLine -----------------------------
(***************************************************************************)
(* One "out" and one "in" command on a line of text: formatOutput() prints *)
(* the elements of the protocol, the line crosses the bus, where noise may *)
(* change a byte of it, and matchInput() reads it back into a record of    *)
(* the same kind (StreamCore.cc, with formatValue() and matchValue() of    *)
(* StreamEpics.cc, the converters of Formats and Checksums and the record  *)
(* types of RecordFields).                                                 *)
(*                                                                         *)
(* A case is a record: out and in, the elements of the two commands, sep,  *)
(* the separator, extra, whether ExtraInput is ignored, init, whether the  *)
(* commands belong to the @init handler, sent, the record that is written, *)
(* and blank, the record that is read into.                                *)
(***************************************************************************)
EXTENDS RecordFields
LOCAL INSTANCE SequencesExt
C == INSTANCE Checksums

CONSTANTS Cases,       \* a sequence of sets of cases
          Noise        \* the bytes that noise puts in place of another

VARIABLES case, phase, line, damaged, record, answer
vars == <<case, phase, line, damaged, record, answer>>

\* An element of a command: [kind, ...] with kind "byte", "skip", "white",
\* "format" or "field" (a format with a field of this or another record).
White32 == 32

(***************************************************************************)
(* formatOutput()                                                          *)
(***************************************************************************)
\* printSeparator(): not in front of the first value. A space stands for any
\* white space, and a skip token prints nothing.
Separator(sep) ==
    FlattenSeq([i \in DOMAIN sep |-> CASE sep[i].kind = "byte" -> <<sep[i].byte>>
                                       [] sep[i].kind = "white" -> <<White32>>
                                       [] OTHER -> <<>>])

\* printValue() for one value after the other, until one fails.
Printed(s, text) == IF text = Failed THEN [s EXCEPT !.ok = FALSE] ELSE [s EXCEPT !.out = text]
PrintValues(sep, fmt, values, out) ==
    FoldLeft(LAMBDA s, i :
                 IF ~s.ok THEN s
                 ELSE Printed(s, PrintTo(s.out \o (IF i = 1 THEN <<>> ELSE Separator(sep)), fmt, values[i])),
             [ok |-> TRUE, out |-> out], [i \in DOMAIN values |-> i])

\* formatValue() with a field address: dbGet() and the elements.
FieldValues(field, type) ==
    IF type = "string" /\ field.ftvl \in {"CHAR", "UCHAR"}
    THEN Values(<< ArrayText(field) >>) ELSE WriteArray(field, type)

PrintData(k, fmt, data, out) ==
    IF data.ok THEN PrintValues(k.sep, fmt, data.values, out) ELSE [ok |-> FALSE, out |-> out]
FormatValue(k, e, out) ==
    LET type == FormatType(e.fmt, FALSE)
    IN  PrintData(k, e.fmt, IF e.kind = "field" THEN FieldValues(k.sent.field, type)
                            ELSE WriteData(k.sent, type, k.init), out)

PrintPseudo(fmt, out) ==
    IF fmt.conv = "<" THEN out \o C!PrintChecksum(fmt, out) ELSE Substitute(fmt, out, 0)

FormatElement(k, s, e) ==
    CASE ~s.ok -> s
      [] s.ok /\ e.kind = "byte" -> [s EXCEPT !.out = Append(@, e.byte)]
      [] s.ok /\ e.kind = "white" -> [s EXCEPT !.out = Append(@, White32)]
      [] s.ok /\ e.kind = "skip" -> s
      [] OTHER -> IF FormatType(e.fmt, FALSE) = "pseudo"
                  THEN [s EXCEPT !.out = PrintPseudo(e.fmt, @)]
                  ELSE FormatValue(k, e, s.out)
FormatOutput(k) ==
    FoldLeft(LAMBDA s, e : FormatElement(k, s, e), [ok |-> TRUE, out |-> <<>>], k.out)

(***************************************************************************)
(* matchInput(). The state of the match: n bytes of the text are consumed, *)
(* delta is how much longer than the line rewriting has made the text, rec *)
(* is the record so far, garbage what an uninitialised byte of the checksum*)
(* converter holds.                                                        *)
(***************************************************************************)
\* matchSeparator(): the new position, -1 where the separator is not found. It
\* may be behind the end of the text.
MatchSeparator(sep, text, from) ==
    LET match(j, e) == CASE j < 0 -> -1
                         [] j >= 0 /\ e.kind = "skip" -> j + 1
                         [] j >= 0 /\ e.kind = "white" -> j + Leading(Rest(text, j), White)
                         [] OTHER -> IF Byte(text, j + 1) = e.byte THEN j + 1 ELSE -1
    IN  FoldLeft(match, from, sep)

\* scanValue(): n is the length of the value, -1 on failure, v the value, size
\* what a string format has written, and at where the value begins: matching
\* the separator moves on even where no value follows.
ValueFound(fmt, type, at, end, found, size) ==
    LET failed == found.n < 0
        r == IF failed THEN Scanned(0, IF type = "string" THEN <<>> ELSE 0) ELSE found
        asked == IF type = "double" THEN fmt.width + fmt.prec + 1 ELSE fmt.width
        wrong == \/ failed /\ "?" \notin fmt.flags
                 \/ "!" \in fmt.flags /\ r.n # asked
                 \/ at + r.n > end
        written == IF type # "string" THEN 0 ELSE IF failed THEN size ELSE Len(r.v) + 1
    IN  [n |-> IF wrong THEN -1 ELSE r.n, v |-> r.v, at |-> at, size |-> written]
ScanAt(fmt, type, text, from, at, size) ==
    IF at < 0 THEN [n |-> -1, v |-> IF type = "string" THEN <<>> ELSE 0, at |-> from, size |-> 0]
    ELSE ValueFound(fmt, type, at, Len(text), ScanFrom(Rest(text, at), fmt, size), size)
ScanValue(k, fmt, type, text, from, first, size) ==
    ScanAt(fmt, type, text, from, IF first THEN from ELSE MatchSeparator(k.sep, text, from), size)

\* A mutant: no conversion to the element type.
MutStored(r, type, v) == v
\* An element of an array as its type stores it.
Stored(r, type, v) ==
    CASE r.ftvl \in {"CHAR", "UCHAR"} -> v % 256
      [] r.ftvl = "DOUBLE" /\ type # "double" -> 10 * v
      [] OTHER -> v
ArrayTakes(r, type) ==
    CASE type = "double" -> r.ftvl = "DOUBLE"
      [] type = "string" -> r.ftvl \in {"STRING", "CHAR", "UCHAR"}
      [] OTHER -> r.ftvl # "STRING"

\* The elements until one does not match or the array is full: the values and
\* the position behind them. (A separator without a value is consumed.)
TakeElement(s, r, type, x) ==
    IF x.n < 0 THEN [s EXCEPT !.n = x.at, !.done = TRUE]
    ELSE [s EXCEPT !.n = x.at + x.n, !.values = Append(@, Stored(r, type, x.v))]
ScanElements(k, fmt, type, text, from, r) ==
    FoldLeft(LAMBDA s, i :
                 IF s.done THEN s
                 ELSE TakeElement(s, r, type, ScanValue(k, fmt, type, text, s.n, i = 1, r.size)),
             [values |-> <<>>, n |-> from, done |-> FALSE], [i \in 1..r.nelm |-> i])

\* readData() of the arrays: the position behind what was read, or -1. A
\* character array takes one string.
TakesText(r, type) == type = "string" /\ r.ftvl # "STRING"
ReadText(r, x) == [n |-> IF x.n < 0 THEN -1 ELSE x.at + x.n,
                   rec |-> [r EXCEPT !.val = Cut(Append(x.v, 0), x.size)]]
ReadElements(r, all) == [n |-> IF all.values = <<>> THEN -1 ELSE all.n,
                         rec |-> [r EXCEPT !.val = all.values]]
ArrayRead(read, initRun) == IF read.n >= 0 /\ read.rec.kind = "aao"
                            THEN [read EXCEPT !.rec = AaoRead(@, initRun)] ELSE read
ReadArray(k, fmt, type, text, from, r, initRun) ==
    ArrayRead(CASE ~ArrayTakes(r, type) -> [n |-> -1, rec |-> r]
                [] ArrayTakes(r, type) /\ TakesText(r, type)
                     -> ReadText(r, ScanValue(k, fmt, type, text, from, TRUE, r.nelm))
                [] OTHER -> ReadElements(r, ScanElements(k, fmt, type, text, from, r)), initRun)

\* matchValue(): the record reads its value with readData().
Reads(s, ok, n, new) == IF ok THEN [s EXCEPT !.n = n, !.rec = new] ELSE [s EXCEPT !.ok = FALSE]
ReadsValue(s, n, new) == Reads(s, new # Refused, n, new)
ReadsScanned(k, s, type, x) ==
    IF x.n < 0 THEN [s EXCEPT !.ok = FALSE]
    ELSE ReadsValue(s, x.at + x.n, ReadData(s.rec, type, x.v, x.size, k.init))
\* With a field address the elements go to the field in one dbPut(). A character
\* array is put even where the string does not match.
PutField(s, chars, read) ==
    CASE read.n >= 0 -> [s EXCEPT !.n = read.n, !.rec.field = read.rec]
      [] read.n < 0 /\ chars -> [s EXCEPT !.rec.field.val = Repeat(0, s.rec.field.nelm)]
      [] OTHER -> [s EXCEPT !.ok = FALSE, !.rec.field.alarm = ~s.rec.field.own]
PutArray(s, type, field, read) ==
    IF field THEN PutField(s, TakesText(s.rec.field, type), read)
    ELSE Reads(s, read.n >= 0, read.n, read.rec)
MatchValue(k, e, s) ==
    LET type == FormatType(e.fmt, TRUE)
        field == e.kind = "field"
    IN  IF field \/ s.rec.kind \in Arrays
        THEN PutArray(s, type, field,
                      ReadArray(k, e.fmt, type, s.text, s.n, IF field THEN s.rec.field ELSE s.rec,
                                k.init /\ ~field))
        ELSE ReadsScanned(k, s, type, ScanValue(k, e.fmt, type, s.text, s.n, TRUE, StringSize(s.rec)))

\* Values that are skipped, checksums and substitutions.
Skipped(s, e, consumed, text) ==
    IF consumed < 0 /\ "?" \notin e.fmt.flags THEN [s EXCEPT !.ok = FALSE]
    ELSE [s EXCEPT !.n = @ + Higher(consumed, 0), !.text = text,
                   !.delta = @ + Len(text) - Len(s.text)]
Skip(k, e, s) ==
    LET type == FormatType(e.fmt, TRUE)
    IN  Skipped(s, e, CASE type = "pseudo" -> 0
                        [] type = "original" -> C!ScanChecksum(e.fmt, s.line, s.n - s.delta, s.garbage)
                        [] OTHER -> ScanFrom(Rest(s.text, s.n), e.fmt, 0).n,
                IF type = "pseudo" THEN Substitute(e.fmt, s.text, s.n) ELSE s.text)

\* A format with "=": the value of the record must come back.
SameText(s, own) ==
    IF own.ok /\ Cut(Rest(s.text, s.n), Len(own.out)) = own.out
    THEN [s EXCEPT !.n = @ + Len(own.out)] ELSE [s EXCEPT !.ok = FALSE]
Compare(k, e, s) ==
    SameText(s, FormatValue([k EXCEPT !.sent = s.rec], [e EXCEPT !.fmt.flags = @ \ {"="}], <<>>))

MatchElement(k, s, e) ==
    LET type == FormatType(e.fmt, TRUE)
        next == Byte(s.text, s.n + 1)
    IN  CASE ~s.ok -> s
          [] s.ok /\ e.kind = "byte" -> IF s.n < Len(s.text) /\ next = e.byte
                                        THEN [s EXCEPT !.n = @ + 1] ELSE [s EXCEPT !.ok = FALSE]
          [] s.ok /\ e.kind = "skip" -> [s EXCEPT !.n = Higher(@, Lower(@ + 1, Len(s.text)))]
          [] s.ok /\ e.kind = "white" -> [s EXCEPT !.n = @ + Leading(Rest(s.text, @), White)]
          [] s.ok /\ e.kind \in {"format", "field"} ->
                IF "*" \in e.fmt.flags \/ type \in {"pseudo", "original"} THEN Skip(k, e, s)
                ELSE IF "=" \in e.fmt.flags THEN Compare(k, e, s)
                ELSE MatchValue(k, e, s)

\* Bytes behind the last element are an error unless ExtraInput = Ignore.
AtEnd(k, s) == [s EXCEPT !.ok = @ /\ (s.n = Len(s.text) \/ k.extra)]
MatchInput(k, text, garbage) ==
    AtEnd(k, FoldLeft(LAMBDA x, e : MatchElement(k, x, e),
                      [ok |-> TRUE, n |-> 0, line |-> text, text |-> text, delta |-> 0,
                       garbage |-> garbage, rec |-> InitRecord(k.blank)], k.in))

(***************************************************************************)
(* The machine.                                                            *)
(***************************************************************************)
\* The record that is written: processed before.
Sent == Prepare(InitRecord(case.sent))

NoAnswer == [ok |-> FALSE, n |-> 0]
Init == /\ \E i \in DOMAIN Cases : case \in Cases[i]
        /\ phase = "idle"
        /\ line = <<>>
        /\ damaged = FALSE
        /\ record = case.blank
        /\ answer = NoAnswer

\* evalOut(): a value that cannot be printed ends the protocol.
Sending(printed) == /\ line' = printed.out
                    /\ phase' = IF printed.ok THEN "sent" ELSE "failed"
Write == /\ phase = "idle"
         /\ Sending(FormatOutput([case EXCEPT !.sent = Sent]))
         /\ UNCHANGED <<case, damaged, record, answer>>

\* One byte is changed on its way.
Disturb == /\ phase = "sent"
           /\ case.noisy /\ ~damaged
           /\ \E i \in DOMAIN line, b \in Noise :
                 /\ line[i] # b
                 /\ line' = [line EXCEPT ![i] = b]
           /\ damaged' = TRUE
           /\ UNCHANGED <<case, phase, record, answer>>

Answer(match) == /\ record' = match.rec
                 /\ answer' = [ok |-> match.ok, n |-> match.n]
Read == /\ phase = "sent"
        /\ \E garbage \in IF case.noisy THEN Noise ELSE {0} : Answer(MatchInput(case, line, garbage))
        /\ phase' = "read"
        /\ UNCHANGED <<case, line, damaged>>

\* The record is processed again.
Again == /\ phase \in {"read", "failed"}
         /\ phase' = "idle"
         /\ line' = <<>>
         /\ damaged' = FALSE
         /\ record' = case.blank
         /\ answer' = NoAnswer
         /\ UNCHANGED case

Next == Write \/ Disturb \/ Read \/ Again
Spec == Init /\ [][Next]_vars

(***************************************************************************)
(* Properties.                                                             *)
(***************************************************************************)
Bytes == 0..255

\* The line consists of bytes, an array never has more elements than NELM, the
\* elements of a character array are bytes, and no string overruns its field.
TypeOK ==
    /\ phase \in {"idle", "sent", "read", "failed"}
    /\ \A i \in DOMAIN line : line[i] \in Bytes
    /\ damaged \in BOOLEAN
    /\ record.kind = case.blank.kind
    /\ record.kind \in Arrays =>
          /\ Len(record.val) <= record.nelm
          /\ record.ftvl = "CHAR" => \A i \in DOMAIN record.val : record.val[i] \in Bytes
    /\ record.kind \in {"stringin", "stringout", "lsi", "lso"} => Len(record.val) < record.size
    /\ answer.n \in Nat

\* The formats of values, and the values that are printed.
ValueFormats(elements, in) ==
    {e.fmt : e \in {x \in ToSet(elements) :
                       x.kind = "format" /\ FormatType(x.fmt, in) \notin {"pseudo", "original"}}}
Written(f) == WriteData(Sent, FormatType(f, FALSE), case.init).values

\* What a format keeps of a number. %i reads the zeros that it fills with as an
\* octal number, %r and %D keep prec bytes and digits, a little endian %r no more
\* than a long, and little endian %D loses every second digit. An enum string
\* that begins with an earlier one is read as that one.
NumberFits(f, v) ==
    LET bytes == Lower(Higher(f.prec, 1), LongBytes)
        digits == IF f.prec < 0 THEN 2 * LongBytes ELSE f.prec
    IN  CASE f.conv = "i" -> "0" \notin f.flags \/ f.width = 0
          [] f.conv = "r" ->
                /\ "#" \in f.flags => f.width <= LongBytes
                /\ \/ bytes = LongBytes
                   \/ v \in IF "0" \in f.flags THEN 0..256^bytes - 1
                           ELSE -(256^bytes \div 2)..(256^bytes \div 2) - 1
          [] f.conv = "D" -> /\ "#" \notin f.flags
                             /\ "+" \notin f.flags => v >= 0
                             /\ Magnitude(v) < Lower(10^digits, Size \div 2)
          [] f.conv = "{" ->
                \A i, j \in DOMAIN f.info.choices :
                    f.info.choices[j].index = v /\ i < j =>
                        ~IsPrefix(f.info.choices[i].text, f.info.choices[j].text)
          [] OTHER -> TRUE

\* What a pair of formats keeps of a string: nothing may be padded or cut. White
\* space in front is never kept by %s, white space inside with the "#" flag.
TextFits(f, g, v) ==
    /\ f.width = 0
    /\ f.prec < 0 \/ f.prec >= Len(v)
    /\ CASE g.conv = "s" -> /\ "#" \notin g.flags => ToSet(v) \cap White = {}
                            /\ Byte(v, 1) \notin White
         [] g.conv = "[" -> ToSet(v) \subseteq g.info
         [] g.conv = "/" -> v # <<>>
         [] OTHER -> TRUE

\* What a record keeps. Its integer types take no fraction, a state needs a name
\* of its own, and an mbbo whose states have names but no values reads 65535. An
\* empty array prints nothing, which does not match.
RecordFits(r, type) ==
    /\ type = "double" => r.kind \in {"ai", "ao", "calcout", "scalcout"} \cup Arrays
    /\ type = "enum" => r.kind \notin {"ai", "ao", "mbbiDirect", "mbboDirect"}
    /\ r.kind \in Arrays => r.val # <<>>
    /\ r.kind \in {"ai", "ao"} /\ type # "double" => r.val % (10 * Higher(r.aslo, 1)) = 0
    /\ r.kind \in {"mbbi", "mbbo"} /\ type = "string" => r.val < Len(r.states)
    /\ r.kind = "mbbo" /\ r.sdef /\ type # "string" => UsesValues(r)
    /\ r.kind = "scalcout" => type # "string"
Faithful ==
    /\ case.in # <<>> /\ \A e \in ToSet(case.in) : e.kind # "field" /\ e.fmt.flags \cap ScanOnly = {}
    /\ \A g \in ToSet(case.in) : g.fmt.conv = "/" => "#" \notin g.fmt.flags
    /\ \A f \in ValueFormats(case.out, FALSE), g \in ValueFormats(case.in, TRUE) :
          LET type == FormatType(g, TRUE)
          IN  /\ RecordFits(Sent, type)
              /\ \A v \in ToSet(Written(f)) : IF type = "string" THEN TextFits(f, g, v) ELSE NumberFits(f, v)

\* Elements of a CHAR array are signed, and its strings end at the first zero.
Content(r) == IF r.kind \in Arrays /\ r.ftvl = "CHAR" THEN CString(r.val) ELSE r.val
Unsigneds(r) == IF r.kind \in Arrays /\ r.ftvl = "CHAR" THEN [r EXCEPT !.val = [i \in DOMAIN @ |-> @[i] % 256]]
                ELSE r

\* Whatever a record writes with a format it reads back with the same format,
\* to the last byte of the line, unless the format or the record cannot keep it
\* (print and scan methods of all converters, separators, and writeData() and
\* readData() of all record types).
ReadsBack ==
    phase = "read" /\ ~damaged /\ Faithful =>
        answer.ok /\ Content(record) = Content(Unsigneds(Sent))

\* An input with a checksum that has one byte changed on its way does not match:
\* the checksum covers the whole line up to it, and the number of bytes that
\* scanPseudo() compares is the number printPseudo() wrote. Two texts of one
\* hexadecimal number are the same, and with the most significant byte first
\* ChecksumConverter.cc:945 ignores what sscanf() returns.
DamageDetected ==
    LET sums == {e.fmt : e \in {x \in ToSet(case.in) : x.kind = "format" /\ x.fmt.conv = "<"}}
    IN  phase = "read" /\ damaged /\ (\A f \in sums : "0" \notin f.flags) => ~answer.ok

\* Every checksum of "123456789" is the one that checksumMap states behind the
\* algorithm (ChecksumConverter.cc:643-680).
CheckValues ==
    phase = "sent" /\ ~damaged =>
        \A i \in DOMAIN case.out :
            LET f == case.out[i].fmt
                chk == C!BytesOf(C!checksumMap[f.info.name].chk, C!checksumMap[f.info.name].bytes)
            IN  case.out[i].kind = "format" /\ f.conv = "<" /\ f.flags \subseteq {"#"}
                  /\ Cut(line, i - 1) = [d \in 1..9 |-> 48 + d] =>
                    Rest(line, 9) = IF "#" \in f.flags THEN chk ELSE Reverse(chk)

\* When an output record reads its value in the @init handler, where no record
\* processing follows, the monitors and the archivers of the record learn the
\* value that it then holds. scalcout tells nobody, and calcout compares with
\* MLST, which it has just set, before it tells the archivers
\* (devcalcoutStream.c:62).
ClientsTold ==
    phase = "read" /\ case.init /\ answer.ok /\ record.kind # "scalcout" =>
        /\ record.seen = record.val
        /\ record.kind # "calcout" => record.archived = record.val
=============================================================================
