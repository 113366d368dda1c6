------------------------------ MODULE Formats ------------------------------
(***************************************************************************)
(* The format converters (StreamFormatConverter.cc and *Converter.cc) as   *)
(* functions: what Print appends to the output for a value, and how many   *)
(* bytes of the input Scan takes for which value. A format is a record     *)
(* [conv, flags, width, prec, info] of what parseFormat() and parse() left.*)
(*                                                                         *)
(* Bytes are their codes and a text is a sequence of bytes; reading behind *)
(* its end gives 0, the end mark. A double is an integer, its value in     *)
(* tenths. A long has LongBytes bytes. The C library functions (printf,    *)
(* strtoul, strtod) are modelled where they decide about a value.          *)
(***************************************************************************)
EXTENDS Integers, Sequences, FiniteSets
LOCAL INSTANCE SequencesExt

CONSTANT LongBytes
ASSUME LongBytesAssumption == LongBytes \in 1..3    \* TLC computes with 32 bits

Size == 256^LongBytes
Unsigned(v) == v % Size
Signed(v) == IF Unsigned(v) >= Size \div 2 THEN Unsigned(v) - Size ELSE Unsigned(v)
Magnitude(v) == IF v < 0 THEN -v ELSE v
Lower(a, b) == IF a < b THEN a ELSE b
Higher(a, b) == IF a > b THEN a ELSE b

Byte(s, i) == IF i \in DOMAIN s THEN s[i] ELSE 0
Rest(s, n) == SubSeq(s, n + 1, Len(s))
Cut(s, n) == SubSeq(s, 1, Lower(n, Len(s)))
Repeat(c, n) == [i \in 1..n |-> c]
CString(s) == LET stop == SelectInSeq(s, LAMBDA b : b = 0)
              IN  IF stop = 0 THEN s ELSE SubSeq(s, 1, stop - 1)
Leading(s, S) == LET stop == SelectInSeq(s, LAMBDA b : b \notin S)
                 IN  IF stop = 0 THEN Len(s) ELSE stop - 1

White == (9..13) \cup {32}
Digits == 48..57
DigitValue(c) == CASE c \in Digits -> c - 48
                   [] c \in 65..70 -> c - 55
                   [] c \in 97..102 -> c - 87
                   [] OTHER -> 16

\* The results of Print and Scan.
Failed == <<-1>>
Scanned(n, v) == [n |-> n, v |-> v]
NoMatch == Scanned(-1, 0)

(***************************************************************************)
(* printf().                                                               *)
(***************************************************************************)
RECURSIVE Numeral(_, _, _)
Numeral(n, base, letter) ==
    (IF n < base THEN <<>> ELSE Numeral(n \div base, base, letter))
    \o << IF n % base < 10 THEN 48 + (n % base) ELSE letter + (n % base) - 10 >>

Aligned(fmt, text) ==
    LET pad == Repeat(32, Higher(0, fmt.width - Len(text)))
    IN  IF "-" \in fmt.flags THEN text \o pad ELSE pad \o text

Sign(fmt, negative) == CASE negative -> <<45>>
                         [] ~negative /\ "+" \in fmt.flags -> <<43>>
                         [] ~negative /\ "+" \notin fmt.flags /\ " " \in fmt.flags -> <<32>>
                         [] OTHER -> <<>>

\* A prefix and digits; the zero flag fills between them.
Number(fmt, prefix, digits, zeros) ==
    Aligned(fmt, prefix \o (IF zeros /\ "0" \in fmt.flags /\ "-" \notin fmt.flags
                            THEN Repeat(48, Higher(0, fmt.width - Len(prefix) - Len(digits)))
                            ELSE <<>>) \o digits)

PrintfLong(fmt, v) ==
    LET signed == fmt.conv \in {"d", "i"}
        base == CASE fmt.conv = "o" -> 8 [] fmt.conv \in {"x", "X"} -> 16 [] OTHER -> 10
        n == IF signed THEN Magnitude(v) ELSE Unsigned(v)
        numeral == IF n = 0 /\ fmt.prec = 0 THEN <<>>
                   ELSE Numeral(n, base, IF fmt.conv = "X" THEN 65 ELSE 97)
        filled == Repeat(48, Higher(0, fmt.prec - Len(numeral))) \o numeral
        digits == IF "#" \in fmt.flags /\ fmt.conv = "o" /\ Byte(filled, 1) # 48
                  THEN <<48>> \o filled ELSE filled
        prefix == CASE signed -> Sign(fmt, v < 0)
                    [] "#" \in fmt.flags /\ base = 16 /\ n # 0
                         -> <<48, IF fmt.conv = "X" THEN 88 ELSE 120>>
                    [] OTHER -> <<>>
    IN  Number(fmt, prefix, digits, fmt.prec < 0)

PrintfDouble(fmt, v) ==
    LET prec == IF fmt.prec < 0 THEN 6 ELSE fmt.prec
        n == Magnitude(v)
        up == n % 10 > 5 \/ (n % 10 = 5 /\ (n \div 10) % 2 = 1)     \* half to even
        whole == IF prec = 0 /\ up THEN n \div 10 + 1 ELSE n \div 10
        fraction == IF prec = 0 THEN (IF "#" \in fmt.flags THEN <<46>> ELSE <<>>)
                    ELSE <<46, 48 + (n % 10)>> \o Repeat(48, prec - 1)
    IN  Number(fmt, Sign(fmt, v < 0), Numeral(whole, 10, 97) \o fraction, TRUE)

(***************************************************************************)
(* strtoul() and strtod(): white space, a sign, digits.                    *)
(***************************************************************************)
\* The position behind white space and a sign.
AfterSign(s, n) == n + (IF Byte(s, n + 1) \in {43, 45} THEN 1 ELSE 0)
AfterWhite(s) == AfterSign(s, Leading(s, White))

\* The digits from a position on. An overflow is saturated, whatever the sign.
DigitsFrom(s, from, radix, negative) ==
    LET digits == SubSeq(s, from + 1,
                         from + Leading(Rest(s, from), {c \in 48..102 : DigitValue(c) < radix}))
        sum == FoldLeft(LAMBDA n, c : IF n = Size \/ n * radix + DigitValue(c) >= Size THEN Size
                                      ELSE n * radix + DigitValue(c), 0, digits)
    IN  IF digits = <<>> THEN Scanned(0, 0)
        ELSE Scanned(from + Len(digits), CASE sum = Size -> Size - 1
                                           [] sum # Size /\ negative -> Unsigned(-sum)
                                           [] OTHER -> sum)

\* start: the position of the first digit or prefix.
StrtoulAt(s, start, base) ==
    LET hex == /\ base \in {0, 16} /\ Byte(s, start + 1) = 48
               /\ Byte(s, start + 2) \in {88, 120} /\ DigitValue(Byte(s, start + 3)) < 16
        radix == CASE base # 0 -> base
                   [] base = 0 /\ hex -> 16
                   [] base = 0 /\ ~hex /\ Byte(s, start + 1) = 48 -> 8
                   [] OTHER -> 10
    IN  DigitsFrom(s, IF hex THEN start + 2 ELSE start, radix, Byte(s, start) = 45)
Strtoul(s, base) == StrtoulAt(s, AfterWhite(s), base)

StrtodAt(s, start) ==                        \* without exponents, hex, inf and nan
    LET whole == Leading(Rest(s, start), Digits)
        point == start + whole + 1
        more == IF Byte(s, point) = 46 THEN Leading(Rest(s, point), Digits) ELSE 0
        n == FoldLeft(LAMBDA x, c : 10 * x + DigitValue(c), 0, SubSeq(s, start + 1, start + whole))
        v == 10 * n + (IF more > 0 THEN DigitValue(s[point + 1]) ELSE 0)
    IN  IF whole + more = 0 THEN Scanned(0, 0)
        ELSE Scanned(start + whole + (IF Byte(s, point) = 46 THEN 1 + more ELSE 0),
                     IF Byte(s, start) = 45 THEN -v ELSE v)
Strtod(s) == StrtodAt(s, AfterWhite(s))

(***************************************************************************)
(* Integers: %d %i %o %u %x %X, and doubles: %f.                           *)
(***************************************************************************)
\* prepareval(): skip white space and a sign, and keep to the width.
Limited(fmt, text, white) ==
    IF fmt.width > 0 THEN Cut(text, IF " " \in fmt.flags THEN fmt.width - white ELSE fmt.width)
    ELSE text
SkipSign(fmt, white, text) ==
    LET sign == AfterSign(text, 0)
    IN  [n |-> IF Byte(text, sign + 1) \in White /\ "#" \notin fmt.flags THEN -1 ELSE white + sign,
         neg |-> Byte(text, 1) = 45, rest |-> Rest(text, sign)]
PreparedAt(fmt, input, white) == SkipSign(fmt, white, Limited(fmt, CString(Rest(input, white)), white))
Prepared(fmt, input) == PreparedAt(fmt, input, Leading(input, White))

PrintStdLong(fmt, v) ==
    PrintfLong(fmt, IF fmt.width > 0 /\ fmt.conv \in {"x", "X"} /\ fmt.width < 2 * LongBytes
                    THEN Unsigned(v) % (16^fmt.width) ELSE v)

\* A number r that was found in what is left of the prepared input p.
Found(p, r) == IF p.n < 0 \/ r.n = 0 THEN NoMatch
               ELSE Scanned(p.n + r.n, IF p.neg THEN -r.v ELSE r.v)

LongFound(fmt, p) ==
    LET base == CASE fmt.conv \in {"d", "u"} -> 10 [] fmt.conv = "o" -> 8
                  [] fmt.conv \in {"x", "X"} -> 16 [] OTHER -> 0
    IN  IF p.neg /\ (fmt.conv = "u" \/ (fmt.conv \in {"o", "x", "X"} /\ "-" \notin fmt.flags))
        THEN NoMatch ELSE [Found(p, Strtoul(p.rest, base)) EXCEPT !.v = Signed(@)]
ScanStdLong(fmt, input) == LongFound(fmt, Prepared(fmt, input))

DoubleFound(p) == Found(p, Strtod(p.rest))
ScanStdDouble(fmt, input) == DoubleFound(Prepared(fmt, input))

(***************************************************************************)
(* Strings: %s %c %[. A scan copies no more than size - 1 bytes.           *)
(***************************************************************************)
\* append(0, n), where a negative n cuts the end; what is cut beyond the start
\* of the output comes back (see StreamBuffer's Truncate).
Zeros(out, n) ==
    CASE n >= 0 -> out \o Repeat(0, n)
      [] n < 0 /\ -n <= Len(out) -> SubSeq(out, 1, Len(out) + n)
      [] OTHER -> Rest(out, Higher(0, 2 * Len(out) + n))

PrintStdString(fmt, v, out) ==
    LET text == IF fmt.prec >= 0 THEN Cut(CString(v), fmt.prec) ELSE CString(v)
        n == fmt.width - Len(text)
    IN  CASE ~("0" \in fmt.flags /\ fmt.width > 0) -> out \o Aligned(fmt, text)
          [] "0" \in fmt.flags /\ fmt.width > 0 /\ "-" \notin fmt.flags -> Zeros(out, n) \o text
          [] OTHER -> Zeros(out \o text, n)

Copied(text, size) == Cut(text, size - 1)

\* kept is the white space in front that the " " flag keeps.
Word(fmt, text) == IF "#" \in fmt.flags THEN text ELSE SubSeq(text, 1, Leading(text, (1..255) \ White))
StringFound(white, kept, word, size) == Scanned(white + Len(word), Copied(kept \o word, size))
ScanStdStringAt(fmt, input, size, limit, white) ==
    LET keep == IF " " \in fmt.flags THEN white ELSE 0
    IN  StringFound(white, SubSeq(input, 1, keep),
                    Word(fmt, Cut(CString(Rest(input, white)), limit - keep)), size)
ScanStdString(fmt, input, size) ==
    LET limit == IF fmt.width = 0 THEN Len(input) ELSE fmt.width
    IN  ScanStdStringAt(fmt, input, size, limit,
                        Lower(Leading(input, White), IF " " \in fmt.flags THEN limit ELSE Len(input)))

ScanStdChars(fmt, input, size) ==
    LET text == Cut(CString(input), Higher(fmt.width, 1))
    IN  Scanned(Len(text), Copied(text, size))

\* The bytes that parse() leaves in the set: with [abc] the first byte of the
\* bit field is never filled, so that 1 to 7 are accepted as well.
Charset(negated, chars) == IF negated THEN (1..255) \ chars ELSE chars \cup (1..7)

ScanStdCharset(fmt, input, size) ==
    LET t == Cut(CString(input), IF fmt.width = 0 THEN Len(input) ELSE fmt.width)
        n == Leading(t, fmt.info)
    IN  Scanned(n, Copied(SubSeq(t, 1, n), size))

(***************************************************************************)
(* %r raw integers, %R raw floats.                                         *)
(***************************************************************************)
ByteOf(v, k) == (v \div (256^k)) % 256                 \* byte k, the lowest is 0
Ordered(fmt, low) == IF "#" \in fmt.flags THEN low ELSE Reverse(low)
\* A mutant: a char is taken for unsigned.
MutSignedByte(b) == b
SignedByte(b) == IF b >= 128 THEN b - 256 ELSE b

PrintRaw(fmt, v) ==
    LET asked == IF fmt.prec < 0 THEN 1 ELSE fmt.prec
        prec == Lower(asked, LongBytes)
        fill == IF "0" \notin fmt.flags /\ ByteOf(v, prec - 1) >= 128 THEN 255 ELSE 0
    IN  Ordered(fmt, [k \in 1..prec |-> ByteOf(v, k - 1)]
                     \o Repeat(fill, Higher(asked, fmt.width) - prec))

ScanRaw(fmt, input) ==
    LET width == Higher(fmt.width, 1)
        top(b) == IF "0" \in fmt.flags THEN b ELSE SignedByte(b)
        value(from, to, dir) ==             \* the highest byte first
            FoldLeft(LAMBDA x, k : Signed(256 * x + Byte(input, from + dir * (k - 1))),
                     top(Byte(input, from)), [k \in 1..to |-> k + 1])
        low == FoldLeft(LAMBDA x, k : x + Byte(input, k) * (256^(k - 1)), 0,
                        [k \in 1..LongBytes |-> k])
    IN  CASE "*" \in fmt.flags -> Scanned(width, 0)
          [] "*" \notin fmt.flags /\ "#" \notin fmt.flags
               -> Scanned(width, Signed(value(1, width - 1, 1)))
          [] "*" \notin fmt.flags /\ "#" \in fmt.flags /\ width <= LongBytes
               -> Scanned(width, Signed(value(width, width - 1, -1)))
          \* One byte more is shifted out of the long (undefined in C); still wider
          \* little endian numbers leave their last byte.
          [] OTHER -> Scanned(IF width = LongBytes + 1 THEN width ELSE width - 1, Signed(low))

\* The IEEE formats are external: bytes that tell the doubles apart.
Ieee(n, v) == <<(v % 65536) \div 256, v % 256>> \o Repeat(0, n - 2)
RawFloatBytes(fmt) == IF fmt.width = 0 THEN 4 ELSE fmt.width
PrintRawFloat(fmt, v) == Ordered(fmt, Reverse(Ieee(RawFloatBytes(fmt), v)))
ScanRawFloat(fmt, input) ==
    LET n == RawFloatBytes(fmt)
        bytes == Reverse(Ordered(fmt, [k \in 1..n |-> Byte(input, k)]))
    IN  Scanned(n, IF "*" \in fmt.flags THEN 0 ELSE 256 * SignedByte(bytes[1]) + bytes[2])

(***************************************************************************)
(* %D binary coded decimals.                                               *)
(***************************************************************************)
\* prec digits go into the bytes counted from the end of the output, so that
\* a width beyond them writes over what was there before.
PrintBCD(fmt, v, out) ==
    LET prec == IF fmt.prec < 0 THEN 2 * LongBytes ELSE fmt.prec
        bytes == (prec + (IF "+" \in fmt.flags THEN 2 ELSE 1)) \div 2
        width == Higher(bytes, fmt.width)
        minus == "+" \in fmt.flags /\ v < 0
        val == IF minus THEN -v ELSE Unsigned(v)
        digit(k) == IF k < prec THEN (val \div 10^k) % 10 ELSE 0
        len == Len(out) + bytes
        nth(i) == IF "#" \in fmt.flags THEN i - 1 - (len - width) ELSE len - i
        written(i) == nth(i) >= 0 /\ nth(i) < width /\ 2 * nth(i) < prec
        old(i) == IF i <= Len(out) THEN out[i] ELSE 0
        new(i) == IF written(i) THEN digit(2 * nth(i)) + 16 * digit(2 * nth(i) + 1) ELSE old(i)
        sign == IF "#" \in fmt.flags THEN len ELSE len - width + 1
    IN  [i \in 1..len |-> IF minus /\ i = sign THEN 240 + (new(i) % 16) ELSE new(i)]

\* Big endian stops in front of the first byte that is no number, little endian
\* behind it; little endian shifts the upper digit away.
ScanBCD(fmt, input) ==
    LET width == Higher(fmt.width, 1)
        one(i) == Byte(input, i) % 16
        minus == "+" \in fmt.flags /\ Byte(input, 1) >= 16
        ten(i) == IF i = 1 /\ minus THEN 0 ELSE Byte(input, i) \div 16
        bytes == [i \in 1..width |-> i]
        bad == SelectInSeq(bytes, LAMBDA i : one(i) > 9 \/ ("#" \notin fmt.flags /\ ten(i) > 9))
        good == IF bad = 0 THEN width ELSE bad - 1
        val[i \in 0..good] == IF i = 0 THEN 0 ELSE Signed(100 * val[i - 1] + 10 * ten(i) + one(i))
        low == FoldLeft(LAMBDA x, i : x + one(i) * (100^(i - 1)), 0, SubSeq(bytes, 1, good))
    IN  CASE "#" \in fmt.flags -> Scanned(Lower(good + 1, width), Signed(low))
          [] good = 0 \/ \E i \in 1..good : val[i] < val[i - 1] -> NoMatch
          [] OTHER -> Scanned(good, IF minus THEN -val[good] ELSE val[good])

(***************************************************************************)
(* %b and %B: info holds the characters for zero and one.                  *)
(***************************************************************************)
Bit(v, k) == (Unsigned(v) \div 2^k) % 2
SignificantBits(v) == CHOOSE n \in 1..8 * LongBytes :
                          /\ Unsigned(v) < 2^n
                          /\ n = 1 \/ Unsigned(v) >= 2^(n - 1)

PrintBinary(fmt, v) ==
    LET prec == IF fmt.prec = -1 THEN SignificantBits(v) ELSE fmt.prec
        low == [k \in 1..prec |-> fmt.info[1 + Bit(v, k - 1)]]
        fill == IF "0" \in fmt.flags THEN fmt.info[1] ELSE 32
        pad(c) == Repeat(c, Higher(0, fmt.width - prec))
        little == "#" \in fmt.flags
    IN  IF "-" \in fmt.flags
        THEN IF little THEN low \o pad(fill) ELSE Reverse(low) \o pad(32)
        ELSE IF little THEN pad(32) \o low ELSE pad(fill) \o Reverse(low)

ScanBinary(fmt, input) ==
    LET chars == {fmt.info[1], fmt.info[2]}
        white == IF chars \cap White = {} THEN Leading(input, White) ELSE 0
        run == Leading(Rest(input, white), chars)
        n == IF fmt.width = 0 THEN run ELSE Lower(run, fmt.width)
        text == SubSeq(input, white + 1, white + n)
        bits == IF "#" \in fmt.flags THEN Reverse(text) ELSE text
    IN  IF run = 0 THEN NoMatch
        ELSE Scanned(white + n,
                 Signed(FoldLeft(LAMBDA x, c : Unsigned(2 * x + (IF c = fmt.info[2] THEN 1 ELSE 0)),
                                 0, bits)))

(***************************************************************************)
(* %m: mantissa digits and a signed exponent.                              *)
(***************************************************************************)
\* n with its size digits as prec digits and an exponent. Without a point the
\* "e" goes first and then the last digit.
MantissaText(n, size, prec) ==
    LET kept == IF size <= prec THEN n * 10^(prec - size)
                ELSE LET unit == 10^(size - prec) IN (n + unit \div 2) \div unit
        carry == Len(Numeral(kept, 10, 97)) > prec
        exponent == IF n = 0 THEN 0 ELSE size - 1 - prec + (IF carry THEN 1 ELSE 0)
        mantissa == IF n = 0 THEN Repeat(48, prec)
                    ELSE Numeral(IF carry THEN kept \div 10 ELSE kept, 10, 97)
        power == << IF exponent < 0 THEN 45 ELSE 43, 48 + (Magnitude(exponent) \div 10),
                    48 + (Magnitude(exponent) % 10) >>
    IN  mantissa \o (IF prec = 1 THEN SubSeq(power, 1, 2) ELSE power)

PrintMantissa(fmt, v) ==
    LET n == Magnitude(v)
    IN  Aligned(fmt, Sign(fmt, v < 0)
                     \o MantissaText(n, Len(Numeral(n, 10, 97)), IF fmt.prec < 1 THEN 6 ELSE fmt.prec))

IntegerAt(s, start) ==                                  \* %d of sscanf()
    LET digits == Leading(Rest(s, start), Digits)
        m == FoldLeft(LAMBDA x, c : 10 * x + c - 48, 0, SubSeq(s, start + 1, start + digits))
    IN  IF digits = 0 THEN NoMatch ELSE Scanned(start + digits, IF Byte(s, start) = 45 THEN -m ELSE m)

Tenths(m, e) == IF e >= -1 THEN m * 10^(e + 1) ELSE m \div 10^(-e - 1)
Exponent(fmt, mantissa, exponent) ==
    IF mantissa.n < 0 \/ exponent.n < 0 THEN NoMatch
    ELSE Scanned(mantissa.n + exponent.n,
                 IF "*" \in fmt.flags THEN 0 ELSE Tenths(mantissa.v, exponent.v))

\* mantissa: what %d found in front of the exponent.
ScanExponent(fmt, mantissa, rest) == Exponent(fmt, mantissa, IntegerAt(rest, AfterWhite(rest)))
BehindMantissa(fmt, input, mantissa) == ScanExponent(fmt, mantissa, Rest(input, Higher(mantissa.n, 0)))
ScanMantissa(fmt, input) == BehindMantissa(fmt, input, IntegerAt(input, AfterWhite(input)))

(***************************************************************************)
(* %{ enums: info holds the choices, each with its number, and the text of *)
(* the default choice or <<>>. AnyByte is the skip token of a choice.          *)
(***************************************************************************)
AnyByte == 256

\* info.choices after parse(): the numbers count on from the last "=number".
EnumChoices(given) ==
    LET add(c, g) == Append(c, [text |-> g.text,
            index |-> CASE g.index # <<>> -> g.index[1]
                        [] g.index = <<>> /\ c = <<>> -> 0
                        [] OTHER -> c[Len(c)].index + 1])
    IN  FoldLeft(add, <<>>, given)

PrintEnum(fmt, v) ==
    LET k == SelectInSeq(fmt.info.choices, LAMBDA c : c.index = v)
    IN  CASE k # 0 -> fmt.info.choices[k].text
          [] k = 0 /\ fmt.info.default # <<>> -> fmt.info.default[1]
          [] OTHER -> Failed

ScanEnum(fmt, input) ==
    LET fits(text) == \A i \in DOMAIN text : text[i] \in {AnyByte, Byte(input, i)}
        k == SelectInSeq(fmt.info.choices, LAMBDA c : fits(c.text))
    IN  IF k = 0 THEN NoMatch
        ELSE Scanned(Len(fmt.info.choices[k].text), fmt.info.choices[k].index)

(***************************************************************************)
(* %/regex/ and %#/regex/subst/. The regular expressions are external:     *)
(* info.set is a set of bytes and the expression a run of them, which may  *)
(* be empty when info.empty; subexpression 1 is the whole match. An "&" in *)
(* info.subst stands for the match.                                        *)
(***************************************************************************)
PcreExec(info, text) ==
    LET from == IF info.empty THEN 1 ELSE SelectInSeq(text, LAMBDA b : b \in info.set)
    IN  IF from = 0 THEN NoMatch
        ELSE Scanned(from - 1, from - 1 + Leading(Rest(text, from - 1), info.set))

\* match: where the match begins and ends, or NoMatch.
RegexpFound(fmt, match, found, size) ==
    CASE match.n < 0 \/ fmt.prec > 1 -> NoMatch
      [] "*" \in fmt.flags -> Scanned(match.v, <<>>)
      [] Len(found) >= size /\ "+" \notin fmt.flags -> NoMatch
      [] OTHER -> Scanned(match.v, Copied(found, size))
Matched(fmt, text, match, size) == RegexpFound(fmt, match, SubSeq(text, match.n + 1, match.v), size)
ScanRegexpIn(fmt, text, size) == Matched(fmt, text, PcreExec(fmt.info, text), size)
ScanRegexp(fmt, input, size) ==
    ScanRegexpIn(fmt, IF fmt.width > 0 THEN Cut(input, fmt.width) ELSE CString(input), size)

Inserted(fmt, m) == FlattenSeq([i \in DOMAIN fmt.info.subst |->
                        IF fmt.info.subst[i] = 38 THEN m ELSE <<fmt.info.subst[i]>>])
\* The match of l bytes at a position is replaced, or passed.
Replaced(s, at, l, new) ==
    [s EXCEPT !.text = SubSeq(@, 1, at) \o new \o Rest(@, at + l), !.length = @ - l + Len(new),
              !.c = @ + Len(new)]
Replaces(fmt, s, n, at, l) ==
    IF "+" \in fmt.flags \/ n >= fmt.prec
    THEN Replaced(s, at, l, Inserted(fmt, SubSeq(s.text, at + 1, at + l))) ELSE s
\* One round of the loop for match number n, from the position start + s.c on.
Round(fmt, start, s, n, match) ==
    IF match.n < 0 THEN [s EXCEPT !.done = TRUE]
    ELSE [Replaces(fmt, s, n, start + s.c + match.n, match.v - match.n)
            EXCEPT !.c = @ + match.n + (IF match.v = match.n THEN 1 ELSE 0), !.done = n = fmt.prec]
Rounds(fmt, buffer, start, length) ==
    FoldLeft(LAMBDA s, n :
                 IF s.done \/ s.c >= s.length THEN s
                 ELSE Round(fmt, start, s, n,
                            PcreExec(fmt.info, SubSeq(s.text, start + s.c + 1, start + s.length))),
             [text |-> buffer, length |-> length, c |-> 0, done |-> FALSE],
             [n \in 1..2 * length + 1 |-> n]).text
Substitute(fmt, buffer, from) ==
    LET rest == Len(buffer) - from
        length == IF fmt.width > 0 THEN Lower(fmt.width, rest) ELSE rest
    IN  Rounds(fmt, buffer, IF "-" \in fmt.flags THEN Len(buffer) - length ELSE from, length)

(***************************************************************************)
(* parseFormat() and the parse() methods: the data type of a format, or    *)
(* "refused". A format that is compared ("=") is an output format.         *)
(***************************************************************************)
StdLong == {"d", "i", "o", "u", "x", "X"}
ScanOnly == {"*", "?", "!", "="}

FormatType(fmt, scanFormat) ==
    LET in == scanFormat /\ "=" \notin fmt.flags
        has(flags) == fmt.flags \cap flags # {}
        input == in /\ fmt.prec < 0               \* no precision in an input format
    IN  CASE ~scanFormat /\ has(ScanOnly) -> "refused"
          [] fmt.conv \in StdLong /\ (input \/ ~in) ->
                IF fmt.conv \in {"d", "i"} \/ (fmt.conv \in {"x", "o"} /\ has({"-", "+"}))
                THEN "signed" ELSE "unsigned"
          [] fmt.conv = "f" /\ (input \/ ~in) -> "double"
          [] fmt.conv = "s" /\ (input \/ ~in) /\ ~has({"+"}) -> "string"
          [] fmt.conv = "c" /\ (input \/ ~in) /\ ~has({"+", " ", "0", "#"}) ->
                IF in THEN "string" ELSE "unsigned"
          [] fmt.conv = "[" /\ input /\ ~has({"-", "+", " ", "0", "#"}) -> "string"
          [] fmt.conv = "b" -> "unsigned"
          [] fmt.conv = "r" -> IF has({"0"}) THEN "unsigned" ELSE "signed"
          [] fmt.conv = "R" /\ fmt.width \in {0, 4, 8} -> "double"
          [] fmt.conv = "D" -> IF has({"+"}) THEN "signed" ELSE "unsigned"
          [] fmt.conv = "m" -> "double"
          [] fmt.conv = "{" /\ ~has({"-", "+", " ", "0"}) /\ (in => fmt.info.default = <<>>) -> "enum"
          [] fmt.conv = "<" -> IF in THEN "original" ELSE "pseudo"
          [] fmt.conv = "/" /\ (in \/ has({"#"})) /\ fmt.prec <= 1 ->
                IF has({"#"}) THEN "pseudo" ELSE "string"
          [] OTHER -> "refused"

PrintText(fmt, v) ==
    CASE fmt.conv \in StdLong -> PrintStdLong(fmt, v)
      [] fmt.conv = "f" -> PrintfDouble(fmt, v)
      [] fmt.conv = "c" -> Aligned(fmt, << v % 256 >>)
      [] fmt.conv = "b" -> PrintBinary(fmt, v)
      [] fmt.conv = "r" -> PrintRaw(fmt, v)
      [] fmt.conv = "R" -> PrintRawFloat(fmt, v)
      [] fmt.conv = "m" -> PrintMantissa(fmt, v)
      [] fmt.conv = "{" -> PrintEnum(fmt, v)
      [] OTHER -> Failed                           \* no print method
Appended(out, text) == IF text = Failed THEN Failed ELSE out \o text

\* What a format appends to the output for a value of its type.
PrintTo(out, fmt, v) ==
    CASE fmt.conv = "s" -> PrintStdString(fmt, v, out)
      [] fmt.conv = "D" -> PrintBCD(fmt, v, out)
      [] OTHER -> Appended(out, PrintText(fmt, v))

\* What a format takes from the input, for a string of at most size - 1 bytes.
ScanFrom(input, fmt, size) ==
    CASE fmt.conv \in StdLong -> ScanStdLong(fmt, input)
      [] fmt.conv = "f" -> ScanStdDouble(fmt, input)
      [] fmt.conv = "s" -> ScanStdString(fmt, input, size)
      [] fmt.conv = "c" -> ScanStdChars(fmt, input, size)
      [] fmt.conv = "[" -> ScanStdCharset(fmt, input, size)
      [] fmt.conv = "b" -> ScanBinary(fmt, input)
      [] fmt.conv = "r" -> ScanRaw(fmt, input)
      [] fmt.conv = "R" -> ScanRawFloat(fmt, input)
      [] fmt.conv = "D" -> ScanBCD(fmt, input)
      [] fmt.conv = "m" -> ScanMantissa(fmt, input)
      [] fmt.conv = "{" -> ScanEnum(fmt, input)
      [] OTHER -> ScanRegexp(fmt, input, size)
=============================================================================
