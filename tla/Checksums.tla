----------------------------- MODULE Checksums -----------------------------
(***************************************************************************)
(* The checksum algorithms of the pseudo converter %<name>                 *)
(* (ChecksumConverter.cc), as functions of a sequence of bytes, and how    *)
(* the converter prints and compares a checksum.                           *)
(*                                                                         *)
(* A uint32_t is a word: the pair <<high, low>> of its 16-bit halves,      *)
(* because TLC's integers are narrower than an unsigned 32-bit number.     *)
(* The lookup tables of the CRC functions are the remainders of a          *)
(* polynomial division, and are computed as such here.                     *)
(***************************************************************************)
EXTENDS Integers, Sequences, FiniteSets
LOCAL INSTANCE SequencesExt
LOCAL INSTANCE Bitwise

Half == 65536
Word(n) == <<n \div Half, n % Half>>
AllOnes == <<Half - 1, Half - 1>>

XorWord(x, y) == <<x[1] ^^ y[1], x[2] ^^ y[2]>>
AddWord(x, n) == LET low == x[2] + n
                 IN  <<(x[1] + low \div Half) % Half, low % Half>>
NotWord(x) == XorWord(x, AllOnes)
ShiftLeft(x)  == <<(2 * x[1] + x[2] \div (Half \div 2)) % Half, (2 * x[2]) % Half>>
ShiftRight(x) == <<x[1] \div 2, (x[1] % 2) * (Half \div 2) + x[2] \div 2>>
DownByte(x) == <<x[1] \div 256, (x[1] % 256) * 256 + x[2] \div 256>>     \* x >> 8
UpByte(x)   == <<(x[1] % 256) * 256 + x[2] \div 256, (x[2] % 256) * 256>> \* x << 8
LowByte(x) == x[2] % 256

\* The bytes of a word that a checksum of that many bytes keeps, lsb first.
BytesOf(x, bytes) ==
    SubSeq(<<x[2] % 256, x[2] \div 256, x[1] % 256, x[1] \div 256>>, 1, bytes)
Masked(x, bytes) == CASE bytes = 1 -> <<0, x[2] % 256>>
                      [] bytes = 2 -> <<0, x[2]>>
                      [] OTHER     -> x

(***************************************************************************)
(* CRC tables: the register after eight division steps.                    *)
(***************************************************************************)
Divide(step(_), x) == FoldLeft(LAMBDA r, k : step(r), x, <<1, 2, 3, 4, 5, 6, 7, 8>>)

Table8(poly) ==                                     \* for an 8 bit register
    LET step(r) == IF r[2] >= 128 THEN <<0, ((2 * r[2]) % 256) ^^ poly>>
                                  ELSE <<0, 2 * r[2]>>
    IN  [i \in 0..255 |-> Divide(step, <<0, i>>)]
Table16(poly) ==
    LET step(r) == IF r[2] >= Half \div 2 THEN <<0, ((2 * r[2]) % Half) ^^ poly>>
                                          ELSE <<0, 2 * r[2]>>
    IN  [i \in 0..255 |-> Divide(step, <<0, 256 * i>>)]
Table32(poly) ==
    LET step(r) == IF r[1] >= Half \div 2 THEN XorWord(ShiftLeft(r), poly)
                                          ELSE ShiftLeft(r)
    IN  [i \in 0..255 |-> Divide(step, <<256 * i, 0>>)]
Reflected(poly) ==             \* poly is given with its bits in reverse order
    LET step(r) == IF r[2] % 2 = 1 THEN XorWord(ShiftRight(r), poly) ELSE ShiftRight(r)
    IN  [i \in 0..255 |-> Divide(step, <<0, i>>)]

Table_0x07 == Table8(7)
Table_0x31 == Reflected(<<0, 140>>)                  \* 0x8C
Table_0x8005 == Table16(32773)
Table_0x8005_r == Reflected(<<0, 40961>>)            \* 0xA001
Table_0x1021 == Table16(4129)
Table_0x04C11DB7 == Table32(<<1217, 7607>>)
Table_0x04C11DB7_r == Reflected(<<60856, 33568>>)    \* 0xEDB88320

Entry(table, crc, byte) == table[LowByte(crc) ^^ byte]

crc_0x07(data, init) == FoldLeft(LAMBDA crc, b : Entry(Table_0x07, crc, b), init, data)
crc_0x31(data, init) == FoldLeft(LAMBDA crc, b : Entry(Table_0x31, crc, b), init, data)
crc_0x8005(data, init) ==
    FoldLeft(LAMBDA crc, b : XorWord(Entry(Table_0x8005, DownByte(crc), b), UpByte(crc)),
             init, data)
crc_0x8005_r(data, init) ==
    FoldLeft(LAMBDA crc, b : XorWord(Entry(Table_0x8005_r, crc, b), DownByte(crc)),
             init, data)
crc_0x1021(data, init) ==
    FoldLeft(LAMBDA crc, b : XorWord(Entry(Table_0x1021, DownByte(crc), b), UpByte(crc)),
             init, data)
crc_0x04C11DB7(data, init) ==
    FoldLeft(LAMBDA crc, b : XorWord(Table_0x04C11DB7[(crc[1] \div 256) ^^ b], UpByte(crc)),
             init, data)
crc_0x04C11DB7_r(data, init) ==
    FoldLeft(LAMBDA crc, b : XorWord(Entry(Table_0x04C11DB7_r, crc, b), DownByte(crc)),
             init, data)

(***************************************************************************)
(* Sums.                                                                   *)
(***************************************************************************)
sum(data, init) == FoldLeft(AddWord, init, data)
xor8(data, init) == FoldLeft(LAMBDA x, b : XorWord(x, <<0, b>>), init, data)
xor7(data, init) == <<0, xor8(data, init)[2] % 128>>
bitsum(data, init) ==
    FoldLeft(LAMBDA x, b : AddWord(x, Cardinality({k \in 0..7 : (b \div 2^k) % 2 = 1})),
             init, data)

\* The two running sums of Adler32. tlen is 5550 bytes at most, so that no
\* line of a model is longer: one round of the outer loop.
adler32(data, init) ==
    LET fold(x) == (x % Half) + (x \div Half) * 15
        sums == FoldLeft(LAMBDA s, byte : <<s[1] + byte, s[2] + s[1] + byte>>,
                         <<init[2], init[1]>>, data)
        a == IF data = <<>> THEN sums[1] ELSE fold(sums[1])
        b == fold(IF data = <<>> THEN sums[2] ELSE fold(sums[2]))
        reduce(x) == IF x >= 65521 THEN x - 65521 ELSE x
    IN  <<reduce(b), reduce(a)>>

\* The value of a hex digit, -1 for another byte.
HexDigit(byte) ==
    CASE byte \in 48..57  -> byte - 48
      [] byte \in 65..70  -> byte - 55
      [] byte \in 97..102 -> byte - 87
      [] OTHER -> -1

hexsum(data, init) ==
    FoldLeft(LAMBDA x, b : IF HexDigit(b) < 0 THEN x ELSE AddWord(x, HexDigit(b)), init, data)

CPI(data, init) ==
    LET total == sum(data, AddWord(init, -32 * Len(data)))
    IN  <<0, (((total[1] % 95) * (Half % 95) + total[2]) % 95) + 32>>

leybold(data, init) ==
    LET inverse == LowByte(NotWord(sum(data, init)))
    IN  <<0, IF inverse < 32 THEN inverse + 32 ELSE inverse>>

brksCryo(data, init) ==
    LET total == FoldLeft(LAMBDA x, b : AddWord(x, b % 128), init, data)
    IN  <<0, (((total[2] \div 64) ^^ total[2]) % 64) + 48>>

\* A mutant: the two's complement is forgotten.
Mutlrc(data, init) == <<0, LowByte(sum(data, init))>>
lrc(data, init) == <<0, (256 - LowByte(sum(data, init))) % 256>>

\* Two hex digits make one byte: which of the two a digit is follows from the
\* number of bytes that are still to come.
hexlrc(data, init) ==
    LET digit(s, i) ==                             \* s = <<sum, final_digit>>
            IF HexDigit(data[i]) < 0 THEN s
            ELSE IF (Len(data) - i) % 2 = 1 THEN <<s[1], 16 * HexDigit(data[i])>>
            ELSE <<(s[1] + HexDigit(data[i]) + s[2]) % 256, 0>>
        s == FoldLeft(digit, <<LowByte(init), 0>>, [i \in 1..Len(data) |-> i])
    IN  <<0, (256 - s[1]) % 256>>

hv_mps(data, init) == <<0, (LowByte(NotWord(sum(data, init))) % 128) | 64>>

(***************************************************************************)
(* checksumMap: the initial value, the final exclusive or, the number of   *)
(* bytes, and what the comment behind each line says the checksum of       *)
(* "123456789" is.                                                         *)
(***************************************************************************)
Algorithm(init, xorout, bytes, chk) ==
    [init |-> init, xorout |-> xorout, bytes |-> bytes, chk |-> chk]
Zero == <<0, 0>>
Ones8 == <<0, 255>>
Ones16 == <<0, Half - 1>>

checksumMap == [
    sum      |-> Algorithm(Zero, Zero, 1, <<0, 221>>),
    sum8     |-> Algorithm(Zero, Zero, 1, <<0, 221>>),
    sum16    |-> Algorithm(Zero, Zero, 2, <<0, 477>>),
    sum32    |-> Algorithm(Zero, Zero, 4, <<0, 477>>),
    nsum8    |-> Algorithm(Ones8, Ones8, 1, <<0, 35>>),
    nsum16   |-> Algorithm(Ones16, Ones16, 2, <<0, 65059>>),
    nsum32   |-> Algorithm(AllOnes, AllOnes, 4, <<65535, 65059>>),
    notsum   |-> Algorithm(Zero, Ones8, 1, <<0, 34>>),
    xor      |-> Algorithm(Zero, Zero, 1, <<0, 49>>),
    xor8     |-> Algorithm(Zero, Zero, 1, <<0, 49>>),
    xor8ff   |-> Algorithm(Zero, Ones8, 1, <<0, 206>>),
    xor7     |-> Algorithm(Zero, Zero, 1, <<0, 49>>),
    crc8     |-> Algorithm(Zero, Zero, 1, <<0, 244>>),
    ccitt8   |-> Algorithm(Zero, Zero, 1, <<0, 161>>),
    crc16    |-> Algorithm(Zero, Zero, 2, <<0, 65256>>),
    crc16r   |-> Algorithm(Zero, Zero, 2, <<0, 47933>>),
    modbus   |-> Algorithm(Ones16, Zero, 2, <<0, 19255>>),
    ccitt16  |-> Algorithm(Ones16, Zero, 2, <<0, 10673>>),
    ccitt16a |-> Algorithm(<<0, 7439>>, Zero, 2, <<0, 58828>>),
    ccitt16x |-> Algorithm(Zero, Zero, 2, <<0, 12739>>),
    crc16c   |-> Algorithm(Zero, Zero, 2, <<0, 12739>>),
    xmodem   |-> Algorithm(Zero, Zero, 2, <<0, 12739>>),
    crc32    |-> Algorithm(AllOnes, AllOnes, 4, <<64649, 6424>>),
    crc32r   |-> Algorithm(AllOnes, AllOnes, 4, <<52212, 14630>>),
    jamcrc   |-> Algorithm(AllOnes, Zero, 4, <<13323, 50905>>),
    adler32  |-> Algorithm(<<0, 1>>, Zero, 4, <<2334, 478>>),
    hexsum8  |-> Algorithm(Zero, Zero, 1, <<0, 45>>),
    cpi      |-> Algorithm(Zero, Zero, 1, <<0, 126>>),
    leybold  |-> Algorithm(Zero, Zero, 1, <<0, 34>>),
    brksCryo |-> Algorithm(Zero, Zero, 1, <<0, 74>>),
    lrc      |-> Algorithm(Zero, Zero, 1, <<0, 35>>),
    hexlrc   |-> Algorithm(Zero, Zero, 1, <<0, 167>>),
    bitsum   |-> Algorithm(Zero, Zero, 1, <<0, 33>>),
    bitsum8  |-> Algorithm(Zero, Zero, 1, <<0, 33>>),
    bitsum16 |-> Algorithm(Zero, Zero, 2, <<0, 33>>),
    bitsum32 |-> Algorithm(Zero, Zero, 4, <<0, 33>>),
    hv_mps   |-> Algorithm(Ones8, Zero, 1, <<0, 99>>)]
Func(name, data, init) ==
    CASE name \in {"sum", "sum8", "sum16", "sum32", "nsum8", "nsum16", "nsum32", "notsum"} ->
           sum(data, init)
      [] name \in {"xor", "xor8", "xor8ff"} -> xor8(data, init)
      [] name = "xor7" -> xor7(data, init)
      [] name = "crc8" -> crc_0x07(data, init)
      [] name = "ccitt8" -> crc_0x31(data, init)
      [] name = "crc16" -> crc_0x8005(data, init)
      [] name \in {"crc16r", "modbus"} -> crc_0x8005_r(data, init)
      [] name \in {"ccitt16", "ccitt16a", "ccitt16x", "crc16c", "xmodem"} -> crc_0x1021(data, init)
      [] name = "crc32" -> crc_0x04C11DB7(data, init)
      [] name \in {"crc32r", "jamcrc"} -> crc_0x04C11DB7_r(data, init)
      [] name = "adler32" -> adler32(data, init)
      [] name = "hexsum8" -> hexsum(data, init)
      [] name = "cpi" -> CPI(data, init)
      [] name = "leybold" -> leybold(data, init)
      [] name = "brksCryo" -> brksCryo(data, init)
      [] name = "lrc" -> lrc(data, init)
      [] name = "hexlrc" -> hexlrc(data, init)
      [] name \in {"bitsum", "bitsum8", "bitsum16", "bitsum32"} -> bitsum(data, init)
      [] OTHER -> hv_mps(data, init)

(***************************************************************************)
(* The converter. The prefixes "-" or "neg" and "~" or "not" of the name   *)
(* change where the sum starts and how it is inverted.                     *)
(***************************************************************************)
ChecksumInfo(neg, not, name) ==
    LET entry == checksumMap[name]
        negated(x) == IF neg THEN NotWord(x) ELSE x
    IN  [name |-> name, init |-> negated(entry.init),
         xorout |-> IF not THEN NotWord(negated(entry.xorout)) ELSE negated(entry.xorout)]

\* The bytes checked: width bytes are left out at the start, prec at the end.
Covered(fmt, line) ==
    SubSeq(line, fmt.width + 1, Len(line) - (IF fmt.prec > 0 THEN fmt.prec ELSE 0))

\* The checksum of a line, and its bytes in the order they are transmitted.
ChecksumOf(fmt, line) ==
    LET info == fmt.info
    IN  Masked(XorWord(info.xorout, Func(info.name, Covered(fmt, line), info.init)),
               checksumMap[info.name].bytes)
Directed(fmt, bytes) == IF "#" \in fmt.flags THEN bytes ELSE Reverse(bytes)
Transmitted(fmt, word) == Directed(fmt, BytesOf(word, checksumMap[fmt.info.name].bytes))

HexChar(d) == IF d < 10 THEN d + 48 ELSE d + 55
Ascii(byte) == <<HexChar(byte \div 16), HexChar(byte % 16)>>        \* 0 flag
PoorMansHex(byte) == <<48 + (byte \div 16), 48 + (byte % 16)>>          \* - flag
DecimalDigits(bytes) == ((bytes + 1) * 25) \div 10 - 2             \* + flag
Decimal(word, digits) ==
    LET split(s, k) ==                        \* long division of a word by ten
            LET low == (s[1][1] % 10) * Half + s[1][2]
            IN  << <<s[1][1] \div 10, low \div 10>>, <<48 + (low % 10)>> \o s[2] >>
    IN  FoldLeft(split, <<word, <<>> >>, [k \in 1..digits |-> k])[2]

\* printPseudo(): what the converter appends to the output.
ChecksumText(fmt, word, bytes) ==
    CASE "+" \in fmt.flags -> Decimal(word, DecimalDigits(Len(bytes)))
      [] "0" \in fmt.flags -> FlattenSeq([i \in DOMAIN bytes |-> Ascii(bytes[i])])
      [] "-" \in fmt.flags -> FlattenSeq([i \in DOMAIN bytes |-> PoorMansHex(bytes[i])])
      [] OTHER -> bytes
WordText(fmt, word) == ChecksumText(fmt, word, Transmitted(fmt, word))
PrintChecksum(fmt, line) == WordText(fmt, ChecksumOf(fmt, line))

\* sscanf(input, "%2x"): white space, then a sign and digits, two characters
\* at most. The value of one or two digits, or NoHex.
NoHex == 256
TwoDigits(input, start) ==                 \* start is the position of the first
    LET digit(i) == IF start > 0 /\ start + i <= Len(input) THEN HexDigit(input[start + i]) ELSE -1
    IN  IF digit(0) < 0
        THEN IF start > 0 /\ input[start] = 43 /\ digit(1) >= 0 THEN digit(1) ELSE NoHex
        ELSE IF digit(1) < 0 THEN digit(0) ELSE 16 * digit(0) + digit(1)
ScanHex(input) == TwoDigits(input, SelectInSeq(input, LAMBDA b : b \notin {9, 10, 11, 12, 13, 32}))

\* The bytes that the loops compare. A mutant: one too few.
MutCompared(bytes) == 1..bytes - 1
Compared(bytes) == 1..bytes

\* sscanf() of the decimal digits at the start of the input.
DecimalWord(digits) ==
    FoldLeft(LAMBDA x, b : LET low == 10 * x[2] + b - 48
                           IN  <<(10 * x[1] + low \div Half) % Half, low % Half>>, Zero, digits)
LeadingDigits(input, max) ==
    LET stop == SelectInSeq(SubSeq(input, 1, max), LAMBDA b : b \notin 48..57)
    IN  SubSeq(input, 1, IF stop = 0 THEN max ELSE stop - 1)

\* The hex bytes of the input in the two orders. The msb first order reads the
\* last byte first and does not look at what sscanf() returns: where no hex byte
\* is found, the byte that was read before is compared again, and for the first
\* one (the last of the line) whatever the uninitialised variable holds, here
\* "garbage".
HexBytes(input, bytes) == [i \in 1..bytes |-> ScanHex(SubSeq(input, 2 * i - 1, Len(input)))]
Remembered(hex, garbage) ==
    LET inchar[i \in 1..Len(hex) + 1] == CASE i > Len(hex) -> garbage
                                           [] hex[i] = NoHex -> inchar[i + 1]
                                           [] OTHER -> hex[i]
    IN  inchar
PoorByte(input, i, expected) ==
    /\ input[2 * i - 1] \in 48..63 /\ input[2 * i] \in 48..63
    /\ 16 * (input[2 * i - 1] % 16) + (input[2 * i] % 16) = expected
SameByte(fmt, input, garbage, i, expected) ==
    CASE "0" \in fmt.flags /\ "#" \in fmt.flags -> HexBytes(input, Len(expected))[i] = expected[i]
      [] "0" \in fmt.flags -> Remembered(HexBytes(input, Len(expected)), garbage)[i] = expected[i]
      [] "-" \in fmt.flags -> PoorByte(input, i, expected[i])
      [] OTHER -> input[i] = expected[i]

(***************************************************************************)
(* scanPseudo(): the number of bytes the checksum at the cursor takes, -1  *)
(* when it is missing or wrong.                                            *)
(***************************************************************************)
ExpectedLength(fmt, bytes) == CASE "+" \in fmt.flags -> DecimalDigits(bytes)
                                [] fmt.flags \cap {"0", "-"} # {} -> 2 * bytes
                                [] OTHER -> bytes
Matches(fmt, input, word, length, expected, garbage) ==
    IF "+" \in fmt.flags THEN DecimalWord(LeadingDigits(input, length)) = word
    ELSE \A i \in Compared(Len(expected)) : SameByte(fmt, input, garbage, i, expected)
ScanBytes(fmt, input, word, expected, garbage) ==
    LET length == ExpectedLength(fmt, Len(expected))
    IN  IF Len(input) >= length /\ Matches(fmt, input, word, length, expected, garbage)
        THEN length ELSE -1
ScanWord(fmt, input, word, garbage) == ScanBytes(fmt, input, word, Transmitted(fmt, word), garbage)
ScanChecksum(fmt, line, cursor, garbage) ==
    ScanWord(fmt, SubSeq(line, cursor + 1, Len(line)), ChecksumOf(fmt, SubSeq(line, 1, cursor)), garbage)
============================================================================
