---------------------------- MODULE RecordFields ----------------------------
(***************************************************************************)
(* readData(), writeData() and initRecord() of the record types            *)
(* (dev*Stream.c): which field of a record a value goes to and comes from, *)
(* with which mask, shift and scale, and what the clients of an output     *)
(* record are told when its @init protocol reads a value back.             *)
(*                                                                         *)
(* A record is a record of its fields. oval, mlst, oraw, ... repeat what   *)
(* was posted last; here "seen" is what the monitors of VAL saw last and   *)
(* "archived" what the archivers saw last. Deadbands are zero. A double is *)
(* in tenths, as in Formats; integer fields are as wide as a long.         *)
(***************************************************************************)
EXTENDS Formats
LOCAL INSTANCE SequencesExt
LOCAL INSTANCE Bitwise

Integer == {"unsigned", "signed"}
Counted == Integer \cup {"enum"}
Arrays == {"aai", "aao", "waveform"}
Outputs == {"ao", "bo", "mbbo", "mbboDirect", "longout", "int64out",
            "stringout", "lso", "calcout", "scalcout", "aao"}

(***************************************************************************)
(* Helpers.                                                                *)
(***************************************************************************)
BitsOf(v, mask) == Unsigned(v) & mask
Masked(r, v) == IF r.mask # 0 THEN BitsOf(v, r.mask) ELSE Unsigned(v)
\* States that are not configured have no name and the value 0.
AllStates(r) == r.states \o Repeat([value |-> 0, name |-> <<>>],
                                   (IF r.kind \in {"bi", "bo"} THEN 2 ELSE 16) - Len(r.states))
UsesValues(r) == r.sdef /\ \E i \in DOMAIN r.states : r.states[i].value # 0
StateWith(r, P(_)) == LET k == SelectInSeq(AllStates(r), P) IN IF k = 0 THEN 65535 ELSE k - 1
StateNamed(r, name) == StateWith(r, LAMBDA s : s.name = name)
Scaled(r, v) == (IF r.aslo \notin {0, 1} THEN v * r.aslo ELSE v) + r.aoff
Unscaled(r, v) == IF r.aslo \notin {0, 1} THEN (v - r.aoff) \div r.aslo ELSE v - r.aoff
\* (long) of a double.
Truncated(v) == IF v < 0 THEN -((-v) \div 10) ELSE v \div 10

(***************************************************************************)
(* initRecord(), and what the record support of EPICS base does (external):*)
(* the conversion from RVAL after a read, and to RVAL before a write.      *)
(***************************************************************************)
InitRecord(r) ==
    IF r.kind \in {"mbbi", "mbbo", "mbbiDirect", "mbboDirect"}
    THEN [r EXCEPT !.mask = Unsigned(@ * 2^r.shft)] ELSE r

Convert(r) ==
    LET raw == r.rval \div 2^r.shft
    IN  CASE r.kind = "bi" -> [r EXCEPT !.val = IF r.rval = 0 THEN 0 ELSE 1]
          [] r.kind = "mbbi" -> [r EXCEPT !.val = IF r.sdef THEN StateWith(r, LAMBDA s : s.value = raw)
                                                  ELSE raw]
          [] r.kind = "mbbiDirect" -> [r EXCEPT !.val = raw]
          [] r.kind = "ai" -> [r EXCEPT !.val = Scaled(r, 10 * r.rval)]
          [] OTHER -> r

Prepare(r) ==
    LET raw == IF r.kind = "mbbo" /\ r.sdef /\ r.val < 16
               THEN AllStates(r)[r.val + 1].value ELSE r.val
    IN  CASE r.kind = "bo" -> [r EXCEPT !.rval = IF r.mask # 0 /\ r.val # 0 THEN r.mask ELSE r.val]
          [] r.kind \in {"mbbo", "mbboDirect"} -> [r EXCEPT !.rval = raw * 2^r.shft]
          [] r.kind = "ao" -> [r EXCEPT !.oval = r.val, !.rval = Truncated(Unscaled(r, r.val))]
          [] r.kind \in {"calcout", "scalcout"} -> [r EXCEPT !.oval = r.val]
          [] OTHER -> r

(***************************************************************************)
(* writeData(): the values that are printed one after the other, or Error. *)
(***************************************************************************)
Error == [ok |-> FALSE, values |-> <<>>]
Values(s) == [ok |-> TRUE, values |-> s]
NameOf(r) == IF r.val < Len(AllStates(r)) THEN Values(<< AllStates(r)[r.val + 1].name >>) ELSE Error

WriteAi(r, type) ==
    CASE type = "double" -> Values(<< Unscaled(r, r.val) >>)
      [] type \in Integer -> Values(<< IF r.linr THEN r.rval ELSE Truncated(Unscaled(r, r.val)) >>)
      [] OTHER -> Error
WriteAo(r, type, initRun) ==
    LET val == Unscaled(r, IF initRun THEN r.val ELSE r.oval)
    IN  CASE type = "double" -> Values(<<val>>)
          [] type \in Integer -> Values(<< IF r.linr THEN r.rval ELSE Truncated(val) >>)
          [] OTHER -> Error
WriteBi(r, type) == CASE type \in Integer -> Values(<<r.rval>>)
                      [] type = "enum" -> Values(<<r.val>>)
                      [] type = "string" -> NameOf(r)
                      [] OTHER -> Error
WriteBo(r, type) == CASE type = "unsigned" -> Values(<<r.rval>>)
                      [] type = "signed" -> Values(<< IF r.mask # 0 THEN r.rval ELSE r.val >>)
                      [] type = "enum" -> Values(<<r.val>>)
                      [] type = "string" -> NameOf(r)
                      [] OTHER -> Error
WriteMbbi(r, type) ==
    CASE type \in Integer -> Values(<< IF UsesValues(r) THEN Masked(r, r.rval) ELSE r.val >>)
      [] type = "enum" -> Values(<<r.val>>)
      [] type = "string" -> NameOf(r)
      [] OTHER -> Error
WriteMbbo(r, type) ==
    CASE type \in Counted ->
            Values(<< Masked(r, IF UsesValues(r) THEN r.rval ELSE r.val * 2^r.shft) >>)
      [] type = "string" -> NameOf(r)
      [] OTHER -> Error
WriteMbbiDirect(r, type) ==
    IF type \in Integer THEN Values(<< IF r.mask # 0 THEN BitsOf(r.rval, r.mask) ELSE r.val >>) ELSE Error
WriteMbboDirect(r, type) == IF type \in Counted THEN Values(<< Masked(r, r.rval) >>) ELSE Error
WriteLong(r, type) == IF type \in Counted THEN Values(<<r.val>>) ELSE Error     \* longin, longout, int64in, int64out
WriteString(r, type) == IF type = "string" THEN Values(<< CString(r.val) >>) ELSE Error   \* also lsi, lso
WriteCalcout(r, type) == CASE type = "double" -> Values(<<r.oval>>)
                           [] type \in Counted -> Values(<< Truncated(r.oval) >>)
                           [] OTHER -> Error
WriteScalcout(r, type) == IF type = "string" THEN Values(<<r.osv>>) ELSE WriteCalcout(r, type)

\* A number of an array: its bytes as the element type reads them.
Element(r, v) == CASE r.ftvl = "CHAR" -> SignedByte(v % 256)
                   [] r.ftvl = "UCHAR" -> v % 256
                   [] OTHER -> v
ArrayText(r) == CString(IF Len(r.val) < r.nelm THEN r.val ELSE Cut(r.val, r.nelm - 1))
WriteArray(r, type) ==
    LET chars == r.ftvl \in {"CHAR", "UCHAR"}
        double == r.ftvl = "DOUBLE"
    IN  CASE r.val = <<>> -> Values(<<>>)
          [] type = "double" /\ r.ftvl # "STRING" ->
                Values([i \in DOMAIN r.val |-> IF double THEN r.val[i] ELSE 10 * Element(r, r.val[i])])
          [] type \in Counted /\ ~double /\ r.ftvl # "STRING" ->
                Values([i \in DOMAIN r.val |-> Element(r, r.val[i])])
          [] type = "string" /\ r.ftvl = "STRING" -> Values(r.val)
          [] type = "string" /\ chars -> Values(<<ArrayText(r)>>)
          [] OTHER -> Error

WriteData(r, type, initRun) ==
    CASE r.kind = "ai" -> WriteAi(r, type)
      [] r.kind = "ao" -> WriteAo(r, type, initRun)
      [] r.kind = "bi" -> WriteBi(r, type)
      [] r.kind = "bo" -> WriteBo(r, type)
      [] r.kind = "mbbi" -> WriteMbbi(r, type)
      [] r.kind = "mbbo" -> WriteMbbo(r, type)
      [] r.kind = "mbbiDirect" -> WriteMbbiDirect(r, type)
      [] r.kind = "mbboDirect" -> WriteMbboDirect(r, type)
      [] r.kind \in {"longin", "longout", "int64in", "int64out"} -> WriteLong(r, type)
      [] r.kind \in {"stringin", "stringout", "lsi", "lso"} -> WriteString(r, type)
      [] r.kind = "calcout" -> WriteCalcout(r, type)
      [] r.kind = "scalcout" -> WriteScalcout(r, type)
      [] OTHER -> WriteArray(r, type)

(***************************************************************************)
(* readData(): where a value that was scanned goes. Refused is returned    *)
(* for a type that the record does not take, and for a name that no state  *)
(* has (but mbbo takes it). size is what streamScanfN() returns, the bytes *)
(* that it wrote with the end mark.                                        *)
(***************************************************************************)
Refused == [kind |-> "refused"]
\* The buffer that streamScanfN() gets: a name buffer holds any name.
StringSize(r) == CASE r.kind \in {"bi", "bo", "mbbi", "mbbo"} -> 26
                   [] r.kind = "scalcout" -> 8                    \* sizeof(sco->val)
                   [] r.kind \in Arrays /\ r.ftvl # "STRING" -> r.nelm
                   [] OTHER -> r.size
\* The "unsigned long" of a scanned value: where a double takes it.
AsDouble(type, v) == IF type = "signed" THEN 10 * v ELSE 10 * Unsigned(v)
Flag(v) == IF v = 0 THEN 0 ELSE 1
Named(r, name) == IF StateNamed(r, name) > 15 THEN Refused ELSE [r EXCEPT !.val = StateNamed(r, name)]

ReadAi(r, type, v) ==
    CASE type = "double" -> [r EXCEPT !.val = Scaled(r, v)]
      [] type \in Integer /\ r.linr -> Convert([r EXCEPT !.rval = v])
      [] type \in Integer /\ ~r.linr -> [r EXCEPT !.rval = v, !.val = Scaled(r, AsDouble(type, v))]
      [] OTHER -> Refused
ReadBi(r, type, v) ==
    CASE type \in Integer -> Convert([r EXCEPT !.rval = Masked(r, v)])
      [] type = "enum" -> [r EXCEPT !.val = Flag(v)]
      [] type = "string" -> Named(r, v)
      [] OTHER -> Refused
ReadMbbi(r, type, v) ==
    CASE type \in Integer /\ UsesValues(r) -> Convert([r EXCEPT !.rval = Masked(r, v)])
      [] type = "enum" \/ (type \in Integer /\ ~UsesValues(r)) -> [r EXCEPT !.val = v % 65536]
      [] type = "string" -> Named(r, v)
      [] OTHER -> Refused
ReadMbbiDirect(r, type, v) ==
    CASE type \in Integer /\ r.mask # 0 -> Convert([r EXCEPT !.rval = BitsOf(v, r.mask)])
      [] type \in Integer /\ r.mask = 0 -> [r EXCEPT !.val = v]
      [] OTHER -> Refused
ReadLong(r, type, v) == IF type \in Counted THEN [r EXCEPT !.val = v] ELSE Refused   \* longin, int64in
ReadString(r, type, v) == IF type = "string" THEN [r EXCEPT !.val = v] ELSE Refused  \* stringin
ReadLsi(r, type, v, size) ==
    IF type = "string" THEN [r EXCEPT !.val = v, !.len = size] ELSE Refused

(***************************************************************************)
(* readData() of the output records. It is called in the @init handler,    *)
(* where no processing follows and the clients are told here, or when the  *)
(* "in" command of a running protocol reads a value back.                  *)
(***************************************************************************)
\* A mutant: the archivers are forgotten.
MutTold(r, monitors, archivers) == [r EXCEPT !.seen = IF monitors THEN r.val ELSE @]
\* What is compared, and what is told when it differs.
Told(r, monitors, archivers) == [r EXCEPT !.seen = IF monitors THEN r.val ELSE @,
                                          !.archived = IF archivers THEN r.val ELSE @]
\* LINR does not matter: a break leaves the branch in front of it. ORBV is made
\* of the value first; ORAW and ORBV follow RVAL and RBV when something is posted
\* of the value, which a change of the alarm (not in r) would do as well.
ReadAo(r, type, v, initRun) ==
    LET value(x) == (IF r.aslo # 0 THEN x * r.aslo ELSE x) + r.aoff
        new == IF type = "double" THEN [r EXCEPT !.val = value(v)]
               ELSE [r EXCEPT !.rval = v, !.rbv = v, !.val = value(AsDouble(type, v))]
        told == [Told(new, r.mlst # new.val, r.alst # new.val)
                   EXCEPT !.oval = new.val, !.orbv = Truncated(new.val),
                          !.mlst = new.val, !.alst = new.val]
    IN  CASE type \notin Integer \cup {"double"} -> Refused
          [] ~initRun -> new
          [] initRun /\ {r.oval, r.mlst, r.alst} = {new.val} -> told
          [] OTHER -> [told EXCEPT !.oraw = new.rval, !.orbv = new.rbv]
ReadBo(r, type, v, initRun) ==
    LET raw == Masked(r, v)
        new == CASE type \in Integer -> [r EXCEPT !.rval = raw, !.rbv = raw, !.val = Flag(raw)]
                 [] type = "enum" -> [r EXCEPT !.val = Flag(v)]
                 [] type = "string" -> Named(r, v)
                 [] OTHER -> Refused
    IN  IF new = Refused \/ ~initRun THEN new
        ELSE [Told(new, r.mlst # new.val, r.mlst # new.val)
                EXCEPT !.mlst = new.val, !.oraw = new.rval, !.orbv = new.rbv]
ReadMbbo(r, type, v, initRun) ==
    LET raw == Masked(r, v)
        state == raw \div 2^r.shft
        new == CASE type \in Counted ->
                        [r EXCEPT !.rval = raw, !.rbv = raw,
                                  !.val = IF r.sdef THEN StateWith(r, LAMBDA s : s.value = state) ELSE state]
                 [] type = "string" -> [r EXCEPT !.val = StateNamed(r, v)]
                 [] OTHER -> Refused
    IN  IF new = Refused \/ ~initRun THEN new
        ELSE [Told(new, r.mlst # new.val, r.mlst # new.val)
                EXCEPT !.mlst = new.val, !.oraw = new.rval, !.orbv = new.rbv]
ReadMbboDirect(r, type, v, initRun) ==
    LET raw == Masked(r, v)
        new == [r EXCEPT !.rval = raw, !.rbv = raw, !.val = raw \div 2^r.shft]
    IN  CASE type \notin Integer -> Refused
          [] ~initRun -> new
          [] OTHER -> [Told(new, r.mlst # new.val, r.mlst # new.val)
                         EXCEPT !.mlst = new.val, !.oraw = new.rval, !.orbv = new.rbv]
ReadLongout(r, type, v, initRun) ==                       \* and int64out
    CASE type \notin Counted -> Refused
      [] ~initRun -> [r EXCEPT !.val = v]
      [] OTHER -> [Told([r EXCEPT !.val = v], r.mlst # v, r.alst # v) EXCEPT !.mlst = v, !.alst = v]
ReadStringout(r, type, v, initRun) ==
    CASE type # "string" -> Refused
      [] ~initRun -> [r EXCEPT !.val = v]
      [] OTHER -> [Told([r EXCEPT !.val = v], r.oval # v, r.oval # v) EXCEPT !.oval = v]
ReadLso(r, type, v, size, initRun) ==
    LET new == ReadStringout(r, type, v, initRun)
    IN  IF new = Refused THEN Refused ELSE [new EXCEPT !.len = size]
\* calcout compares with MLST twice, so that it never tells the archivers.
ReadCalcout(r, type, v, initRun) ==
    LET val == IF type = "double" THEN v ELSE AsDouble(type, v)
    IN  CASE type \notin Counted \cup {"double"} -> Refused
          [] ~initRun -> [r EXCEPT !.val = val]
          [] OTHER -> [Told([r EXCEPT !.val = val], r.mlst # val, FALSE) EXCEPT !.mlst = val]
ReadScalcout(r, type, v) ==                               \* it tells nobody
    CASE type = "string" -> [r EXCEPT !.sval = v]
      [] type = "double" -> [r EXCEPT !.val = v]
      [] type \in Counted -> [r EXCEPT !.val = 10 * v]
      [] OTHER -> Refused
\* aao with its new elements: a hash of them is compared.
AaoRead(new, initRun) ==
    IF initRun THEN [Told(new, new.oval # new.val, new.oval # new.val) EXCEPT !.oval = new.val] ELSE new

ReadData(r, type, v, size, initRun) ==
    CASE r.kind = "ai" -> ReadAi(r, type, v)
      [] r.kind = "bi" -> ReadBi(r, type, v)
      [] r.kind = "mbbi" -> ReadMbbi(r, type, v)
      [] r.kind = "mbbiDirect" -> ReadMbbiDirect(r, type, v)
      [] r.kind \in {"longin", "int64in"} -> ReadLong(r, type, v)
      [] r.kind = "stringin" -> ReadString(r, type, v)
      [] r.kind = "lsi" -> ReadLsi(r, type, v, size)
      [] r.kind = "ao" -> ReadAo(r, type, v, initRun)
      [] r.kind = "bo" -> ReadBo(r, type, v, initRun)
      [] r.kind = "mbbo" -> ReadMbbo(r, type, v, initRun)
      [] r.kind = "mbboDirect" -> ReadMbboDirect(r, type, v, initRun)
      [] r.kind \in {"longout", "int64out"} -> ReadLongout(r, type, v, initRun)
      [] r.kind = "stringout" -> ReadStringout(r, type, v, initRun)
      [] r.kind = "lso" -> ReadLso(r, type, v, size, initRun)
      [] r.kind = "calcout" -> ReadCalcout(r, type, v, initRun)
      [] OTHER -> ReadScalcout(r, type, v)
=============================================================================
