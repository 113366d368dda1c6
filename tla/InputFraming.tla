---------------------------- MODULE InputFraming ----------------------------
(***************************************************************************)
(* How StreamCore::readCallback() cuts the bytes collected in inputBuffer  *)
(* into input lines.  Pure operators: the protocol engine (StreamCore) and *)
(* the chunking model (LineReader) both use them.                          *)
(*                                                                         *)
(* Positions are the code's: byte i of a buffer b is b[i + 1], and -1      *)
(* stands for "no end of line found".                                      *)
(***************************************************************************)
EXTENDS Integers, Sequences, SequencesExt

CONSTANTS
  Byte,          \* the bytes that tell inputs apart
  InTerminator,  \* the protocol's InTerminator, <<>> when there is none
  MaxInput       \* the protocol's MaxInput, 0 when it is unlimited

ASSUME FramingAssumption ==
  /\ InTerminator \in Seq(Byte)
  /\ MaxInput \in Nat

NotFound == -1

(* StreamBuffer::find(): the first place at or after `start`. *)
Find(buffer, pattern, start) ==
  LET Hits == { i \in start .. Len(buffer) - Len(pattern) :
                  SubSeq(buffer, i + 1, i + Len(pattern)) = pattern }
  IN  IF Hits = {} THEN NotFound ELSE Min(Hits)

(* Mutants: only the new bytes are searched; left-over lines are not.      *)
MutNewBytesOnly(buffer, size, unparsed) ==
  IF unparsed THEN 0 ELSE Len(buffer) - size
MutForgetLeftover(buffer, size, unparsed) ==
  IF Len(buffer) < size + Len(InTerminator)
  THEN 0
  ELSE Len(buffer) - size - Len(InTerminator)

(* Where the search for the terminator starts.  Lines left over from a     *)
(* multi-line input (unparsedInput) are searched from the beginning; of a  *)
(* long line only the `size` new bytes are, and enough old ones for a      *)
(* terminator split between two chunks.                                    *)
SearchStart(buffer, size, unparsed) ==
  IF unparsed \/ Len(buffer) < size + Len(InTerminator)
  THEN 0
  ELSE Len(buffer) - size - Len(InTerminator)

TerminatorAt(buffer, size, unparsed) ==
  IF InTerminator = <<>>
  THEN NotFound
  ELSE Find(buffer, InTerminator, SearchStart(buffer, size, unparsed))

(* A read timeout ends the line when nothing else can.                     *)
EffectiveStatus(status) ==
  IF status = "Timeout" /\ InTerminator = <<>> /\ MaxInput = 0
  THEN "End" ELSE status

(* Mutants: a message of maximal length takes all of the buffer, or needs  *)
(* one more byte.                                                          *)
MutTakeAll(buffer, size, unparsed, status) ==
  [end |-> IF MaxInput <= Len(buffer) THEN Len(buffer) ELSE NotFound, termlen |-> 0]
MutOneMoreByte(buffer, size, unparsed, status) ==
  [end |-> IF MaxInput < Len(buffer) THEN MaxInput ELSE NotFound, termlen |-> 0]

(* The line found in the buffer: its length, or NotFound, and the length   *)
(* of the terminator to drop after it.                                     *)
LineAt(buffer, size, unparsed, status) ==
  LET term == TerminatorAt(buffer, size, unparsed)
      end  == IF term # NotFound THEN term
              ELSE IF status = "End" THEN Len(buffer)
              ELSE IF MaxInput > 0 /\ MaxInput <= Len(buffer) THEN MaxInput
              ELSE NotFound
  IN  IF MaxInput > 0 /\ end > MaxInput
      THEN [end |-> MaxInput, termlen |-> 0]
      ELSE [end |-> end,
            termlen |-> IF term # NotFound THEN Len(InTerminator) ELSE 0]

LineText(buffer, line) == SubSeq(buffer, 1, line.end)

AfterLine(buffer, line) ==
  SubSeq(buffer, line.end + line.termlen + 1, Len(buffer))
=============================================================================
