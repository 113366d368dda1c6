----------------------------- MODULE LineReader -----------------------------
(***************************************************************************)
(* A protocol that executes one `in` command after the other while the     *)
(* device sends a byte stream that reaches readCallback() in chunks of any *)
(* size, before or while an `in` is active.  The question is whether the   *)
(* lines the `in` commands see depend on the chunking.                     *)
(***************************************************************************)
EXTENDS Integers, Sequences

CONSTANTS
  Byte,      \* the bytes that tell inputs apart
  Framings,  \* the terminators and MaxInputs a protocol may have
  Streams    \* the byte streams the device may send

ASSUME LineReaderAssumption ==
  /\ Framings \subseteq [terminator : Seq(Byte), maxInput : Nat]
  /\ Streams \subseteq Seq(Byte)

VARIABLES
  framing,        \* InTerminator and MaxInput of the protocol
  sent,           \* the whole stream of this behaviour
  stream,         \* its bytes that have not reached readCallback() yet
  inputBuffer,    \* StreamCore::inputBuffer
  unparsedInput,  \* StreamCore::unparsedInput
  reading,        \* TRUE iff an `in` command waits for readCallback()
  lines           \* history: every inputLine given to matchInput()

vars == <<framing, sent, stream, inputBuffer, unparsedInput, reading, lines>>

INSTANCE InputFraming
  WITH InTerminator <- framing.terminator, MaxInput <- framing.maxInput

Init ==
  /\ framing \in Framings
  /\ sent \in Streams /\ stream = sent
  /\ inputBuffer = <<>> /\ unparsedInput = FALSE
  /\ reading = FALSE /\ lines = <<>>

(* readCallback(StreamIoSuccess, ...) with an `in` active, after the input *)
(* was appended: cut one line, or ask for more.                            *)
Parse(buffer, size, unparsed) ==
  LET line == LineAt(buffer, size, unparsed, "Success")
  IN  IF line.end = NotFound
      THEN /\ inputBuffer' = buffer
           /\ unparsedInput' = unparsed
           /\ reading' = TRUE
           /\ UNCHANGED lines
      ELSE /\ lines' = Append(lines, LineText(buffer, line))
           /\ inputBuffer' = AfterLine(buffer, line)
           /\ unparsedInput' = (inputBuffer' # <<>>)
           /\ reading' = FALSE

(* The bus hands over the next n bytes; early input is kept for later.     *)
ReadCallback(n) ==
  LET chunk == SubSeq(stream, 1, n)
  IN  /\ stream' = SubSeq(stream, n + 1, Len(stream))
      /\ UNCHANGED <<framing, sent>>
      /\ IF reading
         THEN Parse(inputBuffer \o chunk, n, unparsedInput)
         ELSE /\ inputBuffer' = inputBuffer \o chunk
              /\ unparsedInput' = TRUE
              /\ UNCHANGED <<reading, lines>>

(* evalIn(): the next `in` command starts, with input left over or not.    *)
EvalIn ==
  /\ ~reading
  /\ IF unparsedInput
     THEN Parse(inputBuffer, 0, TRUE)
     ELSE reading' = TRUE /\ UNCHANGED <<inputBuffer, unparsedInput, lines>>
  /\ UNCHANGED <<framing, sent, stream>>

Next == EvalIn \/ \E n \in 1 .. Len(stream) : ReadCallback(n)

Spec == Init /\ [][Next]_vars /\ WF_vars(Next)
-----------------------------------------------------------------------------
(* The reference: the lines of a whole stream, and what follows the last.  *)
EndOf(s) ==
  IF framing.terminator = <<>>
  THEN [end |-> IF Len(s) < framing.maxInput THEN NotFound ELSE framing.maxInput,
        termlen |-> 0]
  ELSE [end |-> Find(s, framing.terminator, 0), termlen |-> Len(framing.terminator)]

SplitLines[s \in Seq(Byte)] ==
  LET line == EndOf(s)
  IN  IF line.end = NotFound THEN <<>>
      ELSE <<LineText(s, line)>> \o SplitLines[AfterLine(s, line)]

(* No line is lost, invented, cut short or joined with the next, however   *)
(* the stream was cut into chunks (readCallback's search start, multi-line *)
(* input and maxInput rules, StreamCore.cc:1028-1085).                     *)
LinesIndependentOfChunks ==
  lines \o SplitLines[inputBuffer \o stream] = SplitLines[sent]

(* An `in` that waits for more input has not overlooked a complete line in *)
(* the buffer: a terminator split between two chunks is still found.       *)
NoLineOverlooked ==
  reading => EndOf(inputBuffer).end = NotFound

(* The inductive invariant behind both.  An `in` that does not wait starts *)
(* with an empty buffer unless unparsedInput says otherwise.               *)
LineTypes ==
  /\ framing \in Framings /\ sent \in Seq(Byte) /\ stream \in Seq(Byte)
  /\ inputBuffer \in Seq(Byte) /\ lines \in Seq(Seq(Byte))
  /\ unparsedInput \in BOOLEAN /\ reading \in BOOLEAN
LeftoverKnown == ~reading /\ ~unparsedInput => inputBuffer = <<>>
LineInv == LineTypes /\ LeftoverKnown /\ NoLineOverlooked /\ LinesIndependentOfChunks

(* Lines end with a terminator or after MaxInput bytes.  With both, MaxInput *)
(* cuts off terminators; with neither, only a timeout ends a line.         *)
OneEnd == \A f \in Framings : f.terminator = <<>> <=> f.maxInput > 0

(* Every complete line of the stream is eventually given to an `in`.       *)
AllLinesDelivered == <>(lines = SplitLines[sent])
=============================================================================
