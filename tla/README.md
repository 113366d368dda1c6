# StreamDevice in TLA+

StreamDevice is a device support for EPICS: it lets a record talk to a device
through a byte stream.  A text file holds *protocols*, small programs of `out`,
`in`, `wait`, `event`, `exec`, `connect` and `disconnect` commands with handlers
for errors, and each record executes one of them whenever it is processed.

This directory holds TLA+ modules that model the program, TLC configurations that
check them on small instances, and proofs for TLAPS.  `PROJECT.json` lists the
runs, says which lines each definition stands for and which hazards of the code
the properties are aimed at.  Paths below are relative to the repository, `src/src`
holds the C++ code.

    tlc -config MCStreamCore.cfg MCStreamCore      # a run: see the table of runs
    tlapm StreamCore_proofs.tla                    # the proofs of a module

## The system

### Components

| component | state | operations | modelled by |
|---|---|---|---|
| protocol engine, `StreamCore.cc` | `flags`, `activeCommand`, `commandIndex`, `runningHandler`, `inputBuffer`, `inputLine`, `unparsedInput`, `lastInputStatus` | `startProtocol`, `finishProtocol`, one `eval*` function per command, one `*Callback` per answer of the bus | `StreamCore`; `formatOutput`, `matchInput` in `StreamLine`; `compile` in `ProtocolCompiler` |
| input framing, in `StreamCore::readCallback` and `StreamBuffer::find` | `inputBuffer`, `unparsedInput` | append input, cut a line off, keep the rest | `InputFraming`, `LineReader` |
| EPICS record interface, `StreamEpics.cc` | `record->pact`, `record->scan`, `record->proc`, `status`, the process callback, `initDone` | `process`, `recordProcessCallback`, `protocolFinishHook`, `initRecord`, `streamReload`, `streamGetIointInfo`, `iocPause`, `iocRun` | `StreamEpics`; loading of many records in `ProtocolLoading` |
| bus interface, `StreamBusInterface.*` | none | requests of the engine, callbacks of the bus | the contract between `StreamCore` and `AsynDriver` |
| asyn driver, `AsynDriverInterface.cc` | `ioAction`, queue slot, timer, `eventMask`, `receivedEvent`, `connected` | requests, handlers of the port thread, timer, interrupts, exceptions | `AsynDriver` |
| debug and dummy drivers | none | answer from inside a request | `Immediate` answers in `StreamCore` |
| protocol parser, `StreamProtocol.cc` | protocols with variables, handlers and commands; the list of parsers | parse a file, inherit, expand, compile; free | `ProtocolParser`, `ProtocolCompiler`, `ProtocolLoading`; reference: `ProtocolText` |
| format converters, `*Converter.cc` | none | print and scan one value | `Formats`, `Checksums` |
| `StreamBuffer` | memory, offset, length, capacity | append, set, clear, reserve, remove, truncate, replace, print, find | `StreamBuffer`; abstract: `ByteString` |
| record types, `dev*Stream.c` | fields of a record | read and write a value | `RecordFields` |
| error and debug output | none | print | left out |

### How they interact, and what is hard

One record uses one engine and one bus interface.  A *scan thread* processes the
record: `process()` takes the record's mutex, calls `startProtocol()` and, if the
protocol is still going on, sets `PACT`.  The protocol executes commands until one
needs the bus; the request returns at once, the *port thread* of the bus (or a
*timer thread*, or a thread running a shell command) later calls back into the
engine, which takes the mutex again and executes commands until the next request.
At the end `finishProtocol()` unlocks the bus and calls `protocolFinishHook()`,
which asks EPICS's *callback thread* to process the record once more; that
completes it, and an "I/O Intr" record then restarts its protocol.  `initRecord()`
runs the `@init` handler and waits for its end.  A device that connects
by itself runs `@init` again, and so does `iocRun`; `streamReload`, a change of
SCAN and `iocPause` abort the protocol from yet other threads *without* the mutex.

The records on one asyn port share its one port thread, and input that one record
reads is handed to all that listen.  `AsynDriverInterface` keeps what it is about to do in
`ioAction`, which record, port, timer and driver threads write without a lock.

A protocol gets into the engine in two steps: `StreamProtocol` parses the whole file
once, then copies the protocol for each record, expands variables and the
record's arguments and lets the engine compile it.  At run time the compiled commands
print values of the record with converters and scan the input back into the record.

What is hard, and what the properties are about:

- **the bus lock**: a dozen places lock, unlock, forget or steal it, on normal,
  error, async, refused and aborted paths (`BusLockBalance`, `NothingLeftBehind`,
  `WriteOnlyLocked`, `LockNeverOverdrawn`, `EngineUsedAsSpecified`);
- **waiting**: nothing but the one expected answer wakes a protocol up
  (`RunningProtocolWaits`, `CallbacksExpected`, `StartedProtocolFinishes`);
- **errors in error handlers** (`FailureReported`, `OneHandlerPerRun`);
- **completion**: a protocol end and `PACT` meet in either order, and the end of a
  protocol, the process callback, the next start and an `@init` run interleave
  (`OneCompletion`, `AlarmKept`, `InitBeforeReturn`, `KeepsListening`,
  `ListensAfterRun`, `ProcessingCompletes`, `LoadingCompletes`; violated: `PactEnds`);
- **the queue, the timer and the poll** of an asyn interface, where a request, a
  timeout, unasked input and a poll of the same or another record cross
  (`RequestNotForgotten`, `QueueFree`, `ListeningAlive`, `EventTimed`, `RequestsAnswered`);
- **chunks**: the input arrives in pieces that have nothing to do with its lines
  (`LinesIndependentOfChunks`, `NoLineOverlooked`, `AllLinesDelivered`);
- **memory**: a buffer that moves, reuses and reallocates its memory and takes
  positions and lengths beyond either end (`TypeOK` and `Terminated` of `StreamBuffer`,
  `FindsFirst`, `ReplacesRange`, `ContentKept`);
- **values at the limits** of widths, signs, byte orders, masks and string lengths
  (`ReadsBack`, `DamageDetected`, `CheckValues`, `ClientsTold`);
- **scopes and reloads**: settings come from four places, and a file is edited while it
  is loaded (`OnlyLegalFilesLoad`, `LoadedAsWritten`, `OneVersion`; violated: `StaysInvalid`).

## The modules

    InputFraming <- LineReader                     ByteString <= StreamBuffer
         ^
     StreamCore <= StreamEpics                     AsynDriver
    Formats <- RecordFields <- StreamLine -> Checksums
    ProtocolParser <- ProtocolCompiler <- ProtocolText <- ProtocolLoading

`<-` is EXTENDS, `<=` in addition "implements": `StreamEpics` implements the
specification of the engine (`EngineUsedAsSpecified`), `StreamBuffer` that of a plain
string of bytes (`ContentKept`).  `MC...` modules give the constants values for TLC, `..._proofs`
modules hold the proofs.

### InputFraming: cutting a line off the input

Pure operators for the middle part of `readCallback()` (`StreamCore.cc:1026-1126`):
`SearchStart` is the place where the terminator search starts, `LineAt` the end of
the line and the length of the terminator behind it, `LineText` and `AfterLine`
what becomes `inputLine` and what stays in `inputBuffer`.  Positions are the
code's, -1 for none.

### LineReader: does the chunking matter?

A protocol of `in` commands only, fed with a stream of bytes in chunks of any
size, while an `in` waits (`readRequest`), or before the next one starts ("early
input").  `SplitLines` is the reference: the lines of the whole stream, whatever
the chunks.  The run takes every stream of up to six bytes of
`{x, R, L}`, and a two-byte terminator (which a chunk may cut in two), a one-byte
terminator or fixed message sizes: shorter streams already have a line that spans three
chunks, three lines in one chunk, and false starts such as `R R L`.

`MaxInput` together with a terminator is left out of this run on purpose: the code
(`StreamCore.cc:1079`) cuts a message that is too long and keeps the terminator for the
next line, or not, depending on whether the bytes are already there, so its lines do
depend on the chunks.

### StreamCore: the engine and its bus

The variables have the names of the members.  `call` is the function of the engine
that runs next under the mutex, with its arguments: the functions call each other
last, so that `call` stands for the stack, and `ret` for the value that
`startProtocol()` will return (the outermost function decides it, also if an inner
one has already failed).  One action per function: `EvalCommand`, `EvalOut`, ...,
`LockCallback`, ..., `ReadCallback` and `Parse` (the two halves of
`readCallback()`), `FinishProtocol`, `Cleanup` and `FinishHook` (the handler part,
the bus part and the hook of `finishProtocol()`).

The bus is a set of `outstanding` requests.  `BusTakes` lets it queue a request
and answer later, or answer from inside the request as the debug driver does
(`Immediate`); `BusRefuses` is a request that returns false.  `Answer`,
`AnswerRead`, `EarlyInput`, `AsyncDisconnect` and `AsyncConnect` are the
callbacks; each happens only while nobody is inside the engine, as the mutex
makes sure.  A request that was in the queue when `finish()` was called stays in it as
"obsolete" until the port thread has skipped it, and one the port thread was
executing goes on and answers `late`.  A device's data are one good byte, one bad
byte and a terminator; an `in` matches a set of lines; formatting succeeds or
fails.  Timeouts are answers that come whenever they like: the model has no clock.
Waits that have no timeout get none: the lock of an `@init` run (`BlocksHere`), requests that the bus
queues without one (`Unlimited`: for asyn the disconnect), input in async mode, and shell commands.
An `event` without timeout starts no timer, but may get the timeout of an earlier one.

A protocol is a function from blocks (`commands`, `onInit`, four handlers) to
sequences of commands; the runs use six that have every command, every
handler, handlers that talk to the device or fail themselves.

`Start` starts a protocol when none runs, or when the one that runs is stuck after
a refused request and no longer owns the bus.  What the record does on top (start one while
another runs) is `StreamEpics`'s business.  `Abort` is `finishProtocol(Abort)` as called
by streamReload and SCAN changes: at any time, between any two steps of the engine, since
its callers do not take the mutex.  It is one step, though in the code it is a dozen statements.

### StreamEpics: the record

Composes the engine with `process()` (`Process`, `ProcessStarted`,
`ProcessFailed`), the process callback (`ProcessCallback`, `Restart`),
`protocolFinishHook()` (which replaces the engine's liberal `FinishHook`),
loading (`LoadAsync`, `LoadInit`, `LoadStarted`, `LoadWait`, `Reload`,
`LoadAttach`), SCAN (`ScanToIoIntr`, `ScanFromIoIntr`), and `iocPause` and `iocRun`
(`Pause`, `Resume`, `LoadRerun`).  `load` is what the loading thread, or the hooks of
`iocRun`, still have to do; `callbacks` how often the process callback is
queued, `caller` who waits for the return value of `startProtocol()`.

`EngineUsedAsSpecified` is the refinement: the formula is the engine's own `Spec`, over the
engine's variables, so that the mapping is the identity and every step of the record must be a
step that `StreamCore` allows or leave the engine alone.

### AsynDriver: several records on one port

Each client has what `AsynDriverInterface` keeps of it: `ioAction`, its slot in
asynManager's queue, its timer, `eventMask` and `receivedEvent`; `timed` and `lockTimed` say whether
what it waits for, and its lock, were given a timeout (each request may have one or not, as the timeout 0
of a protocol or of an `@init` run has it).  The queue is one slot
because an asynUser can be queued once; `queueRequest()` refuses a second one.  The *port
thread* (`port`) executes one request at a time: `LockHandler`, `WriteHandler`, `DiscardInput`,
`DiscardEnds`, `WriteEnds`, `ReadHandler`, `ReadData`, `ReadReturns`, `ReadTimeout`, `ReadFails`, `ConnectHandler`,
and `HandleObsolete` for a request whose `ioAction` has changed meanwhile.  The *timer
thread* runs `timerExpired()` in two steps, because it looks at `ioAction` first and queues
a poll later (`PollDue`, `TimerPoll`); timeouts of queued requests that have one are
`HandleTimeout`.  A write that is not finished is queued again with the timeout of the lock.  Input read by one record reaches the others through
`asynReadHandler()`, which changes their `ioAction`.  `EventInterrupt` and
`ExceptionHandler` come from driver threads.

Behind each interface there is an engine, of which only two things matter here:
what it waits for (`wait`) and which command comes next.  The constants say which commands
synchronous and listening protocols have.

### ByteString and StreamBuffer: the buffer

`StreamBuffer` has the class's members, `buffer` as a function from `0..cap-1` to
bytes, and operations that copy, move and clear that memory in the order of the
code's `memcpy`, `memmove` and `memset`, with the four ways of `replace()` and the clipping
of positions and lengths.  `ByteString` says what the operations are to do to a
plain sequence; `BS == INSTANCE ByteString WITH content <- Content` is the refinement.
`spilled` is a history variable: some `print()` had to make room.  A search for one byte from
behind the content is outside of the model: `StreamBuffer.h:207` hands `memchr` the wrapped
difference of two unsigned numbers then (the callers all start at 0), and `FindByte` has no value there.

### Checksums, Formats, RecordFields, StreamLine: values

`Checksums` has all algorithms of `ChecksumConverter.cc`; the CRC tables are computed as
what they are, remainders of a polynomial division, and 32-bit numbers are pairs of 16-bit
halves.  `Formats` has `Print` and `Scan` for every converter but timestamps: `%d`,
`%u`, `%x`, `%o`, `%i`, `%f` on decimal numbers, `%s`, `%c`, `%[...]`, `%{...}`, `%b`, `%r`,
`%R`, `%D`, `%m`, regular expressions that are literals, and the checksums.
`RecordFields` has `readData()` and `writeData()` of all record types.  `StreamLine`
combines them: `formatOutput()` with its separators, `matchInput()`, `matchSeparator()`,
`formatValue()` and `matchValue()`.  A run of it writes a record to a line, may change a byte of the
line, and reads it into a blank record of the same type.

### ProtocolParser, ProtocolCompiler, ProtocolText, ProtocolLoading: from a file to an engine

`ProtocolParser` is `parseProtocol()`: one function per kind of statement, applied to one
statement of a file after the other, with the
scopes, the inheritance of settings, the references to other protocols and all
error exits.  `ProtocolCompiler` is the second step for one record: expansion of
variables and arguments, `compileNumber`, `compileString`, `compileCommands`,
and `StreamCore::compile()`.  `ProtocolText` is a reference that does not parse:
which files are legal, and what each protocol contains, as sets of positions in the text, after
the rules of `docs/protocol.html`, with one exception: what a reference in an assignment means follows the
code, which looks among the global variables only (`StreamProtocol.cc:650`), while the document
has the value at this point, also one the protocol has set.  `ReferencesAsDocumented` states
the document's rule; no run has it, since the code does not keep it.  Which block a statement lies in follows from how deep the
blocks are nested (`Depth`, `Encloses`), and what a variable or a protocol name refers to is a position
before it (`Expanded`); there is no state and no context as in the parser.  The list of protocols of a parser is a
set, since their names differ, and settings and blocks of code that are compiled one after the
other are functions with `Reached`: those before the first that is refused.  A number with garbage behind it is
refused, but has been stored by then (`Stored`, `Garbage`).  `ProtocolLoading` is the life of the
parsers: iocInit and `streamReload` load records in turn, scan threads process
records meanwhile, and somebody edits the file.

## The runs

| run | configuration | what it shows |
|---|---|---|
| `lines` | all chunkings of all short streams | the lines an `in` sees do not depend on the chunks, none is overlooked, all are delivered |
| `core` | six protocols; requests that end the protocol may be refused, any answer may come late or at once | lock, waiting and error properties of the engine; a protocol ends, or hangs in a wait without timeout |
| `core_abort` | two protocols, aborts between any two steps | an abort may leave the bus locked, but never makes the engine release a lock it does not have |
| `record` | passive and I/O Intr record, one line per read | each protocol is completed once with its own alarm, every processing completes, the engine is used as specified, `initRecord` waits for `@init` and returns; what hangs, hangs in a wait without timeout |
| `listening` | I/O Intr record that reads, or waits for an event and has a handler for its timeout, with unsolicited input, disconnects and connects, `iocPause` and `iocRun` | it never stops listening while the IOC runs |
| `disturbed` | streamReload and SCAN changes at any time | listening goes on, unless the last run was an `@init` |
| `asyn` | a record with all commands and one that listens and polls, on one port | no accepted request is lost or stays in the way of the next; listening never falls asleep, nor does waiting for an event with a timeout; every request that has a timeout is answered, whatever others wait for without one |
| `buffer` | all sequences of operations | the buffer stays within its memory, is followed by zeros, and does what it does to a plain string |
| `values` | some 7000 cases of formats, records and values | what is written is read back, damage is detected, the documented checksums are those computed, clients of output records are told |
| `protocol` | some 1000 files, two records, edits and reloads | exactly the legal files load, records get what the text says (references in assignments as the code has them), a reload is all of one version |
| `pact_stuck`, `reload_failed` | | violated: see below |

Every property of a passing run has a mutant of the code (definitions named
`Mut...`) that violates it under the same configuration.

### Bounds, and why they are enough

*Engine and record.*  The terminator has one byte: longer ones are the subject of `lines`.
`MaxBuffer` bounds what piles up in `inputBuffer` (at least one complete line and one piece of the next,
or two lines), `MaxLocks` how far
the lock count may go off in either direction before TLC stops following it,
`MaxCallbacks` how often the process callback is queued: in `record` a second one would
already violate `OneCompletion`; in `listening` two are reached.  `Refusable` has the requests that the bus may refuse:
those whose refusal the engine handles (the others are the divergence `refused_hangs` below).
`disturbed` has 2.3 million states and `listening` 4.1 million; each leaves out
what the other has, because the product of reloads and reconnects is out of reach.
The device of `listening` sends one kind of line; a mismatch is that of the
protocol `Mismatched`, whose second `in` expects something else.

*asyn.*  Two clients, one of each kind, and one event bit.  A record meets
the port in three ways only: its own request is executed, another one's is, or it is
handed another one's input; two clients have them all.  Three clients (4,052,258 states, safety
only) gave nothing new.

*Buffer.*  `Local = 3` bytes inside the object instead of 64, one allocation to 6, byte values
`{0, 1, 2}`, numbers from -3 to 2, texts of at most three bytes: positions before, in and
behind the content, texts that fit, that make the content move, that need an
allocation, and that do not fit at all.  The proofs have no such bounds.

*Values.*  `LongBytes = 2`, so that a long overflows at 32767; doubles are decimal numbers
with one digit behind the point.  `MCStreamLine` lists the formats (flags, widths, precisions),
and the values at the limits of each; noise puts one other byte anywhere in lines with
checksums.

*Protocols.*  864 files are put together from six beginnings, six bodies of a first
protocol, four passages and six bodies of a second one, such that each kind of reference
and inheritance meets each other; the rest are one file with a statement
removed, inserted or cut off, at every place.  A whole file is edited to a broken one
and that repaired to another one, or it is no longer there.

`CHECK_DEADLOCK FALSE` is set where the system may stop: in `lines` the stream ends; in `disturbed`
a reload that replaces a running `@init` leaves `initRecord` waiting for
good; in `buffer` the memory of the last capacity is exhausted; in `protocol` and
`reload_failed` nobody edits the file and the records have failed to load.

### Fairness

`lines`: the device sends its stream and the protocol goes on (weak fairness of
`Next`).  `core`: who is inside the mutex goes on (`WF` of `EngineStep` and
`StartReturned`; no engine function blocks), and the bus and the timer get their
answers in (`SF` of `AnswerStep`, since early input or reconnects may come first again and again), but
only as long as everything that is waited for has a timeout (`~WaitsWithoutLimit`).  Nothing is assumed
of the others: the lock of an `@init` run ("block here", `AsynDriverInterface.cc:500`), requests queued
without a timeout, an `event` without one (`AsynDriverInterface.cc:1228` starts no timer), a shell
command, and an `in` in async mode.  They may be answered or not.  So `StartedProtocolFinishes`,
`ProcessingCompletes` and `LoadingCompletes` say that what was started comes to an end, or hangs for
good in a wait that has no limit (`\/ []WaitsWithoutLimit`): nothing else can stop it.
`record`: in addition the callback thread and the loading thread get their turn
(`SF`, since they compete for `dbScanLock` and the mutex).
`asyn`: the engines go on with their commands (`WF` of `RequestStep`); a queued request that has a
timeout is executed or times out
(`SF` of `HandleTimeout`, which needs `timed`, since the port thread may take it first); and the port
thread goes on: old input comes to an end, a write ends, and a
read returns or times out (`SF` of `HandlerGoesOn` and `ReadTimeout`: a driver call has a
timeout, but a device may send on and on).  Nothing is assumed of polls, events, connections and
requests without a timeout; `RequestsAnswered` speaks only of those with one (`Limited`), although others may
hold the port for ever.

### Where the code does not do what the documents say

Two of these are kept as runs that TLC must find violated.

- `pact_stuck`: `process()` sets PACT after `startProtocol()` has returned, also
  when the protocol has already finished inside it, because all its input was left
  over (two lines in one read).  The finish hook has then seen PACT=0 and no
  process callback comes.
- `reload_failed`: `docs/setup.html:369` says that a record whose protocol cannot be
  reloaded stays INVALID/UDF.  `streamReadWrite()` refuses a record only while its status is
  ERROR, but streamReload sets UDF_ALARM first, and a failed load leaves it so: the next
  processing runs what is in the engine, the old protocol or half a new one.

The others are found with the modules as they are, by changing one constant or adding a property to a
configuration:

- *a refused request hangs* (`RunningProtocolWaits` in `MCStreamCore.cfg` with `"write"`, `"read"` or
  `"connect"` in `Refusable`): a request that is refused in the middle
  of a protocol makes an eval function return false, which nobody looks at.  The
  protocol keeps the bus locked and waits for nothing.
- *a lost lock* (`BusLockBalance` in `MCStreamEpics_record.cfg` with `Reconnects = TRUE`):
  processing a record while a reconnect runs its `@init` clears
  `BusOwner`; the bus stays locked.
- *`@init` of `iocRun`* (`PactEnds` or `BusLockBalance` there with `Pauses = TRUE`, also for a passive record): `iocPause` does not
  wait for active records, and `iocRun` starts `@init` over them.  The lock flag of the
  interrupted protocol is cleared and its PACT stays set, since only the end of the
  `@init` is reported.
- *aborts* (`RunningProtocolWaits`, `BusLockBalance` in `MCStreamCore_abort.cfg`): a callback that has passed the
  `Aborted` check goes on with a protocol that is aborted meanwhile.  An abort during an error handler or
  `@init` does not set `Aborted` at all and has the same effect.
- *a forgotten request* (`RequestNotForgotten` in `MCAsynDriver.cfg` with `ListenCommands = {"out"}`): input
  for another record resets `ioAction` while a write of a listener is in the queue, which
  is then skipped.
- *late events*: an event that comes after the timeout is remembered
  although nobody waits for it (`EventTimeout` keeps `eventMask`; `docs/businterface.html:647` has it
  cleared).
- *waits without a limit*: an `@init` run (also one of a processing with PROC=2) blocks as long as the port
  is disconnected or locked by another record, and `initRecord` or the record with it; so does what is left of
  a write in `@init`, which is queued again with the timeout of the lock (`AsynDriverInterface.cc:700`), and an
  `event` without timeout.  `StreamCore.cc:627` and its comment mean it so.
- *a left-over timer*: an `event` without timeout does not cancel the timer of an earlier one that was
  answered in time, and then ends with its timeout (`wait[i] = "event" /\ ~timed[i] /\ timer[i]` is reached
  in `MCAsynDriver.cfg`).
- `AlarmKept` does not hold with reconnects or `iocRun`: the `@init` run resets
  the alarm of a failed protocol before the process callback reports it.
- `OneCompletion` does not hold with reconnects: while the end of an `@init` run that was started by
  processing (PROC=2) waits for its process callback, the `@init` of a reconnect queues a second one.
- `InitBeforeReturn` does not hold with streamReload or reconnects: an `@init` that could
  not be started, or that nobody waits for, signals `initDone`, and the next reload does not wait.
- `LoadingCompletes` does not hold with streamReload: an `@init` run that is
  replaced by a start of the record never signals `initDone`.
- `KeepsListening` does not hold with streamReload: the reload restarts the I/O
  Intr protocol and then replaces it by `@init`, after which nothing restarts it.
- `LockNeverOverdrawn` does not hold with streamReload: `releaseBus()` leaves
  `BusOwner` set.
- `streamReload()` does not take `dbScanLock`: a scan thread can start the old protocol
  after the abort and before the new one is compiled into its engine.

The parser, compared with `docs/protocol.html`:

- *local variables* (`INVARIANT ReferencesAsDocumented` in `MCProtocolLoading_invalid.cfg`):
  `docs/protocol.html:341` says that a reference is replaced by the value of the variable at
  this point, and line 548 that a variable, once set, can be referenced later in the protocol.  In an
  assignment `parseValue()` looks among the global variables only (`StreamProtocol.cc:650`): after
  `x = "7";` in a protocol, `terminator = $x;` silently gets the global `x`, and if there is none, the whole
  file is refused.  TLC finds the first with a file that has `x = "a";` in front of that protocol.
  References in commands are replaced later, and do see what the protocol has set.
- a number that comes from a variable of several tokens ends with its first one
  (`compileNumber`, the tokens are separated by zeros); a parameter inside a variable is no number in `wait $x`;
- `ExtraInput` compares only the first token of its value;
- a protocol that is referenced as a command is expanded with the last values of its variables.

Values.  The properties of `values` exclude these by named conditions (`NumberFits`, `TextFits`,
`RecordFits`, `DamageDetected`, `ClientsTold`):

- checksums: with the most significant byte first in ASCII the result of `sscanf` is ignored
  (`ChecksumConverter.cc:945`), so that any text passes with some left-over value; the decimal form stops at the first
  non-digit;
- BCD: the little-endian scan loses every second digit (`BCDConverter.cc:100-104`) and consumes
  the offending byte; a width larger than the bytes needed writes into earlier output;
- raw integers: a little-endian width of one more than a long shifts by more than the
  width of a long, wider ones consume one byte too few (`RawConverter.cc:115`);
- `%.1m` has no point but removes the `e`; `%0Ns` of a longer string
  truncates what was printed before; `%i` with zero padding reads back octal; a space flag makes the width wrap around;
  `strtoul` accepts a second sign; a negated charset of bytes 1-7 accepts them;
- `%#/regex/subst/` with a precision but no `+` replaces the first match, not the one asked for (`formats.html:709`);
- an enum string that begins with an earlier one is never matched;
- `mbbo` with names but no values reads back 65535, and an unmatched string is accepted
  (`devmbboStream.c:44-75`, which also compares `lalm` after assigning it); `ao`'s readback skips LINR (`devaoStream.c:52`);
  `scalcout` tells nobody, `calcout` compares with MLST instead of ALST
  (`devcalcoutStream.c:62`);
- a separator or `%*Nr` may pass the end of the line, which then matches with `ExtraInput = ignore`;
  values are stored although a later part does not match; a trailing separator of an array is consumed;
- the string form of CHAR arrays counts the terminating zero in NORD
  (`docs/aai.html:99`, `docs/waveform.html:97`); `%(FIELD)` into a CHAR array matches even when the scan fails.

`StreamBuffer`: `print()` that makes room leaves a tail that is not zero, against the hint at
`StreamBuffer.h:60`; `append(c, -7)` on five bytes keeps the last two; `remove(-10, 2)`
deletes everything; the search for a byte from a negative start always begins at 0.

## The proofs

| module | theorem | statement | under |
|---|---|---|---|
| `LineReader_proofs` | `ChunksDoNotMatter` | `Spec => []LinesIndependentOfChunks` | `OneEnd` |
| | `WaitingHasNoLine` | `Spec => []NoLineOverlooked` | `OneEnd` |
| `StreamCore_proofs` | `TypeCorrect` | `Spec => []TypeOK` | |
| | `FailureIsReported` | `Spec => []FailureReported` | |
| | `AtMostOneHandler` | `Spec => OneHandlerPerRun` | |
| | `LockIsNeverOverdrawn` | `Init /\ [][AbortNext]_vars => []LockNeverOverdrawn`: with aborts | |
| | `BusLockBalanced` | `Spec => []BusLockBalance` | |
| | `NothingIsLeftBehind` | `Spec => []NothingLeftBehind` | |
| | `EveryCallbackExpected` | `Spec => []CallbacksExpected` | |
| | `WritesOnlyLocked` | `Spec => []WriteOnlyLocked` | |
| | `RunningIsAwaited` | `Spec => []RunningProtocolWaits` | `RefusalsEnd` |
| `StreamEpics_proofs` | `RecordImplementsUse` | `RecordSpec => Spec` (of the engine) | `Undisturbed` |
| | `EngineWorksInRecord` | lock, waiting and left-over answers as above, in a record | `Undisturbed` |
| | `CompletedOnce` | `RecordSpec => []OneCompletion` | `Undisturbed` |
| | `InitIsAwaited` | `RecordSpec => InitBeforeReturn` | `Undisturbed` |
| | `AlarmIsKept` | `RecordSpec => AlarmKept` | `Undisturbed` |
| | `DisturbedRecordListens` | `RecordSpec => []ListensAfterRun` | `CanListen`; `HasInit` or `NeverConnects` |
| | `PausedRecordListens` | `RecordSpec => []KeepsListening` | `CanListen`, `NeverConnects`, no reload or rescan |
| `AsynDriver_proofs` | `TypeCorrect` | `Spec => []TypeOK` | |
| | `RequestsKept` | `Spec => []RequestNotForgotten` | `ListenCommands = {}` |
| | `QueueFreed` | `Spec => []QueueFree` | `ListenCommands = {}` |
| | `ListenersStayAlive` | `Spec => []ListeningAlive` | `ListenCommands = {}` |
| | `EventsAreTimed` | `Spec => []EventTimed`: events that have a timeout | `ListenCommands = {}` |
| `StreamBuffer_proofs` | `WithinMemory` | `Spec => []TypeOK` | |
| | `EndsWithZeros` | `Spec => []Terminated` | |
| `StreamBufferContent_proofs` | `IsByteString` | `Spec => ContentKept`, the specification of `ByteString` | |
| | `ReplacesPromisedRange` | `Spec => []ReplacesRange` | |
| | `SearchFindsFirst` | `Spec => []FindsFirst` | |
| `ProtocolText_proofs` | `ParserRight` | every file: `ParseProtocol(f)` is valid iff `LegalFile(f)`, and then has the protocols that the text defines; `ProtocolText` has the code's rule for references in assignments | |
| | `CompileIs` | `Compile` accepts a protocol or not, and to what, whatever the engine held | |
| `ProtocolLoading_proofs` | `OneVersionLoaded` | `Spec => OneVersion` | |
| | `OnlyLegalFilesLoaded` | `Spec => []OnlyLegalFilesLoad` | |
| | `LoadedIsWritten` | `Spec => []LoadedAsWritten` | |

They hold for every value of the constants: all sets of protocols, inputs and terminators, all
streams and chunks, buses that refuse or answer at once whatever they like, any number of records,
listeners and events on a port, all byte sets, texts, arguments and capacities of a buffer, all files and
edits.  The assumptions on the constants (`...Assumption`) only give types (`LoadingAssumption`: a file that
can be read is a sequence of statements, of any length).  The last column has the
conditions:

- `RefusalsEnd`: the bus refuses only requests whose refusal ends the protocol.  `Undisturbed`: in
  addition nobody reloads, pauses or rescans the record and the device does not reconnect by itself.
  `ListenCommands = {}`: listening protocols only listen.  Without them TLC finds the
  statements violated (the divergences above).
- `OneEnd`: a line ends either with a terminator or after `MaxInput` bytes.  With both, the lines do
  depend on the chunks (`StreamCore.cc:1079`, see `LineReader` above); with neither, only a timeout
  ends a line.
- `CanListen`: what an I/O Intr record needs at all, a protocol with commands and a bus that reads
  asynchronously.  `HasInit`: every protocol has an `@init` handler.  `NeverConnects`: the device does
  not connect by itself and no protocol has a `connect`.  With a `connect` and without `@init` TLC
  finds `ListensAfterRun` violated (`MCStreamEpics_disturbed.cfg` with the protocol `connect; out; event`
  and an `onReplyTimeout`): the answer to an aborted `connect` comes while the handler of a stale
  event timeout waits for the bus.  No command is active then, so `connectCallback()` starts
  `@init`, which clears all flags and fails since there is none.  With devices that
  connect by themselves alone TLC finds no violation; the proof would need to know which requests can be
  outstanding after an abort, so the condition excludes them as well.

The theorems about the engine and an undisturbed record leave out aborts; `LockIsNeverOverdrawn`
and `DisturbedRecordListens` have them.

*Lines.*  `LineInv` says that the lines given out, followed by the lines of the rest and of
what the device still sends, are those of the stream, that nothing is parsed twice or kept when it
is no leftover, and that a waiting reader has no complete line.  The proof needs two facts: appending a chunk
moves no line end that has been found (`EndStays`, `CutStays`), and starting the search `SearchStart` bytes before the
new chunk misses none (`SearchMissesNothing`: a terminator begins at most its length minus one before the
chunk).  `SplitLines` is a recursive function, so that what it returns needs
induction over the length of the stream.  The induction theorems of the library cannot be used; instead
`RecursiveLists` shows that such a function exists, from the
least number for which it would not (`LeastNatural`), and `SplitStep` is its unfolding.
`StreamCore_proofs` has the lemmas about a line that the engine rests on: `FindResult` (what
the search returns is an occurrence), `LineWithinBuffer` (a line and its terminator lie
within the buffer, and the line within `MaxInput`) and `LineSplitsBuffer`.

*Types of the engine.*  `TypeOK` is not inductive: `FinishProtocol` copies the status of a call
into `runningHandler`, so the status of a call must be a `ProtocolResult` there
and a bus status in `readCallback`.  `TypeInv` adds that.

*The lock.*  `BusLockBalance` alone says nothing of who may call back next.
`BusInv` adds, as named conjuncts: `OneAnswer` (a protocol waits for at most one
answer and for none while the engine runs), `CallMatches` (which command is active
while a function runs), `PendingMatches` (each pending flag and the request or
callback it stands for, with the exceptions that refused writes and disconnects
make), `OwnerMatches` (who has the bus when) and `NoAbort`.  `EngineBus` and
`EnvironmentBus` show with one lemma per group of actions that every step keeps
it; the theorems follow from it without further steps.

*The lock with aborts.*  Here the balance is lost: an abort may forget a lock.  `LocksCover` is what remains,
and says more than `LockNeverOverdrawn`: there is one lock for the owner of the bus *and* one for a
`lockCallback` that is about to make the record the owner, so that no abort between the two
can leave an owner without a lock.

*Waiting.*  That a running protocol waits for its answer needs to know what each
command waits for: `WaitInv` (`Awaits`) on top of `BusInv`.  It is kept only if no
request can be refused and leave its command hanging.

*Errors.*  `ErrorKept` says that `runningHandler` holds the first error until the
run is reported, and that no handler runs without one.

*The record.*  `OneCompletion` does not say who is about to queue the next
callback.  `RecordInv` divides the life of a record: while it loads only its `@init` handler
runs (`LoadingInv`, `NotScanned`), afterwards a protocol, its process callback and
its restart exclude each other (`ScannedInv`).  Together with `TypeInv` and `BusInv` of the
engine it is inductive, and each step from a state where it holds is a step of the engine's `Next` or
leaves the engine's variables alone.  That is the refinement, and it carries the
engine's theorems over to the record.

*Listening.*  `ListenInv` follows a record from the start of its listening protocol (`Subscribed`) through
everything that may come in between: unless an `@init` run came since, the protocol goes on
(`GoesOn`), waits for an answer, or its restart is to come.  `TasksInv` has the orders in which the
loading thread works.  The proof found a case that the earlier statement of both properties
did not have: a timeout of an `event` that arrives while the error handler of the
same protocol waits for the bus.  No command is active then, but the answer of the bus is still to come
(`flags \cap BusPending`); both properties and the protocol `Prompted` of the `listening`
run now include it.  Reconnects together with `KeepsListening` stay with that run.

*asyn.*  `QueueInv` says of each interface that what is queued, what `ioAction` says, what the
port thread executes and what the engine waits for are the same request
(`OneRequest`), and that synchronous and listening interfaces do not use each other's actions (`Separate`).  `TimerInv`
adds that a listener that waits is about to read (`ListenerReads`); without it a timer that
expires could find an action that does not start the next poll.

*Buffer.*  `IInv` is `TypeOK /\ Terminated`: only together are they inductive.  One lemma per
operation follows its copies and clears; the four ways of `replace()` have one each.
For the refinement, `Holds` says that a memory has a string at a position; it is kept by writes
elsewhere (`HeldBesideWrite`, `HeldBesideZero`), and each operation is followed write by write until
the memory holds the string that `ByteString` names.  `FindText` is recursive in its start:
the recursion has a solution (`SearchSolved` writes it down), and every solution finds the
first place, since the greatest start where one did not would contradict `SearchStep`.

*The parser.*  It goes through a file once and keeps a context, while `ProtocolText` speaks of
blocks that enclose each other and of references to positions, so both have to be brought to the same
step.  `Open(f, n)` are the blocks that are open after `n` statements; in a file that is legal
so far these are at most a protocol and a handler (`Blocks`, `BlocksStep`).  `GlobalsUpTo` and `ProtocolUpTo` are
what the settings and a protocol have come to by then, in terms of the text only, and `StateUpTo` is the state that the parser
must have.  For each of the five kinds of statements one lemma (`AssignmentFollows`, `HandlerFollows`,
`ProtocolFollows`, `CloseFollows`, `WordFollows`) shows that the parser goes from `StateUpTo` of `n` to
that of `n + 1`, or that the statement is not legal and the parser says so.  They rest on what a statement adds
to the entries of a name (`EntriesAdd`: the last one counts; `EntriesChange`: a word in a handler
goes into the last handler of that name, which is the open one, `LastHandler`) and leaves alone: the global settings, and protocols that
have ended (`DoneSame`).  A reference to a protocol finds one that is complete and stays as it is, so copying
its commands now (the parser) and looking them up in the whole text (`Expanded`) is the same (`WordMeans`).  `AllMeans`
takes it to the end of the file; as the induction theorems of the library
cannot be used, it goes by the first statement after which it would not hold (`LeastNatural`).  The recursive
functions of `ParseProtocol`, `Expanded` and `FlattenSeq` exist for the same reason (`ParsedExists`,
`ExpandedExists`, `JoinedExists`).

*Loading.*  `VersionInv`: the contents that a reload may have seen (`SeenInv`), at most one parser
(`OneParser`), and the parser stems from one of them as long as a load goes on.  `LoadInv` adds that a parser is made
from a content of the file and nothing else (`FilesInv`), and that every record whose
last load has succeeded has what the text says (`Written`).  Neither edits nor reloads of other records nor failed loads
change that, and a load that succeeds writes all settings and all blocks of code, so that nothing a failed one
has left in the engine remains (`CompileIs`).

Only model-checked: liveness (`StartedProtocolFinishes`, `ProcessingCompletes`, `LoadingCompletes`,
`RequestsAnswered`, `AllLinesDelivered`: out of TLAPS's reach, like ENABLED); `KeepsListening` with
reconnects; and the values (`ReadsBack`, `DamageDetected`, `CheckValues`, `ClientsTold`, with the `TypeOK`
of `StreamLine`), whose modules use recursive and bitwise operators.

## Not modelled

- **characters of a protocol file**: `readChar` and `readToken`, quotes, escapes and
  comments.  The models begin with tokens; a token that cannot be read is `junk`.  The binary form of
  compiled commands and formats is left out: a format is a record, a command a
  text that compiles or not;
- **timestamps** (`TimestampConverter.cc`): `scantime()` is a parser of its own with date arithmetic of
  the C library, whose mistakes (a month missing in a table, the sign of the zone, days and
  hours mixed up at lines 512-516, a fraction with trailing zeros at 433) are statements of
  single lines, which a unit test reaches;
- **regular expressions** other than literals: pcre is a library;
- **redirection** of values to fields of other records, except one array field;
- **shell functions and the splitting of the I/O link** (`StreamEpics.cc`): they print or split
  text and keep no state;
- **asyn itself**: looking up ports and interfaces, `streamReinit`, the end-of-string settings of the
  port, priorities of the queue.  The queue is modelled as this driver uses it;
- **registry of bus types and converters**: filled once by static constructors;
- **clocks**: poll periods and timeouts happen at any time;
- **logging**, error throttling (`numberOfErrors`, `previousResult`) and wording;
- **data races inside one statement**: an abort is atomic, and so are an answer's
  arrival, its `Aborted` check and the lock count; `iocPause` and `streamReload` meet a record
  only while nobody is inside the engine (`core_abort` has the others);
- a record is reloaded, rescanned or paused one at a time, and the IOC is not reloaded while it is paused.
