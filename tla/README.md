# Verification of rylr998-rs in TLA+

`rylr998-rs` drives a REYAX RYLR998 LoRa module over a serial line. One sans-I/O
protocol state machine (`rylr998-core`) is shared by a blocking host driver
(`rylr998-std`), an async one (`rylr998-tokio`), a `no_std` one
(`rylr998-embassy`) and a command line (`rylr998-tool`). This directory holds the
TLA+ modules that model it, TLC configurations that check them on small
instances, and theorems that TLAPS proves for all values of the constants.

## 1. The system

### Components

| Component | State | Operations | Made correct by |
|---|---|---|---|
| `core/driver.rs` `Driver` | `rx`, `tx`, `tx_in_flight`, `state` (Idle, SendingTx, Awaiting kind), `awaiting_ready_as_ok`, `pending_kind`, scratch `line_buf` | `submit`, `push_rx`, `ack_tx`, `poll` | each accepted byte handed out once, in order; one command in flight, one reply of its kind; buffers within capacity; draining ends |
| `core/encode.rs`, `decode.rs` | none | command to bytes, line to response or event | round trip, bounds on lengths, total on any line |
| `core/types.rs` | none | the vocabulary: commands, responses, events, errors | |
| `std/radio.rs` `Radio` | the driver, the port, `events` (VecDeque) | 16 command methods, `next_event`, `pump_until` | an answer goes to the call that asked; no event lost; every call returns |
| `std/port.rs` | none | find and open a serial port | one candidate or an error |
| `tokio/lib.rs` `AsyncRadio` | owner side: job sender, event receiver | the command methods through `request`, `next_event` | as std, with no deadlock between owner and task |
| `tokio/lib.rs` `run_task`, `process_job` | the driver, the port, read buffer, job receiver, event sender | select loop, one job at a time | answers to the right oneshot, events forwarded in order, ends with the handle |
| `embassy/lib.rs` `Radio` | the driver, the UART | command methods, `next_event(handler)`, `pump_until` | as std but events during a command are logged and dropped |
| `tool` | none of its own | `info`, `provision`, `send`, `listen`, `reset` | a provision that succeeds left its settings in the module; every session ends |
| The RYLR998 module | outside the repository | answers commands, sends `+RCV` and `+READY` | |

### How they interact

The hosts own the driver and call it synchronously: `submit` once per command
method, then a pump that alternates `poll` until `Idle` with a read of at most 256
bytes handed to `push_rx`; bytes returned by `NeedTx` are written and then
acknowledged with `ack_tx`. The std and embassy crates do so on the caller's thread
or future. In the tokio crate a background task owns driver and port; the handle
sends it jobs over a bounded channel with a oneshot for each result, and receives
events over a second bounded channel.

### What is hard

* **Order of driver calls.** `submit`, `ack_tx` (with any count) and `poll` may come
  in any order; `tx`, `tx_in_flight`, `state` and `pending_kind` must agree throughout.
* **Framing.** Reads cut the byte stream anywhere, also between `\r` and `\n`;
  unsolicited lines arrive between any two lines of an exchange.
* **Timeouts against late answers.** A call that gives up leaves its command in flight.
* **I/O failure half way.** A write fails after some bytes, a read fails with lines buffered.
* **Two actors (tokio).** Channels that fill, futures that are dropped, a handle that
  goes away, a port that closes.
* **Termination.** The drain loops, the recursive call in `poll`, every wait.
* **Sizes.** 512 bytes of `rx`, 288 of `line_buf`, reads of 256; integers of four widths.
* **Futures dropped (embassy).** Between the write of a command and its acknowledgement,
  or in a read, with no task to carry on.
* **Restarts (tool).** Each run of the tool starts with a fresh driver on a module that
  may still be at the command of the run before.

`PROJECT.json` lists each hazard at its line with the properties that cover it.

## 2. Modules

```
CommandSlot  <--refines--  DriverLoop ----extends---> Driver <---extends--- DriverTrace
                                                        ^
                                                   SerialRadio
                                                        ^
                               TokioRadio     StdRadio, EmbassyRadio --refine--> HostRadio

Codec <--extends-- Link            Tool            RxSizing

Proofs (each extends the module it is about):

DriverProofs (Driver, DriverTrace, DriverLoop)
     ^
SerialProofs <---- StdProofs, EmbassyProofs, TokioProofs

LinkProofs (Codec, Link)      ToolProofs      RxSizingProofs
```

**Driver** is `core/driver.rs`. `Submit`, `PushRx` and `AckTx` are its methods; `Poll`
is a disjunction with an action per way a call of `poll` ends. `PollResetEcho` is the
branch in which `poll` calls itself: it returns `"Repoll"`, and no other method may be
called until the inner call has returned. `PollPanic` is the slice of `line_buf` that
is too short. `ret` is what the last method returned.
The data is abstracted to what the driver tells apart. A received line is one token
with the prefix it starts with, whether `decode.rs` parses the rest and a value,
followed by a CR and an LF token, so that a read may still cut a line short or end
between the two. A unit of `tx` is the command it belongs to; `EncodedLen` says how
many units a command has, so that partial acknowledgements and partial writes exist.

Its `SlotInv` and `DrainTerminates` hold for every caller.

**DriverTrace** adds two history variables, all that was submitted and all that was handed
out, and relates them to `tx` (`WireInv`).

**DriverLoop** restricts the caller to the documented one: after `NeedTx`, write and
acknowledge all of it. Its refinement mapping reads the abstract slot off the driver's
fields: the phase is the tag of `state`, the kind is `pending_kind` while sending and
the kind in `Awaiting` after, the reset bit is `awaiting_ready_as_ok`.

**CommandSlot** is the abstract promise: a free slot is taken by a command with the kind
of reply it waits for, sent as a whole, and resolved once by a reply of that kind, an
error, or nothing (a reply that does not parse); a reset also by the module's restart.

**SerialRadio** is the module on the other side of the line, as the code expects it to
be: it executes whole commands in order, answers late or never (`MaxLost` times), and
sends `+RCV` at any time. It is external: nothing under `src/` implements it. It says
nothing about half a command with another behind it, because no host ever writes that
(`NothingBehindHalf` of EmbassyRadio; after a write that stopped every `submit` is Busy).

**HostRadio** is what a host crate promises to the application that owns the `Radio`: one
command is owed an answer at a time, and an answer is returned by its own command's call
or by none; events are given once each, in order. With `MayDrop`, events that come up while
a command runs may be dropped: the crate without a queue logs them.

**StdRadio** is `std/radio.rs` over Driver and SerialRadio. `CallCommand` is any of the
command methods, `CallNextEvent` is `next_event`, and `pc` walks through `pump_until`:
`poll`, `write`, `read`, `deadline`. The module and the clock move between any two of
these steps. The methods differ only in the command, so `CallCommand` takes it as a
parameter. A read returns any prefix of what the port holds, of at most `CHUNK` tokens.
It implements HostRadio: a command is running while `pc` is in its call, owed while the
driver's `state` is not Idle, and the events gone are those `next_event` returned.

**EmbassyRadio** is `embassy/lib.rs` in the same way. Its two loops, `pump_until` and that
of `next_event`, differ in what an event and a response lead to (`PollHandsOutEvent`,
`PollHandsOutResponse`) and share every other step. The deadline is looked at before the
read, and `with_timeout` ends a read at the deadline (`PumpReadTimesOut`). Where the code
awaits the UART, it may fail or the future may be dropped (`WriteStops`, `WriteUnacked` if
all bytes were out by then, `ReadStops`); the write and `ack_tx` are one step otherwise,
since there is no await between them. A reset that went out without its `ack_tx` keeps its
bytes in `tx` when its `+READY` frees the slot (`driver.rs:251`): the next command is handed
out with them and never becomes the awaited one. It implements HostRadio with `MayDrop`.
`cpin` turns an answer without a password into an error of its own; here it is an answer.

**TokioRadio** is `tokio/lib.rs`: an owner (`request`, `next_event`, dropping the future
of a call, dropping the handle) and a task (`run_task` in `select`, `idle_*`;
`process_job` in `job_*`), whose steps are what each does between two awaits. A failed
read in the select loop is `continue` in the code and so a stutter in the model.
`Replies` delivers a result only to the request whose oneshot is still there. Timeouts may
strike whenever what they guard has nothing to give, so no clock is kept.

**Codec** is `encode.rs` and `decode.rs` as functions over sequences of bytes: the decimal
writers, what a Set command carries, the answer to each query, and the `+RCV` parser. The
prefix of an answer is one symbol, and so is the text `No Password!`; `+RCV` and the `=` behind
it are two, because `poll` looks for the first only and `parse_event` for both.

**Link** puts Codec on a wire: the module answers with the text it was sent, peers' payloads
come in as `+RCV` lines, reads end anywhere, `MaxNoise` bytes get lost. The host is the
receiving half of the driver: the framing of `next_line_end`, the two kinds of line that
`poll` consumes, `push_rx` into a bounded `rx`, of which it keeps what fits. `dropped`
remembers that `poll` returned Idle for a line that did not parse: the host then reads on
with lines still in `rx`. A prefix is lost as a whole, and a setting is set and queried in one
step, without the `+OK` between the two: Tool has both steps.

**Tool** is `main.rs`, `commands.rs` and `std/port.rs`: a session opens a port, or fails to,
and makes the calls of its plan one after the other. A call is what StdRadio shows it to be,
taken here in two steps, the submission and the service of lines until one resolves it or
the deadline passes. A session may be killed anywhere; the next one starts with a fresh
driver while the module may still hold one earlier command (`StartTool`).

**RxSizing** counts bytes. `rx` holds whole lines that `poll` left there (`behind`), then the
beginning of one line (`held`, with `left` to come); a read of at most `CHUNK` bytes is pushed
on top, and `poll` takes the whole lines, all of them or those up to a response (`Leaves`: the
tokio task stops there). `push_rx` drops what does not fit and the behaviour goes on behind
the hole (`Resumes`): `framing` is then "damaged", a line may be merged with the next or the
framing jammed, and "overlong" is the line at which `poll` panics. What a damaged line means
to `poll` is left open: it takes it, stops at it, or stays at it.

Operators that begin with a comment "Mistake:" stand beside the definition they differ
from. Each is a plausible bug in the code, and substituting it for the original makes
one property of one run fail (`PROJECT.json`, `mutants`): they show that the property
depends on the code. No specification uses them.

## 3. What is checked

Runs that pass (`tlc -config X.cfg M`):

| Run | Module, cfg | Question and answer |
|---|---|---|
| `driver` | MCDriver | For a caller that calls anything at any time: fields agree (`SlotInv`), each accepted unit is handed out once and in order (`WireInv`), and draining ends (`DrainTerminates`). |
| `driver_loop` | MCDriverLoop | For the documented caller, on well and ill formed lines: the invariant of that caller (`LoopInv`), and the driver implements CommandSlot (`SlotSpec`). |
| `std` | MCStdRadio | Answers late or lost, reads that fail, writes that stop half way: the Radio implements HostRadio (`KeepsPromise`); every `+RCV` is returned, queued, in `rx` or in the port, once and in order (`NoEventLost`). Every call returns; a slot kept by a call that timed out is freed by listening once the answer comes; a caller that keeps listening gets every event. |
| `embassy` | MCEmbassyRadio | The same faults and futures dropped at any await: the Radio implements HostRadio without a queue; every `+RCV` is handled or logged exactly once, in order (`EventsOnceInOrder`); nothing is written behind half a command (`NothingBehindHalf`); calls return and slots are freed. |
| `tokio` | MCTokioRadio | Full channels, cancelled calls, a dropped handle, late and lost answers, a failing and closing port: `AnswersMatchCalls`, and `NoEventLost` while the handle lives. A call whose job is queued returns, also with the event channel full, and dropping the handle ends the task. |
| `link` | MCLink | Values at the edges of their types are read back as they were set (`SettingsReadBack`); payloads without a CR arrive whole, in order, with sender and signal, however reads cut the lines (`EveryPayloadArrives`); and with one byte lost the events are still transmissions, each at most once and in order, of which one at most is misread (`PayloadsWhole`). |
| `tool` | MCTool | Sessions without end, killed and failing anywhere, on a module that may lag, refuse or lose: what a session reads is what the module holds (`SeenIsStored`), a session that succeeds left every setting there (`SuccessMeansStored`), and sessions end, one that listens after Ctrl-C. |
| `rx_sizing` | MCRxSizing | With the sizes of the source: a read first overflows `rx` only while a line of more than 257 bytes comes in, lines left behind a response included (`LossOnlyInLongLine`), and a line outgrows `line_buf` only over the hole this makes (`OverlongNeedsHole`). |

The largest are `embassy` (491,476 distinct states, about a minute), `link` (475,697, two
minutes), `std` (290,149, a minute) and `rx_sizing` (148,886).

`PayloadsWhole` maps the events one by one, in order, to different transmissions, equal to
them but for as many as bytes were lost. It is as strong as the line format allows, which has no
checksum. What may differ is named (`Misread`): one number (`12` read as `1`), or, where
the comma behind the sender is lost, the sender together with the payload: of `0,3,1,G` there
remains `03,1,G`, a well formed line of another sender with a shorter payload. Any other single
loss is given away by the stated length, because a digit or a sign never is a comma. In
this run `rx` does overflow, where a damaged line jams it; `PayloadsWhole` holds there too.

`SeenIsStored` rests on what looks like a defect elsewhere: an answer that nobody waits for
stays at the head of `rx`. The `+OK` of an earlier session's command may be taken for the
acknowledgement of a Set, but then the Set's own `+OK` blocks the answer to the query
behind it, and `provision` ends with a timeout instead of a wrong verdict.

Runs that TLC refutes: what a text of the repository says, against what the code does.

| Run | Statement | What happens |
|---|---|---|
| `std_boot` | `std/radio.rs:272-273`: `next_event` never misses an event | A `+READY` from power-up, still in the port, resolves a factory reset. The reset's own `+RESET` then finds the flag cleared and stays at the head of `rx`: events behind it are never returned. |
| `link_raw` | `core/decode.rs:5-6`: `<data>` is exactly `<len>` raw bytes | The line ends at the first CR, whatever the stated length: a payload with a CR is not returned, and if no LF follows that CR nothing behind it ever is. |
| `tokio_stuck_call` | tokio README, line 34: every method has a per-call deadline | Queueing the job is outside the timeout. With the task waiting for room in the event channel and the job channel full, the call never returns; nor does the task drop events, as lines 79-80 of that README say. |
| `tokio_behind` | `tokio/lib.rs:471-472`: events received during a command are surfaced in order | `process_job` returns at the first response. An event behind it in the same read stays in the driver until the port delivers something else. |

Further disagreements seen while modelling, which no run states:

* `poll` looks at the first line only, so a line nothing waits for hides a complete `+RCV`
  behind it; the design document (lines 160-161) puts a complete `+RCV` first.
* `next_event` of std pumps with a predicate that never matches and so returns at its
  deadline only; its comment (`radio.rs:283-284`) says it returns when the queue fills.
  It also reports an I/O error as `Timeout` (`radio.rs:285`), at which `listen` calls it
  again at once.
* `submit` sets `awaiting_ready_as_ok` before encoding may fail with `TxOverflow`, so the flag
  may be set with the slot free (`driver.rs:123`; the documented caller cannot get there,
  which `LoopInv` proves).
* `poll` returns `Idle` for a line that does not parse although a complete line follows
  (`driver.rs:264`).
* A method called after one that timed out returns `Busy`, which the top-level README
  (lines 60-64) rules out: so does a query of `info` after a ping that failed.
* A reset in flight is resolved by an `+OK` of an earlier session as well as by `+READY`:
  the tool then reports success for a reset the module may not have carried out.
* A read of 256 bytes on top of a `+RCV` line of 258 to 266 bytes can overflow `rx`, by at
  most nine bytes. The method that reads reports `RxOverflow`, but the lines on both sides of
  the hole stay in `rx`, and `poll` may then panic at `driver.rs:232`. For example: of a line of
  266 bytes 259 are in `rx`, and a read of 256 is three too many; the last three bytes are the
  end of a line of 250 that came behind it, its CR included; what is left of it merges with the
  next line of 250 to one of more than the 288 bytes of `line_buf`, which is whole in `rx`. So
  `LineFits` is no invariant with the sizes of the source: `rx_sizing` takes the step to
  "overlong", from `rx` drained as in std and embassy too. A hole that takes an LF, or so much of
  a line that no prefix is left, stops the framing for good instead.
* After a future of embassy was dropped in the middle of a write, every later command is
  Busy for good; only a new `Radio` helps.

### Bounds, and why they are enough

* `driver`: `TX_BUF` 3, commands of 1 and 2 units, at most 4 units submitted. Two
  commands can be in `tx` at once, with none, some or all of the first in flight, and
  a third be refused. `RX_BUF` 4 holds a line and the start of another; `LINE_BUF` 1
  is short enough for the panic to occur.
* `driver_loop`: `RX_BUF` 6 holds two complete lines, so a line can hide another one.
  The inputs hold every kind of line: matching, of another kind, ill formed, event,
  reset echo, ready, unknown.
* `std`, `embassy`: `TX_BUF` 2 and 4, the latter so that what an unacknowledged reset leaves
  in `tx` has room for another command behind it; `MaxCalls` 3, so that an answer can arrive
  during the call after the one that gave up on it; `MaxLost` 1 and `MaxFaults` 1: one answer lost and one failure
  (or future dropped) in the same behaviour; reads of at most 3 tokens, so that a line
  arrives in up to three pieces; a query, a setting and the reset. `RX_BUF` is large enough
  that overflow is left to RxSizing. `std_boot` needs one call and one event.
* `tokio*`: channels of capacity 1 fill with one element and behave at their limit as those
  of the code (8 and 64) do. Two `+RCV` lines fill the event channel and leave the task
  with one in hand. `MaxCalls` 2, and 3 where the job channel must be full.
* `link*`: `MaxLines` 2, the first line's remains in front of the second; `MaxNoise` 1;
  reads of 1, 5 and 12 bytes end at every place of every line; `RX_BUF` 42 takes a read of 12
  on top of the longest line but one byte, and not two such lines, so that reads behind a
  line that was damaged do overflow. Values at both ends of their types. `U32_MAX` is 2^31 - 1,
  the largest integer TLC has, in place of 2^32 - 1: the upper half of `Band` is not covered.
* `tool`: no bound on the sessions. A session starts with at most one earlier command still
  at the module (`StartTool`): the module executes a command in less time than the tool
  takes to start twice. With two of them, an acknowledgement and an answer of earlier
  sessions could be taken one after the other for those of a Set and its query.
* `rx_sizing`: the numbers of the source. 266 is the longest `+RCV`: a payload of
  240 bytes with the longest address, RSSI and SNR. 257 is the longest line that no read can
  lose, 5 and 8 are `+OK` and `+READY`. Where a read ends in a line (`Cuts`), how many bytes
  of whole lines are in a read (`Totals`) or left behind a response (`Wholes`) are sets of
  a few values on both sides of the limits; the theorems are about all of them.

`CHECK_DEADLOCK FALSE` is set where the system may really stop: in `driver` after a
panic or at the bound on submissions, in `rx_sizing` after a panic, in `tokio*`
after the handle was dropped and the task has ended, in `link*` when all lines were sent
and read.

### Fairness

* `std`, `embassy`: weak fairness of `Pump` (the thread or future inside a call runs), of
  `DeadlinePasses` (the clock advances), of the module's answers and of `CallNextEvent`
  (the caller keeps listening). `SlotIsFreed` is stated up to a lost answer. In
  `embassy` the last is strong, and of `CallNextEvent(FALSE)`: an application that always
  listens with no time at all never reads; one that does so with some time to spare again
  and again does. Nothing is assumed of `CallCommand`, of events or of failures.
* `tokio`: weak fairness of `OwnerRuns` and of `TaskRuns`: a future that can go on is
  polled, and timers fire. Both say only that one of the actor's enabled steps is taken,
  not which: the branches of `select!` are not assumed fair to each other.
  `ListeningSpec` adds that the owner calls `next_event` again and again. The
  run `tokio_stuck_call` goes without it: its owner may stop listening, as the code allows.
* `tool`: weak fairness of `Session`: the process runs and deadlines pass. Nothing is
  assumed of the module.

## 4. What is proved

TLAPS checks these for all capacities, commands, encodings, values, inputs and bounds
that satisfy the assumptions in the modules: natural numbers for sizes and bounds
(`CapacityAssumption`, `SizeAssumption`, `BoundAssumption`, `RadioAssumption`), at least
one place in a channel (`ChannelAssumption`), inputs and commands of their types
(`InputAssumption`, `CommandAssumption`, `MethodsAssumption`), a reset that fits an empty
`tx` (`ResetFits`), and for the tool requests that name an address and a network
(`RequestAssumption`: the arguments that are not optional) with values that are some
(`ValAssumption`), and for Link payloads of bytes, signals and settings of their Rust types
(`LinkAssumption`). TLC evaluates each of them in the runs.

| Theorem | Says |
|---|---|
| `DriverProofs!DriverTypeCorrect`, `DriverInvariant` | `TypeOK` and `SlotInv` under any sequence of calls. |
| `DriverProofs!DrainLoopTerminates` | Every `poll` that is not `Idle` or a panic strictly lowers a natural number. |
| `DriverProofs!WireIsFaithful` | Each accepted unit is handed out exactly once and in order, whatever is acknowledged. |
| `DriverProofs!LoopInvariant`, `DriverImplementsSlot` | The documented caller's invariant; its driver implements CommandSlot. |
| `StdProofs!StdTypeCorrect`, `EmbassyProofs!EmbassyTypeCorrect`, `TokioProofs!TokioTypeCorrect` | Types of host, driver and line, whatever fails, is dropped or closes; in std and embassy also that what was written is acknowledged before anything else (`WrittenIsAcked`), unless the write stopped. |
| `StdProofs!StdLosesNoEvent`, `TokioProofs!TokioLosesNoEvent` | `NoEventLost`, while `rx` does not overflow. |
| `EmbassyProofs!EmbassyServesEventsInOrder` | `EventsOnceInOrder`, while `rx` does not overflow. |
| `EmbassyProofs!EmbassyBuriesNothing` | `NothingBehindHalf`, under the same condition and if no write is given up after its last byte. |
| `TokioProofs!TokioAnswersMatchCalls` | An answer is the answer to its own command, whatever was cancelled or late before. |
| `StdProofs!StdKeepsPromise`, `EmbassyProofs!EmbassyKeepsPromise` | Step by step the two hosts implement HostRadio, while `rx` does not overflow; embassy if no write is given up after its last byte. |
| `StdProofs!StdNeverOverflows`, `EmbassyProofs!...`, `TokioProofs!...` | With room for a read and an unfinished line (`RoomForRead`; for tokio also for two reads, `RoomForReads`), `rx` never overflows, whatever is received and for however long. |
| `StdProofs!StdWithRoomIsReliable`, `EmbassyProofs!...`, `TokioProofs!...` | The results above without the hypothesis on overflow. |
| `LinkProofs!NumberReadsBack` | What is printed of a number parses to it, in every integer type it fits. |
| `LinkProofs!RcvReadsBack`, `SettingReadsBack` | For every transmission and every setting, what is written parses to the value that was written. |
| `LinkProofs!LinkTypeCorrect` | Whatever is sent and lost, `rx` keeps to its capacity, and what parses has its type. |
| `LinkProofs!EveryPayloadArrivesCorrect` | Without loss every transmission is returned once, in order, wherever the reads cut. |
| `LinkProofs!SettingsReadBackCorrect` | Without loss a setting is read back as it was set, by a query that does not fail. |
| `LinkProofs!PayloadsWholeCorrect` | With a byte lost at any place of any line, the events are transmissions, each at most once and in order, and one at most is misread, as `Misread` says. |
| `ToolProofs!ToolTypeCorrect` | Types, and the module at most two commands behind. |
| `ToolProofs!ToolSeenIsStored`, `ToolSuccessMeansStored` | What a session read is what the module holds; one that succeeds left every setting there. |
| `RxSizingProofs!SizingTypeCorrect` | The counts are natural numbers, and `rx` keeps to its capacity. |
| `RxSizingProofs!LossNeedsLongLine` | If `rx` takes two reads but one byte, it first overflows only on a line longer than `RX_BUF - CHUNK + 1`. |
| `RxSizingProofs!PanicNeedsHole` | If `line_buf` takes the longest line of the radio, `poll` panics only behind a hole. |
| `RxSizingProofs!EnoughForReads`, `EnoughForLines` | The inequalities that rule out loss, and panic whatever is lost; the sizes of the source satisfy neither. |

### Hypotheses

*No overflow.* What `push_rx` drops is lost, and may be the CR or LF of a line, so the
theorems on events and answers of the hosts assume `[](ret.tag # "RxOverflow")`. The
`NeverOverflows` theorems replace it by an inequality between constants: a host reads only
after `poll` has taken all whole lines, so a read finds no more than the part of one line in
`rx` (two tokens of three), and `RoomForRead` says that a read fits behind it. In the tokio task a
read may also find what an earlier read brought behind a response; `RoomForReads` adds room for
two reads. The traffic is not bounded (`MaxRcv` is any number). The constants of the runs satisfy both (`CHUNK` 3,
`RX_BUF` 16). For the bytes of the source the second inequality holds (2 * 256 <= 513), and the
first for lines of up to 257 bytes; for longer ones it does not, which is RxSizing's subject.

*Writes of embassy.* A write that was given up after its last byte was out (`WriteUnacked`)
leaves in `tx` a command the module has executed. `EmbassyBuriesNothing`, `EmbassyKeepsPromise`
and what rests on them are proved of behaviours without that step; the run `embassy` checks the
same properties with it.

*Payloads and reads of Link.* No payload holds a CR (`EndsNoLine`): with one,
`EveryPayloadArrives` is false, as `link_raw` shows. A read fits into `rx` behind all of a line
but its last byte (`RoomToRead`); by `RxSizing`, the sizes of the source give that for lines of
up to 257 bytes. TLC evaluates both for the values of `link` (an ASSUME of MCLink). The type
theorem needs neither.

*One byte lost.* `PayloadsWholeCorrect` is about a wire that loses at most one byte
(`MaxNoise` 0 or 1). Two can agree: without the first digit of the length and its last comma,
`5,12,AB,-00000009,-9,1` is `5,2,AB,-00000009,-91`, from node 5 with the payload `AB`. It also
assumes `NoOverflow`, that every read finds room in `rx`, because what `push_rx` drops is
more than a byte. With the sizes of the source that is a hypothesis on the run and not a fact:
a hole behind an overflow may merge two lines, as `rx_sizing` shows. The driver reports
each overflow. `RoomToRead` is not needed.

*The module was up.* `~JustBooted`: with a `+READY` of power-up in the port the promise is
false, as `std_boot` shows, and a reset it resolves would leave lines that the bound on `rx`
does not count. The theorems on types and on events lost do not need it.

### The argument

*Driver.* `TypeOK /\ SlotInv` is inductive as it stands; the conjunct that carries it is
that a command being sent has something in `tx` and a kind to await: it is what makes the
clamp in `ack_tx` and the switch to `Awaiting` agree. Each action has a lemma; those of
`poll` that only drain a line share one (`PollRxTag`).

*Callers.* The history invariant is inductive given the driver's, by cases on the two
actions that touch it and `AckTx`, whose clamp keeps what was not yet handed out in place.
`LoopInv` needs the driver's invariant and `ResetFits`, without which a refused reset
leaves the flag set. The refinement maps `Submit` to `Accept`, the last `AckTx` to `Sent`,
`PollResponse` to `Resolve`, `PollReadyAsOk` to `ResetDone` and everything else to `Quiet`
or a stutter; the lemma that matters is that a line which passes `response_matches` has a
class among the slot's answers.

*Hosts: the stream.* SerialProofs proves once what the three hosts need. Tokens go from the
module through the port and `rx` to `poll`, and a read may cut them anywhere; so the
invariant is on `Unread == rx \o from_radio`, which a read leaves as it is, `poll` shortens
by a line and the module makes longer by one. It is a whole number of well formed lines
(`Framed`, in `LinesInv`): hence no `poll` finds a malformed line, and none looks past the end
of one. Each host's step is one of `Polls`, `Reads`, `Writes`, `WritesPart`, `Hears`,
`Submits` or `Rests`, and the host's module has only to say which. That no event is lost is
then an equation: what was delivered, what the host queued and the messages in `Unread` are
the numbers `1..rcv_sent`.

*Hosts: the slot.* That an answer reaches its own call needs more than that one command is in
flight: after a timeout the command may be in `tx`, half on the wire, at the module, or its
answer may be on the way. `Slot(cmd)` names these places (`Sending`, `Sent`, `Waiting`,
`Restarting`, `Executed`) and says of each what `tx`, `to_radio` and the answers in `Unread`
are; `Free` says that all three are empty. `SlotOK` (one of them holds) is inductive over
every step of every host, since `submit` is refused until the last answer was read.
`NothingBehindHalf` follows from the same places, and so does what keeps `rx` from filling up
(`ReadsLate`): whatever line is first, an event, the answer of the place the command is in or a
reset's echo, `poll` takes it, so when the host comes to read no whole line is left. In the
tokio task the lines left behind a response find the slot free, and hold events only, which the
next `poll` takes. The refinement of HostRadio maps each step to one of its actions or a stutter.

*Tool.* A session starts with a fresh driver, so here no slot protects an answer.
`SeenIsStored` is not inductive, nor is it with the traffic described line by line. The
invariant tells three phases apart. In `Early`, before the slot of the first call is freed,
the module may still be at one command of an earlier session, whose answer, if it is one to a
query, can only be the first line, where nobody waits for it and it stays. In `Late` every
command and line is of this session: a query in the inbox is the last there and the call that
waits, and its answer is the last line. In `Over` only the inbox is left. It is inductive
because of two facts about the plans, proved of `provision` and `info`: of two calls in a
row one is a query (`Alternates`), so that at most one acknowledgement can be left in front of
a query, where it blocks the answer instead of passing for one; and nothing that was read is
set or reset later (`ReadsLast`). `SuccessMeansStored` adds that each Set is read back by the
call behind it (`ReadsBack`).

*Codec.* What a recursive function computes for every input is an induction over data. The
library's induction theorems cannot be used here, but their argument can: a set of naturals
that is not empty has a least element (`LeastNat`), so a least counterexample leads to FALSE.
That gives the recursive functions of `Decimal` and `Value` their existence and their
equations, and `NumberReadsBack`: the number of the digits of `n` is ten times that of the
digits of `n \div 10`, plus the last one, and is never above the limit on the way. A line is
then its parts between commas that no number contains (`Join`, `Piece`), and the data is found
by its length, whatever it holds.

*Link.* The bytes `rx \o wire` are what no read changes. The invariant (`InFlight`) says that
they are a sequence of whole lines (`Framed`), those of the transmissions not yet returned and
at most one answer, that of the query in flight, and `Told` that what was returned is what was
sent. No line holds a CR before its end, so the first line of the stream is all `poll` can find
(`NextLineFacts`), it parses to what was sent by the codec's theorems, and when no line is
ready `rx` holds less than one line (`NotReady`): the next read cannot overflow. A stream
without a byte on the wire and without a line ready is then empty (`QuietIsDone`).

*Link, with a byte lost.* `rx \o wire` is still a sequence of lines, of which one, line `d`, is
short of a byte (`Orderly`). `Returned` maps each event to the transmission it was read of, one of
them, `hit`, perhaps misread; the lines in flight are of later transmissions (`Later`); and the
damaged line is in flight or was read, not both (`OneLost`). What can `poll` take from the front
(`PolledIsTaken`)? A line that lost a byte of its head is taken as the line it is
(`FirstTaken`). One that lost its CR is taken together with the line behind it
(`TakenWithoutCR`), and the LF between the two is in no number, so that nothing is read of them
(`LongHead`). One that lost its LF has no end that `next_line_end` finds (`NoEndWithoutLF`):
nothing is returned any more. It remains to see what the damaged head parses to (`LostByte`,
`DamagedHead`), and there the place of the byte decides. The prefix: the line is none `poll`
looks for, and stays in front; the `=` behind it: rejected. For the rest, a line parses only if
one comma ends the data and exactly one more follows, so a loss in front of that must leave the
stated length pointing at the comma that ended the data before (`LengthLeadsToComma`). A digit
of the address: the length is what it was, and so is the data; only the sender is misread. A
digit of the length: only if its value is unchanged. A byte of the data, or the comma behind it:
the length leads one too far, the line is rejected. The second comma: what is read as the length
begins with the length and is not smaller (`PrefixParse`), but the data begins later; rejected.
The first comma: the digits of the length are read as digits of the address, and what was the
payload up to its first comma as the length; if that leads to the same comma as before, it is
the second case of `Misread`. The signal: the data ends where it did, and one of the two numbers
is misread.

*Sizing.* The unfinished line and its rest are one line of the radio, and lines are left behind a
response only where the read before had found `rx` drained, so they are less than a read. Those
two facts bound what a read finds until the first byte is dropped. For the panic no invariant of
the framing is used: a whole line is in `rx`.

### Model-checked only

* Everything about liveness and fairness (`CallsReturn`, `SlotIsFreed`, `EventsDelivered`,
  `QueuedCallsReturn`, `TaskEnds`, `SessionsEnd`), which is out of the prover's reach.
* What the hosts do after a write that was given up after its last byte (`WriteUnacked`), but
  for the theorems on types and on events.
* Link with an `rx` that overflows (`NoOverflow` is assumed), and with more than one byte lost:
  neither is proved, and the second is not checked.

No module here uses a `RECURSIVE` operator.

## 5. What is not modelled

* `RadioError`'s table, `into_owned`, the owned copies of commands and responses, and the
  examples: they hold no state and take no decision.
* The sum `data_len + 1` at `decode.rs:131`, which wraps only for a stated length of
  `usize::MAX`, longer than any line; Codec compares in unbounded integers.
* The parsing of the tool's arguments, what it prints, and the failures of reading standard
  input and of installing the Ctrl-C handler, each of which ends a session before its call.
* What a damaged line means to `poll`: RxSizing leaves it open, within what can happen. Link, which
  has the bytes, loses one of them on the wire.
* Contents of the module's memory in SerialRadio: an answer carries the argument of its
  command, so that one answer can be told from another. Tool does keep the settings.
* Calls that the type system rules out, such as two methods at once: they take `&mut self`.
* In Tool, reads that cut lines and events during a call: StdRadio has both.

## 6. Plan

1. *(done)* Driver, DriverTrace, CommandSlot, DriverLoop and their proofs.
2. *(done)* SerialRadio, StdRadio, TokioRadio, RxSizing and its proofs.
3. *(done)* HostRadio and the two hosts that implement it; EmbassyRadio.
4. *(done)* Codec and Link; Tool.
5. *(done)* Proofs about the hosts: the stream and the slot in SerialProofs, then no event
   lost, answers to their calls, HostRadio implemented, and no overflow given room.
6. *(done)* Proofs about Tool.
7. *(done)* Proofs about Codec and Link, and about a byte lost.
