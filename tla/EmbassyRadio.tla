---------------------------- MODULE EmbassyRadio ----------------------------
(***************************************************************************)
(* The no_std driver: `Radio` in rylr998-embassy/src/lib.rs, over the core *)
(* driver and the serial line.  One future at a time: a command method     *)
(* (submit, then pump_until) or next_event.  There is no queue: events of  *)
(* a command's pump are logged, those of next_event go to its handler.     *)
(* Time passes, and the future may be dropped, where it awaits the UART.   *)
(***************************************************************************)
EXTENDS SerialRadio

CONSTANTS
  CHUNK,      \* size of the read buffer
  MaxCalls,   \* bound on the command methods called
  MaxFaults   \* bound on UART errors and futures dropped

ASSUME BoundAssumption == CHUNK \in Nat /\ MaxCalls \in Nat /\ MaxFaults \in Nat

\* `uid` and `version` would need an owned string and are left out.
ASSUME MethodsAssumption == \A cmd \in Commands : cmd.op \notin {"GetUid", "GetVersion"}

VARIABLES
  pc,       \* where the future is, "app" if there is none
  call,     \* the command whose method is running, or NextEvent
  expired,  \* the deadline of the running call has passed
  calls,    \* number of command methods called
  faults,   \* number of UART errors and futures dropped
  result,   \* what the last call returned
  handled,  \* history: the +RCV numbers the handler was called with
  served    \* history: those and the ones logged, in order

callVars    == <<pc, call, expired>>
historyVars == <<handled, served>>
hostVars    == <<callVars, calls, faults, result, historyVars>>
embassyVars == <<vars, radioVars, hostVars>>

NextEvent == [op |-> "next_event", arg |-> 0]

\* `id` is the argument of the command called, `val` the one of its answer.
Result(tag, id, val) == [tag |-> tag, id |-> id, val |-> val]

EmbassyInit ==
  /\ Init /\ RadioInit
  /\ pc = "app" /\ call = NextEvent /\ expired = FALSE /\ calls = 0 /\ faults = 0
  /\ result = Result("None", 0, 0) /\ handled = <<>> /\ served = <<>>

Returns(tag, val) ==
  pc' = "app" /\ result' = Result(tag, call.arg, val) /\ UNCHANGED <<call, expired>>

Continues(at) == pc' = at /\ UNCHANGED <<call, expired, result>>

\* want(r) is Some: an error for every command, "+OK" (or the +READY of a reset)
\* for wait_ok, the value asked for for a query.
Wanted(line) ==
  \/ StartsWith(line, "+ERR=")
  \/ KindOf(call) = "Ack" /\ (StartsWith(line, "+OK") \/ StartsWith(line, "+READY"))
  \/ KindOf(call) # "Ack" /\ StartsWith(line, QueryPrefix[KindOf(call)])

-----------------------------------------------------------------------------
(* The application                                                         *)

CallCommand(cmd) ==
  /\ pc = "app"
  /\ calls < MaxCalls /\ cmd.arg = calls + 1 /\ calls' = cmd.arg
  /\ Submit(cmd)
  /\ IF ret'.tag = "Submitted"
       THEN pc' = "poll" /\ call' = cmd /\ expired' = FALSE /\ UNCHANGED result
       ELSE result' = Result(ret'.tag, cmd.arg, 0) /\ UNCHANGED callVars
  /\ UNCHANGED <<radioVars, faults, historyVars>>

\* Mistake: next_event is refused while a command is unanswered.
CallNextEventWhenIdle(no_time) ==
  /\ pc = "app"
  /\ IF state = Idle
       THEN pc' = "poll" /\ call' = NextEvent /\ expired' = no_time /\ UNCHANGED result
       ELSE result' = Result("Busy", 0, 0) /\ UNCHANGED callVars
  /\ UNCHANGED <<vars, radioVars, calls, faults, historyVars>>

\* With no time at all, the deadline has passed before the first read.
CallNextEvent(no_time) ==
  /\ pc = "app"
  /\ pc' = "poll" /\ call' = NextEvent /\ expired' = no_time
  /\ UNCHANGED <<vars, radioVars, calls, faults, result, historyVars>>

-----------------------------------------------------------------------------
(* The loop of pump_until and next_event                                   *)

\* +READY is an event like any other, but only +RCV lines are numbered.
Serves(tok) ==
  /\ served' = IF tok.key = "+RCV" THEN Append(served, tok.val) ELSE served
  /\ handled' = IF tok.key = "+RCV" /\ call = NextEvent
                  THEN Append(handled, tok.val) ELSE handled

\* The handler says whether next_event goes on; log_event returns nothing.
PollHandsOutEvent ==
  /\ ret'.tag = "Event" /\ Serves(ret'.line[1])
  /\ \/ Continues("poll")
     \/ call = NextEvent /\ Returns("Event", ret'.line[1].val)

\* next_event passes over a response; it frees the slot of a call that gave up.
PollHandsOutResponse ==
  /\ ret'.tag = "Response"
  /\ IF call # NextEvent /\ Wanted(ret'.line)
       THEN Returns(IF StartsWith(ret'.line, "+ERR=") THEN "RadioErr" ELSE "Ok",
                    ret'.line[1].val)
       ELSE Continues("poll")
  /\ UNCHANGED historyVars

PollHandsOutNothing ==
  /\ \/ ret'.tag = "NeedTx" /\ Continues("write")
     \/ ret'.tag = "Idle"   /\ Continues("deadline")
     \/ ret'.tag = "Repoll" /\ Continues("poll")
  /\ UNCHANGED historyVars

PumpPoll ==
  /\ pc = "poll"
  /\ Poll
  /\ PollHandsOutEvent \/ PollHandsOutResponse \/ PollHandsOutNothing
  /\ UNCHANGED <<radioVars, calls, faults>>

\* Mistake: write in place of write_all, which may take a part of the bytes.
PumpWritesSome ==
  /\ pc = "write"
  /\ \E n \in 1..Len(ret.bytes) :
       to_radio' = to_radio \o SubSeq(ret.bytes, 1, n) /\ AckTx(n)
  /\ Continues("poll")
  /\ UNCHANGED <<from_radio, rcv_sent, lost, booting, calls, faults, historyVars>>

\* write_all and ack_tx, without an await between them
PumpWrites ==
  /\ pc = "write"
  /\ to_radio' = to_radio \o ret.bytes
  /\ AckTx(Len(ret.bytes))
  /\ Continues("poll")
  /\ UNCHANGED <<from_radio, rcv_sent, lost, booting, calls, faults, historyVars>>

\* Mistake: giving up on the answer frees the slot.
PumpChecksDeadlineFreesSlot ==
  /\ pc = "deadline"
  /\ IF expired THEN Returns("Timeout", 0) /\ state' = Idle
                ELSE Continues("read") /\ UNCHANGED state
  /\ UNCHANGED <<rx, tx, tx_in_flight, awaiting_ready_as_ok, pending_kind, ret,
                 radioVars, calls, faults, historyVars>>

\* Before the read: what the UART holds by then is left there.
PumpChecksDeadline ==
  /\ pc = "deadline"
  /\ IF expired THEN Returns("Timeout", 0) ELSE Continues("read")
  /\ UNCHANGED <<vars, radioVars, calls, faults, historyVars>>

PumpReads ==
  /\ pc = "read"
  /\ \E n \in 1..CHUNK :
       /\ n <= Len(from_radio)
       /\ PushRx(SubSeq(from_radio, 1, n))
       /\ from_radio' = SubSeq(from_radio, n + 1, Len(from_radio))
  /\ IF ret'.tag = "RxOverflow" THEN Returns("RxOverflow", 0) ELSE Continues("poll")
  /\ UNCHANGED <<to_radio, rcv_sent, lost, booting, calls, faults, historyVars>>

\* Mistake: the read has no timeout.
PumpReadsForEver ==
  /\ pc = "read" /\ from_radio = <<>> /\ expired
  /\ UNCHANGED embassyVars

\* with_timeout gives up on the read; the deadline is looked at after a poll.
PumpReadTimesOut ==
  /\ pc = "read" /\ from_radio = <<>> /\ expired
  /\ Continues("poll")
  /\ UNCHANGED <<vars, radioVars, calls, faults, historyVars>>

-----------------------------------------------------------------------------
(* UART errors, futures dropped, time                                      *)

Fault == faults < MaxFaults /\ faults' = faults + 1

\* Mistake: the driver starts afresh after a write that stopped.
WriteStopsAfresh ==
  /\ Fault /\ pc = "write"
  /\ \E n \in 0..(Len(ret.bytes) - 1) : to_radio' = to_radio \o SubSeq(ret.bytes, 1, n)
  /\ Returns("Io", 0) \/ Returns("Dropped", 0)
  /\ tx' = <<>> /\ tx_in_flight' = 0 /\ state' = Idle /\ pending_kind' = None
  /\ UNCHANGED <<rx, awaiting_ready_as_ok, ret,
                 from_radio, rcv_sent, lost, booting, calls, historyVars>>

\* Some of the bytes were written when the UART fails or the future is dropped;
\* ack_tx is not called.
WriteStops ==
  /\ Fault /\ pc = "write"
  /\ \E n \in 0..(Len(ret.bytes) - 1) : to_radio' = to_radio \o SubSeq(ret.bytes, 1, n)
  /\ Returns("Io", 0) \/ Returns("Dropped", 0)
  /\ UNCHANGED <<vars, from_radio, rcv_sent, lost, booting, calls, historyVars>>

\* The same once all of them are out: the UART had yet to say so.
WriteUnacked ==
  /\ Fault /\ pc = "write"
  /\ to_radio' = to_radio \o ret.bytes
  /\ Returns("Io", 0) \/ Returns("Dropped", 0)
  /\ UNCHANGED <<vars, from_radio, rcv_sent, lost, booting, calls, historyVars>>

\* Mistake: the driver starts afresh after a read that failed.
ReadStopsAfresh ==
  /\ Fault /\ pc = "read"
  /\ Returns("Io", 0) \/ Returns("Dropped", 0)
  /\ rx' = <<>>
  /\ UNCHANGED <<tx, tx_in_flight, state, awaiting_ready_as_ok, pending_kind, ret,
                 radioVars, calls, historyVars>>

ReadStops ==
  /\ Fault /\ pc = "read"
  /\ Returns("Io", 0) \/ Returns("Dropped", 0)
  /\ UNCHANGED <<vars, radioVars, calls, historyVars>>

DeadlinePasses ==
  /\ pc \in {"write", "read"} /\ ~expired
  /\ expired' = TRUE
  /\ UNCHANGED <<vars, radioVars, pc, call, calls, faults, result, historyVars>>

-----------------------------------------------------------------------------
App == (\E cmd \in Commands : CallCommand(cmd)) \/ (\E b \in BOOLEAN : CallNextEvent(b))

Pump ==
  PumpPoll \/ PumpWrites \/ PumpChecksDeadline \/ PumpReads \/ PumpReadTimesOut

Radio == RadioNext /\ UNCHANGED <<vars, hostVars>>

EmbassyNext ==
  App \/ Pump \/ WriteStops \/ WriteUnacked \/ ReadStops \/ DeadlinePasses \/ Radio

EmbassySpec == EmbassyInit /\ [][EmbassyNext]_embassyVars

\* A future is polled when it can go on, timers fire, the module answers, and
\* the application listens again and again with some time to spare.
Fairness ==
  /\ WF_embassyVars(Pump)
  /\ WF_embassyVars(DeadlinePasses)
  /\ WF_embassyVars(RadioReplies /\ UNCHANGED <<vars, hostVars>>)
  /\ SF_embassyVars(CallNextEvent(FALSE))

FairEmbassySpec == EmbassySpec /\ Fairness

-----------------------------------------------------------------------------
\* Bytes are handed out and not acknowledged during a write, or once one stopped.
WrittenIsAcked == tx_in_flight > 0 => pc = "write" \/ faults > 0

EmbassyTypeOK ==
  /\ TypeOK /\ RadioTypeOK
  /\ pc \in {"app", "poll", "write", "deadline", "read"}
  /\ call \in Commands \cup {NextEvent} /\ expired \in BOOLEAN
  /\ calls \in 0..MaxCalls /\ faults \in 0..MaxFaults
  /\ handled \in Seq(Vals) /\ served \in Seq(Vals)
  /\ WrittenIsAcked

Promise == INSTANCE HostRadio WITH
  MayDrop <- TRUE,
  running <- IF pc = "app" THEN 0 ELSE call.arg,
  owed    <- state # Idle,
  answer  <- IF result.tag \in {"Ok", "RadioErr"} THEN result.val ELSE 0,
  arrived <- rcv_sent, gone <- Len(served), given <- handled

\* The Radio without a queue keeps the promise of the host crates: an answer is
\* returned by the call of its own command or by none, also after futures were
\* dropped, and an event is dropped only by the pump of a command, never by
\* next_event. (pump_until, next_event, log_event.)
KeepsPromise == Promise!Spec

\* Every +RCV the module sent was handed to the handler or logged, or is in the
\* driver's buffer or in the UART: once and in order, over all calls, time-outs,
\* errors and dropped futures. (pump_until and next_event.)
EventsOnceInOrder ==
  CountsUp(served) /\ RcvsAre(rx \o from_radio, Len(served) + 1, rcv_sent)

\* Every call returns, whatever the module does. (The deadline and with_timeout.)
CallsReturn == (pc # "app") ~> (pc = "app")

\* A command that timed out, or whose future was dropped during the read, is
\* resolved later by listening. (The Response branch of next_event.)
SlotIsFreed == (state.tag = "Awaiting") ~> (state = Idle \/ lost > 0)

\* A command is written whole, or nothing is ever written behind the part of it
\* that was: the module never takes two commands for one. The price is that the
\* Radio refuses every later command. (write_all before ack_tx, Busy in submit.)
NothingBehindHalf == ~HalfIsBuried
=============================================================================
