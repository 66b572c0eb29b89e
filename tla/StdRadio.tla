------------------------------ MODULE StdRadio ------------------------------
(***************************************************************************)
(* The blocking host driver: `Radio` in rylr998-std/src/radio.rs, over the *)
(* core driver and the serial line.  One caller makes one method call at a *)
(* time: a command method (submit, then pump_until) or next_event.  A step *)
(* of the pump is one call of the driver or one read or write of the port; *)
(* the module at the other end, and the clock, move between any two steps. *)
(***************************************************************************)
EXTENDS SerialRadio

CONSTANTS
  CHUNK,      \* size of the read buffer of pump_until
  MaxCalls,   \* bound on the command methods called
  MaxFaults   \* bound on the reads and writes that fail with an I/O error

ASSUME BoundAssumption == CHUNK \in Nat /\ MaxCalls \in Nat /\ MaxFaults \in Nat

VARIABLES
  pc,         \* where the caller's thread is
  call,       \* the command whose method is running, or NextEvent
  expired,    \* the deadline of the running call has passed
  events,     \* the VecDeque of events received and not yet returned
  calls,      \* number of command methods called
  faults,     \* number of reads and writes that failed
  result,     \* what the last call returned
  delivered   \* history: the +RCV numbers next_event returned

hostVars == <<pc, call, expired, events, calls, faults, result, delivered>>
stdVars  == <<vars, radioVars, hostVars>>

NextEvent == [op |-> "next_event", arg |-> 0]

\* `id` is the argument of the command called, `val` the one of its answer.
Result(tag, id, val) == [tag |-> tag, id |-> id, val |-> val]

StdInit ==
  /\ Init /\ RadioInit
  /\ pc = "caller" /\ call = NextEvent /\ expired = FALSE
  /\ events = <<>> /\ calls = 0 /\ faults = 0 /\ delivered = <<>>
  /\ result = Result("None", 0, 0)

-----------------------------------------------------------------------------
(* Returning to the caller                                                 *)

\* next_event drops the outcome of the pump and returns the oldest event, if
\* there is one by now, else Timeout.
PopEvent(queue) ==
  IF queue = <<>>
    THEN result' = Result("Timeout", 0, 0) /\ events' = queue /\ UNCHANGED delivered
    ELSE /\ result' = Result("Event", 0, Head(queue).val)
         /\ events' = Tail(queue)
         /\ delivered' = IF Head(queue).key = "+RCV"
                           THEN Append(delivered, Head(queue).val) ELSE delivered

\* pump_until returns (tag, val): to the command's caller, or to next_event.
PumpReturns(tag, val) ==
  /\ pc' = "caller"
  /\ IF call = NextEvent
       THEN PopEvent(events)
       ELSE result' = Result(tag, call.arg, val) /\ UNCHANGED <<events, delivered>>

\* want(r) is Some: an error for every command, "+OK" (or the +READY of a reset)
\* for wait_ok, the value asked for for a query; nothing for next_event.
Wanted(line) ==
  /\ call # NextEvent
  /\ \/ StartsWith(line, "+ERR=")
     \/ KindOf(call) = "Ack" /\ (StartsWith(line, "+OK") \/ StartsWith(line, "+READY"))
     \/ KindOf(call) # "Ack" /\ StartsWith(line, QueryPrefix[KindOf(call)])

-----------------------------------------------------------------------------
(* The caller                                                              *)

CallCommand(cmd) ==
  /\ pc = "caller"
  /\ calls < MaxCalls /\ cmd.arg = calls + 1 /\ calls' = cmd.arg
  /\ Submit(cmd)
  /\ IF ret'.tag = "Submitted"
       THEN pc' = "poll" /\ call' = cmd /\ expired' = FALSE /\ UNCHANGED result
       ELSE result' = Result(ret'.tag, cmd.arg, 0) /\ UNCHANGED <<pc, call, expired>>
  /\ UNCHANGED <<radioVars, events, faults, delivered>>

\* Mistake: next_event only looks into the queue.
CallNextEventWithoutPump ==
  /\ pc = "caller"
  /\ PopEvent(events)
  /\ UNCHANGED <<vars, radioVars, pc, call, expired, calls, faults>>

CallNextEvent ==
  /\ pc = "caller"
  /\ IF events # <<>>
       THEN PopEvent(events) /\ UNCHANGED <<pc, call, expired>>
       ELSE /\ pc' = "poll" /\ call' = NextEvent /\ expired' = FALSE
            /\ UNCHANGED <<result, events, delivered>>
  /\ UNCHANGED <<vars, radioVars, calls, faults>>

-----------------------------------------------------------------------------
(* pump_until                                                              *)

\* Mistake: events that arrive while a command is in flight are dropped.
PumpPollDropsEvents ==
  /\ pc = "poll"
  /\ Poll
  /\ UNCHANGED <<radioVars, call, expired, calls, faults>>
  /\ \/ /\ ret'.tag = "NeedTx"
        /\ pc' = "write" /\ UNCHANGED <<events, result, delivered>>
     \/ /\ ret'.tag = "Response" /\ Wanted(ret'.line)
        /\ PumpReturns(IF StartsWith(ret'.line, "+ERR=") THEN "RadioErr" ELSE "Ok",
                       ret'.line[1].val)
     \/ /\ ret'.tag = "Event" /\ call = NextEvent
        /\ events' = Append(events, ret'.line[1])
        /\ UNCHANGED <<pc, result, delivered>>
     \/ /\ ret'.tag = "Idle"
        /\ pc' = "read" /\ UNCHANGED <<events, result, delivered>>
     \/ /\ \/ ret'.tag = "Repoll"
           \/ ret'.tag = "Event" /\ call # NextEvent
           \/ ret'.tag = "Response" /\ ~Wanted(ret'.line)
        /\ UNCHANGED <<pc, events, result, delivered>>

PumpPoll ==
  /\ pc = "poll"
  /\ Poll
  /\ UNCHANGED <<radioVars, call, expired, calls, faults>>
  /\ \/ /\ ret'.tag = "NeedTx"
        /\ pc' = "write" /\ UNCHANGED <<events, result, delivered>>
     \/ /\ ret'.tag = "Response" /\ Wanted(ret'.line)
        /\ PumpReturns(IF StartsWith(ret'.line, "+ERR=") THEN "RadioErr" ELSE "Ok",
                       ret'.line[1].val)
     \/ /\ ret'.tag = "Response" /\ ~Wanted(ret'.line)
        /\ UNCHANGED <<pc, events, result, delivered>>
     \/ /\ ret'.tag = "Event"
        /\ events' = Append(events, ret'.line[1])
        /\ UNCHANGED <<pc, result, delivered>>
     \/ /\ ret'.tag = "Idle"
        /\ pc' = "read" /\ UNCHANGED <<events, result, delivered>>
     \/ /\ ret'.tag = "Repoll"
        /\ UNCHANGED <<pc, events, result, delivered>>

PortFails == faults < MaxFaults /\ faults' = faults + 1

\* Mistake: write in place of write_all, which may take a part of the bytes.
PumpWritesSome ==
  /\ pc = "write"
  /\ \E n \in 1..Len(ret.bytes) :
       to_radio' = to_radio \o SubSeq(ret.bytes, 1, n) /\ AckTx(n)
  /\ pc' = "poll"
  /\ UNCHANGED <<from_radio, rcv_sent, lost, booting, call, expired, events, calls, faults, result, delivered>>

\* write_all and ack_tx
PumpWrites ==
  /\ pc = "write"
  /\ to_radio' = to_radio \o ret.bytes
  /\ AckTx(Len(ret.bytes))
  /\ pc' = "poll"
  /\ UNCHANGED <<from_radio, rcv_sent, lost, booting, call, expired, events, calls, faults, result, delivered>>

\* write_all fails, having written some of the bytes: ack_tx is not called.
PumpWriteFails ==
  /\ pc = "write" /\ PortFails
  /\ \E n \in 0..(Len(ret.bytes) - 1) : to_radio' = to_radio \o SubSeq(ret.bytes, 1, n)
  /\ PumpReturns("Io", 0)
  /\ UNCHANGED <<vars, from_radio, rcv_sent, lost, booting, call, expired, calls>>

PumpReads ==
  /\ pc = "read"
  /\ \E n \in 1..CHUNK :
       /\ n <= Len(from_radio)
       /\ PushRx(SubSeq(from_radio, 1, n))
       /\ from_radio' = SubSeq(from_radio, n + 1, Len(from_radio))
  /\ IF ret'.tag = "RxOverflow"
       THEN PumpReturns("RxOverflow", 0)
       ELSE pc' = "deadline" /\ UNCHANGED <<events, result, delivered>>
  /\ UNCHANGED <<to_radio, rcv_sent, lost, booting, call, expired, calls, faults>>

\* Mistake: a read without data does not look at the deadline.
PumpReadsNothingContinues ==
  /\ pc = "read" /\ from_radio = <<>>
  /\ pc' = "poll"
  /\ UNCHANGED <<vars, radioVars, call, expired, events, calls, faults, result, delivered>>

\* The port has nothing: WouldBlock or TimedOut.
PumpReadsNothing ==
  /\ pc = "read" /\ from_radio = <<>>
  /\ pc' = "deadline"
  /\ UNCHANGED <<vars, radioVars, call, expired, events, calls, faults, result, delivered>>

\* Mistake: a failed read flushes what was received.
PumpReadFailsFlushes ==
  /\ pc = "read" /\ PortFails
  /\ PumpReturns("Io", 0)
  /\ rx' = <<>>
  /\ UNCHANGED <<tx, tx_in_flight, state, awaiting_ready_as_ok, pending_kind, ret,
                 radioVars, call, expired, calls>>

PumpReadFails ==
  /\ pc = "read" /\ PortFails
  /\ PumpReturns("Io", 0)
  /\ UNCHANGED <<vars, radioVars, call, expired, calls>>

\* Mistake: giving up on the answer frees the slot.
PumpChecksDeadlineFreesSlot ==
  /\ pc = "deadline"
  /\ IF expired
       THEN PumpReturns("Timeout", 0) /\ state' = Idle
       ELSE pc' = "poll" /\ UNCHANGED <<state, events, result, delivered>>
  /\ UNCHANGED <<rx, tx, tx_in_flight, awaiting_ready_as_ok, pending_kind, ret,
                 radioVars, call, expired, calls, faults>>

PumpChecksDeadline ==
  /\ pc = "deadline"
  /\ IF expired
       THEN PumpReturns("Timeout", 0)
       ELSE pc' = "poll" /\ UNCHANGED <<events, result, delivered>>
  /\ UNCHANGED <<vars, radioVars, call, expired, calls, faults>>

DeadlinePasses ==
  /\ pc # "caller" /\ ~expired
  /\ expired' = TRUE
  /\ UNCHANGED <<vars, radioVars, pc, call, events, calls, faults, result, delivered>>

-----------------------------------------------------------------------------
Caller == (\E cmd \in Commands : CallCommand(cmd)) \/ CallNextEvent

Pump ==
  \/ PumpPoll \/ PumpWrites \/ PumpWriteFails
  \/ PumpReads \/ PumpReadsNothing \/ PumpReadFails \/ PumpChecksDeadline

Radio == RadioNext /\ UNCHANGED <<vars, hostVars>>

StdNext == Caller \/ Pump \/ DeadlinePasses \/ Radio

StdSpec == StdInit /\ [][StdNext]_stdVars

\* A thread that is inside a call runs, time passes, the module eventually
\* answers, and the caller keeps listening.
Fairness ==
  /\ WF_stdVars(Pump)
  /\ WF_stdVars(DeadlinePasses)
  /\ WF_stdVars(RadioReplies /\ UNCHANGED <<vars, hostVars>>)
  /\ WF_stdVars(CallNextEvent)

FairStdSpec == StdSpec /\ Fairness

-----------------------------------------------------------------------------
\* Bytes are handed out and not acknowledged during a write, or once one failed.
WrittenIsAcked == tx_in_flight > 0 => pc = "write" \/ faults > 0

StdTypeOK ==
  /\ TypeOK /\ RadioTypeOK
  /\ pc \in {"caller", "poll", "write", "read", "deadline"}
  /\ call \in Commands \cup {NextEvent} /\ expired \in BOOLEAN
  /\ events \in Seq(Token)
  /\ calls \in 0..MaxCalls /\ faults \in 0..MaxFaults
  /\ delivered \in Seq(Vals)
  /\ WrittenIsAcked

Promise == INSTANCE HostRadio WITH
  MayDrop <- FALSE,
  running <- IF pc = "caller" THEN 0 ELSE call.arg,
  owed    <- state # Idle,
  answer  <- IF result.tag \in {"Ok", "RadioErr"} THEN result.val ELSE 0,
  arrived <- rcv_sent, gone <- Len(delivered), given <- delivered

\* The blocking Radio keeps the promise of the host crates: however late an
\* answer comes and whatever failed before, it is returned by the call of its
\* own command or by none, and until it is read every other command is refused.
\* (pump_until and the command methods; the Busy check of submit.)
KeepsPromise == Promise!Spec

\* Every +RCV the module sent is, in order and exactly once, returned by
\* next_event, queued, in the driver's buffer or still in the port.
\* (pump_until's push_back and next_event's pop_front, across all calls.)
NoEventLost ==
  /\ CountsUp(delivered)
  /\ RcvsAre(events \o rx \o from_radio, Len(delivered) + 1, rcv_sent)

\* Every method call returns, whatever the module does. (pump_until's deadline.)
CallsReturn == (pc # "caller") ~> (pc = "caller")

\* A command whose method gave up is still resolved later, by listening: the
\* slot is not lost to a timeout as long as the answer does arrive.
SlotIsFreed == (state.tag = "Awaiting") ~> (state = Idle \/ lost > 0)

\* A caller that keeps listening gets every +RCV sent, whatever timed out, got
\* lost or was cut short before. (next_event; the module was up beforehand.)
EventsDelivered ==
  \A i \in 1..MaxRcv : (rcv_sent >= i) ~> (Len(delivered) >= i)
=============================================================================
