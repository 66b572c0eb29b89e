------------------------------ MODULE StdProofs ------------------------------
(***************************************************************************)
(* The properties of the blocking host driver, for every value of the      *)
(* constants.                                                              *)
(***************************************************************************)
EXTENDS StdRadio, SerialProofs

-----------------------------------------------------------------------------
(* The steps of the host                                                   *)

\* Each step of the specification is one the lemmas on the serial line know.
LEMMA StdSteps ==
  /\ \A cmd \in Commands : CallCommand(cmd) => Submits(cmd)
  /\ PumpPoll => Polls
  /\ PumpWrites => Writes
  /\ PumpWriteFails => WritesPart
  /\ PumpReads => Reads
  /\ Radio => Hears
  /\ CallNextEvent \/ PumpReadsNothing \/ PumpReadFails \/ PumpChecksDeadline \/ DeadlinePasses
       => Rests
PROOF
  <1>1. PumpReads => Reads
    <2>1. 1..CHUNK \subseteq Nat \ {0}
      BY BoundAssumption
    <2> QED BY <2>1 DEF PumpReads, Reads
  <1>2. Radio => Hears
    BY DEF Radio, Hears
  <1>3. PumpWrites => Writes
    BY DEF PumpWrites, Writes
  <1>4. PumpWriteFails => WritesPart
    BY DEF PumpWriteFails, WritesPart
  <1>5. PumpPoll => Polls
    BY DEF PumpPoll, Polls
  <1>6. \A cmd \in Commands : CallCommand(cmd) => Submits(cmd)
    BY DEF CallCommand, Submits
  <1>7. CallNextEvent \/ PumpReadsNothing \/ PumpReadFails \/ PumpChecksDeadline \/ DeadlinePasses
          => Rests
    BY DEF CallNextEvent, PumpReadsNothing, PumpReadFails, PumpChecksDeadline,
           DeadlinePasses, Rests
  <1> QED BY <1>1, <1>2, <1>3, <1>4, <1>5, <1>6, <1>7

-----------------------------------------------------------------------------
(* Type correctness                                                        *)

\* At a write all that was handed out is at hand, unless an earlier write failed.
WritesAllOut == pc = "write" /\ faults = 0 => tx_in_flight <= Len(ret.bytes)

\* The host's own variables, and the bytes between a poll() and its ack_tx().
HostType ==
  /\ pc \in {"caller", "poll", "write", "read", "deadline"}
  /\ call \in Commands \cup {NextEvent} /\ expired \in BOOLEAN
  /\ events \in Seq(Token)
  /\ calls \in 0..MaxCalls /\ faults \in 0..MaxFaults
  /\ delivered \in Seq(Vals)
  /\ WrittenIsAcked /\ WritesAllOut

\* Inductive: all types, and the driver's fields agree with each other.
StdTypes == IndInv /\ RadioTypeOK /\ HostType

\* It implies the type invariant of the model.
LEMMA StdTypesMean == StdTypes => StdTypeOK /\ SlotInv
PROOF BY DEF StdTypes, StdTypeOK, HostType, IndInv

\* A new Radio has the right types.
LEMMA StdInitTypes == StdInit => StdTypes
PROOF
  <1>1. SUFFICES ASSUME StdInit PROVE StdTypes
    OBVIOUS
  <1>2. IndInv /\ RadioTypeOK
    BY <1>1, LinesInit DEF StdInit, LinesInv
  <1>3. /\ pc = "caller" /\ call = NextEvent /\ expired = FALSE
        /\ events = <<>> /\ calls = 0 /\ faults = 0 /\ delivered = <<>>
    BY <1>1 DEF StdInit
  <1>4. HostType
    <2>1. <<>> \in Seq(Token) /\ <<>> \in Seq(Vals) /\ 0 \in 0..MaxCalls /\ 0 \in 0..MaxFaults
      BY EmptySeq, BoundAssumption
    <2>2. WrittenIsAcked /\ WritesAllOut
      <3>1. tx_in_flight = 0
        BY <1>1 DEF StdInit, Init
      <3> QED BY <1>3, <3>1 DEF WrittenIsAcked, WritesAllOut
    <2> QED BY <1>3, <2>1, <2>2 DEF HostType
  <1> QED BY <1>2, <1>4 DEF StdTypes

\* Taking an event out of the queue keeps the types.
LEMMA PopEventType ==
  ASSUME events \in Seq(Token), delivered \in Seq(Vals), PopEvent(events)
  PROVE  events' \in Seq(Token) /\ delivered' \in Seq(Vals)
PROOF
  <1>1. CASE events = <<>>
    BY <1>1 DEF PopEvent
  <1>2. CASE events # <<>>
    <2>1. Head(events) \in Token /\ Tail(events) \in Seq(Token)
      BY <1>2, HeadTailProperties
    <2>2. Head(events).val \in Vals
      BY <2>1 DEF Token
    <2>3. Append(delivered, Head(events).val) \in Seq(Vals)
      BY <2>2, AppendProperties
    <2> QED BY <1>2, <2>1, <2>3 DEF PopEvent
  <1> QED BY <1>1, <1>2

\* So does the return of the pump.
LEMMA PumpReturnsType ==
  ASSUME events \in Seq(Token), delivered \in Seq(Vals), NEW tag, NEW val, PumpReturns(tag, val)
  PROVE  pc' = "caller" /\ events' \in Seq(Token) /\ delivered' \in Seq(Vals)
PROOF BY PopEventType DEF PumpReturns

\* What was handed out is acknowledged before the next poll(), if all went well.
LEMMA StdNextAcks ==
  ASSUME StdTypes, StdNext
  PROVE  (WrittenIsAcked /\ WritesAllOut)'
PROOF
  <1>1. /\ IndInv /\ tx_in_flight \in Nat /\ faults \in Nat
        /\ WrittenIsAcked /\ WritesAllOut
    BY BoundAssumption DEF StdTypes, HostType, IndInv, TypeOK
  <1>2. ASSUME tx_in_flight' = tx_in_flight, faults' >= faults, faults' \in Nat,
               pc' = "write" => pc = "write" /\ UNCHANGED ret,
               pc' # "write" => pc # "write" \/ faults' > faults
        PROVE  (WrittenIsAcked /\ WritesAllOut)'
    BY <1>1, <1>2 DEF WrittenIsAcked, WritesAllOut
  <1>3. PortFails => faults' = faults + 1
    BY DEF PortFails
  <1>4. ASSUME NEW cmd \in Commands, CallCommand(cmd) PROVE (WrittenIsAcked /\ WritesAllOut)'
    <2>1. tx_in_flight' = tx_in_flight
      BY <1>4, StdSteps, OthersKeepInFlight
    <2> QED BY <1>1, <1>2, <1>4, <2>1 DEF CallCommand
  <1>5. CASE PumpPoll
    <2>1. /\ ret'.tag # "NeedTx" => tx_in_flight' = tx_in_flight
          /\ ret'.tag = "NeedTx" /\ tx_in_flight = 0 => tx_in_flight' <= Len(ret'.bytes)
      BY <1>1, <1>5, StdSteps, PollHandsOutTx
    <2>2. pc = "poll" /\ faults' = faults
      BY <1>5 DEF PumpPoll
    <2>3. pc' = "write" <=> ret'.tag = "NeedTx"
      BY <1>5 DEF PumpPoll, PumpReturns, Wanted
    <2>4. CASE ret'.tag # "NeedTx"
      BY <1>1, <1>2, <2>1, <2>2, <2>3, <2>4
    <2>5. CASE ret'.tag = "NeedTx"
      BY <1>1, <2>1, <2>2, <2>3, <2>5 DEF WrittenIsAcked, WritesAllOut
    <2> QED BY <2>4, <2>5
  <1>6. CASE PumpWrites
    <2>1. pc = "write" /\ pc' = "poll" /\ faults' = faults /\ Writes
      BY <1>6, StdSteps DEF PumpWrites
    <2>2. faults = 0 => tx_in_flight' = 0
      BY <1>1, <2>1, WritesAckAll DEF WritesAllOut
    <2> QED BY <1>1, <2>1, <2>2 DEF WrittenIsAcked, WritesAllOut
  <1>7. CASE PumpWriteFails
    <2>1. tx_in_flight' = tx_in_flight
      BY <1>7, StdSteps, OthersKeepInFlight
    <2> QED BY <1>1, <1>2, <1>3, <1>7, <2>1 DEF PumpWriteFails, PumpReturns
  <1>8. CASE PumpReads
    <2>1. tx_in_flight' = tx_in_flight
      BY <1>8, StdSteps, OthersKeepInFlight
    <2>2. pc = "read" /\ pc' # "write" /\ faults' = faults
      BY <1>8 DEF PumpReads, PumpReturns
    <2> QED BY <1>1, <1>2, <2>1, <2>2
  <1>9. CASE CallNextEvent \/ PumpReadsNothing \/ PumpReadFails \/ PumpChecksDeadline
    <2>1. tx_in_flight' = tx_in_flight
      BY <1>9, StdSteps, OthersKeepInFlight
    <2>2. pc # "write" /\ pc' # "write" /\ (faults' = faults \/ faults' = faults + 1)
      BY <1>3, <1>9 DEF CallNextEvent, PumpReadsNothing, PumpReadFails, PumpChecksDeadline, PumpReturns
    <2> QED BY <1>1, <1>2, <2>1, <2>2
  <1>10. CASE DeadlinePasses \/ Radio
    <2>1. UNCHANGED <<vars, pc, faults>>
      BY <1>10 DEF DeadlinePasses, Radio, hostVars
    <2> QED BY <1>1, <1>2, <2>1 DEF vars
  <1> QED BY <1>4, <1>5, <1>6, <1>7, <1>8, <1>9, <1>10 DEF StdNext, Caller, Pump

\* Every step of the host keeps its types.
LEMMA StdNextHostType ==
  ASSUME StdTypes, StdNext
  PROVE  HostType'
PROOF
  <1>1. (WrittenIsAcked /\ WritesAllOut)'
    BY StdNextAcks
  <1>2. /\ pc \in {"caller", "poll", "write", "read", "deadline"}
        /\ call \in Commands \cup {NextEvent} /\ expired \in BOOLEAN
        /\ events \in Seq(Token) /\ delivered \in Seq(Vals)
        /\ calls \in 0..MaxCalls /\ faults \in 0..MaxFaults
        /\ MaxCalls \in Nat /\ MaxFaults \in Nat
    BY BoundAssumption DEF StdTypes, HostType
  <1>3. PortFails => faults' \in 0..MaxFaults
    BY <1>2 DEF PortFails
  <1>4. ASSUME NEW cmd \in Commands, CallCommand(cmd) PROVE HostType'
    <2>1. calls' \in 0..MaxCalls
      BY <1>1, <1>2, <1>4 DEF CallCommand
    <2> QED BY <1>1, <1>2, <1>4, <2>1 DEF CallCommand, HostType
  <1>5. CASE CallNextEvent
    BY <1>1, <1>2, <1>5, PopEventType DEF CallNextEvent, HostType
  <1>6. CASE PumpPoll
    <2>1. ret'.tag = "Event" => Append(events, ret'.line[1]) \in Seq(Token)
      BY <1>1, <1>2, <1>6, PollHandsOutLine, AppendProperties DEF PumpPoll, StdTypes, IndInv
    <2> QED BY <1>1, <1>2, <1>6, <2>1, PumpReturnsType DEF PumpPoll, HostType
  <1>7. CASE PumpWrites
    BY <1>1, <1>2, <1>7 DEF PumpWrites, HostType
  <1>8. CASE PumpWriteFails
    BY <1>1, <1>2, <1>3, <1>8, PumpReturnsType DEF PumpWriteFails, HostType
  <1>9. CASE PumpReads
    BY <1>1, <1>2, <1>9, PumpReturnsType DEF PumpReads, HostType
  <1>10. CASE PumpReadsNothing
    BY <1>1, <1>2, <1>10 DEF PumpReadsNothing, HostType
  <1>11. CASE PumpReadFails
    BY <1>1, <1>2, <1>3, <1>11, PumpReturnsType DEF PumpReadFails, HostType
  <1>12. CASE PumpChecksDeadline
    BY <1>1, <1>2, <1>12, PumpReturnsType DEF PumpChecksDeadline, HostType
  <1>13. CASE DeadlinePasses
    BY <1>1, <1>2, <1>13 DEF DeadlinePasses, HostType
  <1>14. CASE Radio
    BY <1>1, <1>2, <1>14 DEF Radio, hostVars, HostType
  <1> QED BY <1>4, <1>5, <1>6, <1>7, <1>8, <1>9, <1>10, <1>11, <1>12, <1>13, <1>14
          DEF StdNext, Caller, Pump

\* Every step of the specification is a step on the serial line.
LEMMA StdNextSteps ==
  ASSUME [StdNext]_stdVars
  PROVE  Polls \/ OtherSteps
PROOF
  <1>1. CASE UNCHANGED stdVars
    BY <1>1 DEF stdVars, OtherSteps, Rests
  <1>2. CASE StdNext
    BY <1>2, StdSteps DEF StdNext, Caller, Pump, OtherSteps
  <1> QED BY <1>1, <1>2

\* Every step keeps all types.
LEMMA StdNextTypes == StdTypes /\ [StdNext]_stdVars => StdTypes'
PROOF
  <1>1. SUFFICES ASSUME StdTypes, [StdNext]_stdVars PROVE StdTypes'
    OBVIOUS
  <1>2. IndInv' /\ RadioTypeOK'
    BY <1>1, StdNextSteps, StepTypes DEF StdTypes
  <1>3. HostType'
    <2>1. CASE UNCHANGED stdVars
      BY <1>1, <2>1 DEF StdTypes, HostType, WrittenIsAcked, WritesAllOut, stdVars, hostVars, vars
    <2> QED BY <1>1, <2>1, StdNextHostType
  <1> QED BY <1>2, <1>3 DEF StdTypes

\* The variables of the blocking Radio, of the driver it owns and of the serial
\* line keep their types. (radio.rs: pump_until, next_event, the command methods.)
THEOREM StdTypeCorrect == StdSpec => []StdTypeOK
PROOF
  <1>1. StdTypes => StdTypeOK
    BY StdTypesMean
  <1> QED BY <1>1, StdInitTypes, StdNextTypes, PTL DEF StdSpec

-----------------------------------------------------------------------------
(* No event is lost                                                        *)

\* Inductive: what NoEventLost says, of a queue in front of a stream of lines.
EventsInv ==
  /\ CountsUp(delivered)
  /\ Len(delivered) + 1 <= rcv_sent + 1
  /\ RcvsAre(events \o Unread, Len(delivered) + 1, rcv_sent)

StdInd == HostType /\ LinesInv /\ EventsInv

\* The queue, the buffer and the port may be put together in any order.
LEMMA EventsInvMeans ==
  ASSUME StdInd
  PROVE  NoEventLost
PROOF
  <1>1. events \in Seq(Token) /\ rx \in Seq(Token) /\ from_radio \in Seq(Token)
    BY DEF StdInd, HostType, LinesInv, IndInv, TypeOK, RadioTypeOK
  <1>2. (events \o rx) \o from_radio = events \o (rx \o from_radio)
    BY <1>1, TokensAssociate
  <1> QED BY <1>2 DEF StdInd, EventsInv, NoEventLost, Unread

\* Nothing was sent and nothing delivered when the port is opened.
LEMMA StdInitInd == StdInit => StdInd
PROOF
  <1>1. SUFFICES ASSUME StdInit PROVE StdInd
    OBVIOUS
  <1>2. HostType
    BY <1>1, StdInitTypes DEF StdTypes
  <1>3. LinesInv
    BY <1>1, LinesInit DEF StdInit
  <1>4. events = <<>> /\ delivered = <<>> /\ rcv_sent = 0
    BY <1>1 DEF StdInit, RadioInit
  <1>5. RcvsAre(Unread, 1, 0)
    BY <1>1, NoRcvAtFirst DEF StdInit
  <1>6. <<>> \o Unread = Unread
    <2>1. Unread \in Seq(Token)
      BY <1>3, ConcatParts DEF LinesInv, IndInv, TypeOK, RadioTypeOK, Unread
    <2> QED BY <2>1, ConcatEmptySeq
  <1>7. Len(<<>>) = 0 /\ CountsUp(<<>>)
    BY DEF CountsUp
  <1>8. EventsInv
    BY <1>4, <1>5, <1>6, <1>7 DEF EventsInv
  <1> QED BY <1>2, <1>3, <1>8 DEF StdInd

\* next_event takes the oldest event out of the queue and returns its number.
LEMMA PopEventKeeps ==
  ASSUME events \in Seq(Token), delivered \in Seq(Vals), rcv_sent \in Int,
         NEW u \in Seq(Token), EventsInv, u = Unread, PopEvent(events), UNCHANGED <<Unread, rcv_sent>>
  PROVE  EventsInv'
PROOF
  <1>1. CASE events = <<>>
    BY <1>1 DEF PopEvent, EventsInv
  <1>2. CASE events # <<>>
    <2> DEFINE d == Len(delivered) + 1
    <2>1. d \in Int /\ RcvsAre(events \o u, d, rcv_sent)
      BY LenProperties DEF EventsInv
    <2> HIDE DEF d
    <2>2. IF IsRcv(Head(events))
            THEN /\ Head(events).val = d /\ d <= rcv_sent
                 /\ RcvsAre(Tail(events) \o u, d + 1, rcv_sent)
            ELSE RcvsAre(Tail(events) \o u, d, rcv_sent)
      BY <1>2, <2>1, QueuePops
    <2>3. Head(events).val \in Vals
      <3>1. Head(events) \in Token
        BY <1>2, HeadTailProperties
      <3> QED BY <3>1 DEF Token
    <2>4. events' = Tail(events)
      BY <1>2 DEF PopEvent
    <2>5. CASE IsRcv(Head(events))
      <3>1. delivered' = Append(delivered, Head(events).val)
        BY <1>2, <2>5 DEF PopEvent, IsRcv
      <3>2. Len(delivered') = d /\ CountsUp(delivered')
        BY <2>2, <2>3, <2>5, <3>1, AppendCountsUp DEF EventsInv, d
      <3> QED BY <2>1, <2>2, <2>4, <2>5, <3>2 DEF EventsInv
    <2>6. CASE ~IsRcv(Head(events))
      <3>1. delivered' = delivered
        BY <1>2, <2>6 DEF PopEvent, IsRcv
      <3> QED BY <2>2, <2>4, <2>6, <3>1 DEF EventsInv, d
    <2> QED BY <2>5, <2>6
  <1> QED BY <1>1, <1>2

\* A step that leaves queue and history alone moves tokens between buffer and
\* port, or adds a line behind them.
LEMMA RestKeeps ==
  ASSUME StdInd, OtherSteps, ret'.tag # "RxOverflow", UNCHANGED <<events, delivered>>
  PROVE  EventsInv'
PROOF
  <1> DEFINE d == Len(delivered) + 1
  <1>1. events \in Seq(Token) /\ delivered \in Seq(Vals) /\ LinesInv
    BY DEF StdInd, HostType
  <1>2. d \in Nat
    BY <1>1, LenProperties
  <1>3. CountsUp(delivered) /\ d <= rcv_sent + 1 /\ RcvsAre(events \o Unread, d, rcv_sent)
    BY DEF StdInd, EventsInv
  <1>4. events' = events /\ delivered' = delivered
    OBVIOUS
  <1> HIDE DEF d
  <1>5. d <= rcv_sent' + 1 /\ RcvsAre(events \o Unread', d, rcv_sent')
    BY <1>1, <1>2, <1>3, OthersCarryOn
  <1> QED BY <1>3, <1>4, <1>5 DEF EventsInv, d

\* next_event, with the buffer and the port as they were.
LEMMA PopKeeps ==
  ASSUME StdInd, PopEvent(events), Unread' = Unread, rcv_sent' = rcv_sent
  PROVE  EventsInv'
PROOF
  <1>1. events \in Seq(Token) /\ delivered \in Seq(Vals) /\ LinesInv /\ EventsInv
    BY DEF StdInd, HostType
  <1>2. Unread \in Seq(Token) /\ rcv_sent \in Int
    BY <1>1, RadioAssumption, ConcatParts DEF LinesInv, IndInv, TypeOK, RadioTypeOK, Unread
  <1> QED BY <1>1, <1>2, PopEventKeeps

\* So does the return of the pump from any step that reads nothing.
LEMMA ReturnKeeps ==
  ASSUME StdInd, OtherSteps, ret'.tag # "RxOverflow",
         Unread' = Unread, rcv_sent' = rcv_sent, NEW tag, NEW val, PumpReturns(tag, val)
  PROVE  EventsInv'
PROOF BY RestKeeps, PopKeeps DEF PumpReturns

\* An event poll() hands out goes into the queue; with a response it may return.
LEMMA PumpPollKeeps ==
  ASSUME StdInd, PumpPoll
  PROVE  EventsInv'
PROOF
  <1> DEFINE d == Len(delivered) + 1
  <1>1. events \in Seq(Token) /\ delivered \in Seq(Vals) /\ LinesInv
    BY DEF StdInd, HostType
  <1>2. d \in Nat
    BY <1>1, LenProperties
  <1>3. CountsUp(delivered) /\ d <= rcv_sent + 1 /\ RcvsAre(events \o Unread, d, rcv_sent)
    BY DEF StdInd, EventsInv
  <1>4. Polls
    BY StdSteps
  <1> HIDE DEF d
  <1>5. /\ rcv_sent' = rcv_sent
        /\ ret'.tag # "Event" => RcvsAre(events \o Unread', d, rcv_sent')
        /\ ret'.tag = "Event" => RcvsAre(Append(events, ret'.line[1]) \o Unread', d, rcv_sent')
    BY <1>1, <1>2, <1>3, <1>4, PollCarriesOn
  <1>6. delivered' = delivered
    BY DEF PumpPoll, PumpReturns, Wanted
  <1>7. CASE ret'.tag = "Event"
    <2>1. events' = Append(events, ret'.line[1])
      BY <1>7 DEF PumpPoll
    <2> QED BY <1>3, <1>5, <1>6, <1>7, <2>1 DEF EventsInv, d
  <1>8. CASE ret'.tag # "Event"
    <2>1. events' = events
      BY <1>8 DEF PumpPoll, PumpReturns, Wanted
    <2> QED BY <1>3, <1>5, <1>6, <1>8, <2>1 DEF EventsInv, d
  <1> QED BY <1>7, <1>8

\* Every step keeps it, as long as rx does not overflow.
LEMMA StdNextInd == StdInd /\ [StdNext]_stdVars /\ ret'.tag # "RxOverflow" => StdInd'
PROOF
  <1>1. SUFFICES ASSUME StdInd, [StdNext]_stdVars, ret'.tag # "RxOverflow" PROVE StdInd'
    OBVIOUS
  <1>2. Polls \/ OtherSteps
    BY <1>1, StdNextSteps
  <1>3. LinesInv'
    BY <1>1, <1>2, StepLines DEF StdInd
  <1>4. HostType'
    <2>1. StdTypes
      BY <1>1 DEF StdInd, LinesInv, StdTypes
    <2> QED BY <1>1, <2>1, StdNextTypes DEF StdTypes
  <1>5. EventsInv'
    <2>1. Rests => OtherSteps /\ Unread' = Unread /\ rcv_sent' = rcv_sent
      BY DEF Rests, OtherSteps, vars, radioVars, Unread
    <2>2. WritesPart => OtherSteps /\ Unread' = Unread /\ rcv_sent' = rcv_sent
      BY DEF WritesPart, OtherSteps, vars, Unread
    <2>3. ASSUME NEW cmd \in Commands, CallCommand(cmd) PROVE EventsInv'
      <3>1. OtherSteps
        BY <2>3, StdSteps DEF OtherSteps
      <3> QED BY <1>1, <2>3, <3>1, RestKeeps DEF CallCommand
    <2>4. CASE CallNextEvent
      <3>1. Rests
        BY <2>4, StdSteps
      <3> QED BY <1>1, <2>1, <2>4, <3>1, PopKeeps, RestKeeps DEF CallNextEvent
    <2>5. CASE PumpPoll
      BY <1>1, <2>5, PumpPollKeeps
    <2>6. CASE PumpWrites
      <3>1. OtherSteps
        BY <2>6, StdSteps DEF OtherSteps
      <3> QED BY <1>1, <2>6, <3>1, RestKeeps DEF PumpWrites
    <2>7. CASE PumpWriteFails
      <3>1. WritesPart
        BY <2>7, StdSteps
      <3> QED BY <1>1, <2>2, <2>7, <3>1, ReturnKeeps DEF PumpWriteFails
    <2>8. CASE PumpReads
      <3>1. OtherSteps
        BY <2>8, StdSteps DEF OtherSteps
      <3> QED BY <1>1, <2>8, <3>1, RestKeeps DEF PumpReads
    <2>9. CASE PumpReadsNothing \/ DeadlinePasses
      <3>1. Rests
        BY <2>9, StdSteps
      <3> QED BY <1>1, <2>1, <2>9, <3>1, RestKeeps DEF PumpReadsNothing, DeadlinePasses
    <2>10. CASE PumpReadFails
      <3>1. Rests
        BY <2>10, StdSteps
      <3> QED BY <1>1, <2>1, <2>10, <3>1, ReturnKeeps DEF PumpReadFails
    <2>11. CASE PumpChecksDeadline
      <3>1. Rests
        BY <2>11, StdSteps
      <3> QED BY <1>1, <2>1, <2>11, <3>1, ReturnKeeps, RestKeeps DEF PumpChecksDeadline
    <2>12. CASE Radio
      <3>1. OtherSteps
        BY <2>12, StdSteps DEF OtherSteps
      <3> QED BY <1>1, <2>12, <3>1, RestKeeps DEF Radio, hostVars
    <2>13. CASE UNCHANGED stdVars
      <3>1. Rests
        BY <2>13 DEF stdVars, Rests
      <3> QED BY <1>1, <2>1, <2>13, <3>1, RestKeeps DEF stdVars, hostVars
    <2> QED BY <1>1, <2>3, <2>4, <2>5, <2>6, <2>7, <2>8, <2>9, <2>10, <2>11, <2>12, <2>13
            DEF StdNext, Caller, Pump
  <1> QED BY <1>3, <1>4, <1>5 DEF StdInd

\* As long as the receive buffer does not overflow (what push_rx then drops is
\* lost, and reported), every +RCV the module sent is returned by next_event,
\* queued, in the buffer or in the port, in order and once: whatever timed out,
\* failed or was refused before. (radio.rs: pump_until, next_event.)
THEOREM StdLosesNoEvent == StdSpec /\ [](ret.tag # "RxOverflow") => []NoEventLost
PROOF
  <1>1. StdInd => NoEventLost
    BY EventsInvMeans
  <1>2. StdInd /\ [StdNext]_stdVars /\ (ret.tag # "RxOverflow")' => StdInd'
    BY StdNextInd
  <1> QED BY <1>1, <1>2, StdInitInd, PTL DEF StdSpec

-----------------------------------------------------------------------------
(* The promise of the host crates                                          *)

\* While a command method runs its command holds the slot; at a write, what
\* poll() handed out is still to be written.
CallInv ==
  /\ call # NextEvent => call.arg \in Nat \ {0}
  /\ pc # "caller" /\ call # NextEvent => Slot(call)
  /\ pc = "write" => AtWrite

\* Inductive, for a module that was up when the port was opened.
PromiseInd == StdInd /\ SlotOK /\ CallInv

\* A Radio just made has no call running, and the slot is free.
LEMMA PromiseInitInd == ~JustBooted /\ StdInit => PromiseInd
PROOF
  <1>1. SUFFICES ASSUME ~JustBooted, StdInit PROVE PromiseInd
    OBVIOUS
  <1>2. StdInd
    BY <1>1, StdInitInd
  <1>3. SlotOK
    BY <1>1, FreeInit DEF StdInit, SlotOK
  <1>4. CallInv
    BY <1>1 DEF StdInit, CallInv
  <1> QED BY <1>2, <1>3, <1>4 DEF PromiseInd

\* The steps that neither submit nor poll are those SlotIsKept is about.
LEMMA PumpSlotSteps ==
  ASSUME PromiseInd, ret'.tag # "RxOverflow",
         \/ CallNextEvent \/ PumpWrites \/ PumpWriteFails \/ PumpReads \/ PumpReadsNothing
         \/ PumpReadFails \/ PumpChecksDeadline \/ DeadlinePasses \/ Radio \/ UNCHANGED stdVars
  PROVE  SlotSteps
PROOF
  <1>1. CASE PumpWrites \/ PumpWriteFails
    <2>1. AtWrite
      BY <1>1 DEF PromiseInd, CallInv, PumpWrites, PumpWriteFails
    <2> QED BY <1>1, <2>1, StdSteps DEF SlotSteps
  <1>2. CASE UNCHANGED stdVars
    BY <1>2 DEF stdVars, Rests, SlotSteps
  <1> QED BY <1>1, <1>2, StdSteps DEF SlotSteps

\* A poll() with a command method running: either the command keeps the slot and
\* there is no response, or the response is its answer and the method returns it.
LEMMA PollAnswersCall ==
  ASSUME PromiseInd, PumpPoll, call # NextEvent
  PROVE  IF ret'.tag = "Response"
           THEN /\ Wanted(ret'.line) /\ ret'.line[1].val = call.arg
                /\ state # Idle /\ state' = Idle
           ELSE Slot(call)' /\ state # Idle /\ state' # Idle
PROOF
  <1>1. PICK cmd \in Commands : cmd = call
    BY DEF PromiseInd, StdInd, HostType
  <1>2. Slot(cmd) /\ LinesInv /\ Polls /\ call' = cmd
    <2>1. Slot(call)
      BY DEF PromiseInd, CallInv, PumpPoll
    <2> QED BY <1>1, <2>1, StdSteps DEF PromiseInd, StdInd, PumpPoll
  <1>3. \/ Slot(cmd)' /\ ret'.tag # "Response"
        \/ /\ Free' /\ ret'.tag = "Response"
           /\ ret'.line # <<>> /\ ret'.line[1].val = cmd.arg
           /\ ret'.line[1].key \in AnswerKeys(cmd) \ {"+RESET"}
    BY <1>2, SlotPolls
  <1>4. state # Idle /\ (Slot(cmd)' => state' # Idle) /\ (Free' => state' = Idle)
    BY <1>2, StatesDiffer DEF Slot, Sending, Sent, Free
  <1>5. ret'.tag = "Response" => Wanted(ret'.line)
    BY <1>1, <1>3, AnswerMatches DEF Wanted
  <1>6. Slot(cmd)' => Slot(call)'
    BY <1>2
  <1> QED BY <1>1, <1>3, <1>4, <1>5, <1>6

\* Where the pump stands after a poll().
LEMMA PumpPollGoes ==
  ASSUME PumpPoll
  PROVE  /\ pc = "poll" /\ pc' \in {"poll", "write", "read", "caller"}
         /\ pc' = "write" => ret'.tag = "NeedTx"
         /\ pc' = "caller" <=> ret'.tag = "Response" /\ Wanted(ret'.line)
         /\ call' = call
PROOF BY DEF PumpPoll, PumpReturns, Wanted

\* Every step keeps it.
LEMMA PromiseNextInd ==
  PromiseInd /\ [StdNext]_stdVars /\ ret'.tag # "RxOverflow" => PromiseInd'
PROOF
  <1>1. SUFFICES ASSUME PromiseInd, [StdNext]_stdVars, ret'.tag # "RxOverflow"
                 PROVE  PromiseInd'
    OBVIOUS
  <1>2. StdInd'
    BY <1>1, StdNextInd DEF PromiseInd
  <1>3. LinesInv /\ SlotOK /\ CallInv /\ calls \in Nat
    BY <1>1, BoundAssumption DEF PromiseInd, StdInd, HostType
  <1>4. ASSUME NEW cmd \in Commands, CallCommand(cmd) PROVE SlotOK' /\ CallInv'
    <2>1. SlotOK' /\ (ret'.tag = "Submitted" => Slot(cmd)')
      BY <1>3, <1>4, StdSteps, SubmitTakesSlot
    <2>2. cmd.arg \in Nat \ {0} /\ pc = "caller"
      BY <1>3, <1>4 DEF CallCommand
    <2>3. CASE ret'.tag = "Submitted"
      <3>1. call' = cmd /\ pc' = "poll"
        BY <1>4, <2>3 DEF CallCommand
      <3> QED BY <2>1, <2>2, <2>3, <3>1 DEF CallInv
    <2>4. CASE ret'.tag # "Submitted"
      <3>1. call' = call /\ pc' = "caller"
        BY <1>4, <2>2, <2>4 DEF CallCommand
      <3> QED BY <1>3, <2>1, <3>1 DEF CallInv
    <2> QED BY <2>3, <2>4
  <1>5. ASSUME PumpPoll PROVE SlotOK' /\ CallInv'
    <2>1. SlotOK' /\ (ret'.tag = "NeedTx" => AtWrite')
      BY <1>3, <1>5, StdSteps, PollKeepsSlotOK
    <2>2. /\ pc' = "write" => ret'.tag = "NeedTx"
          /\ pc' = "caller" <=> ret'.tag = "Response" /\ Wanted(ret'.line)
          /\ call' = call
      BY <1>5, PumpPollGoes
    <2>3. pc' # "caller" /\ call' # NextEvent => Slot(call)'
      BY <1>1, <1>5, <2>2, PollAnswersCall
    <2> QED BY <1>3, <2>1, <2>2, <2>3 DEF CallInv
  <1>6. ASSUME SlotSteps, call' = call, pc' # "caller" => pc # "caller",
               pc' = "write" => pc = "write" /\ (Hears \/ Rests)
        PROVE  SlotOK' /\ CallInv'
    <2>1. SlotOK'
      BY <1>3, <1>6, SlotStaysOK
    <2>2. pc' = "write" => AtWrite'
      BY <1>3, <1>6, AtWriteStays DEF CallInv
    <2>3. ASSUME pc' # "caller", call' # NextEvent PROVE Slot(call)'
      <3>1. PICK cmd \in Commands : cmd = call /\ Slot(cmd)
        BY <1>1, <1>3, <1>6, <2>3 DEF PromiseInd, StdInd, HostType, CallInv
      <3>2. Slot(cmd)'
        BY <1>3, <1>6, <3>1, SlotIsKept
      <3> QED BY <1>6, <3>1, <3>2
    <2> QED BY <1>3, <1>6, <2>1, <2>2, <2>3 DEF CallInv
  <1>7. ASSUME CallNextEvent PROVE SlotOK' /\ CallInv'
    <2>1. SlotOK'
      BY <1>1, <1>3, <1>7, PumpSlotSteps, SlotStaysOK
    <2>2. pc' \in {"caller", "poll"} /\ (pc' = "caller" => call' = call)
          /\ (pc' = "poll" => call' = NextEvent)
      BY <1>7 DEF CallNextEvent
    <2> QED BY <1>3, <2>1, <2>2 DEF CallInv
  <1>8. ASSUME \/ PumpWrites \/ PumpWriteFails \/ PumpReads \/ PumpReadsNothing
               \/ PumpReadFails \/ PumpChecksDeadline
        PROVE  SlotOK' /\ CallInv'
    <2>1. call' = call /\ pc # "caller" /\ pc' # "write"
      BY <1>8 DEF PumpWrites, PumpWriteFails, PumpReads, PumpReadsNothing, PumpReadFails,
                  PumpChecksDeadline, PumpReturns
    <2>2. SlotSteps
      BY <1>1, <1>8, PumpSlotSteps
    <2> QED BY <1>6, <2>1, <2>2
  <1>9. ASSUME DeadlinePasses \/ Radio \/ UNCHANGED stdVars PROVE SlotOK' /\ CallInv'
    <2>1. SlotSteps /\ (Hears \/ Rests)
      BY <1>1, <1>9, PumpSlotSteps, StdSteps DEF stdVars, Rests
    <2>2. call' = call /\ pc' = pc
      BY <1>9 DEF DeadlinePasses, Radio, stdVars, hostVars
    <2> QED BY <1>6, <2>1, <2>2
  <1>10. SlotOK' /\ CallInv'
    BY <1>1, <1>4, <1>5, <1>7, <1>8, <1>9 DEF StdNext, Caller, Pump
  <1> QED BY <1>2, <1>10 DEF PromiseInd

\* A step that returns no answer, and gives no event.
LEMMA FailureIsPromised ==
  ASSUME pc' = "caller", result'.tag \notin {"Ok", "RadioErr"}, state' = Idle <=> state = Idle,
         UNCHANGED <<rcv_sent, delivered>>
  PROVE  Promise!Fails
PROOF BY DEF Promise!Fails

\* A step the application sees nothing of.
LEMMA OthersAreHidden ==
  ASSUME UNCHANGED <<result, rcv_sent, delivered>>, state' = Idle <=> state = Idle,
         (IF pc' = "caller" THEN 0 ELSE call'.arg) = (IF pc = "caller" THEN 0 ELSE call.arg)
  PROVE  UNCHANGED Promise!promiseVars
PROOF BY DEF Promise!promiseVars

\* next_event returns the event that comes next, or fails.
LEMMA PopIsPromised ==
  ASSUME PromiseInd, PopEvent(events), pc = "caller" \/ call = NextEvent, pc' = "caller",
         state' = Idle <=> state = Idle, rcv_sent' = rcv_sent
  PROVE  Promise!Next
PROOF
  <1> DEFINE d == Len(delivered) + 1
  <1>1. /\ events \in Seq(Token) /\ delivered \in Seq(Vals) /\ rcv_sent \in Int
        /\ Unread \in Seq(Token)
    BY RadioAssumption, ConcatParts
       DEF PromiseInd, StdInd, HostType, LinesInv, IndInv, TypeOK, RadioTypeOK, Unread
  <1>2. d \in Int /\ RcvsAre(events \o Unread, d, rcv_sent)
    BY <1>1, LenProperties DEF PromiseInd, StdInd, EventsInv
  <1>3. result'.tag \in {"Timeout", "Event"}
    BY DEF PopEvent, Result
  <1>4. CASE delivered' = delivered
    BY <1>3, <1>4, FailureIsPromised DEF Promise!Next
  <1>5. CASE delivered' # delivered
    <2>1. events # <<>> /\ IsRcv(Head(events)) /\ delivered' = Append(delivered, Head(events).val)
      BY <1>5 DEF PopEvent, IsRcv
    <2> HIDE DEF d
    <2>2. Head(events).val = d /\ d <= rcv_sent
      BY <1>1, <1>2, <2>1, QueuePops
    <2>3. d \in Vals
      <3>1. Head(events) \in Token
        BY <1>1, <2>1, HeadTailProperties
      <3> QED BY <2>2, <3>1 DEF Token
    <2>4. Len(delivered') = d
      BY <1>1, <2>1, <2>2, <2>3, AppendProperties DEF d
    <2>5. Len(delivered) \in Nat /\ d = Len(delivered) + 1
      BY <1>1, LenProperties DEF d
    <2>6. Len(delivered) < rcv_sent /\ Len(delivered') = Len(delivered) + 1
          /\ delivered' = Append(delivered, Len(delivered'))
      BY <1>1, <2>1, <2>2, <2>4, <2>5
    <2>7. (IF pc = "caller" THEN 0 ELSE call.arg) = 0
      BY DEF NextEvent
    <2>8. Promise!Give
      BY <1>3, <2>6, <2>7 DEF Promise!Give
    <2> QED BY <2>8 DEF Promise!Next
  <1> QED BY <1>4, <1>5

\* The pump gives up: its command fails, or next_event looks into the queue.
LEMMA GivingUpIsPromised ==
  ASSUME PromiseInd, NEW tag, tag \notin {"Ok", "RadioErr"}, PumpReturns(tag, 0),
         state' = Idle <=> state = Idle, rcv_sent' = rcv_sent
  PROVE  Promise!Next
PROOF
  <1>1. CASE call = NextEvent
    BY <1>1, PopIsPromised DEF PumpReturns
  <1>2. CASE call # NextEvent
    <2>1. pc' = "caller" /\ delivered' = delivered /\ result'.tag = tag
      BY <1>2 DEF PumpReturns, Result
    <2> QED BY <2>1, FailureIsPromised DEF Promise!Next
  <1> QED BY <1>1, <1>2

\* A call of a command method is accepted, or fails.
LEMMA CallIsPromised ==
  ASSUME PromiseInd, NEW cmd \in Commands, CallCommand(cmd)
  PROVE  Promise!Next
PROOF
  <1>1. LinesInv /\ SlotOK /\ CallInv /\ calls \in Nat
    BY BoundAssumption DEF PromiseInd, StdInd, HostType
  <1>2. /\ ret'.tag = "Submitted" => state = Idle /\ state' # Idle
        /\ ret'.tag # "Submitted" => state' = state
    BY <1>1, StdSteps, SubmitTakesSlot
  <1>3. cmd.arg \in Nat \ {0} /\ pc = "caller" /\ UNCHANGED <<rcv_sent, delivered>>
    BY <1>1 DEF CallCommand, radioVars
  <1>4. CASE ret'.tag = "Submitted"
    <2>1. pc' = "poll" /\ call' = cmd /\ result' = result
      BY <1>4 DEF CallCommand
    <2>2. Promise!Accept
      BY <1>2, <1>3, <1>4, <2>1 DEF Promise!Accept
    <2> QED BY <2>2 DEF Promise!Next
  <1>5. CASE ret'.tag # "Submitted"
    <2>1. pc' = "caller" /\ result'.tag = ret'.tag
      BY <1>3, <1>5 DEF CallCommand, Result
    <2>2. ret'.tag \notin {"Ok", "RadioErr"}
      BY <1>5 DEF CallCommand, Submit, SubmitBusy, SubmitTxOverflow, SubmitAccepted, Ret, RetBytes
    <2> QED BY <1>2, <1>3, <1>5, <2>1, <2>2, FailureIsPromised DEF Promise!Next
  <1> QED BY <1>4, <1>5

\* A poll() hands out nothing the application sees, the answer its call waits for,
\* or, to next_event, one that comes late.
LEMMA PollIsPromised ==
  ASSUME PromiseInd, PumpPoll
  PROVE  [Promise!Next]_Promise!promiseVars
PROOF
  <1>1. LinesInv /\ SlotOK /\ CallInv /\ Polls
    BY StdSteps DEF PromiseInd, StdInd
  <1>2. /\ pc = "poll" /\ call' = call
        /\ pc' = "caller" <=> ret'.tag = "Response" /\ Wanted(ret'.line)
    BY PumpPollGoes
  <1>3. UNCHANGED <<rcv_sent, delivered>>
    BY DEF PumpPoll, PumpReturns, Wanted, radioVars
  <1>4. ret'.tag # "Response" => (state' = Idle <=> state = Idle) /\ result' = result
    BY <1>1, PollKeepsSlotOK DEF PumpPoll
  <1>5. CASE ret'.tag # "Response"
    BY <1>2, <1>3, <1>4, <1>5, OthersAreHidden
  <1>6. CASE ret'.tag = "Response" /\ call = NextEvent
    <2>1. state # Idle /\ state' = Idle
      BY <1>1, <1>6, PollKeepsSlotOK
    <2>2. result' = result /\ pc' = pc
      BY <1>6 DEF PumpPoll, Wanted
    <2>3. Promise!LateAnswer
      BY <1>2, <1>3, <1>6, <2>1, <2>2 DEF Promise!LateAnswer, NextEvent
    <2> QED BY <2>3 DEF Promise!Next
  <1>7. CASE ret'.tag = "Response" /\ call # NextEvent
    <2>1. Wanted(ret'.line) /\ ret'.line[1].val = call.arg /\ state # Idle /\ state' = Idle
      BY <1>7, PollAnswersCall
    <2>2. call.arg \in Nat \ {0} /\ pc' = "caller"
      BY <1>1, <1>2, <1>7, <2>1 DEF CallInv
    <2>3. result'.tag \in {"Ok", "RadioErr"} /\ result'.val = call.arg
      BY <1>7, <2>1 DEF PumpPoll, PumpReturns, Result
    <2>4. Promise!Answered
      BY <1>2, <1>3, <2>1, <2>2, <2>3 DEF Promise!Answered
    <2> QED BY <2>4 DEF Promise!Next
  <1> QED BY <1>5, <1>6, <1>7

\* Every step is one the promise allows, or hidden.
LEMMA StepIsPromised ==
  PromiseInd /\ [StdNext]_stdVars /\ ret'.tag # "RxOverflow"
    => [Promise!Next]_Promise!promiseVars
PROOF
  <1>1. SUFFICES ASSUME PromiseInd, [StdNext]_stdVars, ret'.tag # "RxOverflow"
                 PROVE  [Promise!Next]_Promise!promiseVars
    OBVIOUS
  <1>2. LinesInv /\ SlotOK
    BY <1>1 DEF PromiseInd, StdInd
  <1>3. ASSUME SlotSteps PROVE state' = Idle <=> state = Idle
    BY <1>2, <1>3, SlotStaysOK
  <1>4. CASE CallNextEvent
    <2>1. (state' = Idle <=> state = Idle) /\ rcv_sent' = rcv_sent /\ pc = "caller"
      BY <1>1, <1>3, <1>4, PumpSlotSteps DEF CallNextEvent, radioVars
    <2>2. CASE events # <<>>
      BY <1>1, <1>4, <2>1, <2>2, PopIsPromised DEF CallNextEvent
    <2>3. CASE events = <<>>
      BY <1>4, <2>1, <2>3, OthersAreHidden DEF CallNextEvent, NextEvent
    <2> QED BY <2>2, <2>3
  <1>5. CASE PumpWrites \/ PumpReadsNothing \/ DeadlinePasses \/ PumpReads \/ UNCHANGED stdVars
    <2>1. state' = Idle <=> state = Idle
      BY <1>1, <1>3, <1>5, PumpSlotSteps
    <2>2. /\ UNCHANGED <<call, result, rcv_sent, delivered>>
          /\ pc' = "caller" <=> pc = "caller"
      BY <1>1, <1>5 DEF PumpWrites, PumpReadsNothing, DeadlinePasses, PumpReads, stdVars, hostVars,
                  radioVars
    <2> QED BY <2>1, <2>2, OthersAreHidden
  <1>6. CASE PumpWriteFails \/ PumpReadFails
    <2>1. state' = Idle <=> state = Idle
      BY <1>1, <1>3, <1>6, PumpSlotSteps
    <2>2. PumpReturns("Io", 0) /\ rcv_sent' = rcv_sent
      BY <1>6 DEF PumpWriteFails, PumpReadFails, radioVars
    <2> QED BY <1>1, <2>1, <2>2, GivingUpIsPromised
  <1>7. CASE PumpChecksDeadline
    <2>1. (state' = Idle <=> state = Idle) /\ rcv_sent' = rcv_sent
      BY <1>1, <1>3, <1>7, PumpSlotSteps DEF PumpChecksDeadline, radioVars
    <2>2. CASE expired
      BY <1>1, <1>7, <2>1, <2>2, GivingUpIsPromised DEF PumpChecksDeadline
    <2>3. CASE ~expired
      BY <1>7, <2>1, <2>3, OthersAreHidden DEF PumpChecksDeadline
    <2> QED BY <2>2, <2>3
  <1>8. CASE Radio
    <2>1. (state' = Idle <=> state = Idle) /\ UNCHANGED <<pc, call, result, delivered>>
      BY <1>1, <1>3, <1>8, PumpSlotSteps DEF Radio, hostVars
    <2>2. CASE rcv_sent' = rcv_sent
      BY <2>1, <2>2, OthersAreHidden
    <2>3. CASE rcv_sent' = rcv_sent + 1
      <3>1. Promise!Arrive
        BY <2>1, <2>3 DEF Promise!Arrive
      <3> QED BY <3>1 DEF Promise!Next
    <2> QED BY <1>2, <1>8, <2>2, <2>3, RadioSays DEF Radio, LinesInv
  <1> QED BY <1>1, <1>4, <1>5, <1>6, <1>7, <1>8, CallIsPromised, PollIsPromised
          DEF StdNext, Caller, Pump

\* In the beginning nothing runs, and nothing is owed or given.
LEMMA PromiseInitially == StdInit => Promise!Init
PROOF BY EmptySeq DEF StdInit, Init, RadioInit, Promise!Init, Result

\* The blocking Radio keeps the promise of the host crates for any number of calls
\* and faults, if the module was up when the port was opened and the receive
\* buffer does not overflow. (radio.rs: the command methods, pump_until,
\* next_event; driver.rs: the slot.)
THEOREM StdKeepsPromise ==
  ~JustBooted /\ StdSpec /\ [](ret.tag # "RxOverflow") => KeepsPromise
PROOF
  <1>1. PromiseInd /\ [StdNext]_stdVars /\ (ret.tag # "RxOverflow")' => PromiseInd'
    BY PromiseNextInd
  <1>2. PromiseInd /\ [StdNext]_stdVars /\ (ret.tag # "RxOverflow")'
          => [Promise!Next]_Promise!promiseVars
    BY StepIsPromised
  <1> QED BY <1>1, <1>2, PromiseInitInd, PromiseInitially, PTL
          DEF StdSpec, KeepsPromise, Promise!Spec

-----------------------------------------------------------------------------
(* A buffer with room for a read                                           *)

\* Next to a line that is not whole yet there is room for one read.
RoomForRead == CHUNK + 2 <= RX_BUF

\* Inductive: the pump reads once poll() has taken all whole lines out of rx.
ReadsLate == pc = "read" => Len(rx) <= 2

Drains == PromiseInd /\ ReadsLate /\ ret.tag # "RxOverflow"

\* Nothing was read when the Radio is made.
LEMMA DrainsInit == ~JustBooted /\ StdInit => Drains
PROOF
  <1>1. StdInit => pc # "read" /\ ret.tag # "RxOverflow"
    BY DEF StdInit, Init, Ret
  <1> QED BY <1>1, PromiseInitInd DEF Drains, ReadsLate

\* Every read finds room, and the next one comes after poll() returned Idle.
LEMMA DrainsNext ==
  ASSUME RoomForRead, Drains, [StdNext]_stdVars
  PROVE  Drains'
PROOF
  <1>1. LinesInv /\ SlotOK /\ ReadsLate /\ ret.tag # "RxOverflow"
    BY DEF Drains, PromiseInd, StdInd
  <1>2. ASSUME NEW cmd \in Commands, CallCommand(cmd) PROVE ReadsLate' /\ ret'.tag # "RxOverflow"
    <2>1. pc' # "read"
      BY <1>2 DEF CallCommand
    <2> QED BY <1>1, <1>2, <2>1, StdSteps, OthersLeaveRx DEF ReadsLate
  <1>3. ASSUME PumpPoll PROVE ReadsLate' /\ ret'.tag # "RxOverflow"
    <2>1. pc' = "read" => ret'.tag = "Idle"
      BY <1>3 DEF PumpPoll, PumpReturns, Wanted
    <2> QED BY <1>1, <1>3, <2>1, StdSteps, IdleLeavesNoLine, PollReportsNone DEF ReadsLate
  <1>4. ASSUME PumpReads PROVE ReadsLate' /\ ret'.tag # "RxOverflow"
    <2>1. PICK n \in 1..CHUNK : n <= Len(from_radio) /\ PushRx(SubSeq(from_radio, 1, n))
      BY <1>4 DEF PumpReads
    <2>2. Len(rx) <= 2 /\ pc' # "read"
      BY <1>1, <1>4 DEF PumpReads, PumpReturns, ReadsLate
    <2>3. Len(rx) \in Nat /\ n \in Nat \ {0}
      BY <1>1, BoundAssumption, LenProperties DEF LinesInv, IndInv, TypeOK
    <2>4. Len(rx) + n <= RX_BUF
      BY <2>2, <2>3, BoundAssumption, CapacityAssumption DEF RoomForRead
    <2>5. ret'.tag # "RxOverflow"
      BY <1>1, <2>1, <2>3, <2>4, ReadFits
    <2> QED BY <2>2, <2>5 DEF ReadsLate
  <1>5. ASSUME \/ CallNextEvent \/ PumpWrites \/ PumpWriteFails \/ PumpReadsNothing
               \/ PumpReadFails \/ PumpChecksDeadline
        PROVE ReadsLate' /\ ret'.tag # "RxOverflow"
    <2>1. pc' # "read"
      BY <1>5 DEF CallNextEvent, PumpWrites, PumpWriteFails, PumpReadsNothing, PumpReadFails,
                  PumpChecksDeadline, PumpReturns
    <2> QED BY <1>1, <1>5, <2>1, StdSteps, OthersLeaveRx DEF ReadsLate
  <1>6. ASSUME DeadlinePasses \/ Radio \/ UNCHANGED stdVars
        PROVE ReadsLate' /\ ret'.tag # "RxOverflow"
    <2>1. UNCHANGED <<vars, pc>>
      BY <1>6 DEF DeadlinePasses, Radio, hostVars, stdVars
    <2> QED BY <1>1, <2>1 DEF ReadsLate, vars
  <1>7. ReadsLate' /\ ret'.tag # "RxOverflow"
    <2>1. StdNext \/ UNCHANGED stdVars
      OBVIOUS
    <2> QED BY <1>2, <1>3, <1>4, <1>5, <1>6, <2>1 DEF StdNext, Caller, Pump
  <1>8. PromiseInd'
    BY <1>7, PromiseNextInd DEF Drains
  <1> QED BY <1>7, <1>8 DEF Drains

\* However many messages come and however late they are read, the receive buffer
\* never overflows if it has room for one read next to an unfinished line: the pump
\* reads only when poll() has returned Idle, and poll() leaves no whole line of a
\* module that was up when the port was opened. (radio.rs: pump_until; driver.rs:
\* poll, push_rx.)
THEOREM StdNeverOverflows ==
  RoomForRead /\ ~JustBooted /\ StdSpec => [](ret.tag # "RxOverflow")
PROOF
  <1>1. SUFFICES ASSUME RoomForRead, ~JustBooted PROVE StdSpec => [](ret.tag # "RxOverflow")
    OBVIOUS
  <1>2. StdInit => Drains
    BY <1>1, DrainsInit
  <1>3. Drains /\ [StdNext]_stdVars => Drains'
    BY <1>1, DrainsNext
  <1>4. Drains => ret.tag # "RxOverflow"
    BY DEF Drains
  <1> QED BY <1>2, <1>3, <1>4, PTL DEF StdSpec

\* Hence the blocking Radio then loses no event and keeps its promise, whatever the
\* caller, the port and the clock do. (radio.rs: pump_until, next_event.)
THEOREM StdWithRoomIsReliable ==
  RoomForRead /\ ~JustBooted /\ StdSpec => []NoEventLost /\ KeepsPromise
PROOF BY StdNeverOverflows, StdLosesNoEvent, StdKeepsPromise, PTL
=============================================================================
