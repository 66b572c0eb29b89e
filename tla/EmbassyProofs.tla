---------------------------- MODULE EmbassyProofs ----------------------------
(***************************************************************************)
(* The properties of the no_std driver, for every value of the constants.  *)
(***************************************************************************)
EXTENDS EmbassyRadio, SerialProofs

-----------------------------------------------------------------------------
(* The steps of the host                                                   *)

\* Each step of the specification is one the lemmas on the serial line know.
LEMMA EmbassySteps ==
  /\ \A cmd \in Commands : CallCommand(cmd) => Submits(cmd)
  /\ PumpPoll => Polls
  /\ PumpWrites => Writes
  /\ WriteStops => WritesPart
  /\ WriteUnacked => WritesAll
  /\ PumpReads => Reads
  /\ Radio => Hears
  /\ (\E b \in BOOLEAN : CallNextEvent(b)) => Rests
  /\ PumpChecksDeadline \/ PumpReadTimesOut \/ ReadStops \/ DeadlinePasses => Rests
PROOF
  <1>1. PumpReads => Reads
    <2>1. 1..CHUNK \subseteq Nat \ {0}
      BY BoundAssumption
    <2> QED BY <2>1 DEF PumpReads, Reads
  <1>2. Radio => Hears
    BY DEF Radio, Hears
  <1>3. PumpWrites => Writes
    BY DEF PumpWrites, Writes
  <1>4. WriteStops => WritesPart
    BY DEF WriteStops, WritesPart
  <1>9. WriteUnacked => WritesAll
    BY DEF WriteUnacked, WritesAll
  <1>5. PumpPoll => Polls
    BY DEF PumpPoll, Polls
  <1>6. \A cmd \in Commands : CallCommand(cmd) => Submits(cmd)
    BY DEF CallCommand, Submits
  <1>7. (\E b \in BOOLEAN : CallNextEvent(b)) => Rests
    BY DEF CallNextEvent, Rests
  <1>8. PumpChecksDeadline \/ PumpReadTimesOut \/ ReadStops \/ DeadlinePasses => Rests
    BY DEF PumpChecksDeadline, PumpReadTimesOut, ReadStops, DeadlinePasses, Rests
  <1> QED BY <1>1, <1>2, <1>3, <1>4, <1>5, <1>6, <1>7, <1>8, <1>9

\* Every step of the specification is a step on the serial line.
LEMMA EmbassyNextSteps ==
  ASSUME [EmbassyNext]_embassyVars
  PROVE  Polls \/ OtherSteps
PROOF
  <1>1. CASE UNCHANGED embassyVars
    BY <1>1 DEF embassyVars, OtherSteps, Rests
  <1>2. CASE EmbassyNext
    BY <1>2, EmbassySteps DEF EmbassyNext, App, Pump, OtherSteps
  <1> QED BY <1>1, <1>2

-----------------------------------------------------------------------------
(* Type correctness                                                        *)

\* At a write all that was handed out is at hand, unless an earlier write stopped.
WritesAllOut == pc = "write" /\ faults = 0 => tx_in_flight <= Len(ret.bytes)

\* The host's own variables, and the bytes between a poll() and its ack_tx().
HostType ==
  /\ pc \in {"app", "poll", "write", "deadline", "read"}
  /\ call \in Commands \cup {NextEvent} /\ expired \in BOOLEAN
  /\ calls \in 0..MaxCalls /\ faults \in 0..MaxFaults
  /\ handled \in Seq(Vals) /\ served \in Seq(Vals)
  /\ WrittenIsAcked /\ WritesAllOut

\* Inductive: all types, and the driver's fields agree with each other.
EmbassyTypes == IndInv /\ RadioTypeOK /\ HostType

\* It implies the type invariant of the model.
LEMMA EmbassyTypesMean == EmbassyTypes => EmbassyTypeOK /\ SlotInv
PROOF BY DEF EmbassyTypes, EmbassyTypeOK, HostType, IndInv

\* A new Radio has the right types.
LEMMA EmbassyInitTypes == EmbassyInit => EmbassyTypes
PROOF
  <1>1. SUFFICES ASSUME EmbassyInit PROVE EmbassyTypes
    OBVIOUS
  <1>2. IndInv /\ RadioTypeOK
    BY <1>1, LinesInit DEF EmbassyInit, LinesInv
  <1>3. /\ pc = "app" /\ call = NextEvent /\ expired = FALSE
        /\ calls = 0 /\ faults = 0 /\ handled = <<>> /\ served = <<>>
    BY <1>1 DEF EmbassyInit
  <1>4. HostType
    <2>1. <<>> \in Seq(Vals) /\ 0 \in 0..MaxCalls /\ 0 \in 0..MaxFaults
      BY EmptySeq, BoundAssumption
    <2>2. WrittenIsAcked /\ WritesAllOut
      <3>1. tx_in_flight = 0
        BY <1>1 DEF EmbassyInit, Init
      <3> QED BY <1>3, <3>1 DEF WrittenIsAcked, WritesAllOut
    <2> QED BY <1>3, <2>1, <2>2 DEF HostType
  <1> QED BY <1>2, <1>4 DEF EmbassyTypes

\* An event handed out is put behind those before it.
LEMMA ServesType ==
  ASSUME handled \in Seq(Vals), served \in Seq(Vals), NEW tok \in Token, Serves(tok)
  PROVE  handled' \in Seq(Vals) /\ served' \in Seq(Vals)
PROOF
  <1>1. tok.val \in Vals
    BY DEF Token
  <1>2. Append(handled, tok.val) \in Seq(Vals) /\ Append(served, tok.val) \in Seq(Vals)
    BY <1>1, AppendProperties
  <1> QED BY <1>2 DEF Serves

\* What was handed out is acknowledged before the next poll(), if all went well.
LEMMA EmbassyNextAcks ==
  ASSUME EmbassyTypes, EmbassyNext
  PROVE  (WrittenIsAcked /\ WritesAllOut)'
PROOF
  <1>1. /\ IndInv /\ tx_in_flight \in Nat /\ faults \in Nat
        /\ WrittenIsAcked /\ WritesAllOut
    BY BoundAssumption DEF EmbassyTypes, HostType, IndInv, TypeOK
  <1>2. ASSUME tx_in_flight' = tx_in_flight, faults' >= faults, faults' \in Nat,
               pc' = "write" => pc = "write" /\ UNCHANGED ret,
               pc' # "write" => pc # "write" \/ faults' > faults
        PROVE  (WrittenIsAcked /\ WritesAllOut)'
    BY <1>1, <1>2 DEF WrittenIsAcked, WritesAllOut
  <1>3. Fault => faults' = faults + 1
    BY DEF Fault
  <1>4. ASSUME NEW cmd \in Commands, CallCommand(cmd) PROVE (WrittenIsAcked /\ WritesAllOut)'
    <2>1. tx_in_flight' = tx_in_flight
      BY <1>4, EmbassySteps, OthersKeepInFlight
    <2> QED BY <1>1, <1>2, <1>4, <2>1 DEF CallCommand, callVars
  <1>5. CASE PumpPoll
    <2>1. /\ ret'.tag # "NeedTx" => tx_in_flight' = tx_in_flight
          /\ ret'.tag = "NeedTx" /\ tx_in_flight = 0 => tx_in_flight' <= Len(ret'.bytes)
      BY <1>1, <1>5, EmbassySteps, PollHandsOutTx
    <2>2. pc = "poll" /\ faults' = faults
      BY <1>5 DEF PumpPoll
    <2>3. pc' = "write" <=> ret'.tag = "NeedTx"
      BY <1>5 DEF PumpPoll, PollHandsOutEvent, PollHandsOutResponse, PollHandsOutNothing,
                  Returns, Continues
    <2>4. CASE ret'.tag # "NeedTx"
      BY <1>1, <1>2, <2>1, <2>2, <2>3, <2>4
    <2>5. CASE ret'.tag = "NeedTx"
      BY <1>1, <2>1, <2>2, <2>3, <2>5 DEF WrittenIsAcked, WritesAllOut
    <2> QED BY <2>4, <2>5
  <1>6. CASE PumpWrites
    <2>1. pc = "write" /\ pc' = "poll" /\ faults' = faults /\ Writes
      BY <1>6, EmbassySteps DEF PumpWrites, Continues
    <2>2. faults = 0 => tx_in_flight' = 0
      BY <1>1, <2>1, WritesAckAll DEF WritesAllOut
    <2> QED BY <1>1, <2>1, <2>2 DEF WrittenIsAcked, WritesAllOut
  <1>7. CASE WriteStops \/ WriteUnacked \/ ReadStops
    <2>1. tx_in_flight' = tx_in_flight
      BY <1>7, EmbassySteps, OthersKeepInFlight
    <2>2. pc' = "app" /\ faults' = faults + 1
      BY <1>3, <1>7 DEF WriteStops, WriteUnacked, ReadStops, Returns
    <2> QED BY <1>1, <1>2, <2>1, <2>2
  <1>8. CASE \/ \E b \in BOOLEAN : CallNextEvent(b)
             \/ PumpChecksDeadline \/ PumpReads \/ PumpReadTimesOut
    <2>1. tx_in_flight' = tx_in_flight
      BY <1>8, EmbassySteps, OthersKeepInFlight
    <2>2. pc # "write" /\ pc' # "write" /\ faults' = faults
      BY <1>8 DEF CallNextEvent, PumpChecksDeadline, PumpReads, PumpReadTimesOut, Returns, Continues
    <2> QED BY <1>1, <1>2, <2>1, <2>2
  <1>9. CASE DeadlinePasses \/ Radio
    <2>1. UNCHANGED <<vars, pc, faults>>
      BY <1>9 DEF DeadlinePasses, Radio, hostVars, callVars
    <2> QED BY <1>1, <1>2, <2>1 DEF vars
  <1> QED BY <1>4, <1>5, <1>6, <1>7, <1>8, <1>9 DEF EmbassyNext, App, Pump

\* Every step of the host keeps its types.
LEMMA EmbassyNextHostType ==
  ASSUME EmbassyTypes, EmbassyNext
  PROVE  HostType'
PROOF
  <1>1. (WrittenIsAcked /\ WritesAllOut)'
    BY EmbassyNextAcks
  <1>2. /\ pc \in {"app", "poll", "write", "deadline", "read"}
        /\ call \in Commands \cup {NextEvent} /\ expired \in BOOLEAN
        /\ handled \in Seq(Vals) /\ served \in Seq(Vals)
        /\ calls \in 0..MaxCalls /\ faults \in 0..MaxFaults
        /\ MaxCalls \in Nat /\ MaxFaults \in Nat
    BY BoundAssumption DEF EmbassyTypes, HostType
  <1>3. Fault => faults' \in 0..MaxFaults
    BY <1>2 DEF Fault
  <1>4. ASSUME NEW cmd \in Commands, CallCommand(cmd) PROVE HostType'
    <2>1. calls' \in 0..MaxCalls
      BY <1>1, <1>2, <1>4 DEF CallCommand
    <2> QED BY <1>1, <1>2, <1>4, <2>1 DEF CallCommand, callVars, historyVars, HostType
  <1>5. ASSUME NEW b \in BOOLEAN, CallNextEvent(b) PROVE HostType'
    BY <1>1, <1>2, <1>5 DEF CallNextEvent, historyVars, HostType
  <1>6. CASE PumpPoll
    <2>1. handled' \in Seq(Vals) /\ served' \in Seq(Vals)
      <3>1. CASE PollHandsOutEvent
        <4>1. ret'.line[1] \in Token
          BY <1>6, <3>1, PollHandsOutLine DEF PumpPoll, PollHandsOutEvent, EmbassyTypes, IndInv
        <4> QED BY <1>1, <1>2, <3>1, <4>1, ServesType DEF PollHandsOutEvent
      <3>2. CASE PollHandsOutResponse \/ PollHandsOutNothing
        BY <1>1, <1>2, <3>2 DEF PollHandsOutResponse, PollHandsOutNothing, historyVars
      <3> QED BY <1>6, <3>1, <3>2 DEF PumpPoll
    <2>2. pc' \in {"app", "poll", "write", "deadline", "read"} /\ UNCHANGED <<call, expired>>
      BY <1>6 DEF PumpPoll, PollHandsOutEvent, PollHandsOutResponse, PollHandsOutNothing,
                  Returns, Continues
    <2> QED BY <1>1, <1>2, <1>6, <2>1, <2>2 DEF PumpPoll, HostType
  <1>7. CASE PumpWrites
    BY <1>1, <1>2, <1>7 DEF PumpWrites, Continues, historyVars, HostType
  <1>8. CASE WriteStops \/ WriteUnacked
    BY <1>1, <1>2, <1>3, <1>8 DEF WriteStops, WriteUnacked, Returns, historyVars, HostType
  <1>9. CASE PumpReads
    BY <1>1, <1>2, <1>9 DEF PumpReads, Returns, Continues, historyVars, HostType
  <1>10. CASE PumpReadTimesOut
    BY <1>1, <1>2, <1>10 DEF PumpReadTimesOut, Continues, historyVars, HostType
  <1>11. CASE ReadStops
    BY <1>1, <1>2, <1>3, <1>11 DEF ReadStops, Returns, historyVars, HostType
  <1>12. CASE PumpChecksDeadline
    BY <1>1, <1>2, <1>12 DEF PumpChecksDeadline, Returns, Continues, historyVars, HostType
  <1>13. CASE DeadlinePasses
    BY <1>1, <1>2, <1>13 DEF DeadlinePasses, historyVars, HostType
  <1>14. CASE Radio
    BY <1>1, <1>2, <1>14 DEF Radio, hostVars, callVars, historyVars, HostType
  <1> QED BY <1>4, <1>5, <1>6, <1>7, <1>8, <1>9, <1>10, <1>11, <1>12, <1>13, <1>14
          DEF EmbassyNext, App, Pump

\* Every step keeps all types.
LEMMA EmbassyNextTypes == EmbassyTypes /\ [EmbassyNext]_embassyVars => EmbassyTypes'
PROOF
  <1>1. SUFFICES ASSUME EmbassyTypes, [EmbassyNext]_embassyVars PROVE EmbassyTypes'
    OBVIOUS
  <1>2. IndInv' /\ RadioTypeOK'
    BY <1>1, EmbassyNextSteps, StepTypes DEF EmbassyTypes
  <1>3. HostType'
    <2>1. CASE UNCHANGED embassyVars
      BY <1>1, <2>1 DEF EmbassyTypes, HostType, WrittenIsAcked, WritesAllOut, embassyVars, hostVars,
                        callVars, historyVars, vars
    <2> QED BY <1>1, <2>1, EmbassyNextHostType
  <1> QED BY <1>2, <1>3 DEF EmbassyTypes

\* The variables of the no_std Radio, of the driver it owns and of the serial line
\* keep their types. (lib.rs: pump_until, next_event, the command methods.)
THEOREM EmbassyTypeCorrect == EmbassySpec => []EmbassyTypeOK
PROOF
  <1>1. EmbassyTypes => EmbassyTypeOK
    BY EmbassyTypesMean
  <1> QED BY <1>1, EmbassyInitTypes, EmbassyNextTypes, PTL DEF EmbassySpec

-----------------------------------------------------------------------------
(* Events are handed out once and in order                                 *)

\* Inductive: what EventsOnceInOrder says, of a stream of lines.
EventsInv ==
  /\ CountsUp(served)
  /\ Len(served) + 1 <= rcv_sent + 1
  /\ RcvsAre(<<>> \o Unread, Len(served) + 1, rcv_sent)

EmbassyInd == HostType /\ LinesInv /\ EventsInv

\* The stream with nothing in front of it.
LEMMA EventsInvMeans ==
  ASSUME EmbassyInd
  PROVE  EventsOnceInOrder
PROOF
  <1>1. Unread \in Seq(Token)
    BY ConcatParts DEF EmbassyInd, LinesInv, IndInv, TypeOK, RadioTypeOK, Unread
  <1>2. <<>> \o Unread = Unread
    BY <1>1, ConcatEmptySeq
  <1> QED BY <1>2 DEF EmbassyInd, EventsInv, EventsOnceInOrder, Unread

\* Nothing was sent and nothing handed out when the UART is opened.
LEMMA EmbassyInitInd == EmbassyInit => EmbassyInd
PROOF
  <1>1. SUFFICES ASSUME EmbassyInit PROVE EmbassyInd
    OBVIOUS
  <1>2. HostType
    BY <1>1, EmbassyInitTypes DEF EmbassyTypes
  <1>3. LinesInv
    BY <1>1, LinesInit DEF EmbassyInit
  <1>4. served = <<>> /\ rcv_sent = 0
    BY <1>1 DEF EmbassyInit, RadioInit
  <1>5. RcvsAre(Unread, 1, 0)
    BY <1>1, NoRcvAtFirst DEF EmbassyInit
  <1>6. <<>> \o Unread = Unread
    <2>1. Unread \in Seq(Token)
      BY <1>3, ConcatParts DEF LinesInv, IndInv, TypeOK, RadioTypeOK, Unread
    <2> QED BY <2>1, ConcatEmptySeq
  <1>7. Len(<<>>) = 0 /\ CountsUp(<<>>)
    BY DEF CountsUp
  <1>8. EventsInv
    BY <1>4, <1>5, <1>6, <1>7 DEF EventsInv
  <1> QED BY <1>2, <1>3, <1>8 DEF EmbassyInd

\* A step that hands out nothing moves tokens from the UART to the buffer, or
\* adds a line behind them.
LEMMA RestKeeps ==
  ASSUME EmbassyInd, OtherSteps, ret'.tag # "RxOverflow", served' = served
  PROVE  EventsInv'
PROOF
  <1> DEFINE d == Len(served) + 1
  <1>1. served \in Seq(Vals) /\ LinesInv /\ <<>> \in Seq(Token)
    BY EmptySeq DEF EmbassyInd, HostType
  <1>2. d \in Nat
    BY <1>1, LenProperties
  <1>3. CountsUp(served) /\ d <= rcv_sent + 1 /\ RcvsAre(<<>> \o Unread, d, rcv_sent)
    BY DEF EmbassyInd, EventsInv
  <1> HIDE DEF d
  <1>4. d <= rcv_sent' + 1 /\ RcvsAre(<<>> \o Unread', d, rcv_sent')
    BY <1>1, <1>2, <1>3, OthersCarryOn
  <1> QED BY <1>3, <1>4 DEF EventsInv, d

\* An event is the first line of the stream; if it is a +RCV, it has the number
\* that comes next.
LEMMA EventIsNext ==
  ASSUME EmbassyInd, PumpPoll, ret'.tag = "Event", NEW e, e = ret'.line[1],
         NEW d, d = Len(served) + 1, NEW u, u = Unread'
  PROVE  /\ e \in Token /\ Serves(e)
         /\ IF IsRcv(e) THEN e.val = d /\ d <= rcv_sent /\ RcvsAre(<<>> \o u, d + 1, rcv_sent)
                        ELSE RcvsAre(<<>> \o u, d, rcv_sent)
PROOF
  <1>1. served \in Seq(Vals) /\ LinesInv /\ <<>> \in Seq(Token) /\ rcv_sent \in Int
    BY EmptySeq, RadioAssumption DEF EmbassyInd, HostType, LinesInv, RadioTypeOK
  <1>2. d \in Nat
    BY <1>1, LenProperties
  <1>3. d <= rcv_sent + 1 /\ RcvsAre(<<>> \o Unread, d, rcv_sent) /\ Polls
    BY EmbassySteps DEF EmbassyInd, EventsInv
  <1>4. u \in Seq(Token)
    <2>1. IndInv' /\ RadioTypeOK'
      BY <1>1, <1>3, StepTypes DEF LinesInv
    <2>2. rx' \in Seq(Token) /\ from_radio' \in Seq(Token)
      BY <2>1 DEF IndInv, TypeOK, RadioTypeOK
    <2> QED BY <2>2, ConcatParts DEF Unread
  <1>5. /\ e \in Token /\ Append(<<>>, e) \in Seq(Token)
        /\ RcvsAre(Append(<<>>, e) \o u, d, rcv_sent)
    BY <1>1, <1>2, <1>3, PollCarriesOn
  <1> DEFINE q == Append(<<>>, e)
  <1>6. q \in Seq(Token) /\ q # <<>> /\ Head(q) = e /\ Tail(q) = <<>>
    <2>1. q = <<e>>
      OBVIOUS
    <2> QED BY <1>5, <2>1
  <1> HIDE DEF q
  <1>7. d \in Int /\ RcvsAre(q \o u, d, rcv_sent)
    BY <1>2, <1>5 DEF q
  <1>8. IF IsRcv(e) THEN e.val = d /\ d <= rcv_sent /\ RcvsAre(<<>> \o u, d + 1, rcv_sent)
                    ELSE RcvsAre(<<>> \o u, d, rcv_sent)
    BY <1>1, <1>4, <1>6, <1>7, QueuePops
  <1>9. Serves(e)
    BY DEF PumpPoll, PollHandsOutEvent, PollHandsOutResponse, PollHandsOutNothing
  <1> QED BY <1>5, <1>8, <1>9

\* So what is served is still what comes before the stream.
LEMMA PumpPollKeeps ==
  ASSUME EmbassyInd, PumpPoll
  PROVE  EventsInv'
PROOF
  <1> DEFINE d == Len(served) + 1
             e == ret'.line[1]
             u == Unread'
  <1>1. served \in Seq(Vals) /\ LinesInv /\ <<>> \in Seq(Token) /\ rcv_sent \in Int
    BY EmptySeq, RadioAssumption DEF EmbassyInd, HostType, LinesInv, RadioTypeOK
  <1>2. d \in Nat
    BY <1>1, LenProperties
  <1>3. CountsUp(served) /\ d <= rcv_sent + 1 /\ RcvsAre(<<>> \o Unread, d, rcv_sent)
    BY DEF EmbassyInd, EventsInv
  <1>4. Polls
    BY EmbassySteps
  <1> HIDE DEF d, e, u
  <1>5. rcv_sent' = rcv_sent /\ (ret'.tag # "Event" => RcvsAre(<<>> \o u, d, rcv_sent))
    BY <1>1, <1>2, <1>3, <1>4, PollCarriesOn DEF u
  <1>6. CASE ret'.tag # "Event"
    <2>1. served' = served
      BY <1>6 DEF PumpPoll, PollHandsOutEvent, PollHandsOutResponse, PollHandsOutNothing,
                  historyVars
    <2> QED BY <1>3, <1>5, <1>6, <2>1 DEF EventsInv, d, u
  <1>7. CASE ret'.tag = "Event"
    <2>1. /\ e \in Token /\ Serves(e)
          /\ IF IsRcv(e) THEN e.val = d /\ d <= rcv_sent /\ RcvsAre(<<>> \o u, d + 1, rcv_sent)
                         ELSE RcvsAre(<<>> \o u, d, rcv_sent)
      BY <1>7, EventIsNext DEF d, e, u
    <2>2. CASE IsRcv(e)
      <3>1. served' = Append(served, e.val) /\ e.val \in Vals
        BY <2>1, <2>2 DEF Serves, IsRcv, Token
      <3>2. Len(served') = d /\ CountsUp(served')
        BY <1>1, <1>3, <2>1, <2>2, <3>1, AppendCountsUp DEF d
      <3> QED BY <1>1, <1>2, <1>5, <2>1, <2>2, <3>2 DEF EventsInv, u
    <2>3. CASE ~IsRcv(e)
      <3>1. served' = served
        BY <2>1, <2>3 DEF Serves, IsRcv
      <3> QED BY <1>3, <1>5, <2>1, <2>3, <3>1 DEF EventsInv, d, u
    <2> QED BY <2>2, <2>3
  <1> QED BY <1>6, <1>7

\* Every step keeps it, as long as rx does not overflow.
LEMMA EmbassyNextInd ==
  EmbassyInd /\ [EmbassyNext]_embassyVars /\ ret'.tag # "RxOverflow" => EmbassyInd'
PROOF
  <1>1. SUFFICES ASSUME EmbassyInd, [EmbassyNext]_embassyVars, ret'.tag # "RxOverflow"
                 PROVE  EmbassyInd'
    OBVIOUS
  <1>2. Polls \/ OtherSteps
    BY <1>1, EmbassyNextSteps
  <1>3. LinesInv'
    BY <1>1, <1>2, StepLines DEF EmbassyInd
  <1>4. HostType'
    <2>1. EmbassyTypes
      BY <1>1 DEF EmbassyInd, LinesInv, EmbassyTypes
    <2> QED BY <1>1, <2>1, EmbassyNextTypes DEF EmbassyTypes
  <1>5. EventsInv'
    <2>1. CASE PumpPoll
      BY <1>1, <2>1, PumpPollKeeps
    <2>2. CASE ~PumpPoll
      <3>1. OtherSteps
        <4>1. CASE UNCHANGED embassyVars
          BY <4>1 DEF embassyVars, OtherSteps, Rests
        <4> QED BY <1>1, <2>2, <4>1, EmbassySteps DEF EmbassyNext, App, Pump, OtherSteps
      <3>2. served' = served
        <4>1. CASE UNCHANGED embassyVars
          BY <4>1 DEF embassyVars, hostVars, historyVars
        <4>2. ASSUME NEW cmd \in Commands, CallCommand(cmd) PROVE served' = served
          BY <4>2 DEF CallCommand, historyVars
        <4>3. ASSUME NEW b \in BOOLEAN, CallNextEvent(b) PROVE served' = served
          BY <4>3 DEF CallNextEvent, historyVars
        <4>4. CASE PumpWrites \/ PumpChecksDeadline \/ PumpReads \/ PumpReadTimesOut
          BY <4>4 DEF PumpWrites, PumpChecksDeadline, PumpReads, PumpReadTimesOut, historyVars
        <4>5. CASE WriteStops \/ WriteUnacked \/ ReadStops \/ DeadlinePasses \/ Radio
          BY <4>5 DEF WriteStops, WriteUnacked, ReadStops, DeadlinePasses, Radio, hostVars, historyVars
        <4> QED BY <1>1, <2>2, <4>1, <4>2, <4>3, <4>4, <4>5 DEF EmbassyNext, App, Pump
      <3> QED BY <1>1, <3>1, <3>2, RestKeeps
    <2> QED BY <2>1, <2>2
  <1> QED BY <1>3, <1>4, <1>5 DEF EmbassyInd

\* As long as the receive buffer does not overflow, every +RCV the module sent is
\* given to the handler or logged once and in order, or still unread: over all
\* calls, time-outs, UART errors and dropped futures. (lib.rs: pump_until,
\* next_event, log_event.)
THEOREM EmbassyServesEventsInOrder ==
  EmbassySpec /\ [](ret.tag # "RxOverflow") => []EventsOnceInOrder
PROOF
  <1>1. EmbassyInd => EventsOnceInOrder
    BY EventsInvMeans
  <1>2. EmbassyInd /\ [EmbassyNext]_embassyVars /\ (ret.tag # "RxOverflow")' => EmbassyInd'
    BY EmbassyNextInd
  <1> QED BY <1>1, <1>2, EmbassyInitInd, PTL DEF EmbassySpec

-----------------------------------------------------------------------------
(* The promise of the host crates                                          *)

\* While a command method runs its command holds the slot; at a write, what
\* poll() handed out is still to be written.
CallInv ==
  /\ call # NextEvent => call.arg \in Nat \ {0}
  /\ pc # "app" /\ call # NextEvent => Slot(call)
  /\ pc = "write" => AtWrite

\* Inductive, for a module that was up when the UART was opened.
PromiseInd == EmbassyInd /\ SlotOK /\ CallInv

\* A Radio just made has no call running, and the slot is free.
LEMMA PromiseInitInd == ~JustBooted /\ EmbassyInit => PromiseInd
PROOF
  <1>1. SUFFICES ASSUME ~JustBooted, EmbassyInit PROVE PromiseInd
    OBVIOUS
  <1>2. EmbassyInd
    BY <1>1, EmbassyInitInd
  <1>3. SlotOK
    BY <1>1, FreeInit DEF EmbassyInit, SlotOK
  <1>4. CallInv
    BY <1>1 DEF EmbassyInit, CallInv
  <1> QED BY <1>2, <1>3, <1>4 DEF PromiseInd

\* No write is interrupted after its last byte.  (A UART that buffers says so at
\* once: then nothing is awaited between that byte and ack_tx.)
NoLateStop == [~WriteUnacked]_embassyVars

\* The steps that neither submit nor poll are those SlotIsKept is about.
LEMMA PumpSlotSteps ==
  ASSUME PromiseInd, ret'.tag # "RxOverflow",
         \/ \E b \in BOOLEAN : CallNextEvent(b)
         \/ PumpWrites \/ WriteStops \/ PumpChecksDeadline \/ PumpReads \/ PumpReadTimesOut
         \/ ReadStops \/ DeadlinePasses \/ Radio \/ UNCHANGED embassyVars
  PROVE  SlotSteps
PROOF
  <1>1. CASE PumpWrites \/ WriteStops
    <2>1. AtWrite
      BY <1>1 DEF PromiseInd, CallInv, PumpWrites, WriteStops
    <2> QED BY <1>1, <2>1, EmbassySteps DEF SlotSteps
  <1>2. CASE UNCHANGED embassyVars
    BY <1>2 DEF embassyVars, Rests, SlotSteps
  <1> QED BY <1>1, <1>2, EmbassySteps DEF SlotSteps

\* A poll() with a command method running: either the command keeps the slot and
\* there is no response, or the response is its answer and the method returns it.
LEMMA PollAnswersCall ==
  ASSUME PromiseInd, PumpPoll, call # NextEvent
  PROVE  IF ret'.tag = "Response"
           THEN /\ Wanted(ret'.line) /\ ret'.line[1].val = call.arg
                /\ state # Idle /\ state' = Idle
           ELSE Slot(call)' /\ state # Idle /\ state' # Idle
PROOF
  <1>1. PICK cmd \in Commands : cmd = call
    BY DEF PromiseInd, EmbassyInd, HostType
  <1>2. Slot(cmd) /\ LinesInv /\ Polls /\ call' = cmd
    <2>1. Slot(call)
      BY DEF PromiseInd, CallInv, PumpPoll
    <2>2. call' = call
      BY DEF PumpPoll, PollHandsOutEvent, PollHandsOutResponse, PollHandsOutNothing,
             Returns, Continues
    <2> QED BY <1>1, <2>1, <2>2, EmbassySteps DEF PromiseInd, EmbassyInd
  <1>3. \/ Slot(cmd)' /\ ret'.tag # "Response"
        \/ /\ Free' /\ ret'.tag = "Response"
           /\ ret'.line # <<>> /\ ret'.line[1].val = cmd.arg
           /\ ret'.line[1].key \in AnswerKeys(cmd) \ {"+RESET"}
    BY <1>2, SlotPolls
  <1>4. state # Idle /\ (Slot(cmd)' => state' # Idle) /\ (Free' => state' = Idle)
    BY <1>2, StatesDiffer DEF Slot, Sending, Sent, Free
  <1>5. ret'.tag = "Response" => Wanted(ret'.line)
    BY <1>1, <1>3, AnswerMatches DEF Wanted
  <1>6. Slot(cmd)' => Slot(call)'
    BY <1>2
  <1> QED BY <1>1, <1>3, <1>4, <1>5, <1>6

\* Where the pump stands after a poll().
LEMMA PumpPollGoes ==
  ASSUME PumpPoll
  PROVE  /\ pc = "poll" /\ pc' \in {"poll", "write", "deadline", "app"}
         /\ pc' = "write" => ret'.tag = "NeedTx"
         /\ ret'.tag = "Response" =>
              (pc' = "app" <=> call # NextEvent /\ Wanted(ret'.line))
         /\ ret'.tag # "Response" /\ call # NextEvent => pc' # "app"
         /\ call' = call
PROOF BY DEF PumpPoll, PollHandsOutEvent, PollHandsOutResponse, PollHandsOutNothing,
             Returns, Continues

\* Every step keeps it.
LEMMA PromiseNextInd ==
  PromiseInd /\ [EmbassyNext]_embassyVars /\ NoLateStop /\ ret'.tag # "RxOverflow" => PromiseInd'
PROOF
  <1>1. SUFFICES ASSUME PromiseInd, [EmbassyNext]_embassyVars, ret'.tag # "RxOverflow",
                        ~WriteUnacked \/ UNCHANGED embassyVars
                 PROVE  PromiseInd'
    BY DEF NoLateStop
  <1>2. EmbassyInd'
    BY <1>1, EmbassyNextInd DEF PromiseInd
  <1>3. LinesInv /\ SlotOK /\ CallInv /\ calls \in Nat
    BY <1>1, BoundAssumption DEF PromiseInd, EmbassyInd, HostType
  <1>4. ASSUME NEW cmd \in Commands, CallCommand(cmd) PROVE SlotOK' /\ CallInv'
    <2>1. SlotOK' /\ (ret'.tag = "Submitted" => Slot(cmd)')
      BY <1>3, <1>4, EmbassySteps, SubmitTakesSlot
    <2>2. cmd.arg \in Nat \ {0} /\ pc = "app"
      BY <1>3, <1>4 DEF CallCommand
    <2>3. CASE ret'.tag = "Submitted"
      <3>1. call' = cmd /\ pc' = "poll"
        BY <1>4, <2>3 DEF CallCommand
      <3> QED BY <2>1, <2>2, <2>3, <3>1 DEF CallInv
    <2>4. CASE ret'.tag # "Submitted"
      <3>1. call' = call /\ pc' = "app"
        BY <1>4, <2>2, <2>4 DEF CallCommand, callVars
      <3> QED BY <1>3, <2>1, <3>1 DEF CallInv
    <2> QED BY <2>3, <2>4
  <1>5. ASSUME PumpPoll PROVE SlotOK' /\ CallInv'
    <2>1. SlotOK' /\ (ret'.tag = "NeedTx" => AtWrite')
      BY <1>3, <1>5, EmbassySteps, PollKeepsSlotOK
    <2>2. /\ pc' = "write" => ret'.tag = "NeedTx"
          /\ ret'.tag = "Response" =>
               (pc' = "app" <=> call # NextEvent /\ Wanted(ret'.line))
          /\ call' = call
      BY <1>5, PumpPollGoes
    <2>3. pc' # "app" /\ call' # NextEvent => Slot(call)'
      BY <1>1, <1>5, <2>2, PollAnswersCall
    <2> QED BY <1>3, <2>1, <2>2, <2>3 DEF CallInv
  <1>6. ASSUME SlotSteps, call' = call, pc' # "app" => pc # "app",
               pc' = "write" => pc = "write" /\ (Hears \/ Rests)
        PROVE  SlotOK' /\ CallInv'
    <2>1. SlotOK'
      BY <1>3, <1>6, SlotStaysOK
    <2>2. pc' = "write" => AtWrite'
      BY <1>3, <1>6, AtWriteStays DEF CallInv
    <2>3. ASSUME pc' # "app", call' # NextEvent PROVE Slot(call)'
      <3>1. PICK cmd \in Commands : cmd = call /\ Slot(cmd)
        BY <1>1, <1>3, <1>6, <2>3 DEF PromiseInd, EmbassyInd, HostType, CallInv
      <3>2. Slot(cmd)'
        BY <1>3, <1>6, <3>1, SlotIsKept
      <3> QED BY <1>6, <3>1, <3>2
    <2> QED BY <1>3, <1>6, <2>1, <2>2, <2>3 DEF CallInv
  <1>7. ASSUME NEW b \in BOOLEAN, CallNextEvent(b) PROVE SlotOK' /\ CallInv'
    <2>1. SlotOK'
      BY <1>1, <1>3, <1>7, PumpSlotSteps, SlotStaysOK
    <2>2. pc' = "poll" /\ call' = NextEvent
      BY <1>7 DEF CallNextEvent
    <2> QED BY <2>1, <2>2 DEF CallInv
  <1>8. ASSUME \/ PumpWrites \/ WriteStops \/ PumpChecksDeadline \/ PumpReads
               \/ PumpReadTimesOut \/ ReadStops
        PROVE  SlotOK' /\ CallInv'
    <2>1. call' = call /\ pc # "app" /\ pc' # "write"
      BY <1>8 DEF PumpWrites, WriteStops, PumpChecksDeadline, PumpReads, PumpReadTimesOut,
                  ReadStops, Returns, Continues
    <2>2. SlotSteps
      BY <1>1, <1>8, PumpSlotSteps
    <2> QED BY <1>6, <2>1, <2>2
  <1>9. ASSUME DeadlinePasses \/ Radio \/ UNCHANGED embassyVars PROVE SlotOK' /\ CallInv'
    <2>1. SlotSteps /\ (Hears \/ Rests)
      BY <1>1, <1>9, PumpSlotSteps, EmbassySteps DEF embassyVars, Rests
    <2>2. call' = call /\ pc' = pc
      BY <1>9 DEF DeadlinePasses, Radio, embassyVars, hostVars, callVars
    <2> QED BY <1>6, <2>1, <2>2
  <1>10. SlotOK' /\ CallInv'
    BY <1>1, <1>4, <1>5, <1>7, <1>8, <1>9 DEF EmbassyNext, App, Pump
  <1> QED BY <1>2, <1>10 DEF PromiseInd

\* For any number of commands cut short the module never finds one of them in
\* front of another, as long as the receive buffer does not overflow and no write
\* is interrupted after its last byte.
\* (lib.rs: write_all before ack_tx; driver.rs: submit returns Busy.)
THEOREM EmbassyBuriesNothing ==
  ~JustBooted /\ EmbassySpec /\ [][~WriteUnacked]_embassyVars /\ [](ret.tag # "RxOverflow")
    => []NothingBehindHalf
PROOF
  <1>1. PromiseInd /\ [EmbassyNext]_embassyVars /\ [~WriteUnacked]_embassyVars /\ (ret.tag # "RxOverflow")' => PromiseInd'
    BY PromiseNextInd DEF NoLateStop
  <1>2. PromiseInd => NothingBehindHalf
    BY NothingBuried DEF PromiseInd, EmbassyInd, LinesInv, NothingBehindHalf
  <1> QED BY <1>1, <1>2, PromiseInitInd, PTL DEF EmbassySpec

\* A step that returns no answer, and serves no event.
LEMMA FailureIsPromised ==
  ASSUME pc' = "app", result'.tag \notin {"Ok", "RadioErr"}, state' = Idle <=> state = Idle,
         UNCHANGED <<rcv_sent, historyVars>>
  PROVE  Promise!Fails
PROOF BY DEF Promise!Fails, historyVars

\* A step the application sees nothing of.
LEMMA OthersAreHidden ==
  ASSUME UNCHANGED <<result, rcv_sent, historyVars>>, state' = Idle <=> state = Idle,
         (IF pc' = "app" THEN 0 ELSE call'.arg) = (IF pc = "app" THEN 0 ELSE call.arg)
  PROVE  UNCHANGED Promise!promiseVars
PROOF BY DEF Promise!promiseVars, historyVars

\* A call of a command method is accepted, or fails.
LEMMA CallIsPromised ==
  ASSUME PromiseInd, NEW cmd \in Commands, CallCommand(cmd)
  PROVE  Promise!Next
PROOF
  <1>1. LinesInv /\ SlotOK /\ CallInv /\ calls \in Nat
    BY BoundAssumption DEF PromiseInd, EmbassyInd, HostType
  <1>2. /\ ret'.tag = "Submitted" => state = Idle /\ state' # Idle
        /\ ret'.tag # "Submitted" => state' = state
    BY <1>1, EmbassySteps, SubmitTakesSlot
  <1>3. cmd.arg \in Nat \ {0} /\ pc = "app" /\ UNCHANGED <<rcv_sent, historyVars>>
    BY <1>1 DEF CallCommand, radioVars
  <1>4. CASE ret'.tag = "Submitted"
    <2>1. pc' = "poll" /\ call' = cmd /\ result' = result
      BY <1>4 DEF CallCommand
    <2>2. Promise!Accept
      BY <1>2, <1>3, <1>4, <2>1 DEF Promise!Accept, historyVars
    <2> QED BY <2>2 DEF Promise!Next
  <1>5. CASE ret'.tag # "Submitted"
    <2>1. pc' = "app" /\ result'.tag = ret'.tag
      BY <1>3, <1>5 DEF CallCommand, callVars, Result
    <2>2. ret'.tag \notin {"Ok", "RadioErr"}
      BY <1>5 DEF CallCommand, Submit, SubmitBusy, SubmitTxOverflow, SubmitAccepted, Ret, RetBytes
    <2> QED BY <1>2, <1>3, <1>5, <2>1, <2>2, FailureIsPromised DEF Promise!Next
  <1> QED BY <1>4, <1>5

\* An event is the next one: next_event gives it to its handler, a command drops it.
LEMMA EventIsPromised ==
  ASSUME PromiseInd, PumpPoll, ret'.tag = "Event"
  PROVE  [Promise!Next]_Promise!promiseVars
PROOF
  <1> DEFINE d == Len(served) + 1
             e == ret'.line[1]
             u == Unread'
  <1>1. LinesInv /\ SlotOK /\ CallInv /\ Polls /\ EmbassyInd
    BY EmbassySteps DEF PromiseInd, EmbassyInd
  <1>2. /\ handled \in Seq(Vals) /\ served \in Seq(Vals) /\ rcv_sent \in Int /\ Len(served) \in Nat
    BY <1>1, RadioAssumption, LenProperties DEF EmbassyInd, HostType, LinesInv, RadioTypeOK
  <1>3. pc = "poll" /\ call' = call /\ rcv_sent' = rcv_sent
    BY PumpPollGoes DEF PumpPoll, radioVars
  <1>4. state' = Idle <=> state = Idle
    BY <1>1, PollKeepsSlotOK
  <1>5. \/ pc' = "poll" /\ result' = result
        \/ call = NextEvent /\ pc' = "app" /\ result'.tag = "Event"
    BY DEF PumpPoll, PollHandsOutEvent, PollHandsOutResponse, PollHandsOutNothing,
           Returns, Continues, Result
  <1> HIDE DEF d, e, u
  <1>6. /\ e \in Token /\ Serves(e)
        /\ IsRcv(e) => e.val = d /\ d <= rcv_sent
    BY <1>1, EventIsNext DEF d, e, u
  <1>7. NextEvent.arg = 0
    BY DEF NextEvent
  <1>8. CASE ~IsRcv(e)
    <2>1. UNCHANGED historyVars
      BY <1>6, <1>8 DEF Serves, IsRcv, historyVars
    <2>2. CASE pc' = "poll" /\ result' = result
      BY <1>3, <1>4, <2>1, <2>2, OthersAreHidden
    <2>3. CASE call = NextEvent /\ pc' = "app" /\ result'.tag = "Event"
      BY <1>3, <1>4, <2>1, <2>3, FailureIsPromised DEF Promise!Next
    <2> QED BY <1>5, <2>2, <2>3
  <1>9. CASE IsRcv(e)
    <2>1. served' = Append(served, d) /\ d \in Vals
      BY <1>6, <1>9 DEF Serves, IsRcv, Token
    <2>2. Len(served') = Len(served) + 1 /\ d = Len(served') /\ Len(served) < rcv_sent
      BY <1>2, <1>6, <1>9, <2>1, AppendProperties DEF d
    <2>3. CASE call = NextEvent
      <3>1. handled' = Append(handled, Len(served'))
        BY <1>6, <1>9, <2>2, <2>3 DEF Serves, IsRcv
      <3>2. Promise!Give
        BY <1>3, <1>4, <1>5, <1>7, <2>2, <2>3, <3>1 DEF Promise!Give
      <3> QED BY <3>2 DEF Promise!Next
    <2>4. CASE call # NextEvent
      <3>1. handled' = handled /\ call.arg \in Nat \ {0}
        BY <1>1, <1>6, <2>4 DEF Serves, CallInv
      <3>2. Promise!Drop
        BY <1>3, <1>4, <1>5, <2>2, <2>4, <3>1 DEF Promise!Drop
      <3> QED BY <3>2 DEF Promise!Next
    <2> QED BY <2>3, <2>4
  <1> QED BY <1>8, <1>9

\* A response is the answer the running call waits for or, to next_event, one that
\* comes late.
LEMMA ResponseIsPromised ==
  ASSUME PromiseInd, PumpPoll, ret'.tag = "Response"
  PROVE  Promise!Next
PROOF
  <1>1. LinesInv /\ SlotOK /\ CallInv /\ Polls
    BY EmbassySteps DEF PromiseInd, EmbassyInd
  <1>2. /\ pc = "poll" /\ call' = call
        /\ pc' = "app" <=> call # NextEvent /\ Wanted(ret'.line)
    BY PumpPollGoes
  <1>3. PollHandsOutResponse /\ UNCHANGED <<rcv_sent, historyVars>>
    BY DEF PumpPoll, PollHandsOutEvent, PollHandsOutResponse, PollHandsOutNothing, radioVars
  <1>4. CASE call = NextEvent
    <2>1. state # Idle /\ state' = Idle
      BY <1>1, PollKeepsSlotOK
    <2>2. result' = result /\ pc' = "poll"
      BY <1>3, <1>4 DEF PollHandsOutResponse, Continues
    <2>3. Promise!LateAnswer
      BY <1>2, <1>3, <1>4, <2>1, <2>2 DEF Promise!LateAnswer, NextEvent, historyVars
    <2> QED BY <2>3 DEF Promise!Next
  <1>5. CASE call # NextEvent
    <2>1. Wanted(ret'.line) /\ ret'.line[1].val = call.arg /\ state # Idle /\ state' = Idle
      BY <1>5, PollAnswersCall
    <2>2. call.arg \in Nat \ {0} /\ pc' = "app"
      BY <1>1, <1>2, <1>5, <2>1 DEF CallInv
    <2>3. result'.tag \in {"Ok", "RadioErr"} /\ result'.val = call.arg
      BY <1>3, <1>5, <2>1 DEF PollHandsOutResponse, Returns, Result
    <2>4. Promise!Answered
      BY <1>2, <1>3, <2>1, <2>2, <2>3 DEF Promise!Answered, historyVars
    <2> QED BY <2>4 DEF Promise!Next
  <1> QED BY <1>4, <1>5

\* So is every poll().
LEMMA PollIsPromised ==
  ASSUME PromiseInd, PumpPoll
  PROVE  [Promise!Next]_Promise!promiseVars
PROOF
  <1>1. CASE ret'.tag \notin {"Event", "Response"}
    <2>1. PollHandsOutNothing
      BY <1>1 DEF PumpPoll, PollHandsOutEvent, PollHandsOutResponse
    <2>2. /\ UNCHANGED <<call, result, rcv_sent, historyVars>>
          /\ pc = "poll" /\ pc' \in {"write", "deadline", "poll"}
      BY <2>1 DEF PumpPoll, PollHandsOutNothing, Continues, radioVars
    <2>3. state' = Idle <=> state = Idle
      BY <1>1, EmbassySteps, PollKeepsSlotOK DEF PromiseInd, EmbassyInd
    <2> QED BY <2>2, <2>3, OthersAreHidden
  <1> QED BY <1>1, EventIsPromised, ResponseIsPromised

\* Every step is one the promise allows, or hidden.
LEMMA StepIsPromised ==
  PromiseInd /\ [EmbassyNext]_embassyVars /\ NoLateStop /\ ret'.tag # "RxOverflow"
    => [Promise!Next]_Promise!promiseVars
PROOF
  <1>1. SUFFICES ASSUME PromiseInd, [EmbassyNext]_embassyVars, ret'.tag # "RxOverflow",
                        ~WriteUnacked \/ UNCHANGED embassyVars
                 PROVE  [Promise!Next]_Promise!promiseVars
    BY DEF NoLateStop
  <1>2. LinesInv /\ SlotOK
    BY <1>1 DEF PromiseInd, EmbassyInd
  <1>3. ASSUME SlotSteps PROVE state' = Idle <=> state = Idle
    BY <1>2, <1>3, SlotStaysOK
  <1>4. ASSUME NEW b \in BOOLEAN, CallNextEvent(b) PROVE [Promise!Next]_Promise!promiseVars
    <2>1. state' = Idle <=> state = Idle
      BY <1>1, <1>3, <1>4, PumpSlotSteps
    <2>2. /\ pc = "app" /\ pc' = "poll" /\ call' = NextEvent
          /\ UNCHANGED <<result, rcv_sent, historyVars>>
      BY <1>4 DEF CallNextEvent, radioVars
    <2> QED BY <2>1, <2>2, OthersAreHidden DEF NextEvent
  <1>5. CASE PumpWrites \/ PumpReadTimesOut \/ PumpReads \/ DeadlinePasses \/ UNCHANGED embassyVars
    <2>1. state' = Idle <=> state = Idle
      BY <1>1, <1>3, <1>5, PumpSlotSteps
    <2>2. /\ UNCHANGED <<call, result, rcv_sent, historyVars>>
          /\ pc' = "app" <=> pc = "app"
      BY <1>1, <1>5 DEF PumpWrites, PumpReadTimesOut, DeadlinePasses, PumpReads, Continues,
                  embassyVars, hostVars, callVars, historyVars, radioVars
    <2> QED BY <2>1, <2>2, OthersAreHidden
  <1>6. CASE WriteStops \/ ReadStops
    <2>1. state' = Idle <=> state = Idle
      BY <1>1, <1>3, <1>6, PumpSlotSteps
    <2>2. /\ pc' = "app" /\ result'.tag \in {"Io", "Dropped"}
          /\ UNCHANGED <<rcv_sent, historyVars>>
      BY <1>6 DEF WriteStops, ReadStops, Returns, Result, radioVars
    <2> QED BY <2>1, <2>2, FailureIsPromised DEF Promise!Next
  <1>7. CASE PumpChecksDeadline
    <2>1. (state' = Idle <=> state = Idle) /\ UNCHANGED <<rcv_sent, historyVars>>
      BY <1>1, <1>3, <1>7, PumpSlotSteps DEF PumpChecksDeadline, radioVars
    <2>2. CASE expired
      <3>1. pc' = "app" /\ result'.tag = "Timeout"
        BY <1>7, <2>2 DEF PumpChecksDeadline, Returns, Result
      <3> QED BY <2>1, <3>1, FailureIsPromised DEF Promise!Next
    <2>3. CASE ~expired
      <3>1. pc = "deadline" /\ pc' = "read" /\ UNCHANGED <<call, result>>
        BY <1>7, <2>3 DEF PumpChecksDeadline, Continues
      <3> QED BY <2>1, <3>1, OthersAreHidden
    <2> QED BY <2>2, <2>3
  <1>8. CASE Radio
    <2>1. /\ state' = Idle <=> state = Idle
          /\ UNCHANGED <<pc, call, result, historyVars>>
      BY <1>1, <1>3, <1>8, PumpSlotSteps DEF Radio, hostVars, callVars
    <2>2. CASE rcv_sent' = rcv_sent
      BY <2>1, <2>2, OthersAreHidden
    <2>3. CASE rcv_sent' = rcv_sent + 1
      <3>1. Promise!Arrive
        BY <2>1, <2>3 DEF Promise!Arrive, historyVars
      <3> QED BY <3>1 DEF Promise!Next
    <2> QED BY <1>2, <1>8, <2>2, <2>3, RadioSays DEF Radio, LinesInv
  <1> QED BY <1>1, <1>4, <1>5, <1>6, <1>7, <1>8, CallIsPromised, PollIsPromised
          DEF EmbassyNext, App, Pump

\* In the beginning nothing runs, and nothing is owed or served.
LEMMA PromiseInitially == EmbassyInit => Promise!Init
PROOF BY EmptySeq DEF EmbassyInit, Init, RadioInit, Promise!Init, Result

\* The Radio without a queue keeps the promise of the host crates for any number of
\* calls, faults and dropped futures, if the module was up when the UART was
\* opened, the receive buffer does not overflow and no write is interrupted after
\* its last byte. (lib.rs: pump_until, next_event.)
THEOREM EmbassyKeepsPromise ==
  ~JustBooted /\ EmbassySpec /\ [][~WriteUnacked]_embassyVars /\ [](ret.tag # "RxOverflow")
    => KeepsPromise
PROOF
  <1>1. PromiseInd /\ [EmbassyNext]_embassyVars /\ [~WriteUnacked]_embassyVars
          /\ (ret.tag # "RxOverflow")' => PromiseInd'
    BY PromiseNextInd DEF NoLateStop
  <1>2. PromiseInd /\ [EmbassyNext]_embassyVars /\ [~WriteUnacked]_embassyVars
          /\ (ret.tag # "RxOverflow")'
          => [Promise!Next]_Promise!promiseVars
    BY StepIsPromised DEF NoLateStop
  <1> QED BY <1>1, <1>2, PromiseInitInd, PromiseInitially, PTL
          DEF EmbassySpec, KeepsPromise, Promise!Spec

-----------------------------------------------------------------------------
(* A buffer with room for a read                                           *)

\* Next to a line that is not whole yet there is room for one read.
RoomForRead == CHUNK + 2 <= RX_BUF

\* Inductive: the pump reads once poll() has taken all whole lines out of rx.
ReadsLate == pc \in {"deadline", "read"} => Len(rx) <= 2

Drains == PromiseInd /\ ReadsLate /\ ret.tag # "RxOverflow"

\* Nothing was read when the Radio is made.
LEMMA DrainsInit == ~JustBooted /\ EmbassyInit => Drains
PROOF
  <1>1. EmbassyInit => pc = "app" /\ ret.tag # "RxOverflow"
    BY DEF EmbassyInit, Init, Ret
  <1> QED BY <1>1, PromiseInitInd DEF Drains, ReadsLate

\* Every read finds room, and the next one comes after poll() returned Idle.
LEMMA DrainsNext ==
  ASSUME RoomForRead, Drains, [EmbassyNext]_embassyVars, NoLateStop
  PROVE  Drains'
PROOF
  <1>1. LinesInv /\ SlotOK /\ ReadsLate /\ ret.tag # "RxOverflow"
    BY DEF Drains, PromiseInd, EmbassyInd
  <1>2. ASSUME NEW cmd \in Commands, CallCommand(cmd) PROVE ReadsLate' /\ ret'.tag # "RxOverflow"
    <2>1. pc' \notin {"deadline", "read"}
      BY <1>2 DEF CallCommand, callVars
    <2> QED BY <1>1, <1>2, <2>1, EmbassySteps, OthersLeaveRx DEF ReadsLate
  <1>3. ASSUME PumpPoll PROVE ReadsLate' /\ ret'.tag # "RxOverflow"
    <2>1. pc' \in {"deadline", "read"} => ret'.tag = "Idle"
      BY <1>3 DEF PumpPoll, PollHandsOutEvent, PollHandsOutResponse, PollHandsOutNothing,
                  Returns, Continues
    <2> QED BY <1>1, <1>3, <2>1, EmbassySteps, IdleLeavesNoLine, PollReportsNone DEF ReadsLate
  <1>4. ASSUME PumpReads PROVE ReadsLate' /\ ret'.tag # "RxOverflow"
    <2>1. PICK n \in 1..CHUNK : n <= Len(from_radio) /\ PushRx(SubSeq(from_radio, 1, n))
      BY <1>4 DEF PumpReads
    <2>2. Len(rx) <= 2 /\ pc' \notin {"deadline", "read"}
      BY <1>1, <1>4 DEF PumpReads, Returns, Continues, ReadsLate
    <2>3. Len(rx) \in Nat /\ n \in Nat \ {0}
      BY <1>1, BoundAssumption, LenProperties DEF LinesInv, IndInv, TypeOK
    <2>4. Len(rx) + n <= RX_BUF
      BY <2>2, <2>3, BoundAssumption, CapacityAssumption DEF RoomForRead
    <2>5. ret'.tag # "RxOverflow"
      BY <1>1, <2>1, <2>3, <2>4, ReadFits
    <2> QED BY <2>2, <2>5 DEF ReadsLate
  <1>5. ASSUME \/ \E b \in BOOLEAN : CallNextEvent(b)
               \/ PumpWrites \/ WriteStops \/ WriteUnacked \/ ReadStops \/ PumpReadTimesOut
        PROVE ReadsLate' /\ ret'.tag # "RxOverflow"
    <2>1. pc' \notin {"deadline", "read"}
      BY <1>5 DEF CallNextEvent, PumpWrites, WriteStops, WriteUnacked, ReadStops, PumpReadTimesOut,
                  Returns, Continues
    <2> QED BY <1>1, <1>5, <2>1, EmbassySteps, OthersLeaveRx DEF ReadsLate
  <1>6. ASSUME PumpChecksDeadline \/ DeadlinePasses \/ Radio \/ UNCHANGED embassyVars
        PROVE ReadsLate' /\ ret'.tag # "RxOverflow"
    <2>1. UNCHANGED vars /\ (pc' \in {"deadline", "read"} => pc \in {"deadline", "read"})
      BY <1>6 DEF PumpChecksDeadline, DeadlinePasses, Radio, Returns, Continues, hostVars, callVars,
                  embassyVars
    <2> QED BY <1>1, <2>1 DEF ReadsLate, vars
  <1>7. ReadsLate' /\ ret'.tag # "RxOverflow"
    <2>1. EmbassyNext \/ UNCHANGED embassyVars
      OBVIOUS
    <2> QED BY <1>2, <1>3, <1>4, <1>5, <1>6, <2>1 DEF EmbassyNext, App, Pump
  <1>8. PromiseInd'
    BY <1>7, PromiseNextInd DEF Drains
  <1> QED BY <1>7, <1>8 DEF Drains

\* However many messages come and however late they are read, the receive buffer
\* never overflows if it has room for one read next to an unfinished line: the pump
\* reads only when poll() has returned Idle, and poll() leaves no whole line of a
\* module that was up when the UART was opened. (lib.rs: pump_until, next_event;
\* driver.rs: poll, push_rx.)
THEOREM EmbassyNeverOverflows ==
  RoomForRead /\ ~JustBooted /\ EmbassySpec /\ [][~WriteUnacked]_embassyVars
    => [](ret.tag # "RxOverflow")
PROOF
  <1>1. SUFFICES ASSUME RoomForRead, ~JustBooted
                 PROVE  EmbassySpec /\ [][~WriteUnacked]_embassyVars => [](ret.tag # "RxOverflow")
    OBVIOUS
  <1>2. EmbassyInit => Drains
    BY <1>1, DrainsInit
  <1>3. Drains /\ [EmbassyNext]_embassyVars /\ [~WriteUnacked]_embassyVars => Drains'
    BY <1>1, DrainsNext DEF NoLateStop
  <1>4. Drains => ret.tag # "RxOverflow"
    BY DEF Drains
  <1> QED BY <1>2, <1>3, <1>4, PTL DEF EmbassySpec

\* Hence the Radio then serves every event once and in order, buries no command and
\* keeps its promise whatever futures are dropped. (lib.rs: pump_until, next_event.)
THEOREM EmbassyWithRoomIsReliable ==
  RoomForRead /\ ~JustBooted /\ EmbassySpec /\ [][~WriteUnacked]_embassyVars
    => []EventsOnceInOrder /\ []NothingBehindHalf /\ KeepsPromise
PROOF BY EmbassyNeverOverflows, EmbassyServesEventsInOrder, EmbassyBuriesNothing, EmbassyKeepsPromise, PTL
=============================================================================
