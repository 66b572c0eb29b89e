----------------------------- MODULE TokioProofs -----------------------------
(***************************************************************************)
(* The properties of the async host driver, for every value of the         *)
(* constants.                                                              *)
(***************************************************************************)
EXTENDS TokioRadio, SerialProofs

-----------------------------------------------------------------------------
(* The steps of the host                                                   *)

\* The steps of the task, of the module and of the owner are those the lemmas on
\* the serial line know.
LEMMA TokioSteps ==
  /\ TaskTakesJob => \E cmd : cmd = Head(cmd_chan) /\ Submits(cmd)
  /\ TaskIdlePolls \/ JobPolls => Polls
  /\ JobWrites => Writes
  /\ JobWriteFails => WritesPart
  /\ TaskReads \/ JobReads => Reads
  /\ Radio => Hears
  /\ TaskFindsNoHandle \/ TaskReadsEof \/ TaskSendsEvent => Rests
  /\ JobReadsEof \/ JobReadFails \/ JobTimesOut \/ PortCloses => Rests
  /\ OwnerRuns \/ OwnerDecides => Rests
  /\ SomethingFails => WritesPart \/ Rests
PROOF
  <1>1. TaskReads \/ JobReads => Reads
    <2>1. 1..CHUNK \subseteq Nat \ {0}
      BY BoundAssumption
    <2> QED BY <2>1 DEF TaskReads, JobReads, ReadFrom, Reads
  <1>2. Radio => Hears
    BY DEF Radio, Hears
  <1>3. JobWrites => Writes
    BY DEF JobWrites, Writes
  <1>4. JobWriteFails => WritesPart
    BY DEF JobWriteFails, WritesPart
  <1>5. TaskIdlePolls \/ JobPolls => Polls
    BY DEF TaskIdlePolls, JobPolls, Polls
  <1>6. TaskTakesJob => \E cmd : cmd = Head(cmd_chan) /\ Submits(cmd)
    BY DEF TaskTakesJob, Submits
  <1>7. TaskFindsNoHandle \/ TaskReadsEof \/ TaskSendsEvent => Rests
    BY DEF TaskFindsNoHandle, TaskReadsEof, TaskSendsEvent, Rests
  <1>8. JobReadsEof \/ JobReadFails \/ JobTimesOut \/ PortCloses => Rests
    BY DEF JobReadsEof, JobReadFails, JobTimesOut, PortCloses, Rests
  <1>9. OwnerRuns \/ OwnerDecides => Rests
    BY DEF OwnerRuns, OwnerDecides, Rests
  <1>10. SomethingFails => WritesPart \/ Rests
    BY <1>4, <1>8 DEF SomethingFails, Rests
  <1> QED BY <1>1, <1>2, <1>3, <1>4, <1>5, <1>6, <1>7, <1>8, <1>9, <1>10

\* Every step of the specification is a step on the serial line.
LEMMA TokioNextSteps ==
  ASSUME cmd_chan \in Seq(Commands), [TokioNext]_tokioVars
  PROVE  \/ TaskIdlePolls \/ JobPolls
         \/ OtherSteps
PROOF
  <1>1. CASE UNCHANGED tokioVars
    BY <1>1 DEF tokioVars, OtherSteps, Rests
  <1>2. TaskTakesJob => \E cmd \in Commands : Submits(cmd)
    <2>1. TaskTakesJob => Head(cmd_chan) \in Commands
      BY HeadTailProperties DEF TaskTakesJob
    <2> QED BY <2>1, TokioSteps
  <1>3. CASE TaskRuns
    BY <1>2, <1>3, TokioSteps DEF TaskRuns, OtherSteps
  <1>4. CASE OwnerRuns \/ OwnerDecides \/ Radio \/ SomethingFails
    BY <1>4, TokioSteps DEF OtherSteps
  <1> QED BY <1>1, <1>3, <1>4 DEF TokioNext

-----------------------------------------------------------------------------
(* Type correctness                                                        *)

\* The host's own variables.
HostType ==
  /\ owner \in {"app", "sending", "awaiting", "listening", "gone"}
  /\ task \in {"select", "idle_poll", "idle_send", "job_poll", "job_write",
               "job_send", "job_read", "ended"}
  /\ call \in Commands \cup {NoJob} /\ job \in Commands \cup {NoJob}
  /\ port_open \in BOOLEAN
  /\ unsent \in Seq(Token) /\ cmd_chan \in Seq(Commands) /\ event_chan \in Seq(Token)
  /\ Len(cmd_chan) <= CMD_CAP /\ Len(event_chan) <= EVENT_CAP
  /\ calls \in 0..MaxCalls /\ faults \in 0..MaxFaults /\ delivered \in Seq(Vals)

\* A request has a command, and the task holds one event, while it waits for room.
WaitsFor ==
  /\ owner \in {"sending", "awaiting"} => call \in Commands
  /\ IF task \in {"idle_send", "job_send"} THEN Len(unsent) = 1 ELSE unsent = <<>>

\* Inductive: all types, and the driver's fields agree with each other.
TokioTypes == IndInv /\ RadioTypeOK /\ HostType /\ WaitsFor

\* They imply the type invariant of the model.
LEMMA TokioTypesMean == TokioTypes => TokioTypeOK
PROOF BY DEF TokioTypes, TokioTypeOK, HostType, IndInv

\* A new AsyncRadio has the right types.
LEMMA TokioInitTypes == TokioInit => TokioTypes
PROOF
  <1>1. SUFFICES ASSUME TokioInit PROVE TokioTypes
    OBVIOUS
  <1>2. IndInv /\ RadioTypeOK
    BY <1>1, LinesInit DEF TokioInit, LinesInv
  <1>3. /\ owner = "app" /\ call = NoJob /\ calls = 0 /\ delivered = <<>>
        /\ task = "select" /\ job = NoJob /\ unsent = <<>>
        /\ cmd_chan = <<>> /\ event_chan = <<>>
        /\ port_open = TRUE /\ faults = 0
    BY <1>1 DEF TokioInit
  <1>4. HostType
    <2>1. /\ <<>> \in Seq(Vals) /\ <<>> \in Seq(Token) /\ <<>> \in Seq(Commands)
          /\ 0 \in 0..MaxCalls /\ 0 \in 0..MaxFaults
          /\ Len(<<>>) <= CMD_CAP /\ Len(<<>>) <= EVENT_CAP
      BY EmptySeq, BoundAssumption, ChannelAssumption
    <2> QED BY <1>3, <2>1 DEF HostType
  <1> QED BY <1>2, <1>3, <1>4 DEF TokioTypes, WaitsFor

\* The owner's steps keep the types.
LEMMA OwnerTypes ==
  ASSUME HostType, WaitsFor, OwnerRuns \/ OwnerDecides
  PROVE  HostType' /\ WaitsFor'
PROOF
  <1>1. /\ owner \in {"app", "sending", "awaiting", "listening", "gone"}
        /\ call \in Commands \cup {NoJob}
        /\ cmd_chan \in Seq(Commands) /\ event_chan \in Seq(Token)
        /\ Len(cmd_chan) <= CMD_CAP /\ Len(event_chan) <= EVENT_CAP
        /\ calls \in 0..MaxCalls /\ delivered \in Seq(Vals)
        /\ owner \in {"sending", "awaiting"} => call \in Commands
        /\ MaxCalls \in Nat /\ CMD_CAP \in Nat /\ EVENT_CAP \in Nat
    BY BoundAssumption, ChannelAssumption DEF HostType, WaitsFor
  <1>2. Len(cmd_chan) \in Nat /\ Len(event_chan) \in Nat
    BY <1>1, LenProperties
  <1>3. UNCHANGED <<taskVars, port_open, faults>>
    BY DEF OwnerRuns, OwnerDecides
  <1> DEFINE Kept ==
        /\ owner' \in {"app", "sending", "awaiting", "listening", "gone"}
        /\ call' \in Commands \cup {NoJob}
        /\ cmd_chan' \in Seq(Commands) /\ event_chan' \in Seq(Token)
        /\ Len(cmd_chan') <= CMD_CAP /\ Len(event_chan') <= EVENT_CAP
        /\ calls' \in 0..MaxCalls /\ delivered' \in Seq(Vals)
        /\ owner' \in {"sending", "awaiting"} => call' \in Commands
  <1>4. ASSUME NEW cmd \in Commands, OwnerCalls(cmd) PROVE Kept
    <2>1. calls' \in 0..MaxCalls
      BY <1>1, <1>4 DEF OwnerCalls
    <2> QED BY <1>1, <1>4, <2>1 DEF OwnerCalls, chanVars
  <1>5. ASSUME OwnerListens \/ OwnerDropsHandle PROVE Kept
    BY <1>1, <1>5 DEF OwnerListens, OwnerDropsHandle, chanVars
  <1>6. ASSUME OwnerSendsJob PROVE Kept
    <2>1. call \in Commands
      BY <1>1, <1>6 DEF OwnerSendsJob
    <2>2. Append(cmd_chan, call) \in Seq(Commands) /\ Len(Append(cmd_chan, call)) = Len(cmd_chan) + 1
      BY <1>1, <2>1, AppendProperties
    <2>3. Len(cmd_chan) + 1 <= CMD_CAP
      BY <1>1, <1>2, <1>6 DEF OwnerSendsJob
    <2> QED BY <1>1, <1>6, <2>1, <2>2, <2>3 DEF OwnerSendsJob
  <1>7. ASSUME OwnerGetsReply \/ OwnerTimesOut \/ OwnerHearsNothing \/ OwnerFindsClosed PROVE Kept
    BY <1>1, <1>7 DEF OwnerGetsReply, OwnerTimesOut, OwnerHearsNothing, OwnerFindsClosed, OwnerReturns
  <1>8. ASSUME OwnerGetsEvent PROVE Kept
    <2> DEFINE e == Head(event_chan)
    <2>1. /\ e \in Token /\ Tail(event_chan) \in Seq(Token)
          /\ Len(Tail(event_chan)) = Len(event_chan) - 1
      BY <1>1, <1>8, HeadTailProperties DEF OwnerGetsEvent
    <2>2. e.val \in Vals
      BY <2>1 DEF Token
    <2>3. delivered' \in Seq(Vals)
      <3>1. Append(delivered, e.val) \in Seq(Vals)
        BY <1>1, <2>2, AppendProperties
      <3> QED BY <1>1, <1>8, <3>1 DEF OwnerGetsEvent
    <2>4. Len(event_chan) - 1 <= EVENT_CAP
      BY <1>1, <1>2
    <2> QED BY <1>1, <1>8, <2>1, <2>3, <2>4 DEF OwnerGetsEvent, OwnerReturns
  <1>9. Kept
    BY <1>4, <1>5, <1>6, <1>7, <1>8 DEF OwnerRuns, OwnerDecides
  <1> QED BY <1>3, <1>9 DEF HostType, WaitsFor, taskVars

\* So do the task's.
LEMMA TaskTypes ==
  ASSUME IndInv, HostType, WaitsFor, TaskRuns \/ JobWriteFails \/ JobReadFails, UNCHANGED ownerVars
  PROVE  faults' \in 0..MaxFaults => HostType' /\ WaitsFor'
PROOF
  <1>1. /\ task \in {"select", "idle_poll", "idle_send", "job_poll", "job_write",
                     "job_send", "job_read", "ended"}
        /\ job \in Commands \cup {NoJob} /\ port_open \in BOOLEAN
        /\ unsent \in Seq(Token) /\ cmd_chan \in Seq(Commands) /\ event_chan \in Seq(Token)
        /\ Len(cmd_chan) <= CMD_CAP /\ Len(event_chan) <= EVENT_CAP
        /\ IF task \in {"idle_send", "job_send"} THEN Len(unsent) = 1 ELSE unsent = <<>>
        /\ CMD_CAP \in Nat /\ EVENT_CAP \in Nat /\ TypeOK
    BY ChannelAssumption DEF HostType, WaitsFor, IndInv
  <1>2. Len(cmd_chan) \in Nat /\ Len(event_chan) \in Nat
    BY <1>1, LenProperties
  <1> DEFINE Kept ==
        /\ task' \in {"select", "idle_poll", "idle_send", "job_poll", "job_write",
                      "job_send", "job_read", "ended"}
        /\ job' \in Commands \cup {NoJob} /\ port_open' \in BOOLEAN
        /\ unsent' \in Seq(Token) /\ cmd_chan' \in Seq(Commands) /\ event_chan' \in Seq(Token)
        /\ Len(cmd_chan') <= CMD_CAP /\ Len(event_chan') <= EVENT_CAP
        /\ IF task' \in {"idle_send", "job_send"} THEN Len(unsent') = 1 ELSE unsent' = <<>>
  <1>3. ASSUME TaskTakesJob PROVE Kept
    <2>1. /\ Head(cmd_chan) \in Commands /\ Tail(cmd_chan) \in Seq(Commands)
          /\ Len(Tail(cmd_chan)) = Len(cmd_chan) - 1
      BY <1>1, <1>3, HeadTailProperties DEF TaskTakesJob
    <2>2. Len(cmd_chan) - 1 <= CMD_CAP
      BY <1>1, <1>2
    <2> QED BY <1>1, <1>3, <2>1, <2>2 DEF TaskTakesJob
  <1>4. ASSUME TaskFindsNoHandle \/ TaskReadsEof PROVE Kept
    BY <1>1, <1>4 DEF TaskFindsNoHandle, TaskReadsEof, chanVars
  <1>5. ASSUME TaskReads \/ JobReads PROVE Kept
    BY <1>1, <1>5 DEF TaskReads, JobReads, ReadFrom, chanVars
  <1>6. ASSUME TaskIdlePolls PROVE Kept
    <2>1. ret'.tag = "Event" => <<ret'.line[1]>> \in Seq(Token) /\ Len(<<ret'.line[1]>>) = 1
      BY <1>1, <1>6, PollHandsOutLine DEF TaskIdlePolls
    <2> QED BY <1>1, <1>6, <2>1 DEF TaskIdlePolls, chanVars
  <1>7. ASSUME JobPolls PROVE Kept
    <2>1. ret'.tag = "Event" => <<ret'.line[1]>> \in Seq(Token) /\ Len(<<ret'.line[1]>>) = 1
      BY <1>1, <1>7, PollHandsOutLine DEF JobPolls
    <2> QED BY <1>1, <1>7, <2>1 DEF JobPolls, JobReturns
  <1>8. ASSUME TaskSendsEvent PROVE Kept
    <2>1. <<>> \in Seq(Token)
      BY EmptySeq
    <2>2. event_chan' \in Seq(Token) /\ Len(event_chan') <= EVENT_CAP
      <3>1. CASE owner # "gone" /\ Len(event_chan) < EVENT_CAP /\ event_chan' = event_chan \o unsent
        <4>1. /\ event_chan \o unsent \in Seq(Token)
              /\ Len(event_chan \o unsent) = Len(event_chan) + Len(unsent)
          BY <1>1, ConcatParts
        <4>2. Len(unsent) = 1
          BY <1>1, <1>8 DEF TaskSendsEvent
        <4> QED BY <1>1, <1>2, <3>1, <4>1, <4>2
      <3>2. CASE event_chan' = event_chan
        BY <1>1, <3>2
      <3> QED BY <1>8, <3>1, <3>2 DEF TaskSendsEvent
    <2>3. /\ unsent' = <<>> /\ task' \in {"idle_poll", "job_poll", "ended"}
          /\ UNCHANGED <<job, cmd_chan, port_open>>
      BY <1>8 DEF TaskSendsEvent
    <2> QED BY <1>1, <2>1, <2>2, <2>3
  <1>9. ASSUME JobWrites PROVE Kept
    BY <1>1, <1>9 DEF JobWrites, chanVars
  <1>10. ASSUME JobReadsEof \/ JobTimesOut \/ JobWriteFails \/ JobReadFails PROVE Kept
    BY <1>1, <1>10 DEF JobReadsEof, JobTimesOut, JobWriteFails, JobReadFails, JobReturns
  <1>11. Kept
    BY <1>3, <1>4, <1>5, <1>6, <1>7, <1>8, <1>9, <1>10 DEF TaskRuns
  <1> QED BY <1>11 DEF HostType, WaitsFor, ownerVars

\* Every step of the host keeps its types.
LEMMA TokioNextHostType ==
  ASSUME TokioTypes, [TokioNext]_tokioVars
  PROVE  HostType' /\ WaitsFor'
PROOF
  <1>1. IndInv /\ HostType /\ WaitsFor /\ faults \in 0..MaxFaults /\ MaxFaults \in Nat
    BY BoundAssumption DEF TokioTypes, HostType
  <1>2. ASSUME UNCHANGED hostVars PROVE HostType' /\ WaitsFor'
    BY <1>1, <1>2 DEF HostType, WaitsFor, hostVars, ownerVars, taskVars, chanVars
  <1>3. CASE TaskRuns
    BY <1>1, <1>3, TaskTypes DEF TaskRuns
  <1>4. CASE SomethingFails
    <2>1. faults' \in 0..MaxFaults
      BY <1>1, <1>4 DEF SomethingFails, Fault
    <2>2. CASE OwnerCancels /\ UNCHANGED taskVars /\ port_open' = port_open
      BY <1>1, <2>1, <2>2 DEF OwnerCancels, OwnerReturns, HostType, WaitsFor, taskVars
    <2>3. CASE (JobWriteFails \/ JobReadFails) /\ UNCHANGED ownerVars
      BY <1>1, <2>1, <2>3, TaskTypes
    <2>4. CASE PortCloses
      BY <1>1, <2>1, <2>4 DEF PortCloses, HostType, WaitsFor, ownerVars, taskVars, chanVars
    <2> QED BY <1>4, <2>2, <2>3, <2>4 DEF SomethingFails
  <1>5. CASE Radio \/ UNCHANGED tokioVars
    BY <1>2, <1>5 DEF Radio, tokioVars
  <1> QED BY <1>1, <1>3, <1>4, <1>5, OwnerTypes DEF TokioNext

\* Every step keeps all types.
LEMMA TokioNextTypes == TokioTypes /\ [TokioNext]_tokioVars => TokioTypes'
PROOF
  <1>1. SUFFICES ASSUME TokioTypes, [TokioNext]_tokioVars PROVE TokioTypes'
    OBVIOUS
  <1>2. Polls \/ OtherSteps
    <2>1. cmd_chan \in Seq(Commands)
      BY <1>1 DEF TokioTypes, HostType
    <2> QED BY <1>1, <2>1, TokioNextSteps, TokioSteps
  <1>3. IndInv' /\ RadioTypeOK'
    BY <1>1, <1>2, StepTypes DEF TokioTypes
  <1> QED BY <1>1, <1>3, TokioNextHostType DEF TokioTypes

\* The variables of the AsyncRadio, of its task, their channels and the driver keep
\* their types, and the channels their capacities. (lib.rs: request, next_event,
\* run_task, process_job.)
THEOREM TokioTypeCorrect == TokioSpec => []TokioTypeOK
PROOF
  <1>1. TokioTypes => TokioTypeOK
    BY TokioTypesMean
  <1> QED BY <1>1, TokioInitTypes, TokioNextTypes, PTL DEF TokioSpec

-----------------------------------------------------------------------------
(* No event is lost                                                        *)

\* The events the task has handed on or holds.
Queue == event_chan \o unsent

\* Inductive: what NoEventLost says, of a queue in front of a stream of lines.
EventsInv ==
  owner # "gone" =>
    /\ CountsUp(delivered)
    /\ Len(delivered) + 1 <= rcv_sent + 1
    /\ RcvsAre(Queue \o Unread, Len(delivered) + 1, rcv_sent)

TokioInd == HostType /\ WaitsFor /\ LinesInv /\ EventsInv

\* The types of its parts.
LEMMA PartTypes ==
  ASSUME HostType, LinesInv
  PROVE  /\ event_chan \in Seq(Token) /\ unsent \in Seq(Token) /\ Queue \in Seq(Token)
         /\ rx \in Seq(Token) /\ from_radio \in Seq(Token) /\ Unread \in Seq(Token)
         /\ delivered \in Seq(Vals) /\ Len(delivered) + 1 \in Nat /\ rcv_sent \in Int
PROOF
  <1>1. /\ event_chan \in Seq(Token) /\ unsent \in Seq(Token) /\ delivered \in Seq(Vals)
        /\ rx \in Seq(Token) /\ from_radio \in Seq(Token) /\ rcv_sent \in Int
    BY RadioAssumption DEF HostType, LinesInv, IndInv, TypeOK, RadioTypeOK
  <1>2. Len(delivered) \in Nat
    BY <1>1, LenProperties
  <1> QED BY <1>1, <1>2, ConcatParts DEF Queue, Unread

\* The channel, the event held, the buffer and the port may be put together in
\* any order.
LEMMA EventsInvMeans ==
  ASSUME TokioInd
  PROVE  NoEventLost
PROOF
  <1>1. HostType /\ LinesInv
    BY DEF TokioInd
  <1>2. ((event_chan \o unsent) \o rx) \o from_radio = (event_chan \o unsent) \o (rx \o from_radio)
    <2>1. event_chan \o unsent \in Seq(Token)
      BY <1>1, PartTypes DEF Queue
    <2>2. rx \in Seq(Token) /\ from_radio \in Seq(Token)
      BY <1>1, PartTypes
    <2> QED BY <2>1, <2>2, TokensAssociate
  <1> QED BY <1>2 DEF TokioInd, EventsInv, NoEventLost, Queue, Unread

\* Nothing was sent and nothing delivered when the port is opened.
LEMMA TokioInitInd == TokioInit => TokioInd
PROOF
  <1>1. SUFFICES ASSUME TokioInit PROVE TokioInd
    OBVIOUS
  <1>2. HostType /\ WaitsFor
    BY <1>1, TokioInitTypes DEF TokioTypes
  <1>3. LinesInv
    BY <1>1, LinesInit DEF TokioInit
  <1>4. delivered = <<>> /\ rcv_sent = 0 /\ event_chan = <<>> /\ unsent = <<>>
    BY <1>1 DEF TokioInit, RadioInit
  <1>5. RcvsAre(Unread, 1, 0)
    BY <1>1, NoRcvAtFirst DEF TokioInit
  <1>6. Queue \o Unread = Unread
    <2>1. Queue = <<>> /\ Unread \in Seq(Token)
      BY <1>2, <1>3, <1>4, PartTypes, ConcatEmptySeq DEF Queue
    <2> QED BY <2>1, ConcatEmptySeq
  <1>7. Len(<<>>) = 0 /\ CountsUp(<<>>)
    BY DEF CountsUp
  <1>8. EventsInv
    BY <1>4, <1>5, <1>6, <1>7 DEF EventsInv
  <1> QED BY <1>2, <1>3, <1>8 DEF TokioInd

\* A step that leaves queue and history alone moves tokens from the port to the
\* buffer, or adds a line behind them.
LEMMA RestKeeps ==
  ASSUME TokioInd, OtherSteps, ret'.tag # "RxOverflow",
         Queue' = Queue, delivered' = delivered, owner' # "gone" => owner # "gone"
  PROVE  EventsInv'
PROOF
  <1> SUFFICES ASSUME owner' # "gone"
               PROVE  /\ CountsUp(delivered') /\ Len(delivered') + 1 <= rcv_sent' + 1
                      /\ RcvsAre(Queue' \o Unread', Len(delivered') + 1, rcv_sent')
    BY DEF EventsInv
  <1> DEFINE d == Len(delivered) + 1
             q == Queue
  <1>1. q \in Seq(Token) /\ d \in Nat /\ LinesInv
    BY PartTypes DEF TokioInd
  <1>2. CountsUp(delivered) /\ d <= rcv_sent + 1 /\ RcvsAre(q \o Unread, d, rcv_sent)
    BY DEF TokioInd, EventsInv
  <1>3. Queue' = q
    OBVIOUS
  <1> HIDE DEF d, q
  <1>4. d <= rcv_sent' + 1 /\ RcvsAre(q \o Unread', d, rcv_sent')
    BY <1>1, <1>2, OthersCarryOn
  <1> QED BY <1>2, <1>3, <1>4 DEF d

\* An event poll() hands out is held until there is room for it.
LEMMA PollKeeps ==
  ASSUME TokioInd, Polls, event_chan' = event_chan, unsent = <<>>,
         IF ret'.tag = "Event" THEN unsent' = <<ret'.line[1]>> ELSE unsent' = unsent,
         delivered' = delivered, owner' = owner
  PROVE  EventsInv'
PROOF
  <1> SUFFICES ASSUME owner # "gone"
               PROVE  /\ CountsUp(delivered') /\ Len(delivered') + 1 <= rcv_sent' + 1
                      /\ RcvsAre(Queue' \o Unread', Len(delivered') + 1, rcv_sent')
    BY DEF EventsInv
  <1> DEFINE d == Len(delivered) + 1
             q == event_chan
             e == ret'.line[1]
  <1>1. q \in Seq(Token) /\ d \in Nat /\ LinesInv /\ Queue = q
    <2>1. q \in Seq(Token) /\ d \in Nat /\ LinesInv
      BY PartTypes DEF TokioInd
    <2> QED BY <2>1, ConcatEmptySeq DEF Queue
  <1>2. CountsUp(delivered) /\ d <= rcv_sent + 1 /\ RcvsAre(Queue \o Unread, d, rcv_sent)
    BY DEF TokioInd, EventsInv
  <1>3. Queue' = event_chan \o unsent'
    BY DEF Queue
  <1> HIDE DEF d, e
  <1>4. /\ rcv_sent' = rcv_sent
        /\ ret'.tag # "Event" => RcvsAre(q \o Unread', d, rcv_sent')
        /\ ret'.tag = "Event" =>
             e \in Token /\ RcvsAre(Append(q, e) \o Unread', d, rcv_sent')
    BY <1>1, <1>2, PollCarriesOn DEF e
  <1>5. CASE ret'.tag = "Event"
    <2>1. Queue' = Append(q, e)
      BY <1>1, <1>3, <1>4, <1>5, AppendIsConcat DEF e
    <2> QED BY <1>2, <1>4, <1>5, <2>1 DEF d
  <1>6. CASE ret'.tag # "Event"
    <2>1. Queue' = q
      BY <1>1, <1>3, <1>6, ConcatEmptySeq
    <2> QED BY <1>2, <1>4, <1>6, <2>1 DEF d
  <1> QED BY <1>5, <1>6

\* next_event takes the oldest event out of the channel and returns its number.
LEMMA GetsEventKeeps ==
  ASSUME TokioInd, OwnerGetsEvent, Rests, unsent' = unsent
  PROVE  EventsInv'
PROOF
  <1> DEFINE d == Len(delivered) + 1
             q == event_chan
             u == unsent \o Unread
             e == Head(q)
  <1>1. /\ q \in Seq(Token) /\ unsent \in Seq(Token) /\ Unread \in Seq(Token)
        /\ d \in Nat /\ rcv_sent \in Int /\ delivered \in Seq(Vals)
    BY PartTypes DEF TokioInd
  <1>2. owner # "gone" /\ q # <<>> /\ event_chan' = Tail(q)
    BY DEF OwnerGetsEvent
  <1>3. CountsUp(delivered) /\ d <= rcv_sent + 1 /\ RcvsAre(Queue \o Unread, d, rcv_sent)
    BY <1>2 DEF TokioInd, EventsInv
  <1>4. u \in Seq(Token)
    BY <1>1, ConcatParts
  <1>5. Tail(q) \in Seq(Token) /\ e \in Token
    BY <1>1, <1>2, HeadTailProperties
  <1>6. e.val \in Vals
    BY <1>5 DEF Token
  <1>7. Queue \o Unread = q \o u /\ (Tail(q) \o unsent) \o Unread = Tail(q) \o u
    BY <1>1, <1>5, TokensAssociate DEF Queue
  <1>8. Unread' = Unread /\ rcv_sent' = rcv_sent
    BY DEF Rests, vars, radioVars, Unread
  <1>9. Queue' \o Unread' = Tail(q) \o u
    BY <1>2, <1>7, <1>8 DEF Queue
  <1>10. delivered' = IF IsRcv(e) THEN Append(delivered, e.val) ELSE delivered
    BY DEF OwnerGetsEvent, IsRcv
  <1> HIDE DEF d, q, u, e
  <1>11. IF IsRcv(e) THEN e.val = d /\ d <= rcv_sent /\ RcvsAre(Tail(q) \o u, d + 1, rcv_sent)
                     ELSE RcvsAre(Tail(q) \o u, d, rcv_sent)
    <2>1. d \in Int /\ RcvsAre(q \o u, d, rcv_sent)
      BY <1>1, <1>3, <1>7
    <2> QED BY <1>1, <1>2, <1>4, <2>1, QueuePops DEF e
  <1>12. CASE IsRcv(e)
    <2>1. Len(delivered') = d /\ CountsUp(delivered')
      BY <1>1, <1>3, <1>6, <1>10, <1>11, <1>12, AppendCountsUp DEF d
    <2> QED BY <1>1, <1>8, <1>9, <1>11, <1>12, <2>1 DEF EventsInv
  <1>13. CASE ~IsRcv(e)
    BY <1>3, <1>8, <1>9, <1>10, <1>11, <1>13 DEF EventsInv, d
  <1> QED BY <1>12, <1>13

\* Every step keeps it, as long as rx does not overflow.
LEMMA TokioNextInd ==
  TokioInd /\ [TokioNext]_tokioVars /\ ret'.tag # "RxOverflow" => TokioInd'
PROOF
  <1>1. SUFFICES ASSUME TokioInd, [TokioNext]_tokioVars, ret'.tag # "RxOverflow"
                 PROVE  TokioInd'
    OBVIOUS
  <1>2. cmd_chan \in Seq(Commands) /\ HostType /\ LinesInv
    BY <1>1 DEF TokioInd, HostType
  <1>3. LinesInv'
    BY <1>1, <1>2, TokioNextSteps, TokioSteps, StepLines
  <1>4. HostType' /\ WaitsFor'
    <2>1. TokioTypes
      BY <1>1 DEF TokioInd, LinesInv, TokioTypes
    <2> QED BY <1>1, <2>1, TokioNextTypes DEF TokioTypes
  <1>5. EventsInv'
    <2>1. CASE TaskRuns /\ (TaskIdlePolls \/ JobPolls)
      <3>1. Polls /\ unsent = <<>>
        BY <1>1, <2>1, TokioSteps DEF TokioInd, WaitsFor, TaskIdlePolls, JobPolls
      <3>2. /\ event_chan' = event_chan /\ delivered' = delivered /\ owner' = owner
            /\ IF ret'.tag = "Event" THEN unsent' = <<ret'.line[1]>> ELSE unsent' = unsent
        BY <2>1 DEF TaskRuns, TaskIdlePolls, JobPolls, ownerVars, chanVars
      <3> QED BY <1>1, <3>1, <3>2, PollKeeps
    <2>2. CASE OwnerRuns /\ OwnerGetsEvent
      BY <1>1, <2>2, TokioSteps, GetsEventKeeps DEF OwnerRuns, taskVars
    <2>3. CASE ~(TaskRuns /\ (TaskIdlePolls \/ JobPolls)) /\ ~(OwnerRuns /\ OwnerGetsEvent)
      <3>1. OtherSteps
        <4>1. CASE TaskRuns
          <5>1. TaskTakesJob => \E cmd \in Commands : Submits(cmd)
            <6>1. TaskTakesJob => Head(cmd_chan) \in Commands
              BY <1>2, HeadTailProperties DEF TaskTakesJob
            <6> QED BY <6>1, TokioSteps
          <5> QED BY <2>3, <4>1, <5>1, TokioSteps DEF TaskRuns, OtherSteps
        <4>2. CASE OwnerRuns \/ OwnerDecides \/ Radio \/ SomethingFails
          BY <4>2, TokioSteps DEF OtherSteps
        <4>3. CASE UNCHANGED tokioVars
          BY <4>3 DEF tokioVars, OtherSteps, Rests
        <4> QED BY <1>1, <4>1, <4>2, <4>3 DEF TokioNext
      <3>2. CASE TaskSendsEvent /\ UNCHANGED ownerVars
        <4>1. Queue' = Queue \/ owner = "gone"
          <5>1. CASE owner # "gone" /\ event_chan' = event_chan \o unsent
            <6>1. Queue' = (event_chan \o unsent) \o <<>>
              BY <3>2, <5>1 DEF TaskSendsEvent, Queue
            <6>2. event_chan \o unsent \in Seq(Token)
              BY <1>2, PartTypes DEF Queue
            <6> QED BY <6>1, <6>2, ConcatEmptySeq DEF Queue
          <5> QED BY <3>2, <5>1 DEF TaskSendsEvent
        <4>2. delivered' = delivered /\ owner' = owner
          BY <3>2 DEF ownerVars
        <4> QED BY <1>1, <3>1, <4>1, <4>2, RestKeeps DEF EventsInv
      <3>3. CASE UNCHANGED <<event_chan, unsent, delivered>> /\ (owner' # "gone" => owner # "gone")
        BY <1>1, <3>1, <3>3, RestKeeps DEF Queue
      <3>4. UNCHANGED hostVars =>
              UNCHANGED <<event_chan, unsent, delivered>> /\ (owner' # "gone" => owner # "gone")
        BY DEF hostVars, ownerVars, taskVars, chanVars
      <3>5. CASE TaskRuns
        BY <2>3, <3>2, <3>3, <3>5
           DEF TaskRuns, TaskTakesJob, TaskFindsNoHandle, TaskReads, TaskReadsEof, ReadFrom,
               JobWrites, JobReads, JobReadsEof, JobTimesOut, JobReturns, ownerVars, chanVars
      <3>6. CASE SomethingFails
        BY <3>3, <3>6
           DEF SomethingFails, OwnerCancels, OwnerReturns, JobWriteFails, JobReadFails, JobReturns,
               PortCloses, ownerVars, taskVars, chanVars
      <3>7. CASE OwnerRuns
        BY <2>3, <3>3, <3>7
           DEF OwnerRuns, OwnerSendsJob, OwnerGetsReply, OwnerTimesOut, OwnerHearsNothing,
               OwnerFindsClosed, OwnerReturns, taskVars
      <3>8. CASE OwnerDecides
        BY <3>3, <3>8
           DEF OwnerDecides, OwnerCalls, OwnerListens, OwnerDropsHandle, taskVars, chanVars
      <3>9. CASE Radio \/ UNCHANGED tokioVars
        BY <3>3, <3>4, <3>9 DEF Radio, tokioVars
      <3> QED BY <1>1, <3>5, <3>6, <3>7, <3>8, <3>9 DEF TokioNext
    <2> QED BY <2>1, <2>2, <2>3
  <1> QED BY <1>3, <1>4, <1>5 DEF TokioInd

\* As long as the handle exists and the receive buffer does not overflow, every
\* +RCV the module sent was returned by next_event, or is in the channel, held by
\* the task, in the buffer or in the port: in order and once, whatever was
\* cancelled, timed out or failed. (lib.rs: run_task, process_job, next_event.)
THEOREM TokioLosesNoEvent == TokioSpec /\ [](ret.tag # "RxOverflow") => []NoEventLost
PROOF
  <1>1. TokioInd => NoEventLost
    BY EventsInvMeans
  <1>2. TokioInd /\ [TokioNext]_tokioVars /\ (ret.tag # "RxOverflow")' => TokioInd'
    BY TokioNextInd
  <1> QED BY <1>1, <1>2, TokioInitInd, PTL DEF TokioSpec

-----------------------------------------------------------------------------
(* A method returns the answer to its own command                          *)

JobTasks == {"job_poll", "job_write", "job_send", "job_read"}

\* The job the task works on holds the slot; at a write, what poll() handed out is
\* still to be written.
JobInv ==
  /\ task \in JobTasks => job \in Commands /\ Slot(job)
  /\ task = "job_write" => AtWrite

\* A result that carries an answer carries the one to its command.
Matches(r) == r.tag \in {"Ok", "RadioErr"} => r.val = r.id

\* Inductive, for a module that was up when the port was opened.
AnswersInd == TokioInd /\ SlotOK /\ JobInv /\ Matches(reply) /\ Matches(result)

\* A new AsyncRadio has no job and no result.
LEMMA AnswersInitInd == ~JustBooted /\ TokioInit => AnswersInd
PROOF
  <1>1. SUFFICES ASSUME ~JustBooted, TokioInit PROVE AnswersInd
    OBVIOUS
  <1>2. TokioInd
    BY <1>1, TokioInitInd
  <1>3. SlotOK
    BY <1>1, FreeInit DEF TokioInit, SlotOK
  <1>4. JobInv
    BY <1>1 DEF TokioInit, JobInv, JobTasks
  <1>5. Matches(reply) /\ Matches(result)
    BY <1>1 DEF TokioInit, NoReply, Result, Matches
  <1> QED BY <1>2, <1>3, <1>4, <1>5 DEF AnswersInd

\* The owner gets its result from the oneshot, or one without an answer.
LEMMA OwnerMatches ==
  ASSUME Matches(reply), Matches(result), OwnerRuns \/ OwnerDecides \/ OwnerCancels
  PROVE  Matches(reply)' /\ Matches(result)'
PROOF
  <1>1. \A tag, id, val : Result(tag, id, val).tag = tag
    BY DEF Result
  <1>2. Matches(NoReply) /\ \A id, val : /\ Matches(Result("Timeout", id, val))
                                         /\ Matches(Result("Closed", id, val))
                                         /\ Matches(Result("Cancelled", id, val))
                                         /\ Matches(Result("Event", id, val))
    BY <1>1 DEF Matches, NoReply
  <1>3. CASE OwnerRuns
    <2>1. CASE OwnerSendsJob
      BY <1>2, <2>1 DEF OwnerSendsJob
    <2>2. CASE OwnerGetsReply \/ OwnerTimesOut \/ OwnerHearsNothing \/ OwnerFindsClosed
      BY <1>2, <2>2 DEF OwnerGetsReply, OwnerTimesOut, OwnerHearsNothing, OwnerFindsClosed, OwnerReturns
    <2>3. CASE OwnerGetsEvent
      BY <1>2, <2>3 DEF OwnerGetsEvent, OwnerReturns
    <2> QED BY <1>3, <2>1, <2>2, <2>3 DEF OwnerRuns
  <1>4. CASE OwnerDecides
    BY <1>4 DEF OwnerDecides, OwnerCalls, OwnerListens, OwnerDropsHandle, chanVars, Matches
  <1>5. CASE OwnerCancels
    BY <1>2, <1>5 DEF OwnerCancels, OwnerReturns
  <1> QED BY <1>3, <1>4, <1>5

\* The oneshot gets an answer only with the argument of the job.
LEMMA RepliesMatch ==
  ASSUME Matches(reply), NEW done, NEW tag, NEW val, Replies(done, tag, val),
         tag \in {"Ok", "RadioErr"} => val = done.arg
  PROVE  Matches(reply)'
PROOF BY DEF Replies, Matches, Result

\* A step that leaves the job with the task, or takes it away.
LEMMA JobStays ==
  ASSUME AnswersInd, SlotSteps, task' \in JobTasks => task \in JobTasks /\ job' = job,
         task' = "job_write" => task = "job_write" /\ (Hears \/ Rests)
  PROVE  SlotOK' /\ JobInv'
PROOF
  <1>1. LinesInv /\ SlotOK /\ JobInv
    BY DEF AnswersInd, TokioInd
  <1>2. SlotOK'
    BY <1>1, SlotStaysOK
  <1>3. task' = "job_write" => AtWrite'
    BY <1>1, AtWriteStays DEF JobInv
  <1>4. ASSUME task' \in JobTasks PROVE job' \in Commands /\ Slot(job)'
    <2>1. PICK cmd \in Commands : cmd = job /\ Slot(cmd)
      BY <1>1, <1>4 DEF JobInv
    <2>2. Slot(cmd)' /\ job' = cmd
      BY <1>1, <1>4, <2>1, SlotIsKept
    <2> QED BY <2>2
  <1> QED BY <1>2, <1>3, <1>4 DEF JobInv

\* The task takes a job: if the driver accepts it, it gets the slot.
LEMMA TakesJobKeeps ==
  ASSUME AnswersInd, TaskTakesJob
  PROVE  SlotOK' /\ JobInv' /\ Matches(reply)'
PROOF
  <1>1. LinesInv /\ SlotOK /\ JobInv /\ Matches(reply)
    BY DEF AnswersInd, TokioInd
  <1>2. PICK cmd \in Commands : cmd = Head(cmd_chan) /\ Submits(cmd)
    <2>1. Head(cmd_chan) \in Commands
      BY HeadTailProperties DEF AnswersInd, TokioInd, HostType, TaskTakesJob
    <2> QED BY <2>1, TokioSteps
  <1>3. SlotOK' /\ (ret'.tag = "Submitted" => Slot(cmd)')
    BY <1>1, <1>2, SubmitTakesSlot
  <1>4. CASE ret'.tag = "Submitted"
    <2>1. task' = "job_poll" /\ job' = cmd /\ reply' = reply
      BY <1>2, <1>4 DEF TaskTakesJob
    <2> QED BY <1>1, <1>3, <1>4, <2>1 DEF JobInv, JobTasks
  <1>5. CASE ret'.tag # "Submitted"
    <2>1. task' = "select" /\ Replies(cmd, ret'.tag, 0)
      BY <1>2, <1>5 DEF TaskTakesJob
    <2>2. ret'.tag \notin {"Ok", "RadioErr"}
      BY <1>2 DEF Submits, Submit, SubmitBusy, SubmitTxOverflow, SubmitAccepted, Ret, RetBytes
    <2>3. Matches(reply)'
      BY <1>1, <2>1, <2>2, RepliesMatch
    <2> QED BY <1>3, <2>1, <2>3 DEF JobInv, JobTasks
  <1> QED BY <1>4, <1>5

\* A response that ends a job is the answer to it.
LEMMA JobPollsKeeps ==
  ASSUME AnswersInd, JobPolls
  PROVE  SlotOK' /\ JobInv' /\ Matches(reply)'
PROOF
  <1>1. LinesInv /\ SlotOK /\ Matches(reply) /\ Polls
    BY TokioSteps DEF AnswersInd, TokioInd
  <1>2. PICK cmd \in Commands : cmd = job /\ Slot(cmd)
    BY DEF AnswersInd, JobInv, JobTasks, JobPolls
  <1>3. \/ Slot(cmd)' /\ ret'.tag # "Response" /\ (ret'.tag = "NeedTx" => AtWrite')
        \/ Free' /\ ret'.tag = "Response" /\ ret'.line[1].val = cmd.arg
    BY <1>1, <1>2, SlotPolls
  <1>4. SlotOK'
    BY <1>3 DEF SlotOK
  <1>5. CASE ret'.tag # "Response"
    <2>1. job' = cmd /\ reply' = reply /\ (task' = "job_write" => ret'.tag = "NeedTx")
      BY <1>2, <1>5 DEF JobPolls
    <2> QED BY <1>1, <1>3, <1>4, <1>5, <2>1 DEF JobInv
  <1>6. CASE ret'.tag = "Response"
    <2>1. task' = "select" /\ \E tag : Replies(job, tag, ret'.line[1].val)
      BY <1>6 DEF JobPolls, JobReturns
    <2>2. PICK tag : Replies(cmd, tag, ret'.line[1].val)
      BY <1>2, <2>1
    <2>3. Matches(reply)'
      BY <1>1, <1>3, <1>6, <2>2, RepliesMatch
    <2> QED BY <1>4, <2>1, <2>3 DEF JobInv, JobTasks
  <1> QED BY <1>5, <1>6

\* A poll() between jobs frees the slot of a job given up, or leaves it taken.
LEMMA IdlePollsKeeps ==
  ASSUME AnswersInd, TaskIdlePolls
  PROVE  SlotOK' /\ JobInv' /\ Matches(reply)'
PROOF
  <1>1. LinesInv /\ SlotOK /\ Polls
    BY TokioSteps DEF AnswersInd, TokioInd
  <1>2. SlotOK'
    BY <1>1, PollKeepsSlotOK
  <1>3. task' \notin JobTasks /\ task' # "job_write" /\ reply' = reply
    BY DEF TaskIdlePolls, JobTasks, chanVars
  <1> QED BY <1>2, <1>3 DEF JobInv, AnswersInd

\* The other steps of the task.
LEMMA TaskKeepsAnswers ==
  ASSUME AnswersInd, ret'.tag # "RxOverflow",
         \/ TaskFindsNoHandle \/ TaskReads \/ TaskReadsEof \/ TaskSendsEvent
         \/ JobWrites \/ JobReads \/ JobReadsEof \/ JobTimesOut \/ JobWriteFails \/ JobReadFails
  PROVE  SlotOK' /\ JobInv' /\ Matches(reply)'
PROOF
  <1>1. SlotSteps
    <2>1. JobWrites \/ JobWriteFails => AtWrite
      BY DEF AnswersInd, JobInv, JobWrites, JobWriteFails
    <2> QED BY <2>1, TokioSteps DEF SlotSteps
  <1>2. (task' \in JobTasks => task \in JobTasks /\ job' = job) /\ task' # "job_write"
    BY DEF TaskFindsNoHandle, TaskReads, TaskReadsEof, TaskSendsEvent, JobWrites, JobReads, ReadFrom,
           JobReadsEof, JobTimesOut, JobWriteFails, JobReadFails, JobReturns, JobTasks
  <1>3. SlotOK' /\ JobInv'
    BY <1>1, <1>2, JobStays
  <1>4. reply' = reply \/ Replies(job, "Closed", 0) \/ Replies(job, "Timeout", 0) \/ Replies(job, "Io", 0)
    BY DEF TaskFindsNoHandle, TaskReads, TaskReadsEof, TaskSendsEvent, JobWrites, JobReads, ReadFrom,
           JobReadsEof, JobTimesOut, JobWriteFails, JobReadFails, JobReturns, chanVars
  <1>5. Matches(reply)'
    BY <1>4, RepliesMatch DEF AnswersInd
  <1> QED BY <1>3, <1>5

\* The steps of the others: the task stays where it is.
LEMMA OthersKeepAnswers ==
  ASSUME AnswersInd, ret'.tag # "RxOverflow", Rests \/ Hears, UNCHANGED <<task, job>>
  PROVE  SlotOK' /\ JobInv'
PROOF
  <1>1. SlotSteps
    BY DEF SlotSteps
  <1> QED BY <1>1, JobStays

\* Every step keeps it, as long as rx does not overflow.
LEMMA AnswersNextInd ==
  AnswersInd /\ [TokioNext]_tokioVars /\ ret'.tag # "RxOverflow" => AnswersInd'
PROOF
  <1>1. SUFFICES ASSUME AnswersInd, [TokioNext]_tokioVars, ret'.tag # "RxOverflow"
                 PROVE  AnswersInd'
    OBVIOUS
  <1>2. TokioInd'
    BY <1>1, TokioNextInd DEF AnswersInd
  <1>3. Matches(reply) /\ Matches(result)
    BY <1>1 DEF AnswersInd
  <1> DEFINE Kept == SlotOK' /\ JobInv' /\ Matches(reply)' /\ Matches(result)'
  <1>4. ASSUME TaskRuns PROVE Kept
    <2>1. result' = result
      BY <1>4 DEF TaskRuns, ownerVars
    <2>2. SlotOK' /\ JobInv' /\ Matches(reply)'
      BY <1>1, <1>4, TakesJobKeeps, JobPollsKeeps, IdlePollsKeeps, TaskKeepsAnswers DEF TaskRuns
    <2> QED BY <1>3, <2>1, <2>2
  <1>5. ASSUME OwnerRuns \/ OwnerDecides PROVE Kept
    <2>1. Rests /\ UNCHANGED <<task, job>>
      BY <1>5, TokioSteps DEF OwnerRuns, OwnerDecides, taskVars
    <2> QED BY <1>1, <1>3, <1>5, <2>1, OthersKeepAnswers, OwnerMatches
  <1>6. ASSUME Radio \/ PortCloses \/ UNCHANGED tokioVars PROVE Kept
    <2>1. (Rests \/ Hears) /\ UNCHANGED <<task, job, reply, result>>
      BY <1>6, TokioSteps DEF Radio, PortCloses, tokioVars, hostVars, ownerVars, taskVars, chanVars,
                              Rests
    <2> QED BY <1>1, <1>3, <2>1, OthersKeepAnswers
  <1>7. ASSUME SomethingFails PROVE Kept
    <2>1. CASE OwnerCancels /\ UNCHANGED <<vars, radioVars, taskVars, port_open>>
      <3>1. Rests /\ UNCHANGED <<task, job>>
        BY <2>1 DEF Rests, taskVars
      <3> QED BY <1>1, <1>3, <2>1, <3>1, OthersKeepAnswers, OwnerMatches
    <2>2. CASE (JobWriteFails \/ JobReadFails) /\ UNCHANGED ownerVars
      <3>1. result' = result
        BY <2>2 DEF ownerVars
      <3> QED BY <1>1, <1>3, <2>2, <3>1, TaskKeepsAnswers
    <2> QED BY <1>6, <1>7, <2>1, <2>2 DEF SomethingFails
  <1>8. Kept
    BY <1>1, <1>4, <1>5, <1>6, <1>7 DEF TokioNext
  <1> QED BY <1>2, <1>8 DEF AnswersInd

\* The answer a method returns is the answer to its own command, whatever was
\* cancelled, timed out or failed before, if the module was up when the port was
\* opened and the receive buffer does not overflow. (lib.rs: request, process_job,
\* the idle branch of run_task.)
THEOREM TokioAnswersMatchCalls ==
  ~JustBooted /\ TokioSpec /\ [](ret.tag # "RxOverflow") => []AnswersMatchCalls
PROOF
  <1>1. AnswersInd => AnswersMatchCalls
    BY DEF AnswersInd, Matches, AnswersMatchCalls
  <1>2. AnswersInd /\ [TokioNext]_tokioVars /\ (ret.tag # "RxOverflow")' => AnswersInd'
    BY AnswersNextInd
  <1> QED BY <1>1, <1>2, AnswersInitInd, PTL DEF TokioSpec

-----------------------------------------------------------------------------
(* A buffer with room for the reads                                        *)

\* Room for one read next to a line that is not whole yet, and for two reads: a job
\* returns at its response and leaves what follows it in rx.
RoomForReads == CHUNK + 2 <= RX_BUF /\ 2 * CHUNK <= RX_BUF + 1

\* poll() has handed out all of tx.
HandedOut == tx_in_flight >= Len(tx)

\* The driver may return a response.
Waits == state.tag = "Awaiting"

\* Part of a line, or of what was read with the response of the last job.
Remains == Len(rx) <= 2 \/ Len(rx) < CHUNK

\* Inductive: how much is in rx at each place of the task.  Lines that are left
\* behind a response find the slot free, so no second response is read on top of
\* them before they are drained.
ReadsLate ==
  /\ task = "select" => Len(rx) <= 2 \/ (Len(rx) < CHUNK /\ ~Waits)
  /\ task \in {"idle_poll", "idle_send"} =>
       Len(rx) <= CHUNK + 2 \/ (Len(rx) < 2 * CHUNK /\ ~Waits)
  /\ task \in {"job_poll", "job_send"} => Len(rx) <= CHUNK + 2
  /\ task = "job_write" \/ (task = "job_poll" /\ ~HandedOut) => Remains
  /\ task = "job_read" => Len(rx) <= 2
  /\ task # "job_poll" => HandedOut

Drains == AnswersInd /\ ReadsLate /\ ret.tag # "RxOverflow"

\* Nothing was read, and nothing is to be sent, when the task is made.
LEMMA DrainsInit == ~JustBooted /\ TokioInit => Drains
PROOF
  <1>1. SUFFICES ASSUME ~JustBooted, TokioInit PROVE Drains
    OBVIOUS
  <1>2. AnswersInd
    BY <1>1, AnswersInitInd
  <1>3. rx = <<>> /\ tx = <<>> /\ tx_in_flight = 0 /\ ret.tag # "RxOverflow" /\ task = "select"
    BY <1>1 DEF TokioInit, Init, Ret
  <1>4. Len(rx) = 0 /\ Len(tx) = 0
    BY <1>3
  <1>5. Len(rx) <= 2 /\ HandedOut
    BY <1>3, <1>4 DEF HandedOut
  <1> QED BY <1>2, <1>3, <1>5 DEF Drains, ReadsLate

\* What the lemmas below start from.
LEMMA DrainsMeans ==
  ASSUME Drains
  PROVE  /\ LinesInv /\ SlotOK /\ IndInv /\ ReadsLate /\ ret.tag # "RxOverflow"
         /\ Len(rx) \in Nat /\ CHUNK \in Nat
         /\ task = "job_write" => AtWrite
PROOF
  <1>1. LinesInv /\ SlotOK /\ JobInv /\ rx \in Seq(Token)
    BY DEF Drains, AnswersInd, TokioInd, LinesInv, IndInv, TypeOK
  <1> QED BY <1>1, BoundAssumption, LenProperties DEF Drains, JobInv, LinesInv

\* A job is taken: what is left in rx is drained after its command was written.
LEMMA TakesJobDrains ==
  ASSUME Drains, TaskTakesJob
  PROVE  ReadsLate' /\ ret'.tag # "RxOverflow"
PROOF
  <1>1. /\ LinesInv /\ SlotOK /\ ReadsLate /\ ret.tag # "RxOverflow"
        /\ Len(rx) \in Nat /\ CHUNK \in Nat
    BY DrainsMeans
  <1>2. PICK cmd \in Commands : Submits(cmd)
    <2>1. Head(cmd_chan) \in Commands
      BY HeadTailProperties DEF Drains, AnswersInd, TokioInd, HostType, TaskTakesJob
    <2> QED BY <2>1, TokioSteps
  <1>3. rx' = rx /\ ret'.tag # "RxOverflow"
    BY <1>1, <1>2, OthersLeaveRx
  <1>4. task = "select" /\ HandedOut
    BY <1>1 DEF TaskTakesJob, ReadsLate
  <1>5. CASE ret'.tag = "Submitted"
    <2>1. task' = "job_poll"
      BY <1>5 DEF TaskTakesJob
    <2>2. Len(rx) <= CHUNK + 2
      BY <1>1, <1>4 DEF ReadsLate
    <2>3. Len(rx') <= CHUNK + 2 /\ Remains'
      BY <1>1, <1>3, <1>4, <2>2 DEF ReadsLate, Remains
    <2> QED BY <1>3, <2>1, <2>3 DEF ReadsLate
  <1>6. CASE ret'.tag # "Submitted"
    <2>1. task' = "select" /\ UNCHANGED <<tx, tx_in_flight, state>>
      BY <1>2, <1>4, <1>6 DEF TaskTakesJob, Submits, Submit, SubmitBusy, SubmitTxOverflow,
                              SubmitAccepted, RetBytes
    <2>2. HandedOut' /\ Waits' = Waits
      BY <1>4, <2>1 DEF HandedOut, Waits
    <2> QED BY <1>1, <1>3, <1>4, <2>1, <2>2 DEF ReadsLate
  <1> QED BY <1>5, <1>6

\* A read finds room, in both places.
LEMMA ReadsDrain ==
  ASSUME RoomForReads, Drains, TaskReads \/ JobReads
  PROVE  ReadsLate' /\ ret'.tag # "RxOverflow"
PROOF
  <1>1. /\ LinesInv /\ ReadsLate
        /\ Len(rx) \in Nat /\ CHUNK \in Nat /\ RX_BUF \in Nat
    BY DrainsMeans, CapacityAssumption
  <1>2. PICK n \in 1..CHUNK : n <= Len(from_radio) /\ PushRx(SubSeq(from_radio, 1, n))
    BY DEF TaskReads, JobReads, ReadFrom
  <1>3. n \in Nat \ {0} /\ n <= CHUNK
    BY <1>1
  <1>4. Len(rx) <= 2 \/ (Len(rx) < CHUNK /\ ~Waits /\ task = "select")
    BY <1>1 DEF TaskReads, JobReads, ReadsLate
  <1>5. Len(rx) + n <= CHUNK + 2 \/ (Len(rx) + n < 2 * CHUNK /\ ~Waits /\ task = "select")
    BY <1>1, <1>3, <1>4
  <1>6. Len(rx) + n <= RX_BUF
    BY <1>1, <1>3, <1>5 DEF RoomForReads
  <1>7. ret'.tag # "RxOverflow" /\ Len(rx') = Len(rx) + n
    BY <1>1, <1>2, <1>3, <1>6, ReadFits
  <1>8. /\ UNCHANGED <<tx, tx_in_flight, state>>
        /\ IF task = "select" THEN task' = "idle_poll" ELSE task' = "job_poll"
        /\ task \in {"select", "job_read"}
    BY <1>2 DEF PushRx, TaskReads, JobReads, ReadFrom
  <1>9. HandedOut' /\ Waits' = Waits
    BY <1>1, <1>8 DEF HandedOut, Waits, ReadsLate
  <1>10. Len(rx') <= CHUNK + 2 \/ (Len(rx') < 2 * CHUNK /\ ~Waits /\ task = "select")
    BY <1>5, <1>7
  <1> QED BY <1>7, <1>8, <1>9, <1>10 DEF ReadsLate

\* What poll() does to rx, tx and the slot, by what it returns.
LEMMA PollDrains ==
  ASSUME Drains, Polls
  PROVE  /\ ret'.tag # "RxOverflow" /\ Len(rx') \in Nat /\ Len(rx') <= Len(rx)
         /\ HandedOut' /\ (ret'.tag = "NeedTx" => ~HandedOut /\ rx' = rx)
         /\ ~HandedOut => ret'.tag = "NeedTx"
         /\ ret'.tag = "Idle" => Len(rx') <= 2
         /\ ret'.tag = "Response" => Len(rx') + 3 = Len(rx) /\ Waits /\ ~Waits'
         /\ Waits' => Waits
PROOF
  <1>1. /\ LinesInv /\ SlotOK /\ IndInv /\ TypeOK /\ Len(rx) \in Nat
        /\ tx_in_flight \in Nat /\ Len(tx) \in Nat
    <2>1. TypeOK /\ tx \in Seq(Commands)
      BY DrainsMeans DEF IndInv, TypeOK
    <2> QED BY <2>1, DrainsMeans, LenProperties DEF TypeOK
  <1>2. ret'.tag # "RxOverflow"
    BY PollReportsNone
  <1>3. /\ Len(rx') <= Len(rx)
        /\ ret'.tag = "Response" => Len(rx') + 3 = Len(rx) /\ Waits /\ ~Waits'
    BY <1>1, PollShortensRx DEF Waits, Idle
  <1>4. Len(rx') \in Nat
    <2>1. rx' \in Seq(Token)
      BY <1>1, StepTypes DEF LinesInv, IndInv, TypeOK
    <2> QED BY <2>1, LenProperties
  <1>5. ret'.tag = "Idle" => Len(rx') <= 2
    BY <1>1, IdleLeavesNoLine
  <1>6. CASE PollNeedTx
    <2>1. Waits' = Waits /\ ret'.tag = "NeedTx" /\ rx' = rx
      BY <1>6 DEF PollNeedTx, Waits, RetBytes
    <2>2. ~HandedOut /\ HandedOut'
      <3>1. tx_in_flight < Len(tx) /\ tx_in_flight' = Len(tx) /\ tx' = tx
        BY <1>6 DEF PollNeedTx
      <3> QED BY <1>1, <3>1 DEF HandedOut
    <2> QED BY <1>2, <1>3, <1>4, <1>5, <2>1, <2>2
  <1>7. CASE ~PollNeedTx
    <2>1. tx_in_flight >= Len(tx) /\ PollRx
      <3>1. PollRx
        BY <1>7 DEF Polls, Poll
      <3> QED BY <3>1 DEF PollRx
    <2>2. UNCHANGED <<tx, tx_in_flight>> /\ (state' = state \/ state' = Idle)
      BY <1>1, <2>1, PollRxEffect
    <2>3. HandedOut /\ HandedOut' /\ (Waits' => Waits)
      BY <2>1, <2>2 DEF HandedOut, Waits, Idle
    <2>4. ret'.tag # "NeedTx"
      BY <2>1, PollRxTag
    <2> QED BY <1>2, <1>3, <1>4, <1>5, <2>3, <2>4
  <1> QED BY <1>6, <1>7

\* poll() between jobs: a response leaves less than a read, with the slot free.
LEMMA IdlePollsDrain ==
  ASSUME Drains, TaskIdlePolls
  PROVE  ReadsLate' /\ ret'.tag # "RxOverflow"
PROOF
  <1>1. /\ ReadsLate /\ Len(rx) \in Nat /\ CHUNK \in Nat
        /\ task = "idle_poll" /\ Polls
    BY DrainsMeans, TokioSteps DEF TaskIdlePolls
  <1>2. /\ ret'.tag # "RxOverflow" /\ Len(rx') \in Nat /\ Len(rx') <= Len(rx)
        /\ HandedOut' /\ (ret'.tag = "NeedTx" => ~HandedOut)
        /\ ret'.tag = "Idle" => Len(rx') <= 2
        /\ ret'.tag = "Response" => Len(rx') + 3 = Len(rx) /\ Waits /\ ~Waits'
        /\ Waits' => Waits
    BY <1>1, PollDrains
  <1>3. HandedOut /\ (Len(rx) <= CHUNK + 2 \/ (Len(rx) < 2 * CHUNK /\ ~Waits))
    BY <1>1 DEF ReadsLate
  <1>4. CASE ret'.tag \in {"Repoll", "Event"}
    <2>1. task' \in {"idle_poll", "idle_send"}
      BY <1>1, <1>4 DEF TaskIdlePolls
    <2>2. Len(rx') <= CHUNK + 2 \/ (Len(rx') < 2 * CHUNK /\ ~Waits')
      BY <1>1, <1>2, <1>3
    <2> QED BY <1>2, <2>1, <2>2 DEF ReadsLate
  <1>5. CASE ret'.tag \in {"Idle", "Response"}
    <2>1. task' = "select"
      BY <1>5 DEF TaskIdlePolls
    <2>2. Len(rx') <= 2 \/ (Len(rx') < CHUNK /\ ~Waits')
      BY <1>1, <1>2, <1>3, <1>5
    <2> QED BY <1>2, <2>1, <2>2 DEF ReadsLate
  <1> QED BY <1>2, <1>3, <1>4, <1>5 DEF TaskIdlePolls

\* poll() within a job, which ends it at the response.
LEMMA JobPollsDrain ==
  ASSUME Drains, JobPolls
  PROVE  ReadsLate' /\ ret'.tag # "RxOverflow"
PROOF
  <1>1. /\ ReadsLate /\ Len(rx) \in Nat /\ CHUNK \in Nat
        /\ task = "job_poll" /\ Polls
    BY DrainsMeans, TokioSteps DEF JobPolls
  <1>2. /\ ret'.tag # "RxOverflow" /\ Len(rx') \in Nat /\ Len(rx') <= Len(rx)
        /\ HandedOut' /\ (ret'.tag = "NeedTx" => ~HandedOut /\ rx' = rx)
        /\ ret'.tag = "Idle" => Len(rx') <= 2
        /\ ret'.tag = "Response" => Len(rx') + 3 = Len(rx) /\ Waits /\ ~Waits'
    BY <1>1, PollDrains
  <1>3. Len(rx) <= CHUNK + 2 /\ (~HandedOut => Remains)
    BY <1>1 DEF ReadsLate
  <1>4. Len(rx') <= CHUNK + 2
    BY <1>1, <1>2, <1>3
  <1>5. CASE ret'.tag \in {"Repoll", "Event"}
    <2>1. task' \in {"job_poll", "job_send"}
      BY <1>1, <1>5 DEF JobPolls
    <2> QED BY <1>2, <1>4, <2>1 DEF ReadsLate
  <1>6. CASE ret'.tag = "NeedTx"
    <2>1. task' = "job_write"
      BY <1>6 DEF JobPolls
    <2>2. Remains'
      BY <1>2, <1>3, <1>6 DEF Remains
    <2> QED BY <1>2, <2>1, <2>2 DEF ReadsLate
  <1>7. CASE ret'.tag = "Idle"
    <2>1. task' = "job_read"
      BY <1>7 DEF JobPolls
    <2> QED BY <1>2, <1>7, <2>1 DEF ReadsLate
  <1>8. CASE ret'.tag = "Response"
    <2>1. task' = "select"
      BY <1>8 DEF JobPolls, JobReturns
    <2>2. Len(rx') < CHUNK /\ ~Waits'
      BY <1>1, <1>2, <1>3, <1>8
    <2> QED BY <1>2, <2>1, <2>2 DEF ReadsLate
  <1> QED BY <1>5, <1>6, <1>7, <1>8 DEF JobPolls

\* A write, of all or of part: what is in rx is left there.
LEMMA WritesDrain ==
  ASSUME Drains, JobWrites \/ JobWriteFails
  PROVE  ReadsLate' /\ ret'.tag # "RxOverflow"
PROOF
  <1>1. /\ ReadsLate /\ ret.tag # "RxOverflow" /\ Len(rx) \in Nat /\ CHUNK \in Nat
        /\ IndInv /\ AtWrite /\ task = "job_write"
    BY DrainsMeans DEF JobWrites, JobWriteFails
  <1>2. rx' = rx /\ ret'.tag # "RxOverflow"
    <2>1. Writes \/ WritesPart
      BY TokioSteps
    <2> QED BY <1>1, <2>1, OthersLeaveRx
  <1>3. Remains /\ HandedOut
    BY <1>1 DEF ReadsLate
  <1>4. CASE JobWrites
    <2>1. task' = "job_poll"
      BY <1>4 DEF JobWrites
    <2>2. Len(rx') <= CHUNK + 2
      BY <1>1, <1>2, <1>3 DEF Remains
    <2>3. Remains'
      BY <1>2, <1>3 DEF Remains
    <2> QED BY <1>2, <2>1, <2>2, <2>3 DEF ReadsLate
  <1>5. CASE JobWriteFails
    <2>1. task' = "select" /\ UNCHANGED <<tx, tx_in_flight, state>>
      BY <1>5 DEF JobWriteFails, JobReturns, vars
    <2>2. ~Waits' /\ HandedOut'
      BY <1>1, <1>3, <2>1 DEF Waits, HandedOut, AtWrite, SendingTx
    <2>3. Len(rx') <= 2 \/ Len(rx') < CHUNK
      BY <1>2, <1>3 DEF Remains
    <2> QED BY <1>2, <2>1, <2>2, <2>3 DEF ReadsLate
  <1> QED BY <1>4, <1>5

\* The steps that leave the driver alone.
LEMMA OthersDrain ==
  ASSUME Drains, UNCHANGED vars,
         \/ UNCHANGED task
         \/ TaskFindsNoHandle \/ TaskReadsEof \/ TaskSendsEvent
         \/ JobReadsEof \/ JobReadFails \/ JobTimesOut
  PROVE  ReadsLate' /\ ret'.tag # "RxOverflow"
PROOF
  <1>1. ReadsLate /\ ret.tag # "RxOverflow"
    BY DrainsMeans
  <1>2. UNCHANGED <<rx, HandedOut, Waits, Remains>> /\ ret' = ret
    BY DEF HandedOut, Waits, Remains, vars
  <1>3. \/ task' = task
        \/ task' = "ended" /\ task = "select"
        \/ task = "idle_send" /\ task' \in {"idle_poll", "ended"}
        \/ task = "job_send" /\ task' = "job_poll"
        \/ task = "job_read" /\ task' = "select"
    BY DEF TaskFindsNoHandle, TaskReadsEof, TaskSendsEvent, JobReadsEof, JobReadFails, JobTimesOut,
           JobReturns
  <1> QED BY <1>1, <1>2, <1>3 DEF ReadsLate

\* Every step finds room in rx, and leaves it.
LEMMA DrainsNext ==
  ASSUME RoomForReads, Drains, [TokioNext]_tokioVars
  PROVE  Drains'
PROOF
  <1>1. CASE TaskRuns
    <2>1. TaskFindsNoHandle \/ TaskReadsEof \/ TaskSendsEvent \/ JobReadsEof \/ JobTimesOut
          => UNCHANGED vars
      BY DEF TaskFindsNoHandle, TaskReadsEof, TaskSendsEvent, JobReadsEof, JobTimesOut
    <2> QED BY <1>1, <2>1, TakesJobDrains, ReadsDrain, IdlePollsDrain, JobPollsDrain, WritesDrain,
               OthersDrain, AnswersNextInd DEF TaskRuns, Drains
  <1>2. CASE SomethingFails
    <2>1. \/ JobWriteFails
          \/ UNCHANGED vars /\ (UNCHANGED task \/ JobReadFails)
      BY <1>2 DEF SomethingFails, taskVars, JobReadFails, PortCloses
    <2> QED BY <2>1, WritesDrain, OthersDrain, AnswersNextInd DEF Drains
  <1>3. CASE OwnerRuns \/ OwnerDecides \/ Radio \/ UNCHANGED tokioVars
    <2>1. UNCHANGED vars /\ UNCHANGED task
      BY <1>3 DEF OwnerRuns, OwnerDecides, Radio, tokioVars, hostVars, taskVars
    <2> QED BY <2>1, OthersDrain, AnswersNextInd DEF Drains
  <1> QED BY <1>1, <1>2, <1>3 DEF TokioNext

\* However many messages come and however late the task reads them, the receive
\* buffer never overflows if it has room for a read next to an unfinished line and
\* for two reads: the task reads after poll() returned Idle, or once behind the
\* response that ended a job. (lib.rs: run_task, process_job; driver.rs: poll,
\* push_rx.)
THEOREM TokioNeverOverflows ==
  RoomForReads /\ ~JustBooted /\ TokioSpec => [](ret.tag # "RxOverflow")
PROOF
  <1>1. SUFFICES ASSUME RoomForReads, ~JustBooted PROVE TokioSpec => [](ret.tag # "RxOverflow")
    OBVIOUS
  <1>2. TokioInit => Drains
    BY <1>1, DrainsInit
  <1>3. Drains /\ [TokioNext]_tokioVars => Drains'
    BY <1>1, DrainsNext
  <1>4. Drains => ret.tag # "RxOverflow"
    BY DEF Drains
  <1> QED BY <1>2, <1>3, <1>4, PTL DEF TokioSpec

\* Hence no event is then lost and every answer reaches the call it is for, whatever
\* is cancelled or times out. (lib.rs: request, run_task, process_job.)
THEOREM TokioWithRoomIsReliable ==
  RoomForReads /\ ~JustBooted /\ TokioSpec => []NoEventLost /\ []AnswersMatchCalls
PROOF BY TokioNeverOverflows, TokioLosesNoEvent, TokioAnswersMatchCalls, PTL
=============================================================================
