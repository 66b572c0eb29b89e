----------------------------- MODULE TokioRadio -----------------------------
(***************************************************************************)
(* The async host driver of rylr998-tokio/src/lib.rs: the owner of the     *)
(* AsyncRadio handle and the background task run_task, which owns the core *)
(* driver and the port.  They share two bounded channels, jobs to the task *)
(* and events to the owner, and one oneshot per job for its result.  A     *)
(* step is what one of them does between two awaits.                       *)
(***************************************************************************)
EXTENDS SerialRadio

CONSTANTS
  CMD_CAP, EVENT_CAP,  \* capacities of the two channels
  CHUNK,               \* size of the task's read buffer
  MaxCalls,            \* bound on the command methods called
  MaxFaults            \* bound on reads and writes that fail, futures dropped
                       \* and closings of the port

ASSUME BoundAssumption == CHUNK \in Nat /\ MaxCalls \in Nat /\ MaxFaults \in Nat
ASSUME ChannelAssumption == CMD_CAP \in Nat \ {0} /\ EVENT_CAP \in Nat \ {0}

VARIABLES
  owner,          \* where the owner is: "app", "sending", "awaiting",
                  \* "listening" or, once the handle is dropped, "gone"
  call,           \* the command of the owner's request
  calls,          \* number of command methods called
  result,         \* what the owner's last call returned
  delivered,      \* history: the +RCV numbers next_event returned
  task,           \* where run_task is
  job,            \* the command process_job works on
  unsent,         \* the event the task is waiting to send, as a sequence
  cmd_chan, event_chan,  \* the channels' contents
  reply,          \* the oneshot of the owner's request
  port_open,
  faults          \* number of faults so far

ownerVars == <<owner, call, calls, result, delivered>>
taskVars  == <<task, job, unsent>>
chanVars  == <<cmd_chan, event_chan, reply>>
hostVars  == <<ownerVars, taskVars, chanVars, port_open, faults>>
tokioVars == <<vars, radioVars, hostVars>>

NoJob == [op |-> "None", arg |-> 0]

\* `id` is the argument of the command asked for, `val` the one of its answer.
Result(tag, id, val) == [tag |-> tag, id |-> id, val |-> val]
NoReply == Result("None", 0, 0)

TokioInit ==
  /\ Init /\ RadioInit
  /\ owner = "app" /\ call = NoJob /\ calls = 0
  /\ result = NoReply /\ delivered = <<>>
  /\ task = "select" /\ job = NoJob /\ unsent = <<>>
  /\ cmd_chan = <<>> /\ event_chan = <<>> /\ reply = NoReply
  /\ port_open = TRUE /\ faults = 0

-----------------------------------------------------------------------------
(* The owner: request and next_event                                       *)

\* The command and its oneshot go with the call.
OwnerReturns(r) ==
  /\ owner' = "app" /\ result' = r
  /\ call' = NoJob /\ reply' = NoReply

\* request waits for room in the job channel without a timeout.
OwnerCalls(cmd) ==
  /\ owner = "app"
  /\ calls < MaxCalls /\ cmd.arg = calls + 1 /\ calls' = cmd.arg
  /\ owner' = "sending" /\ call' = cmd
  /\ UNCHANGED <<result, delivered, chanVars>>

\* Mistake: the job channel is unbounded.
OwnerSendsJobUnbounded ==
  /\ owner = "sending" /\ task # "ended"
  /\ cmd_chan' = Append(cmd_chan, call)
  /\ owner' = "awaiting" /\ reply' = NoReply
  /\ UNCHANGED <<call, calls, result, delivered, event_chan>>

OwnerSendsJob ==
  /\ owner = "sending" /\ task # "ended"
  /\ Len(cmd_chan) < CMD_CAP
  /\ cmd_chan' = Append(cmd_chan, call)
  /\ owner' = "awaiting" /\ reply' = NoReply
  /\ UNCHANGED <<call, calls, result, delivered, event_chan>>

OwnerGetsReply ==
  /\ owner = "awaiting" /\ reply # NoReply
  /\ OwnerReturns(reply)
  /\ UNCHANGED <<calls, delivered, cmd_chan, event_chan>>

\* Mistake: the timeout starts when the task takes the job.
OwnerTimesOutOnceTaken ==
  /\ owner = "awaiting" /\ reply = NoReply /\ call = job
  /\ OwnerReturns(Result("Timeout", call.arg, 0))
  /\ UNCHANGED <<calls, delivered, cmd_chan, event_chan>>

\* A timeout may strike at any moment of the wait.  The oneshot is dropped from
\* here on: a later result is not delivered.
OwnerTimesOut ==
  /\ owner = "awaiting" /\ reply = NoReply
  /\ OwnerReturns(Result("Timeout", call.arg, 0))
  /\ UNCHANGED <<calls, delivered, cmd_chan, event_chan>>

OwnerListens ==
  /\ owner = "app"
  /\ owner' = "listening"
  /\ UNCHANGED <<call, calls, result, delivered, chanVars>>

OwnerGetsEvent ==
  /\ owner = "listening" /\ event_chan # <<>>
  /\ LET e == Head(event_chan) IN
       /\ OwnerReturns(Result("Event", 0, e.val))
       /\ delivered' = IF e.key = "+RCV" THEN Append(delivered, e.val) ELSE delivered
  /\ event_chan' = Tail(event_chan)
  /\ UNCHANGED <<calls, cmd_chan>>

OwnerHearsNothing ==
  /\ owner = "listening" /\ event_chan = <<>>
  /\ OwnerReturns(Result("Timeout", 0, 0))
  /\ UNCHANGED <<calls, delivered, cmd_chan, event_chan>>

\* The task has ended: its ends of the channels and of the oneshot are closed.
OwnerFindsClosed ==
  /\ task = "ended"
  /\ \/ owner = "sending"
     \/ owner = "awaiting" /\ reply = NoReply
     \/ owner = "listening" /\ event_chan = <<>>
  /\ OwnerReturns(Result("Closed", 0, 0))
  /\ UNCHANGED <<calls, delivered, cmd_chan, event_chan>>

OwnerDropsHandle ==
  /\ owner = "app"
  /\ owner' = "gone"
  /\ UNCHANGED <<call, calls, result, delivered, chanVars>>

\* The caller drops the future of its call: a job that was sent stays queued.
OwnerCancels ==
  /\ owner \in {"sending", "awaiting", "listening"}
  /\ OwnerReturns(Result("Cancelled", 0, 0))
  /\ UNCHANGED <<calls, delivered, cmd_chan, event_chan>>

-----------------------------------------------------------------------------
(* The task: the select loop of run_task                                   *)

\* reply.send: only a request that still waits for this job gets the result.
Replies(done, tag, val) ==
  reply' = IF owner = "awaiting" /\ call = done THEN Result(tag, done.arg, val) ELSE reply

TaskTakesJob ==
  /\ task = "select" /\ cmd_chan # <<>>
  /\ cmd_chan' = Tail(cmd_chan)
  /\ Submit(Head(cmd_chan))
  /\ IF ret'.tag = "Submitted"
       THEN task' = "job_poll" /\ job' = Head(cmd_chan) /\ UNCHANGED reply
       ELSE Replies(Head(cmd_chan), ret'.tag, 0) /\ UNCHANGED <<task, job>>
  /\ UNCHANGED <<unsent, event_chan, port_open, radioVars>>

\* Mistake: a closed job channel is skipped like an empty one.
TaskIgnoresNoHandle ==
  /\ task = "select" /\ cmd_chan = <<>> /\ owner = "gone"
  /\ UNCHANGED <<taskVars, chanVars, port_open, vars, radioVars>>

TaskFindsNoHandle ==
  /\ task = "select" /\ cmd_chan = <<>> /\ owner = "gone"
  /\ task' = "ended"
  /\ UNCHANGED <<job, unsent, chanVars, port_open, vars, radioVars>>

\* What push_rx does not take is lost: its error is ignored.
ReadFrom(then) ==
  /\ \E n \in 1..CHUNK :
       /\ n <= Len(from_radio)
       /\ PushRx(SubSeq(from_radio, 1, n))
       /\ from_radio' = SubSeq(from_radio, n + 1, Len(from_radio))
  /\ task' = then
  /\ UNCHANGED <<job, unsent, chanVars, port_open, to_radio, rcv_sent, lost, booting>>

TaskReads == task = "select" /\ ReadFrom("idle_poll")

\* A read that fails here is retried: no step of the model.
TaskReadsEof ==
  /\ task = "select" /\ from_radio = <<>> /\ ~port_open
  /\ task' = "ended"
  /\ UNCHANGED <<job, unsent, chanVars, port_open, vars, radioVars>>

\* Any poll() result but an event ends the drain, an unclaimed response too.
TaskIdlePolls ==
  /\ task = "idle_poll"
  /\ Poll
  /\ \/ ret'.tag = "Repoll" /\ UNCHANGED <<task, unsent>>
     \/ ret'.tag = "Event" /\ task' = "idle_send" /\ unsent' = <<ret'.line[1]>>
     \/ ret'.tag \in {"Idle", "Response", "NeedTx"} /\ task' = "select" /\ UNCHANGED unsent
  /\ UNCHANGED <<job, chanVars, port_open, radioVars>>

\* Mistake: try_send, which drops the event when the channel is full.
TaskTriesToSendEvent ==
  /\ task \in {"idle_send", "job_send"}
  /\ event_chan' = IF owner # "gone" /\ Len(event_chan) < EVENT_CAP
                     THEN event_chan \o unsent ELSE event_chan
  /\ task' = IF task = "idle_send" THEN "idle_poll" ELSE "job_poll"
  /\ unsent' = <<>>
  /\ UNCHANGED <<job, cmd_chan, reply, port_open, vars, radioVars>>

\* event_tx.send(e).await: waits for room for as long as it takes.
TaskSendsEvent ==
  /\ task \in {"idle_send", "job_send"}
  /\ \/ /\ owner # "gone" /\ Len(event_chan) < EVENT_CAP
        /\ event_chan' = event_chan \o unsent
        /\ task' = IF task = "idle_send" THEN "idle_poll" ELSE "job_poll"
     \/ /\ owner = "gone"
        /\ task' = IF task = "idle_send" THEN "ended" ELSE "job_poll"
        /\ UNCHANGED event_chan
  /\ unsent' = <<>>
  /\ UNCHANGED <<job, cmd_chan, reply, port_open, vars, radioVars>>

-----------------------------------------------------------------------------
(* The task: process_job                                                   *)

JobReturns(tag, val) == task' = "select" /\ job' = NoJob /\ Replies(job, tag, val)

\* The first response ends the job; lines behind it stay in the driver.
JobPolls ==
  /\ task = "job_poll"
  /\ Poll
  /\ \/ ret'.tag = "Repoll" /\ UNCHANGED <<task, job, unsent, reply>>
     \/ ret'.tag = "NeedTx" /\ task' = "job_write" /\ UNCHANGED <<job, unsent, reply>>
     \/ /\ ret'.tag = "Response"
        /\ JobReturns(IF StartsWith(ret'.line, "+ERR=") THEN "RadioErr" ELSE "Ok",
                      ret'.line[1].val)
        /\ UNCHANGED unsent
     \/ /\ ret'.tag = "Event"
        /\ task' = "job_send" /\ unsent' = <<ret'.line[1]>>
        /\ UNCHANGED <<job, reply>>
     \/ ret'.tag = "Idle" /\ task' = "job_read" /\ UNCHANGED <<job, unsent, reply>>
  /\ UNCHANGED <<cmd_chan, event_chan, port_open, radioVars>>

JobWrites ==
  /\ task = "job_write"
  /\ to_radio' = to_radio \o ret.bytes
  /\ AckTx(Len(ret.bytes))
  /\ task' = "job_poll"
  /\ UNCHANGED <<job, unsent, chanVars, port_open, from_radio, rcv_sent, lost, booting>>

JobWriteFails ==
  /\ task = "job_write"
  /\ \E n \in 0..(Len(ret.bytes) - 1) : to_radio' = to_radio \o SubSeq(ret.bytes, 1, n)
  /\ JobReturns("Io", 0)
  /\ UNCHANGED <<unsent, cmd_chan, event_chan, port_open, vars,
                 from_radio, rcv_sent, lost, booting>>

JobReads == task = "job_read" /\ ReadFrom("job_poll")

JobReadsEof ==
  /\ task = "job_read" /\ from_radio = <<>> /\ ~port_open
  /\ JobReturns("Closed", 0)
  /\ UNCHANGED <<unsent, cmd_chan, event_chan, port_open, vars, radioVars>>

JobReadFails ==
  /\ task = "job_read"
  /\ JobReturns("Io", 0)
  /\ UNCHANGED <<unsent, cmd_chan, event_chan, port_open, vars, radioVars>>

\* Mistake: giving up on the answer frees the slot.
JobTimesOutFreesSlot ==
  /\ task = "job_read" /\ from_radio = <<>>
  /\ JobReturns("Timeout", 0)
  /\ state' = Idle
  /\ UNCHANGED <<rx, tx, tx_in_flight, awaiting_ready_as_ok, pending_kind, ret,
                 unsent, cmd_chan, event_chan, port_open, radioVars>>

\* timeout_at looks at the read first: it expires only if there is nothing.
JobTimesOut ==
  /\ task = "job_read" /\ from_radio = <<>>
  /\ JobReturns("Timeout", 0)
  /\ UNCHANGED <<unsent, cmd_chan, event_chan, port_open, vars, radioVars>>

PortCloses ==
  /\ port_open
  /\ port_open' = FALSE
  /\ UNCHANGED <<vars, radioVars, ownerVars, taskVars, chanVars>>

-----------------------------------------------------------------------------
Fault == faults < MaxFaults /\ faults' = faults + 1

OwnerRuns ==
  /\ \/ OwnerSendsJob \/ OwnerGetsReply \/ OwnerTimesOut
     \/ OwnerGetsEvent \/ OwnerHearsNothing \/ OwnerFindsClosed
  /\ UNCHANGED <<vars, radioVars, taskVars, port_open, faults>>

OwnerDecides ==
  /\ \/ (\E cmd \in Commands : OwnerCalls(cmd)) \/ OwnerListens \/ OwnerDropsHandle
  /\ UNCHANGED <<vars, radioVars, taskVars, port_open, faults>>

TaskRuns ==
  /\ \/ TaskTakesJob \/ TaskFindsNoHandle \/ TaskReads \/ TaskReadsEof
     \/ TaskIdlePolls \/ TaskSendsEvent
     \/ JobPolls \/ JobWrites \/ JobReads \/ JobReadsEof \/ JobTimesOut
  /\ UNCHANGED <<ownerVars, faults>>

Radio == port_open /\ RadioNext /\ UNCHANGED <<vars, hostVars>>

SomethingFails ==
  /\ Fault
  /\ \/ OwnerCancels /\ UNCHANGED <<vars, radioVars, taskVars, port_open>>
     \/ (JobWriteFails \/ JobReadFails) /\ UNCHANGED ownerVars
     \/ PortCloses

TokioNext == OwnerRuns \/ OwnerDecides \/ TaskRuns \/ Radio \/ SomethingFails

TokioSpec == TokioInit /\ [][TokioNext]_tokioVars

\* Both futures are polled when they can go on, and timers fire.
FairTokioSpec == TokioSpec /\ WF_tokioVars(OwnerRuns) /\ WF_tokioVars(TaskRuns)

\* The owner keeps listening, too.
ListeningSpec ==
  /\ FairTokioSpec
  /\ WF_tokioVars(OwnerListens /\ UNCHANGED <<vars, radioVars, taskVars, port_open, faults>>)

-----------------------------------------------------------------------------
TokioTypeOK ==
  /\ TypeOK
  /\ RadioTypeOK
  /\ owner \in {"app", "sending", "awaiting", "listening", "gone"}
  /\ task \in {"select", "idle_poll", "idle_send", "job_poll", "job_write",
               "job_send", "job_read", "ended"}
  /\ call \in Commands \cup {NoJob} /\ job \in Commands \cup {NoJob}
  /\ port_open \in BOOLEAN
  /\ unsent \in Seq(Token) /\ cmd_chan \in Seq(Commands) /\ event_chan \in Seq(Token)
  /\ Len(cmd_chan) <= CMD_CAP /\ Len(event_chan) <= EVENT_CAP
  /\ calls \in 0..MaxCalls /\ faults \in 0..MaxFaults /\ delivered \in Seq(Vals)

\* The answer a method returns is the answer to its own command, whatever jobs
\* timed out before it and however late their answers come. (request,
\* process_job, the idle branch of run_task.)
AnswersMatchCalls == result.tag \in {"Ok", "RadioErr"} => result.val = result.id

\* As long as the handle exists, no +RCV is dropped, duplicated or overtaken:
\* it was returned by next_event, or is in the channel, held by the waiting
\* task, in the driver's buffer or in the port. (run_task, process_job.)
NoEventLost ==
  owner # "gone" =>
    /\ CountsUp(delivered)
    /\ RcvsAre(event_chan \o unsent \o rx \o from_radio, Len(delivered) + 1, rcv_sent)

\* Once its job is queued a method call returns, also with the event channel
\* full and nobody reading it, whatever the task is doing and whatever fails.
\* (The timeouts of request and next_event; dropped oneshots and channels.)
QueuedCallsReturn ==
  (owner \in {"awaiting", "listening"}) ~> (owner \in {"app", "gone"})

\* Every method call returns, as the README of the crate has it.
CallsReturn ==
  (owner \in {"sending", "awaiting", "listening"}) ~> (owner \in {"app", "gone"})

\* Dropping the handle ends the background task.
TaskEnds == (owner = "gone") ~> (task = "ended")

-----------------------------------------------------------------------------
(* What the repository's text says of the async driver                     *)

\* next_event: events received while a command is in flight are queued by the
\* task and surfaced.  So an owner that keeps listening gets every one.
EventsDelivered ==
  \A i \in 1..MaxRcv : (rcv_sent >= i) ~> (Len(delivered) >= i \/ owner = "gone")
=============================================================================
