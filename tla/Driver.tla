------------------------------- MODULE Driver -------------------------------
(***************************************************************************)
(* The sans-I/O protocol state machine of rylr998-core: `Driver` in        *)
(* rylr998-core/src/driver.rs.  One action per public method (Submit,      *)
(* PushRx, AckTx, Poll); Poll is a disjunction with one action per way a   *)
(* call of poll() ends.  The caller is arbitrary here: any method at any   *)
(* time.  The modules of the host crates compose the same actions.         *)
(*                                                                         *)
(* Data.  A received byte stream is a sequence of tokens.  A body token    *)
(* stands for the bytes of a line up to its "\r\n": `key` is the prefix    *)
(* the code tells lines apart by, `ok` says whether decode.rs parses what  *)
(* follows that prefix (for "+OK", "+RESET", "+READY": whether nothing     *)
(* follows it), `val` is what was parsed.  CR and LF are tokens of their   *)
(* own, so a read may end between them.  A byte queued for transmission is *)
(* the command it is part of: the encoding of c is EncodedLen[c] times c.  *)
(* Buffer capacities count tokens and queued units instead of bytes.       *)
(***************************************************************************)
EXTENDS Integers, Sequences

CONSTANTS
  RX_BUF, TX_BUF,  \* capacities of rx and tx
  LINE_BUF,        \* size of the scratch buffer poll() copies a line into
  Commands,        \* the commands a caller submits
  EncodedLen,      \* length of each command's encoding
  Vals,            \* what a command or a line can carry
  Inputs           \* the byte strings a transport may deliver in one read

-----------------------------------------------------------------------------
(* Commands (types.rs) and the lines of the radio (decode.rs)              *)

QueryPrefix ==
  [Address |-> "+ADDRESS=", NetworkId |-> "+NETWORKID=", Band |-> "+BAND=",
   Parameters |-> "+PARAMETER=", Crfop |-> "+CRFOP=", Uid |-> "+UID=",
   Version |-> "+VER=", Cpin |-> "+CPIN="]

QueryKey == DOMAIN QueryPrefix

AwaitKind == QueryKey \cup {"Ack"}

None == "None"

\* What a Get command asks for; every other command awaits an acknowledgement.
QueryOf ==
  [GetAddress |-> "Address", GetNetworkId |-> "NetworkId", GetBand |-> "Band",
   GetParameters |-> "Parameters", GetCrfop |-> "Crfop", GetUid |-> "Uid",
   GetVersion |-> "Version", GetCpin |-> "Cpin"]

Queries == DOMAIN QueryOf

AckCommands == {"Ping", "SetAddress", "SetNetworkId", "SetBand",
                "SetParameters", "SetCpin", "FactoryReset", "Send"}

Command == [op : Queries \cup AckCommands, arg : Vals]

KindOf(cmd) == IF cmd.op \in Queries THEN QueryOf[cmd.op] ELSE "Ack"

ResponseKeys == {"+OK", "+ERR=", "+ADDRESS=", "+NETWORKID=", "+BAND=",
                 "+PARAMETER=", "+CRFOP=", "+UID=", "+VER=", "+CPIN="}
EventKeys    == {"+READY", "+RCV"}
\* "other" is any line text that starts with none of the prefixes.
BodyKeys     == ResponseKeys \cup EventKeys \cup {"+RESET", "other"}

Token == [key : BodyKeys \cup {"CR", "LF"}, ok : BOOLEAN, val : Vals]

ASSUME CapacityAssumption ==
  RX_BUF \in Nat /\ TX_BUF \in Nat /\ LINE_BUF \in Nat

ASSUME CommandAssumption ==
  /\ Commands \subseteq Command
  /\ EncodedLen \in [Commands -> Nat \ {0}]

ASSUME InputAssumption == Inputs \subseteq Seq(Token)

IsCR(tok) == tok.key = "CR"
IsLF(tok) == tok.key = "LF"

\* line.starts_with(key)
StartsWith(line, key) == line # <<>> /\ line[1].key = key

\* line == key: the prefix and nothing else
Exactly(line, key) == Len(line) = 1 /\ line[1].key = key /\ line[1].ok

\* decode::parse_response and decode::parse_event return Ok.  The two free-text
\* answers also parse when the text runs on into what a lost "\r\n" joined.
ParsesAsResponse(line) ==
  /\ line # <<>> /\ line[1].key \in ResponseKeys /\ line[1].ok
  /\ Len(line) = 1 \/ line[1].key \in {"+UID=", "+VER="}

ParsesAsEvent(line) == Len(line) = 1 /\ line[1].key \in EventKeys /\ line[1].ok

\* encode::encode, as units of the command it encodes
Encode(cmd) == [i \in 1..EncodedLen[cmd] |-> cmd]

-----------------------------------------------------------------------------
VARIABLES
  rx,                     \* received tokens not yet consumed
  tx,                     \* encoded units not yet acknowledged
  tx_in_flight,           \* how many of tx were handed out by poll()
  state,                  \* [tag, kind]: Idle, SendingTx or Awaiting{kind}
  awaiting_ready_as_ok,   \* the next +READY resolves as Response::Ok
  pending_kind,           \* what to await once tx is acknowledged
  ret                     \* what the last method call returned

vars == <<rx, tx, tx_in_flight, state, awaiting_ready_as_ok, pending_kind, ret>>

Idle           == [tag |-> "Idle", kind |-> None]
SendingTx      == [tag |-> "SendingTx", kind |-> None]
Awaiting(kind) == [tag |-> "Awaiting", kind |-> kind]

\* "Repoll" is no return: poll() is about to call itself.  "Panic" ends it all.
RetTags == {"New", "Submitted", "Busy", "TxOverflow", "Pushed", "RxOverflow",
            "Acked", "NeedTx", "Response", "Event", "Idle", "Repoll", "Panic"}

Ret(tag)           == [tag |-> tag, bytes |-> <<>>, line |-> <<>>]
RetBytes(tag, b)   == [tag |-> tag, bytes |-> b, line |-> <<>>]
RetLine(tag, line) == [tag |-> tag, bytes |-> <<>>, line |-> line]

TypeOK ==
  /\ rx \in Seq(Token)
  /\ tx \in Seq(Commands)
  /\ tx_in_flight \in Nat
  /\ state \in {Idle, SendingTx} \cup {Awaiting(k) : k \in AwaitKind}
  /\ awaiting_ready_as_ok \in BOOLEAN
  /\ pending_kind \in AwaitKind \cup {None}
  /\ ret \in [tag : RetTags, bytes : Seq(Commands), line : Seq(Token)]

Init ==
  /\ rx = <<>>
  /\ tx = <<>>
  /\ tx_in_flight = 0
  /\ state = Idle
  /\ awaiting_ready_as_ok = FALSE
  /\ pending_kind = None
  /\ ret = Ret("New")

\* No call of the driver is under way.
Returned == ret.tag \notin {"Repoll", "Panic"}

-----------------------------------------------------------------------------
(* submit                                                                  *)

SubmitBusy(cmd) ==
  /\ state # Idle
  /\ ret' = Ret("Busy")
  /\ UNCHANGED <<rx, tx, tx_in_flight, state, awaiting_ready_as_ok, pending_kind>>

\* awaiting_ready_as_ok is assigned before the fallible encode.
SubmitTxOverflow(cmd) ==
  /\ state = Idle
  /\ Len(tx) + EncodedLen[cmd] > TX_BUF
  /\ awaiting_ready_as_ok' = (cmd.op = "FactoryReset")
  /\ ret' = Ret("TxOverflow")
  /\ UNCHANGED <<rx, tx, tx_in_flight, state, pending_kind>>

SubmitAccepted(cmd) ==
  /\ state = Idle
  /\ Len(tx) + EncodedLen[cmd] <= TX_BUF
  /\ awaiting_ready_as_ok' = (cmd.op = "FactoryReset")
  /\ tx' = tx \o Encode(cmd)
  /\ state' = SendingTx
  /\ pending_kind' = KindOf(cmd)
  /\ ret' = RetBytes("Submitted", Encode(cmd))
  /\ UNCHANGED <<rx, tx_in_flight>>

Submit(cmd) ==
  /\ Returned
  /\ SubmitBusy(cmd) \/ SubmitTxOverflow(cmd) \/ SubmitAccepted(cmd)

-----------------------------------------------------------------------------
(* push_rx: on overflow what fits is kept                                  *)

PushRx(bytes) ==
  /\ Returned
  /\ LET room == RX_BUF - Len(rx) IN
       \/ /\ Len(bytes) <= room
          /\ rx' = rx \o bytes
          /\ ret' = Ret("Pushed")
       \/ /\ Len(bytes) > room
          /\ rx' = rx \o SubSeq(bytes, 1, room)
          /\ ret' = Ret("RxOverflow")
  /\ UNCHANGED <<tx, tx_in_flight, state, awaiting_ready_as_ok, pending_kind>>

-----------------------------------------------------------------------------
(* ack_tx: the acknowledged count is clamped to what was handed out        *)

\* Mistake: the count is believed.
ClampNothing(n) == n

Clamp(n) == IF n < tx_in_flight THEN n ELSE tx_in_flight

\* Mistake: any acknowledgement while sending counts as the last one.
AckTxAwaitsEarly(n) ==
  /\ Returned
  /\ tx' = SubSeq(tx, Clamp(n) + 1, Len(tx))
  /\ tx_in_flight' = tx_in_flight - Clamp(n)
  /\ IF state = SendingTx /\ pending_kind # None
       THEN state' = Awaiting(pending_kind) /\ pending_kind' = None
       ELSE UNCHANGED <<state, pending_kind>>
  /\ ret' = Ret("Acked")
  /\ UNCHANGED <<rx, awaiting_ready_as_ok>>

AckTx(n) ==
  /\ Returned
  /\ tx' = SubSeq(tx, Clamp(n) + 1, Len(tx))
  /\ tx_in_flight' = tx_in_flight - Clamp(n)
  /\ IF tx' = <<>> /\ state = SendingTx /\ pending_kind # None
       THEN state' = Awaiting(pending_kind) /\ pending_kind' = None
       ELSE UNCHANGED <<state, pending_kind>>
  /\ ret' = Ret("Acked")
  /\ UNCHANGED <<rx, awaiting_ready_as_ok>>

-----------------------------------------------------------------------------
(* poll                                                                    *)

\* next_line_end: the first CR of s is at r and an LF follows it.
LineEnd(s, r) ==
  /\ r \in 1..(Len(s) - 1)
  /\ IsCR(s[r]) /\ IsLF(s[r + 1])
  /\ \A i \in 1..(r - 1) : ~IsCR(s[i])

HasLine(s) == \E r \in 1..Len(s) : LineEnd(s, r)

LineTo(s, r)  == SubSeq(s, 1, r - 1)
Drained(s, r) == SubSeq(s, r + 2, Len(s))

\* Mistake: any value answers any query.
ResponseMatchesAny(kind, line) ==
  \/ StartsWith(line, "+ERR=")
  \/ kind = "Ack" /\ \E key \in {"+OK", "+RESET", "+READY"} : Exactly(line, key)
  \/ kind \in QueryKey /\ \E k \in QueryKey : StartsWith(line, QueryPrefix[k])

ResponseMatches(kind, line) ==
  \/ StartsWith(line, "+ERR=")
  \/ /\ kind = "Ack"
     /\ \E key \in {"+OK", "+RESET", "+READY"} : Exactly(line, key)
  \/ kind \in QueryKey /\ StartsWith(line, QueryPrefix[kind])

MatchesSlot(line) == state.tag = "Awaiting" /\ ResponseMatches(state.kind, line)

IsEventLine(line) == StartsWith(line, "+RCV") \/ StartsWith(line, "+READY")

IsResetEcho(line) == awaiting_ready_as_ok /\ StartsWith(line, "+RESET")

\* Mistake: all of tx is handed out, also what is in flight.
PollNeedTxAgain ==
  /\ tx_in_flight < Len(tx)
  /\ ret' = RetBytes("NeedTx", tx)
  /\ tx_in_flight' = Len(tx)
  /\ UNCHANGED <<rx, tx, state, awaiting_ready_as_ok, pending_kind>>

PollNeedTx ==
  /\ tx_in_flight < Len(tx)
  /\ ret' = RetBytes("NeedTx", SubSeq(tx, tx_in_flight + 1, Len(tx)))
  /\ tx_in_flight' = Len(tx)
  /\ UNCHANGED <<rx, tx, state, awaiting_ready_as_ok, pending_kind>>

\* No complete line is at the head of rx.
PollNoLine ==
  /\ ~HasLine(rx)
  /\ ret' = Ret("Idle")
  /\ UNCHANGED <<rx, tx, tx_in_flight, state, awaiting_ready_as_ok, pending_kind>>

\* The line is longer than line_buf: the slice index panics.
PollPanic(r) ==
  /\ r - 1 > LINE_BUF
  /\ ret' = Ret("Panic")
  /\ UNCHANGED <<rx, tx, tx_in_flight, state, awaiting_ready_as_ok, pending_kind>>

\* Mistake: poll() calls itself without draining the line.
PollResetEchoKept(r) ==
  /\ r - 1 <= LINE_BUF
  /\ IsResetEcho(LineTo(rx, r))
  /\ ret' = Ret("Repoll")
  /\ UNCHANGED <<rx, tx, tx_in_flight, state, awaiting_ready_as_ok, pending_kind>>

\* +RESET while a factory reset is in flight: drained, and poll() calls itself.
PollResetEcho(r) ==
  /\ r - 1 <= LINE_BUF
  /\ IsResetEcho(LineTo(rx, r))
  /\ rx' = Drained(rx, r)
  /\ ret' = Ret("Repoll")
  /\ UNCHANGED <<tx, tx_in_flight, state, awaiting_ready_as_ok, pending_kind>>

\* +READY while a factory reset is in flight: Response::Ok.
PollReadyAsOk(r) ==
  /\ r - 1 <= LINE_BUF
  /\ awaiting_ready_as_ok /\ Exactly(LineTo(rx, r), "+READY")
  /\ rx' = Drained(rx, r)
  /\ awaiting_ready_as_ok' = FALSE
  /\ state' = Idle
  /\ ret' = RetLine("Response", LineTo(rx, r))
  /\ UNCHANGED <<tx, tx_in_flight, pending_kind>>

\* Any other unsolicited line is drained; one that does not parse returns Idle.
PollEvent(r) ==
  LET line == LineTo(rx, r) IN
  /\ r - 1 <= LINE_BUF
  /\ IsEventLine(line)
  /\ ~(awaiting_ready_as_ok /\ Exactly(line, "+READY"))
  /\ rx' = Drained(rx, r)
  /\ ret' = IF ParsesAsEvent(line) THEN RetLine("Event", line) ELSE Ret("Idle")
  /\ UNCHANGED <<tx, tx_in_flight, state, awaiting_ready_as_ok, pending_kind>>

\* Mistake: the flag of a factory reset outlives an error reply.
PollResponseKeepsFlag(r) ==
  LET line == LineTo(rx, r) IN
  /\ r - 1 <= LINE_BUF
  /\ ~IsResetEcho(line) /\ ~IsEventLine(line) /\ MatchesSlot(line)
  /\ rx' = Drained(rx, r)
  /\ state' = Idle
  /\ ret' = IF ParsesAsResponse(line) THEN RetLine("Response", line) ELSE Ret("Idle")
  /\ UNCHANGED <<tx, tx_in_flight, awaiting_ready_as_ok, pending_kind>>

\* A line that matches the slot frees it, whether or not it parses.
PollResponse(r) ==
  LET line == LineTo(rx, r) IN
  /\ r - 1 <= LINE_BUF
  /\ ~IsResetEcho(line) /\ ~IsEventLine(line) /\ MatchesSlot(line)
  /\ rx' = Drained(rx, r)
  /\ awaiting_ready_as_ok' = FALSE
  /\ state' = Idle
  /\ ret' = IF ParsesAsResponse(line) THEN RetLine("Response", line) ELSE Ret("Idle")
  /\ UNCHANGED <<tx, tx_in_flight, pending_kind>>

\* A line that is none of these stays at the head of rx.
PollLeave(r) ==
  LET line == LineTo(rx, r) IN
  /\ r - 1 <= LINE_BUF
  /\ ~IsResetEcho(line) /\ ~IsEventLine(line) /\ ~MatchesSlot(line)
  /\ ret' = Ret("Idle")
  /\ UNCHANGED <<rx, tx, tx_in_flight, state, awaiting_ready_as_ok, pending_kind>>

PollRx ==
  /\ tx_in_flight >= Len(tx)
  /\ \/ PollNoLine
     \/ \E r \in 1..Len(rx) :
          /\ LineEnd(rx, r)
          /\ \/ PollPanic(r) \/ PollResetEcho(r) \/ PollReadyAsOk(r)
             \/ PollEvent(r) \/ PollResponse(r) \/ PollLeave(r)

Poll ==
  /\ ret.tag # "Panic"
  /\ PollNeedTx \/ PollRx

-----------------------------------------------------------------------------
Next ==
  \/ \E cmd \in Commands : Submit(cmd)
  \/ \E bytes \in Inputs : PushRx(bytes)
  \/ \E n \in 0..TX_BUF : AckTx(n)
  \/ Poll

Spec == Init /\ [][Next]_vars

-----------------------------------------------------------------------------
(* What holds for every caller                                             *)

\* The buffers never exceed their capacity and never more is in flight than
\* tx holds; a command being sent knows what it will await; a command awaits
\* its reply only when all of it, and all sent before it, was acknowledged.
\* (driver.rs: submit, push_rx and ack_tx, in any order of calls.)
SlotInv ==
  /\ Len(rx) <= RX_BUF
  /\ Len(tx) <= TX_BUF
  /\ tx_in_flight <= Len(tx)
  /\ state = SendingTx => tx # <<>> /\ pending_kind # None
  /\ state.tag = "Awaiting" => tx = <<>> /\ pending_kind = None

\* Calling poll() until it returns Idle terminates: every other return (and
\* poll()'s call of itself) hands out bytes or consumes received ones.
\* (driver.rs: the loop the comment of poll() asks callers to write.)
Remaining == Len(tx) - tx_in_flight + Len(rx)

DrainTerminates ==
  [][Poll => \/ ret'.tag \in {"Idle", "Panic"}
             \/ Remaining' >= 0 /\ Remaining' < Remaining]_vars
=============================================================================
