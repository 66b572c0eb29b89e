----------------------------- MODULE DriverLoop -----------------------------
(***************************************************************************)
(* The driver under the caller its documentation asks for: every NeedTx is *)
(* written and acknowledged as a whole before the next call.  Under that   *)
(* caller the driver implements CommandSlot.                               *)
(***************************************************************************)
EXTENDS Driver

ASSUME ResetFits ==
  \A cmd \in Commands : cmd.op = "FactoryReset" => EncodedLen[cmd] <= TX_BUF

\* The caller's only obligation, from driver.rs on ack_tx: "Call this after
\* every successful write".
WrittenThenAcked == ret.tag = "NeedTx" => AckTx(Len(ret.bytes))

LoopNext == Next /\ WrittenThenAcked

LoopSpec == Init /\ [][LoopNext]_vars

\* tx is only ever empty, wholly unsent or wholly in flight.
LoopInv ==
  /\ state = Idle => tx = <<>> /\ pending_kind = None
  /\ ret.tag = "NeedTx" => ret.bytes = tx /\ tx_in_flight = Len(tx)
  /\ state = SendingTx /\ ret.tag # "NeedTx" => tx_in_flight = 0
  /\ awaiting_ready_as_ok => state # Idle

-----------------------------------------------------------------------------
(* The slot, read off the driver's fields                                  *)

ReplyClass(line) ==
  IF line[1].key \in {"+OK", "+READY"} THEN "Ack"
  ELSE IF line[1].key = "+ERR=" THEN "Error"
  ELSE CHOOSE k \in QueryKey : QueryPrefix[k] = line[1].key

OneSlot == INSTANCE CommandSlot WITH
  Kinds  <- AwaitKind,
  NoKind <- None,
  phase  <- state.tag,
  kind   <- IF state = SendingTx THEN pending_kind ELSE state.kind,
  reset  <- awaiting_ready_as_ok,
  reply  <- IF ret.tag = "Response" THEN ReplyClass(ret.line) ELSE "none"

\* The driver keeps CommandSlot's promise: at most one command in flight, its
\* reply only after all of it is written, of the kind it asked for, at most one
\* reply, and no reply without a command.  (driver.rs: submit, ack_tx, poll.)
SlotSpec == OneSlot!Spec

=============================================================================
