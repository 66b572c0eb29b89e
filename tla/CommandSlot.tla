----------------------------- MODULE CommandSlot -----------------------------
(***************************************************************************)
(* What the driver promises its caller about commands: there is one slot.  *)
(* A command is accepted into a free slot with the kind of reply it waits  *)
(* for, is sent as a whole, and is then resolved once, by a reply of that  *)
(* kind or an error - or by nothing, when the reply could not be parsed.   *)
(* A factory reset is also resolved by the radio's coming up again.  A     *)
(* free slot is never resolved.                                            *)
(***************************************************************************)
CONSTANTS Kinds, NoKind

VARIABLES
  phase,  \* "Idle", "SendingTx" or "Awaiting"
  kind,   \* the kind of reply the accepted command waits for
  reset,  \* the accepted command is a factory reset
  reply   \* the class of the reply the last step delivered, or "none"

slotVars == <<phase, kind, reset, reply>>

\* The classes of replies that may resolve a command waiting for k.
Answers(k) == {k, "Error", "none"}

Init == phase = "Idle" /\ kind = NoKind /\ reset = FALSE /\ reply = "none"

Accept(k, r) ==
  /\ phase = "Idle"
  /\ phase' = "SendingTx" /\ kind' = k /\ reset' = r /\ reply' = "none"

Sent ==
  /\ phase = "SendingTx"
  /\ phase' = "Awaiting"
  /\ reply' = "none"
  /\ UNCHANGED <<kind, reset>>

Free(c) == phase' = "Idle" /\ kind' = NoKind /\ reset' = FALSE /\ reply' = c

Resolve ==
  /\ phase = "Awaiting"
  /\ \E c \in Answers(kind) : Free(c)

ResetDone ==
  /\ phase = "Awaiting" /\ reset
  /\ Free("Ack")

\* Whatever else the driver does is of no consequence to the slot.
Quiet == reply' = "none" /\ UNCHANGED <<phase, kind, reset>>

Next ==
  \/ \E k \in Kinds, r \in BOOLEAN : Accept(k, r)
  \/ Sent \/ Resolve \/ ResetDone \/ Quiet

Spec == Init /\ [][Next]_slotVars
=============================================================================
