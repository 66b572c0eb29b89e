----------------------------- MODULE DriverTrace -----------------------------
(***************************************************************************)
(* The driver with a history of its transmit side: what was accepted       *)
(* against what was handed out.                                            *)
(***************************************************************************)
EXTENDS Driver

CONSTANT MaxUnits   \* bound on the units a behaviour submits

VARIABLES
  submitted,  \* the encodings of all accepted commands, in order
  handed      \* everything poll() handed out through NeedTx, in order

tvars == <<vars, submitted, handed>>

TraceInit == Init /\ submitted = <<>> /\ handed = <<>>

TraceNext ==
  /\ Next
  /\ submitted' = IF ret'.tag = "Submitted" THEN submitted \o ret'.bytes ELSE submitted
  /\ handed' = IF ret'.tag = "NeedTx" THEN handed \o ret'.bytes ELSE handed
  /\ Len(submitted') <= MaxUnits

TraceSpec == TraceInit /\ [][TraceNext]_tvars

-----------------------------------------------------------------------------
\* Whatever the caller acknowledges and whenever, poll() hands out the bytes
\* of every accepted command exactly once and in the order of acceptance: what
\* was handed out, then what tx still holds back, is all that was submitted.
\* (driver.rs: the tx / tx_in_flight bookkeeping of submit, ack_tx and poll.)
WireInv == submitted = handed \o SubSeq(tx, tx_in_flight + 1, Len(tx))
=============================================================================
