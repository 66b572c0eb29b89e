---------------------------- MODULE DriverProofs ----------------------------
(***************************************************************************)
(* The properties of the driver, for every value of its constants: its own *)
(* (Driver), and those it has under its two callers.  Under one that       *)
(* acknowledges any count, no byte of an accepted command is lost,         *)
(* repeated or reordered on its way to the wire (DriverTrace).  Under one  *)
(* that acknowledges what it writes, the driver implements CommandSlot     *)
(* (DriverLoop).                                                           *)
(***************************************************************************)
EXTENDS DriverTrace, DriverLoop, SequenceTheorems, TLAPS

-----------------------------------------------------------------------------
(* Facts about commands, lines and buffers                                 *)

\* The kind a command awaits is one of the kinds, never None.
LEMMA KindOfType ==
  ASSUME NEW cmd \in Commands
  PROVE  KindOf(cmd) \in AwaitKind /\ KindOf(cmd) # None
PROOF
  <1>1. cmd.op \in Queries \cup AckCommands
    BY CommandAssumption DEF Command
  <1>2. CASE cmd.op \in Queries
    BY <1>2 DEF KindOf, Queries, QueryOf, AwaitKind, QueryKey, QueryPrefix, None
  <1>3. CASE cmd.op \notin Queries
    BY <1>3 DEF KindOf, AwaitKind, None
  <1> QED BY <1>2, <1>3

\* An encoded command is a nonempty sequence of its units.
LEMMA EncodeType ==
  ASSUME NEW cmd \in Commands
  PROVE  /\ Encode(cmd) \in Seq(Commands)
         /\ Len(Encode(cmd)) = EncodedLen[cmd]
         /\ EncodedLen[cmd] \in Nat \ {0}
PROOF
  <1>1. EncodedLen[cmd] \in Nat \ {0}
    BY CommandAssumption
  <1> QED BY <1>1 DEF Encode

\* A part of a buffer has the type of the buffer, and its length.
LEMMA PartOfSeq ==
  ASSUME NEW S, NEW s \in Seq(S), NEW m \in Nat \ {0}, NEW n \in Nat, n <= Len(s)
  PROVE  /\ SubSeq(s, m, n) \in Seq(S)
         /\ Len(SubSeq(s, m, n)) = IF m <= n THEN n - m + 1 ELSE 0
         /\ \A i \in 1..(n - m + 1) : SubSeq(s, m, n)[i] = s[m + i - 1]
PROOF
  <1>1. \A i \in m..n : s[i] \in S
    BY ElementOfSeq, LenProperties
  <1> QED BY <1>1, SubSeqProperties

\* The line before a line end, and the buffer after it, are token sequences;
\* draining takes at least the two tokens of the line end.
LEMMA LineParts ==
  ASSUME NEW s \in Seq(Token), NEW r \in 1..Len(s), LineEnd(s, r)
  PROVE  /\ LineTo(s, r) \in Seq(Token)
         /\ Drained(s, r) \in Seq(Token)
         /\ Len(Drained(s, r)) \in Nat
         /\ Len(Drained(s, r)) <= Len(s) - 2
PROOF
  <1>1. Len(s) \in Nat /\ r \in Nat \ {0} /\ r + 1 <= Len(s)
    BY LenProperties DEF LineEnd
  <1>2. LineTo(s, r) \in Seq(Token)
    <2>1. CASE r = 1
      BY <1>1, <2>1, SubSeqEmpty, EmptySeq DEF LineTo
    <2>2. CASE r # 1
      BY <1>1, <2>2, PartOfSeq DEF LineTo
    <2> QED BY <2>1, <2>2
  <1>3. Drained(s, r) \in Seq(Token) /\ Len(Drained(s, r)) = Len(s) - (r + 1)
    BY <1>1, PartOfSeq DEF Drained
  <1> QED BY <1>1, <1>2, <1>3

-----------------------------------------------------------------------------
(* Type correctness                                                        *)

\* What a method returns is of the type of ret.
LEMMA RetType ==
  ASSUME NEW tag \in RetTags, NEW b \in Seq(Commands), NEW line \in Seq(Token)
  PROVE  /\ Ret(tag) \in [tag : RetTags, bytes : Seq(Commands), line : Seq(Token)]
         /\ RetBytes(tag, b) \in [tag : RetTags, bytes : Seq(Commands), line : Seq(Token)]
         /\ RetLine(tag, line) \in [tag : RetTags, bytes : Seq(Commands), line : Seq(Token)]
PROOF BY EmptySeq DEF Ret, RetBytes, RetLine

\* The type of the variables in the initial state.
LEMMA InitType == Init => TypeOK
PROOF
  <1>1. Ret("New") \in [tag : RetTags, bytes : Seq(Commands), line : Seq(Token)]
    BY RetType, EmptySeq DEF RetTags
  <1>2. <<>> \in Seq(Token) /\ <<>> \in Seq(Commands)
    BY EmptySeq
  <1>3. SUFFICES ASSUME Init PROVE TypeOK
    OBVIOUS
  <1>4. /\ rx \in Seq(Token) /\ tx \in Seq(Commands)
        /\ awaiting_ready_as_ok \in BOOLEAN /\ tx_in_flight \in Nat
    BY <1>2, <1>3 DEF Init
  <1>5. /\ state \in {Idle, SendingTx} \cup {Awaiting(k) : k \in AwaitKind}
        /\ pending_kind \in AwaitKind \cup {None}
    BY <1>3 DEF Init
  <1>6. ret \in [tag : RetTags, bytes : Seq(Commands), line : Seq(Token)]
    BY <1>1, <1>3 DEF Init
  <1> QED BY <1>4, <1>5, <1>6 DEF TypeOK

\* submit() keeps the types.
LEMMA SubmitType ==
  ASSUME TypeOK, NEW cmd \in Commands, Submit(cmd)
  PROVE  TypeOK'
PROOF
  <1>1. CASE SubmitBusy(cmd)
    <2>1. ret' \in [tag : RetTags, bytes : Seq(Commands), line : Seq(Token)]
      BY <1>1, RetType, EmptySeq DEF SubmitBusy, RetTags
    <2> QED BY <1>1, <2>1 DEF SubmitBusy, TypeOK
  <1>2. CASE SubmitTxOverflow(cmd)
    <2>1. ret' \in [tag : RetTags, bytes : Seq(Commands), line : Seq(Token)]
      BY <1>2, RetType, EmptySeq DEF SubmitTxOverflow, RetTags
    <2> QED BY <1>2, <2>1 DEF SubmitTxOverflow, TypeOK
  <1>3. CASE SubmitAccepted(cmd)
    <2>1. ret' \in [tag : RetTags, bytes : Seq(Commands), line : Seq(Token)]
      BY <1>3, RetType, EmptySeq, EncodeType DEF SubmitAccepted, RetTags
    <2>2. tx' \in Seq(Commands)
      BY <1>3, EncodeType, ConcatProperties DEF SubmitAccepted, TypeOK
    <2>3. pending_kind' \in AwaitKind \cup {None}
      BY <1>3, KindOfType DEF SubmitAccepted
    <2> QED BY <1>3, <2>1, <2>2, <2>3 DEF SubmitAccepted, TypeOK
  <1> QED BY <1>1, <1>2, <1>3 DEF Submit

\* push_rx() keeps the types and never fills rx beyond its capacity.
LEMMA PushRxType ==
  ASSUME TypeOK, Len(rx) <= RX_BUF, NEW bytes \in Seq(Token), PushRx(bytes)
  PROVE  TypeOK' /\ Len(rx)' <= RX_BUF
PROOF
  <1>1. bytes \in Seq(Token) /\ rx \in Seq(Token)
    BY DEF TypeOK
  <1>2. RX_BUF - Len(rx) \in Nat /\ Len(bytes) \in Nat /\ RX_BUF \in Nat
    BY <1>1, LenProperties, CapacityAssumption
  <1>3. rx' \in Seq(Token) /\ Len(rx') <= RX_BUF
    <2>1. CASE Len(bytes) <= RX_BUF - Len(rx) /\ rx' = rx \o bytes
      BY <1>1, <1>2, <2>1, LenProperties, ConcatProperties
    <2>2. CASE /\ Len(bytes) > RX_BUF - Len(rx)
               /\ rx' = rx \o SubSeq(bytes, 1, RX_BUF - Len(rx))
      <3>1. /\ SubSeq(bytes, 1, RX_BUF - Len(rx)) \in Seq(Token)
            /\ Len(SubSeq(bytes, 1, RX_BUF - Len(rx))) <= RX_BUF - Len(rx)
        BY <1>1, <1>2, <2>2, PartOfSeq
      <3> QED BY <1>1, <1>2, <2>2, <3>1, LenProperties, ConcatProperties
    <2> QED BY <2>1, <2>2 DEF PushRx
  <1>4. ret' \in [tag : RetTags, bytes : Seq(Commands), line : Seq(Token)]
    <2>1. ret' = Ret("Pushed") \/ ret' = Ret("RxOverflow")
      BY DEF PushRx
    <2>2. "Pushed" \in RetTags /\ "RxOverflow" \in RetTags /\ <<>> \in Seq(Commands)
      BY EmptySeq DEF RetTags
    <2> QED BY <1>1, <2>1, <2>2, RetType
  <1> QED BY <1>3, <1>4 DEF PushRx, TypeOK

\* ack_tx() acknowledges at most what is in flight and what it was told.
LEMMA ClampType ==
  ASSUME tx_in_flight \in Nat, NEW n \in Nat
  PROVE  Clamp(n) \in Nat /\ Clamp(n) <= tx_in_flight /\ Clamp(n) <= n
PROOF BY DEF Clamp

\* What ack_tx leaves of tx, and of the part in flight.
LEMMA AckTxParts ==
  ASSUME TypeOK, tx_in_flight <= Len(tx), NEW n \in Nat, AckTx(n)
  PROVE  /\ tx' \in Seq(Commands) /\ tx_in_flight' \in Nat
         /\ Len(tx') = Len(tx) - Clamp(n)
         /\ tx_in_flight' = tx_in_flight - Clamp(n)
PROOF
  <1>1. tx \in Seq(Commands) /\ Len(tx) \in Nat /\ tx_in_flight \in Nat
    BY LenProperties DEF TypeOK
  <1>2. Clamp(n) \in Nat /\ Clamp(n) <= Len(tx) /\ Clamp(n) <= tx_in_flight
    BY <1>1, ClampType
  <1>3. tx' = SubSeq(tx, Clamp(n) + 1, Len(tx)) /\ tx_in_flight' = tx_in_flight - Clamp(n)
    BY DEF AckTx
  <1>4. tx' \in Seq(Commands) /\ Len(tx') = Len(tx) - Clamp(n)
    BY <1>1, <1>2, <1>3, PartOfSeq
  <1> QED BY <1>1, <1>2, <1>3, <1>4

\* ack_tx() keeps the types.
LEMMA AckTxType ==
  ASSUME TypeOK, tx_in_flight <= Len(tx), NEW n \in Nat, AckTx(n)
  PROVE  TypeOK'
PROOF
  <1>1. tx' \in Seq(Commands) /\ tx_in_flight' \in Nat
    BY AckTxParts
  <1>2. /\ state' \in {Idle, SendingTx} \cup {Awaiting(k) : k \in AwaitKind}
        /\ pending_kind' \in AwaitKind \cup {None}
    BY DEF AckTx, TypeOK
  <1>3. ret' = Ret("Acked") /\ UNCHANGED <<rx, awaiting_ready_as_ok>>
    BY DEF AckTx
  <1>4. ret' \in [tag : RetTags, bytes : Seq(Commands), line : Seq(Token)]
    BY <1>3, RetType, EmptySeq DEF RetTags
  <1> QED BY <1>1, <1>2, <1>3, <1>4 DEF TypeOK

\* Handing out tx keeps the types.
LEMMA PollNeedTxType ==
  ASSUME TypeOK, PollNeedTx
  PROVE  TypeOK' /\ tx_in_flight' = Len(tx)
PROOF
  <1>1. tx \in Seq(Commands) /\ Len(tx) \in Nat /\ tx_in_flight \in Nat
    BY LenProperties DEF TypeOK
  <1>2. SubSeq(tx, tx_in_flight + 1, Len(tx)) \in Seq(Commands)
    BY <1>1, PartOfSeq
  <1>3. ret' \in [tag : RetTags, bytes : Seq(Commands), line : Seq(Token)]
    BY <1>2, RetType, EmptySeq DEF PollNeedTx, RetTags
  <1>4. tx_in_flight' \in Nat /\ tx_in_flight' = Len(tx)
    BY <1>1 DEF PollNeedTx
  <1>5. UNCHANGED <<rx, tx, state, awaiting_ready_as_ok, pending_kind>>
    BY DEF PollNeedTx
  <1> QED BY <1>3, <1>4, <1>5 DEF TypeOK

\* What every branch of poll() that looks at rx does: tx is left alone, rx keeps
\* its content or loses its first line, the slot keeps its content or is freed.
LEMMA PollRxEffect ==
  ASSUME TypeOK, PollRx
  PROVE  /\ UNCHANGED <<tx, tx_in_flight, pending_kind>>
         /\ rx' = rx \/ \E r \in 1..Len(rx) : LineEnd(rx, r) /\ rx' = Drained(rx, r)
         /\ \/ UNCHANGED <<state, awaiting_ready_as_ok>>
            \/ state' = Idle /\ awaiting_ready_as_ok' = FALSE
         /\ rx' = rx => ret' \in {Ret("Idle"), Ret("Panic")}
PROOF
  <1>1. CASE PollNoLine
    BY <1>1 DEF PollNoLine
  <1>2. ASSUME NEW r \in 1..Len(rx), LineEnd(rx, r),
               \/ PollPanic(r) \/ PollResetEcho(r) \/ PollReadyAsOk(r)
               \/ PollEvent(r) \/ PollResponse(r) \/ PollLeave(r)
        PROVE  /\ UNCHANGED <<tx, tx_in_flight, pending_kind>>
               /\ rx' = rx \/ rx' = Drained(rx, r)
               /\ \/ UNCHANGED <<state, awaiting_ready_as_ok>>
                  \/ state' = Idle /\ awaiting_ready_as_ok' = FALSE
               /\ rx' = rx => ret' \in {Ret("Idle"), Ret("Panic")}
    <2>1. Drained(rx, r) # rx
      <3>1. rx \in Seq(Token)
        BY DEF TypeOK
      <3> QED BY <1>2, <3>1, LineParts, LenProperties
    <2> QED BY <1>2, <2>1 DEF PollPanic, PollResetEcho, PollReadyAsOk, PollEvent,
                              PollResponse, PollLeave
  <1> QED BY <1>1, <1>2 DEF PollRx

\* The kinds of return of a call of poll() that looks at rx.
LEMMA PollRxTag ==
  ASSUME PollRx
  PROVE  ret'.tag \in {"Idle", "Panic", "Repoll", "Event", "Response"}
PROOF
  <1>1. CASE PollNoLine
    BY <1>1 DEF PollNoLine, Ret
  <1>2. ASSUME NEW r \in 1..Len(rx), LineEnd(rx, r),
               \/ PollPanic(r) \/ PollResetEcho(r) \/ PollReadyAsOk(r)
               \/ PollEvent(r) \/ PollResponse(r) \/ PollLeave(r)
        PROVE  ret'.tag \in {"Idle", "Panic", "Repoll", "Event", "Response"}
    BY <1>2 DEF PollPanic, PollResetEcho, PollReadyAsOk, PollEvent, PollResponse,
                PollLeave, Ret, RetLine
  <1> QED BY <1>1, <1>2 DEF PollRx

\* What poll() returns when it looks at rx.
LEMMA PollRxRetType ==
  ASSUME TypeOK, PollRx
  PROVE  ret' \in [tag : RetTags, bytes : Seq(Commands), line : Seq(Token)]
PROOF
  <1>1. \A tag \in {"Idle", "Panic", "Repoll"} :
          Ret(tag) \in [tag : RetTags, bytes : Seq(Commands), line : Seq(Token)]
    <2>1. TAKE tag \in {"Idle", "Panic", "Repoll"}
    <2>2. tag \in RetTags
      BY DEF RetTags
    <2> QED BY <2>2, RetType, EmptySeq
  <1>2. CASE PollNoLine
    BY <1>1, <1>2 DEF PollNoLine
  <1>3. ASSUME NEW r \in 1..Len(rx), LineEnd(rx, r),
               \/ PollPanic(r) \/ PollResetEcho(r) \/ PollReadyAsOk(r)
               \/ PollEvent(r) \/ PollResponse(r) \/ PollLeave(r)
        PROVE  ret' \in [tag : RetTags, bytes : Seq(Commands), line : Seq(Token)]
    <2>1. rx \in Seq(Token)
      BY DEF TypeOK
    <2>2. LineTo(rx, r) \in Seq(Token)
      BY <1>3, <2>1, LineParts
    <2>3. \A tag \in {"Response", "Event"} : RetLine(tag, LineTo(rx, r))
             \in [tag : RetTags, bytes : Seq(Commands), line : Seq(Token)]
      <3>1. TAKE tag \in {"Response", "Event"}
      <3>2. tag \in RetTags
        BY DEF RetTags
      <3> QED BY <2>2, <3>2, RetType, EmptySeq
    <2> QED BY <1>1, <1>3, <2>3 DEF PollPanic, PollResetEcho, PollReadyAsOk,
                                    PollEvent, PollResponse, PollLeave
  <1> QED BY <1>2, <1>3 DEF PollRx

\* Looking at rx keeps the types and never lengthens rx.
LEMMA PollRxType ==
  ASSUME TypeOK, PollRx
  PROVE  TypeOK' /\ Len(rx') \in Nat /\ Len(rx') <= Len(rx)
PROOF
  <1>1. rx \in Seq(Token) /\ Len(rx) \in Nat
    BY LenProperties DEF TypeOK
  <1>2. rx' \in Seq(Token) /\ Len(rx') \in Nat /\ Len(rx') <= Len(rx)
    <2>1. CASE rx' = rx
      BY <1>1, <2>1
    <2>2. ASSUME NEW r \in 1..Len(rx), LineEnd(rx, r), rx' = Drained(rx, r)
          PROVE  rx' \in Seq(Token) /\ Len(rx') \in Nat /\ Len(rx') <= Len(rx)
      BY <1>1, <2>2, LineParts
    <2> QED BY <2>1, <2>2, PollRxEffect
  <1>3. /\ state' \in {Idle, SendingTx} \cup {Awaiting(k) : k \in AwaitKind}
        /\ awaiting_ready_as_ok' \in BOOLEAN
    BY PollRxEffect DEF TypeOK
  <1>4. tx' \in Seq(Commands) /\ tx_in_flight' \in Nat /\ pending_kind' \in AwaitKind \cup {None}
    BY PollRxEffect DEF TypeOK
  <1>5. ret' \in [tag : RetTags, bytes : Seq(Commands), line : Seq(Token)]
    BY PollRxRetType
  <1> QED BY <1>2, <1>3, <1>4, <1>5 DEF TypeOK

-----------------------------------------------------------------------------
(* The inductive invariant: the types and SlotInv                          *)

\* The states of the slot are told apart by their tag.
LEMMA StatesDiffer ==
  /\ Idle # SendingTx /\ Idle.tag # "Awaiting" /\ SendingTx.tag # "Awaiting"
  /\ \A k : /\ Awaiting(k) # Idle /\ Awaiting(k) # SendingTx
            /\ Awaiting(k).tag = "Awaiting" /\ Awaiting(k).kind = k
PROOF BY DEF Idle, SendingTx, Awaiting

\* SlotInv is inductive once the types are known.
IndInv == TypeOK /\ SlotInv

\* A new driver satisfies the invariant.
LEMMA InitInd == Init => IndInv
PROOF
  <1>1. SUFFICES ASSUME Init PROVE SlotInv
    BY InitType DEF IndInv
  <1>2. rx = <<>> /\ tx = <<>> /\ tx_in_flight = 0 /\ state = Idle
    BY <1>1 DEF Init
  <1>3. Len(rx) <= RX_BUF /\ Len(tx) <= TX_BUF /\ tx_in_flight <= Len(tx)
    BY <1>2, CapacityAssumption
  <1> QED BY <1>2, <1>3, StatesDiffer DEF SlotInv

\* submit() preserves SlotInv.
LEMMA SubmitSlot ==
  ASSUME IndInv, NEW cmd \in Commands, Submit(cmd)
  PROVE  SlotInv'
PROOF
  <1>1. CASE SubmitBusy(cmd) \/ SubmitTxOverflow(cmd)
    BY <1>1 DEF SubmitBusy, SubmitTxOverflow, IndInv, SlotInv
  <1>2. CASE SubmitAccepted(cmd)
    <2>1. tx \in Seq(Commands) /\ Len(tx) \in Nat /\ tx_in_flight \in Nat /\ TX_BUF \in Nat
      BY LenProperties, CapacityAssumption DEF IndInv, TypeOK
    <2>2. Len(tx') = Len(tx) + EncodedLen[cmd] /\ EncodedLen[cmd] \in Nat \ {0}
      <3>1. tx' = tx \o Encode(cmd)
        BY <1>2 DEF SubmitAccepted
      <3>2. /\ Encode(cmd) \in Seq(Commands) /\ Len(Encode(cmd)) = EncodedLen[cmd]
            /\ EncodedLen[cmd] \in Nat \ {0}
        BY EncodeType
      <3>3. Len(tx \o Encode(cmd)) = Len(tx) + Len(Encode(cmd))
        BY <2>1, <3>2, ConcatProperties
      <3> QED BY <3>1, <3>2, <3>3
    <2>3. tx_in_flight' = tx_in_flight /\ tx_in_flight <= Len(tx)
      BY <1>2 DEF SubmitAccepted, IndInv, SlotInv
    <2>4. tx_in_flight' <= Len(tx') /\ Len(tx') <= TX_BUF /\ tx' # <<>>
      BY <1>2, <2>1, <2>2, <2>3, EmptySeq DEF SubmitAccepted
    <2>5. state' = SendingTx /\ pending_kind' # None
      BY <1>2, KindOfType DEF SubmitAccepted
    <2>6. Len(rx') <= RX_BUF
      BY <1>2 DEF SubmitAccepted, IndInv, SlotInv
    <2> QED BY <2>4, <2>5, <2>6, StatesDiffer DEF SlotInv
  <1> QED BY <1>1, <1>2 DEF Submit

\* push_rx() preserves SlotInv.
LEMMA PushRxSlot ==
  ASSUME IndInv, NEW bytes \in Seq(Token), PushRx(bytes)
  PROVE  SlotInv'
PROOF
  <1>1. Len(rx') <= RX_BUF
    BY PushRxType DEF IndInv, SlotInv
  <1>2. UNCHANGED <<tx, tx_in_flight, state, pending_kind>>
    BY DEF PushRx
  <1> QED BY <1>1, <1>2 DEF IndInv, SlotInv

\* ack_tx() preserves SlotInv.
LEMMA AckTxSlot ==
  ASSUME IndInv, NEW n \in Nat, AckTx(n)
  PROVE  SlotInv'
PROOF
  <1> DEFINE done == tx' = <<>> /\ state = SendingTx /\ pending_kind # None
  <1>1. /\ tx \in Seq(Commands) /\ Len(tx) \in Nat /\ tx_in_flight \in Nat
        /\ tx_in_flight <= Len(tx) /\ Len(tx) <= TX_BUF /\ TX_BUF \in Nat
    BY LenProperties, CapacityAssumption DEF IndInv, TypeOK, SlotInv
  <1>2. Clamp(n) \in Nat /\ Clamp(n) <= tx_in_flight
    BY <1>1, ClampType
  <1>3. Len(tx') = Len(tx) - Clamp(n) /\ tx_in_flight' = tx_in_flight - Clamp(n)
    BY <1>1, AckTxParts DEF IndInv
  <1>4. tx_in_flight' <= Len(tx') /\ Len(tx') <= TX_BUF
    BY <1>1, <1>2, <1>3
  <1>5. Len(rx') <= RX_BUF
    BY DEF AckTx, IndInv, SlotInv
  <1>6. CASE done
    <2>1. state' = Awaiting(pending_kind) /\ pending_kind' = None /\ tx' = <<>>
      BY <1>6 DEF AckTx
    <2> QED BY <1>4, <1>5, <2>1, StatesDiffer DEF SlotInv
  <1>7. CASE ~done
    <2>1. UNCHANGED <<state, pending_kind>>
      BY <1>7 DEF AckTx
    <2>2. state = SendingTx => tx' # <<>> /\ pending_kind # None
      BY <1>7 DEF IndInv, SlotInv
    <2>3. ASSUME state.tag = "Awaiting" PROVE tx' = <<>> /\ pending_kind = None
      <3>1. tx = <<>> /\ pending_kind = None
        BY <2>3 DEF IndInv, SlotInv
      <3>2. Len(tx) = 0
        BY <3>1
      <3>3. tx' = SubSeq(tx, Clamp(n) + 1, Len(tx))
        BY DEF AckTx
      <3> QED BY <1>2, <3>1, <3>2, <3>3, SubSeqEmpty
    <2> QED BY <1>4, <1>5, <2>1, <2>2, <2>3 DEF SlotInv
  <1> QED BY <1>6, <1>7

\* poll() preserves SlotInv.
LEMMA PollSlot ==
  ASSUME IndInv, Poll
  PROVE  SlotInv'
PROOF
  <1>1. CASE PollNeedTx
    <2>1. tx_in_flight' = Len(tx) /\ Len(tx) \in Nat
      BY <1>1, PollNeedTxType, LenProperties DEF IndInv, TypeOK
    <2>2. UNCHANGED <<rx, tx, state, pending_kind>>
      BY <1>1 DEF PollNeedTx
    <2> QED BY <2>1, <2>2 DEF IndInv, SlotInv
  <1>2. CASE PollRx
    <2>1. UNCHANGED <<tx, tx_in_flight, pending_kind>>
      BY <1>2, PollRxEffect DEF IndInv
    <2>2. state' = state \/ state' = Idle
      BY <1>2, PollRxEffect DEF IndInv
    <2>3. Len(rx') <= RX_BUF
      <3>1. Len(rx') <= Len(rx) /\ Len(rx') \in Nat
        BY <1>2, PollRxType DEF IndInv
      <3>2. Len(rx) \in Nat /\ Len(rx) <= RX_BUF /\ RX_BUF \in Nat
        BY LenProperties, CapacityAssumption DEF IndInv, TypeOK, SlotInv
      <3> QED BY <3>1, <3>2
    <2> QED BY <2>1, <2>2, <2>3, StatesDiffer DEF IndInv, SlotInv
  <1> QED BY <1>1, <1>2 DEF Poll

\* Every call of the driver preserves the invariant, whatever its arguments.
LEMMA CallInd ==
  ASSUME IndInv,
         \/ \E cmd \in Commands : Submit(cmd)
         \/ \E bytes \in Seq(Token) : PushRx(bytes)
         \/ \E n \in Nat : AckTx(n)
         \/ Poll
         \/ UNCHANGED vars
  PROVE  IndInv'
PROOF
  <1>1. TypeOK /\ Len(rx) <= RX_BUF /\ tx_in_flight <= Len(tx)
    BY DEF IndInv, SlotInv
  <1>2. ASSUME NEW cmd \in Commands, Submit(cmd) PROVE IndInv'
    BY <1>1, <1>2, SubmitType, SubmitSlot DEF IndInv
  <1>3. ASSUME NEW bytes \in Seq(Token), PushRx(bytes) PROVE IndInv'
    BY <1>1, <1>3, PushRxType, PushRxSlot DEF IndInv
  <1>4. ASSUME NEW n \in Nat, AckTx(n) PROVE IndInv'
    BY <1>1, <1>4, AckTxType, AckTxSlot DEF IndInv
  <1>5. CASE Poll
    <2>1. TypeOK'
      BY <1>1, <1>5, PollNeedTxType, PollRxType DEF Poll
    <2> QED BY <1>5, <2>1, PollSlot DEF IndInv
  <1>6. CASE UNCHANGED vars
    BY <1>6 DEF IndInv, TypeOK, SlotInv, vars
  <1> QED BY <1>2, <1>3, <1>4, <1>5, <1>6

\* So does every step of the arbitrary caller.
LEMMA NextInd == IndInv /\ [Next]_vars => IndInv'
PROOF
  <1>1. SUFFICES ASSUME IndInv, [Next]_vars PROVE IndInv'
    OBVIOUS
  <1>2. Inputs \subseteq Seq(Token) /\ 0..TX_BUF \subseteq Nat
    BY InputAssumption, CapacityAssumption
  <1>3. \/ \E cmd \in Commands : Submit(cmd)
        \/ \E bytes \in Seq(Token) : PushRx(bytes)
        \/ \E n \in Nat : AckTx(n)
        \/ Poll
        \/ UNCHANGED vars
    BY <1>1, <1>2 DEF Next
  <1> QED BY <1>1, <1>3, CallInd

\* Whatever its caller does, the driver's fields keep their types and agree with
\* each other.  (driver.rs: submit, push_rx, ack_tx and poll in any order.)
THEOREM DriverInvariant == Spec => [](TypeOK /\ SlotInv)
PROOF
  <1>1. IndInv => TypeOK /\ SlotInv
    BY DEF IndInv
  <1> QED BY <1>1, InitInd, NextInd, PTL DEF Spec

\* In particular each field of the driver keeps its type. (driver.rs: Driver.)
THEOREM DriverTypeCorrect == Spec => []TypeOK
PROOF BY DriverInvariant, PTL

-----------------------------------------------------------------------------
(* The drain loop terminates                                               *)

\* A call of poll() that returns neither Idle nor panics uses up what is left.
LEMMA PollProgress ==
  ASSUME IndInv, Poll, ret'.tag \notin {"Idle", "Panic"}
  PROVE  Remaining' >= 0 /\ Remaining' < Remaining
PROOF
  <1>1. /\ rx \in Seq(Token) /\ Len(rx) \in Nat
        /\ tx \in Seq(Commands) /\ Len(tx) \in Nat
        /\ tx_in_flight \in Nat /\ tx_in_flight <= Len(tx)
    BY LenProperties DEF IndInv, TypeOK, SlotInv
  <1>2. CASE PollNeedTx
    <2>1. tx_in_flight < Len(tx) /\ tx_in_flight' = Len(tx) /\ UNCHANGED <<rx, tx>>
      BY <1>2, PollNeedTxType DEF PollNeedTx, IndInv
    <2> QED BY <1>1, <2>1 DEF Remaining
  <1>3. CASE PollRx
    <2>1. rx' # rx
      BY <1>3, PollRxEffect DEF IndInv, Ret
    <2>2. PICK r \in 1..Len(rx) : LineEnd(rx, r) /\ rx' = Drained(rx, r)
      BY <1>3, <2>1, PollRxEffect DEF IndInv
    <2>3. Len(rx') \in Nat /\ Len(rx') <= Len(rx) - 2
      BY <1>1, <2>2, LineParts
    <2>4. UNCHANGED <<tx, tx_in_flight>>
      BY <1>3, PollRxEffect DEF IndInv
    <2> QED BY <1>1, <2>3, <2>4 DEF Remaining
  <1> QED BY <1>2, <1>3 DEF Poll

\* The loop callers are asked to write comes to an end: between two returns of
\* Idle poll() is called at most as often as there are bytes. (driver.rs: poll.)
THEOREM DrainLoopTerminates == Spec => DrainTerminates
PROOF
  <1>1. IndInv /\ [Next]_vars =>
          [Poll => \/ ret'.tag \in {"Idle", "Panic"}
                   \/ Remaining' >= 0 /\ Remaining' < Remaining]_vars
    <2>1. SUFFICES ASSUME IndInv, Poll, ret'.tag \notin {"Idle", "Panic"}
                   PROVE  Remaining' >= 0 /\ Remaining' < Remaining
      OBVIOUS
    <2> QED BY <2>1, PollProgress
  <1> QED BY <1>1, InitInd, NextInd, PTL DEF Spec, DrainTerminates
-----------------------------------------------------------------------------
(* Facts about the part of a queue behind its first f elements             *)

\* Its type, its length and its elements.
LEMMA RestParts ==
  ASSUME NEW S, NEW s \in Seq(S), NEW f \in Nat, f <= Len(s)
  PROVE  /\ SubSeq(s, f + 1, Len(s)) \in Seq(S)
         /\ Len(SubSeq(s, f + 1, Len(s))) = Len(s) - f
         /\ \A i \in 1..(Len(s) - f) : SubSeq(s, f + 1, Len(s))[i] = s[f + i]
PROOF
  <1> DEFINE n == Len(s)
  <1>1. /\ n \in Nat /\ f <= n /\ f + 1 \in Nat \ {0} /\ n - (f + 1) + 1 = n - f
        /\ \A i \in Int : f + 1 + i - 1 = f + i
    BY LenProperties
  <1> SUFFICES /\ SubSeq(s, f + 1, n) \in Seq(S)
               /\ Len(SubSeq(s, f + 1, n)) = n - f
               /\ \A i \in 1..(n - f) : SubSeq(s, f + 1, n)[i] = s[f + i]
    OBVIOUS
  <1>2. n <= Len(s)
    BY <1>1
  <1> DEFINE m == f + 1
  <1>3. m \in Nat \ {0}
    BY <1>1
  <1> HIDE DEF n, m
  <1>4. /\ SubSeq(s, m, n) \in Seq(S)
        /\ Len(SubSeq(s, m, n)) = IF m <= n THEN n - m + 1 ELSE 0
        /\ \A i \in 1..(n - m + 1) : SubSeq(s, m, n)[i] = s[m + i - 1]
    BY <1>1, <1>2, <1>3, PartOfSeq
  <1> USE DEF m
  <1>5. ASSUME NEW i \in 1..(n - f)
        PROVE  SubSeq(s, f + 1, n)[i] = s[f + i]
    <2>1. i \in 1..(n - m + 1) /\ m + i - 1 = f + i
      BY <1>1
    <2> QED BY <1>4, <2>1
  <1> QED BY <1>1, <1>4, <1>5

\* Appending to a queue appends to every part of it that reaches its end.
LEMMA RestOfConcat ==
  ASSUME NEW S, NEW s \in Seq(S), NEW e \in Seq(S), NEW f \in Nat, f <= Len(s)
  PROVE  SubSeq(s \o e, f + 1, Len(s \o e)) = SubSeq(s, f + 1, Len(s)) \o e
PROOF
  <1> DEFINE left  == SubSeq(s \o e, f + 1, Len(s \o e))
             right == SubSeq(s, f + 1, Len(s)) \o e
  <1>1. Len(s) \in Nat /\ Len(e) \in Nat
    BY LenProperties
  <1>2. /\ s \o e \in Seq(S) /\ Len(s \o e) = Len(s) + Len(e)
        /\ \A i \in 1..(Len(s) + Len(e)) :
             (s \o e)[i] = IF i <= Len(s) THEN s[i] ELSE e[i - Len(s)]
    BY ConcatProperties
  <1>3. /\ left \in Seq(S) /\ Len(left) = Len(s) + Len(e) - f
        /\ \A i \in 1..(Len(s) + Len(e) - f) : left[i] = (s \o e)[f + i]
    BY <1>1, <1>2, RestParts
  <1>4. /\ SubSeq(s, f + 1, Len(s)) \in Seq(S)
        /\ Len(SubSeq(s, f + 1, Len(s))) = Len(s) - f
        /\ \A i \in 1..(Len(s) - f) : SubSeq(s, f + 1, Len(s))[i] = s[f + i]
    BY <1>1, RestParts
  <1>5. /\ right \in Seq(S) /\ Len(right) = Len(s) - f + Len(e)
        /\ \A i \in 1..(Len(s) - f + Len(e)) :
             right[i] = IF i <= Len(s) - f THEN SubSeq(s, f + 1, Len(s))[i]
                                           ELSE e[i - (Len(s) - f)]
    <2>1. ASSUME NEW t \in Seq(S)
          PROVE  /\ t \o e \in Seq(S) /\ Len(t \o e) = Len(t) + Len(e)
                 /\ \A i \in 1..(Len(t) + Len(e)) :
                      (t \o e)[i] = IF i <= Len(t) THEN t[i] ELSE e[i - Len(t)]
      BY ConcatProperties
    <2> DEFINE rest == SubSeq(s, f + 1, Len(s))
    <2>2. rest \in Seq(S) /\ Len(rest) = Len(s) - f /\ right = rest \o e
      BY <1>4
    <2> HIDE DEF rest, right
    <2>3. /\ right \in Seq(S) /\ Len(right) = Len(rest) + Len(e)
          /\ \A i \in 1..(Len(rest) + Len(e)) :
               right[i] = IF i <= Len(rest) THEN rest[i] ELSE e[i - Len(rest)]
      BY <2>1, <2>2
    <2> QED BY <2>2, <2>3 DEF rest
  <1>6. \A i \in 1..Len(left) : left[i] = right[i]
    <2>1. TAKE i \in 1..Len(left)
    <2>2. /\ i \in 1..(Len(s) + Len(e) - f) /\ f + i \in 1..(Len(s) + Len(e))
          /\ i \in 1..(Len(s) - f + Len(e))
      BY <1>1, <1>3
    <2>3. left[i] = IF f + i <= Len(s) THEN s[f + i] ELSE e[f + i - Len(s)]
      BY <1>2, <1>3, <2>2
    <2>4. CASE i <= Len(s) - f
      <3>1. i \in 1..(Len(s) - f) /\ f + i <= Len(s)
        BY <1>1, <2>2, <2>4
      <3> QED BY <1>4, <1>5, <2>2, <2>3, <3>1, <2>4
    <2>5. CASE ~(i <= Len(s) - f)
      <3>1. ~(f + i <= Len(s)) /\ f + i - Len(s) = i - (Len(s) - f)
        BY <1>1, <2>2, <2>5
      <3> QED BY <1>5, <2>2, <2>3, <2>5, <3>1
    <2> QED BY <2>4, <2>5
  <1>7. Len(left) = Len(right)
    BY <1>1, <1>3, <1>5
  <1> HIDE DEF left, right
  <1>8. left = right
    BY <1>3, <1>5, <1>6, <1>7, SeqEqual
  <1> QED BY <1>8 DEF left, right

\* What is appended to the rest is appended to the whole.
LEMMA AppendToBoth ==
  ASSUME NEW S, NEW h \in Seq(S), NEW q \in Seq(S), NEW e \in Seq(S), NEW whole,
         whole = h \o q
  PROVE  whole \o e = h \o (q \o e)
PROOF BY ConcatAssociative

\* Dropping k acknowledged elements in front leaves what is behind the first f.
LEMMA RestOfRest ==
  ASSUME NEW S, NEW s \in Seq(S), NEW k \in Nat, NEW f \in Nat, k <= f, f <= Len(s)
  PROVE  LET t == SubSeq(s, k + 1, Len(s)) IN
           SubSeq(t, f - k + 1, Len(t)) = SubSeq(s, f + 1, Len(s))
PROOF
  <1> DEFINE t     == SubSeq(s, k + 1, Len(s))
             left  == SubSeq(t, f - k + 1, Len(t))
             right == SubSeq(s, f + 1, Len(s))
  <1>1. Len(s) \in Nat /\ f - k \in Nat
    BY LenProperties
  <1>2. /\ t \in Seq(S) /\ Len(t) = Len(s) - k
        /\ \A i \in 1..(Len(s) - k) : t[i] = s[k + i]
    BY <1>1, PartOfSeq
  <1> HIDE DEF t
  <1>3. /\ left \in Seq(S) /\ Len(left) = Len(s) - f
        /\ \A i \in 1..(Len(s) - f) : left[i] = t[f - k + i]
    BY <1>1, <1>2, PartOfSeq
  <1>4. /\ right \in Seq(S) /\ Len(right) = Len(s) - f
        /\ \A i \in 1..(Len(s) - f) : right[i] = s[f + i]
    BY <1>1, PartOfSeq
  <1>5. \A i \in 1..Len(left) : left[i] = right[i]
    <2>1. TAKE i \in 1..Len(left)
    <2>2. i \in 1..(Len(s) - f) /\ f - k + i \in 1..(Len(s) - k) /\ k + (f - k + i) = f + i
      BY <1>1, <1>3
    <2> QED BY <1>2, <1>3, <1>4, <2>2
  <1> HIDE DEF left, right
  <1>6. left = right
    BY <1>3, <1>4, <1>5, SeqEqual
  <1> QED BY <1>6 DEF left, right, t

-----------------------------------------------------------------------------
(* The invariant of the traced driver                                      *)

\* WireInv is inductive with the driver's own invariant.
TraceInd ==
  /\ IndInv
  /\ submitted \in Seq(Commands)
  /\ handed \in Seq(Commands)
  /\ WireInv

Queued == SubSeq(tx, tx_in_flight + 1, Len(tx))

\* A new driver has handed out all it accepted, which is nothing.
LEMMA TraceInitInd == TraceInit => TraceInd
PROOF
  <1>1. SUFFICES ASSUME TraceInit PROVE TraceInd
    OBVIOUS
  <1>2. IndInv
    BY <1>1, InitInd DEF TraceInit
  <1>3. <<>> \in Seq(Commands) /\ Len(<<>>) = 0
    BY EmptySeq
  <1>4. tx = <<>> /\ tx_in_flight = 0 /\ submitted = <<>> /\ handed = <<>>
    BY <1>1 DEF TraceInit, Init
  <1>5. SubSeq(tx, tx_in_flight + 1, Len(tx)) = <<>>
    BY <1>3, <1>4, SubSeqEmpty
  <1>6. handed \o <<>> = <<>>
    BY <1>3, <1>4, ConcatEmptySeq
  <1> QED BY <1>2, <1>3, <1>4, <1>5, <1>6 DEF TraceInd, WireInv

\* A call that returns neither Submitted nor NeedTx and leaves the queued part
\* of tx as it is does not touch WireInv.
LEMMA QuietStep ==
  ASSUME TraceInd, TraceNext, IndInv', Queued' = Queued,
         ret'.tag \notin {"Submitted", "NeedTx"}
  PROVE  TraceInd'
PROOF BY DEF TraceInd, TraceNext, WireInv, Queued

\* submit() of an accepted command.
LEMMA SubmittedStep ==
  ASSUME TraceInd, TraceNext, IndInv', NEW cmd \in Commands, SubmitAccepted(cmd)
  PROVE  TraceInd'
PROOF
  <1>1. /\ tx \in Seq(Commands) /\ tx_in_flight \in Nat /\ tx_in_flight <= Len(tx)
        /\ submitted \in Seq(Commands) /\ handed \in Seq(Commands)
    BY DEF TraceInd, IndInv, TypeOK, SlotInv
  <1>2. Encode(cmd) \in Seq(Commands)
    BY EncodeType
  <1>3. tx' = tx \o Encode(cmd) /\ tx_in_flight' = tx_in_flight
    BY DEF SubmitAccepted
  <1>4. ret'.tag = "Submitted" /\ ret'.bytes = Encode(cmd)
    <2>1. ret' = RetBytes("Submitted", Encode(cmd))
      BY DEF SubmitAccepted
    <2> QED BY <2>1 DEF RetBytes
  <1>5. submitted' = submitted \o Encode(cmd) /\ handed' = handed
    BY <1>4 DEF TraceNext
  <1>6. Queued' = Queued \o Encode(cmd)
    BY <1>1, <1>2, <1>3, RestOfConcat DEF Queued
  <1>7. Queued \in Seq(Commands)
    BY <1>1, PartOfSeq, LenProperties DEF Queued
  <1>8. submitted' = handed' \o Queued'
    <2>1. submitted = handed \o Queued
      BY DEF TraceInd, WireInv, Queued
    <2>2. handed \in Seq(Commands)
      BY <1>1
    <2>3. \A whole : whole = handed \o Queued =>
            whole \o Encode(cmd) = handed \o (Queued \o Encode(cmd))
      BY <1>2, <1>7, <2>2, AppendToBoth
    <2> QED BY <1>5, <1>6, <2>1, <2>3
  <1>9. submitted' \in Seq(Commands) /\ handed' \in Seq(Commands)
    BY <1>1, <1>2, <1>5, ConcatProperties
  <1> QED BY <1>8, <1>9 DEF TraceInd, WireInv, Queued

\* poll() handing out what is queued.
LEMMA HandedStep ==
  ASSUME TraceInd, TraceNext, IndInv', PollNeedTx
  PROVE  TraceInd'
PROOF
  <1>1. /\ tx \in Seq(Commands) /\ tx_in_flight \in Nat /\ tx_in_flight <= Len(tx)
        /\ submitted \in Seq(Commands) /\ handed \in Seq(Commands) /\ Len(tx) \in Nat
    BY LenProperties DEF TraceInd, IndInv, TypeOK, SlotInv
  <1>2. tx' = tx /\ tx_in_flight' = Len(tx)
    BY DEF PollNeedTx
  <1>3. ret'.tag = "NeedTx" /\ ret'.bytes = Queued
    BY DEF PollNeedTx, RetBytes, Queued
  <1>4. submitted' = submitted /\ handed' = handed \o Queued
    BY <1>3 DEF TraceNext
  <1>5. Queued' = <<>>
    BY <1>1, <1>2, SubSeqEmpty DEF Queued
  <1>6. Queued \in Seq(Commands)
    BY <1>1, PartOfSeq DEF Queued
  <1>7. submitted = handed \o Queued
    BY DEF TraceInd, WireInv, Queued
  <1>8. handed' \in Seq(Commands)
    BY <1>1, <1>4, <1>6, ConcatProperties
  <1>9. submitted' = handed' \o Queued'
    BY <1>4, <1>5, <1>7, <1>8, ConcatEmptySeq
  <1> QED BY <1>1, <1>4, <1>8, <1>9 DEF TraceInd, WireInv, Queued

\* What ack_tx() drops is behind what was handed out, never what is queued.
LEMMA AckKeepsQueued ==
  ASSUME IndInv, NEW n \in Nat, AckTx(n)
  PROVE  Queued' = Queued
PROOF
  <1>1. tx \in Seq(Commands) /\ tx_in_flight \in Nat /\ tx_in_flight <= Len(tx)
    BY DEF IndInv, TypeOK, SlotInv
  <1>2. Clamp(n) \in Nat /\ Clamp(n) <= tx_in_flight
    BY <1>1, ClampType
  <1>3. tx' = SubSeq(tx, Clamp(n) + 1, Len(tx)) /\ tx_in_flight' = tx_in_flight - Clamp(n)
    BY DEF AckTx
  <1> QED BY <1>1, <1>2, <1>3, RestOfRest DEF Queued

\* Every call preserves the invariant.
LEMMA TraceNextInd == TraceInd /\ [TraceNext]_tvars => TraceInd'
PROOF
  <1>1. SUFFICES ASSUME TraceInd, TraceNext PROVE TraceInd'
    <2>1. CASE UNCHANGED tvars
      <3>1. UNCHANGED vars /\ UNCHANGED <<submitted, handed>>
        BY <2>1 DEF tvars
      <3> QED BY <3>1 DEF TraceInd, IndInv, TypeOK, SlotInv, WireInv, vars
    <2> QED BY <1>1, <2>1
  <1>2. IndInv /\ Next
    BY <1>1 DEF TraceInd, TraceNext
  <1>3. IndInv'
    BY <1>2, NextInd
  <1>4. ASSUME NEW cmd \in Commands, Submit(cmd) PROVE TraceInd'
    <2>1. CASE SubmitAccepted(cmd)
      BY <1>1, <1>3, <2>1, SubmittedStep
    <2>2. CASE SubmitBusy(cmd) \/ SubmitTxOverflow(cmd)
      <3>1. Queued' = Queued /\ ret'.tag \in {"Busy", "TxOverflow"}
        <4>1. ret' = Ret("Busy") \/ ret' = Ret("TxOverflow")
          BY <2>2 DEF SubmitBusy, SubmitTxOverflow
        <4>2. ret'.tag \in {"Busy", "TxOverflow"}
          BY <4>1 DEF Ret
        <4>3. UNCHANGED <<tx, tx_in_flight>>
          BY <2>2 DEF SubmitBusy, SubmitTxOverflow
        <4> QED BY <4>2, <4>3 DEF Queued
      <3> QED BY <1>1, <1>3, <3>1, QuietStep
    <2> QED BY <1>4, <2>1, <2>2 DEF Submit
  <1>5. ASSUME NEW bytes \in Inputs, PushRx(bytes) PROVE TraceInd'
    <2>1. Queued' = Queued /\ ret'.tag \in {"Pushed", "RxOverflow"}
      BY <1>5 DEF PushRx, Queued, Ret
    <2> QED BY <1>1, <1>3, <2>1, QuietStep
  <1>6. ASSUME NEW n \in 0..TX_BUF, AckTx(n) PROVE TraceInd'
    <2>1. n \in Nat
      BY CapacityAssumption
    <2>2. Queued' = Queued
      BY <1>2, <1>6, <2>1, AckKeepsQueued
    <2>3. ret'.tag = "Acked"
      BY <1>6 DEF AckTx, Ret
    <2> QED BY <1>1, <1>3, <2>2, <2>3, QuietStep
  <1>7. CASE PollNeedTx
    BY <1>1, <1>3, <1>7, HandedStep
  <1>8. CASE PollRx
    <2>1. ret'.tag \notin {"Submitted", "NeedTx"}
      BY <1>2, <1>8, PollRxTag DEF IndInv
    <2>2. Queued' = Queued
      BY <1>2, <1>8, PollRxEffect DEF IndInv, Queued
    <2> QED BY <1>1, <1>3, <2>1, <2>2, QuietStep
  <1> QED BY <1>2, <1>4, <1>5, <1>6, <1>7, <1>8 DEF Next, Poll

\* For every caller, every capacity and every set of commands: what poll() has
\* handed out, followed by what tx holds back, is exactly what was accepted.
\* (driver.rs: submit, ack_tx with any count, poll.)
THEOREM WireIsFaithful == TraceSpec => []WireInv
PROOF
  <1>1. TraceInd => WireInv
    BY DEF TraceInd
  <1> QED BY <1>1, TraceInitInd, TraceNextInd, PTL DEF TraceSpec

-----------------------------------------------------------------------------
(* The driver implements CommandSlot                                       *)

\* The part of a call's effect that the slot and the transmit queue see.
LoopInd == IndInv /\ LoopInv

-----------------------------------------------------------------------------
(* LoopInv is inductive                                                    *)

\* The three states of the slot, by their tag.
LEMMA SlotStates ==
  ASSUME IndInv
  PROVE  \/ state = Idle
         \/ state = SendingTx
         \/ /\ state.tag = "Awaiting" /\ state = Awaiting(state.kind)
            /\ state.kind \in AwaitKind
PROOF BY StatesDiffer DEF IndInv, TypeOK

\* The caller's obligation leaves only ack_tx() after NeedTx.
LEMMA OnlyAckAfterNeedTx ==
  ASSUME WrittenThenAcked, ret'.tag # "Acked"
  PROVE  ret.tag # "NeedTx"
PROOF BY DEF WrittenThenAcked, AckTx, Ret

\* Unless something is being sent, tx is empty; what is being sent was not
\* handed out yet.
LEMMA TxIsOneCommand ==
  ASSUME LoopInd, ret.tag # "NeedTx"
  PROVE  /\ state # SendingTx => tx = <<>> /\ pending_kind = None
         /\ tx_in_flight = 0
PROOF
  <1>1. tx \in Seq(Commands) /\ tx_in_flight \in Nat /\ tx_in_flight <= Len(tx)
    BY DEF LoopInd, IndInv, TypeOK, SlotInv
  <1>2. state # SendingTx => tx = <<>> /\ pending_kind = None
    BY SlotStates, StatesDiffer DEF LoopInd, IndInv, SlotInv, LoopInv
  <1>3. tx = <<>> => tx_in_flight = 0
    BY <1>1, EmptySeq
  <1> QED BY <1>2, <1>3 DEF LoopInd, LoopInv

\* submit() finds an empty queue; a factory reset always fits it.
LEMMA SubmitLoop ==
  ASSUME LoopInd, WrittenThenAcked, NEW cmd \in Commands, Submit(cmd)
  PROVE  LoopInv'
PROOF
  <1>1. CASE SubmitBusy(cmd)
    <2>1. ret' = Ret("Busy") /\ UNCHANGED <<tx, tx_in_flight, state, awaiting_ready_as_ok, pending_kind>>
      BY <1>1 DEF SubmitBusy
    <2>2. ret'.tag # "NeedTx" /\ ret'.tag # "Acked"
      BY <2>1 DEF Ret
    <2> QED BY <2>1, <2>2, OnlyAckAfterNeedTx DEF LoopInd, LoopInv
  <1>2. CASE SubmitTxOverflow(cmd)
    <2>1. /\ ret' = Ret("TxOverflow") /\ UNCHANGED <<tx, tx_in_flight, state, pending_kind>>
          /\ state = Idle /\ awaiting_ready_as_ok' = (cmd.op = "FactoryReset")
          /\ Len(tx) + EncodedLen[cmd] > TX_BUF
      BY <1>2 DEF SubmitTxOverflow
    <2>2. ret'.tag # "NeedTx" /\ ret'.tag # "Acked"
      BY <2>1 DEF Ret
    <2>3. tx = <<>> /\ Len(tx) = 0
      BY <2>1, EmptySeq DEF LoopInd, LoopInv
    <2>4. EncodedLen[cmd] \in Nat /\ TX_BUF \in Nat
      BY EncodeType, CapacityAssumption
    <2>5. cmd.op # "FactoryReset"
      BY <2>1, <2>3, <2>4, ResetFits
    <2> QED BY <2>1, <2>2, <2>5, StatesDiffer, OnlyAckAfterNeedTx DEF LoopInd, LoopInv
  <1>3. CASE SubmitAccepted(cmd)
    <2>1. /\ state' = SendingTx /\ tx_in_flight' = tx_in_flight
          /\ ret' = RetBytes("Submitted", Encode(cmd))
      BY <1>3 DEF SubmitAccepted
    <2>2. ret'.tag # "NeedTx" /\ ret'.tag # "Acked"
      BY <2>1 DEF RetBytes
    <2>3. tx_in_flight = 0
      BY <2>2, OnlyAckAfterNeedTx, TxIsOneCommand
    <2> QED BY <2>1, <2>2, <2>3, StatesDiffer DEF LoopInv
  <1> QED BY <1>1, <1>2, <1>3 DEF Submit

\* push_rx() does not touch what LoopInv is about.
LEMMA PushRxLoop ==
  ASSUME LoopInd, WrittenThenAcked, NEW bytes \in Inputs, PushRx(bytes)
  PROVE  LoopInv'
PROOF
  <1>1. UNCHANGED <<tx, tx_in_flight, state, awaiting_ready_as_ok, pending_kind>>
    BY DEF PushRx
  <1>2. ret'.tag \in {"Pushed", "RxOverflow"}
    BY DEF PushRx, Ret
  <1> QED BY <1>1, <1>2, OnlyAckAfterNeedTx DEF LoopInd, LoopInv

\* ack_tx() of what was handed out empties tx; of anything else it does nothing.
LEMMA AckTxEffect ==
  ASSUME LoopInd, WrittenThenAcked, NEW n \in Nat, AckTx(n)
  PROVE  /\ tx_in_flight' = 0
         /\ ret.tag = "NeedTx" => tx' = <<>>
         /\ ret.tag # "NeedTx" => tx' = tx
PROOF
  <1>1. /\ tx \in Seq(Commands) /\ Len(tx) \in Nat /\ tx_in_flight \in Nat
        /\ tx_in_flight <= Len(tx)
    BY LenProperties DEF LoopInd, IndInv, TypeOK, SlotInv
  <1>2. CASE ret.tag = "NeedTx"
    <2>1. AckTx(Len(tx)) /\ tx_in_flight = Len(tx)
      BY <1>2 DEF WrittenThenAcked, LoopInd, LoopInv
    <2>2. Clamp(Len(tx)) = Len(tx)
      BY <1>1, <2>1 DEF Clamp
    <2>3. tx' = SubSeq(tx, Len(tx) + 1, Len(tx)) /\ tx_in_flight' = Len(tx) - Len(tx)
      BY <2>1, <2>2 DEF AckTx
    <2> QED BY <1>1, <1>2, <2>3, SubSeqEmpty
  <1>3. CASE ret.tag # "NeedTx"
    <2>1. tx_in_flight = 0
      BY <1>3, TxIsOneCommand
    <2>2. Clamp(n) = 0
      BY <2>1 DEF Clamp
    <2>3. tx' = SubSeq(tx, 1, Len(tx)) /\ tx_in_flight' = 0
      BY <2>1, <2>2 DEF AckTx
    <2> QED BY <1>1, <1>3, <2>3, SubSeqFull
  <1> QED BY <1>2, <1>3

\* ack_tx() moves the slot on exactly when it answers NeedTx while sending.
LEMMA AckTxMoves ==
  ASSUME LoopInd, WrittenThenAcked, NEW n \in Nat, AckTx(n)
  PROVE  \/ /\ state = SendingTx /\ tx' = <<>>
            /\ state' = Awaiting(pending_kind) /\ pending_kind' = None
         \/ UNCHANGED <<tx, state, pending_kind>>
         \/ state # SendingTx /\ tx' = <<>> /\ UNCHANGED <<state, pending_kind>>
PROOF
  <1>1. \/ state' = Awaiting(pending_kind) /\ pending_kind' = None
           /\ state = SendingTx /\ tx' = <<>>
        \/ /\ UNCHANGED <<state, pending_kind>>
           /\ ~(tx' = <<>> /\ state = SendingTx /\ pending_kind # None)
    BY DEF AckTx
  <1>2. state = SendingTx => pending_kind # None
    BY DEF LoopInd, IndInv, SlotInv
  <1> QED BY <1>1, <1>2, AckTxEffect

\* ack_tx() preserves LoopInv.
LEMMA AckTxLoop ==
  ASSUME LoopInd, WrittenThenAcked, NEW n \in Nat, AckTx(n)
  PROVE  LoopInv'
PROOF
  <1>1. ret'.tag # "NeedTx" /\ tx_in_flight' = 0
    BY AckTxEffect DEF AckTx, Ret
  <1>2. awaiting_ready_as_ok' = awaiting_ready_as_ok
    BY DEF AckTx
  <1>3. state' = Idle => state = Idle /\ tx' = <<>> /\ pending_kind' = None
    BY AckTxMoves, StatesDiffer DEF LoopInd, LoopInv
  <1> QED BY <1>1, <1>2, <1>3 DEF LoopInd, LoopInv

\* poll() hands out a whole command, and looks at rx only when nothing is left
\* to send; in particular not between submit() and the end of the write.
LEMMA PollWhen ==
  ASSUME LoopInd, ret.tag # "NeedTx"
  PROVE  /\ PollNeedTx => /\ state = SendingTx
                          /\ ret' = RetBytes("NeedTx", tx) /\ tx_in_flight' = Len(tx)
                          /\ UNCHANGED <<rx, tx, state, awaiting_ready_as_ok, pending_kind>>
         /\ PollRx => state # SendingTx /\ tx = <<>> /\ pending_kind = None
PROOF
  <1>1. tx \in Seq(Commands) /\ Len(tx) \in Nat /\ tx_in_flight = 0
    BY LenProperties, TxIsOneCommand DEF LoopInd, IndInv, TypeOK
  <1>2. state # SendingTx => tx = <<>> /\ pending_kind = None
    BY TxIsOneCommand
  <1>3. ASSUME PollNeedTx
        PROVE  /\ state = SendingTx
               /\ ret' = RetBytes("NeedTx", tx) /\ tx_in_flight' = Len(tx)
               /\ UNCHANGED <<rx, tx, state, awaiting_ready_as_ok, pending_kind>>
    <2>1. tx # <<>>
      BY <1>1, <1>3, EmptySeq DEF PollNeedTx
    <2>2. ret' = RetBytes("NeedTx", SubSeq(tx, 1, Len(tx)))
      BY <1>1, <1>3 DEF PollNeedTx
    <2>3. SubSeq(tx, 1, Len(tx)) = tx
      BY <1>1, SubSeqFull
    <2> QED BY <1>2, <1>3, <2>1, <2>2, <2>3 DEF PollNeedTx
  <1>4. ASSUME PollRx PROVE state # SendingTx
    <2>1. ~(0 < Len(tx))
      BY <1>1, <1>4 DEF PollRx
    <2>2. tx = <<>>
      BY <1>1, <2>1, EmptySeq
    <2> QED BY <2>2 DEF LoopInd, IndInv, SlotInv
  <1> QED BY <1>2, <1>3, <1>4

\* poll() never returns what ack_tx() returns.
LEMMA PollTag ==
  ASSUME Poll
  PROVE  ret'.tag # "Acked"
PROOF
  <1>1. CASE PollNeedTx
    BY <1>1 DEF PollNeedTx, RetBytes
  <1>2. CASE PollRx
    BY <1>2, PollRxTag
  <1> QED BY <1>1, <1>2 DEF Poll

\* A reset waits for its reply only while the slot is taken.
LEMMA PollLoop ==
  ASSUME LoopInd, WrittenThenAcked, Poll
  PROVE  LoopInv'
PROOF
  <1>1. ret.tag # "NeedTx"
    BY PollTag, OnlyAckAfterNeedTx
  <1>2. CASE PollNeedTx
    <2>1. /\ state' = SendingTx /\ tx' = tx /\ ret' = RetBytes("NeedTx", tx)
          /\ tx_in_flight' = Len(tx)
      BY <1>1, <1>2, PollWhen
    <2>2. ret'.tag = "NeedTx" /\ ret'.bytes = tx
      BY <2>1 DEF RetBytes
    <2> QED BY <2>1, <2>2, StatesDiffer DEF LoopInv
  <1>3. CASE PollRx
    <2>1. /\ UNCHANGED <<tx, tx_in_flight, pending_kind>>
          /\ \/ UNCHANGED <<state, awaiting_ready_as_ok>>
             \/ state' = Idle /\ awaiting_ready_as_ok' = FALSE
      BY <1>3, PollRxEffect DEF LoopInd, IndInv
    <2>2. state # SendingTx /\ tx = <<>> /\ pending_kind = None /\ tx_in_flight = 0
      BY <1>1, <1>3, PollWhen, TxIsOneCommand
    <2>3. ret'.tag # "NeedTx"
      BY <1>3, PollRxTag
    <2> QED BY <2>1, <2>2, <2>3, StatesDiffer DEF LoopInd, LoopInv
  <1> QED BY <1>2, <1>3 DEF Poll
\* A new driver satisfies LoopInv.
LEMMA LoopInit == Init => LoopInd
PROOF
  <1>1. SUFFICES ASSUME Init PROVE LoopInv
    BY InitInd DEF LoopInd
  <1>2. state = Idle /\ tx = <<>> /\ pending_kind = None /\ awaiting_ready_as_ok = FALSE
        /\ ret.tag = "New"
    BY <1>1 DEF Init, Ret
  <1> QED BY <1>2, StatesDiffer DEF LoopInv

\* Every call of the obliging caller preserves LoopInv.
LEMMA LoopNextInd == LoopInd /\ [LoopNext]_vars => LoopInd'
PROOF
  <1>1. SUFFICES ASSUME LoopInd, LoopNext PROVE LoopInv'
    <2>1. CASE LoopNext
      BY <1>1, <2>1, NextInd DEF LoopInd, LoopNext
    <2>2. CASE UNCHANGED vars
      BY <2>2 DEF LoopInd, IndInv, TypeOK, SlotInv, LoopInv, vars
    <2> QED BY <2>1, <2>2
  <1>2. WrittenThenAcked
    BY <1>1 DEF LoopNext
  <1>3. ASSUME NEW n \in 0..TX_BUF, AckTx(n) PROVE LoopInv'
    <2>1. n \in Nat
      BY CapacityAssumption
    <2> QED BY <1>1, <1>2, <1>3, <2>1, AckTxLoop
  <1> QED BY <1>1, <1>2, <1>3, SubmitLoop, PushRxLoop, PollLoop DEF LoopNext, Next

\* Under the obliging caller tx is empty, wholly unsent or wholly in flight, and
\* a factory reset is only remembered while its command is.  (driver.rs: submit,
\* ack_tx and poll; awaiting_ready_as_ok.)
THEOREM LoopInvariant == LoopSpec => []LoopInv
PROOF
  <1>1. LoopInd => LoopInv
    BY DEF LoopInd
  <1> QED BY <1>1, LoopInit, LoopNextInd, PTL DEF LoopSpec

-----------------------------------------------------------------------------
(* The refinement                                                          *)

\* The values CommandSlot's kind and reply have in the driver.
SlotKind  == IF state = SendingTx THEN pending_kind ELSE state.kind
SlotReply == IF ret.tag = "Response" THEN ReplyClass(ret.line) ELSE "none"

\* A line that resolves a command waiting for kind k is of class k or an error.
LEMMA ReplyIsAnAnswer ==
  ASSUME NEW k \in AwaitKind, NEW line, ResponseMatches(k, line),
         ParsesAsResponse(line)
  PROVE  ReplyClass(line) \in OneSlot!Answers(k)
PROOF
  <1>1. line # <<>> /\ line[1].key \in ResponseKeys
    BY DEF ParsesAsResponse
  <1>2. CASE line[1].key = "+ERR="
    BY <1>2 DEF ReplyClass, OneSlot!Answers
  <1>3. CASE line[1].key # "+ERR=" /\ k = "Ack"
    <2>1. line[1].key = "+OK"
      BY <1>1, <1>3 DEF ResponseMatches, StartsWith, Exactly, ResponseKeys, QueryKey,
                        QueryPrefix
    <2> QED BY <1>3, <2>1 DEF ReplyClass, OneSlot!Answers
  <1>4. CASE line[1].key # "+ERR=" /\ k # "Ack"
    <2>1. k \in QueryKey /\ line[1].key = QueryPrefix[k]
      BY <1>4 DEF ResponseMatches, StartsWith, AwaitKind
    <2>2. \A j \in QueryKey : QueryPrefix[j] = QueryPrefix[k] => j = k
      BY <2>1 DEF QueryKey, QueryPrefix
    <2>3. QueryPrefix[k] \notin {"+OK", "+READY", "+ERR="}
      BY <2>1 DEF QueryKey, QueryPrefix
    <2>4. (CHOOSE j \in QueryKey : QueryPrefix[j] = line[1].key) = k
      BY <2>1, <2>2
    <2> QED BY <2>1, <2>3, <2>4 DEF ReplyClass, OneSlot!Answers
  <1> QED BY <1>2, <1>3, <1>4
\* The initial state of the driver is the free slot.
LEMMA SlotInitially == Init => OneSlot!Init
PROOF BY StatesDiffer DEF Init, OneSlot!Init, Idle, Ret

\* A call that neither moves the slot nor returns a response is of no
\* consequence to it.
LEMMA QuietForSlot ==
  ASSUME UNCHANGED <<state, awaiting_ready_as_ok>>, ret'.tag # "Response",
         state = SendingTx => pending_kind' = pending_kind
  PROVE  OneSlot!Quiet
PROOF BY DEF OneSlot!Quiet

\* submit() takes the slot.
LEMMA SubmitStepsSlot ==
  ASSUME LoopInd, WrittenThenAcked, NEW cmd \in Commands, Submit(cmd)
  PROVE  OneSlot!Next
PROOF
  <1>1. CASE SubmitBusy(cmd)
    <2>1. ret' = Ret("Busy") /\ UNCHANGED <<state, awaiting_ready_as_ok, pending_kind>>
      BY <1>1 DEF SubmitBusy
    <2>2. ret'.tag # "Response"
      BY <2>1 DEF Ret
    <2> QED BY <2>1, <2>2, QuietForSlot DEF OneSlot!Next
  <1>2. CASE SubmitTxOverflow(cmd)
    <2>1. ret' = Ret("TxOverflow") /\ UNCHANGED <<state, pending_kind>> /\ state = Idle
      BY <1>2 DEF SubmitTxOverflow
    <2>2. ret'.tag # "Response"
      BY <2>1 DEF Ret
    <2>3. LoopInv'
      BY SubmitLoop
    <2>4. awaiting_ready_as_ok = FALSE /\ awaiting_ready_as_ok' = FALSE
      BY <2>1, <2>3, <1>2 DEF LoopInd, LoopInv, IndInv, TypeOK, SubmitTxOverflow
    <2> QED BY <2>1, <2>2, <2>4, QuietForSlot DEF OneSlot!Next
  <1>3. CASE SubmitAccepted(cmd)
    <2>1. /\ state = Idle /\ state' = SendingTx /\ pending_kind' = KindOf(cmd)
          /\ awaiting_ready_as_ok' = (cmd.op = "FactoryReset")
          /\ ret' = RetBytes("Submitted", Encode(cmd))
      BY <1>3 DEF SubmitAccepted
    <2>2. KindOf(cmd) \in AwaitKind /\ (cmd.op = "FactoryReset") \in BOOLEAN
      BY KindOfType
    <2>3. ret'.tag # "Response" /\ state.tag = "Idle" /\ state'.tag = "SendingTx"
      BY <2>1 DEF RetBytes, Idle, SendingTx
    <2>4. OneSlot!Accept(KindOf(cmd), cmd.op = "FactoryReset")
      BY <2>1, <2>3 DEF OneSlot!Accept
    <2> QED BY <2>2, <2>4 DEF OneSlot!Next
  <1> QED BY <1>1, <1>2, <1>3 DEF Submit

\* ack_tx() of the written command is the slot's Sent.
LEMMA AckTxSends ==
  ASSUME LoopInd, WrittenThenAcked, NEW n \in Nat, AckTx(n)
  PROVE  OneSlot!Next
PROOF
  <1>1. ret'.tag # "Response" /\ awaiting_ready_as_ok' = awaiting_ready_as_ok
    BY DEF AckTx, Ret
  <1>2. CASE state = SendingTx /\ state' = Awaiting(pending_kind)
    <2>1. /\ state.tag = "SendingTx" /\ state'.tag = "Awaiting"
          /\ state'.kind = pending_kind /\ state' # SendingTx
      BY <1>2, StatesDiffer DEF SendingTx
    <2>2. OneSlot!Sent
      BY <1>1, <1>2, <2>1 DEF OneSlot!Sent
    <2> QED BY <2>2 DEF OneSlot!Next
  <1>3. CASE UNCHANGED <<state, pending_kind>>
    BY <1>1, <1>3, QuietForSlot DEF OneSlot!Next
  <1> QED BY <1>2, <1>3, AckTxMoves

\* A response frees the slot, and is of the kind the slot waits for.
LEMMA ResponseFreesSlot ==
  ASSUME LoopInd, NEW r \in 1..Len(rx), PollResponse(r)
  PROVE  OneSlot!Next
PROOF
  <1> DEFINE line == LineTo(rx, r)
  <1>1. /\ state.tag = "Awaiting" /\ ResponseMatches(state.kind, line)
        /\ state' = Idle /\ awaiting_ready_as_ok' = FALSE
        /\ ret' = IF ParsesAsResponse(line) THEN RetLine("Response", line) ELSE Ret("Idle")
    BY DEF PollResponse, MatchesSlot
  <1>2. state # SendingTx /\ state.kind \in AwaitKind
    BY <1>1, SlotStates, StatesDiffer DEF LoopInd, Idle
  <1>3. state'.tag = "Idle" /\ state'.kind = None /\ state' # SendingTx
    BY <1>1 DEF Idle, SendingTx
  <1>4. SlotReply' \in OneSlot!Answers(state.kind)
    <2>1. CASE ParsesAsResponse(line)
      <3>1. ret' = RetLine("Response", line)
        BY <1>1, <2>1
      <3>2. ret'.tag = "Response" /\ ret'.line = line
        BY <3>1 DEF RetLine
      <3>3. ReplyClass(line) \in OneSlot!Answers(state.kind)
        BY <1>1, <1>2, <2>1, ReplyIsAnAnswer
      <3> QED BY <3>2, <3>3 DEF SlotReply
    <2>2. CASE ~ParsesAsResponse(line)
      <3>1. ret'.tag # "Response"
        BY <1>1, <2>2 DEF Ret
      <3> QED BY <3>1 DEF SlotReply, OneSlot!Answers
    <2> QED BY <2>1, <2>2
  <1>5. OneSlot!Resolve
    BY <1>1, <1>2, <1>3, <1>4 DEF OneSlot!Resolve, OneSlot!Free, SlotReply
  <1> QED BY <1>5 DEF OneSlot!Next

\* +READY while a reset is in flight frees the slot with an acknowledgement.
LEMMA ReadyFreesSlot ==
  ASSUME LoopInd, state # SendingTx, NEW r \in 1..Len(rx), PollReadyAsOk(r)
  PROVE  OneSlot!Next
PROOF
  <1>1. /\ awaiting_ready_as_ok /\ Exactly(LineTo(rx, r), "+READY")
        /\ state' = Idle /\ awaiting_ready_as_ok' = FALSE
        /\ ret' = RetLine("Response", LineTo(rx, r))
    BY DEF PollReadyAsOk
  <1>2. state.tag = "Awaiting"
    BY <1>1, SlotStates DEF LoopInd, LoopInv
  <1>3. state'.tag = "Idle" /\ state'.kind = None /\ state' # SendingTx
    BY <1>1 DEF Idle, SendingTx
  <1>4. ret'.tag = "Response" /\ ReplyClass(ret'.line) = "Ack"
    BY <1>1 DEF RetLine, ReplyClass, Exactly
  <1>5. OneSlot!ResetDone
    BY <1>1, <1>2, <1>3, <1>4 DEF OneSlot!ResetDone, OneSlot!Free
  <1> QED BY <1>5 DEF OneSlot!Next

\* poll() frees the slot or leaves it alone.
LEMMA PollServesSlot ==
  ASSUME LoopInd, WrittenThenAcked, Poll
  PROVE  OneSlot!Next
PROOF
  <1>1. ret.tag # "NeedTx"
    BY PollTag, OnlyAckAfterNeedTx
  <1>2. CASE PollNeedTx
    <2>1. /\ ret' = RetBytes("NeedTx", tx)
          /\ UNCHANGED <<state, awaiting_ready_as_ok, pending_kind>>
      BY <1>1, <1>2, PollWhen
    <2>2. ret'.tag # "Response"
      BY <2>1 DEF RetBytes
    <2> QED BY <2>1, <2>2, QuietForSlot DEF OneSlot!Next
  <1>3. CASE PollNoLine
    BY <1>3, QuietForSlot DEF PollNoLine, Ret, OneSlot!Next
  <1>4. ASSUME PollRx, NEW r \in 1..Len(rx),
               \/ PollPanic(r) \/ PollResetEcho(r) \/ PollReadyAsOk(r)
               \/ PollEvent(r) \/ PollResponse(r) \/ PollLeave(r)
        PROVE  OneSlot!Next
    <2>1. state # SendingTx
      BY <1>1, <1>4, PollWhen
    <2>2. CASE PollPanic(r) \/ PollResetEcho(r) \/ PollEvent(r) \/ PollLeave(r)
      <3>1. UNCHANGED <<state, awaiting_ready_as_ok, pending_kind>>
        BY <2>2 DEF PollPanic, PollResetEcho, PollEvent, PollLeave
      <3>2. ret'.tag # "Response"
        BY <2>2 DEF PollPanic, PollResetEcho, PollEvent, PollLeave, Ret, RetLine
      <3> QED BY <3>1, <3>2, QuietForSlot DEF OneSlot!Next
    <2>3. CASE PollResponse(r)
      BY <2>3, ResponseFreesSlot
    <2>4. CASE PollReadyAsOk(r)
      BY <2>1, <2>4, ReadyFreesSlot
    <2> QED BY <1>4, <2>2, <2>3, <2>4
  <1> QED BY <1>2, <1>3, <1>4 DEF Poll, PollRx

\* Every step of the driver is one of the slot.
LEMMA StepIsSlotStep == LoopInd /\ [LoopNext]_vars => [OneSlot!Next]_OneSlot!slotVars
PROOF
  <1>1. SUFFICES ASSUME LoopInd, [LoopNext]_vars PROVE [OneSlot!Next]_OneSlot!slotVars
    OBVIOUS
  <1>2. CASE UNCHANGED vars
    BY <1>2 DEF vars, OneSlot!slotVars
  <1>3. CASE LoopNext
    <2>1. WrittenThenAcked
      BY <1>3 DEF LoopNext
    <2>2. ASSUME NEW bytes \in Inputs, PushRx(bytes) PROVE OneSlot!Next
      <3>1. UNCHANGED <<state, awaiting_ready_as_ok, pending_kind>>
        BY <2>2 DEF PushRx
      <3>2. ret'.tag # "Response"
        BY <2>2 DEF PushRx, Ret
      <3> QED BY <3>1, <3>2, QuietForSlot DEF OneSlot!Next
    <2>3. ASSUME NEW n \in 0..TX_BUF, AckTx(n) PROVE OneSlot!Next
      <3>1. n \in Nat
        BY CapacityAssumption
      <3> QED BY <1>1, <2>1, <2>3, <3>1, AckTxSends
    <2> QED BY <1>1, <1>3, <2>1, <2>2, <2>3, SubmitStepsSlot, PollServesSlot DEF LoopNext, Next
  <1> QED BY <1>1, <1>2, <1>3

\* The driver implements CommandSlot: one command in flight, resolved at most
\* once, only after all of it was written, and only by a reply of its kind, an
\* error or, for a reset, the radio's coming up.  (driver.rs as a whole.)
THEOREM DriverImplementsSlot == LoopSpec => SlotSpec
PROOF BY LoopInit, LoopNextInd, SlotInitially, StepIsSlotStep, PTL
      DEF LoopSpec, SlotSpec, OneSlot!Spec, LoopInd
=============================================================================
