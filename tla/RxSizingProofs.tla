--------------------------- MODULE RxSizingProofs ---------------------------
(***************************************************************************)
(* Which buffer sizes are enough, for all lengths of lines and reads.      *)
(***************************************************************************)
EXTENDS RxSizing, TLAPS

\* Inductive.  Until a byte is dropped the unfinished line is one line of the radio,
\* and what a poll() left behind a response came in with one read.
IntactInd ==
  framing = "intact" =>
    /\ held + left <= MAX_LINE
    /\ behind > 0 => behind + held < CHUNK

SizingInd == SizingTypeOK /\ IntactInd

-----------------------------------------------------------------------------
\* Nothing is in rx when the driver is new.
LEMMA SizingInit == Init => SizingInd
PROOF BY SizeAssumption DEF Init, SizingInd, SizingTypeOK, IntactInd

\* push_rx keeps no more than it is given, nor than there is room for.
LEMMA KeptFits ==
  ASSUME SizingTypeOK, NEW n \in Reads
  PROVE  /\ Kept(n) \in Nat /\ Kept(n) <= n /\ n \in 1..CHUNK
         /\ behind + held + Kept(n) <= RX_BUF
PROOF BY SizeAssumption DEF SizingTypeOK, Kept, Room

\* A line that has begun lacks its end, is one of the radio's and came with the bytes
\* that went by.
LEMMA BegunFacts ==
  ASSUME NEW n \in Nat, NEW p \in Begun(n)
  PROVE  /\ p.held \in Nat /\ p.left \in Nat \ {0}
         /\ p.held <= n /\ p.held + p.left <= MAX_LINE
PROOF
  <1>1. PICK length \in Lines, r \in Cuts :
          p = [held |-> r, left |-> length - r] /\ p.left > 0 /\ p.held <= n
    BY DEF Begun
  <1>2. length \in 2..MAX_LINE /\ r \in Nat /\ MAX_LINE \in Nat
    BY SizeAssumption
  <1> QED BY <1>1, <1>2

\* The unfinished line lacks its end and lies in the bytes that rx has.
LEMMA UnfinishedFacts ==
  ASSUME SizingTypeOK, NEW k \in Nat, NEW p \in Unfinished(k)
  PROVE  /\ p.held \in Nat /\ p.left \in Nat \ {0}
         /\ p.held <= held + k
         /\ held + left <= MAX_LINE => p.held + p.left <= MAX_LINE
PROOF
  <1>1. CASE k < left
    <2>1. p = [held |-> held + k, left |-> left - k]
      BY <1>1 DEF Unfinished
    <2> QED BY <1>1, <2>1 DEF SizingTypeOK
  <1>2. CASE ~(k < left)
    <2>1. k - left \in Nat
      BY <1>2 DEF SizingTypeOK
    <2>2. p \in Begun(k - left)
      BY <1>2 DEF Unfinished
    <2>3. p.held \in Nat /\ p.left \in Nat \ {0} /\ p.held <= k - left
          /\ p.held + p.left <= MAX_LINE
      BY <2>1, <2>2, BegunFacts
    <2> QED BY <1>2, <2>3 DEF SizingTypeOK
  <1> QED BY <1>1, <1>2

\* Whole lines that stay in rx were there, or came with the read.
LEMMA LeavesFacts ==
  ASSUME SizingTypeOK, NEW k \in Nat, NEW h \in Nat, NEW b \in Nat,
         h <= held + k, Leaves(k, h, b)
  PROVE  /\ b + h <= behind + held + k
         /\ framing = "intact" /\ b > 0 => behind = 0 /\ b + h < k
PROOF BY DEF Leaves, SizingTypeOK

\* Whatever the hole cuts off, a line always lacks its end.
LEMMA ResumesFacts ==
  ASSUME NEW d \in Nat \ {0}, NEW p, p.held \in Nat, p.left \in Nat \ {0}, Resumes(d, p)
  PROVE  left' \in Nat \ {0} /\ framing' \in {"damaged", "jammed"}
PROOF
  <1>1. PICK q \in Skipped(d, p) :
          \/ left' = q.left
          \/ \E length \in Lines : left' = 1 + length
    BY DEF Resumes
  <1>2. q.left \in Nat \ {0}
    <2>1. CASE d < p.left
      <3>1. q = [held |-> p.held + d, left |-> p.left - d]
        BY <2>1 DEF Skipped
      <3>2. q.left = p.left - d
        BY <3>1
      <3> QED BY <2>1, <3>2
    <2>2. CASE ~(d < p.left)
      <3>1. d - p.left \in Nat /\ q \in Begun(d - p.left)
        BY <2>2 DEF Skipped
      <3> QED BY <3>1, BegunFacts
    <2> QED BY <2>1, <2>2
  <1>3. \A length \in Lines : 1 + length \in Nat \ {0}
    BY SizeAssumption
  <1>4. left' \in Nat \ {0}
    BY <1>1, <1>2, <1>3
  <1>5. framing' \in {"damaged", "jammed"}
    BY DEF Resumes
  <1> QED BY <1>4, <1>5

-----------------------------------------------------------------------------
\* A read leaves a line that lacks its end, within the capacity of rx.
LEMMA ReadLinesHeld ==
  ASSUME SizingInd, NEW n \in Reads, ReadLines(n)
  PROVE  SizingInd'
PROOF
  <1> DEFINE k == Kept(n)
  <1>1. /\ k \in Nat /\ k <= n /\ n \in Nat /\ n <= CHUNK /\ CHUNK \in Nat
        /\ behind + held + k <= RX_BUF
    BY KeptFits, SizeAssumption DEF SizingInd
  <1>2. PICK p \in Unfinished(k), b \in Wholes :
          /\ Leaves(k, p.held, b) /\ behind' = b /\ held' = p.held
          /\ \/ k = n /\ left' = p.left /\ UNCHANGED framing
             \/ k < n /\ Resumes(n - k, p)
    BY DEF ReadLines
  <1>3. SizingTypeOK /\ b \in Nat
    BY SizeAssumption DEF SizingInd
  <1> HIDE DEF k
  <1>4. /\ p.held \in Nat /\ p.left \in Nat \ {0} /\ p.held <= held + k
        /\ held + left <= MAX_LINE => p.held + p.left <= MAX_LINE
    BY <1>1, <1>2, <1>3, UnfinishedFacts
  <1>5. /\ b + p.held <= behind + held + k
        /\ framing = "intact" /\ b > 0 => behind = 0 /\ b + p.held < k
    BY <1>1, <1>2, <1>3, <1>4, LeavesFacts
  <1>6. behind' \in Nat /\ held' \in Nat /\ behind' + held' <= RX_BUF
    BY <1>1, <1>2, <1>3, <1>4, <1>5, SizeAssumption DEF SizingTypeOK
  <1>7. CASE k = n /\ left' = p.left /\ UNCHANGED framing
    <2>1. SizingTypeOK'
      BY <1>3, <1>4, <1>6, <1>7 DEF SizingTypeOK
    <2>2. IntactInd'
      BY <1>1, <1>2, <1>3, <1>4, <1>5, <1>7 DEF IntactInd, SizingInd
    <2> QED BY <2>1, <2>2 DEF SizingInd
  <1>8. CASE k < n /\ Resumes(n - k, p)
    <2>1. n - k \in Nat \ {0}
      BY <1>1, <1>8
    <2>2. left' \in Nat \ {0} /\ framing' \in {"damaged", "jammed"}
      BY <1>4, <1>8, <2>1, ResumesFacts
    <2> QED BY <1>6, <2>2 DEF SizingInd, SizingTypeOK, IntactInd
  <1> QED BY <1>2, <1>7, <1>8

\* Every step keeps the invariant.
LEMMA SizingNext == SizingInd /\ [Next]_vars => SizingInd'
PROOF
  <1> SUFFICES ASSUME SizingInd, [Next]_vars PROVE SizingInd'
    OBVIOUS
  <1>1. CASE UNCHANGED vars
    BY <1>1 DEF SizingInd, SizingTypeOK, IntactInd, vars
  <1>2. CASE PollsAgain
    BY <1>2, SizeAssumption DEF PollsAgain, SizingInd, SizingTypeOK, IntactInd
  <1>3. ASSUME NEW n \in Reads, Read(n) PROVE SizingInd'
    <2>1. /\ Kept(n) \in Nat /\ behind + held + Kept(n) <= RX_BUF
          /\ RX_BUF \in Nat
      BY KeptFits, SizeAssumption DEF SizingInd
    <2>2. CASE ReadTooLong(n)
      BY <2>2 DEF ReadTooLong, SizingInd, SizingTypeOK, IntactInd
    <2>3. CASE ReadLines(n)
      BY <2>3, ReadLinesHeld
    <2>4. CASE ReadUnclaimed(n)
      BY <2>1, <2>4 DEF ReadUnclaimed, SizingInd, SizingTypeOK, IntactInd
    <2>5. CASE ReadJammed(n)
      BY <2>1, <2>5 DEF ReadJammed, SizingInd, SizingTypeOK, IntactInd
    <2> QED BY <1>3, <2>2, <2>3, <2>4, <2>5 DEF Read
  <1> QED BY <1>1, <1>2, <1>3 DEF Next

\* Where a read does not fit behind the lines of one that was left, a byte of an intact
\* stream is dropped only behind a held line, and where that line is long.
LEMMA DropFacts ==
  ASSUME SizingInd, framing = "intact", NEW n \in Reads, Kept(n) # n
  PROVE  /\ TwoReadsFit => held + left > RX_BUF - CHUNK + 1
         /\ ~(TwoReadsFit /\ LineAndReadFit)
PROOF
  <1>1. /\ behind \in Nat /\ held \in Nat /\ left \in Nat /\ left >= 1
        /\ held + left <= MAX_LINE /\ (behind > 0 => behind + held < CHUNK)
    BY DEF SizingInd, SizingTypeOK, IntactInd
  <1>2. n \in 1..CHUNK /\ CHUNK \in Nat /\ RX_BUF \in Nat /\ MAX_LINE \in Nat
    BY SizeAssumption
  <1>3. behind + held + n > RX_BUF
    BY <1>1, <1>2 DEF Kept, Room
  <1> QED BY <1>1, <1>2, <1>3 DEF TwoReadsFit, LineAndReadFit

\* A line of the radio that nothing was dropped from is no longer than the longest.
LEMMA LineOfRadio ==
  ASSUME SizingInd, framing = "intact", LineBufFits, NEW k
  PROVE  ~TooLong(k)
PROOF BY SizeAssumption DEF SizingInd, SizingTypeOK, IntactInd, LineBufFits, TooLong

-----------------------------------------------------------------------------
\* rx keeps to its capacity and the counts of bytes stay counts, through drops, merged
\* and jammed lines.  (driver.rs: push_rx, poll.)
THEOREM SizingTypeCorrect == Spec => []SizingTypeOK
PROOF
  <1>1. SizingInd => SizingTypeOK
    BY DEF SizingInd
  <1> QED BY <1>1, SizingInit, SizingNext, PTL DEF Spec

\* Where rx has room for two reads, only a line longer than RX_BUF - CHUNK + 1 bytes
\* can make push_rx drop a byte of an intact stream, for all sizes of the buffers, the
\* lines and the reads, and wherever a poll() stops at a response.  (driver.rs: push_rx;
\* tokio lib.rs: process_job.)
THEOREM LossNeedsLongLine == ASSUME TwoReadsFit PROVE Spec => LossOnlyInLongLine
PROOF
  <1>1. SizingInd /\ [Next]_vars
          => [framing = "intact" /\ framing' \in {"damaged", "jammed"}
                => held + left > RX_BUF - CHUNK + 1]_vars
    <2>1. SUFFICES ASSUME SizingInd, Next, framing = "intact",
                          framing' \in {"damaged", "jammed"}
                   PROVE  held + left > RX_BUF - CHUNK + 1
      OBVIOUS
    <2>2. PICK n \in Reads : Read(n)
      BY <2>1 DEF Next, PollsAgain
    <2>3. ReadLines(n)
      BY <2>1, <2>2 DEF Read, ReadTooLong, ReadUnclaimed, ReadJammed
    <2>4. Kept(n) < n
      BY <2>1, <2>3 DEF ReadLines
    <2>5. Kept(n) \in Nat /\ n \in Nat
      BY <2>1, KeptFits, SizeAssumption DEF SizingInd
    <2>6. Kept(n) # n
      BY <2>4, <2>5
    <2> QED BY <2>1, <2>6, DropFacts
  <1> QED BY <1>1, SizingInit, SizingNext, PTL DEF Spec, LossOnlyInLongLine

\* Where line_buf takes the longest line of the radio, poll() panics only over a hole:
\* nothing the radio sends overruns line_buf until push_rx has dropped a byte of it.
\* (driver.rs: line_buf in poll.)
THEOREM PanicNeedsHole == ASSUME LineBufFits PROVE Spec => OverlongNeedsHole
PROOF
  <1>1. SizingInd /\ [Next]_vars => [framing' = "overlong" => framing # "intact"]_vars
    <2>1. SUFFICES ASSUME SizingInd, Next, framing' = "overlong", framing = "intact"
                   PROVE  FALSE
      OBVIOUS
    <2>2. PICK n \in Reads : Read(n)
      BY <2>1 DEF Next, PollsAgain
    <2>3. ReadTooLong(n)
      BY <2>1, <2>2 DEF Read, ReadLines, ReadUnclaimed, ReadJammed, Resumes
    <2> QED BY <2>1, <2>3, LineOfRadio DEF ReadTooLong
  <1> QED BY <1>1, SizingInit, SizingNext, PTL DEF Spec, OverlongNeedsHole

\* Three inequalities are enough for the whole traffic of the radio: with room for a line
\* short of its last byte and a read, with room for two reads, and with a line_buf for
\* the longest line, no byte is ever dropped and poll() never panics.  (driver.rs:
\* push_rx, poll; the read loops of the three hosts.)
THEOREM EnoughForReads ==
  ASSUME LineAndReadFit, TwoReadsFit, LineBufFits
  PROVE  Spec => []NoLoss
PROOF
  <1>1. SizingInd /\ NoLoss /\ [Next]_vars => NoLoss'
    <2>1. SUFFICES ASSUME SizingInd, NoLoss, [Next]_vars PROVE NoLoss'
      OBVIOUS
    <2>2. CASE PollsAgain \/ UNCHANGED vars
      BY <2>1, <2>2 DEF NoLoss, PollsAgain, vars
    <2>3. ASSUME NEW n \in Reads, Read(n) PROVE NoLoss'
      <3>1. Kept(n) = n /\ ~TooLong(Kept(n))
        BY <2>1, DropFacts, LineOfRadio DEF NoLoss
      <3>2. Kept(n) \in Nat
        BY <2>1, <2>3, KeptFits DEF SizingInd
      <3>3. ~(Kept(n) < n)
        BY <3>1, <3>2
      <3> QED
        BY <2>1, <2>3, <3>1, <3>3
        DEF NoLoss, Read, ReadTooLong, ReadLines, ReadUnclaimed, ReadJammed
    <2> QED BY <2>1, <2>2, <2>3 DEF Next
  <1>2. Init => NoLoss
    BY DEF Init, NoLoss
  <1> QED BY <1>1, <1>2, SizingInit, SizingNext, PTL DEF Spec

\* A line_buf as long as rx would rule the panic out whatever is dropped, merged or left
\* in rx; the source's is shorter.  (driver.rs: line_buf in poll.)
THEOREM EnoughForLines == ASSUME RxFitsLineBuf PROVE Spec => []LineFits
PROOF
  <1>1. SizingInd /\ LineFits /\ [Next]_vars => LineFits'
    <2>1. SUFFICES ASSUME SizingInd, LineFits, [Next]_vars PROVE LineFits'
      OBVIOUS
    <2>2. CASE PollsAgain \/ UNCHANGED vars
      BY <2>1, <2>2 DEF LineFits, PollsAgain, vars
    <2>3. ASSUME NEW n \in Reads, Read(n) PROVE LineFits'
      <3>1. /\ Kept(n) \in Nat /\ behind + held + Kept(n) <= RX_BUF
            /\ behind \in Nat /\ held \in Nat /\ left \in Nat
            /\ RX_BUF \in Nat /\ LINE_BUF \in Nat
        BY <2>1, <2>3, KeptFits, SizeAssumption DEF SizingInd, SizingTypeOK
      <3>2. ~TooLong(Kept(n))
        BY <3>1 DEF TooLong, RxFitsLineBuf
      <3> QED
        BY <2>1, <2>3, <3>2
        DEF LineFits, Read, ReadTooLong, ReadLines, ReadUnclaimed, ReadJammed, Resumes
    <2> QED BY <2>1, <2>2, <2>3 DEF Next
  <1>2. Init => LineFits
    BY DEF Init, LineFits
  <1> QED BY <1>1, <1>2, SizingInit, SizingNext, PTL DEF Spec
=============================================================================
