------------------------------ MODULE RxSizing ------------------------------
(***************************************************************************)
(* The receive buffer of the core driver under the read loops of the three *)
(* host crates: poll() takes the whole lines out of rx, the beginning of   *)
(* the last one stays, and a read of at most CHUNK bytes is pushed on top  *)
(* of it.  Numbers are bytes, and a length counts the "\r\n".  The radio's *)
(* lines are each one poll() consumes; what push_rx drops leaves a hole,   *)
(* and what comes in behind it may merge two lines or jam the framing.     *)
(***************************************************************************)
EXTENDS Integers

CONSTANTS
  RX_BUF,    \* capacity of Driver::rx
  LINE_BUF,  \* length of Driver::line_buf
  CHUNK,     \* length of the hosts' read buffers
  MAX_LINE,  \* longest line of the radio
  Lines,     \* the lengths its lines have
  Reads,     \* the lengths of the reads
  Totals,    \* how many bytes whole lines may have together
  Cuts,      \* how many bytes of a line have come when a read ends in it
  Wholes     \* how many bytes of whole lines a poll() may leave in rx

ASSUME SizeAssumption ==
  /\ RX_BUF \in Nat /\ LINE_BUF \in Nat /\ CHUNK \in Nat /\ MAX_LINE \in Nat
  /\ Lines \subseteq 2..MAX_LINE
  /\ Reads \subseteq 1..CHUNK
  /\ Totals \subseteq Nat /\ Cuts \subseteq Nat
  /\ Wholes \subseteq Totals /\ 0 \in Wholes

VARIABLES
  behind,   \* bytes of whole lines that poll() left in rx
  held,     \* bytes of the unfinished line behind them
  left,     \* bytes of that line that are still to come
  framing   \* "intact" until a byte is dropped, then "damaged"; "jammed" if poll()
            \* will never take the line in rx; "overlong" if a whole line in rx is
            \* longer than line_buf: poll() panics when it comes to it

vars == <<behind, held, left, framing>>

Init == behind = 0 /\ held = 0 /\ left \in Lines /\ framing = "intact"

-----------------------------------------------------------------------------
(* push_rx, and the drain loop of the hosts after it                       *)

\* Length of "+RCV", by which poll() knows an event.
PREFIX == 4

Room == RX_BUF - behind - held

\* Mistake: one byte of the capacity is never used.
KeptOneShort(n) == IF n > Room - 1 THEN Room - 1 ELSE n

\* What push_rx keeps of a read of n bytes.
Kept(n) == IF n > Room THEN Room ELSE n

\* The line that has begun when n bytes have gone by, of whole lines but for its own.
Begun(n) ==
  {p \in {[held |-> r, left |-> length - r] : length \in Lines, r \in Cuts} :
     p.left > 0 /\ p.held <= n /\ n - p.held \in Totals}

\* Mistake: the end of the line is not noticed.
UnfinishedAlways(k) == {[held |-> held + k, left |-> left - k]}

\* Mistake: the finished line is not drained.
UnfinishedKept(k) ==
  IF k < left THEN {[held |-> held + k, left |-> left - k]}
  ELSE {[p EXCEPT !.held = @ + held + left] : p \in Begun(k - left)}

\* The unfinished line at the end of rx once k bytes were kept: they end inside the
\* line, or end it and any number of further ones.
Unfinished(k) ==
  IF k < left THEN {[held |-> held + k, left |-> left - k]} ELSE Begun(k - left)

\* poll() takes the whole lines, or stops with the last b bytes of them left: at a
\* response that ends a job of the tokio task, or at a damaged line that does not
\* parse.  Only behind such a line may a response come up that was there before.
Leaves(k, h, b) ==
  \/ b = 0
  \/ /\ b + h <= k - left /\ k - left - h - b \in Totals
     /\ framing = "intact" => behind = 0
  \/ framing = "damaged" /\ b - (held + k - h) \in 0..(behind - 1)

\* With p of a line in rx, d bytes are dropped: how far that line has come then, or the
\* one that is being sent.
Skipped(d, p) ==
  IF d < p.left THEN {[held |-> p.held + d, left |-> p.left - d]} ELSE Begun(d - p.left)

\* What ends the line in rx once d > 0 bytes are dropped.  A CR counts with an LF
\* behind it: the line merges with another where its CR is dropped.  poll() comes no
\* further where its LF is dropped, nor where too little of a line is left to tell
\* what it was, unless another goes on at the same place.
Resumes(d, p) ==
  \E q \in Skipped(d, p) :
    /\ IF p.left > 1 /\ q.left = 1 THEN \E length \in Lines : left' = 1 + length
                                   ELSE left' = q.left
    /\ framing' = IF \/ p.left = 1 /\ q.left > 1
                     \/ p.held < PREFIX /\ q.held # p.held
                  THEN "jammed" ELSE "damaged"

-----------------------------------------------------------------------------
(* A read                                                                  *)

\* The line that ends is too long for line_buf.
TooLong(k) == k >= left /\ held + left - 2 > LINE_BUF

ReadTooLong(n) ==
  /\ framing \in {"intact", "damaged"} /\ TooLong(Kept(n))
  /\ framing' = "overlong"
  /\ UNCHANGED <<behind, held, left>>

\* push_rx takes all of the read, or what fits.
ReadLines(n) ==
  /\ framing \in {"intact", "damaged"} /\ ~TooLong(Kept(n))
  /\ \E p \in Unfinished(Kept(n)), b \in Wholes :
       /\ Leaves(Kept(n), p.held, b) /\ behind' = b
       /\ held' = p.held
       /\ \/ Kept(n) = n /\ left' = p.left /\ UNCHANGED framing
          \/ Kept(n) < n /\ Resumes(n - Kept(n), p)

\* A line with a hole ends, and neither an event nor an answer begins like it.
ReadUnclaimed(n) ==
  /\ framing = "damaged" /\ Kept(n) >= left
  /\ framing' = "jammed" /\ held' = held + Kept(n)
  /\ UNCHANGED <<behind, left>>

\* poll() finds no line any more, and rx fills up.
ReadJammed(n) ==
  /\ framing = "jammed"
  /\ held' = held + Kept(n)
  /\ UNCHANGED <<behind, left, framing>>

Read(n) == ReadTooLong(n) \/ ReadLines(n) \/ ReadUnclaimed(n) \/ ReadJammed(n)

\* The next job polls before it reads.
PollsAgain ==
  /\ framing # "overlong" /\ behind > 0
  /\ behind' = 0
  /\ UNCHANGED <<held, left, framing>>

Next == PollsAgain \/ \E n \in Reads : Read(n)

Spec == Init /\ [][Next]_vars

-----------------------------------------------------------------------------
\* The counts stay counts, rx keeps to its capacity, and a line always lacks its end.
SizingTypeOK ==
  /\ behind \in Nat /\ held \in Nat /\ left \in Nat \ {0}
  /\ behind + held <= RX_BUF
  /\ framing \in {"intact", "damaged", "jammed", "overlong"}

\* push_rx drops a byte of an intact stream only while a line longer than
\* RX_BUF - CHUNK + 1 bytes is coming in, however the lines are cut into reads and
\* wherever a job leaves lines behind its response: with the sizes of the source, a
\* +RCV line of 258 to 266 bytes.  (driver.rs: push_rx; the read loops.)
LossOnlyInLongLine ==
  [][framing = "intact" /\ framing' \in {"damaged", "jammed"}
       => held + left > RX_BUF - CHUNK + 1]_vars

\* A whole line overruns line_buf, and poll() panics, only where a line of the radio
\* was merged with another over a hole.  (driver.rs: line_buf in poll.)
OverlongNeedsHole == [][framing' = "overlong" => framing # "intact"]_vars

\* No read overflows rx: push_rx never drops a byte of the radio's traffic.
NoLoss == framing = "intact"

\* line_buf takes every whole line of rx, as its comment has it.  (driver.rs: line_buf.)
LineFits == framing # "overlong"

\* The inequalities that make the buffers large enough: for a line short of its last
\* byte and a read, for two reads where lines are left behind a response, and for the
\* longest line of the radio.
LineAndReadFit == MAX_LINE - 1 + CHUNK <= RX_BUF
TwoReadsFit    == 2 * CHUNK - 1 <= RX_BUF
LineBufFits    == MAX_LINE - 2 <= LINE_BUF

\* No such bound on the radio's lines is needed where line_buf is as long as rx.
RxFitsLineBuf  == RX_BUF - 2 <= LINE_BUF
=============================================================================
