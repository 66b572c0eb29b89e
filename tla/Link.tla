-------------------------------- MODULE Link --------------------------------
(***************************************************************************)
(* The bytes between a host and its RYLR998 module: settings are written   *)
(* and read back, peers' payloads come in as +RCV lines.  The module, the  *)
(* peers and the wire are external; the host is the receiving half of      *)
(* driver.rs (push_rx, next_line_end, drain_rx_line, poll) over Codec.     *)
(* Reads end anywhere, and the wire may lose bytes.                        *)
(***************************************************************************)
EXTENDS Codec

CONSTANTS
  RX_BUF,      \* capacity of rx
  ReadSizes,   \* how many bytes a read may return
  Payloads,    \* what peers send
  Signals,     \* [from, rssi, snr] of a transmission
  Settings,    \* [setting, val] the host may set
  MaxLines,    \* bound on the lines the module sends
  MaxNoise     \* bound on the bytes the wire loses

\* The values the types of a setting allow.
WellTyped(s) ==
  CASE s.setting = "Address"    -> s.val \in 0..U16_MAX
    [] s.setting = "NetworkId"  -> s.val \in 0..U8_MAX
    [] s.setting = "Band"       -> s.val \in 0..U32_MAX
    [] s.setting = "Parameters" -> s.val \in [1..4 -> 0..U8_MAX]
    [] s.setting = "Cpin"       -> \/ s.val = <<>>
                                   \/ s.val \in [1..8 -> HexDigit] /\ ToSet(s.val) # {"0"}

\* A setting the host can set.
IsSetting(s) ==
  s = [setting |-> s.setting, val |-> s.val] /\ s.setting \in Setting /\ WellTyped(s)

I16    == (-I16_MAX - 1)..I16_MAX
Signal == [from : 0..U16_MAX, rssi : I16, snr : I16]
Event  == [from : 0..U16_MAX, data : Seq(Byte), rssi : I16, snr : I16]

ASSUME LinkAssumption ==
  /\ RX_BUF \in Nat /\ MaxLines \in Nat /\ MaxNoise \in Nat
  /\ ReadSizes \subseteq Nat \ {0}
  /\ \A data \in Payloads : data \in Seq(Byte) /\ Len(data) <= U32_MAX
  /\ Signals \subseteq Signal
  /\ \A s \in Settings : IsSetting(s)

VARIABLES
  wire,     \* bytes the module sent and the host has not read
  rx,       \* the driver's receive buffer
  dropped,  \* the last line polled did not parse: poll returned Idle after it
  asked,    \* the setting whose query is in flight, or "None"
  reply,    \* what the last query returned, or NoReply
  wanted,   \* history: the value set last
  asks,     \* number of settings set and read back
  sent,     \* history: what the peers sent
  got,      \* history: the events poll returned
  noise     \* number of bytes lost

linkVars == <<wire, rx, dropped, asked, reply, wanted, asks, sent, got, noise>>

NoReply == [ok |-> TRUE, val |-> "None"]

LinkInit ==
  /\ wire = <<>> /\ rx = <<>> /\ dropped = FALSE /\ asked = "None" /\ reply = NoReply
  /\ wanted = [setting |-> "None", val |-> "None"] /\ asks = 0
  /\ sent = <<>> /\ got = <<>> /\ noise = 0

-----------------------------------------------------------------------------
(* The module, the peers and the wire                                      *)

\* A number as the module prints it.
Printed(n) == IF n < 0 THEN <<"-">> \o Decimal(-n) ELSE Decimal(n)

RcvLine(data, signal) ==
  <<"+RCV", "=">> \o Printed(signal.from) \o <<",">> \o Printed(Len(data)) \o <<",">> \o data
    \o <<",">> \o Printed(signal.rssi) \o <<",">> \o Printed(signal.snr) \o CRLF

PeerSends(data, signal) ==
  /\ Len(sent) + asks < MaxLines
  /\ sent' = Append(sent, [from |-> signal.from, data |-> data,
                           rssi |-> signal.rssi, snr |-> signal.snr])
  /\ wire' = wire \o RcvLine(data, signal)
  /\ UNCHANGED <<rx, dropped, asked, reply, wanted, asks, got, noise>>

\* A prefix is lost as a whole: poll() knows no part of it either.
WireLosesByte(i) ==
  /\ noise < MaxNoise /\ noise' = noise + 1
  /\ wire' = RemoveAt(wire, i)
  /\ UNCHANGED <<rx, dropped, asked, reply, wanted, asks, sent, got>>

-----------------------------------------------------------------------------
(* The host                                                                *)

\* The module keeps the text it was sent and answers with it; where no password
\* was ever set it says so.
TextOf(s) ==
  IF s.setting = "Cpin" /\ s.val = <<>> THEN <<"NoPassword">> ELSE EncodeValue(s.setting, s.val)

AnswerLine(s) == <<PrefixOf[s.setting]>> \o TextOf(s) \o CRLF

\* A value is set and then queried.
HostSetsAndAsks(s) ==
  /\ asked = "None" /\ Len(sent) + asks < MaxLines /\ asks' = asks + 1
  /\ wanted' = s /\ asked' = s.setting /\ reply' = NoReply
  /\ wire' = wire \o AnswerLine(s)
  /\ UNCHANGED <<rx, dropped, sent, got, noise>>

\* Mistake: the line ends at the first LF.
LineEndAtLF(r) ==
  /\ r + 1 <= Len(rx) /\ rx[r + 1] = "LF"
  /\ \A i \in 1..r : rx[i] # "LF"

\* next_line_end: the first CR is at r and an LF follows it.
LineEnd(r) ==
  /\ r + 1 <= Len(rx) /\ rx[r] = "CR" /\ rx[r + 1] = "LF"
  /\ \A i \in 1..(r - 1) : rx[i] # "CR"

StartsWith(line, prefix) == line # <<>> /\ line[1] = prefix

\* poll() can do something about a line of rx.
Claimed(line) ==
  StartsWith(line, "+RCV") \/ (asked # "None" /\ StartsWith(line, PrefixOf[asked]))

LineUpTo(r) == SubSeq(rx, 1, r - 1)

LineReady == \E r \in DOMAIN rx : LineEnd(r) /\ Claimed(LineUpTo(r))

\* drain_rx_line
Drain(r) == rx' = SubSeq(rx, r + 2, Len(rx))

\* poll, at an event: a line that does not parse is dropped.
HostPollsEvent(r) ==
  /\ LineEnd(r) /\ StartsWith(LineUpTo(r), "+RCV")
  /\ Drain(r)
  /\ LET event == ParseRcv(LineUpTo(r))
     IN  /\ got' = IF event.ok THEN Append(got, event.val) ELSE got
         /\ dropped' = ~event.ok
  /\ UNCHANGED <<wire, asked, reply, wanted, asks, sent, noise>>

\* poll, at the answer to the query: a line that does not parse frees the slot.
HostPollsAnswer(r) ==
  /\ LineEnd(r) /\ asked # "None" /\ StartsWith(LineUpTo(r), PrefixOf[asked])
  /\ Drain(r)
  /\ reply' = ParseAnswer(asked, LineUpTo(r)) /\ dropped' = ~reply'.ok
  /\ asked' = "None"
  /\ UNCHANGED <<wire, wanted, asks, sent, got, noise>>

\* Mistake: the host reads again while there are lines to poll.
HostReadsOn(n) ==
  /\ n <= Len(wire)
  /\ rx' = rx \o SubSeq(wire, 1, n)
  /\ wire' = SubSeq(wire, n + 1, Len(wire)) /\ dropped' = FALSE
  /\ UNCHANGED <<asked, reply, wanted, asks, sent, got, noise>>

\* poll() returned Idle: there is no line for it, or there was one that did not
\* parse, whatever is behind it.  push_rx keeps what fits.
HostReads(n) ==
  /\ ~LineReady \/ dropped
  /\ n <= Len(wire) /\ dropped' = FALSE
  /\ LET fits == Min({n, RX_BUF - Len(rx)}) IN rx' = rx \o SubSeq(wire, 1, fits)
  /\ wire' = SubSeq(wire, n + 1, Len(wire))
  /\ UNCHANGED <<asked, reply, wanted, asks, sent, got, noise>>

-----------------------------------------------------------------------------
HostPolls == \E r \in DOMAIN rx : HostPollsEvent(r) \/ HostPollsAnswer(r)

LinkNext ==
  \/ \E data \in Payloads, signal \in Signals : PeerSends(data, signal)
  \/ \E i \in DOMAIN wire : WireLosesByte(i)
  \/ \E s \in Settings : HostSetsAndAsks(s)
  \/ HostPolls
  \/ \E n \in ReadSizes : HostReads(n)

LinkSpec == LinkInit /\ [][LinkNext]_linkVars

-----------------------------------------------------------------------------
LinkTypeOK ==
  /\ wire \in Seq(Byte) /\ rx \in Seq(Byte) /\ Len(rx) <= RX_BUF
  /\ dropped \in BOOLEAN /\ asked \in Setting \cup {"None"} /\ reply.ok \in BOOLEAN
  /\ asks \in 0..MaxLines /\ noise \in 0..MaxNoise
  /\ sent \in Seq(Event) /\ got \in Seq(Event)

\* The event that is read of a transmission where the wire lost a byte of it: one of the
\* numbers is another.  Or the comma behind the sender is lost, whose digits then run into
\* those of the length, and the payload up to its own first comma is taken for the length:
\* nothing tells "0,3,1,G,-7,1" from "03,1,G,-7,1".
Misread(event, transmission) ==
  \/ \E field \in {"from", "rssi", "snr"} :
       [event EXCEPT ![field] = transmission[field]] = transmission
  \/ event = [transmission EXCEPT
                !.from = Value(Decimal(@) \o Decimal(Len(transmission.data)), U16_MAX),
                !.data = AfterComma(@)]

\* The events are transmissions, each at most once and in the order sent, and as many as
\* bytes were lost may be misread: no payload is cut short, merged with the next one or
\* given to another sender by what is lost in it, in front of it or behind it.  (The
\* checks of parse_event; next_line_end, drain_rx_line.)
PayloadsWhole ==
  \E f \in [DOMAIN got -> DOMAIN sent] :
    /\ \A i, j \in DOMAIN got : i < j => f[i] < f[j]
    /\ \A i \in DOMAIN got : got[i] = sent[f[i]] \/ Misread(got[i], sent[f[i]])
    /\ Cardinality({i \in DOMAIN got : got[i] # sent[f[i]]}) <= noise

\* A payload without the byte a line ends with.
EndsNoLine(data) == \A i \in DOMAIN data : data[i] # "CR"

\* A read fits into rx behind all of a line but its last byte.
RoomToRead ==
  \A n \in ReadSizes :
    /\ \A data \in Payloads, signal \in Signals : Len(RcvLine(data, signal)) + n <= RX_BUF + 1
    /\ \A s \in Settings : Len(AnswerLine(s)) + n <= RX_BUF + 1

Quiet == wire = <<>> /\ ~LineReady

\* Without loss every transmission is returned once, in order, with its sender
\* and its signal: however the reads cut the lines, whatever the payload holds.
\* (parse_event, next_line_end, drain_rx_line.)
EveryPayloadArrives == Quiet /\ noise = 0 => got = sent

\* A setting that was set is read back as the same value, by a query that does
\* not fail: what the Set command writes fits what the query parses, for every
\* type. (encode and parse_response.)
SettingsReadBack ==
  Quiet /\ noise = 0 /\ asks > 0 => reply.ok /\ reply.val = wanted.val
=============================================================================
