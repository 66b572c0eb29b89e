------------------------------- MODULE Codec --------------------------------
(***************************************************************************)
(* Lines as bytes: what encode.rs writes and decode.rs reads.  A byte is a *)
(* member of Byte; the prefix of an answer ("+BAND=", ...) is one member   *)
(* too, and so are "+RCV" and the text "No Password!".  Integers have the  *)
(* width of their Rust type.  TLC's end at 2^31 - 1, which stands for the  *)
(* largest u32 and usize.                                                  *)
(***************************************************************************)
EXTENDS Integers, SequencesExt, FiniteSetsExt

U8_MAX  == 255
U16_MAX == 65535
U32_MAX == 2147483647
I16_MAX == 32767

DIGITS   == <<"0", "1", "2", "3", "4", "5", "6", "7", "8", "9">>
Digit    == {DIGITS[i] : i \in 1..10}
HexDigit == Digit \cup {"A", "B", "C", "D", "E", "F", "a", "b", "c", "d", "e", "f"}

\* What a user can set and read back, and the prefix of the answer to its query.
PrefixOf ==
  [Address |-> "+ADDRESS=", NetworkId |-> "+NETWORKID=", Band |-> "+BAND=",
   Parameters |-> "+PARAMETER=", Cpin |-> "+CPIN="]

Setting == DOMAIN PrefixOf

\* "G" is a character without a meaning, "0xFF" a byte that is not UTF-8.
Byte == HexDigit \cup {",", "-", "+", "G", "0xFF", "CR", "LF", "NoPassword", "+RCV", "="}
          \cup {PrefixOf[s] : s \in Setting}

CRLF == <<"CR", "LF">>

-----------------------------------------------------------------------------
(* encode.rs                                                               *)

\* Mistake: zero has no digits.
DecimalWithoutZero(n) ==
  LET digits[m \in Nat] ==
        IF m = 0 THEN <<>> ELSE Append(digits[m \div 10], DIGITS[(m % 10) + 1])
  IN  digits[n]

\* Writer::u16 and Writer::u32: the digits, the last one found first, reversed.
Decimal(n) ==
  LET digits[m \in Nat] ==
        IF m = 0 THEN <<>> ELSE Append(digits[m \div 10], DIGITS[(m % 10) + 1])
  IN  IF n = 0 THEN <<"0">> ELSE digits[n]

\* What a Set command carries behind its prefix.
EncodeValue(setting, val) ==
  CASE setting = "Parameters" -> Decimal(val[1]) \o <<",">> \o Decimal(val[2]) \o <<",">>
                                   \o Decimal(val[3]) \o <<",">> \o Decimal(val[4])
    [] setting = "Cpin" -> val
    [] OTHER -> Decimal(val)

-----------------------------------------------------------------------------
(* decode.rs                                                               *)

Parsed(val) == [ok |-> TRUE, val |-> val]
ParseError  == [ok |-> FALSE, val |-> 0]

DigitValue == [d \in Digit |-> CHOOSE k \in 0..9 : DIGITS[k + 1] = d]

\* The number the digits stand for, or -1 if it is above the limit.
Value(digits, limit) ==
  LET upto[i \in 0..Len(digits)] ==
        IF i = 0 THEN 0
        ELSE LET d == DigitValue[digits[i]]
             IN  IF upto[i - 1] = -1 \/ upto[i - 1] > (limit - d) \div 10
                   THEN -1 ELSE 10 * upto[i - 1] + d
  IN  upto[Len(digits)]

\* str::parse for an integer type of the range low..high: a sign, if there is
\* one, then digits; "-" only for a signed type.
ParseInt(bytes, low, high) ==
  LET negative == bytes # <<>> /\ bytes[1] = "-" /\ low < 0
      digits == IF bytes # <<>> /\ (bytes[1] = "+" \/ negative) THEN Tail(bytes) ELSE bytes
      limit  == IF negative THEN -low ELSE high
  IN  IF \/ digits = <<>> \/ ~(ToSet(digits) \subseteq Digit)
         \/ Value(digits, limit) = -1
        THEN ParseError
        ELSE Parsed(IF negative THEN -Value(digits, limit) ELSE Value(digits, limit))

\* take_until_comma
Comma(bytes)       == SelectInSeq(bytes, LAMBDA b : b = ",")
HasComma(bytes)    == Comma(bytes) # 0
BeforeComma(bytes) == SubSeq(bytes, 1, Comma(bytes) - 1)
AfterComma(bytes)  == SubSeq(bytes, Comma(bytes) + 1, Len(bytes))

\* bytes.split(','): the k-th part ends at the k-th comma, the last at the end.
Split(bytes) ==
  LET commas == {i \in DOMAIN bytes : bytes[i] = ","}
      cut[k \in 0..(Cardinality(commas) + 1)] ==
        CASE k = 0 -> 0
          [] k \in 1..Cardinality(commas) ->
               CHOOSE i \in commas : Cardinality({j \in commas : j <= i}) = k
          [] OTHER -> Len(bytes) + 1
  IN  [k \in 1..(Cardinality(commas) + 1) |-> SubSeq(bytes, cut[k - 1] + 1, cut[k] - 1)]

ParseParameters(bytes) ==
  LET parts == [k \in DOMAIN Split(bytes) |-> ParseInt(Split(bytes)[k], 0, U8_MAX)]
  IN  IF Len(parts) = 4 /\ \A k \in 1..4 : parts[k].ok
        THEN Parsed([k \in 1..4 |-> parts[k].val]) ELSE ParseError

ParseCpin(bytes) ==
  CASE bytes = <<"NoPassword">> -> Parsed(<<>>)
    [] Len(bytes) = 8 /\ ToSet(bytes) \subseteq HexDigit /\ ToSet(bytes) # {"0"} -> Parsed(bytes)
    [] OTHER -> ParseError

\* parse_response, for a line that starts with the prefix of the setting
ParseAnswer(setting, line) ==
  LET bytes == Tail(line) IN
  CASE setting = "Address"    -> ParseInt(bytes, 0, U16_MAX)
    [] setting = "NetworkId"  -> ParseInt(bytes, 0, U8_MAX)
    [] setting = "Band"       -> ParseInt(bytes, 0, U32_MAX)
    [] setting = "Parameters" -> ParseParameters(bytes)
    [] setting = "Cpin"       -> ParseCpin(bytes)

\* Mistake: it is not checked that the data ends where a field ends.
DataFits(rest, len) == Len(rest) >= len + 1

DataEnds(rest, len) == Len(rest) >= len + 1 /\ rest[len + 1] = ","

\* parse_event, for a line that starts with "+RCV": =from,len,data,rssi,snr
ParseRcv(line) ==
  LET fields == Tail(Tail(line))
      from   == ParseInt(BeforeComma(fields), 0, U16_MAX)
      rest   == AfterComma(AfterComma(fields))
      len    == ParseInt(BeforeComma(AfterComma(fields)), 0, U32_MAX)
      signal == SubSeq(rest, len.val + 2, Len(rest))
      rssi   == ParseInt(BeforeComma(signal), -I16_MAX - 1, I16_MAX)
      snr    == ParseInt(AfterComma(signal), -I16_MAX - 1, I16_MAX)
  IN  IF /\ Len(line) >= 2 /\ line[2] = "="
         /\ HasComma(fields) /\ from.ok /\ HasComma(AfterComma(fields)) /\ len.ok
         /\ DataEnds(rest, len.val)
         /\ HasComma(signal) /\ rssi.ok /\ snr.ok
        THEN Parsed([from |-> from.val, data |-> SubSeq(rest, 1, len.val),
                     rssi |-> rssi.val, snr |-> snr.val])
        ELSE ParseError
=============================================================================
