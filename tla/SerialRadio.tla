----------------------------- MODULE SerialRadio -----------------------------
(***************************************************************************)
(* The RYLR998 module at the other end of the serial line, as the code in  *)
(* src/ expects it to behave: it answers one command at a time, each with  *)
(* one line that carries the value asked for, "+OK" or "+ERR=" (a factory  *)
(* reset with +RESET and, once it is up again, +READY), and it sends a     *)
(* +RCV line whenever a peer transmits.  An answer may come arbitrarily    *)
(* late.  A +RCV carries its number, an answer the argument of the command *)
(* it answers.                                                             *)
(***************************************************************************)
EXTENDS Driver

CONSTANTS
  MaxRcv,         \* bound on the peers' transmissions
  MaxLost,        \* bound on the answers that get lost
  JustBooted      \* the module powered up as the port was opened

\* A +RCV carries its number; CR and LF carry 0.
ASSUME RadioAssumption ==
  MaxRcv \in Nat /\ MaxLost \in Nat /\ 0..MaxRcv \subseteq Vals /\ JustBooted \in BOOLEAN

VARIABLES
  to_radio,    \* encoded units written to the port, not yet executed
  from_radio,  \* tokens the port has received, not yet read
  rcv_sent,    \* number of +RCV lines sent
  lost,        \* number of answers that got lost
  booting      \* the factory reset being carried out, or NotBooting

radioVars == <<to_radio, from_radio, rcv_sent, lost, booting>>

NotBooting == [op |-> "None", arg |-> 0]

LineOf(key, val) ==
  <<[key |-> key, ok |-> TRUE, val |-> val],
    [key |-> "CR", ok |-> TRUE, val |-> 0], [key |-> "LF", ok |-> TRUE, val |-> 0]>>

RadioInit ==
  /\ to_radio = <<>>
  /\ from_radio = IF JustBooted THEN LineOf("+READY", 0) ELSE <<>>
  /\ rcv_sent = 0 /\ lost = 0
  /\ booting = NotBooting

Says(line) == from_radio' = from_radio \o line

\* The first n units waiting are one command, whole.
CommandAtHead(n) ==
  /\ Len(to_radio) >= n /\ n = EncodedLen[to_radio[1]]
  /\ \A i \in 1..n : to_radio[i] = to_radio[1]

ExecutedUpTo(n) == to_radio' = SubSeq(to_radio, n + 1, Len(to_radio))

RadioAnswers(n) ==
  /\ booting = NotBooting /\ CommandAtHead(n)
  /\ LET cmd == to_radio[1]
         value == IF cmd.op \in Queries THEN QueryPrefix[QueryOf[cmd.op]] ELSE "+OK"
     IN  IF cmd.op = "FactoryReset"
           THEN Says(LineOf("+RESET", cmd.arg)) /\ booting' = cmd
           ELSE (\E key \in {value, "+ERR="} : Says(LineOf(key, cmd.arg))) /\ UNCHANGED booting
  /\ ExecutedUpTo(n)
  /\ UNCHANGED <<rcv_sent, lost>>

RadioRestarts ==
  /\ booting # NotBooting
  /\ Says(LineOf("+READY", booting.arg))
  /\ booting' = NotBooting
  /\ UNCHANGED <<to_radio, rcv_sent, lost>>

RadioSkipsAnswer(n) ==
  /\ lost < MaxLost /\ lost' = lost + 1
  /\ booting = NotBooting /\ CommandAtHead(n)
  /\ ExecutedUpTo(n)
  /\ UNCHANGED <<from_radio, rcv_sent, booting>>

RadioReceives ==
  /\ rcv_sent < MaxRcv
  /\ rcv_sent' = rcv_sent + 1
  /\ Says(LineOf("+RCV", rcv_sent'))
  /\ UNCHANGED <<to_radio, lost, booting>>

RadioReplies == (\E n \in 1..Len(to_radio) : RadioAnswers(n)) \/ RadioRestarts

RadioNext ==
  \/ RadioReplies
  \/ \E n \in 1..Len(to_radio) : RadioSkipsAnswer(n)
  \/ RadioReceives

-----------------------------------------------------------------------------
(* For the hosts that compose this module                                  *)

RadioTypeOK ==
  /\ to_radio \in Seq(Commands) /\ from_radio \in Seq(Token)
  /\ rcv_sent \in 0..MaxRcv /\ lost \in 0..MaxLost
  /\ booting \in Commands \cup {NotBooting}

IsRcv(tok) == tok.key = "+RCV"

\* The +RCV lines among these tokens are those numbered first..last, each once
\* and in order.
RcvsAre(toks, first, last) ==
  /\ \A i \in DOMAIN toks : IsRcv(toks[i]) => toks[i].val \in first..last
  /\ \A i, j \in DOMAIN toks :
       i < j /\ IsRcv(toks[i]) /\ IsRcv(toks[j]) => toks[i].val < toks[j].val
  /\ \A n \in first..last : \E i \in DOMAIN toks : IsRcv(toks[i]) /\ toks[i].val = n

\* The numbers handed on so far are the first ones, in order.
CountsUp(numbers) == \A i \in DOMAIN numbers : numbers[i] = i

\* Behind the start of a command that was never finished there is another.
HalfIsBuried ==
  \E n \in 1..(Len(to_radio) - 1) :
    /\ n < EncodedLen[to_radio[1]] /\ to_radio[n + 1] # to_radio[1]
    /\ \A i \in 1..n : to_radio[i] = to_radio[1]
=============================================================================
