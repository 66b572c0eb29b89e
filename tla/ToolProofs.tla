----------------------------- MODULE ToolProofs -----------------------------
(***************************************************************************)
(* What a session of the tool has read back is what the module holds, and  *)
(* a session that succeeds left every setting there, for every value of    *)
(* the constants.                                                          *)
(***************************************************************************)
EXTENDS Tool, SequenceTheorems, TLAPS

-----------------------------------------------------------------------------
(* The inductive invariant                                                 *)

Asked == Setting \cup Fixed

Calls ==
  [op : {"Ping", "Reset", "Send", "Listen"}, setting : {None}, val : {NoVal}]
    \cup [op : {"Get"}, setting : Asked, val : Vals \cup {NoVal}]
    \cup [op : {"Set"}, setting : Setting, val : Vals]

Lines == [key : Setting, val : Vals]
           \cup [key : Fixed \cup {"+OK", "+ERR=", "+READY", "+RESET"}, val : {NoVal}]

\* The call changes the setting in the module.
Touches(c, s) == c.op = "Reset" \/ (c.op = "Set" /\ c.setting = s)

\* Every Set is read back by the call behind it, with the value it was to make.
ReadsBack(p) ==
  \A i \in 1..Len(p) : p[i].op = "Set" =>
    i + 1 <= Len(p) /\ p[i + 1] = Call("Get", p[i].setting, p[i].val)

\* What was read is not changed any more.
ReadsLast(p) ==
  \A i, j \in 1..Len(p) : i < j /\ p[i].op = "Get" => ~Touches(p[j], p[i].setting)

\* Of two calls in a row one reads; the first call does not.
Alternates(p) ==
  /\ \A i \in 1..(Len(p) - 1) : p[i].op = "Get" \/ p[i + 1].op = "Get"
  /\ Len(p) > 0 => p[1].op # "Get"

\* Behind a ping there is a call.
PingIsNotLast(p) == \A i \in 1..Len(p) : p[i].op = "Ping" => i + 1 <= Len(p)

\* A session that listens does nothing else.
ListensAlone(p) == Len(p) > 1 => p[1].op # "Listen"

Proper(p) ==
  ReadsBack(p) /\ ReadsLast(p) /\ Alternates(p) /\ PingIsNotLast(p) /\ ListensAlone(p)

Types ==
  /\ pc \in {"shell", "call", "wait", "listen", "event"}
  /\ slot \in {"Idle", "Ack", "Unsent"} \cup Asked
  /\ resetting \in BOOLEAN /\ (resetting => slot \in {"Ack", "Unsent"}) /\ stop \in BOOLEAN
  /\ seen \subseteq [setting : Setting, val : Vals]
  /\ stored \in [Setting -> Vals]
  /\ plan \in Seq(Calls) /\ session \in Seq(Calls) /\ inbox \in Seq(Calls) /\ line \in Seq(Lines)
  /\ (pc = "shell" <=> plan = <<>>) /\ (status = "Success" => pc = "shell")

\* The plan is the rest of the session.
OnPlan ==
  /\ Proper(session) /\ Len(plan) <= Len(session)
  /\ \A i \in 1..Len(plan) : plan[i] = session[Len(session) - Len(plan) + i]

NoGet(s) == \A i \in 1..Len(s) : s[i].op # "Get"

\* Until a line frees the slot of the first call: the module may still be at a
\* command of an earlier session, whose answer then is the first line.
Early ==
  /\ seen = {} /\ slot \in {"Idle", "Ack", "Unsent"} /\ pc # "shell"
  /\ pc = "wait" => slot = "Ack" /\ plan[1].op # "Get"
  /\ pc \in {"listen", "event"} => Len(plan) = 1 /\ slot = "Idle"
  /\ slot = "Idle" => /\ plan[1].op # "Get" /\ Len(inbox) <= 1
                      /\ line # <<>> => inbox = <<>>
  /\ Len(inbox) <= 2 /\ (Len(inbox) = 2 => inbox[2].op # "Get")
  /\ line # <<>> => Len(inbox) <= 1 /\ NoGet(inbox)
  /\ \A k \in 2..Len(line) : line[k].key \notin Asked

\* From then on all commands and lines are of this session.  A query in the inbox
\* is the last command there and the call that waits; its answer is the last line.
Late ==
  /\ pc \in {"call", "wait"}
  /\ slot \in Asked => pc = "wait"
  /\ pc = "wait" => slot = Awaited(plan[1]) \/ (slot = "Idle" /\ plan[1].op # "Get")
  /\ \A j \in 1..Len(inbox) : inbox[j].op = "Get" =>
       pc = "wait" /\ j = Len(inbox) /\ inbox[j] = plan[1] /\ slot = plan[1].setting
  /\ \A k \in 1..Len(line) : line[k].key \in Asked =>
       /\ pc = "wait" /\ inbox = <<>> /\ k = Len(line)
       /\ plan[1].op = "Get" /\ plan[1].setting = line[k].key /\ slot = line[k].key
       /\ line[k].key \in Setting => line[k].val = stored[line[k].key]
  /\ IF plan[1].op = "Get"
       THEN IF pc = "call" THEN Len(inbox) <= 1 ELSE Len(inbox) <= 2
       ELSE IF pc = "call" THEN inbox = <<>> /\ line = <<>>
            ELSE Len(inbox) <= 1 /\ (slot # "Idle" /\ line # <<>> => inbox = <<>>)

Over == pc = "shell" /\ Len(inbox) <= 2

\* Nothing under way changes what was read.
SeenStays ==
  \A x \in seen :
    /\ stored[x.setting] = x.val
    /\ \A i \in 1..Len(inbox) : ~Touches(inbox[i], x.setting)
    /\ \A i \in 1..Len(plan) : ~Touches(plan[i], x.setting)

\* What was set, and its query is over, was read.
SetIsSeen ==
  pc # "shell" \/ status = "Success" =>
    \A i \in 1..Len(session) :
      session[i].op = "Set" /\ i + 1 <= Len(session) - Len(plan)
        => [setting |-> session[i].setting, val |-> session[i].val] \in seen

ToolInd == Types /\ OnPlan /\ (Early \/ Late \/ Over) /\ SeenStays /\ SetIsSeen

-----------------------------------------------------------------------------
(* The plans of the tool                                                   *)

\* The fields of a call.
LEMMA CallParts ==
  ASSUME NEW op, NEW s, NEW val
  PROVE  Call(op, s, val).op = op /\ Call(op, s, val).setting = s /\ Call(op, s, val).val = val
PROOF BY DEF Call

\* What is known of a call's setting and value.
LEMMA CallTypes ==
  ASSUME NEW c \in Calls
  PROVE  /\ c.op \in {"Ping", "Reset", "Send", "Listen", "Get", "Set"}
         /\ c.op = "Get" => c.setting \in Asked
         /\ c.op = "Set" => c.setting \in Setting /\ c.val \in Vals
PROOF BY DEF Calls

\* Two elements behind a sequence.
LEMMA PairBehind ==
  ASSUME NEW S, NEW p \in Seq(S), NEW a \in S, NEW b \in S
  PROVE  /\ p \o <<a, b>> \in Seq(S) /\ Len(p \o <<a, b>>) = Len(p) + 2
         /\ \A i \in 1..Len(p) : (p \o <<a, b>>)[i] = p[i]
         /\ (p \o <<a, b>>)[Len(p) + 1] = a /\ (p \o <<a, b>>)[Len(p) + 2] = b
PROOF
  <1>1. <<a, b>> \in Seq(S) /\ Len(<<a, b>>) = 2 /\ <<a, b>>[1] = a /\ <<a, b>>[2] = b
    OBVIOUS
  <1>2. Len(p) \in Nat
    BY LenProperties
  <1> DEFINE q == <<a, b>>
  <1> HIDE DEF q
  <1>3. /\ p \o q \in Seq(S) /\ Len(p \o q) = Len(p) + Len(q)
        /\ \A i \in 1..(Len(p) + Len(q)) : (p \o q)[i] = IF i <= Len(p) THEN p[i] ELSE q[i - Len(p)]
    BY <1>1, ConcatProperties DEF q
  <1>4. Len(q) = 2 /\ q[1] = a /\ q[2] = b
    BY <1>1 DEF q
  <1>5. \A i \in 1..Len(p) : (p \o q)[i] = p[i]
    BY <1>2, <1>3, <1>4
  <1>6. (p \o q)[Len(p) + 1] = q[1] /\ (p \o q)[Len(p) + 2] = q[2]
    BY <1>2, <1>3, <1>4
  <1> QED BY <1>3, <1>4, <1>5, <1>6 DEF q

\* A plan that sets settings of S and reads each of them back.
Sets(p, S) ==
  /\ p \in Seq(Calls) /\ Proper(p)
  /\ \A i \in 1..Len(p) : p[i].op \in {"Set", "Get"} /\ p[i].setting \in S
  /\ Len(p) > 0 => p[Len(p)].op = "Get"

\* Such a plan goes on with another setting.
LEMMA SetsOneMore ==
  ASSUME NEW S, NEW p, Sets(p, S), NEW s \in Setting \ S, NEW val \in Vals
  PROVE  Sets(p \o SetAndVerify(s, val), S \cup {s}) /\ p \o SetAndVerify(s, val) # <<>>
PROOF
  <1> DEFINE t == p \o SetAndVerify(s, val)
             n == Len(p)
  <1>1. Call("Set", s, val) \in Calls /\ Call("Get", s, val) \in Calls
    BY DEF Call, Calls, Asked
  <1>2. p \in Seq(Calls) /\ n \in Nat
    BY LenProperties DEF Sets
  <1>3. /\ t \in Seq(Calls) /\ Len(t) = n + 2
        /\ \A i \in 1..n : t[i] = p[i]
        /\ t[n + 1] = Call("Set", s, val) /\ t[n + 2] = Call("Get", s, val)
    BY <1>1, <1>2, PairBehind DEF SetAndVerify
  <1> HIDE DEF t
  <1>4. /\ t[n + 1].op = "Set" /\ t[n + 1].setting = s /\ t[n + 1].val = val
        /\ t[n + 2].op = "Get" /\ t[n + 2].setting = s
    BY <1>3, CallParts
  <1>5. \A i \in 1..(n + 2) : i \in 1..n \/ i = n + 1 \/ i = n + 2
    BY <1>2
  <1>6. ReadsBack(p) /\ ReadsLast(p) /\ Alternates(p) /\ PingIsNotLast(p)
        /\ (\A i \in 1..n : p[i].op \in {"Set", "Get"} /\ p[i].setting \in S)
        /\ (n > 0 => p[n].op = "Get")
    BY DEF Sets, Proper
  <1>7. ReadsBack(t)
    <2>1. SUFFICES ASSUME NEW i \in 1..(n + 2), t[i].op = "Set"
                   PROVE  i + 1 <= n + 2 /\ t[i + 1] = Call("Get", t[i].setting, t[i].val)
      BY <1>3 DEF ReadsBack
    <2>2. CASE i \in 1..n
      <3>1. i + 1 <= n /\ p[i + 1] = Call("Get", p[i].setting, p[i].val)
        BY <1>3, <1>6, <2>1, <2>2 DEF ReadsBack
      <3>2. i + 1 \in 1..n
        BY <1>2, <2>2, <3>1
      <3> QED BY <1>2, <1>3, <2>2, <3>1, <3>2
    <2>3. CASE i = n + 1
      BY <1>2, <1>3, <1>4, <2>3
    <2>4. CASE i = n + 2
      BY <1>4, <2>1, <2>4
    <2> QED BY <1>5, <2>2, <2>3, <2>4
  <1>8. ReadsLast(t)
    <2>1. SUFFICES ASSUME NEW i \in 1..(n + 2), NEW j \in 1..(n + 2), i < j, t[i].op = "Get"
                   PROVE  ~Touches(t[j], t[i].setting)
      BY <1>3 DEF ReadsLast
    <2>2. i \in 1..n
      BY <1>2, <1>4, <1>5, <2>1
    <2>3. CASE j \in 1..n
      BY <1>3, <1>6, <2>1, <2>2, <2>3 DEF ReadsLast
    <2>4. CASE j \notin 1..n
      <3>1. t[j].op \in {"Set", "Get"} /\ t[j].setting = s /\ t[i].setting \in S
        BY <1>3, <1>4, <1>5, <1>6, <2>2, <2>4
      <3> QED BY <3>1 DEF Touches
    <2> QED BY <2>3, <2>4
  <1>9. Alternates(t)
    <2>1. ASSUME NEW i \in 1..(n + 1) PROVE t[i].op = "Get" \/ t[i + 1].op = "Get"
      <3>1. CASE i \in 1..(n - 1)
        <4>1. i \in 1..n /\ i + 1 \in 1..n
          BY <1>2, <3>1
        <4> QED BY <1>3, <1>6, <3>1, <4>1 DEF Alternates
      <3>2. CASE i = n
        BY <1>2, <1>3, <1>6, <3>2
      <3>3. CASE i = n + 1
        BY <1>2, <1>4, <3>3
      <3> QED BY <1>2, <3>1, <3>2, <3>3
    <2>2. t[1].op # "Get"
      <3>1. CASE n = 0
        BY <1>4, <3>1
      <3>2. CASE n > 0
        BY <1>2, <1>3, <1>6, <3>2 DEF Alternates
      <3> QED BY <1>2, <3>1, <3>2
    <2> QED BY <1>2, <1>3, <2>1, <2>2 DEF Alternates
  <1>10. \A i \in 1..(n + 2) : t[i].op \in {"Set", "Get"} /\ t[i].setting \in S \cup {s}
    BY <1>3, <1>4, <1>5, <1>6
  <1>11. PingIsNotLast(t)
    BY <1>3, <1>10 DEF PingIsNotLast
  <1>12. t # <<>> /\ ListensAlone(t)
    <2>1. 1 \in 1..(n + 2)
      BY <1>2
    <2> QED BY <1>2, <1>3, <1>10, <2>1, EmptySeq DEF ListensAlone
  <1> QED BY <1>2, <1>3, <1>4, <1>7, <1>8, <1>9, <1>10, <1>11, <1>12 DEF Sets, Proper, t

\* Asked for or not: the plan goes on with a setting, or stays as it is.
LEMMA SetsAsked ==
  ASSUME NEW S, NEW p, Sets(p, S), NEW s \in Setting \ S,
         NEW q, q = <<>> \/ \E val \in Vals : q = SetAndVerify(s, val)
  PROVE  Sets(p \o q, S \cup {s}) /\ (p # <<>> \/ q # <<>> => p \o q # <<>>)
PROOF
  <1>1. CASE q = <<>>
    <2>1. p \o q = p
      BY <1>1, ConcatEmptySeq DEF Sets
    <2> QED BY <1>1, <2>1 DEF Sets
  <1>2. ASSUME NEW val \in Vals, q = SetAndVerify(s, val)
        PROVE  Sets(p \o q, S \cup {s}) /\ p \o q # <<>>
    BY <1>2, SetsOneMore
  <1> QED BY <1>1, <1>2

\* provision starts with a Set, and reads back every setting behind its Set.
LEMMA ProvisionIsProper ==
  ASSUME NEW req \in Requests
  PROVE  Sets(ProvisionPlan(req), Setting) /\ ProvisionPlan(req) # <<>>
PROOF
  <1> DEFINE asked(s) == IF s \in DOMAIN req THEN SetAndVerify(s, req[s]) ELSE <<>>
             p1 == asked("address")
             p2 == p1 \o asked("network_id")
             p3 == p2 \o asked("cpin")
             p4 == p3 \o asked("band")
             p5 == p4 \o asked("parameters")
  <1>1. {"address", "network_id"} \subseteq DOMAIN req /\ \A s \in DOMAIN req : req[s] \in Vals
    BY RequestAssumption
  <1>2. \A s : asked(s) = <<>> \/ \E val \in Vals : asked(s) = SetAndVerify(s, val)
    BY <1>1
  <1>3. Sets(<<>>, {})
    <2>1. <<>> \in Seq(Calls) /\ Len(<<>>) = 0 /\ 1..0 = {} /\ 1..(0 - 1) = {}
      BY EmptySeq
    <2> QED BY <2>1 DEF Sets, Proper, ReadsBack, ReadsLast, Alternates, PingIsNotLast, ListensAlone
  <1>4. Sets(p1, {"address"}) /\ p1 # <<>>
    <2>1. p1 = SetAndVerify("address", req["address"]) /\ req["address"] \in Vals
      BY <1>1
    <2>2. p1 \in Seq(Calls)
      <3>1. \A val \in Vals : Call("Set", "address", val) \in Calls /\ Call("Get", "address", val) \in Calls
        BY DEF Call, Calls, Asked, Setting
      <3> QED BY <2>1, <3>1 DEF SetAndVerify
    <2>3. <<>> \o p1 = p1
      BY <2>2, ConcatEmptySeq
    <2>4. "address" \in Setting \ {}
      BY DEF Setting
    <2> HIDE DEF p1
    <2>5. Sets(<<>> \o p1, {} \cup {"address"}) /\ <<>> \o p1 # <<>>
      BY <1>3, <2>1, <2>4, SetsOneMore
    <2> QED BY <2>3, <2>5
  <1> HIDE DEF asked, p1
  <1>5. Sets(p2, {"address"} \cup {"network_id"}) /\ p2 # <<>>
    <2>1. "network_id" \in Setting \ {"address"}
      BY DEF Setting
    <2> QED BY <1>2, <1>4, <2>1, SetsAsked
  <1> HIDE DEF p2
  <1>6. Sets(p3, {"address"} \cup {"network_id"} \cup {"cpin"}) /\ p3 # <<>>
    <2>1. "cpin" \in Setting \ ({"address"} \cup {"network_id"})
      BY DEF Setting
    <2> QED BY <1>2, <1>5, <2>1, SetsAsked
  <1> HIDE DEF p3
  <1>7. Sets(p4, {"address"} \cup {"network_id"} \cup {"cpin"} \cup {"band"}) /\ p4 # <<>>
    <2>1. "band" \in Setting \ ({"address"} \cup {"network_id"} \cup {"cpin"})
      BY DEF Setting
    <2> QED BY <1>2, <1>6, <2>1, SetsAsked
  <1> HIDE DEF p4
  <1>8. /\ Sets(p5, {"address"} \cup {"network_id"} \cup {"cpin"} \cup {"band"} \cup {"parameters"})
        /\ p5 # <<>>
    <2>1. "parameters" \in Setting \ ({"address"} \cup {"network_id"} \cup {"cpin"} \cup {"band"})
      BY DEF Setting
    <2> QED BY <1>2, <1>7, <2>1, SetsAsked
  <1>9. {"address"} \cup {"network_id"} \cup {"cpin"} \cup {"band"} \cup {"parameters"} = Setting
    BY DEF Setting
  <1> QED BY <1>8, <1>9 DEF ProvisionPlan, p1, p2, p3, p4, asked

\* A plan of a single call that does not query, set or ping.
LEMMA OneCallIsProper ==
  ASSUME NEW op \in {"Reset", "Send", "Listen"}
  PROVE  <<Call(op, None, NoVal)>> \in Seq(Calls) /\ Proper(<<Call(op, None, NoVal)>>)
PROOF
  <1> DEFINE p == <<Call(op, None, NoVal)>>
  <1>1. /\ p \in Seq(Calls) /\ Len(p) = 1
        /\ \A i \in 1..Len(p) : i = 1 /\ p[i].op = op
    BY DEF Call, Calls
  <1> HIDE DEF p
  <1>2. ~(\E i, j \in 1..Len(p) : i < j) /\ 1..(Len(p) - 1) = {} /\ 1 \in 1..Len(p)
    BY <1>1
  <1>3. ReadsBack(p) /\ ReadsLast(p) /\ Alternates(p) /\ PingIsNotLast(p) /\ ListensAlone(p)
    BY <1>1, <1>2 DEF ReadsBack, ReadsLast, Alternates, PingIsNotLast, ListensAlone
  <1> QED BY <1>1, <1>3 DEF Proper, p

\* info pings, and then only reads.
LEMMA InfoIsProper == InfoPlan \in Seq(Calls) /\ Proper(InfoPlan) /\ InfoPlan # <<>>
PROOF
  <1> DEFINE ping == <<Call("Ping", None, NoVal)>>
             gets == [i \in 1..8 |-> Call("Get", InfoOrder[i], NoVal)]
             p == InfoPlan
  <1>1. /\ ping \in Seq(Calls) /\ Len(ping) = 1 /\ ping[1].op = "Ping"
    BY DEF Call, Calls
  <1>2. \A i \in 1..8 : InfoOrder[i] \in Asked
    BY DEF InfoOrder, Asked, Setting, Fixed
  <1>3. \A i \in 1..8 : gets[i] \in Calls /\ gets[i].op = "Get"
    BY <1>2 DEF Call, Calls
  <1>4. gets \in Seq(Calls) /\ Len(gets) = 8
    <2>1. gets \in [1..8 -> Calls]
      BY <1>3
    <2>2. gets \in Seq(Calls)
      BY <2>1, SeqDef
    <2> QED BY <2>1, <2>2, LenProperties
  <1> HIDE DEF ping, gets
  <1>5. /\ p \in Seq(Calls) /\ Len(p) = 9
        /\ \A i \in 1..9 : p[i] = IF i <= 1 THEN ping[i] ELSE gets[i - 1]
    <2>1. p = ping \o gets
      BY DEF InfoPlan, ping, gets
    <2>2. /\ ping \o gets \in Seq(Calls) /\ Len(ping \o gets) = Len(ping) + Len(gets)
          /\ \A i \in 1..(Len(ping) + Len(gets)) :
               (ping \o gets)[i] = IF i <= Len(ping) THEN ping[i] ELSE gets[i - Len(ping)]
      BY <1>1, <1>4, ConcatProperties
    <2>3. /\ ping \o gets \in Seq(Calls) /\ Len(ping \o gets) = 9
          /\ \A i \in 1..9 : (ping \o gets)[i] = IF i <= 1 THEN ping[i] ELSE gets[i - 1]
      <3>1. Len(ping) = 1 /\ Len(gets) = 8 /\ 1 + 8 = 9
        BY <1>1, <1>4
      <3> QED BY <2>2, <3>1
    <2> HIDE DEF p
    <2> QED BY <2>1, <2>3
  <1> HIDE DEF p
  <1>6. p[1].op = "Ping" /\ \A i \in 2..9 : p[i].op = "Get"
    <2>1. \A i \in 2..9 : i - 1 \in 1..8 /\ p[i] = gets[i - 1]
      BY <1>5
    <2> QED BY <1>1, <1>3, <1>5, <2>1
  <1>7. \A i \in 1..9 : i = 1 \/ i \in 2..9
    OBVIOUS
  <1>8. ReadsBack(p) /\ PingIsNotLast(p) /\ Alternates(p) /\ ListensAlone(p)
    BY <1>5, <1>6, <1>7 DEF ReadsBack, PingIsNotLast, Alternates, ListensAlone
  <1>9. ReadsLast(p)
    <2>1. \A i, j \in 1..9 : i < j => p[j].op = "Get"
      BY <1>6
    <2> QED BY <1>5, <2>1 DEF ReadsLast, Touches
  <1>10. p # <<>>
    BY <1>5, EmptySeq
  <1> QED BY <1>5, <1>8, <1>9, <1>10 DEF Proper, p

\* Every plan is proper.
LEMMA PlansAreProper ==
  ASSUME NEW p \in Plans
  PROVE  p \in Seq(Calls) /\ p # <<>> /\ Proper(p)
PROOF
  <1>1. ASSUME NEW op \in {"Reset", "Send", "Listen"}, p = <<Call(op, None, NoVal)>>
        PROVE  p \in Seq(Calls) /\ p # <<>> /\ Proper(p)
    BY <1>1, OneCallIsProper
  <1>2. CASE p = InfoPlan
    BY <1>2, InfoIsProper
  <1>3. ASSUME NEW req \in Requests, p = ProvisionPlan(req)
        PROVE  p \in Seq(Calls) /\ p # <<>> /\ Proper(p)
    BY <1>3, ProvisionIsProper DEF Sets
  <1> QED BY <1>1, <1>2, <1>3 DEF Plans

-----------------------------------------------------------------------------
(* Facts about queues                                                      *)

\* What is behind the head.
LEMMA QueueTail ==
  ASSUME NEW S, NEW s \in Seq(S), s # <<>>
  PROVE  /\ Tail(s) \in Seq(S) /\ Len(Tail(s)) = Len(s) - 1 /\ Len(s) \in Nat \ {0} /\ s[1] \in S
         /\ \A i \in 1..(Len(s) - 1) : Tail(s)[i] = s[i + 1] /\ i + 1 \in 1..Len(s)
PROOF
  <1>1. Len(s) \in Nat \ {0}
    BY EmptySeq
  <1>2. Tail(s) \in Seq(S) /\ Len(Tail(s)) = Len(s) - 1 /\ \A i \in 1..Len(Tail(s)) : Tail(s)[i] = s[i + 1]
    BY HeadTailProperties
  <1>3. s[1] \in S
    BY <1>1, ElementOfSeq
  <1> QED BY <1>1, <1>2, <1>3

\* One element more.
LEMMA QueueAppend ==
  ASSUME NEW S, NEW s \in Seq(S), NEW e \in S
  PROVE  /\ Append(s, e) \in Seq(S) /\ Len(Append(s, e)) = Len(s) + 1 /\ Len(s) \in Nat
         /\ \A i \in 1..Len(s) : Append(s, e)[i] = s[i]
         /\ Append(s, e)[Len(s) + 1] = e
PROOF
  <1>1. Len(s) \in Nat
    BY LenProperties
  <1> QED BY <1>1, AppendProperties

\* What is known of the first call of the plan, and of the one behind it.
LEMMA PlanParts ==
  ASSUME Types, OnPlan, plan # <<>>
  PROVE  /\ plan[1] \in Calls /\ Len(plan) \in Nat \ {0}
         /\ plan[1].op = "Ping" => Len(plan) > 1
         /\ Len(plan) > 1 /\ plan[1].op # "Get" => plan[2].op = "Get"
         /\ \A i \in 2..Len(plan) : plan[1].op = "Get" => ~Touches(plan[i], plan[1].setting)
PROOF
  <1> DEFINE d == Len(session) - Len(plan)
  <1>1. plan[1] \in Calls /\ Len(plan) \in Nat \ {0} /\ Len(session) \in Nat /\ d \in Nat
    BY QueueTail, LenProperties DEF Types, OnPlan
  <1>2. \A i \in 1..Len(plan) : plan[i] = session[d + i] /\ d + i \in 1..Len(session)
    BY <1>1 DEF OnPlan
  <1>3. ReadsLast(session) /\ Alternates(session) /\ PingIsNotLast(session)
    BY DEF OnPlan, Proper
  <1>4. 1 \in 1..Len(plan) /\ Len(session) = d + Len(plan)
    BY <1>1
  <1> HIDE DEF d
  <1>5. plan[1].op = "Ping" => Len(plan) > 1
    <2>1. plan[1].op = "Ping" => d + 1 + 1 <= Len(session)
      BY <1>2, <1>3, <1>4 DEF PingIsNotLast
    <2> QED BY <1>1, <1>4, <2>1
  <1>6. Len(plan) > 1 /\ plan[1].op # "Get" => plan[2].op = "Get"
    <2>1. SUFFICES ASSUME Len(plan) > 1 PROVE plan[1].op = "Get" \/ plan[2].op = "Get"
      OBVIOUS
    <2>2. d + 1 \in 1..(Len(session) - 1) /\ 2 \in 1..Len(plan) /\ d + 1 + 1 = d + 2
      BY <1>1, <1>4, <2>1
    <2> QED BY <1>2, <1>3, <1>4, <2>2 DEF Alternates
  <1>7. ASSUME NEW i \in 2..Len(plan), plan[1].op = "Get" PROVE ~Touches(plan[i], plan[1].setting)
    <2>1. i \in 1..Len(plan) /\ d + 1 < d + i
      BY <1>1
    <2> QED BY <1>2, <1>3, <1>4, <1>7, <2>1 DEF ReadsLast
  <1> QED BY <1>1, <1>5, <1>6, <1>7

\* The answer a session finds first in the line is to the query that waits, and
\* nothing is under way behind it.
LEMMA AnswerIsFresh ==
  ASSUME Types, Early \/ Late \/ Over, pc = "wait", line # <<>>, line[1].key = slot
  PROVE  /\ Late /\ slot \in Asked /\ inbox = <<>> /\ Len(line) = 1
         /\ plan[1].op = "Get" /\ plan[1].setting = slot
         /\ slot \in Setting => line[1].val = stored[slot] /\ line[1].val \in Vals
PROOF
  <1>1. line[1] \in Lines /\ Len(line) \in Nat \ {0}
    BY QueueTail DEF Types
  <1>2. slot \in Asked
    BY <1>1 DEF Types, Lines, Asked
  <1>3. Late
    BY <1>2 DEF Early, Over, Asked, Setting, Fixed
  <1>4. 1 \in 1..Len(line)
    BY <1>1
  <1>5. /\ inbox = <<>> /\ Len(line) = 1 /\ plan[1].op = "Get" /\ plan[1].setting = slot
        /\ slot \in Setting => line[1].val = stored[slot]
    BY <1>2, <1>3, <1>4 DEF Late
  <1>6. slot \in Setting => line[1].val \in Vals
    BY <1>1 DEF Lines, Setting, Fixed
  <1> QED BY <1>2, <1>3, <1>5, <1>6

\* Where an acknowledgement is awaited nothing is asked, and of the commands
\* under way one at most.
LEMMA AckIsAwaited ==
  ASSUME Types, Early \/ Late \/ Over, pc = "wait", line # <<>>, slot \notin Asked
  PROVE  /\ NoGet(inbox) /\ Len(inbox) <= 1
         /\ \A k \in 2..Len(line) : line[k].key \notin Asked
         /\ slot # "Idle" => slot = "Ack" /\ plan[1].op # "Get"
PROOF
  <1>1. inbox \in Seq(Calls) /\ line \in Seq(Lines) /\ Len(inbox) \in Nat
    BY LenProperties DEF Types
  <1>2. CASE Early
    BY <1>2 DEF Early
  <1>3. CASE Late
    <2>1. plan[1] \in Calls
      BY QueueTail DEF Types
    <2>2. plan[1].op # "Get"
      BY <1>3, <2>1, CallTypes DEF Late, Awaited
    <2>3. NoGet(inbox)
      BY <1>3, <2>2 DEF Late, NoGet
    <2>4. \A k \in 2..Len(line) : line[k].key \notin Asked
      BY <1>3, <2>2 DEF Late
    <2> QED BY <1>3, <2>2, <2>3, <2>4 DEF Late, Awaited
  <1> QED BY <1>2, <1>3 DEF Over

-----------------------------------------------------------------------------
(* What was read, and what was set                                         *)

\* The queue loses its head, or the first call of the plan goes behind it.
InboxMoves ==
  \/ inbox' = inbox
  \/ inbox # <<>> /\ inbox' = Tail(inbox)
  \/ plan # <<>> /\ inbox' = Append(inbox, plan[1])

\* The session goes on, or ends.
PlanMoves ==
  \/ plan' = plan
  \/ plan # <<>> /\ plan' = Tail(plan)
  \/ plan' = <<>>

\* A step that neither reads nor executes: what was read stays.
LEMMA SeenStaysIf ==
  ASSUME Types, SeenStays, seen' = seen, stored' = stored, InboxMoves, PlanMoves
  PROVE  SeenStays'
PROOF
  <1>1. ASSUME NEW x \in seen PROVE \A i \in 1..Len(inbox') : ~Touches(inbox'[i], x.setting)
    <2>1. /\ \A i \in 1..Len(inbox) : ~Touches(inbox[i], x.setting)
          /\ \A i \in 1..Len(plan) : ~Touches(plan[i], x.setting)
          /\ inbox \in Seq(Calls) /\ plan \in Seq(Calls) /\ Len(inbox) \in Nat
      BY <1>1, LenProperties DEF SeenStays, Types
    <2>2. CASE inbox # <<>> /\ inbox' = Tail(inbox)
      <3>1. \A i \in 1..Len(inbox') : inbox'[i] = inbox[i + 1] /\ i + 1 \in 1..Len(inbox)
        BY <2>1, <2>2, QueueTail
      <3> QED BY <2>1, <3>1
    <2>3. CASE plan # <<>> /\ inbox' = Append(inbox, plan[1])
      <3>1. plan[1] \in Calls /\ 1 \in 1..Len(plan)
        BY <2>1, <2>3, QueueTail
      <3>2. /\ Len(inbox') = Len(inbox) + 1 /\ inbox'[Len(inbox) + 1] = plan[1]
            /\ \A i \in 1..Len(inbox) : inbox'[i] = inbox[i]
        BY <2>1, <2>3, <3>1, QueueAppend
      <3>3. ASSUME NEW i \in 1..Len(inbox') PROVE i \in 1..Len(inbox) \/ i = Len(inbox) + 1
        BY <2>1, <3>2
      <3> QED BY <2>1, <3>1, <3>2, <3>3
    <2> QED BY <2>1, <2>2, <2>3 DEF InboxMoves
  <1>2. ASSUME NEW x \in seen PROVE \A i \in 1..Len(plan') : ~Touches(plan'[i], x.setting)
    <2>1. (\A i \in 1..Len(plan) : ~Touches(plan[i], x.setting)) /\ plan \in Seq(Calls)
      BY <1>2 DEF SeenStays, Types
    <2>2. CASE plan # <<>> /\ plan' = Tail(plan)
      <3>1. \A i \in 1..Len(plan') : plan'[i] = plan[i + 1] /\ i + 1 \in 1..Len(plan)
        BY <2>1, <2>2, QueueTail
      <3> QED BY <2>1, <3>1
    <2>3. CASE plan' = <<>>
      <3>1. 1..Len(plan') = {}
        BY <2>3
      <3> QED BY <3>1
    <2> QED BY <2>1, <2>2, <2>3 DEF PlanMoves
  <1>3. \A x \in seen : stored'[x.setting] = x.val
    BY DEF SeenStays
  <1> QED BY <1>1, <1>2, <1>3 DEF SeenStays

\* The module executes a command: it is none that changes what was read.
LEMMA SeenStaysExecuted ==
  ASSUME Types, SeenStays, ModuleExecutes
  PROVE  SeenStays'
PROOF
  <1>1. inbox # <<>> /\ inbox' = Tail(inbox) /\ UNCHANGED <<plan, seen>>
    BY DEF ModuleExecutes, hostVars
  <1>2. inbox[1] \in Calls /\ 1 \in 1..Len(inbox) /\ inbox \in Seq(Calls)
    BY <1>1, QueueTail DEF Types
  <1>3. ASSUME NEW x \in seen PROVE stored'[x.setting] = x.val
    <2>1. x.setting \in Setting /\ stored \in [Setting -> Vals]
      BY <1>3 DEF Types
    <2>2. stored[x.setting] = x.val /\ ~Touches(inbox[1], x.setting)
      BY <1>2, <1>3 DEF SeenStays
    <2>3. stored' = CASE inbox[1].op = "Set" -> [stored EXCEPT ![inbox[1].setting] = inbox[1].val]
                      [] inbox[1].op = "Reset" -> [s \in Setting |-> Factory]
                      [] OTHER -> stored
      BY DEF ModuleExecutes
    <2> QED BY <2>1, <2>2, <2>3 DEF Touches
  <1>4. ASSUME NEW x \in seen PROVE \A i \in 1..Len(inbox') : ~Touches(inbox'[i], x.setting)
    <2>1. \A i \in 1..Len(inbox') : inbox'[i] = inbox[i + 1] /\ i + 1 \in 1..Len(inbox)
      BY <1>1, <1>2, QueueTail
    <2> QED BY <1>4, <2>1 DEF SeenStays
  <1> QED BY <1>1, <1>3, <1>4 DEF SeenStays

\* A query answered joins what was read, and no later call changes it.
LEMMA SeenStaysRead ==
  ASSUME Types, OnPlan, SeenStays, plan # <<>>, inbox = <<>>, plan[1].op = "Get",
         UNCHANGED <<stored, inbox>>, PlanMoves, plan' # plan,
         \/ seen' = seen
         \/ seen' = seen \cup {[setting |-> plan[1].setting, val |-> stored[plan[1].setting]]}
  PROVE  SeenStays'
PROOF
  <1>1. 1..Len(inbox') = {}
    <2>1. Len(inbox') = 0
      OBVIOUS
    <2> QED BY <2>1
  <1>2. \A i \in 1..Len(plan') : \E j \in 2..Len(plan) : plan'[i] = plan[j]
    <2>1. CASE plan' = <<>>
      <3>1. 1..Len(plan') = {}
        BY <2>1
      <3> QED BY <3>1
    <2>2. CASE plan' = Tail(plan)
      <3>1. /\ Len(plan) \in Nat /\ Len(plan') = Len(plan) - 1
            /\ \A i \in 1..Len(plan') : plan'[i] = plan[i + 1]
        BY <2>2, QueueTail DEF Types
      <3>2. \A i \in 1..Len(plan') : i + 1 \in 2..Len(plan)
        BY <3>1
      <3> QED BY <3>1, <3>2
    <2> QED BY <2>1, <2>2 DEF PlanMoves
  <1>3. Len(plan) \in Nat
    BY LenProperties DEF Types
  <1>4. ASSUME NEW x \in seen' PROVE \A i \in 1..Len(plan') : ~Touches(plan'[i], x.setting)
    <2>1. CASE x \in seen
      <3>1. \A j \in 2..Len(plan) : ~Touches(plan[j], x.setting)
        BY <1>3, <2>1 DEF SeenStays
      <3> QED BY <1>2, <3>1
    <2>2. CASE x.setting = plan[1].setting
      BY <1>2, <2>2, PlanParts
    <2> QED BY <1>4, <2>1, <2>2
  <1>5. ASSUME NEW x \in seen' PROVE stored'[x.setting] = x.val
    BY <1>5 DEF SeenStays
  <1> QED BY <1>1, <1>4, <1>5 DEF SeenStays

\* A step that ends no call, or ends the session without success.
LEMMA SetIsSeenIf ==
  ASSUME SetIsSeen, UNCHANGED <<session, seen>>,
         \/ plan' = plan /\ (pc' # "shell" \/ status' = "Success" => pc # "shell" \/ status = "Success")
         \/ pc' = "shell" /\ status' # "Success"
  PROVE  SetIsSeen'
PROOF BY DEF SetIsSeen

\* A call is over: if it was the query behind a Set, its value has been read.
LEMMA SetIsSeenRead ==
  ASSUME Types, OnPlan, SetIsSeen, pc # "shell", plan' = Tail(plan), session' = session,
         seen \subseteq seen',
         plan[1].op = "Get" /\ plan[1].setting \in Setting /\ plan[1].val \in Vals
           => [setting |-> plan[1].setting, val |-> plan[1].val] \in seen'
  PROVE  SetIsSeen'
PROOF
  <1> DEFINE d == Len(session) - Len(plan)
  <1>1. plan # <<>> /\ session \in Seq(Calls) /\ plan \in Seq(Calls)
    BY DEF Types
  <1>2. /\ Len(plan) \in Nat \ {0} /\ Len(session) \in Nat /\ d \in Nat
        /\ Len(plan') = Len(plan) - 1
    BY <1>1, QueueTail, LenProperties DEF OnPlan
  <1>3. plan[1] = session[d + 1] /\ Len(session') - Len(plan') = d + 1
    <2>1. 1 \in 1..Len(plan)
      BY <1>2
    <2> QED BY <1>2, <2>1 DEF OnPlan
  <1> HIDE DEF d
  <1>4. ASSUME NEW i \in 1..Len(session), session[i].op = "Set", i + 1 <= d + 1
        PROVE  [setting |-> session[i].setting, val |-> session[i].val] \in seen'
    <2>1. CASE i + 1 <= d
      BY <1>4, <2>1 DEF SetIsSeen, d
    <2>2. CASE i + 1 = d + 1
      <3>1. session[i + 1] = Call("Get", session[i].setting, session[i].val)
        BY <1>4 DEF OnPlan, Proper, ReadsBack
      <3>2. plan[1] = Call("Get", session[i].setting, session[i].val)
        BY <1>3, <2>2, <3>1
      <3>3. session[i] \in Calls
        BY <1>1, <1>4, ElementOfSeq
      <3>4. session[i].setting \in Setting /\ session[i].val \in Vals
        BY <1>4, <3>3, CallTypes
      <3> QED BY <3>2, <3>4, CallParts
    <2> QED BY <1>2, <1>4, <2>1, <2>2
  <1> QED BY <1>3, <1>4 DEF SetIsSeen

-----------------------------------------------------------------------------
(* How a call ends                                                         *)

\* The plan stays the rest of the session.
LEMMA OnPlanIf ==
  ASSUME Types, OnPlan, session' = session, PlanMoves
  PROVE  OnPlan' /\ plan' \in Seq(Calls)
PROOF
  <1>1. plan \in Seq(Calls) /\ Len(plan) \in Nat /\ Len(session) \in Nat
    BY LenProperties DEF Types
  <1>2. CASE plan' = <<>>
    <2>1. plan' \in Seq(Calls) /\ Len(plan') = 0 /\ 1..0 = {}
      BY <1>2, EmptySeq
    <2> QED BY <1>1, <2>1 DEF OnPlan
  <1>3. CASE plan # <<>> /\ plan' = Tail(plan)
    <2>1. /\ plan' \in Seq(Calls) /\ Len(plan') = Len(plan) - 1
          /\ \A i \in 1..Len(plan') : plan'[i] = plan[i + 1] /\ i + 1 \in 1..Len(plan)
      BY <1>1, <1>3, QueueTail
    <2>2. ASSUME NEW i \in 1..Len(plan')
          PROVE  plan'[i] = session'[Len(session') - Len(plan') + i]
      <3>1. plan'[i] = session[Len(session) - Len(plan) + (i + 1)]
        BY <2>1 DEF OnPlan
      <3>2. Len(session) - Len(plan) + (i + 1) = Len(session) - (Len(plan) - 1) + i
        BY <1>1
      <3> QED BY <2>1, <3>1, <3>2
    <2> QED BY <1>1, <2>1, <2>2 DEF OnPlan
  <1>4. CASE plan' = plan
    BY <1>1, <1>4 DEF OnPlan
  <1> QED BY <1>2, <1>3, <1>4 DEF PlanMoves

\* Only a ping is passed over, and there is a call behind it.
LEMMA FailMoves ==
  ASSUME Types, OnPlan, plan # <<>>, NEW how, how # "Success", CallFails(how)
  PROVE  /\ PlanMoves /\ plan' # plan
         /\ \/ pc' = "shell" /\ plan' = <<>> /\ status' # "Success"
            \/ /\ plan[1].op = "Ping" /\ Len(plan) > 1
               /\ pc' = "call" /\ plan' = Tail(plan) /\ plan' # <<>> /\ status' = status
PROOF
  <1>1. plan \in Seq(Calls)
    BY DEF Types
  <1>2. Len(Tail(plan)) = Len(plan) - 1 /\ Len(plan) \in Nat \ {0} /\ Len(<<>>) = 0
    BY <1>1, QueueTail, EmptySeq
  <1>3. CASE plan[1].op = "Ping"
    <2>1. Len(plan) > 1
      BY PlanParts, <1>3
    <2> QED BY <1>2, <1>3, <2>1 DEF CallFails, PlanMoves
  <1>4. CASE plan[1].op # "Ping"
    BY <1>4 DEF CallFails, Exits, PlanMoves
  <1> QED BY <1>3, <1>4

\* After the last call the session is over.
LEMMA SuccessMoves ==
  ASSUME Types, plan # <<>>, CallSucceeds
  PROVE  /\ PlanMoves /\ plan' = Tail(plan) /\ plan' # plan
         /\ \/ pc' = "shell" /\ plan' = <<>>
            \/ Len(plan) > 1 /\ pc' = "call" /\ plan' # <<>> /\ status' = status
PROOF
  <1>1. /\ Tail(plan) \in Seq(Calls) /\ Len(Tail(plan)) = Len(plan) - 1
        /\ Len(plan) \in Nat \ {0} /\ Len(<<>>) = 0
    BY QueueTail, EmptySeq DEF Types
  <1>2. CASE Len(plan) = 1
    <2> DEFINE t == Tail(plan)
    <2>1. t \in Seq(Calls) /\ Len(t) = 0
      BY <1>1, <1>2
    <2> HIDE DEF t
    <2>2. t = <<>>
      BY <2>1, EmptySeq
    <2>3. Tail(plan) = <<>>
      BY <2>2 DEF t
    <2> QED BY <1>1, <1>2, <2>3 DEF CallSucceeds, Exits, PlanMoves
  <1>3. CASE Len(plan) # 1
    BY <1>1, <1>3 DEF CallSucceeds, PlanMoves
  <1> QED BY <1>2, <1>3

\* The inbox is bounded all along.
LEMMA InboxFits ==
  ASSUME Types, Early \/ Late \/ Over
  PROVE  Len(inbox) <= 2 /\ Len(inbox) \in Nat
PROOF
  <1>1. Len(inbox) \in Nat /\ Len(<<>>) = 0
    BY LenProperties, EmptySeq DEF Types
  <1> QED BY <1>1 DEF Early, Late, Over

\* The session comes to its next call with nothing of interest under way.
LEMMA NextCallIsLate ==
  ASSUME Types, OnPlan, Len(plan) > 1, pc' = "call", plan' = Tail(plan), slot' \notin Asked,
         NoGet(inbox'), Len(inbox') <= 1, \A k \in 1..Len(line') : line'[k].key \notin Asked,
         plan[1].op = "Get" => inbox' = <<>> /\ line' = <<>>
  PROVE  Late'
PROOF
  <1>1. plan # <<>> /\ plan'[1] = plan[2]
    <2>1. plan # <<>>
      BY EmptySeq
    <2>2. 1 \in 1..(Len(plan) - 1)
      BY <2>1, QueueTail DEF Types
    <2> QED BY <2>1, <2>2, QueueTail DEF Types
  <1>2. plan[1].op # "Get" => plan'[1].op = "Get"
    BY <1>1, PlanParts
  <1> QED BY <1>2 DEF Late, NoGet

-----------------------------------------------------------------------------
(* Steps of the session                                                    *)

\* The part of the invariant the steps of a session share, once it is known how
\* the plan and the inbox move.
LEMMA SessionKeeps ==
  ASSUME ToolInd, UNCHANGED <<session, seen, stored>>, InboxMoves, PlanMoves,
         \/ plan' = plan /\ (pc' # "shell" \/ status' = "Success" => pc # "shell" \/ status = "Success")
         \/ pc' = "shell" /\ status' # "Success"
         \/ pc # "shell" /\ plan' = Tail(plan) /\ plan[1].op # "Get"
  PROVE  OnPlan' /\ SeenStays' /\ SetIsSeen' /\ inbox' \in Seq(Calls) /\ plan' \in Seq(Calls)
PROOF
  <1>1. Types /\ OnPlan /\ SeenStays /\ SetIsSeen
    BY DEF ToolInd
  <1>2. OnPlan' /\ SeenStays' /\ plan' \in Seq(Calls)
    BY <1>1, OnPlanIf, SeenStaysIf
  <1>3. SetIsSeen'
    <2>1. CASE pc # "shell" /\ plan' = Tail(plan) /\ plan[1].op # "Get"
      BY <1>1, <2>1, SetIsSeenRead
    <2> QED BY <1>1, <2>1, SetIsSeenIf
  <1>4. inbox' \in Seq(Calls)
    <2>1. inbox \in Seq(Calls) /\ plan \in Seq(Calls)
      BY <1>1 DEF Types
    <2>2. CASE inbox # <<>> /\ inbox' = Tail(inbox)
      BY <2>1, <2>2, QueueTail
    <2>3. CASE plan # <<>> /\ inbox' = Append(inbox, plan[1])
      <3>1. plan[1] \in Calls
        BY <2>1, <2>3, QueueTail
      <3> QED BY <2>1, <2>3, <3>1, QueueAppend
    <2> QED BY <2>1, <2>2, <2>3 DEF InboxMoves
  <1> QED BY <1>2, <1>3, <1>4

\* A session passes over a failed call, or ends with it.
LEMMA FailKeeps ==
  ASSUME ToolInd, pc \in {"call", "wait"}, NEW how, how # "Success", CallFails(how),
         UNCHANGED <<stop, session, seen, stored>>, line' \in Seq(Lines),
         InboxMoves, Len(inbox') <= 2,
         slot' \in {"Idle", "Ack", "Unsent"} \cup Asked,
         resetting' \in BOOLEAN, resetting' => slot' \in {"Ack", "Unsent"},
         plan[1].op = "Ping" /\ Len(plan) > 1 /\ pc' = "call" /\ plan' = Tail(plan)
           => Early' \/ Late'
  PROVE  ToolInd'
PROOF
  <1>1. Types /\ OnPlan /\ plan # <<>> /\ status # "Success"
    BY DEF ToolInd, Types
  <1>2. /\ PlanMoves
        /\ \/ pc' = "shell" /\ plan' = <<>> /\ status' # "Success"
           \/ /\ plan[1].op = "Ping" /\ Len(plan) > 1
              /\ pc' = "call" /\ plan' = Tail(plan) /\ plan' # <<>> /\ status' = status
    BY <1>1, FailMoves
  <1>3. OnPlan' /\ SeenStays' /\ SetIsSeen' /\ inbox' \in Seq(Calls) /\ plan' \in Seq(Calls)
    BY <1>2, SessionKeeps
  <1>4. Types'
    BY <1>1, <1>2, <1>3 DEF Types
  <1>5. Early' \/ Late' \/ Over'
    BY <1>2 DEF Over
  <1> QED BY <1>3, <1>4, <1>5 DEF ToolInd

\* Nothing else changes, and the driver still waits.
LEMMA PassedOver ==
  ASSUME ToolInd, pc \in {"call", "wait"}, pc = "call" => slot # "Idle",
         UNCHANGED <<slot, seen, line, inbox, stored>>,
         plan[1].op = "Ping", Len(plan) > 1, pc' = "call", plan' = Tail(plan)
  PROVE  Early' \/ Late'
PROOF
  <1>1. Types /\ OnPlan /\ (Early \/ Late)
    BY DEF ToolInd, Over
  <1>2. CASE Early
    BY <1>2 DEF Early
  <1>3. CASE Late
    <2>1. slot \notin Asked
      BY <1>3 DEF Late, Awaited, Asked, Setting, Fixed
    <2>2. NoGet(inbox) /\ \A k \in 1..Len(line) : line[k].key \notin Asked
      BY <1>3 DEF Late, NoGet
    <2>3. Len(inbox) <= 1
      <3>1. Len(<<>>) <= 1
        BY EmptySeq
      <3> QED BY <1>3, <3>1 DEF Late
    <2> QED BY <1>1, <2>1, <2>2, <2>3, NextCallIsLate
  <1> QED BY <1>1, <1>2, <1>3

LEMMA RefusedKeeps == ASSUME ToolInd, SubmitRefused PROVE ToolInd'
PROOF
  <1>1. Types /\ (Early \/ Late \/ Over)
    BY DEF ToolInd
  <1>2. Len(inbox) <= 2
    BY <1>1, InboxFits
  <1> QED BY <1>1, <1>2, FailKeeps, PassedOver DEF SubmitRefused, moduleVars, InboxMoves, Types

LEMMA ReadFailsKeeps == ASSUME ToolInd, ReadFails \/ CallTimesOut PROVE ToolInd'
PROOF
  <1>1. Types /\ (Early \/ Late \/ Over)
    BY DEF ToolInd
  <1>2. Len(inbox) <= 2
    BY <1>1, InboxFits
  <1>3. CASE ReadFails
    BY <1>1, <1>2, <1>3, FailKeeps, PassedOver DEF ReadFails, moduleVars, InboxMoves, Types
  <1>4. CASE CallTimesOut
    BY <1>1, <1>2, <1>4, FailKeeps, PassedOver DEF CallTimesOut, moduleVars, InboxMoves, Types
  <1> QED BY <1>3, <1>4

\* One command more, where the session makes a call.
LEMMA CommandJoins ==
  ASSUME ToolInd, pc = "call", slot = "Idle", inbox' = Append(inbox, plan[1])
  PROVE  /\ inbox' \in Seq(Calls) /\ plan[1] \in Calls /\ Len(inbox') \in Nat
         /\ Len(inbox') = Len(inbox) + 1 /\ Len(inbox') <= 2
         /\ inbox'[Len(inbox')] = plan[1]
         /\ \A i \in 1..Len(inbox') : i # Len(inbox') => i \in 1..Len(inbox) /\ inbox'[i] = inbox[i]
PROOF
  <1>1. inbox \in Seq(Calls) /\ plan[1] \in Calls
    BY QueueTail DEF ToolInd, Types
  <1>2. /\ inbox' \in Seq(Calls) /\ Len(inbox') = Len(inbox) + 1 /\ Len(inbox) \in Nat
        /\ \A i \in 1..Len(inbox) : inbox'[i] = inbox[i]
        /\ inbox'[Len(inbox) + 1] = plan[1]
    BY <1>1, QueueAppend
  <1>3. Len(inbox) <= 1
    <2>1. Len(<<>>) <= 1
      BY EmptySeq
    <2> QED BY <2>1 DEF ToolInd, Early, Late, Over
  <1>4. \A i \in 1..Len(inbox') : i # Len(inbox') => i \in 1..Len(inbox)
    BY <1>2
  <1> QED BY <1>1, <1>2, <1>3, <1>4

LEMMA AcceptedKeeps == ASSUME ToolInd, SubmitAccepted PROVE ToolInd'
PROOF
  <1>1. /\ pc = "call" /\ slot = "Idle" /\ inbox' = Append(inbox, plan[1]) /\ pc' = "wait"
        /\ slot' = Awaited(plan[1]) /\ resetting' = (plan[1].op = "Reset")
        /\ UNCHANGED <<plan, stop, status, session, seen, line, stored>>
    BY DEF SubmitAccepted
  <1>2. /\ inbox' \in Seq(Calls) /\ plan[1] \in Calls /\ Len(inbox') \in Nat
        /\ Len(inbox') = Len(inbox) + 1 /\ Len(inbox') <= 2
        /\ inbox'[Len(inbox')] = plan[1]
        /\ \A i \in 1..Len(inbox') : i # Len(inbox') => i \in 1..Len(inbox) /\ inbox'[i] = inbox[i]
    BY <1>1, CommandJoins
  <1>3. Types /\ plan # <<>> /\ Len(inbox) \in Nat
    BY <1>1, LenProperties DEF ToolInd, Types
  <1>4. OnPlan' /\ SeenStays' /\ SetIsSeen'
    <2>1. InboxMoves /\ PlanMoves
      BY <1>1, <1>3 DEF InboxMoves, PlanMoves
    <2> QED BY <1>1, <2>1, SessionKeeps
  <1>5. Types'
    <2>1. slot' \in {"Ack"} \cup Asked /\ (resetting' => slot' = "Ack")
      BY <1>1, <1>2, CallTypes DEF Awaited
    <2> QED BY <1>1, <1>2, <1>3, <2>1 DEF Types
  <1>6. CASE Early
    <2>1. plan[1].op # "Get" /\ slot' = "Ack" /\ (line # <<>> => inbox = <<>>)
      BY <1>1, <1>6 DEF Early, Awaited
    <2>2. line # <<>> => Len(inbox') = 1
      <3>1. Len(<<>>) = 0
        BY EmptySeq
      <3> QED BY <1>2, <1>3, <2>1, <3>1
    <2>3. line # <<>> => NoGet(inbox')
      BY <1>2, <2>1, <2>2 DEF NoGet
    <2>4. Len(inbox') = 2 => inbox'[2].op # "Get"
      BY <1>2, <2>1
    <2>5. Early'
      BY <1>1, <1>2, <1>6, <2>1, <2>2, <2>3, <2>4 DEF Early
    <2> QED BY <1>4, <1>5, <2>5 DEF ToolInd
  <1>7. CASE Late
    <2>1. \A j \in 1..Len(inbox) : inbox[j].op # "Get"
      BY <1>1, <1>7 DEF Late
    <2>2. \A k \in 1..Len(line) : line[k].key \notin Asked
      BY <1>1, <1>7 DEF Late
    <2>3. \A j \in 1..Len(inbox') : inbox'[j].op = "Get" =>
            j = Len(inbox') /\ inbox'[j] = plan[1] /\ slot' = plan[1].setting
      BY <1>1, <1>2, <2>1 DEF Awaited
    <2>4. plan[1].op # "Get" => Len(inbox') = 1 /\ line = <<>>
      <3>1. Len(<<>>) = 0
        BY EmptySeq
      <3> QED BY <1>1, <1>2, <1>3, <1>7, <3>1 DEF Late
    <2>5. Late'
      BY <1>1, <1>2, <2>2, <2>3, <2>4 DEF Late
    <2> QED BY <1>4, <1>5, <2>5 DEF ToolInd
  <1> QED BY <1>1, <1>6, <1>7 DEF ToolInd, Over

LEMMA WriteFailsKeeps == ASSUME ToolInd, WriteFails PROVE ToolInd'
PROOF
  <1>1. /\ pc = "call" /\ slot = "Idle" /\ slot' = "Unsent"
        /\ inbox' = inbox \/ inbox' = Append(inbox, plan[1])
        /\ CallFails("Io") /\ UNCHANGED <<stop, session, seen, line, stored>>
        /\ resetting' = (plan[1].op = "Reset")
    BY DEF WriteFails
  <1>2. Types /\ OnPlan /\ plan # <<>> /\ Len(inbox) \in Nat /\ inbox \in Seq(Calls)
    BY <1>1, LenProperties DEF ToolInd, Types
  <1>3. Len(inbox) <= 1 /\ (Early \/ Late)
    <2>1. Len(<<>>) <= 1
      BY EmptySeq
    <2> QED BY <1>1, <2>1 DEF ToolInd, Early, Late, Over
  <1>4. \/ inbox' = inbox
        \/ /\ Len(inbox') = Len(inbox) + 1 /\ Len(inbox') <= 2
           /\ inbox'[Len(inbox')] = plan[1]
           /\ \A i \in 1..Len(inbox') : i # Len(inbox') => i \in 1..Len(inbox) /\ inbox'[i] = inbox[i]
    BY <1>1, CommandJoins
  <1>5. Len(inbox') <= 2 /\ Len(inbox') \in Nat
    BY <1>2, <1>3, <1>4
  <1>6. ASSUME plan[1].op = "Ping", Len(plan) > 1, pc' = "call", plan' = Tail(plan)
        PROVE  Early' \/ Late'
    <2>1. inbox = <<>> => Len(inbox') <= 1 /\ NoGet(inbox')
      <3>1. Len(<<>>) = 0
        BY EmptySeq
      <3>2. inbox = <<>> => Len(inbox') <= 1 /\ Len(inbox) = 0
        BY <1>4, <3>1
      <3>3. ASSUME inbox = <<>>, NEW i \in 1..Len(inbox') PROVE inbox'[i].op # "Get"
        <4>1. Len(inbox) = 0 /\ Len(inbox') <= 1
          BY <3>2, <3>3
        <4>2. inbox' # inbox
          BY <3>3, <4>1
        <4>3. i = Len(inbox')
          BY <1>5, <3>3, <4>1
        <4>4. inbox'[i] = plan[1]
          BY <1>4, <4>2, <4>3
        <4> QED BY <1>6, <4>4
      <3> QED BY <3>2, <3>3 DEF NoGet
    <2>2. CASE Early
      <3>1. line # <<>> => inbox = <<>>
        BY <1>1, <2>2 DEF Early
      <3>2. Len(inbox') = 2 => inbox'[2].op # "Get"
        <4>1. ASSUME Len(inbox') = 2 PROVE inbox'[2] = plan[1]
          <5>1. inbox' # inbox
            BY <1>3, <4>1
          <5> QED BY <1>4, <4>1, <5>1
        <4> QED BY <1>6, <4>1
      <3> QED BY <1>1, <1>5, <1>6, <2>1, <2>2, <3>1, <3>2 DEF Early
    <2>3. CASE Late
      <3>1. inbox = <<>> /\ line' = <<>>
        BY <1>1, <1>6, <2>3 DEF Late
      <3>2. 1..Len(line') = {}
        <4>1. Len(line') = 0
          BY <3>1, EmptySeq
        <4> QED BY <4>1
      <3>3. slot' \notin Asked
        BY <1>1 DEF Asked, Setting, Fixed
      <3> QED BY <1>2, <1>6, <2>1, <3>1, <3>2, <3>3, NextCallIsLate
    <2> QED BY <1>3, <2>2, <2>3
  <1>7. InboxMoves
    BY <1>1, <1>2 DEF InboxMoves
  <1> QED BY <1>1, <1>2, <1>5, <1>6, <1>7, FailKeeps DEF Types

-----------------------------------------------------------------------------
(* Lines                                                                   *)

\* An acknowledgement, or the +READY of a reset, ends the call.
LEMMA AckKeeps ==
  ASSUME ToolInd, pc = "wait", line # <<>>, slot \in {"Ack", "Unsent"}, line' = Tail(line),
         UNCHANGED <<stop, session, inbox, stored, seen>>, Resolves, CallSucceeds
  PROVE  ToolInd'
PROOF
  <1>1. Types /\ OnPlan /\ plan # <<>> /\ (Early \/ Late \/ Over) /\ status # "Success"
    BY DEF ToolInd, Types
  <1>2. slot \notin Asked /\ slot # "Idle" /\ "Idle" \notin Asked
    BY DEF Asked, Setting, Fixed
  <1>3. /\ NoGet(inbox) /\ Len(inbox) <= 1 /\ plan[1].op # "Get"
        /\ \A k \in 2..Len(line) : line[k].key \notin Asked
    BY <1>1, <1>2, AckIsAwaited
  <1>4. /\ PlanMoves /\ plan' = Tail(plan)
        /\ \/ pc' = "shell" /\ plan' = <<>>
           \/ Len(plan) > 1 /\ pc' = "call" /\ plan' # <<>> /\ status' = status
    BY <1>1, SuccessMoves
  <1>5. OnPlan' /\ SeenStays' /\ SetIsSeen' /\ inbox' \in Seq(Calls) /\ plan' \in Seq(Calls)
    BY <1>3, <1>4, SessionKeeps DEF InboxMoves
  <1>6. /\ line' \in Seq(Lines)
        /\ \A k \in 1..Len(line') : line'[k] = line[k + 1] /\ k + 1 \in 2..Len(line)
    BY <1>1, QueueTail DEF Types
  <1>7. Types'
    BY <1>1, <1>4, <1>5, <1>6 DEF Types, Resolves
  <1>8. Over' \/ Late'
    <2>1. CASE pc' = "shell"
      BY <1>3, <2>1 DEF Over
    <2>2. CASE Len(plan) > 1 /\ pc' = "call"
      <3>1. slot' \notin Asked
        BY <1>2 DEF Resolves
      <3>2. \A k \in 1..Len(line') : line'[k].key \notin Asked
        BY <1>3, <1>6
      <3> QED BY <1>1, <1>3, <1>4, <2>2, <3>1, <3>2, NextCallIsLate
    <2> QED BY <1>4, <2>1, <2>2
  <1> QED BY <1>5, <1>7, <1>8 DEF ToolInd

\* The module's refusal ends the call, or the session.
LEMMA ErrorKeeps ==
  ASSUME ToolInd, pc = "wait", line # <<>>, slot # "Idle", line' = Tail(line),
         UNCHANGED <<stop, session, inbox, stored, seen>>, Resolves, CallFails("Radio")
  PROVE  ToolInd'
PROOF
  <1>1. Types /\ OnPlan /\ plan # <<>> /\ (Early \/ Late \/ Over)
    BY DEF ToolInd, Types
  <1>2. /\ line' \in Seq(Lines)
        /\ \A k \in 1..Len(line') : line'[k] = line[k + 1] /\ k + 1 \in 2..Len(line)
    BY <1>1, QueueTail DEF Types
  <1>3. Len(inbox) <= 2
    BY <1>1, InboxFits
  <1>4. ASSUME plan[1].op = "Ping", Len(plan) > 1, pc' = "call", plan' = Tail(plan)
        PROVE  Late'
    <2>1. slot \notin Asked
      <3>1. CASE Early
        BY <3>1 DEF Early, Asked, Setting, Fixed
      <3>2. CASE Late
        BY <1>4, <3>2 DEF Late, Awaited, Asked, Setting, Fixed
      <3> QED BY <1>1, <3>1, <3>2 DEF Over
    <2>2. /\ NoGet(inbox) /\ Len(inbox) <= 1
          /\ \A k \in 2..Len(line) : line[k].key \notin Asked
      BY <1>1, <2>1, AckIsAwaited
    <2>3. slot' \notin Asked
      BY DEF Resolves, Asked, Setting, Fixed
    <2>4. \A k \in 1..Len(line') : line'[k].key \notin Asked
      BY <1>2, <2>2
    <2> QED BY <1>1, <1>4, <2>2, <2>3, <2>4, NextCallIsLate
  <1> QED BY <1>1, <1>2, <1>3, <1>4, FailKeeps DEF Resolves, InboxMoves

\* The value a query was for ends the call, or shows that a Set failed.
LEMMA AnswerKeeps ==
  ASSUME ToolInd, pc = "wait", line # <<>>, line[1].key = slot, line' = Tail(line),
         UNCHANGED <<stop, session, inbox, stored>>, Resolves, Gets(line[1].val)
  PROVE  ToolInd'
PROOF
  <1> DEFINE val == line[1].val
  <1>1. Types /\ OnPlan /\ SeenStays /\ SetIsSeen /\ plan # <<>> /\ (Early \/ Late \/ Over)
    BY DEF ToolInd, Types
  <1>2. /\ slot \in Asked /\ inbox = <<>> /\ Len(line) = 1
        /\ plan[1].op = "Get" /\ plan[1].setting = slot
        /\ slot \in Setting => val = stored[slot] /\ val \in Vals
    BY <1>1, AnswerIsFresh
  <1>3. /\ seen' = IF slot \in Setting THEN seen \cup {[setting |-> slot, val |-> val]} ELSE seen
        /\ IF plan[1].val \in {NoVal, val} THEN CallSucceeds ELSE Exits("VerifyFailed")
    BY <1>2 DEF Gets
  <1> HIDE DEF val
  <1>4. line' \in Seq(Lines) /\ line' = <<>> /\ Len(line') = 0
    <2>1. Tail(line) \in Seq(Lines) /\ Len(Tail(line)) = 0
      BY <1>1, <1>2, QueueTail DEF Types
    <2>2. line' \in Seq(Lines) /\ Len(line') = 0
      BY <2>1
    <2> QED BY <2>2, EmptySeq
  <1>5. inbox' = <<>> /\ 1..Len(inbox') = {} /\ 1..Len(line') = {} /\ Len(inbox') <= 1
    <2>1. inbox' = <<>> /\ Len(inbox') = 0
      BY <1>2, EmptySeq
    <2>2. 1..0 = {} /\ 0 <= 1
      OBVIOUS
    <2> QED BY <1>4, <2>1, <2>2
  <1>9. seen' \subseteq [setting : Setting, val : Vals]
    <2>1. seen \subseteq [setting : Setting, val : Vals]
      BY <1>1 DEF Types
    <2> QED BY <1>2, <1>3, <2>1
  <1>10. slot' = "Idle" /\ resetting' = FALSE /\ stop' \in BOOLEAN /\ stored' \in [Setting -> Vals]
         /\ session' \in Seq(Calls) /\ inbox' \in Seq(Calls) /\ status # "Success"
    BY <1>1 DEF Types, Resolves
  <1>6. ASSUME plan[1].val \in {NoVal, val}, CallSucceeds PROVE ToolInd'
    <2>1. /\ PlanMoves /\ plan' = Tail(plan) /\ plan' # plan
          /\ \/ pc' = "shell" /\ plan' = <<>>
             \/ Len(plan) > 1 /\ pc' = "call" /\ plan' # <<>> /\ status' = status
      BY <1>1, <1>6, SuccessMoves
    <2>2. OnPlan' /\ plan' \in Seq(Calls)
      BY <1>1, <2>1, OnPlanIf
    <2>3. SeenStays'
      BY <1>1, <1>2, <1>3, <2>1, SeenStaysRead
    <2>4. SetIsSeen'
      <3>1. seen \subseteq seen'
        BY <1>3
      <3>2. plan[1].setting \in Setting /\ plan[1].val \in Vals
              => [setting |-> plan[1].setting, val |-> plan[1].val] \in seen'
        BY <1>2, <1>3, <1>6, ValAssumption
      <3> QED BY <1>1, <2>1, <3>1, <3>2, SetIsSeenRead
    <2>5. Types'
      BY <1>4, <1>9, <1>10, <2>1, <2>2 DEF Types
    <2>6. Over' \/ Late'
      <3>1. CASE pc' = "shell"
        BY <1>5, <3>1 DEF Over
      <3>2. CASE Len(plan) > 1 /\ pc' = "call"
        <4>1. slot' \notin Asked
          BY DEF Resolves, Asked, Setting, Fixed
        <4>2. NoGet(inbox') /\ \A k \in 1..Len(line') : line'[k].key \notin Asked
          BY <1>5 DEF NoGet
        <4> QED BY <1>1, <1>4, <1>5, <2>1, <3>2, <4>1, <4>2, NextCallIsLate
      <3> QED BY <2>1, <3>1, <3>2
    <2> QED BY <2>2, <2>3, <2>4, <2>5, <2>6 DEF ToolInd
  <1>7. ASSUME Exits("VerifyFailed") PROVE ToolInd'
    <2>1. pc' = "shell" /\ plan' = <<>> /\ status' = "VerifyFailed" /\ PlanMoves /\ plan' # plan
      BY <1>1, <1>7 DEF Exits, PlanMoves
    <2>2. OnPlan' /\ plan' \in Seq(Calls)
      BY <1>1, <2>1, OnPlanIf
    <2>3. SeenStays'
      BY <1>1, <1>2, <1>3, <2>1, SeenStaysRead
    <2>4. SetIsSeen' /\ Over'
      BY <1>5, <2>1 DEF SetIsSeen, Over
    <2>5. Types'
      BY <1>4, <1>9, <1>10, <2>1, <2>2 DEF Types
    <2> QED BY <2>2, <2>3, <2>4, <2>5 DEF ToolInd
  <1> QED BY <1>3, <1>6, <1>7

LEMMA ServesAnswerKeeps == ASSUME ToolInd, ServesAnswer PROVE ToolInd'
PROOF
  <1>1. /\ pc = "wait" /\ line # <<>> /\ line' = Tail(line)
        /\ UNCHANGED <<stop, session, inbox, stored>>
    BY DEF ServesAnswer, moduleVars
  <1>2. CASE line[1].key = "+ERR=" /\ slot # "Idle" /\ Resolves /\ CallFails("Radio") /\ UNCHANGED seen
    BY <1>1, <1>2, ErrorKeeps
  <1>3. CASE line[1].key = "+OK" /\ slot = "Ack" /\ Resolves /\ CallSucceeds /\ UNCHANGED seen
    BY <1>1, <1>3, AckKeeps
  <1>4. CASE line[1].key = "+READY" /\ resetting /\ Resolves /\ CallSucceeds /\ UNCHANGED seen
    <2>1. slot \in {"Ack", "Unsent"}
      BY <1>4 DEF ToolInd, Types
    <2> QED BY <1>1, <1>4, <2>1, AckKeeps
  <1>5. CASE line[1].key = slot /\ Resolves /\ Gets(line[1].val)
    BY <1>1, <1>5, AnswerKeeps
  <1> QED BY <1>2, <1>3, <1>4, <1>5 DEF ServesAnswer

LEMMA ServesOtherKeeps == ASSUME ToolInd, ServesOther PROVE ToolInd'
PROOF
  <1>1. /\ pc = "wait" /\ line # <<>> /\ line' = Tail(line)
        /\ UNCHANGED <<pc, plan, stop, status, session, seen, inbox, stored>>
    BY DEF ServesOther, moduleVars
  <1>2. Types /\ (Early \/ Late \/ Over)
    BY DEF ToolInd
  <1>3. OnPlan' /\ SeenStays' /\ SetIsSeen'
    BY <1>1, SessionKeeps DEF InboxMoves, PlanMoves
  <1>4. /\ line' \in Seq(Lines) /\ Len(line) \in Nat \ {0} /\ Len(line') = Len(line) - 1
        /\ \A k \in 1..Len(line') : line'[k] = line[k + 1] /\ k + 1 \in 2..Len(line)
    BY <1>1, <1>2, QueueTail DEF Types
  <1>5. CASE UNCHANGED <<slot, resetting>>
    <2>1. Types'
      BY <1>1, <1>2, <1>4, <1>5 DEF Types
    <2>2. CASE Early
      <3>1. \A k \in 2..Len(line') : line'[k].key \notin Asked
        <4>1. \A k \in 2..Len(line') : k \in 1..Len(line')
          BY <1>4
        <4> QED BY <1>4, <2>2, <4>1 DEF Early
      <3>2. Early'
        BY <1>1, <1>5, <2>2, <3>1 DEF Early
      <3> QED BY <1>3, <2>1, <3>2 DEF ToolInd
    <2>3. CASE Late
      <3>1. \A k \in 1..Len(line') : k + 1 \in 1..Len(line) /\ (k + 1 = Len(line) => k = Len(line'))
        BY <1>4
      <3>2. \A k \in 1..Len(line') : line'[k].key \in Asked =>
              /\ inbox = <<>> /\ k = Len(line')
              /\ plan[1].op = "Get" /\ plan[1].setting = line'[k].key /\ slot = line'[k].key
              /\ line'[k].key \in Setting => line'[k].val = stored[line'[k].key]
        BY <1>4, <2>3, <3>1 DEF Late
      <3>3. Late'
        BY <1>1, <1>5, <2>3, <3>2 DEF Late
      <3> QED BY <1>3, <2>1, <3>3 DEF ToolInd
    <2> QED BY <1>1, <1>2, <2>2, <2>3 DEF Over
  <1>6. CASE slot = "Ack" /\ Resolves
    <2>1. "Ack" \notin Asked /\ "Idle" \notin Asked
      BY DEF Asked, Setting, Fixed
    <2>2. /\ NoGet(inbox) /\ Len(inbox) <= 1 /\ plan[1].op # "Get"
          /\ \A k \in 2..Len(line) : line[k].key \notin Asked
      BY <1>1, <1>2, <1>6, <2>1, AckIsAwaited
    <2>3. Types'
      BY <1>1, <1>2, <1>4, <1>6 DEF Types, Resolves
    <2>4. \A k \in 1..Len(line') : line'[k].key \notin Asked
      BY <1>4, <2>2
    <2>5. Late'
      BY <1>1, <1>6, <2>1, <2>2, <2>4 DEF Late, Resolves, NoGet
    <2> QED BY <1>3, <2>3, <2>5 DEF ToolInd
  <1> QED BY <1>5, <1>6 DEF ServesOther

-----------------------------------------------------------------------------
(* Starting, listening, ending                                             *)

LEMMA StartKeeps == ASSUME ToolInd, NEW p \in Plans, StartTool(p) PROVE ToolInd'
PROOF
  <1>1. p \in Seq(Calls) /\ p # <<>> /\ Proper(p)
    BY PlansAreProper
  <1>2. /\ Len(inbox) <= 1 /\ pc' \in {"listen", "call"} /\ (pc' = "listen" => p[1].op = "Listen")
        /\ plan' = p /\ slot' = "Idle" /\ resetting' = FALSE /\ line' = <<>> /\ stop' = FALSE
        /\ status' = "Running" /\ session' = p /\ seen' = {} /\ UNCHANGED <<inbox, stored>>
    BY DEF StartTool, moduleVars
  <1>3. Len(p) \in Nat \ {0} /\ p[1].op # "Get" /\ (Len(p) > 1 => p[1].op # "Listen")
    BY <1>1, QueueTail DEF Proper, Alternates, ListensAlone
  <1>4. Types'
    <2>1. inbox \in Seq(Calls) /\ stored \in [Setting -> Vals] /\ <<>> \in Seq(Lines)
      BY EmptySeq DEF ToolInd, Types
    <2> QED BY <1>1, <1>2, <2>1 DEF Types
  <1>5. OnPlan'
    <2>1. \A i \in 1..Len(p) : p[i] = p[Len(p) - Len(p) + i]
      BY <1>3
    <2> QED BY <1>1, <1>2, <1>3, <2>1 DEF OnPlan
  <1>6. Early'
    <2>1. Len(line') = 0 /\ 2..0 = {}
      BY <1>2, EmptySeq
    <2>2. ASSUME pc' = "listen" PROVE Len(p) = 1
      <3>1. ~(Len(p) > 1)
        BY <1>2, <1>3, <2>2
      <3> DEFINE n == Len(p)
      <3>2. n \in Nat /\ n # 0 /\ ~(n > 1)
        BY <1>3, <3>1
      <3> HIDE DEF n
      <3>3. n = 1
        BY <3>2
      <3> QED BY <3>3 DEF n
    <2>3. Len(inbox) \in Nat /\ inbox' = inbox
      BY <1>2, LenProperties DEF ToolInd, Types
    <2>4. Len(inbox') <= 1 /\ Len(inbox') <= 2 /\ Len(inbox') # 2
      BY <1>2, <2>3
    <2> QED BY <1>2, <1>3, <2>1, <2>2, <2>4 DEF Early
  <1>7. SeenStays' /\ SetIsSeen'
    <2>1. \A i \in 1..Len(p) : ~(i + 1 <= Len(p) - Len(p))
      BY <1>3
    <2> QED BY <1>2, <2>1 DEF SeenStays, SetIsSeen
  <1> QED BY <1>4, <1>5, <1>6, <1>7 DEF ToolInd

\* A session of no calls.
LEMMA NoCalls ==
  <<>> \in Seq(Calls) /\ Proper(<<>>) /\ Len(<<>>) = 0 /\ 1..Len(<<>>) = {}
PROOF
  <1>1. <<>> \in Seq(Calls) /\ Len(<<>>) = 0 /\ 1..0 = {} /\ 1..(0 - 1) = {}
    BY EmptySeq
  <1> QED BY <1>1
      DEF Proper, ReadsBack, ReadsLast, Alternates, PingIsNotLast, ListensAlone

LEMMA StartFailsKeeps == ASSUME ToolInd, StartFails PROVE ToolInd'
PROOF
  <1>1. /\ pc = "shell" /\ session' = <<>> /\ seen' = {} /\ status' # "Success"
        /\ UNCHANGED <<pc, plan, slot, resetting, stop, line, inbox, stored>>
    BY DEF StartFails, moduleVars, Discover
  <1>2. Types /\ plan = <<>> /\ (Early \/ Late \/ Over)
    BY <1>1 DEF ToolInd, Types
  <1>3. Types'
    BY <1>1, <1>2, NoCalls DEF Types
  <1>4. OnPlan'
    BY <1>1, <1>2, NoCalls DEF OnPlan
  <1>5. Over' /\ SeenStays' /\ SetIsSeen'
    BY <1>1, <1>2, InboxFits, NoCalls DEF Over, SeenStays, SetIsSeen
  <1> QED BY <1>3, <1>4, <1>5 DEF ToolInd

LEMMA ListenKeeps ==
  ASSUME ToolInd, ListenOn \/ ListenEnds \/ NextEventReturns \/ CtrlC
  PROVE  ToolInd'
PROOF
  <1>1. /\ pc \in {"listen", "event"}
        /\ UNCHANGED <<slot, resetting, session, seen, inbox, stored>>
    BY DEF ListenOn, ListenEnds, NextEventReturns, CtrlC, moduleVars
  <1>2. Types /\ Early /\ plan # <<>> /\ (Early \/ Late \/ Over)
    BY <1>1 DEF ToolInd, Types, Late, Over
  <1>3. Len(plan) = 1 /\ slot = "Idle" /\ plan[1].op # "Get" /\ plan \in Seq(Calls)
    BY <1>1, <1>2 DEF Early, Types
  <1>4. CASE ListenEnds
    <2>1. /\ pc' = "shell" /\ status' = "Success" /\ plan' = <<>>
          /\ UNCHANGED <<stop, line>>
      BY <1>4 DEF ListenEnds, Exits
    <2>2. plan' = Tail(plan)
      <3> DEFINE t == Tail(plan)
      <3>1. t \in Seq(Calls) /\ Len(t) = 0
        BY <1>2, <1>3, QueueTail
      <3> HIDE DEF t
      <3>2. t = <<>>
        BY <3>1, EmptySeq
      <3> QED BY <2>1, <3>2 DEF t
    <2>3. OnPlan' /\ SeenStays' /\ SetIsSeen' /\ plan' \in Seq(Calls)
      BY <1>1, <1>3, <2>1, <2>2, SessionKeeps DEF InboxMoves, PlanMoves
    <2>4. Types' /\ Over'
      BY <1>1, <1>2, <2>1, <2>3, InboxFits DEF Types, Over
    <2> QED BY <2>3, <2>4 DEF ToolInd
  <1>5. CASE ListenOn \/ NextEventReturns \/ CtrlC
    <2>1. /\ pc' \in {"listen", "event"} /\ stop' \in BOOLEAN
          /\ line' = line \/ (line # <<>> /\ line' = Tail(line))
          /\ UNCHANGED <<plan, status>>
      BY <1>2, <1>5 DEF ListenOn, NextEventReturns, CtrlC, Types
    <2>2. OnPlan' /\ SeenStays' /\ SetIsSeen'
      BY <1>1, <2>1, SessionKeeps DEF InboxMoves, PlanMoves
    <2>3. /\ line' \in Seq(Lines) /\ (line' # <<>> => line # <<>>)
          /\ \A k \in 2..Len(line') : line'[k].key \notin Asked
      <3>1. line \in Seq(Lines) /\ \A k \in 2..Len(line) : line[k].key \notin Asked
        BY <1>2 DEF Types, Early
      <3>2. CASE line # <<>> /\ line' = Tail(line)
        <4>1. /\ line' \in Seq(Lines) /\ Len(line') = Len(line) - 1 /\ Len(line) \in Nat
              /\ \A k \in 1..(Len(line) - 1) : line'[k] = line[k + 1]
          BY <3>1, <3>2, QueueTail
        <4>2. \A k \in 2..Len(line') : k \in 1..(Len(line) - 1) /\ k + 1 \in 2..Len(line)
          BY <4>1
        <4> QED BY <3>1, <3>2, <4>1, <4>2
      <3> QED BY <2>1, <3>1, <3>2
    <2>4. Types'
      BY <1>1, <1>2, <2>1, <2>3 DEF Types
    <2>5. Early'
      BY <1>1, <1>2, <1>3, <2>1, <2>3 DEF Early
    <2> QED BY <2>2, <2>4, <2>5 DEF ToolInd
  <1> QED BY <1>4, <1>5

LEMMA KilledKeeps == ASSUME ToolInd, Killed PROVE ToolInd'
PROOF
  <1>1. /\ pc' = "shell" /\ status' = "Killed" /\ plan' = <<>>
        /\ UNCHANGED <<slot, resetting, stop, session, seen, line, inbox, stored>>
    BY DEF Killed, Exits, moduleVars
  <1>2. OnPlan' /\ SeenStays' /\ SetIsSeen' /\ plan' \in Seq(Calls)
    BY <1>1, SessionKeeps DEF InboxMoves, PlanMoves
  <1>3. Types' /\ Over'
    BY <1>1, <1>2, InboxFits DEF ToolInd, Types, Over
  <1> QED BY <1>2, <1>3 DEF ToolInd

-----------------------------------------------------------------------------
(* The module                                                              *)

\* The module is done with a command: a query's answer alone names a setting.
LEMMA ModuleAnswers ==
  ASSUME Types, Early \/ Late \/ Over, inbox # <<>>, inbox' = Tail(inbox), UNCHANGED hostVars,
         NEW ans \in Seq(Lines), Len(ans) <= 2,
         line' = line \/ (pc # "shell" /\ line' = line \o ans),
         \A k \in 1..Len(ans) : ans[k].key \in Asked =>
           /\ inbox[1].op = "Get" /\ Len(ans) = 1 /\ ans[k].key = inbox[1].setting
           /\ ans[k].key \in Setting => ans[k].val = stored'[ans[k].key]
  PROVE  /\ Early' \/ Late' \/ Over'
         /\ inbox' \in Seq(Calls) /\ line' \in Seq(Lines)
PROOF
  <1>1. /\ inbox' \in Seq(Calls) /\ Len(inbox') = Len(inbox) - 1 /\ Len(inbox) \in Nat \ {0}
        /\ inbox[1] \in Calls
        /\ \A i \in 1..(Len(inbox) - 1) : inbox'[i] = inbox[i + 1] /\ i + 1 \in 1..Len(inbox)
    BY QueueTail DEF Types
  <1>10. Len(inbox') \in Nat /\ Len(inbox') < Len(inbox)
    BY <1>1
  <1>11. UNCHANGED <<pc, plan, slot, seen>>
    BY DEF hostVars
  <1>2. line \in Seq(Lines) /\ Len(line) \in Nat /\ Len(ans) \in Nat
    BY LenProperties DEF Types
  <1>9. /\ line \o ans \in Seq(Lines) /\ Len(line \o ans) = Len(line) + Len(ans)
        /\ \A k \in 1..(Len(line) + Len(ans)) :
             (line \o ans)[k] = IF k <= Len(line) THEN line[k] ELSE ans[k - Len(line)]
    BY <1>2, ConcatProperties
  <1>3. /\ line' \in Seq(Lines)
        /\ \/ line' = line
           \/ /\ pc # "shell" /\ Len(line') = Len(line) + Len(ans)
              /\ \A k \in 1..(Len(line) + Len(ans)) :
                   line'[k] = IF k <= Len(line) THEN line[k] ELSE ans[k - Len(line)]
    BY <1>2, <1>9
  <1>4. ASSUME NEW k \in 1..Len(line'), line'[k].key \in Asked
        PROVE  \/ k \in 1..Len(line) /\ line'[k] = line[k]
               \/ /\ k = Len(line') /\ k = Len(line) + 1 /\ inbox[1].op = "Get"
                  /\ line'[k].key = inbox[1].setting
                  /\ line'[k].key \in Setting => line'[k].val = stored'[line'[k].key]
    <2>1. CASE line' = line
      BY <2>1
    <2>2. CASE line' # line /\ k \in 1..Len(line)
      BY <1>2, <1>3, <2>2
    <2>3. CASE line' # line /\ k \notin 1..Len(line)
      <3>1. k - Len(line) \in 1..Len(ans) /\ line'[k] = ans[k - Len(line)]
            /\ Len(line') = Len(line) + Len(ans)
        BY <1>2, <1>3, <2>3
      <3>2. ans[k - Len(line)].key \in Asked
        BY <1>4, <3>1
      <3>3. /\ inbox[1].op = "Get" /\ Len(ans) = 1 /\ line'[k].key = inbox[1].setting
            /\ line'[k].key \in Setting => line'[k].val = stored'[line'[k].key]
        BY <3>1, <3>2
      <3>4. k = Len(line) + 1 /\ k = Len(line')
        BY <1>2, <3>1, <3>3
      <3> QED BY <3>3, <3>4
    <2> QED BY <2>1, <2>2, <2>3
  <1>5. CASE Over
    <2>1. Len(inbox) <= 2 /\ pc = "shell"
      BY <1>5 DEF Over
    <2>2. Len(inbox') <= 2
      BY <1>1, <1>10, <2>1
    <2> QED BY <1>1, <1>3, <1>11, <2>1, <2>2 DEF Over
  <1>6. CASE Early
    <2>1. Len(inbox') <= 1 /\ (slot = "Idle" => inbox' = <<>>)
      <3>1. Len(inbox') <= 1 /\ (slot = "Idle" => Len(inbox') = 0)
        BY <1>1, <1>6 DEF Early
      <3>2. Len(inbox') = 0 => inbox' = <<>>
        BY <1>1, EmptySeq
      <3> QED BY <3>1, <3>2
    <2>2. NoGet(inbox')
      <3>1. ASSUME NEW i \in 1..Len(inbox') PROVE inbox'[i].op # "Get"
        <4>1. i = 1 /\ Len(inbox) = 2 /\ inbox'[i] = inbox[2]
          BY <1>1, <1>6, <2>1 DEF Early
        <4> QED BY <1>6, <4>1 DEF Early
      <3> QED BY <3>1 DEF NoGet
    <2>3. ASSUME NEW k \in 2..Len(line') PROVE line'[k].key \notin Asked
      <3>1. k \in 1..Len(line')
        BY <1>2, <1>3
      <3>2. k \in 1..Len(line) => line[k].key \notin Asked
        BY <1>2, <1>6, <2>3 DEF Early
      <3>3. k = Len(line) + 1 => line # <<>>
        BY <2>3, EmptySeq
      <3>4. line # <<>> => inbox[1].op # "Get"
        BY <1>1, <1>6 DEF Early, NoGet
      <3> QED BY <1>4, <3>1, <3>2, <3>3, <3>4
    <2>4. Early'
      <3>1. Len(inbox') <= 2 /\ Len(inbox') # 2
        BY <1>10, <2>1
      <3> QED BY <1>6, <1>11, <2>1, <2>2, <2>3, <3>1 DEF Early
    <2> QED BY <1>1, <1>3, <2>4
  <1>7. CASE Late
    <2>2. \A k \in 1..Len(line) : line[k].key \notin Asked
      BY <1>7 DEF Late
    <2>3. inbox[1].op = "Get" =>
            pc = "wait" /\ Len(inbox) = 1 /\ inbox[1] = plan[1] /\ slot = plan[1].setting
      <3>1. 1 \in 1..Len(inbox)
        BY <1>1
      <3> QED BY <1>7, <3>1 DEF Late
    <2>4. Len(inbox) = 1 => inbox' = <<>>
      BY <1>1, EmptySeq
    <2>5. \A j \in 1..Len(inbox') : inbox'[j].op = "Get" =>
            pc = "wait" /\ j = Len(inbox') /\ inbox'[j] = plan[1] /\ slot = plan[1].setting
      <3>1. \A j \in 1..Len(inbox') : j + 1 = Len(inbox) => j = Len(inbox')
        BY <1>1
      <3> QED BY <1>1, <1>7, <3>1 DEF Late
    <2>6. ASSUME NEW k \in 1..Len(line'), line'[k].key \in Asked
          PROVE  /\ pc = "wait" /\ inbox' = <<>> /\ k = Len(line')
                 /\ plan[1].op = "Get" /\ plan[1].setting = line'[k].key /\ slot = line'[k].key
                 /\ line'[k].key \in Setting => line'[k].val = stored'[line'[k].key]
      BY <1>4, <2>2, <2>3, <2>4, <2>6
    <2>7. Len(inbox) <= 2 /\ (plan[1].op # "Get" => Len(inbox) = 1 /\ pc = "wait")
      <3>1. plan[1].op # "Get" => pc = "wait" /\ Len(inbox) <= 1
        BY <1>7 DEF Late
      <3>2. Len(inbox) <= 2
        <4>1. Len(inbox) <= 1 => Len(inbox) <= 2
          BY <1>1
        <4> QED BY <1>7, <4>1 DEF Late
      <3> QED BY <1>1, <3>1, <3>2
    <2>8. Len(inbox') <= 1 /\ Len(inbox') <= 2 /\ (plan[1].op # "Get" => inbox' = <<>>)
      BY <1>1, <2>4, <2>7
    <2>9. Late'
      BY <1>7, <1>11, <2>5, <2>6, <2>7, <2>8 DEF Late
    <2> QED BY <1>1, <1>3, <2>9
  <1> QED BY <1>1, <1>3, <1>5, <1>6, <1>7

LEMMA ExecutesKeeps == ASSUME ToolInd, ModuleExecutes PROVE ToolInd'
PROOF
  <1> DEFINE c == inbox[1]
             ans == AnswerTo(c)
  <1>1. /\ inbox # <<>> /\ inbox' = Tail(inbox) /\ UNCHANGED hostVars
        /\ line' = line \/ (pc # "shell" /\ line' = line \o ans)
        /\ stored' = CASE c.op = "Set" -> [stored EXCEPT ![c.setting] = c.val]
                       [] c.op = "Reset" -> [s \in Setting |-> Factory]
                       [] OTHER -> stored
    BY DEF ModuleExecutes, Says
  <1>2. Types /\ (Early \/ Late \/ Over) /\ stored \in [Setting -> Vals]
    BY DEF ToolInd, Types
  <1>3. c \in Calls
    BY <1>1, <1>2, QueueTail DEF Types
  <1>4. stored' \in [Setting -> Vals]
    BY <1>1, <1>2, <1>3, CallTypes, ValAssumption
  <1>5. /\ ans \in Seq(Lines) /\ Len(ans) \in {1, 2}
        /\ \A k \in 1..Len(ans) : ans[k].key \in Asked =>
             /\ c.op = "Get" /\ Len(ans) = 1 /\ ans[k].key = c.setting
             /\ ans[k].key \in Setting => ans[k].val = stored'[ans[k].key]
    <2>1. c.op = "Get" => c.setting \in Setting \cup Fixed
      BY <1>3, CallTypes DEF Asked
    <2>2. CASE c.op = "Reset"
      <3>1. ans = <<[key |-> "+RESET", val |-> NoVal], [key |-> "+READY", val |-> NoVal]>>
        BY <2>2 DEF AnswerTo
      <3> HIDE DEF ans
      <3>2. /\ ans \in Seq(Lines) /\ Len(ans) = 2
            /\ \A k \in 1..Len(ans) : ans[k].key \in {"+RESET", "+READY"}
        BY <3>1 DEF Lines
      <3> QED BY <3>2 DEF Asked, Setting, Fixed
    <2>3. CASE c.op = "Get" /\ c.setting \in Setting
      <3>1. ans = <<[key |-> c.setting, val |-> stored[c.setting]]>> /\ stored' = stored
        BY <1>1, <2>3 DEF AnswerTo
      <3> HIDE DEF ans, c
      <3>2. ans \in Seq(Lines) /\ Len(ans) = 1
        BY <1>2, <2>3, <3>1 DEF Lines
      <3>3. \A k \in 1..Len(ans) : ans[k].key = c.setting /\ ans[k].val = stored[c.setting]
        BY <3>1, <3>2
      <3> QED BY <2>3, <3>1, <3>2, <3>3
    <2>4. CASE c.op = "Get" /\ c.setting \notin Setting
      <3>1. ans = <<[key |-> c.setting, val |-> NoVal]>> /\ c.setting \in Fixed
        BY <2>1, <2>4 DEF AnswerTo
      <3> HIDE DEF ans, c
      <3>2. ans \in Seq(Lines) /\ Len(ans) = 1 /\ \A k \in 1..Len(ans) : ans[k].key = c.setting
        BY <3>1 DEF Lines
      <3> QED BY <2>4, <3>2
    <2>5. CASE c.op \notin {"Reset", "Get"}
      <3>1. ans = <<[key |-> "+OK", val |-> NoVal]>>
        BY <2>5 DEF AnswerTo
      <3> HIDE DEF ans
      <3>2. ans \in Seq(Lines) /\ Len(ans) = 1 /\ \A k \in 1..Len(ans) : ans[k].key = "+OK"
        BY <3>1 DEF Lines
      <3> QED BY <3>2 DEF Asked, Setting, Fixed
    <2> QED BY <2>2, <2>3, <2>4, <2>5
  <1> HIDE DEF ans
  <1>6. /\ Early' \/ Late' \/ Over'
        /\ inbox' \in Seq(Calls) /\ line' \in Seq(Lines)
    <2>1. Len(ans) <= 2
      BY <1>5
    <2> QED BY <1>1, <1>2, <1>5, <2>1, ModuleAnswers
  <1>7. OnPlan' /\ SeenStays' /\ SetIsSeen'
    BY <1>1, SeenStaysExecuted, OnPlanIf, SetIsSeenIf DEF ToolInd, hostVars, PlanMoves
  <1>8. Types'
    BY <1>1, <1>2, <1>4, <1>6 DEF Types, hostVars
  <1> QED BY <1>6, <1>7, <1>8 DEF ToolInd

LEMMA DoesNotKeeps == ASSUME ToolInd, ModuleDoesNot PROVE ToolInd'
PROOF
  <1> DEFINE ans == <<[key |-> "+ERR=", val |-> NoVal]>>
  <1>1. /\ inbox # <<>> /\ inbox' = Tail(inbox) /\ UNCHANGED hostVars /\ stored' = stored
        /\ line' = line \/ (pc # "shell" /\ line' = line \o ans)
    BY DEF ModuleDoesNot, Says
  <1>2. Types /\ (Early \/ Late \/ Over)
    BY DEF ToolInd
  <1>3. ans \in Seq(Lines) /\ Len(ans) <= 2 /\ \A k \in 1..Len(ans) : ans[k].key = "+ERR="
    BY DEF Lines
  <1>4. "+ERR=" \notin Asked
    BY DEF Asked, Setting, Fixed
  <1> HIDE DEF ans
  <1>5. /\ Early' \/ Late' \/ Over'
        /\ inbox' \in Seq(Calls) /\ line' \in Seq(Lines)
    BY <1>1, <1>2, <1>3, <1>4, ModuleAnswers
  <1>6. OnPlan' /\ SeenStays' /\ SetIsSeen'
    BY <1>1, SessionKeeps DEF hostVars, InboxMoves, PlanMoves
  <1>7. Types'
    BY <1>1, <1>2, <1>5 DEF Types, hostVars
  <1> QED BY <1>5, <1>6, <1>7 DEF ToolInd

-----------------------------------------------------------------------------
(* Theorems                                                                *)

LEMMA ToolInitInd == ASSUME ToolInit PROVE ToolInd
PROOF
  <1>1. /\ pc = "shell" /\ plan = <<>> /\ slot = "Idle" /\ resetting = FALSE
        /\ line = <<>> /\ stop = FALSE /\ status = "None"
        /\ session = <<>> /\ seen = {} /\ inbox = <<>> /\ stored = [s \in Setting |-> Factory]
    BY DEF ToolInit
  <1>2. <<>> \in Seq(Lines) /\ stored \in [Setting -> Vals]
    BY <1>1, EmptySeq, ValAssumption
  <1>3. Types
    BY <1>1, <1>2, NoCalls DEF Types
  <1>4. OnPlan /\ Over /\ SeenStays /\ SetIsSeen
    BY <1>1, NoCalls DEF OnPlan, Over, SeenStays, SetIsSeen
  <1> QED BY <1>3, <1>4 DEF ToolInd

LEMMA ToolNextInd == ASSUME ToolInd, [ToolNext]_toolVars PROVE ToolInd'
PROOF
  <1>1. CASE UNCHANGED toolVars
    BY <1>1 DEF ToolInd, toolVars, hostVars, moduleVars, Types, OnPlan, Early, Late, Over,
                SeenStays, SetIsSeen, NoGet
  <1>2. CASE Session
    BY <1>2, RefusedKeeps, AcceptedKeeps, ReadFailsKeeps, ServesAnswerKeeps, ServesOtherKeeps,
       ListenKeeps DEF Session
  <1>3. CASE ToolNext /\ ~Session
    BY <1>3, StartKeeps, StartFailsKeeps, WriteFailsKeeps, ReadFailsKeeps, ListenKeeps,
       KilledKeeps, ExecutesKeeps, DoesNotKeeps DEF ToolNext
  <1> QED BY <1>1, <1>2, <1>3

LEMMA ToolInvariant == ToolSpec => []ToolInd
PROOF
  <1> QED BY ToolInitInd, ToolNextInd, PTL DEF ToolSpec

\* The session, the module and what lies between them keep their types, and the
\* module is never behind by more than two commands (submit, and the port that
\* opens after an earlier session).
THEOREM ToolTypeCorrect == ToolSpec => []ToolTypeOK
PROOF
  <1>1. ToolInd => ToolTypeOK
    BY InboxFits DEF ToolInd, ToolTypeOK, Types, Asked
  <1> QED BY <1>1, ToolInvariant, PTL

\* What a session read back is what the module holds, whatever earlier sessions
\* left under way (the read-back of provision.rs, and the driver's slot).
THEOREM ToolSeenIsStored == ToolSpec => []SeenIsStored
PROOF
  <1>1. ToolInd => SeenIsStored
    BY DEF ToolInd, SeenIsStored, SeenStays
  <1> QED BY <1>1, ToolInvariant, PTL

\* A session that reports success left every setting it was to make in the module.
THEOREM ToolSuccessMeansStored == ToolSpec => []SuccessMeansStored
PROOF
  <1>1. ASSUME ToolInd, status = "Success", NEW i \in DOMAIN session, session[i].op = "Set"
        PROVE  stored[session[i].setting] = session[i].val
    <2>1. session \in Seq(Calls) /\ plan = <<>> /\ Len(session) \in Nat /\ Len(plan) = 0
      BY <1>1, LenProperties, EmptySeq DEF ToolInd, Types
    <2>2. i \in 1..Len(session)
      BY <2>1, LenProperties
    <2>3. i + 1 <= Len(session)
      BY <1>1, <2>2 DEF ToolInd, OnPlan, Proper, ReadsBack
    <2>4. i + 1 <= Len(session) - Len(plan)
      BY <2>1, <2>3
    <2>5. [setting |-> session[i].setting, val |-> session[i].val] \in seen
      BY <1>1, <2>2, <2>4 DEF ToolInd, SetIsSeen
    <2> QED BY <1>1, <2>5 DEF ToolInd, SeenStays
  <1>2. ToolInd => SuccessMeansStored
    BY <1>1 DEF SuccessMeansStored
  <1> QED BY <1>2, ToolInvariant, PTL
=============================================================================
