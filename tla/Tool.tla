-------------------------------- MODULE Tool --------------------------------
(***************************************************************************)
(* The command line tool: main.rs and commands.rs of rylr998-tool over the *)
(* blocking Radio, whose calls are one step each way here: a command goes  *)
(* to the module, and a line comes back or the deadline passes.  A session *)
(* is one run of the tool.  It may be killed, and the module may still be  *)
(* at the command of an earlier session when the next one opens the port:  *)
(* driver.rs decides what becomes of a line that answers nobody.           *)
(***************************************************************************)
EXTENDS Integers, Sequences, FiniteSets

CONSTANTS
  Ports,       \* the names of serial ports there may be
  UsbSerial,   \* those whose leaf starts with "cu.usbserial"
  Requests,    \* what provision may be asked for: functions from settings
  Vals         \* the values of settings (a cpin is one whatever its case)

Setting == {"address", "network_id", "cpin", "band", "parameters"}
Fixed == {"crfop", "uid", "version"}

ASSUME RequestAssumption ==
  \A req \in Requests :
    /\ {"address", "network_id"} \subseteq DOMAIN req /\ DOMAIN req \subseteq Setting
    /\ \A s \in DOMAIN req : req[s] \in Vals

Factory == 0
NoVal == -1
ASSUME ValAssumption == Factory \in Vals /\ NoVal \notin Vals

None == "None"

-----------------------------------------------------------------------------
(* What a session does                                                     *)

\* A call of a method of Radio; `val` is what is set, or must be read back.
Call(op, setting, val) == [op |-> op, setting |-> setting, val |-> val]

\* Mistake: what was set is not read back.
SetAndVerifyUnread(s, val) == <<Call("Set", s, val)>>

SetAndVerify(s, val) == <<Call("Set", s, val), Call("Get", s, val)>>

\* The settings asked for, in the order of the code.
ProvisionPlan(req) ==
  LET asked(s) == IF s \in DOMAIN req THEN SetAndVerify(s, req[s]) ELSE <<>>
  IN  asked("address") \o asked("network_id") \o asked("cpin") \o asked("band")
        \o asked("parameters")

InfoOrder == <<"address", "network_id", "band", "cpin", "parameters", "crfop", "uid", "version">>
InfoPlan == <<Call("Ping", None, NoVal)>> \o [i \in 1..8 |-> Call("Get", InfoOrder[i], NoVal)]

Plans ==
  {InfoPlan, <<Call("Reset", None, NoVal)>>, <<Call("Send", None, NoVal)>>,
   <<Call("Listen", None, NoVal)>>} \cup {ProvisionPlan(req) : req \in Requests}

-----------------------------------------------------------------------------
VARIABLES
  pc,         \* "shell", "call", "wait", "listen" or "event"
  plan,       \* the calls of the session still to be made, the current one first
  slot,       \* what the driver awaits: "Idle", "Ack" or a setting
  resetting,  \* awaiting_ready_as_ok of the driver
  line,       \* lines at the host, not yet served
  stop,       \* Ctrl-C while listening
  status,     \* how the last session ended
  session,    \* history: the calls this session set out to make
  seen,       \* history: the settings it has read, [setting, val]
  inbox,      \* commands at the module, not yet executed
  stored      \* the settings in the module

hostVars   == <<pc, plan, slot, resetting, stop, status, session, seen>>
moduleVars == <<inbox, stored>>
toolVars   == <<hostVars, line, moduleVars>>

ToolInit ==
  /\ pc = "shell" /\ plan = <<>> /\ slot = "Idle" /\ resetting = FALSE
  /\ line = <<>> /\ stop = FALSE /\ status = "None"
  /\ session = <<>> /\ seen = {}
  /\ inbox = <<>> /\ stored = [s \in Setting |-> Factory]

-----------------------------------------------------------------------------
(* Starting: main, filter, decide                                          *)

Discover(names) ==
  LET candidates == names \cap UsbSerial
  IN  CASE Cardinality(candidates) = 0 -> "NoDevice"
        [] Cardinality(candidates) = 1 -> "Found"
        [] OTHER -> "Ambiguous"

\* A module that is still at an old command is at one only.
StartTool(p) ==
  /\ pc = "shell" /\ Len(inbox) <= 1
  /\ pc' = IF p[1].op = "Listen" THEN "listen" ELSE "call"
  /\ plan' = p /\ slot' = "Idle" /\ resetting' = FALSE
  /\ line' = <<>> /\ stop' = FALSE /\ status' = "Running"
  /\ session' = p /\ seen' = {}
  /\ UNCHANGED moduleVars

\* Without --port, unless one port is found; or the port does not open.
StartFails ==
  /\ pc = "shell"
  /\ status' \in ({Discover(names) : names \in SUBSET Ports} \cup {"Serial"}) \ {"Found"}
  /\ session' = <<>> /\ seen' = {}
  /\ UNCHANGED <<pc, plan, slot, resetting, stop, line, moduleVars>>

-----------------------------------------------------------------------------
(* A call                                                                  *)

Exits(how) == pc' = "shell" /\ status' = how /\ plan' = <<>>

\* `info` only marks a failed ping; every other error ends the session.
CallFails(how) ==
  IF plan[1].op = "Ping"
    THEN pc' = "call" /\ plan' = Tail(plan) /\ UNCHANGED status
    ELSE Exits(how)

CallSucceeds ==
  IF Len(plan) = 1 THEN Exits("Success")
                   ELSE pc' = "call" /\ plan' = Tail(plan) /\ UNCHANGED status

\* Mistake: the setting read back is not compared, what was set is reported.
GetsUnchecked(val) ==
  /\ seen' = IF plan[1].setting \in Setting
               THEN seen \cup {[setting |-> plan[1].setting,
                                val |-> IF plan[1].val = NoVal THEN val ELSE plan[1].val]}
               ELSE seen
  /\ CallSucceeds

\* provision compares, info prints.
Gets(val) ==
  /\ seen' = IF plan[1].setting \in Setting
               THEN seen \cup {[setting |-> plan[1].setting, val |-> val]} ELSE seen
  /\ IF plan[1].val \in {NoVal, val} THEN CallSucceeds ELSE Exits("VerifyFailed")

Awaited(c) == IF c.op = "Get" THEN c.setting ELSE "Ack"

SubmitRefused ==
  /\ pc = "call" /\ slot # "Idle"
  /\ CallFails("Busy")
  /\ UNCHANGED <<slot, resetting, stop, session, seen, line, moduleVars>>

SubmitAccepted ==
  /\ pc = "call" /\ slot = "Idle"
  /\ slot' = Awaited(plan[1]) /\ resetting' = (plan[1].op = "Reset")
  /\ inbox' = Append(inbox, plan[1])
  /\ pc' = "wait"
  /\ UNCHANGED <<plan, stop, status, session, seen, line, stored>>

\* write_all fails: the command went out or it did not, the driver waits for the
\* acknowledgement of its bytes.  A part of it spoils the next command at worst,
\* which the module then refuses (ModuleDoesNot).
WriteFails ==
  /\ pc = "call" /\ slot = "Idle"
  /\ slot' = "Unsent" /\ resetting' = (plan[1].op = "Reset")
  /\ inbox' \in {inbox, Append(inbox, plan[1])}
  /\ CallFails("Io")
  /\ UNCHANGED <<stop, session, seen, line, stored>>

ReadFails ==
  /\ pc = "wait"
  /\ CallFails("Io")
  /\ UNCHANGED <<slot, resetting, stop, session, seen, line, moduleVars>>

CallTimesOut ==
  /\ pc = "wait"
  /\ CallFails("Timeout")
  /\ UNCHANGED <<slot, resetting, stop, session, seen, line, moduleVars>>

\* Mistake: the flag of a reset outlives its reply.
ResolvesKeepsFlag == slot' = "Idle" /\ UNCHANGED resetting

Resolves == slot' = "Idle" /\ resetting' = FALSE

\* poll(), at the line at the head; any line not named here stays there.
ServesAnswer ==
  /\ pc = "wait" /\ line # <<>>
  /\ line' = Tail(line)
  /\ UNCHANGED <<stop, session, moduleVars>>
  /\ LET head == line[1] IN
       \/ /\ head.key = "+ERR=" /\ slot # "Idle"
          /\ Resolves /\ CallFails("Radio") /\ UNCHANGED seen
       \/ /\ head.key = "+OK" /\ slot = "Ack"
          /\ Resolves /\ CallSucceeds /\ UNCHANGED seen
       \/ /\ head.key = "+READY" /\ resetting
          /\ Resolves /\ CallSucceeds /\ UNCHANGED seen
       \/ /\ head.key = slot
          /\ Resolves /\ Gets(head.val)

\* A +READY nobody waits for is queued as an event; a +RESET is swallowed by a
\* reset, and takes the slot of any other acknowledgement without an answer.
ServesOther ==
  /\ pc = "wait" /\ line # <<>>
  /\ line' = Tail(line)
  /\ \/ line[1].key = "+READY" /\ ~resetting /\ UNCHANGED <<slot, resetting>>
     \/ line[1].key = "+RESET" /\ resetting /\ UNCHANGED <<slot, resetting>>
     \/ line[1].key = "+RESET" /\ ~resetting /\ slot = "Ack" /\ Resolves
  /\ UNCHANGED <<pc, plan, stop, status, session, seen, moduleVars>>

-----------------------------------------------------------------------------
(* listen                                                                  *)

\* The flag is looked at between two calls of next_event.
ListenOn ==
  /\ pc = "listen" /\ ~stop
  /\ pc' = "event"
  /\ UNCHANGED <<plan, slot, resetting, stop, status, session, seen, line, moduleVars>>

ListenEnds ==
  /\ pc = "listen" /\ stop
  /\ Exits("Success")
  /\ UNCHANGED <<slot, resetting, stop, session, seen, line, moduleVars>>

\* Mistake: after a Timeout the flag is not looked at.
NextEventReturnsToItself ==
  /\ pc = "event"
  /\ UNCHANGED toolVars

\* An event, or Timeout: also when the port fails, next_event drops that error.
NextEventReturns ==
  /\ pc = "event"
  /\ pc' = "listen"
  /\ line' = IF line # <<>> /\ line[1].key = "+READY" THEN Tail(line) ELSE line
  /\ UNCHANGED <<plan, slot, resetting, stop, status, session, seen, moduleVars>>

CtrlC ==
  /\ pc \in {"listen", "event"} /\ ~stop
  /\ stop' = TRUE
  /\ UNCHANGED <<pc, plan, slot, resetting, status, session, seen, line, moduleVars>>

\* Outside listen Ctrl-C, or anything else, ends the process where it is.
Killed ==
  /\ pc # "shell"
  /\ Exits("Killed")
  /\ UNCHANGED <<slot, resetting, stop, session, seen, line, moduleVars>>

-----------------------------------------------------------------------------
(* The module                                                              *)

AnswerTo(c) ==
  CASE c.op = "Reset" -> <<[key |-> "+RESET", val |-> NoVal], [key |-> "+READY", val |-> NoVal]>>
    [] c.op = "Get" /\ c.setting \in Setting -> <<[key |-> c.setting, val |-> stored[c.setting]]>>
    [] c.op = "Get" /\ c.setting \notin Setting -> <<[key |-> c.setting, val |-> NoVal]>>
    [] OTHER -> <<[key |-> "+OK", val |-> NoVal]>>

\* What arrives while the port is closed is gone.
Says(lines) == line' = IF pc = "shell" THEN line ELSE line \o lines

ModuleExecutes ==
  /\ inbox # <<>> /\ inbox' = Tail(inbox)
  /\ LET c == inbox[1] IN
       /\ stored' = CASE c.op = "Set"   -> [stored EXCEPT ![c.setting] = c.val]
                      [] c.op = "Reset" -> [s \in Setting |-> Factory]
                      [] OTHER          -> stored
       /\ Says(AnswerTo(c)) \/ UNCHANGED line
  /\ UNCHANGED hostVars

\* Refused, or lost on the way.
ModuleDoesNot ==
  /\ inbox # <<>> /\ inbox' = Tail(inbox)
  /\ Says(<<[key |-> "+ERR=", val |-> NoVal]>>) \/ UNCHANGED line
  /\ UNCHANGED <<stored, hostVars>>

-----------------------------------------------------------------------------
Session ==
  \/ SubmitRefused \/ SubmitAccepted \/ CallTimesOut \/ ServesAnswer \/ ServesOther
  \/ ListenOn \/ ListenEnds \/ NextEventReturns

ToolNext ==
  \/ \E p \in Plans : StartTool(p)
  \/ StartFails \/ Session \/ WriteFails \/ ReadFails \/ CtrlC \/ Killed
  \/ ModuleExecutes \/ ModuleDoesNot

ToolSpec == ToolInit /\ [][ToolNext]_toolVars

\* A process runs until it is killed, and deadlines pass.
FairToolSpec == ToolSpec /\ WF_toolVars(Session)

-----------------------------------------------------------------------------
ToolTypeOK ==
  /\ pc \in {"shell", "call", "wait", "listen", "event"}
  /\ slot \in {"Idle", "Ack", "Unsent"} \cup Setting \cup Fixed
  /\ resetting \in BOOLEAN /\ (resetting => slot \in {"Ack", "Unsent"}) /\ stop \in BOOLEAN
  /\ seen \subseteq [setting : Setting, val : Vals]
  /\ stored \in [Setting -> Vals] /\ Len(inbox) <= 2 /\ (pc = "shell" <=> plan = <<>>)

\* What a session has read, and so everything provision has verified, is what
\* the module holds: although answers to the command of an earlier session come
\* in first, commands and answers get lost, and the tool is killed anywhere.
\* (The read-back of provision; the slot and the line left at the head of rx.)
SeenIsStored == \A x \in seen : stored[x.setting] = x.val

\* A session that ends well leaves in the module every setting it was to make.
\* (provision: an acknowledgement may be that of an earlier session.)
SuccessMeansStored ==
  status = "Success" =>
    \A i \in DOMAIN session :
      session[i].op = "Set" => stored[session[i].setting] = session[i].val

\* Every session but one that listens comes to its end, whatever the module does,
\* and that one does after Ctrl-C. (Deadlines; the stop flag.)
SessionsEnd ==
  (pc \in {"call", "wait"} \/ (pc \in {"listen", "event"} /\ stop)) ~> (pc = "shell")
=============================================================================
