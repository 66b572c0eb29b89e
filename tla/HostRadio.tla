------------------------------ MODULE HostRadio ------------------------------
(***************************************************************************)
(* What the Radio of a host crate promises to the application that owns    *)
(* it.  Commands are numbered.  A command is accepted if no earlier one is *)
(* still owed an answer; it returns its own answer, or fails and then      *)
(* stays owed, and only the arrival of that answer clears it.  Events are  *)
(* given to the application once each and in the order of arrival; a host  *)
(* without a queue may drop those that come up while a command runs.       *)
(***************************************************************************)
EXTENDS Naturals, Sequences

CONSTANT MayDrop  \* the host has no queue

VARIABLES
  running,  \* the command whose method runs, or 0
  owed,     \* an accepted command has not had its answer
  answer,   \* the command whose answer the last call returned, or 0
  arrived,  \* number of events the radio sent
  gone,     \* number of events given or dropped
  given     \* the events given to the application

promiseVars == <<running, owed, answer, arrived, gone, given>>

Init ==
  /\ running = 0 /\ owed = FALSE /\ answer = 0
  /\ arrived = 0 /\ gone = 0 /\ given = <<>>

Accept ==
  /\ running = 0 /\ ~owed
  /\ running' \in Nat \ {0} /\ owed' = TRUE
  /\ UNCHANGED <<answer, arrived, gone, given>>

Answered ==
  /\ running # 0 /\ owed
  /\ running' = 0 /\ owed' = FALSE /\ answer' = running
  /\ UNCHANGED <<arrived, gone, given>>

\* Refused, given up, or listened in vain.
Fails ==
  /\ running' = 0 /\ answer' = 0
  /\ UNCHANGED <<owed, arrived, gone, given>>

LateAnswer ==
  /\ running = 0 /\ owed /\ owed' = FALSE
  /\ UNCHANGED <<running, answer, arrived, gone, given>>

Arrive ==
  /\ arrived' = arrived + 1
  /\ UNCHANGED <<running, owed, answer, gone, given>>

Give ==
  /\ running = 0 /\ gone < arrived
  /\ gone' = gone + 1 /\ given' = Append(given, gone')
  /\ answer' \in {answer, 0}
  /\ UNCHANGED <<running, owed, arrived>>

Drop ==
  /\ MayDrop /\ running # 0 /\ gone < arrived
  /\ gone' = gone + 1
  /\ UNCHANGED <<running, owed, answer, arrived, given>>

Next ==
  \/ Accept \/ Answered \/ Fails \/ LateAnswer \/ Arrive \/ Give \/ Drop

Spec == Init /\ [][Next]_promiseVars
=============================================================================
