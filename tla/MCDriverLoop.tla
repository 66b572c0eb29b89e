----------------------------- MODULE MCDriverLoop ----------------------------
(* The driver under its documented caller, for TLC.                        *)
EXTENDS DriverLoop

Body(k, good) == [key |-> k, ok |-> good, val |-> 0]
cr == Body("CR", TRUE)
lf == Body("LF", TRUE)
WholeLine(k, good) == <<Body(k, good), cr, lf>>

MCCommands == [op : {"Ping", "GetAddress", "FactoryReset"}, arg : {0}]
Lens == [c \in MCCommands |-> IF c.op = "Ping" THEN 1 ELSE 2]
Zero == {0}

\* Whole lines of each sort, with errors, values that do not parse, a value nobody asked for
\* and the two lines of a factory reset in one read.
MoreInputs ==
  {WholeLine(k, TRUE) : k \in {"+OK", "+ERR=", "+ADDRESS=", "+BAND=", "+RESET", "+RCV"}}
  \cup {WholeLine(k, FALSE) : k \in {"+ADDRESS=", "+RCV", "+READY"}}
  \cup {<<Body("+OK", TRUE), cr>>, <<lf>>,
         WholeLine("+RESET", TRUE) \o WholeLine("+READY", TRUE)}
=============================================================================
