------------------------------ MODULE MCDriver ------------------------------
(* Instances of the driver for TLC.                                        *)
EXTENDS DriverTrace

Body(k, good) == [key |-> k, ok |-> good, val |-> 0]
cr == Body("CR", TRUE)
lf == Body("LF", TRUE)
WholeLine(k, good) == <<Body(k, good), cr, lf>>

MCCommands == [op : {"Ping", "GetAddress", "FactoryReset"}, arg : {0}]
Lens == [c \in MCCommands |-> IF c.op = "Ping" THEN 1 ELSE 2]
Zero == {0}

\* One line of each sort the code tells apart, and one line in two pieces: its
\* text with the CR, and the LF that completes it.
FewInputs ==
  {WholeLine(k, TRUE) : k \in {"+OK", "+ADDRESS=", "+RESET", "+READY"}}
  \cup {WholeLine("+RCV", FALSE), <<Body("+OK", TRUE), cr>>, <<lf>>}
=============================================================================
