--------------------------- MODULE MCEmbassyRadio ---------------------------
(* The no_std driver and the module, for TLC.                              *)
EXTENDS EmbassyRadio

CONSTANT Ops  \* the commands a call may be for

MCVals == 0..3
MCCommands == [op : Ops, arg : 1..MaxCalls]
Lens == [c \in MCCommands |-> 2]
NoInputs == {}
=============================================================================
