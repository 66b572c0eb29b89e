------------------------------- MODULE MCTool -------------------------------
(* Sessions of the tool, as many as there may be, for TLC.                 *)
EXTENDS Tool, TLC

MCVals == {Factory, 1, 2}
MCRequests ==
  {("address" :> 1) @@ ("network_id" :> 1),
   ("address" :> 2) @@ ("network_id" :> 1) @@ ("cpin" :> 1),
   ("address" :> 2) @@ ("network_id" :> 2) @@ ("band" :> 1) @@ ("parameters" :> 1)}
=============================================================================
