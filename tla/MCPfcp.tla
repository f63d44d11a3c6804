------------------------------- MODULE MCPfcp -------------------------------
(* Model-checking instance of Pfcp: one northbound caller; the .cfg files *)
(* set MaxCalls, MaxHeartbeats, N1 = 2 and SeqMax above the number of     *)
(* requests a node can send, so sequence numbers never wrap within a run. *)
EXTENDS Pfcp

MCApiCaller == {"api1"}
=============================================================================
