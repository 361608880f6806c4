---------------------------- MODULE MCRemoteCall ----------------------------
(* Model values for RemoteCall: one agent that connects twice.              *)
EXTENDS RemoteCall

CONSTANTS alpha, a1, a2

MCAgents == {alpha}
MCConns == {a1, a2}
MCOwner == [c \in MCConns |-> alpha]
=============================================================================
