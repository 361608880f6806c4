------------------------------ MODULE MCFleet ------------------------------
(* Model values for Fleet: every daemon stands for one agent.               *)
EXTENDS Fleet

CONSTANTS alpha, d1

MCName == [d \in {d1} |-> alpha]
=============================================================================
