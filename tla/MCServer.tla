------------------------------ MODULE MCServer ------------------------------
(* Model checking Server.                                                   *)
EXTENDS Server, TLC

\* The connections are alike, but for the pipelined ones.
Clients == Permutations(Conn \ Pipelined)
=============================================================================
