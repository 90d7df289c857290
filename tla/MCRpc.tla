------------------------------- MODULE MCRpc --------------------------------
(***************************************************************************)
(* A read and a write that are accepted, and requests that are not.        *)
(***************************************************************************)
EXTENDS Rpc

Read == [responseTopic |-> TRUE, wellFormed |-> TRUE, network |-> TRUE, converter |-> "none",
         type |-> "INPUT", isWrite |-> FALSE, count |-> 125, produced |-> 0]

MCInputs ==
    {Read, [Read EXCEPT !.type = "COIL", !.isWrite = TRUE, !.count = 0],
     [Read EXCEPT !.isWrite = TRUE], [Read EXCEPT !.responseTopic = FALSE]}
=============================================================================
