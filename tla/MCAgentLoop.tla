------------------------------ MODULE MCAgentLoop ------------------------------
(***************************************************************************)
(* A small instance of AgentLoop: one turn at a time, of a download in     *)
(* either loop, with all the tools and with none that searches or lists,   *)
(* or of a chat; and one more caller of the same model.                    *)
(***************************************************************************)
EXTENDS AgentLoop

CONSTANTS t1, c2

MCOffers ==
    [task : {"download"}, loop : {"stream", "plain"}, tools : {Tools, {"queue", "lookup"}}]
    \cup [task : {"other"}, loop : {"stream"}, tools : {{"lookup"}}]

=============================================================================
