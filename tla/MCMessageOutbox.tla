-------------------------- MODULE MCMessageOutbox --------------------------
(* A small instance of MessageOutbox for TLC: of two texts, one is what    *)
(* the Host makes of the other when it is a first input.                   *)
EXTENDS MessageOutbox, TLC

CONSTANTS plain, full

MCPrepared == (plain :> full) @@ (full :> full)
=============================================================================
