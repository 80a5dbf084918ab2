--------------------------- MODULE MCAgentSocket ---------------------------
(* AgentSocket on a small instance: a queue of two that overflows, and two *)
(* descriptors, so that a number is and is not reused.                     *)
EXTENDS AgentSocket
=============================================================================
