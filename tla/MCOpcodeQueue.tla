--------------------------- MODULE MCOpcodeQueue ---------------------------
(***************************************************************************)
(* A small instance of OpcodeQueue: two producers and two consumers, so    *)
(* that a notification can wake one of several blocked consumers while     *)
(* another consumer steals the opcode, and a limit of one, so that both    *)
(* rejection and overflow happen.                                          *)
(***************************************************************************)
EXTENDS OpcodeQueue
============================================================================
