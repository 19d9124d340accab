----------------------------- MODULE MCRequests -----------------------------
(***************************************************************************)
(* A client that registers, calls any method and leaves, in whatever  *)
(* order and without waiting, while a task replies for its handler or      *)
(* looks around and the reaper runs.                                       *)
(***************************************************************************)
EXTENDS Requests

CONSTANTS bot, task

MCCaps == [c \in Conns |-> {"agent", "admin"}]
MCUses == [c \in Conns |-> Methods]
MCCalls == [c \in Conns |-> 1]

=============================================================================
