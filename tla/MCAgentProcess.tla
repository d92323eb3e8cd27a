--------------------------- MODULE MCAgentProcess ---------------------------
(***************************************************************************)
(* AgentProcess for TLC: an attempt of at most two processes, with the     *)
(* reaper's own number of attempts.                                        *)
(***************************************************************************)
EXTENDS AgentProcess
=============================================================================
