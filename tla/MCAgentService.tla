--------------------------- MODULE MCAgentService ---------------------------
(***************************************************************************)
(* Small instances of AgentService for TLC.                                *)
(***************************************************************************)
EXTENDS AgentService, TLC

\* Processes and turns are interchangeable in a run that checks no liveness.
Symmetric == Permutations(Proc) \cup Permutations(Turn)
=============================================================================
