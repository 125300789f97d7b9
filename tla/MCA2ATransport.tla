---------------------------- MODULE MCA2ATransport ----------------------------
(* Two tasks that share one pool thread. *)
EXTENDS A2ATransport
=============================================================================
