---------------------------- MODULE MCCollection ----------------------------
(* Two tasks, b needs a; a session  with a reported child in the collected *)
(* workspace, and a child of it that works in a worktree.                   *)
EXTENDS Collection

MCDependsOn == [a |-> {}, b |-> {"a"}]
=============================================================================
