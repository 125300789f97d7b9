--------------------------- MODULE MCTaskService ----------------------------
(* Instances of TaskService for TLC: t2 depends on t1; a workspace limit of *)
(* two, and a provider limit of one that t1 shares with t3.                 *)
EXTENDS TaskService, TLC

CONSTANTS t1, t2, t3, p1, p2

MCDependsOn == [t \in Task |-> IF t = t2 THEN {t1} ELSE {}]
MCPools == {[tasks |-> Task, limit |-> 2], [tasks |-> Task \cap {t1, t3}, limit |-> 1]}

ProcSymmetry == Permutations({p1, p2})
=============================================================================
