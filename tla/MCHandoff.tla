------------------------------ MODULE MCHandoff ------------------------------
EXTENDS Handoff

OneWorkspace == [w \in Attempts |-> "workspace"]
=============================================================================
