----------------------------- MODULE AtomicRecord -----------------------------
(***************************************************************************)
(* What the store of task records promises to its callers: every update    *)
(* happens at once or not at all, an update that happened stays, and only  *)
(* one that happened is confirmed.                                         *)
(***************************************************************************)
CONSTANT Updates

VARIABLES done, confirmed

Init == done = {} /\ confirmed = {}

Happen(u) == u \notin done /\ done' = done \cup {u} /\ UNCHANGED confirmed
Confirm(u) == u \in done /\ confirmed' = confirmed \cup {u} /\ UNCHANGED done

Next == \E u \in Updates : Happen(u) \/ Confirm(u)
Spec == Init /\ [][Next]_<<done, confirmed>>
=============================================================================
