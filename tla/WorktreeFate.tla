----------------------------- MODULE WorktreeFate -----------------------------
(***************************************************************************)
(* What the handoff of worktrees promises: the work of an attempt is kept  *)
(* until it is recorded as applied, after its patch was laid, or until it  *)
(* is removed, and not both; a patch is laid on no other patch, after one  *)
(* check that found the checkout clean, and an applied one not again.  The *)
(* user may change the checkout between that check and the patch.          *)
(***************************************************************************)
CONSTANT Attempts

VARIABLES fate,      \* of each attempt: "kept", "applied", "removed"
          laid,      \* the attempts whose patches are uncommitted in the checkout
          edited,    \* the user has uncommitted changes there too
          delivered, \* the attempts whose patches were laid at some time
          checked    \* the checkout was found clean and a patch may follow

vars == <<fate, laid, edited, delivered, checked>>

Init ==
  /\ fate = [w \in Attempts |-> "kept"] /\ laid = {} /\ delivered = {}
  /\ edited = FALSE /\ checked = FALSE

Check ==
  /\ ~checked /\ laid = {} /\ ~edited /\ checked' = TRUE
  /\ UNCHANGED <<fate, laid, edited, delivered>>
GiveUp == checked /\ checked' = FALSE /\ UNCHANGED <<fate, laid, edited, delivered>>
Lay(w) ==
  /\ checked /\ checked' = FALSE /\ fate[w] = "kept"
  /\ laid = {} /\ laid' = {w} /\ delivered' = delivered \cup {w}
  /\ UNCHANGED <<fate, edited>>

Settle(w, f) ==
  /\ fate[w] = "kept" /\ fate' = [fate EXCEPT ![w] = f]
  /\ UNCHANGED <<laid, edited, delivered, checked>>
Apply(w) == w \in delivered /\ Settle(w, "applied")
Remove(w) == Settle(w, "removed")

\* The user changes files, and commits or reverts what is there.
Edit == edited' = TRUE /\ UNCHANGED <<fate, laid, delivered, checked>>
Clear == laid' = {} /\ edited' = FALSE /\ UNCHANGED <<fate, delivered, checked>>

Next ==
  \/ Check \/ GiveUp \/ Edit \/ Clear
  \/ \E w \in Attempts : Lay(w) \/ Apply(w) \/ Remove(w)
Spec == Init /\ [][Next]_vars
=============================================================================
