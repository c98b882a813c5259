----------------------------- MODULE IndexCopy ------------------------------
(***************************************************************************)
(* What an index promises about one crate: it is a copy of the database    *)
(* that may lag behind, but never goes back and never shows a state that   *)
(* was not committed.  The states of the crate are numbered in the order   *)
(* in which they were committed.                                           *)
(***************************************************************************)
EXTENDS Integers

VARIABLES source, copy

Init == source = 0 /\ copy = 0

\* The crate changes: publish, yank, unyank or delete.
Change == source' = source + 1 /\ copy' = copy

\* The copy moves forward to a state the source has had.
Advance == copy' \in copy + 1 .. source /\ source' = source

Next == Change \/ Advance

Spec == Init /\ [][Next]_<<source, copy>>
=============================================================================
