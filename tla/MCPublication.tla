--------------------------- MODULE MCPublication ----------------------------
(***************************************************************************)
(* Small instances, for TLC, of what lies around a publication: the        *)
(* RateLimiter it passes first, Publication itself, and the GitIndex in    *)
(* which it is recorded.  They share no state, so a behaviour is one of    *)
(* one of them, chosen in the initial state; the others stay where they    *)
(* begin.                                                                  *)
(***************************************************************************)
EXTENDS Publication, RateLimiter, GitIndex, TLC

CONSTANTS h1, h2, d1, a1, w1

VARIABLE part

\* Requests of two of them, and the crates and processes of the third, are called the
\* same.
Symmetry == Permutations(Requests)

\* A part that stays where it begins has one beginning.
MCInit ==
  /\ part \in {"publish", "limit", "git"}
  /\ Init
  /\ RateInit
  /\ GitInit /\ (part # "git" => alive = Processes)

MCNext ==
  /\ UNCHANGED part
  /\ \/ part = "publish" /\ Next
     \/ part # "publish" /\ UNCHANGED vars
  /\ \/ part = "limit" /\ RateNext
     \/ part # "limit" /\ UNCHANGED rateVars
  /\ \/ part = "git" /\ GitNext
     \/ part # "git" /\ UNCHANGED gitVars

MCSpec == MCInit /\ [][MCNext]_<<part, vars, rateVars, gitVars>>

\* Two spellings of one name.
MCCanon == [n \in Names |-> IF n = "a_b" THEN "a-b" ELSE n]
=============================================================================
