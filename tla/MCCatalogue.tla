---------------------------- MODULE MCCatalogue -----------------------------
(***************************************************************************)
(* Small instances, for TLC, of the modules about reading what is in the   *)
(* database: page by page, one crate with its versions, and all of it in a *)
(* dump.  A behaviour is one of one of them, chosen in the initial state;  *)
(* the others stay where they begin.                                       *)
(***************************************************************************)
EXTENDS Listing, CrateView, DatabaseDump, TLC

VARIABLE part

\* Where the parts begin that have several beginnings, when they stay there.
ListRests == walk.kind = "id" /\ walk.per = 1

ViewRests ==
  /\ num = [v \in VersionIds |-> v]
  /\ pre = [v \in VersionIds |-> FALSE]
  /\ current.recent = 3

\* The workers that run the dump differ in nothing.
MCSymmetry == Permutations(DumpWorkers)

MCInit ==
  /\ part \in {"list", "view", "dump"}
  /\ DumpInit
  /\ ViewInit /\ (part # "view" => ViewRests)
  /\ ListInit /\ (part # "list" => ListRests)

MCNext ==
  /\ UNCHANGED part
  /\ \/ part = "list" /\ ListNext /\ UNCHANGED <<viewVars, dumpVars>>
     \/ part = "view" /\ ViewNext /\ UNCHANGED <<listVars, dumpVars>>
     \/ part = "dump" /\ DumpNext /\ UNCHANGED <<listVars, viewVars>>

MCSpec == MCInit /\ [][MCNext]_<<part, listVars, viewVars, dumpVars>>
=============================================================================
