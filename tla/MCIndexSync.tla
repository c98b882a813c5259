---------------------------- MODULE MCIndexSync -----------------------------
(* Small instances of IndexSync for TLC.                                   *)
EXTENDS IndexSync

CONSTANTS w1, c1, c2, git, sparse

\* The git index has one worker; the sparse index job is in the default queue,
\* which has several.
MCRegistered ==
  [w \in Workers |-> Kinds \cap (IF w = GitWorker THEN {git} ELSE {sparse})]

MCPriority == [k \in Kinds |-> 100]
=============================================================================
