----------------------------- MODULE MCJobQueue -----------------------------
(* Small instances of JobQueue for TLC.                                    *)
EXTENDS JobQueue

CONSTANTS w1, w2, c1, c2, sync, mail

\* Both workers belong to the default queue, which runs both kinds.
MCRegistered == [w \in Workers |-> Kinds]

\* The index jobs have a higher priority than the mails.
MCPriority == [k \in Kinds |-> IF k = sync THEN 100 ELSE 0]
=============================================================================
