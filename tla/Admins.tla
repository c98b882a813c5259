------------------------------- MODULE Admins --------------------------------
(***************************************************************************)
(* SyncAdmins: the administrators are the people to whom the rust-lang/team *)
(* repository gives the permission and who have an account, known by the   *)
(* GitHub id in oauth_github.  The job asks the repository, reads users,   *)
(* grants and then revokes, each in a statement of its own; people log in  *)
(* for the first time, and the repository changes, in between.  Runs       *)
(* overlap: an operator may enqueue the job while one is in progress, and  *)
(* a run whose worker has lost its session goes on beside the next one.    *)
(***************************************************************************)
EXTENDS Naturals, FiniteSets

CONSTANTS Team,       \* people
          Syncs,      \* runs of SyncAdmins at a time
          MaxChanges  \* bound: changes of the repository

VARIABLES
  permitted,   \* the people of the repository who have the permission
  members,     \* the people who have an account, with a row in oauth_github
  admins,      \* the users with is_admin
  spc,         \* per run: "idle", "asked", "read" or "granted"
  repoAdmins,  \* per run: what the repository said
  rows,        \* per run: the users it has read, and whether they were administrators
  changes,     \* changes of the repository so far
  known,       \* history, per run: the people who are to the repository and among the
               \*   accounts what they were when the run asked
  sure,        \* history, per run: those of them of whom no run that knew them as they no
               \*   longer were has changed is_admin since
  settled      \* history: the people of whom a run that was sure of them has ended well,
               \*   and who have met none of this since

syncVars == <<spc, repoAdmins, rows>>
surenessVars == <<known, sure, settled>>
adminVars == <<permitted, members, admins, changes, syncVars, surenessVars>>

AdminsInit ==
  /\ permitted \in SUBSET Team
  /\ members \in SUBSET Team
  /\ admins \in SUBSET members
  /\ spc = [n \in Syncs |-> "idle"]
  /\ repoAdmins = [n \in Syncs |-> {}]
  /\ rows = [n \in Syncs |-> {}]
  /\ changes = 0
  /\ known = [n \in Syncs |-> {}]
  /\ sure = [n \in Syncs |-> {}]
  /\ settled = {}

\* Somebody is not what the runs have seen any more.
Disturbed(p) ==
  /\ known' = [n \in Syncs |-> known[n] \ {p}]
  /\ sure' = [n \in Syncs |-> sure[n] \ {p}]
  /\ settled' = settled \ {p}

\* The team repository changes (external).
ChangePermission(p) ==
  /\ changes < MaxChanges
  /\ changes' = changes + 1
  /\ permitted' = IF p \in permitted THEN permitted \ {p} ELSE permitted \cup {p}
  /\ Disturbed(p)
  /\ UNCHANGED <<members, admins, syncVars>>

\* Somebody logs in for the first time.
Register(p) ==
  /\ p \notin members
  /\ members' = members \cup {p}
  /\ Disturbed(p)
  /\ UNCHANGED <<permitted, admins, changes, syncVars>>

\* SyncAdmins::run: team_repo.get_permission
AskRepo(n) ==
  /\ spc[n] = "idle"
  /\ spc' = [spc EXCEPT ![n] = "asked"]
  /\ repoAdmins' = [repoAdmins EXCEPT ![n] = permitted]
  /\ known' = [known EXCEPT ![n] = Team]
  /\ sure' = [sure EXCEPT ![n] = Team]
  /\ UNCHANGED <<permitted, members, admins, rows, changes, settled>>

\* UserData::query
ReadUsers(n) ==
  /\ spc[n] = "asked"
  /\ spc' = [spc EXCEPT ![n] = "read"]
  /\ rows' = [rows EXCEPT ![n] =
       {[user |-> u, admin |-> u \in admins] : u \in admins \cup (members \cap repoAdmins[n])}]
  /\ UNCHANGED <<permitted, members, admins, repoAdmins, changes, surenessVars>>

\* The people whose is_admin the step of a run changes though it does not know them as
\* they are: other runs are no longer sure of them.
Misjudged(n) == {p \in Team : p \in admins' <=> p \notin admins} \ known[n]

\* new_admin_user_ids
Grant(n) ==
  /\ spc[n] = "read"
  /\ spc' = [spc EXCEPT ![n] = "granted"]
  /\ admins' = admins \cup {r.user : r \in {r \in rows[n] : ~r.admin}}
  /\ sure' = [m \in Syncs |-> sure[m] \ Misjudged(n)]
  /\ settled' = settled \ Misjudged(n)
  /\ UNCHANGED <<permitted, members, repoAdmins, rows, changes, known>>

\* Mutant: only those who were just granted access are looked at.
Obsolete_new(n) == {r.user : r \in {r \in rows[n] : ~r.admin /\ r.user \notin repoAdmins[n]}}

Obsolete(n) == {r.user : r \in {r \in rows[n] : r.user \notin repoAdmins[n]}}

\* The run is over, and its variables with it.
SyncEnds(n) ==
  /\ spc' = [spc EXCEPT ![n] = "idle"]
  /\ repoAdmins' = [repoAdmins EXCEPT ![n] = {}]
  /\ rows' = [rows EXCEPT ![n] = {}]
  /\ known' = [known EXCEPT ![n] = {}]

\* obsolete_admin_user_ids; then mail, whose failure changes nothing.
Revoke(n) ==
  /\ spc[n] = "granted"
  /\ SyncEnds(n)
  /\ admins' = admins \ Obsolete(n)
  /\ sure' = [m \in Syncs |-> IF m = n THEN {} ELSE sure[m] \ Misjudged(n)]
  /\ settled' = (settled \ Misjudged(n)) \cup sure[n]
  /\ UNCHANGED <<permitted, members, changes>>

\* A request or a statement fails, or the worker is lost.
SyncFails(n) ==
  /\ spc[n] # "idle"
  /\ SyncEnds(n)
  /\ sure' = [sure EXCEPT ![n] = {}]
  /\ UNCHANGED <<permitted, members, admins, changes, settled>>

AdminsNext ==
  \/ \E p \in Team : ChangePermission(p) \/ Register(p)
  \/ \E n \in Syncs : AskRepo(n) \/ ReadUsers(n) \/ Grant(n) \/ Revoke(n) \/ SyncFails(n)

AdminsSpec == AdminsInit /\ [][AdminsNext]_adminVars

-----------------------------------------------------------------------------
\* Administrators are users, and runs of the job have a state.
AdminsTypeOK ==
  /\ members \subseteq Team /\ admins \subseteq members /\ settled \subseteq Team
  /\ \A n \in Syncs :
       /\ spc[n] \in {"idle", "asked", "read", "granted"}
       /\ spc[n] \in {"idle", "asked"} => rows[n] = {}
       /\ \A r \in rows[n] : r.user \in members
       /\ sure[n] \subseteq known[n]

\* SyncAdmins: once a run has ended well, a person is an administrator exactly if they have
\* the permission and an account, unless they have got or lost either since the run asked,
\* or a run that asked before that has changed their is_admin.  Other people, the runs that
\* fail after granting, and overlapping runs with the right answer do not matter.
AdminsSettle == \A p \in settled : p \in admins <=> p \in permitted /\ p \in members

\* SyncAdmins: a run that ends well leaves the administrators as the team repository has
\* them, each person but those who changed under it or were met by an older run.
AdminsInv == AdminsTypeOK /\ AdminsSettle
=============================================================================
