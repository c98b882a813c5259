----------------------------- MODULE Ownership ------------------------------
(***************************************************************************)
(* The owners of one crate and the invitations to become one: add_owners,  *)
(* remove_owners, the acceptance and the refusal of invitations, by the    *)
(* user or with the token of the mail, their expiry, and the deletion of   *)
(* the crate.                                                              *)
(*                                                                         *)
(* Transactions run at READ COMMITTED: each statement sees what others     *)
(* have committed and what its own transaction has written.  Rows that a   *)
(* transaction has written are locked until it ends.  Requests for several *)
(* logins take one step per login.                                         *)
(***************************************************************************)
EXTENDS Integers, FiniteSets

CONSTANTS
  Users,       \* individual users
  Teams,       \* GitHub teams
  Creator,     \* the user who published the crate
  Handlers,    \* requests at work at a time
  NoUser,      \* no user
  MaxInvites   \* bound: invitations made to one user

ASSUME OwnershipAssumption ==
  /\ Creator \in Users
  /\ Users \cap Teams = {}
  /\ NoUser \notin Users
  /\ MaxInvites \in Nat

VARIABLES
  exists,    \* the crate is in the database
  owners,    \* rows of crate_owners that are not deleted
  invite,    \* per user: its row in crate_owner_invitations
  pc,        \* per request: where it is
  seen,      \* per request: the owners its transaction has loaded
  removed,   \* per request: owners its open transaction has removed
  added,     \* per request: teams and invitations its open transaction has added
  target,    \* per request: the user whose invitation it has loaded
  invited,   \* history, per user: invitations made
  answered,  \* history, per user: invitations accepted or declined
  skewed,    \* history: a removal was checked while another was open
  doubled,   \* history: two requests had loaded the same user's invitation
  crossed    \* history: an invitation was accepted during an add_owners

txn == <<seen, removed, added>>
history == <<invited, answered, skewed, doubled, crossed>>
vars == <<exists, owners, invite, pc, txn, target, history>>

Init ==
  /\ exists = TRUE
  /\ owners = {Creator}
  /\ invite = [u \in Users |-> "none"]
  /\ pc = [h \in Handlers |-> "idle"]
  /\ seen = [h \in Handlers |-> {}]
  /\ removed = [h \in Handlers |-> {}]
  /\ added = [h \in Handlers |-> {}]
  /\ target = [h \in Handlers |-> NoUser]
  /\ invited = [u \in Users |-> 0]
  /\ answered = [u \in Users |-> 0]
  /\ skewed = FALSE
  /\ doubled = FALSE
  /\ crossed = FALSE

\* No other transaction has written the row of x, so that h need not wait.
Unlocked(h, x) == \A g \in Handlers \ {h} : x \notin removed[g] \cup added[g]

-----------------------------------------------------------------------------
(* modify_owners: one transaction.                                         *)

\* The owners are loaded and the rights of user u checked: only individual owners
\* have Rights::Full.
BeginModify(h, u, op) ==
  /\ pc[h] = "idle"
  /\ exists
  /\ u \in owners
  /\ pc' = [pc EXCEPT ![h] = op]
  /\ seen' = [seen EXCEPT ![h] = owners]
  /\ UNCHANGED <<exists, owners, invite, removed, added, target, history>>

\* add_owners: x is not among the owners that were loaded.
MayAdd(h, x) == x \notin seen[h]

\* add_team_owner: a team is added at once.
AddTeamOwner(h, t) ==
  /\ pc[h] = "adding"
  /\ exists
  /\ MayAdd(h, t)
  /\ Unlocked(h, t)
  /\ added' = [added EXCEPT ![h] = @ \cup {t}]
  /\ UNCHANGED <<exists, owners, invite, pc, seen, removed, target, history>>

\* invite_user_owner: an expired invitation is deleted and a new one inserted; one
\* that is open stays as it is.
InviteUserOwner(h, u) ==
  /\ pc[h] = "adding"
  /\ exists
  /\ MayAdd(h, u)
  /\ Unlocked(h, u)
  /\ invite[u] # "open"
  /\ invited[u] < MaxInvites
  /\ added' = [added EXCEPT ![h] = @ \cup {u}]
  /\ UNCHANGED <<exists, owners, invite, pc, seen, removed, target, history>>

\* owner_remove: the row of an owner is marked as deleted.  A login that is not an
\* owner ends the transaction.
OwnerRemove(h, x) ==
  /\ pc[h] = "removing"
  /\ x \in owners \ removed[h]
  /\ Unlocked(h, x)
  /\ removed' = [removed EXCEPT ![h] = @ \cup {x}]
  /\ UNCHANGED <<exists, owners, invite, pc, seen, added, target, history>>

\* User::owning, as the transaction of h sees it
Remaining(h) == (owners \cap Users) \ removed[h]

\* remove_owners: an individual owner is left.
CheckRemaining(h) ==
  /\ pc[h] = "removing"
  /\ Remaining(h) # {}
  /\ pc' = [pc EXCEPT ![h] = "checked"]
  /\ skewed' = (skewed \/ \E g \in Handlers \ {h} : removed[g] # {})
  /\ UNCHANGED <<exists, owners, invite, txn, target, invited, answered, doubled, crossed>>

\* The transaction ends, and the request with it.
EndModify(h) ==
  /\ pc' = [pc EXCEPT ![h] = "idle"]
  /\ seen' = [seen EXCEPT ![h] = {}]
  /\ removed' = [removed EXCEPT ![h] = {}]
  /\ added' = [added EXCEPT ![h] = {}]

CommitModify(h) ==
  /\ pc[h] \in {"adding", "checked"}
  /\ owners' = (owners \ removed[h]) \cup (added[h] \cap Teams)
  /\ invite' = [u \in Users |-> IF u \in added[h] THEN "open" ELSE invite[u]]
  /\ invited' = [u \in Users |-> IF u \in added[h] THEN invited[u] + 1 ELSE invited[u]]
  /\ EndModify(h)
  /\ UNCHANGED <<exists, target, answered, skewed, doubled, crossed>>

\* An error, or the loss of the request, ends the transaction without effect.
RollbackModify(h) ==
  /\ pc[h] \in {"adding", "removing", "checked"}
  /\ EndModify(h)
  /\ UNCHANGED <<exists, owners, invite, target, history>>

-----------------------------------------------------------------------------
(* Answers to invitations.                                                 *)

\* The invitation of user u is loaded.  To be accepted it must not have expired;
\* an expired one may be declined.
LoadInvite(h, u, op) ==
  /\ pc[h] = "idle"
  /\ invite[u] # "none"
  /\ op = "accepting" => invite[u] = "open"
  /\ pc' = [pc EXCEPT ![h] = op]
  /\ target' = [target EXCEPT ![h] = u]
  /\ doubled' = (doubled \/ \E g \in Handlers : target[g] = u)
  /\ UNCHANGED <<exists, owners, invite, txn, invited, answered, skewed, crossed>>

EndAnswer(h) ==
  /\ pc' = [pc EXCEPT ![h] = "idle"]
  /\ target' = [target EXCEPT ![h] = NoUser]

\* Mutant: the invitation stays.
DeleteInvite_forgotten(u) == UNCHANGED invite

\* DELETE by primary key: the user and the crate.
DeleteInvite(u) == invite' = [invite EXCEPT ![u] = "none"]

\* accept: the owner is inserted, or its row undeleted, and the invitation deleted.
\* When the crate is gone the foreign key fails.
Accept(h) ==
  /\ pc[h] = "accepting"
  /\ exists
  /\ \A g \in Handlers : target[h] \notin removed[g]
  /\ owners' = owners \cup {target[h]}
  /\ DeleteInvite(target[h])
  /\ answered' = [answered EXCEPT ![target[h]] = @ + 1]
  /\ crossed' = (crossed \/ \E g \in Handlers : pc[g] = "adding")
  /\ EndAnswer(h)
  /\ UNCHANGED <<exists, txn, invited, skewed, doubled>>

Decline(h) ==
  /\ pc[h] = "declining"
  /\ DeleteInvite(target[h])
  /\ answered' = [answered EXCEPT ![target[h]] = @ + 1]
  /\ EndAnswer(h)
  /\ UNCHANGED <<exists, owners, txn, invited, skewed, doubled, crossed>>

\* The mail address of the user is not verified, or the request is lost.
Abandon(h) ==
  /\ pc[h] \in {"accepting", "declining"}
  /\ EndAnswer(h)
  /\ UNCHANGED <<exists, owners, invite, txn, history>>

-----------------------------------------------------------------------------
\* is_expired: time goes by.
Expire(u) ==
  /\ invite[u] = "open"
  /\ invite' = [invite EXCEPT ![u] = "expired"]
  /\ UNCHANGED <<exists, owners, pc, txn, target, history>>

\* delete_crate: the owners and the invitations go by cascade, once no transaction
\* has rows of the crate locked.
DeleteCrate ==
  /\ exists
  /\ \A h \in Handlers : removed[h] = {} /\ added[h] = {}
  /\ exists' = FALSE
  /\ owners' = {}
  /\ invite' = [u \in Users |-> "none"]
  /\ UNCHANGED <<pc, txn, target, history>>

ModifyNext(h) ==
  \/ \E u \in Users, op \in {"adding", "removing"} : BeginModify(h, u, op)
  \/ \E t \in Teams : AddTeamOwner(h, t)
  \/ \E u \in Users : InviteUserOwner(h, u)
  \/ \E x \in Users \cup Teams : OwnerRemove(h, x)
  \/ CheckRemaining(h)
  \/ CommitModify(h)
  \/ RollbackModify(h)

AnswerNext(h) ==
  \/ \E u \in Users, op \in {"accepting", "declining"} : LoadInvite(h, u, op)
  \/ Accept(h)
  \/ Decline(h)
  \/ Abandon(h)

Next ==
  \/ \E h \in Handlers : ModifyNext(h) \/ AnswerNext(h)
  \/ \E u \in Users : Expire(u)
  \/ DeleteCrate

Spec == Init /\ [][Next]_vars

-----------------------------------------------------------------------------
Steps == {"idle", "adding", "removing", "checked", "accepting", "declining"}

\* Owners, invitations and the writes of open transactions have their types; an invitation
\* that was answered is deleted, not kept in another state.
TypeOK ==
  /\ exists \in BOOLEAN
  /\ owners \in SUBSET (Users \cup Teams)
  /\ invite \in [Users -> {"none", "open", "expired"}]
  /\ pc \in [Handlers -> Steps]
  /\ seen \in [Handlers -> SUBSET (Users \cup Teams)]
  /\ removed \in [Handlers -> SUBSET (Users \cup Teams)]
  /\ added \in [Handlers -> SUBSET (Users \cup Teams)]
  /\ target \in [Handlers -> Users \cup {NoUser}]
  /\ invited \in [Users -> Nat]
  /\ answered \in [Users -> Nat]
  /\ skewed \in BOOLEAN
  /\ doubled \in BOOLEAN
  /\ crossed \in BOOLEAN

\* remove_owners: a crate has an individual owner, unless a removal was checked
\* while another one had removed owners and was not committed.  No other
\* interleaving of removals, additions and answers takes the last one away.
IndividualOwnerLeft == exists /\ ~skewed => owners \cap Users # {}

\* accept and decline: an invitation is good for one answer.  The answers of a user,
\* and the invitation it still has, are no more than the invitations made to it,
\* unless two requests had loaded the same invitation; so a removed owner does not
\* come back without a new one.
InvitationUsedOnce ==
  ~doubled =>
    \A u \in Users :
      answered[u] + (IF invite[u] = "none" THEN 0 ELSE 1) <= invited[u]

\* add_owners and accept: an owner has no invitation, which it could accept after it
\* was removed, unless it became one while an add_owners was under way.
NoInvitationForOwners ==
  ~crossed => \A u \in Users \cap owners : invite[u] = "none"

\* Owners and invitations of a crate, with requests that overlap: an individual owner is
\* left, an invitation is good for one answer and owners have none, except in the one
\* overlap that each part names.
OwnershipInv ==
  /\ TypeOK
  /\ IndividualOwnerLeft
  /\ InvitationUsedOnce
  /\ NoInvitationForOwners

\* owners.rs: "at least one individual owner is required."
IndividualOwnerRequired == exists => owners \cap Users # {}
=============================================================================
