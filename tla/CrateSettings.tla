---------------------------- MODULE CrateSettings ----------------------------
(***************************************************************************)
(* The setting trustpub_only of a crate: PATCH /crates/{name} changes it   *)
(* and tells the owners; a publication is refused while it is on, unless   *)
(* it is made by a trusted publisher.                                      *)
(*                                                                         *)
(* update_crate reads the crate before its transaction and compares the    *)
(* wanted value with what it read.  In the transaction, the update locks   *)
(* the row until the end, and the mails are sent under that lock.  Each    *)
(* statement sees what is committed by then.                               *)
(***************************************************************************)
EXTENDS Integers, FiniteSets

CONSTANTS
  Patchers,         \* PATCH requests
  Publishers,       \* publication requests
  People,           \* users
  MaxSettingCalls,  \* bound: PATCH requests
  MaxPeopleChanges, \* bound: changes of owners and of their addresses
  MaxSettingErrors  \* bound: mails that are not sent, and queries that fail

ASSUME CrateSettingsAssumption ==
  /\ "free" \notin Patchers
  /\ MaxSettingCalls \in Nat /\ MaxPeopleChanges \in Nat /\ MaxSettingErrors \in Nat

VARIABLES
  setting,       \* trustpub_only, as committed; "gone" once the crate is deleted
  people,        \* per user: whether they own the crate, and their address
  rowLock,       \* the request that holds the lock of the row
  patch,         \* the PATCH requests
  pub,           \* the publications
  told,          \* per user: the last value they were told
  settingCalls, peopleChanges, settingErrors, \* counters of the bounds
  loyal          \* history: the users that have been told of every change so far

settingVars == <<setting, people, rowLock, patch, pub, told, settingCalls, peopleChanges, settingErrors, loyal>>

\* want: the value in the body; seen: the value read before the transaction;
\* asks: the owners found; mails: those still to be told; and, as history, the
\* values that other requests committed meanwhile.
NoPatch == [step |-> "idle", want |-> "none", seen |-> "none", user |-> "none", asks |-> {}, mails |-> {},
            answer |-> "none", others |-> {}]
NoPub == [step |-> "idle", auth |-> "none", seen |-> "none", held |-> {}]

Reachable(u) == people[u].owner /\ people[u].mail # "none"
TellsOwner(u) == people[u].owner /\ people[u].mail = "verified"

SettingInit ==
  /\ setting \in {"on", "off"}
  /\ people \in [People -> [owner : BOOLEAN, mail : {"none", "unverified", "verified"}]]
  /\ rowLock = "free"
  /\ patch = [h \in Patchers |-> NoPatch]
  /\ pub = [p \in Publishers |-> NoPub]
  /\ told = [u \in People |-> setting]
  /\ settingCalls = 0 /\ peopleChanges = 0 /\ settingErrors = 0
  /\ loyal = {u \in People : TellsOwner(u)}

\* The histories of the requests once v is committed.
Commits(v) ==
  /\ setting' = v
  /\ pub' = [p \in Publishers |-> IF pub[p].step = "idle" THEN pub[p] ELSE [pub[p] EXCEPT !.held = @ \cup {v}]]

Overtakes(ps, v) == [h \in Patchers |-> IF ps[h].step \in {"idle", "answered"} THEN ps[h]
                                        ELSE [ps[h] EXCEPT !.others = @ \cup {v}]]

-----------------------------------------------------------------------------
(***************************************************************************)
(* update_crate                                                            *)
(***************************************************************************)

Moves(h, req) == patch' = [patch EXCEPT ![h] = req]
\* What is left of the request once it has its answer.
Over(h, answer) == [step |-> "answered", want |-> patch[h].want, seen |-> "none", user |-> "none", asks |-> {},
                    mails |-> {}, answer |-> answer, others |-> patch[h].others]
Ends(h, answer) == Moves(h, Over(h, answer))

\* load_crate, and the authentication of a user with the right scope.
LoadSetting(h, u, want) ==
  /\ patch[h] = NoPatch /\ settingCalls < MaxSettingCalls
  /\ settingCalls' = settingCalls + 1
  /\ IF setting = "gone" THEN Ends(h, "not found")
     ELSE Moves(h, [NoPatch EXCEPT !.step = "owners", !.user = u, !.want = want, !.seen = setting])
  /\ UNCHANGED <<setting, people, rowLock, pub, told, peopleChanges, settingErrors, loyal>>

\* The owners, joined with their addresses: one without an address is not
\* found, and is refused like a stranger.
ReadOwners(h) ==
  LET asks == {u \in People : setting # "gone" /\ Reachable(u)} IN
  /\ patch[h].step = "owners"
  /\ IF patch[h].user \notin asks THEN Ends(h, "forbidden")
     ELSE Moves(h, [patch[h] EXCEPT !.step = IF patch[h].want \notin {"none", patch[h].seen} THEN "update" ELSE "reload",
                                    !.asks = {u \in asks : TellsOwner(u)}])
  /\ UNCHANGED <<setting, people, rowLock, pub, told, settingCalls, peopleChanges, settingErrors, loyal>>

\* The update waits for the row.  A deleted crate has none to lock.
UpdateSetting(h) ==
  /\ patch[h].step = "update" /\ rowLock = "free"
  /\ rowLock' = IF setting = "gone" THEN rowLock ELSE h
  /\ Moves(h, [patch[h] EXCEPT !.step = "mail", !.mails = patch[h].asks])
  /\ UNCHANGED <<setting, people, pub, told, settingCalls, peopleChanges, settingErrors, loyal>>

\* One mail after the other; that one could not be sent is only logged.
TellOwner(h, u) ==
  /\ patch[h].step = "mail" /\ u \in patch[h].mails
  /\ Moves(h, [patch[h] EXCEPT !.mails = @ \ {u}])
  /\ \/ told' = [told EXCEPT ![u] = patch[h].want] /\ UNCHANGED <<settingErrors, loyal>>
     \/ /\ settingErrors < MaxSettingErrors
        /\ settingErrors' = settingErrors + 1
        /\ loyal' = loyal \ {u}
        /\ UNCHANGED told
  /\ UNCHANGED <<setting, people, rowLock, pub, settingCalls, peopleChanges>>

ToldAll(h) ==
  /\ patch[h].step = "mail" /\ patch[h].mails = {}
  /\ Moves(h, [patch[h] EXCEPT !.step = "reload"])
  /\ UNCHANGED <<setting, people, rowLock, pub, told, settingCalls, peopleChanges, settingErrors, loyal>>

Release(h) == rowLock' = IF rowLock = h THEN "free" ELSE rowLock

ReloadSetting(h) ==
  /\ patch[h].step = "reload"
  /\ IF rowLock = h
     THEN /\ Commits(patch[h].want)
          /\ patch' = Overtakes([patch EXCEPT ![h] = Over(h, patch[h].want)], patch[h].want)
     ELSE Ends(h, IF setting = "gone" THEN "not found" ELSE setting) /\ UNCHANGED <<setting, pub>>
  /\ Release(h)
  /\ UNCHANGED <<people, told, settingCalls, peopleChanges, settingErrors, loyal>>

\* A query fails: nothing is kept, whoever was told.
PatchFails(h) ==
  /\ patch[h].step \in {"owners", "update", "reload"} /\ settingErrors < MaxSettingErrors
  /\ settingErrors' = settingErrors + 1
  /\ Ends(h, "error")
  /\ Release(h)
  /\ loyal' = IF rowLock = h THEN {} ELSE loyal
  /\ UNCHANGED <<setting, people, pub, told, settingCalls, peopleChanges>>

EndPatch(h) ==
  /\ patch[h].step = "answered"
  /\ Moves(h, NoPatch)
  /\ UNCHANGED <<setting, people, rowLock, pub, told, settingCalls, peopleChanges, settingErrors, loyal>>

-----------------------------------------------------------------------------
(***************************************************************************)
(* A publication, as far as it regards the setting                         *)
(***************************************************************************)

\* The crate is read at the start.
BeginPub(p, auth) ==
  /\ pub[p].step = "idle" /\ setting # "gone"
  /\ pub' = [pub EXCEPT ![p] = [step |-> "check", auth |-> auth, seen |-> setting, held |-> {setting}]]
  /\ UNCHANGED <<setting, people, rowLock, patch, told, settingCalls, peopleChanges, settingErrors, loyal>>

CheckPub_any(p) ==
  /\ pub[p].step = "check"
  /\ pub' = [pub EXCEPT ![p].step = "commit"]
  /\ UNCHANGED <<setting, people, rowLock, patch, told, settingCalls, peopleChanges, settingErrors, loyal>>

CheckPub(p) ==
  /\ pub[p].step = "check"
  /\ pub' = [pub EXCEPT ![p] = IF pub[p].seen = "on" /\ pub[p].auth = "regular" THEN NoPub
                               ELSE [pub[p] EXCEPT !.step = "commit"]]
  /\ UNCHANGED <<setting, people, rowLock, patch, told, settingCalls, peopleChanges, settingErrors, loyal>>

\* The version is there; the request is over.
CommitPub(p) ==
  /\ pub[p].step = "commit"
  /\ pub' = [pub EXCEPT ![p].step = "published"]
  /\ UNCHANGED <<setting, people, rowLock, patch, told, settingCalls, peopleChanges, settingErrors, loyal>>

EndPub(p) ==
  /\ pub[p].step = "published"
  /\ pub' = [pub EXCEPT ![p] = NoPub]
  /\ UNCHANGED <<setting, people, rowLock, patch, told, settingCalls, peopleChanges, settingErrors, loyal>>

-----------------------------------------------------------------------------

\* Owners come and go, and so do their addresses.
ChangePerson(u, owner, mail) ==
  /\ peopleChanges < MaxPeopleChanges /\ people[u] # [owner |-> owner, mail |-> mail]
  /\ peopleChanges' = peopleChanges + 1
  /\ people' = [people EXCEPT ![u] = [owner |-> owner, mail |-> mail]]
  /\ loyal' = loyal \ {u}
  /\ UNCHANGED <<setting, rowLock, patch, pub, told, settingCalls, settingErrors>>

\* The crate is deleted, as soon as nobody holds its row.
DeleteSetting ==
  /\ setting # "gone" /\ rowLock = "free"
  /\ Commits("gone")
  /\ patch' = Overtakes(patch, "gone")
  /\ UNCHANGED <<people, rowLock, told, settingCalls, peopleChanges, settingErrors, loyal>>

SettingNext ==
  \/ \E h \in Patchers, u \in People, want \in {"on", "off", "none"} : LoadSetting(h, u, want)
  \/ \E h \in Patchers : ReadOwners(h)
  \/ \E h \in Patchers : UpdateSetting(h)
  \/ \E h \in Patchers, u \in People : TellOwner(h, u)
  \/ \E h \in Patchers : ToldAll(h)
  \/ \E h \in Patchers : ReloadSetting(h)
  \/ \E h \in Patchers : PatchFails(h)
  \/ \E h \in Patchers : EndPatch(h)
  \/ \E p \in Publishers, auth \in {"regular", "trustpub"} : BeginPub(p, auth)
  \/ \E p \in Publishers : CheckPub(p)
  \/ \E p \in Publishers : CommitPub(p)
  \/ \E p \in Publishers : EndPub(p)
  \/ \E u \in People, owner \in BOOLEAN, mail \in {"none", "unverified", "verified"} : ChangePerson(u, owner, mail)
  \/ DeleteSetting

SettingSpec == SettingInit /\ [][SettingNext]_settingVars

-----------------------------------------------------------------------------

\* Types; the row is locked by a request that has changed it and is not over.
SettingTypeOK ==
  /\ setting \in {"on", "off", "gone"}
  /\ people \in [People -> [owner : BOOLEAN, mail : {"none", "unverified", "verified"}]]
  /\ told \in [People -> {"on", "off"}] /\ loyal \subseteq People
  /\ settingCalls \in 0..MaxSettingCalls
  /\ peopleChanges \in 0..MaxPeopleChanges /\ settingErrors \in 0..MaxSettingErrors
  /\ rowLock \in Patchers \cup {"free"}
  /\ rowLock # "free" => patch[rowLock].step \in {"mail", "reload"} /\ setting # "gone"

\* A PATCH that is answered with a value other than the wanted one was
\* overtaken: another request committed that value while it ran, even where
\* the comparison with the value read at the start made it change nothing.
AnswerExplained ==
  \A h \in Patchers :
    patch[h].answer \in {"on", "off"} /\ patch[h].want # "none" =>
      patch[h].answer = patch[h].want \/ patch[h].answer \in patch[h].others

\* Mails agree with the setting: once no request holds the row, a user who has
\* been a verified owner all the time, whose mails were sent, and during no
\* failed request, was last told the value that the crate has.
ToldLast ==
  rowLock = "free" /\ setting # "gone" => \A u \in loyal : told[u] = setting

\* A publication with a user's token succeeds only if the setting was off at
\* some time during its request, up to its insertion of the version.  One that
\* begins once the PATCH has committed is refused.  The mails leave before that:
\* one that begins after them and before the commit still reads "off".
SettingEnforced ==
  \A p \in Publishers : pub[p].step = "published" /\ pub[p].auth = "regular" => "off" \in pub[p].held

\* PATCH of a crate: its answer is explained by the requests, owners know the last value,
\* and publications keep to a value that held while they ran.
SettingInv == SettingTypeOK /\ AnswerExplained /\ ToldLast /\ SettingEnforced
=============================================================================
