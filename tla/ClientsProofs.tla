---------------------------- MODULE ClientsProofs ----------------------------
(***************************************************************************)
(* Proofs about the clients of other services and the smaller endpoints,   *)
(* for any callers and requests at a time: the token of the GitHub app,    *)
(* the settings of a crate, the database pools and secret scanning; and    *)
(* the invalidation of the CDNs, for any files, batches and failures.      *)
(***************************************************************************)
EXTENDS InstallationToken, CrateSettings, Following, SecretScanning, CdnInvalidation,
        FiniteSetTheorems, WellFoundedInduction, TLAPS

-----------------------------------------------------------------------------
(* The token of the GitHub app.                                            *)

AppTypes ==
  /\ appNow \in 0..MaxAppNow
  /\ installed \in AppIds /\ lastId \in AppIds /\ cachedId \in AppIds
  /\ cachedTok \in AppToken
  /\ call \in [AppCallers -> {"idle", "waits", "lookup", "mint", "remint"}]
  /\ calm \in [AppCallers -> BOOLEAN]
  /\ answer \in [AppCallers -> AppToken]
  /\ failed \subseteq AppCallers

\* One call at a time has the lock.
OneLocked ==
  \A c, d \in AppCallers : call[c] \notin {"idle", "waits"} /\ call[d] \notin {"idle", "waits"} => c = d

\* A call that has looked the id up holds the one of GitHub, unless GitHub has changed it.
LookedUp == \A c \in AppCallers : call[c] = "remint" /\ calm[c] = TRUE => cachedId = installed

AppInd == AppTypes /\ OneLocked /\ LookedUp /\ TokenLasts /\ CalmCallsSucceed

\* Every step preserves it.
LEMMA StepAppInd == AppInd /\ [AppNext]_appVars => AppInd'
  <1> SUFFICES ASSUME AppInd, [AppNext]_appVars PROVE AppInd'
    OBVIOUS
  <1>0. /\ RefreshMargin \in Nat /\ TokenLife \in Nat /\ TokenLife > RefreshMargin
        /\ MaxAppNow \in Nat /\ MaxInstalls \in Nat \ {0}
    BY InstallationTokenAssumption
  <1>1. NoToken \in AppToken
    BY <1>0 DEF NoToken, NoInstall, AppToken, AppIds
  <1> USE DEF AppInd, AppTypes, OneLocked, LookedUp, TokenLasts, CalmCallsSucceed
  <1>2. ASSUME NEW c \in AppCallers, BeginCall(c) PROVE AppInd'
    BY <1>1, <1>2 DEF BeginCall
  <1>3. ASSUME NEW c \in AppCallers, TakeLock(c) PROVE AppInd'
    <2>1. /\ call[c] = "waits" /\ \A d \in AppCallers : call[d] \in {"idle", "waits"}
          /\ UNCHANGED <<appNow, installed, lastId, cachedId, cachedTok, calm, failed>>
      BY <1>3 DEF TakeLock, AppUnlocked, AppReturn
    <2>2. CASE Fresh(cachedTok)
      <3>1. answer' = [answer EXCEPT ![c] = cachedTok] /\ call' = [call EXCEPT ![c] = "idle"]
        BY <1>3, <2>2 DEF TakeLock, AppReturn
      <3>2. cachedTok.expires > appNow + RefreshMargin
        BY <1>0, <2>2 DEF Fresh, AppToken
      <3> QED
        BY <2>1, <3>1, <3>2
    <2>3. CASE ~ Fresh(cachedTok)
      <3>1. /\ call' = [call EXCEPT ![c] = IF cachedId = NoInstall THEN "lookup" ELSE "mint"]
            /\ UNCHANGED answer
        BY <1>3, <2>3 DEF TakeLock
      <3> QED
        BY <2>1, <3>1
    <2> QED
      BY <2>2, <2>3
  <1>4. ASSUME NEW c \in AppCallers, Mint(c) PROVE AppInd'
    <2>1. /\ call[c] \in {"mint", "remint"}
          /\ UNCHANGED <<appNow, installed, lastId, calm>>
      BY <1>4 DEF Mint
    <2>2. CASE cachedId = installed
      <3> DEFINE t == [id |-> cachedId, expires |-> appNow + TokenLife]
      <3>1. /\ cachedTok' = t /\ answer' = [answer EXCEPT ![c] = t] /\ call' = [call EXCEPT ![c] = "idle"]
            /\ UNCHANGED <<cachedId, failed>>
        BY <1>4, <2>2 DEF Mint, AppReturn
      <3>2. t \in AppToken
        BY <1>0 DEF AppToken
      <3>3. t.expires > appNow + RefreshMargin
        BY <1>0
      <3> HIDE DEF t
      <3> QED
        BY <2>1, <2>2, <3>1, <3>2, <3>3
    <2>3. CASE cachedId # installed /\ call[c] = "mint"
      <3>1. /\ cachedId' = NoInstall /\ call' = [call EXCEPT ![c] = "lookup"]
            /\ UNCHANGED <<cachedTok, answer, failed>>
        BY <1>4, <2>3 DEF Mint
      <3>2. NoInstall \in AppIds
        BY <1>0 DEF AppIds, NoInstall
      <3> QED
        BY <2>1, <2>3, <3>1, <3>2
    <2>4. CASE cachedId # installed /\ call[c] = "remint"
      <3>1. call' = [call EXCEPT ![c] = "idle"] /\ UNCHANGED <<cachedId, cachedTok, answer>>
        BY <1>4, <2>4 DEF Mint, AppFail
      <3>2. failed' = failed
        BY <1>4, <2>4 DEF Mint, AppFail
      <3> QED
        BY <2>1, <2>4, <3>1, <3>2
    <2> QED
      BY <2>1, <2>2, <2>3, <2>4
  <1>5. ASSUME NEW c \in AppCallers, LookUp(c) PROVE AppInd'
    <2>1. CASE installed = NoInstall
      <3>1. /\ call' = [call EXCEPT ![c] = "idle"]
            /\ UNCHANGED <<appNow, installed, lastId, cachedId, cachedTok, calm, answer, failed>>
        BY <1>5, <2>1 DEF LookUp, AppFail
      <3> QED
        BY <3>1
    <2>2. CASE installed # NoInstall
      <3>1. /\ call[c] = "lookup" /\ cachedId' = installed /\ call' = [call EXCEPT ![c] = "remint"]
            /\ UNCHANGED <<appNow, installed, lastId, cachedTok, calm, answer, failed>>
        BY <1>5, <2>2 DEF LookUp
      <3> QED
        BY <3>1
    <2> QED
      BY <2>1, <2>2
  <1>6. ASSUME NEW c \in AppCallers, RequestFails(c) PROVE AppInd'
    BY <1>6 DEF RequestFails
  <1>7. ASSUME NEW c \in AppCallers, CallDropped(c) PROVE AppInd'
    BY <1>7 DEF CallDropped
  <1>8. ASSUME NEW on \in BOOLEAN, Reinstall(on) PROVE AppInd'
    BY <1>0, <1>8 DEF Reinstall, AppIds, NoInstall
  <1>9. CASE AppTick
    BY <1>0, <1>1, <1>9 DEF AppTick
  <1>10. CASE UNCHANGED appVars
    BY <1>10 DEF appVars
  <1> QED
    BY <1>2, <1>3, <1>4, <1>5, <1>6, <1>7, <1>8, <1>9, <1>10 DEF AppNext

\* A set in which any two elements are one has at most one.
LEMMA AtMostOne ==
  ASSUME NEW S, \A x, y \in S : x = y
  PROVE  Cardinality(S) =< 1
  <1>1. CASE S = {}
    BY <1>1, FS_EmptySet
  <1>2. ASSUME NEW x \in S PROVE Cardinality(S) =< 1
    <2>1. S = {x}
      BY <1>2
    <2> QED
      BY <2>1, FS_Singleton
  <1> QED
    BY <1>1, <1>2

\* installation_token: for any callers, margin and life of tokens, a token that is given out is
\* good for longer than the margin, and no call fails while GitHub answers and does not change,
\* whatever earlier calls have left in the cache.
THEOREM AppTokenIsFresh == AppSpec => []AppInv
  <1>1. AppInit => AppInd
    BY InstallationTokenAssumption
       DEF AppInit, AppInd, AppTypes, OneLocked, LookedUp, TokenLasts, CalmCallsSucceed, AppToken, AppIds, NoToken, NoInstall
  <1>2. AppInd => AppInv
    <2> SUFFICES ASSUME AppInd PROVE AppInv
      OBVIOUS
    <2> DEFINE S == {c \in AppCallers : call[c] \notin {"idle", "waits"}}
    <2>1. \A x, y \in S : x = y
      BY DEF AppInd, OneLocked
    <2> HIDE DEF S
    <2>2. Cardinality(S) =< 1
      BY <2>1, AtMostOne
    <2> QED
      BY <2>2 DEF S, AppInd, AppTypes, AppInv, AppTypeOK
  <1> QED
    BY StepAppInd, <1>1, <1>2, PTL DEF AppSpec


-----------------------------------------------------------------------------
(* The settings of a crate.                                                *)

SettingValues == {"on", "off", "gone"}
PatchRecs == [step : {"idle", "owners", "update", "mail", "reload", "answered"}, want : {"on", "off", "none"},
              seen : {"on", "off", "none"}, user : People \cup {"none"}, asks : SUBSET People, mails : SUBSET People,
              answer : {"on", "off", "none", "not found", "forbidden", "error"}, others : SUBSET SettingValues]
PubRecs == [step : {"idle", "check", "commit", "published"}, auth : {"none", "regular", "trustpub"},
            seen : {"on", "off", "none"}, held : SUBSET SettingValues]
Started == {"owners", "update", "mail", "reload"}

SettingTypes ==
  /\ SettingTypeOK
  /\ patch \in [Patchers -> PatchRecs]
  /\ pub \in [Publishers -> PubRecs]

\* A request under way: it knows whether it was overtaken, an update has a value to set, only a
\* request that holds the row mails, and one that goes to its end without the row has found the
\* value it wants, or no crate.
PatchSound(h) ==
  /\ patch[h].step # "answered" => patch[h].answer = "none"
  /\ patch[h].step \in Started =>
       patch[h].seen \in {"on", "off"} /\ (setting = patch[h].seen \/ setting \in patch[h].others)
  /\ patch[h].step \in {"update", "mail"} \/ rowLock = h => patch[h].want \in {"on", "off"}
  /\ patch[h].step = "mail" /\ setting # "gone" => rowLock = h
  /\ patch[h].step = "reload" /\ rowLock # h /\ setting # "gone" => patch[h].want \in {"none", patch[h].seen}

\* Loyal users are verified owners, who are found by every request and told under its lock.
LoyalAreTold ==
  /\ \A u \in loyal : TellsOwner(u)
  /\ \A h \in Patchers :
       /\ patch[h].step = "update" => loyal \subseteq patch[h].asks
       /\ rowLock = h =>
            \A u \in loyal :
              (patch[h].step = "mail" /\ u \in patch[h].mails) \/ told[u] = patch[h].want

\* A publication that was let through with a user's token has read the setting off.
PubSound(p) ==
  /\ pub[p].step # "idle" => pub[p].seen \in {"on", "off"} /\ pub[p].seen \in pub[p].held
  /\ pub[p].step \in {"commit", "published"} /\ pub[p].auth = "regular" => pub[p].seen = "off"

SettingInd ==
  /\ SettingTypes
  /\ \A h \in Patchers : PatchSound(h)
  /\ LoyalAreTold
  /\ \A p \in Publishers : PubSound(p)
  /\ AnswerExplained
  /\ ToldLast

\* The records that requests begin and end with.
LEMMA PatchRecords ==
  /\ NoPatch \in PatchRecs
  /\ NoPatch.step = "idle" /\ NoPatch.want = "none" /\ NoPatch.answer = "none" /\ NoPatch.others = {}
  /\ NoPub \in PubRecs /\ NoPub.step = "idle"
  BY DEF NoPatch, NoPub, PatchRecs, PubRecs

LEMMA OverRecord ==
  ASSUME SettingTypes, NEW h \in Patchers, NEW a \in {"on", "off", "none", "not found", "forbidden", "error"}
  PROVE  /\ Over(h, a) \in PatchRecs
         /\ Over(h, a).step = "answered" /\ Over(h, a).want = patch[h].want
         /\ Over(h, a).answer = a /\ Over(h, a).others = patch[h].others
  <1>1. patch[h] \in PatchRecs
    BY DEF SettingTypes
  <1> QED
    BY <1>1 DEF Over, PatchRecs

\* A request that ends without the row, with an answer that needs no explanation or has one.
LEMMA EndSettingInd ==
  ASSUME SettingInd, NEW h \in Patchers, NEW a \in {"on", "off", "none", "not found", "forbidden", "error"},
         Ends(h, a), patch[h].step \notin {"idle", "answered"} \/ a = "not found",
         a \in {"on", "off"} /\ patch[h].want # "none" => a = patch[h].want \/ a \in patch[h].others,
         rowLock' = IF rowLock = h THEN "free" ELSE rowLock,
         rowLock = h => loyal' = {}, rowLock # h => loyal' = loyal,
         settingCalls' \in 0..MaxSettingCalls, settingErrors' \in 0..MaxSettingErrors,
         UNCHANGED <<setting, people, pub, told, peopleChanges>>
  PROVE  SettingInd'
  <1>0. "free" \notin Patchers
    BY CrateSettingsAssumption
  <1> DEFINE r == Over(h, a)
  <1>1. r \in PatchRecs /\ r.step = "answered" /\ r.want = patch[h].want /\ r.answer = a /\ r.others = patch[h].others
    BY OverRecord DEF SettingInd
  <1>2. patch' = [patch EXCEPT ![h] = r]
    BY DEF Ends, Moves
  <1> HIDE DEF r
  <1>3. SettingTypes'
    <2>1. patch' \in [Patchers -> PatchRecs] /\ pub' \in [Publishers -> PubRecs]
      BY <1>1, <1>2 DEF SettingInd, SettingTypes
    <2>2. SettingTypeOK'
      BY <1>0, <1>1, <1>2 DEF SettingInd, SettingTypes, SettingTypeOK
    <2> QED
      BY <2>1, <2>2 DEF SettingTypes
  <1>4. patch'[h] = r /\ \A g \in Patchers : g # h => patch'[g] = patch[g]
    BY <1>2 DEF SettingInd, SettingTypes
  <1>5. ASSUME NEW g \in Patchers PROVE PatchSound(g)'
    BY <1>0, <1>1, <1>4 DEF SettingInd, PatchSound, Started
  <1>6. LoyalAreTold'
    <2>1. ASSUME NEW u \in loyal' PROVE TellsOwner(u)'
      BY DEF SettingInd, LoyalAreTold, TellsOwner
    <2>2. ASSUME NEW g \in Patchers, patch'[g].step = "update" PROVE loyal' \subseteq patch'[g].asks
      BY <1>1, <1>4, <2>2 DEF SettingInd, LoyalAreTold
    <2>3. ASSUME NEW g \in Patchers, rowLock' = g, NEW u \in loyal'
          PROVE  (patch'[g].step = "mail" /\ u \in patch'[g].mails) \/ told'[u] = patch'[g].want
      <3>1. rowLock # h /\ rowLock = g /\ g # h
        BY <1>0, <2>3
      <3> QED
        BY <1>4, <2>3, <3>1 DEF SettingInd, LoyalAreTold
    <2> QED
      BY <2>1, <2>2, <2>3 DEF LoyalAreTold
  <1>7. (\A p \in Publishers : PubSound(p)')
    BY DEF SettingInd, PubSound
  <1>8. AnswerExplained'
    BY <1>1, <1>4 DEF SettingInd, AnswerExplained
  <1>9. ToldLast'
    BY <1>0 DEF SettingInd, ToldLast
  <1> QED
    BY <1>3, <1>5, <1>6, <1>7, <1>8, <1>9 DEF SettingInd

\* A request that goes on, without taking or releasing the row.
LEMMA MoveSettingInd ==
  ASSUME SettingInd, NEW h \in Patchers, NEW r \in PatchRecs, Moves(h, r), r.step \notin {"idle", "answered"},
         r.answer = "none", r.seen \in {"on", "off"}, setting = r.seen \/ setting \in r.others,
         r.step \in {"update", "mail"} \/ rowLock' = h => r.want \in {"on", "off"},
         r.step = "mail" /\ setting # "gone" => rowLock' = h,
         r.step = "reload" /\ rowLock' # h /\ setting # "gone" => r.want \in {"none", r.seen},
         r.step = "update" => loyal' \subseteq r.asks,
         rowLock' = h => r.step \in {"mail", "reload"} /\ setting # "gone",
         rowLock' = h => \A u \in loyal' : (r.step = "mail" /\ u \in r.mails) \/ told'[u] = r.want,
         rowLock' = rowLock \/ (rowLock = "free" /\ rowLock' = h),
         told' \in [People -> {"on", "off"}],
         rowLock' # h => (setting = "gone" \/ told' = told),
         loyal' \subseteq loyal,
         settingCalls' \in 0..MaxSettingCalls, settingErrors' \in 0..MaxSettingErrors,
         UNCHANGED <<setting, people, pub, peopleChanges>>
  PROVE  SettingInd'
  <1>0. "free" \notin Patchers
    BY CrateSettingsAssumption
  <1>3. SettingTypes'
    <2>1. patch' \in [Patchers -> PatchRecs] /\ pub' \in [Publishers -> PubRecs]
      BY DEF SettingInd, SettingTypes, Moves
    <2>2. SettingTypeOK'
      BY <1>0 DEF SettingInd, SettingTypes, SettingTypeOK, Moves
    <2> QED
      BY <2>1, <2>2 DEF SettingTypes
  <1>4. patch'[h] = r /\ \A g \in Patchers : g # h => patch'[g] = patch[g]
    BY DEF SettingInd, SettingTypes, Moves
  <1>5. ASSUME NEW g \in Patchers PROVE PatchSound(g)'
    BY <1>0, <1>4 DEF SettingInd, PatchSound, Started
  <1>6. LoyalAreTold'
    <2>1. ASSUME NEW u \in loyal' PROVE TellsOwner(u)'
      BY DEF SettingInd, LoyalAreTold, TellsOwner
    <2>2. ASSUME NEW g \in Patchers, patch'[g].step = "update" PROVE loyal' \subseteq patch'[g].asks
      BY <1>4, <2>2 DEF SettingInd, LoyalAreTold
    <2>3. ASSUME NEW g \in Patchers, rowLock' = g, NEW u \in loyal'
          PROVE  (patch'[g].step = "mail" /\ u \in patch'[g].mails) \/ told'[u] = patch'[g].want
      <3>1. CASE g = h
        BY <1>4, <2>3, <3>1
      <3>2. CASE g # h
        <4>1. rowLock = g /\ setting # "gone"
          BY <1>0, <2>3, <3>2 DEF SettingInd, SettingTypes, SettingTypeOK
        <4> QED
          BY <1>4, <2>3, <3>2, <4>1 DEF SettingInd, LoyalAreTold
      <3> QED
        BY <3>1, <3>2
    <2> QED
      BY <2>1, <2>2, <2>3 DEF LoyalAreTold
  <1>7. (\A p \in Publishers : PubSound(p)')
    BY DEF SettingInd, PubSound
  <1>8. AnswerExplained'
    BY <1>4 DEF SettingInd, AnswerExplained
  <1>9. ToldLast'
    BY <1>0 DEF SettingInd, ToldLast
  <1> QED
    BY <1>3, <1>5, <1>6, <1>7, <1>8, <1>9 DEF SettingInd


\* What a commit adds to the histories.
LEMMA Overtaken ==
  ASSUME NEW ps \in [Patchers -> PatchRecs], NEW v \in SettingValues
  PROVE  /\ Overtakes(ps, v) \in [Patchers -> PatchRecs]
         /\ \A g \in Patchers :
              LET r == Overtakes(ps, v)[g] IN
              /\ r.step = ps[g].step /\ r.want = ps[g].want /\ r.seen = ps[g].seen
              /\ r.asks = ps[g].asks /\ r.mails = ps[g].mails /\ r.answer = ps[g].answer
              /\ ps[g].others \subseteq r.others
              /\ ps[g].step \in Started => v \in r.others
  <1>1. ASSUME NEW g \in Patchers
        PROVE  LET r == Overtakes(ps, v)[g] IN
               /\ r \in PatchRecs
               /\ r.step = ps[g].step /\ r.want = ps[g].want /\ r.seen = ps[g].seen
               /\ r.asks = ps[g].asks /\ r.mails = ps[g].mails /\ r.answer = ps[g].answer
               /\ ps[g].others \subseteq r.others
               /\ ps[g].step \in Started => v \in r.others
    <2>1. ps[g] \in PatchRecs
      OBVIOUS
    <2>2. CASE ps[g].step \in {"idle", "answered"}
      <3>1. Overtakes(ps, v)[g] = ps[g]
        BY <2>2 DEF Overtakes
      <3> QED
        BY <2>1, <2>2, <3>1 DEF Started
    <2>3. CASE ps[g].step \notin {"idle", "answered"}
      <3> DEFINE o == ps[g].others \cup {v}
                 r == [ps[g] EXCEPT !.others = o]
      <3>1. Overtakes(ps, v)[g] = r
        BY <2>3 DEF Overtakes
      <3>2. o \in SUBSET SettingValues /\ ps[g].others \subseteq o /\ v \in o
        BY <2>1 DEF PatchRecs
      <3> HIDE DEF o
      <3>3. r \in PatchRecs
        BY <2>1, <3>2 DEF PatchRecs
      <3>4. /\ r.step = ps[g].step /\ r.want = ps[g].want /\ r.seen = ps[g].seen
            /\ r.asks = ps[g].asks /\ r.mails = ps[g].mails /\ r.answer = ps[g].answer /\ r.others = o
        BY <2>1 DEF PatchRecs
      <3> HIDE DEF r
      <3> QED
        BY <3>1, <3>2, <3>3, <3>4
    <2> QED
      BY <2>2, <2>3
  <1>2. Overtakes(ps, v) = [g \in Patchers |-> Overtakes(ps, v)[g]]
    BY DEF Overtakes
  <1> QED
    BY <1>1, <1>2

\* The value that is committed has been read or was held while a publication ran.
LEMMA CommitsKeepPubs ==
  ASSUME SettingInd, NEW v \in SettingValues, Commits(v)
  PROVE  pub' \in [Publishers -> PubRecs] /\ \A p \in Publishers : PubSound(p)'
  <1>1. ASSUME NEW p \in Publishers PROVE pub'[p] \in PubRecs /\ PubSound(p)'
    <2>1. pub[p] \in PubRecs
      BY DEF SettingInd, SettingTypes
    <2>2. CASE pub[p].step = "idle"
      <3>1. pub'[p] = pub[p]
        BY <2>2 DEF Commits
      <3> QED
        BY <2>1, <3>1 DEF SettingInd, PubSound
    <2>3. CASE pub[p].step # "idle"
      <3>1. pub'[p] = [pub[p] EXCEPT !.held = pub[p].held \cup {v}]
        BY <2>3 DEF Commits
      <3>2. /\ pub'[p] \in PubRecs /\ pub'[p].step = pub[p].step /\ pub'[p].auth = pub[p].auth
            /\ pub'[p].seen = pub[p].seen /\ pub[p].held \subseteq pub'[p].held
        BY <2>1, <3>1 DEF PubRecs
      <3> QED
        BY <3>2 DEF SettingInd, PubSound
    <2> QED
      BY <2>2, <2>3
  <1>2. pub' = [p \in Publishers |-> pub'[p]]
    BY DEF Commits
  <1> QED
    BY <1>1, <1>2

LEMMA LoadSettingInd ==
  ASSUME SettingInd, NEW h \in Patchers, NEW u \in People, NEW want \in {"on", "off", "none"}, LoadSetting(h, u, want)
  PROVE  SettingInd'
  <1>0. "free" \notin Patchers /\ MaxSettingCalls \in Nat
    BY CrateSettingsAssumption
  <1>1. /\ patch[h].step = "idle" /\ patch[h].answer = "none" /\ patch[h].want = "none" /\ patch[h].others = {}
        /\ settingCalls' \in 0..MaxSettingCalls /\ settingErrors' \in 0..MaxSettingErrors
        /\ UNCHANGED <<setting, people, rowLock, pub, told, peopleChanges, loyal>>
    <2>1. settingCalls' \in 0..MaxSettingCalls /\ settingErrors' \in 0..MaxSettingErrors
      <3>1. settingCalls < MaxSettingCalls /\ settingCalls' = settingCalls + 1 /\ settingErrors' = settingErrors
        BY DEF LoadSetting
      <3>2. settingCalls \in 0..MaxSettingCalls /\ settingErrors \in 0..MaxSettingErrors
        BY DEF SettingInd, SettingTypes, SettingTypeOK
      <3> QED
        BY <1>0, <3>1, <3>2
    <2> QED
      BY <2>1, PatchRecords DEF LoadSetting
  <1>2. rowLock # h
    BY <1>0, <1>1 DEF SettingInd, SettingTypes, SettingTypeOK
  <1>3. CASE setting = "gone"
    <2>1. Ends(h, "not found")
      BY <1>3 DEF LoadSetting
    <2> QED
      BY <1>1, <1>2, <2>1, EndSettingInd
  <1>4. CASE setting # "gone"
    <2> DEFINE r == [NoPatch EXCEPT !.step = "owners", !.user = u, !.want = want, !.seen = setting]
    <2>1. Moves(h, r)
      BY <1>4 DEF LoadSetting
    <2>2. setting \in {"on", "off"}
      BY <1>4 DEF SettingInd, SettingTypes, SettingTypeOK
    <2>3. r \in PatchRecs /\ r.step = "owners" /\ r.seen = setting /\ r.answer = "none"
      BY <2>2, PatchRecords DEF PatchRecs
    <2> HIDE DEF r
    <2> QED
      BY <1>1, <1>2, <2>1, <2>2, <2>3, MoveSettingInd DEF SettingInd, SettingTypes, SettingTypeOK
  <1> QED
    BY <1>3, <1>4

LEMMA ReadOwnersInd ==
  ASSUME SettingInd, NEW h \in Patchers, ReadOwners(h)
  PROVE  SettingInd'
  <1>0. "free" \notin Patchers
    BY CrateSettingsAssumption
  <1> DEFINE asks == {u \in People : setting # "gone" /\ Reachable(u)}
  <1>1. /\ patch[h].step = "owners" /\ patch[h].answer = "none" /\ patch[h] \in PatchRecs
        /\ settingCalls' \in 0..MaxSettingCalls /\ settingErrors' \in 0..MaxSettingErrors
        /\ UNCHANGED <<setting, people, rowLock, pub, told, peopleChanges, loyal>>
        /\ patch[h].seen \in {"on", "off"} /\ (setting = patch[h].seen \/ setting \in patch[h].others)
    BY DEF ReadOwners, SettingInd, SettingTypes, SettingTypeOK, PatchSound, Started
  <1>2. rowLock # h
    BY <1>0, <1>1 DEF SettingInd, SettingTypes, SettingTypeOK
  <1>3. CASE patch[h].user \notin asks
    <2>1. Ends(h, "forbidden")
      BY <1>3 DEF ReadOwners
    <2> QED
      BY <1>1, <1>2, <2>1, EndSettingInd
  <1>4. CASE patch[h].user \in asks
    <2> DEFINE s == IF patch[h].want \notin {"none", patch[h].seen} THEN "update" ELSE "reload"
               found == {u \in asks : TellsOwner(u)}
               r == [patch[h] EXCEPT !.step = s, !.asks = found]
    <2>1. Moves(h, r)
      BY <1>4 DEF ReadOwners
    <2>2. found \subseteq People /\ (setting # "gone" => loyal \subseteq found)
      BY DEF SettingInd, SettingTypes, SettingTypeOK, LoyalAreTold, TellsOwner, Reachable
    <2>3. setting # "gone"
      BY <1>4
    <2>4. s \in {"update", "reload"} /\ (s = "update" => patch[h].want \in {"on", "off"})
          /\ (s = "reload" => patch[h].want \in {"none", patch[h].seen})
      BY <1>1 DEF PatchRecs
    <2> HIDE DEF s, found
    <2>5. /\ r \in PatchRecs /\ r.step = s /\ r.asks = found /\ r.want = patch[h].want /\ r.seen = patch[h].seen
          /\ r.answer = "none" /\ r.others = patch[h].others
      BY <1>1, <2>2, <2>4 DEF PatchRecs
    <2> HIDE DEF r
    <2> QED
      BY <1>1, <1>2, <2>1, <2>2, <2>3, <2>4, <2>5, MoveSettingInd DEF SettingInd, SettingTypes, SettingTypeOK
  <1> QED
    BY <1>3, <1>4


LEMMA UpdateSettingInd ==
  ASSUME SettingInd, NEW h \in Patchers, UpdateSetting(h)
  PROVE  SettingInd'
  <1>0. "free" \notin Patchers
    BY CrateSettingsAssumption
  <1> DEFINE r == [patch[h] EXCEPT !.step = "mail", !.mails = patch[h].asks]
  <1>1. /\ patch[h].step = "update" /\ rowLock = "free" /\ rowLock' = IF setting = "gone" THEN rowLock ELSE h
        /\ Moves(h, r)
        /\ UNCHANGED <<setting, people, pub, told, settingCalls, peopleChanges, settingErrors, loyal>>
    BY DEF UpdateSetting
  <1>2. patch[h] \in PatchRecs
    BY DEF SettingInd, SettingTypes
  <1>3. /\ patch[h].answer = "none" /\ patch[h].seen \in {"on", "off"} /\ patch[h].want \in {"on", "off"}
        /\ setting = patch[h].seen \/ setting \in patch[h].others
        /\ loyal \subseteq patch[h].asks
    BY <1>1 DEF SettingInd, PatchSound, LoyalAreTold, Started
  <1>4. /\ r \in PatchRecs /\ r.step = "mail" /\ r.mails = patch[h].asks /\ r.want = patch[h].want
        /\ r.seen = patch[h].seen /\ r.answer = patch[h].answer /\ r.others = patch[h].others
    BY <1>2 DEF PatchRecs
  <1> HIDE DEF r
  <1> QED
    BY <1>0, <1>1, <1>3, <1>4, MoveSettingInd DEF SettingInd, SettingTypes, SettingTypeOK

LEMMA TellOwnerInd ==
  ASSUME SettingInd, NEW h \in Patchers, NEW u \in People, TellOwner(h, u)
  PROVE  SettingInd'
  <1>0. "free" \notin Patchers /\ MaxSettingErrors \in Nat
    BY CrateSettingsAssumption
  <1> DEFINE left == patch[h].mails \ {u}
             r == [patch[h] EXCEPT !.mails = left]
  <1>1. /\ patch[h].step = "mail" /\ u \in patch[h].mails /\ Moves(h, r)
        /\ UNCHANGED <<setting, people, rowLock, pub, settingCalls, peopleChanges>>
    BY DEF TellOwner
  <1>2. patch[h] \in PatchRecs /\ left \subseteq People
    BY DEF SettingInd, SettingTypes, PatchRecs
  <1>3. /\ patch[h].answer = "none" /\ patch[h].seen \in {"on", "off"} /\ patch[h].want \in {"on", "off"}
        /\ setting = patch[h].seen \/ setting \in patch[h].others
        /\ setting # "gone" => rowLock = h
    BY <1>1 DEF SettingInd, PatchSound, Started
  <1>4. /\ settingErrors' \in 0..MaxSettingErrors /\ loyal' \subseteq loyal
        /\ told' \in [People -> {"on", "off"}]
        /\ \A v \in loyal' : told'[v] = patch[h].want \/ (v # u /\ told'[v] = told[v])
    <2>1. settingErrors \in 0..MaxSettingErrors /\ told \in [People -> {"on", "off"}] /\ loyal \subseteq People
      BY DEF SettingInd, SettingTypes, SettingTypeOK
    <2>2. CASE told' = [told EXCEPT ![u] = patch[h].want] /\ UNCHANGED <<settingErrors, loyal>>
      BY <1>3, <2>1, <2>2
    <2>3. CASE settingErrors < MaxSettingErrors /\ settingErrors' = settingErrors + 1 /\ loyal' = loyal \ {u} /\ UNCHANGED told
      BY <1>0, <2>1, <2>3
    <2> QED
      BY <2>2, <2>3 DEF TellOwner
  <1>5. rowLock = h => \A v \in loyal' : v \in left \/ told'[v] = patch[h].want
    BY <1>1, <1>4 DEF SettingInd, LoyalAreTold
  <1>6. rowLock' # h => setting = "gone"
    BY <1>1, <1>3
  <1>7. rowLock' = h => setting # "gone"
    BY <1>0, <1>1 DEF SettingInd, SettingTypes, SettingTypeOK
  <1>8. settingCalls' \in 0..MaxSettingCalls
    BY <1>1 DEF SettingInd, SettingTypes, SettingTypeOK
  <1> HIDE DEF left
  <1>9. /\ r \in PatchRecs /\ r.step = "mail" /\ r.mails = left /\ r.want = patch[h].want
        /\ r.seen = patch[h].seen /\ r.answer = patch[h].answer /\ r.others = patch[h].others
    BY <1>1, <1>2 DEF PatchRecs
  <1> HIDE DEF r
  <1> QED
    BY <1>1, <1>3, <1>4, <1>5, <1>6, <1>7, <1>8, <1>9, MoveSettingInd

LEMMA ToldAllInd ==
  ASSUME SettingInd, NEW h \in Patchers, ToldAll(h)
  PROVE  SettingInd'
  <1>0. "free" \notin Patchers
    BY CrateSettingsAssumption
  <1> DEFINE r == [patch[h] EXCEPT !.step = "reload"]
  <1>1. /\ patch[h].step = "mail" /\ patch[h].mails = {} /\ Moves(h, r)
        /\ UNCHANGED <<setting, people, rowLock, pub, told, settingCalls, peopleChanges, settingErrors, loyal>>
    BY DEF ToldAll
  <1>2. patch[h] \in PatchRecs
    BY DEF SettingInd, SettingTypes
  <1>3. /\ patch[h].answer = "none" /\ patch[h].seen \in {"on", "off"} /\ patch[h].want \in {"on", "off"}
        /\ setting = patch[h].seen \/ setting \in patch[h].others
        /\ setting # "gone" => rowLock = h
    BY <1>1 DEF SettingInd, PatchSound, Started
  <1>4. rowLock = h => \A u \in loyal : told[u] = patch[h].want
    BY <1>1 DEF SettingInd, LoyalAreTold
  <1>5. rowLock = h => setting # "gone"
    BY <1>0 DEF SettingInd, SettingTypes, SettingTypeOK
  <1>6. /\ settingCalls \in 0..MaxSettingCalls /\ settingErrors \in 0..MaxSettingErrors
        /\ told \in [People -> {"on", "off"}]
    BY DEF SettingInd, SettingTypes, SettingTypeOK
  <1>7. /\ r \in PatchRecs /\ r.step = "reload" /\ r.want = patch[h].want
        /\ r.seen = patch[h].seen /\ r.answer = patch[h].answer /\ r.others = patch[h].others
    BY <1>2 DEF PatchRecs
  <1> HIDE DEF r
  <1> QED
    BY <1>1, <1>3, <1>4, <1>5, <1>6, <1>7, MoveSettingInd

\* A commit, of a value that the loyal users have been told or of the end of the crate: those who
\* are not over yet see that they were overtaken.
LEMMA CommitSettingInd ==
  ASSUME SettingInd, NEW ps \in [Patchers -> PatchRecs], NEW v \in SettingValues, Commits(v), patch' = Overtakes(ps, v),
         rowLock' = "free", setting # "gone", v # "gone" => \A u \in loyal : told[u] = v,
         \A g \in Patchers : (ps[g] = patch[g] /\ rowLock # g) \/ (ps[g].step = "answered" /\ ps[g].answer = ps[g].want),
         UNCHANGED <<people, told, settingCalls, peopleChanges, settingErrors, loyal>>
  PROVE  SettingInd'
  <1>0. "free" \notin Patchers /\ setting' = v
    BY CrateSettingsAssumption DEF Commits
  <1>1. pub' \in [Publishers -> PubRecs] /\ \A p \in Publishers : PubSound(p)'
    BY CommitsKeepPubs
  <1>2. patch' \in [Patchers -> PatchRecs]
    BY Overtaken
  <1>3. \A g \in Patchers :
          /\ patch'[g].step = ps[g].step /\ patch'[g].want = ps[g].want /\ patch'[g].seen = ps[g].seen
          /\ patch'[g].asks = ps[g].asks /\ patch'[g].mails = ps[g].mails /\ patch'[g].answer = ps[g].answer
          /\ ps[g].others \subseteq patch'[g].others
          /\ ps[g].step \in Started => v \in patch'[g].others
    BY Overtaken
  <1>4. SettingTypes'
    BY <1>0, <1>1, <1>2 DEF SettingInd, SettingTypes, SettingTypeOK, SettingValues
  <1>5. ASSUME NEW g \in Patchers PROVE PatchSound(g)'
    <2>1. CASE ps[g].step = "answered"
      BY <1>0, <1>3, <2>1 DEF PatchSound, Started
    <2>2. CASE ps[g] = patch[g] /\ rowLock # g
      BY <1>0, <1>3, <2>2 DEF SettingInd, PatchSound, Started
    <2> QED
      BY <2>1, <2>2
  <1>6. LoyalAreTold'
    <2>1. ASSUME NEW u \in loyal' PROVE TellsOwner(u)'
      BY DEF SettingInd, LoyalAreTold, TellsOwner
    <2>2. ASSUME NEW g \in Patchers, patch'[g].step = "update" PROVE loyal' \subseteq patch'[g].asks
      BY <1>3, <2>2 DEF SettingInd, LoyalAreTold
    <2> QED
      BY <1>0, <2>1, <2>2 DEF LoyalAreTold
  <1>7. AnswerExplained'
    <2>1. ASSUME NEW g \in Patchers, patch'[g].answer \in {"on", "off"}, patch'[g].want # "none"
          PROVE  patch'[g].answer = patch'[g].want \/ patch'[g].answer \in patch'[g].others
      BY <1>3, <2>1 DEF SettingInd, AnswerExplained
    <2> QED
      BY <2>1 DEF AnswerExplained
  <1>8. ToldLast'
    BY <1>0 DEF ToldLast
  <1> QED
    BY <1>1, <1>4, <1>5, <1>6, <1>7, <1>8 DEF SettingInd


LEMMA ReloadSettingInd ==
  ASSUME SettingInd, NEW h \in Patchers, ReloadSetting(h)
  PROVE  SettingInd'
  <1>0. "free" \notin Patchers
    BY CrateSettingsAssumption
  <1>1. /\ patch[h].step = "reload" /\ Release(h)
        /\ UNCHANGED <<people, told, settingCalls, peopleChanges, settingErrors, loyal>>
    BY DEF ReloadSetting
  <1>2. settingCalls \in 0..MaxSettingCalls /\ settingErrors \in 0..MaxSettingErrors
    BY DEF SettingInd, SettingTypes, SettingTypeOK
  <1>3. CASE rowLock = h
    <2> DEFINE v == patch[h].want
               o == Over(h, v)
               ps == [patch EXCEPT ![h] = o]
    <2>1. Commits(v) /\ patch' = Overtakes(ps, v) /\ rowLock' = "free"
      BY <1>1, <1>3 DEF ReloadSetting, Release
    <2>2. v \in {"on", "off"}
      BY <1>3 DEF SettingInd, PatchSound
    <2>3. setting # "gone"
      BY <1>0, <1>3 DEF SettingInd, SettingTypes, SettingTypeOK
    <2>4. \A u \in loyal : told[u] = v
      BY <1>1, <1>3 DEF SettingInd, LoyalAreTold
    <2>5. o \in PatchRecs /\ o.step = "answered" /\ o.answer = v /\ o.want = v
      <3>1. SettingTypes /\ v \in {"on", "off", "none", "not found", "forbidden", "error"}
        BY <2>2 DEF SettingInd
      <3>2. Over(h, v).want = v
        BY <3>1, OverRecord
      <3> QED
        BY <3>1, <3>2, OverRecord
    <2> HIDE DEF v, o
    <2>6. /\ ps \in [Patchers -> PatchRecs]
          /\ \A g \in Patchers : (ps[g] = patch[g] /\ g # h) \/ ps[g] = o
      BY <2>5 DEF SettingInd, SettingTypes
    <2> HIDE DEF ps
    <2>7. v \in SettingValues
      BY <2>2 DEF SettingValues
    <2> QED
      BY <1>1, <1>3, <2>1, <2>3, <2>4, <2>5, <2>6, <2>7, CommitSettingInd
  <1>4. CASE rowLock # h
    <2> DEFINE a == IF setting = "gone" THEN "not found" ELSE setting
    <2>1. Ends(h, a) /\ UNCHANGED <<setting, pub, rowLock>>
      BY <1>1, <1>4 DEF ReloadSetting, Release
    <2>2. a \in {"on", "off", "none", "not found", "forbidden", "error"}
      BY DEF SettingInd, SettingTypes, SettingTypeOK
    <2>3. a \in {"on", "off"} /\ patch[h].want # "none" => a = patch[h].want \/ a \in patch[h].others
      BY <1>1, <1>4 DEF SettingInd, PatchSound, Started
    <2> HIDE DEF a
    <2> QED
      BY <1>1, <1>2, <1>4, <2>1, <2>2, <2>3, EndSettingInd
  <1> QED
    BY <1>3, <1>4

LEMMA PatchFailsInd ==
  ASSUME SettingInd, NEW h \in Patchers, PatchFails(h)
  PROVE  SettingInd'
  <1>1. /\ patch[h].step \in {"owners", "update", "reload"} /\ Release(h) /\ Ends(h, "error")
        /\ settingErrors < MaxSettingErrors /\ settingErrors' = settingErrors + 1
        /\ loyal' = IF rowLock = h THEN {} ELSE loyal
        /\ UNCHANGED <<setting, people, pub, told, settingCalls, peopleChanges>>
    BY DEF PatchFails
  <1>2. settingCalls \in 0..MaxSettingCalls /\ settingErrors \in 0..MaxSettingErrors /\ MaxSettingErrors \in Nat
    BY CrateSettingsAssumption DEF SettingInd, SettingTypes, SettingTypeOK
  <1>3. settingErrors' \in 0..MaxSettingErrors
    BY <1>1, <1>2
  <1> QED
    BY <1>1, <1>2, <1>3, EndSettingInd DEF Release

LEMMA EndPatchInd ==
  ASSUME SettingInd, NEW h \in Patchers, EndPatch(h)
  PROVE  SettingInd'
  <1>0. "free" \notin Patchers
    BY CrateSettingsAssumption
  <1>1. /\ patch[h].step = "answered" /\ patch' = [patch EXCEPT ![h] = NoPatch]
        /\ UNCHANGED <<setting, people, rowLock, pub, told, settingCalls, peopleChanges, settingErrors, loyal>>
    BY DEF EndPatch, Moves
  <1>2. /\ patch' \in [Patchers -> PatchRecs]
        /\ patch'[h] = NoPatch /\ \A g \in Patchers : g # h => patch'[g] = patch[g]
    BY <1>1, PatchRecords DEF SettingInd, SettingTypes
  <1>3. rowLock # h
    BY <1>0, <1>1 DEF SettingInd, SettingTypes, SettingTypeOK
  <1>4. SettingTypes'
    BY <1>1, <1>2, <1>3 DEF SettingInd, SettingTypes, SettingTypeOK
  <1>5. ASSUME NEW g \in Patchers PROVE PatchSound(g)'
    BY <1>1, <1>2, <1>3, PatchRecords DEF SettingInd, PatchSound, Started
  <1>6. LoyalAreTold'
    BY <1>1, <1>2, <1>3, PatchRecords DEF SettingInd, LoyalAreTold, TellsOwner
  <1>7. AnswerExplained'
    BY <1>2, PatchRecords DEF SettingInd, AnswerExplained
  <1>8. ToldLast' /\ \A p \in Publishers : PubSound(p)'
    BY <1>1 DEF SettingInd, ToldLast, PubSound
  <1> QED
    BY <1>4, <1>5, <1>6, <1>7, <1>8 DEF SettingInd

\* A step of one publication.
LEMMA PubStepInd ==
  ASSUME SettingInd, NEW p \in Publishers, NEW r \in PubRecs, pub' = [pub EXCEPT ![p] = r],
         r.step # "idle" => r.seen \in {"on", "off"} /\ r.seen \in r.held,
         r.step \in {"commit", "published"} /\ r.auth = "regular" => r.seen = "off",
         UNCHANGED <<setting, people, rowLock, patch, told, settingCalls, peopleChanges, settingErrors, loyal>>
  PROVE  SettingInd'
  <1>1. /\ pub' \in [Publishers -> PubRecs]
        /\ pub'[p] = r /\ \A q \in Publishers : q # p => pub'[q] = pub[q]
    BY DEF SettingInd, SettingTypes
  <1>2. SettingTypes'
    BY <1>1 DEF SettingInd, SettingTypes, SettingTypeOK
  <1>3. ASSUME NEW q \in Publishers PROVE PubSound(q)'
    BY <1>1 DEF SettingInd, PubSound
  <1>4. AnswerExplained' /\ ToldLast'
    BY DEF SettingInd, AnswerExplained, ToldLast
  <1>5. LoyalAreTold'
    BY DEF SettingInd, LoyalAreTold, TellsOwner
  <1>6. ASSUME NEW h \in Patchers PROVE PatchSound(h)'
    BY DEF SettingInd, PatchSound
  <1> QED
    BY <1>2, <1>3, <1>4, <1>5, <1>6 DEF SettingInd

\* Every step preserves it.
LEMMA StepSettingInd == SettingInd /\ [SettingNext]_settingVars => SettingInd'
  <1> SUFFICES ASSUME SettingInd, [SettingNext]_settingVars PROVE SettingInd'
    OBVIOUS
  <1>0. \A p \in Publishers : pub[p] \in PubRecs
    BY DEF SettingInd, SettingTypes
  <1>1. ASSUME NEW p \in Publishers, NEW auth \in {"regular", "trustpub"}, BeginPub(p, auth) PROVE SettingInd'
    <2> DEFINE r == [step |-> "check", auth |-> auth, seen |-> setting, held |-> {setting}]
    <2>1. /\ pub' = [pub EXCEPT ![p] = r]
          /\ UNCHANGED <<setting, people, rowLock, patch, told, settingCalls, peopleChanges, settingErrors, loyal>>
      BY <1>1 DEF BeginPub
    <2>2. setting \in {"on", "off"}
      BY <1>1 DEF BeginPub, SettingInd, SettingTypes, SettingTypeOK
    <2>3. r \in PubRecs /\ r.step = "check" /\ r.seen = setting /\ r.held = {setting}
      BY <2>2 DEF PubRecs, SettingValues
    <2> HIDE DEF r
    <2> QED
      BY <2>1, <2>2, <2>3, PubStepInd
  <1>2. ASSUME NEW p \in Publishers, CheckPub(p) PROVE SettingInd'
    <2>0. /\ pub[p].step = "check" /\ pub[p].seen \in {"on", "off"} /\ pub[p].seen \in pub[p].held
          /\ UNCHANGED <<setting, people, rowLock, patch, told, settingCalls, peopleChanges, settingErrors, loyal>>
      BY <1>2 DEF CheckPub, SettingInd, PubSound
    <2>1. CASE pub[p].seen = "on" /\ pub[p].auth = "regular"
      <3>1. pub' = [pub EXCEPT ![p] = NoPub]
        BY <1>2, <2>1 DEF CheckPub
      <3> QED
        BY <2>0, <3>1, PatchRecords, PubStepInd
    <2>2. CASE ~ (pub[p].seen = "on" /\ pub[p].auth = "regular")
      <3> DEFINE r == [pub[p] EXCEPT !.step = "commit"]
      <3>1. pub' = [pub EXCEPT ![p] = r]
        BY <1>2, <2>2 DEF CheckPub
      <3>2. /\ r \in PubRecs /\ r.step = "commit" /\ r.seen = pub[p].seen /\ r.held = pub[p].held
            /\ r.auth = pub[p].auth
        BY <1>0 DEF PubRecs
      <3> HIDE DEF r
      <3> QED
        BY <2>0, <2>2, <3>1, <3>2, PubStepInd
    <2> QED
      BY <2>1, <2>2
  <1>3. ASSUME NEW p \in Publishers, CommitPub(p) PROVE SettingInd'
    <2> DEFINE r == [pub[p] EXCEPT !.step = "published"]
    <2>1. /\ pub[p].step = "commit" /\ pub' = [pub EXCEPT ![p] = r]
          /\ UNCHANGED <<setting, people, rowLock, patch, told, settingCalls, peopleChanges, settingErrors, loyal>>
      BY <1>3 DEF CommitPub
    <2>2. /\ pub[p].seen \in {"on", "off"} /\ pub[p].seen \in pub[p].held
          /\ pub[p].auth = "regular" => pub[p].seen = "off"
      BY <2>1 DEF SettingInd, PubSound
    <2>3. /\ r \in PubRecs /\ r.step = "published" /\ r.seen = pub[p].seen /\ r.held = pub[p].held
          /\ r.auth = pub[p].auth
      BY <1>0 DEF PubRecs
    <2> HIDE DEF r
    <2> QED
      BY <2>1, <2>2, <2>3, PubStepInd
  <1>4. ASSUME NEW p \in Publishers, EndPub(p) PROVE SettingInd'
    BY <1>4, PatchRecords, PubStepInd DEF EndPub
  <1>5. ASSUME NEW u \in People, NEW owner \in BOOLEAN, NEW mail \in {"none", "unverified", "verified"},
               ChangePerson(u, owner, mail)
        PROVE  SettingInd'
    <2>1. /\ peopleChanges < MaxPeopleChanges /\ peopleChanges' = peopleChanges + 1
          /\ people' = [people EXCEPT ![u] = [owner |-> owner, mail |-> mail]] /\ loyal' = loyal \ {u}
          /\ UNCHANGED <<setting, rowLock, patch, pub, told, settingCalls, settingErrors>>
      BY <1>5 DEF ChangePerson
    <2>2. /\ peopleChanges' \in 0..MaxPeopleChanges
          /\ people' \in [People -> [owner : BOOLEAN, mail : {"none", "unverified", "verified"}]]
          /\ loyal' \subseteq loyal
          /\ \A v \in loyal' : people'[v] = people[v]
      <3>1. /\ peopleChanges \in 0..MaxPeopleChanges /\ MaxPeopleChanges \in Nat /\ loyal \subseteq People
            /\ people \in [People -> [owner : BOOLEAN, mail : {"none", "unverified", "verified"}]]
        BY CrateSettingsAssumption DEF SettingInd, SettingTypes, SettingTypeOK
      <3> DEFINE r == [owner |-> owner, mail |-> mail]
      <3>2. r \in [owner : BOOLEAN, mail : {"none", "unverified", "verified"}]
        OBVIOUS
      <3> HIDE DEF r
      <3> QED
        BY <2>1, <3>1, <3>2 DEF r
    <2>3. SettingTypes'
      BY <2>1, <2>2 DEF SettingInd, SettingTypes, SettingTypeOK
    <2>4. LoyalAreTold'
      BY <2>1, <2>2 DEF SettingInd, LoyalAreTold, TellsOwner
    <2>5. ASSUME NEW h \in Patchers PROVE PatchSound(h)'
      BY <2>1 DEF SettingInd, PatchSound
    <2>6. AnswerExplained' /\ ToldLast' /\ \A p \in Publishers : PubSound(p)'
      BY <2>1 DEF SettingInd, AnswerExplained, ToldLast, PubSound
    <2> QED
      BY <2>3, <2>4, <2>5, <2>6 DEF SettingInd
  <1>6. CASE DeleteSetting
    <2>1. /\ setting # "gone" /\ rowLock = "free" /\ Commits("gone") /\ patch' = Overtakes(patch, "gone")
          /\ UNCHANGED <<people, rowLock, told, settingCalls, peopleChanges, settingErrors, loyal>>
      BY <1>6 DEF DeleteSetting
    <2>2. patch \in [Patchers -> PatchRecs] /\ "gone" \in SettingValues /\ "free" \notin Patchers
      BY CrateSettingsAssumption DEF SettingInd, SettingTypes, SettingValues
    <2> QED
      BY <2>1, <2>2, CommitSettingInd
  <1>7. CASE UNCHANGED settingVars
    <2>1. SettingTypes' /\ AnswerExplained' /\ ToldLast'
      BY <1>7 DEF settingVars, SettingInd, SettingTypes, SettingTypeOK, AnswerExplained, ToldLast
    <2>2. LoyalAreTold'
      BY <1>7 DEF settingVars, SettingInd, LoyalAreTold, TellsOwner
    <2>3. (\A h \in Patchers : PatchSound(h)') /\ \A p \in Publishers : PubSound(p)'
      BY <1>7 DEF settingVars, SettingInd, PatchSound, PubSound
    <2> QED
      BY <2>1, <2>2, <2>3 DEF SettingInd
  <1> QED
    BY <1>1, <1>2, <1>3, <1>4, <1>5, <1>6, <1>7, LoadSettingInd, ReadOwnersInd, UpdateSettingInd, TellOwnerInd,
       ToldAllInd, ReloadSettingInd, PatchFailsInd, EndPatchInd DEF SettingNext

\* update_crate and publish: for any requests, publications and users, an answer with another
\* value is explained by a request that overtook it; while no request holds the row, whoever has
\* been a verified owner all the time was last told the value of the crate, unless a mail to them
\* or a request after its mails has failed; and a publication with a user's token has met the
\* setting off.
THEOREM SettingsAreKept == SettingSpec => []SettingInv
  <1>1. SettingInit => SettingInd
    <2> SUFFICES ASSUME SettingInit PROVE SettingInd
      OBVIOUS
    <2>1. /\ patch \in [Patchers -> PatchRecs] /\ pub \in [Publishers -> PubRecs]
          /\ \A h \in Patchers : patch[h] = NoPatch
          /\ \A p \in Publishers : pub[p] = NoPub
      BY PatchRecords DEF SettingInit
    <2>2. SettingTypeOK
      BY CrateSettingsAssumption DEF SettingInit, SettingTypeOK
    <2>3. \A h \in Patchers : PatchSound(h)
      BY <2>1, PatchRecords, CrateSettingsAssumption DEF SettingInit, PatchSound, Started
    <2>4. LoyalAreTold
      BY <2>1, PatchRecords, CrateSettingsAssumption DEF SettingInit, LoyalAreTold
    <2>5. AnswerExplained /\ ToldLast /\ \A p \in Publishers : PubSound(p)
      BY <2>1, PatchRecords DEF SettingInit, AnswerExplained, ToldLast, PubSound
    <2> QED
      BY <2>1, <2>2, <2>3, <2>4, <2>5 DEF SettingInd, SettingTypes
  <1>2. SettingInd => SettingInv
    BY DEF SettingInd, SettingTypes, SettingInv, SettingEnforced, PubSound
  <1> QED
    BY StepSettingInd, <1>1, <1>2, PTL DEF SettingSpec


-----------------------------------------------------------------------------
(* The database pools and the requests about followed crates.              *)

PoolNames == {"primary", "replica"}
Asks == {<<>>, <<"primary">>, <<"replica">>, <<"primary", "replica">>, <<"replica", "primary">>}
Replies == {"none", "yes", "no", "ok", "error", "not found", "unavailable", "read only",
            "forbidden"}
CallRecs == [op : WriteOps \cup ReadOps \cup {"none"}, auth : {"cookie", "token"},
             step : {"idle", "pool", "auth", "target", "run", "answered"}, asks : Asks,
             pool : PoolNames \cup {"none"}, krate : 0..1,
             answer : Replies,
             expect : SUBSET {"yes", "no"}, steady : SUBSET PoolNames, known : BOOLEAN,
             via : PoolNames \cup {"none"}]

\* What a list of pools has at its first or second place.
Asked(p, asks) == asks # <<>> /\ (p = asks[1] \/ (Tail(asks) # <<>> /\ p = Tail(asks)[1]))

DbRecs == [krate : 0..1, follows : SUBSET (0..1), token : BOOLEAN]
DbOk(db) == db.krate \in 0..1 /\ db.follows \subseteq {db.krate} \ {0}

\* A request keeps to the pools there are: it has still to ask every pool that could have served
\* it all the time, it holds the primary one when that could, and its answer follows from that.
CallFits(k) ==
  /\ k.steady \subseteq Pools
  /\ k.step # "answered" => k.answer = "none"
  /\ k.step \in {"auth", "target", "run"} => k.pool \in Pools
  /\ k.step \in {"idle", "pool", "answered"} => k.pool = "none"
  /\ k.step = "idle" => k.op = "none"
  /\ k.step = "pool" =>
       /\ k.asks # <<>>
       /\ \A p \in PoolNames : Asked(p, k.asks) => p \in Pools
       /\ \A p \in k.steady : Asked(p, k.asks)
       /\ k.op = "following" /\ "primary" \in k.steady => k.asks[1] = "primary"
  /\ k.step \in {"auth", "target", "run"} /\ k.op = "following" /\ "primary" \in k.steady => k.pool = "primary"
  /\ k.step = "run" /\ k.op # "search" => k.krate = 1
  /\ k.answer = "unavailable" => k.steady = {}
  /\ k.op \in ReadOps /\ k.answer = "error" => k.via \notin k.steady
  /\ k.answer = "forbidden" => k.via \notin k.steady \/ (~ k.known /\ PoolConfig[k.via].url # "leader")
  /\ k.op = "following" /\ k.answer \in {"yes", "no"} /\ "primary" \in k.steady /\ PoolConfig["primary"].url = "leader"
       => k.answer \in k.expect

\* Whether pool p could give request c a connection, apart from its own.
Serves(p, c, cs, up) == PoolConfig[p].url \in up /\ Cardinality({d \in Calls \ {c} : cs[d].pool = p}) < PoolSize
CouldServe(p, c) == Serves(p, c, calls, dbUp)

\* A request knows which pools could serve it, a reading one also what the leader holds at the
\* moment; a token that the follower had is still there.
CallLive(c) ==
  /\ calls[c].step # "answered" =>
       /\ calls[c].op \in ReadOps => FollowAnswer(leaderDb, leaderDb.krate) \in calls[c].expect
       /\ \A p \in calls[c].steady : CouldServe(p, c)
  /\ calls[c].known => calls[c].auth = "cookie" \/ followerDb.token

FollowTypes ==
  /\ dbEnv \in [replicaUrl : {"none", "leader", "follower"}, offline : {"no", "leader", "follower"}, readOnly : BOOLEAN]
  /\ dbEnv.offline = "leader" => dbEnv.replicaUrl # "none"
  /\ dbUp \subseteq {"leader", "follower"} /\ wrote \subseteq PoolNames
  /\ outages \in 0..MaxOutages /\ followCalls \in 0..MaxFollowCalls
  /\ leaderDb \in DbRecs /\ DbOk(leaderDb) /\ leaderDb.token
  /\ followerDb \in DbRecs /\ DbOk(followerDb)
  /\ calls \in [Calls -> CallRecs]

FollowInd ==
  /\ FollowTypes
  /\ \A c \in Calls : CallFits(calls[c]) /\ CallLive(c)
  /\ \A p \in PoolNames : Cardinality(InUse(p)) =< PoolSize
  /\ ReadOnlyKept

\* The pools there are.
LEMMA PoolsAre ==
  ASSUME FollowTypes
  PROVE  /\ "primary" \in Pools /\ Pools \subseteq PoolNames
         /\ \A p \in Pools : MayWrite(p) => p = "primary" /\ dbEnv.readOnly = FALSE /\ dbEnv.offline # "leader"
  <1> USE DEF FollowTypes
  <1> DEFINE primary == [url |-> "leader", readOnly |-> dbEnv.readOnly]
             replica == [url |-> dbEnv.replicaUrl, readOnly |-> TRUE]
  <1>1. CASE dbEnv.offline = "leader"
    <2>1. PoolConfig = [p \in {"primary"} |-> replica]
      BY <1>1 DEF PoolConfig
    <2> QED
      BY <2>1 DEF Pools, PoolNames, MayWrite
  <1>2. CASE dbEnv.offline # "leader" /\ (dbEnv.offline = "follower" \/ dbEnv.replicaUrl = "none")
    <2>1. PoolConfig = [p \in {"primary"} |-> primary]
      BY <1>2 DEF PoolConfig
    <2> QED
      BY <1>2, <2>1 DEF Pools, PoolNames, MayWrite
  <1>3. CASE dbEnv.offline # "leader" /\ ~ (dbEnv.offline = "follower" \/ dbEnv.replicaUrl = "none")
    <2>1. PoolConfig = [p \in {"primary", "replica"} |-> IF p = "primary" THEN primary ELSE replica]
      BY <1>3 DEF PoolConfig
    <2>2. Pools = PoolNames /\ PoolConfig["primary"] = primary /\ PoolConfig["replica"] = replica
      BY <2>1 DEF Pools, PoolNames
    <2>3. ~ MayWrite("replica")
      BY <2>2 DEF MayWrite
    <2>4. MayWrite("primary") => dbEnv.readOnly = FALSE
      BY <2>2 DEF MayWrite
    <2> QED
      BY <1>3, <2>2, <2>3, <2>4 DEF PoolNames
  <1> QED
    BY <1>1, <1>2, <1>3

\* The lists of pools.
LEMMA AsksAre ==
  ASSUME NEW asks \in Asks, asks # <<>>
  PROVE  /\ asks[1] \in PoolNames /\ Tail(asks) \in Asks
         /\ \A p : Asked(p, asks) => p = asks[1] \/ (Tail(asks) # <<>> /\ Asked(p, Tail(asks)))
         /\ \A p : Asked(p, Tail(asks)) => Asked(p, asks)
         /\ Asked(asks[1], asks)
  <1>1. CASE asks = <<"primary">>
    <2>1. Tail(asks) = <<>> /\ asks[1] = "primary"
      BY <1>1
    <2> QED
      BY <2>1 DEF Asked, Asks, PoolNames
  <1>4. CASE asks = <<"replica">>
    <2>1. Tail(asks) = <<>> /\ asks[1] = "replica"
      BY <1>4
    <2> QED
      BY <2>1 DEF Asked, Asks, PoolNames
  <1>2. CASE asks = <<"primary", "replica">>
    <2>1. Tail(asks) = <<"replica">> /\ asks[1] = "primary" /\ Tail(asks) # <<>> /\ Tail(asks)[1] = "replica"
          /\ Tail(Tail(asks)) = <<>>
      BY <1>2
    <2> QED
      BY <2>1 DEF Asked, Asks, PoolNames
  <1>3. CASE asks = <<"replica", "primary">>
    <2>1. Tail(asks) = <<"primary">> /\ asks[1] = "replica" /\ Tail(asks) # <<>> /\ Tail(asks)[1] = "primary"
          /\ Tail(Tail(asks)) = <<>>
      BY <1>3
    <2> QED
      BY <2>1 DEF Asked, Asks, PoolNames
  <1> QED
    BY <1>1, <1>2, <1>3, <1>4 DEF Asks

\* The record of no request, and the one of a request that is over.
LEMMA CallRecords ==
  /\ NoCall \in CallRecs
  /\ NoCall.op = "none" /\ NoCall.step = "idle" /\ NoCall.pool = "none" /\ NoCall.answer = "none"
  /\ NoCall.steady = {} /\ NoCall.expect = {} /\ NoCall.krate = 0 /\ NoCall.auth = "cookie"
  BY DEF NoCall, CallRecs, Asks, Replies

LEMMA AnsweredRecord ==
  ASSUME NEW k \in CallRecs, NEW a \in Replies
  PROVE  /\ Answered(k, a) \in CallRecs
         /\ Answered(k, a).op = k.op /\ Answered(k, a).step = "answered" /\ Answered(k, a).pool = "none"
         /\ Answered(k, a).answer = a /\ Answered(k, a).expect = k.expect /\ Answered(k, a).steady = k.steady
         /\ Answered(k, a).auth = "cookie" /\ Answered(k, a).known = k.known /\ Answered(k, a).via = k.pool
  <1>5. 0 \in 0..1
    OBVIOUS
  <1> DEFINE nothing == <<>>
             r == [op |-> k.op, auth |-> "cookie", step |-> "answered", asks |-> nothing, pool |-> "none", krate |-> 0,
                   answer |-> a, expect |-> k.expect, steady |-> k.steady, known |-> k.known, via |-> k.pool]
  <1>1. Answered(k, a) = r
    BY DEF Answered
  <1>2. /\ k.op \in WriteOps \cup ReadOps \cup {"none"} /\ k.expect \in SUBSET {"yes", "no"}
        /\ k.steady \in SUBSET PoolNames /\ k.known \in BOOLEAN /\ k.pool \in PoolNames \cup {"none"}
    BY DEF CallRecs
  <1>0. nothing \in Asks
    BY DEF Asks
  <1> HIDE DEF nothing
  <1>3. r \in CallRecs
    BY <1>0, <1>2, <1>5 DEF CallRecs
  <1>4. /\ r.op = k.op /\ r.step = "answered" /\ r.pool = "none"
        /\ r.answer = a /\ r.expect = k.expect /\ r.steady = k.steady
        /\ r.auth = "cookie" /\ r.known = k.known /\ r.via = k.pool
    OBVIOUS
  <1> HIDE DEF r
  <1> QED
    BY <1>1, <1>3, <1>4


\* What the histories are after a step, for one request.
LEMMA ObservedCall ==
  ASSUME NEW cs \in [Calls -> CallRecs], NEW data, NEW up, NEW c \in Calls, CallFits(cs[c]),
         NEW k, k = Observed(cs, data, up)[c]
  PROVE  /\ k \in CallRecs /\ CallFits(k) /\ k.pool = cs[c].pool /\ k.auth = cs[c].auth /\ k.known = cs[c].known
         /\ k.step # "answered" =>
              /\ k.op \in ReadOps => FollowAnswer(data, data.krate) \in k.expect
              /\ \A p \in k.steady : Serves(p, c, cs, up)
  <1> DEFINE o == cs[c]
             free(p) == Serves(p, c, cs, up)
             e == IF o.op \in ReadOps THEN o.expect \cup {FollowAnswer(data, data.krate)} ELSE o.expect
             s == {p \in o.steady : free(p)}
  <1>1. o \in CallRecs
    OBVIOUS
  <1>2. CASE o.step = "answered"
    <2>1. k = o
      BY <1>2 DEF Observed
    <2> QED
      BY <1>1, <1>2, <2>1
  <1>3. CASE o.step # "answered"
    <2>1. k = [o EXCEPT !.expect = e, !.steady = s]
      BY <1>3 DEF Observed, Serves
    <2>2. /\ o.op \in ReadOps => FollowAnswer(data, data.krate) \in e
          /\ e \in SUBSET {"yes", "no"}
          /\ s \in SUBSET PoolNames /\ s \subseteq o.steady /\ \A p \in s : free(p)
      BY <1>1 DEF CallRecs, FollowAnswer
    <2> HIDE DEF e, s, free
    <2> DEFINE r == [o EXCEPT !.expect = e, !.steady = s]
    <2>3. r \in CallRecs
      BY <1>1, <2>2 DEF CallRecs
    <2>4. /\ r.op = o.op /\ r.step = o.step /\ r.asks = o.asks /\ r.pool = o.pool /\ r.krate = o.krate
          /\ r.answer = o.answer /\ r.expect = e /\ r.steady = s
          /\ r.auth = o.auth /\ r.known = o.known /\ r.via = o.via
      BY <1>1 DEF CallRecs
    <2>5. CallFits(o) /\ k = r
      BY <2>1
    <2> HIDE DEF r, o
    <2>6. CallFits(r)
      BY <1>3, <2>2, <2>4, <2>5 DEF CallFits
    <2>7. \A p \in r.steady : Serves(p, c, cs, up)
      BY <2>2, <2>4 DEF free
    <2> QED
      BY <2>2, <2>3, <2>4, <2>5, <2>6, <2>7 DEF o
  <1> QED
    BY <1>2, <1>3

\* A step after which the histories are brought up to date.
LEMMA ObservedInd ==
  ASSUME FollowInd, NEW cs \in [Calls -> CallRecs], \A c \in Calls : CallFits(cs[c]),
         \A p \in PoolNames : Cardinality({c \in Calls : cs[c].pool = p}) =< PoolSize,
         \A c \in Calls : cs[c].known => cs[c].auth = "cookie" \/ followerDb.token, leaderDb'.token,
         calls' = Observed(cs, leaderDb', dbUp'),
         dbUp' \subseteq {"leader", "follower"}, leaderDb' \in DbRecs, DbOk(leaderDb'),
         followerDb' = followerDb, outages' \in 0..MaxOutages, followCalls' \in 0..MaxFollowCalls,
         dbEnv' = dbEnv,
         wrote' = wrote \/ \E p \in Pools : MayWrite(p) /\ wrote' = wrote \cup {p}
  PROVE  FollowInd'
  <1>1. ASSUME NEW c \in Calls
        PROVE  /\ calls'[c] \in CallRecs /\ CallFits(calls'[c]) /\ calls'[c].pool = cs[c].pool
               /\ calls'[c].auth = cs[c].auth /\ calls'[c].known = cs[c].known
               /\ calls'[c].step # "answered" =>
                    /\ calls'[c].op \in ReadOps => FollowAnswer(leaderDb', leaderDb'.krate) \in calls'[c].expect
                    /\ \A p \in calls'[c].steady : Serves(p, c, cs, dbUp')
    <2> DEFINE data == leaderDb'
               up == dbUp'
    <2>1. calls'[c] = Observed(cs, data, up)[c] /\ CallFits(cs[c])
      OBVIOUS
    <2> HIDE DEF data, up
    <2> DEFINE k == Observed(cs, data, up)[c]
    <2>0. k = Observed(cs, data, up)[c]
      OBVIOUS
    <2> HIDE DEF k
    <2>2. /\ k \in CallRecs /\ CallFits(k) /\ k.pool = cs[c].pool
          /\ k.auth = cs[c].auth /\ k.known = cs[c].known
          /\ k.step # "answered" =>
               /\ k.op \in ReadOps => FollowAnswer(data, data.krate) \in k.expect
               /\ \A p \in k.steady : Serves(p, c, cs, up)
      BY <2>0, <2>1, ObservedCall
    <2>3. calls'[c] = k
      BY <2>0, <2>1
    <2> QED
      BY <2>2, <2>3 DEF data, up
  <1>2. calls' \in [Calls -> CallRecs]
    <2>1. calls' = [c \in Calls |-> calls'[c]]
      BY DEF Observed
    <2> QED
      BY <1>1, <2>1
  <1>3. PoolConfig' = PoolConfig /\ Pools' = Pools
    BY DEF PoolConfig, Pools
  <1>4. ASSUME NEW c \in Calls PROVE CallFits(calls[c])' /\ CallLive(c)'
    <2>1. CallFits(calls[c])'
      BY <1>1, <1>3 DEF CallFits
    <2>2. \A p : {d \in Calls \ {c} : cs[d].pool = p} = {d \in Calls \ {c} : calls'[d].pool = p}
      BY <1>1
    <2>3. CallLive(c)'
      BY <1>1, <1>3, <2>2 DEF CallLive, CouldServe, Serves, FollowAnswer
    <2> QED
      BY <2>1, <2>3
  <1>5. ASSUME NEW p \in PoolNames PROVE Cardinality(InUse(p)') =< PoolSize
    <2>1. InUse(p)' = {c \in Calls : cs[c].pool = p}
      BY <1>1 DEF InUse
    <2> QED
      BY <2>1
  <1>6. wrote' \subseteq PoolNames /\ ReadOnlyKept'
    <2>1. FollowTypes /\ wrote \subseteq PoolNames /\ ReadOnlyKept
      BY DEF FollowInd, FollowTypes
    <2>2. CASE wrote' = wrote
      BY <2>1, <2>2 DEF ReadOnlyKept
    <2>3. ASSUME NEW p \in Pools, MayWrite(p), wrote' = wrote \cup {p} PROVE wrote' \subseteq PoolNames /\ ReadOnlyKept'
      <3>1. p = "primary" /\ dbEnv.readOnly = FALSE /\ dbEnv.offline # "leader"
        BY <2>1, <2>3, PoolsAre
      <3> QED
        BY <2>1, <2>3, <3>1 DEF ReadOnlyKept, PoolNames
    <2> QED
      BY <2>2, <2>3
  <1>7. FollowTypes'
    BY <1>2, <1>6 DEF FollowInd, FollowTypes, DbOk
  <1> QED
    BY <1>4, <1>5, <1>6, <1>7 DEF FollowInd

\* One request moves on; it takes no connection, or has not had one and takes one there is.
LEMMA GoesInd ==
  ASSUME FollowInd, NEW c \in Calls, NEW r \in CallRecs, CallFits(r),
         Goes(c, r, leaderDb'), dbUp' = dbUp, dbEnv' = dbEnv, followerDb' = followerDb, outages' = outages,
         leaderDb' \in DbRecs, DbOk(leaderDb'), leaderDb'.token,
         followCalls' \in 0..MaxFollowCalls,
         r.known => r.auth = "cookie" \/ followerDb.token,
         r.pool \in {"none", calls[c].pool} \/ Available(r.pool),
         wrote' = wrote \/ \E p \in Pools : MayWrite(p) /\ wrote' = wrote \cup {p}
  PROVE  FollowInd'
  <1>0. IsFiniteSet(Calls) /\ PoolSize \in Nat
    BY FollowingAssumption
  <1> DEFINE cs == [calls EXCEPT ![c] = r]
  <1>1. cs \in [Calls -> CallRecs] /\ cs[c] = r /\ \A d \in Calls : d # c => cs[d] = calls[d]
    BY DEF FollowInd, FollowTypes
  <1>2. calls' = Observed(cs, leaderDb', dbUp')
    BY DEF Goes
  <1> HIDE DEF cs
  <1>3. \A d \in Calls : CallFits(cs[d])
    BY <1>1 DEF FollowInd
  <1>4. ASSUME NEW p \in PoolNames PROVE Cardinality({d \in Calls : cs[d].pool = p}) =< PoolSize
    <2> DEFINE now == {d \in Calls : cs[d].pool = p}
    <2>1. IsFiniteSet(InUse(p)) /\ Cardinality(InUse(p)) =< PoolSize /\ Cardinality(InUse(p)) \in Nat
      BY <1>0, FS_Subset, FS_CardinalityType DEF InUse, FollowInd
    <2>2. CASE r.pool # p \/ calls[c].pool = p
      <3>1. now \subseteq InUse(p)
        BY <1>1, <2>2 DEF InUse
      <3> HIDE DEF now
      <3>2. Cardinality(now) =< Cardinality(InUse(p)) /\ Cardinality(now) \in Nat
        BY <2>1, <3>1, FS_Subset, FS_CardinalityType
      <3>3. Cardinality(now) =< PoolSize
        BY <1>0, <2>1, <3>2
      <3> QED
        BY <3>3 DEF now
    <2>3. CASE r.pool = p /\ calls[c].pool # p
      <3>1. now = InUse(p) \cup {c} /\ c \notin InUse(p)
        BY <1>1, <2>3 DEF InUse
      <3>2. Cardinality(InUse(p)) < PoolSize
        BY <2>3 DEF Available, PoolNames
      <3> HIDE DEF now
      <3>3. Cardinality(now) = Cardinality(InUse(p)) + 1
        BY <2>1, <3>1, FS_AddElement
      <3>4. Cardinality(now) =< PoolSize
        BY <1>0, <2>1, <3>2, <3>3
      <3> QED
        BY <3>4 DEF now
    <2> QED
      BY <2>2, <2>3
  <1>5. dbUp' \subseteq {"leader", "follower"} /\ outages' \in 0..MaxOutages
    BY DEF FollowInd, FollowTypes
  <1>6. \A d \in Calls : cs[d].known => cs[d].auth = "cookie" \/ followerDb.token
    BY <1>1 DEF FollowInd, CallLive
  <1> QED
    BY <1>1, <1>2, <1>3, <1>4, <1>5, <1>6, ObservedInd


\* The pools that a request asks in turn.
LEMMA PoolOrders ==
  ASSUME FollowTypes, NEW op \in WriteOps \cup ReadOps
  PROVE  /\ PoolOrder(op) \in Asks /\ PoolOrder(op) # <<>>
         /\ \A p \in PoolNames : Asked(p, PoolOrder(op)) => p \in Pools
         /\ op \in ReadOps => \A p \in Pools : Asked(p, PoolOrder(op))
         /\ Asked("primary", PoolOrder(op))
         /\ op = "following" => PoolOrder(op)[1] = "primary"
  <1>0. "primary" \in Pools /\ Pools \subseteq PoolNames
    BY PoolsAre
  <1>1. CASE PoolOrder(op) = <<"primary">> /\ (op \in WriteOps \/ "replica" \notin Pools)
    <2>1. PoolOrder(op)[1] = "primary" /\ Tail(PoolOrder(op)) = <<>> /\ PoolOrder(op) # <<>> /\ PoolOrder(op) \in Asks
      BY <1>1 DEF Asks
    <2>2. op \in ReadOps => "replica" \notin Pools
      BY <1>1 DEF ReadOps, WriteOps
    <2> QED
      BY <1>0, <2>1, <2>2 DEF Asked, PoolNames
  <1>2. CASE PoolOrder(op) = <<"replica", "primary">> /\ op = "search" /\ "replica" \in Pools
    <2>1. PoolOrder(op)[1] = "replica" /\ Tail(PoolOrder(op)) = <<"primary">> /\ PoolOrder(op) # <<>> /\ PoolOrder(op) \in Asks
      BY <1>2 DEF Asks
    <2>2. <<"primary">>[1] = "primary" /\ <<"primary">> # <<>>
      OBVIOUS
    <2>3. Tail(PoolOrder(op))[1] = "primary" /\ Tail(PoolOrder(op)) # <<>>
      BY <2>1, <2>2, Zenon
    <2> QED
      BY <1>0, <1>2, <2>1, <2>3 DEF Asked, PoolNames
  <1>3. CASE PoolOrder(op) = <<"primary", "replica">> /\ op = "following" /\ "replica" \in Pools
    <2>1. PoolOrder(op)[1] = "primary" /\ Tail(PoolOrder(op)) = <<"replica">> /\ PoolOrder(op) # <<>> /\ PoolOrder(op) \in Asks
      BY <1>3 DEF Asks
    <2>2. <<"replica">>[1] = "replica" /\ <<"replica">> # <<>>
      OBVIOUS
    <2>3. Tail(PoolOrder(op))[1] = "replica" /\ Tail(PoolOrder(op)) # <<>>
      BY <2>1, <2>2, Zenon
    <2> QED
      BY <1>0, <1>3, <2>1, <2>3 DEF Asked, PoolNames
  <1>4. CASE op \in WriteOps \/ "replica" \notin Pools
    <2>1. PoolOrder(op) = <<"primary">>
      BY <1>4 DEF PoolOrder, WriteOps
    <2> QED
      BY <1>1, <1>4, <2>1
  <1>5. CASE ~ (op \in WriteOps \/ "replica" \notin Pools)
    <2>1. op = "search" => PoolOrder(op) = <<"replica", "primary">>
      BY <1>5 DEF PoolOrder
    <2>2. op = "following" => PoolOrder(op) = <<"primary", "replica">>
      BY <1>5 DEF PoolOrder
    <2> QED
      BY <1>2, <1>3, <1>5, <2>1, <2>2 DEF ReadOps
  <1> QED
    BY <1>4, <1>5

LEMMA BeginRequestInd ==
  ASSUME FollowInd, NEW c \in Calls, NEW op \in WriteOps \cup ReadOps, NEW auth \in {"cookie", "token"},
         BeginRequest(c, op, auth)
  PROVE  FollowInd'
  <1> DEFINE steady == IF op \in ReadOps THEN Pools ELSE {"primary"}
             asks == PoolOrder(op)
             had == auth = "cookie" \/ followerDb.token
             r == [NoCall EXCEPT !.op = op, !.auth = auth, !.step = "pool", !.asks = asks, !.steady = steady,
                                 !.known = had]
  <1>1. /\ followCalls < MaxFollowCalls /\ followCalls' = followCalls + 1
        /\ Goes(c, r, leaderDb) /\ UNCHANGED <<dbEnv, dbUp, leaderDb, followerDb, outages, wrote>>
    BY DEF BeginRequest, followWorld
  <1>2. FollowTypes
    BY DEF FollowInd
  <1>3. followCalls' \in 0..MaxFollowCalls
    BY <1>1, <1>2, FollowingAssumption DEF FollowTypes
  <1>4. /\ asks \in Asks /\ asks # <<>>
        /\ \A p \in PoolNames : Asked(p, asks) => p \in Pools
        /\ \A p \in steady : Asked(p, asks)
        /\ op = "following" => asks[1] = "primary"
    BY <1>2, PoolOrders
  <1>5. steady \subseteq Pools /\ steady \in SUBSET PoolNames
    BY <1>2, PoolsAre
  <1>8. had \in BOOLEAN /\ (had => auth = "cookie" \/ followerDb.token)
    BY <1>2 DEF FollowTypes, DbRecs
  <1> HIDE DEF steady, asks, had
  <1>6. /\ r \in CallRecs /\ r.op = op /\ r.step = "pool" /\ r.asks = asks /\ r.steady = steady
        /\ r.pool = "none" /\ r.answer = "none" /\ r.auth = auth /\ r.known = had
    BY <1>4, <1>5, <1>8, CallRecords DEF CallRecs
  <1> HIDE DEF r
  <1>7. CallFits(r)
    BY <1>4, <1>5, <1>6 DEF CallFits
  <1> QED
    BY <1>1, <1>2, <1>3, <1>6, <1>7, <1>8, GoesInd DEF FollowTypes, DbOk

\* A step of a request that changes no database, and may be noted by its connection.
LEMMA MovesOn ==
  ASSUME FollowInd, NEW c \in Calls, NEW r \in CallRecs, CallFits(r), Goes(c, r, leaderDb),
         UNCHANGED <<followWorld, followCalls>>,
         r.pool \in {"none", calls[c].pool} \/ Available(r.pool),
         r.auth = "cookie" \/ (r.auth = calls[c].auth /\ r.known = calls[c].known),
         wrote' = wrote \/ \E p \in Pools : MayWrite(p) /\ wrote' = wrote \cup {p}
  PROVE  FollowInd'
  <1>1. UNCHANGED <<dbEnv, dbUp, leaderDb, followerDb, outages, followCalls>>
    BY DEF followWorld
  <1>2. /\ leaderDb \in DbRecs /\ DbOk(leaderDb)
        /\ followCalls \in 0..MaxFollowCalls /\ leaderDb.token
    BY DEF FollowInd, FollowTypes
  <1>3. r.known => r.auth = "cookie" \/ followerDb.token
    BY DEF FollowInd, CallLive
  <1> QED
    BY <1>1, <1>2, <1>3, GoesInd DEF DbOk

\* A request that is over, with an answer that says nothing about the crate.
LEMMA AnsweredFits ==
  ASSUME FollowInd, NEW c \in Calls, NEW a \in Replies,
         a = "unavailable" => calls[c].steady = {},
         calls[c].op \in ReadOps /\ a = "error" => calls[c].pool \notin calls[c].steady,
         a = "forbidden" => \/ calls[c].pool \notin calls[c].steady
                            \/ ~ calls[c].known /\ PoolConfig[calls[c].pool].url # "leader",
         calls[c].op = "following" /\ a \in {"yes", "no"} /\ "primary" \in calls[c].steady
           /\ PoolConfig["primary"].url = "leader" => a \in calls[c].expect
  PROVE  /\ Answered(calls[c], a) \in CallRecs /\ CallFits(Answered(calls[c], a))
         /\ Answered(calls[c], a).pool = "none" /\ Answered(calls[c], a).auth = "cookie"
  <1>1. calls[c] \in CallRecs /\ CallFits(calls[c])
    BY DEF FollowInd, FollowTypes
  <1> DEFINE r == Answered(calls[c], a)
  <1>2. /\ r \in CallRecs /\ r.op = calls[c].op /\ r.step = "answered" /\ r.pool = "none"
        /\ r.answer = a /\ r.expect = calls[c].expect /\ r.steady = calls[c].steady
        /\ r.auth = "cookie" /\ r.known = calls[c].known /\ r.via = calls[c].pool
    BY <1>1, AnsweredRecord
  <1> HIDE DEF r
  <1>3. CallFits(r)
    BY <1>1, <1>2 DEF CallFits
  <1> QED
    BY <1>2, <1>3 DEF r

LEMMA ObtainInd ==
  ASSUME FollowInd, NEW c \in Calls, Obtain(c)
  PROVE  FollowInd'
  <1> DEFINE p == calls[c].asks[1]
             nothing == <<>>
             r == [calls[c] EXCEPT !.step = "auth", !.asks = nothing, !.pool = p]
  <1>1. /\ calls[c].step = "pool" /\ Available(p) /\ Goes(c, r, leaderDb)
        /\ UNCHANGED <<followWorld, followCalls, wrote>>
    BY DEF Obtain
  <1>2. calls[c] \in CallRecs /\ CallFits(calls[c])
    BY DEF FollowInd, FollowTypes
  <1>3. calls[c].asks \in Asks /\ calls[c].asks # <<>>
    BY <1>1, <1>2 DEF CallRecs, CallFits
  <1>4. p \in PoolNames /\ p \in Pools
    BY <1>1, <1>2, <1>3, AsksAre DEF CallFits
  <1>5. nothing \in Asks
    BY DEF Asks
  <1>6. calls[c].op = "following" /\ "primary" \in calls[c].steady => p = "primary"
    BY <1>1, <1>2 DEF CallFits
  <1> HIDE DEF nothing, p
  <1>7. /\ r \in CallRecs /\ r.op = calls[c].op /\ r.step = "auth" /\ r.pool = p /\ r.steady = calls[c].steady
        /\ r.answer = calls[c].answer /\ r.auth = calls[c].auth /\ r.known = calls[c].known
    BY <1>2, <1>4, <1>5 DEF CallRecs
  <1> HIDE DEF r
  <1>8. CallFits(r)
    BY <1>1, <1>2, <1>4, <1>6, <1>7 DEF CallFits
  <1> QED
    BY <1>1, <1>7, <1>8, MovesOn

LEMMA RefusedInd ==
  ASSUME FollowInd, NEW c \in Calls, Refused(c)
  PROVE  FollowInd'
  <1> DEFINE asks == calls[c].asks
             p == asks[1]
             rest == Tail(asks)
             r == [calls[c] EXCEPT !.asks = rest]
  <1>1. /\ calls[c].step = "pool" /\ ~ Available(p)
        /\ UNCHANGED <<followWorld, followCalls, wrote>>
    BY DEF Refused
  <1>2. calls[c] \in CallRecs /\ CallFits(calls[c]) /\ CallLive(c)
    BY DEF FollowInd, FollowTypes
  <1>3. asks \in Asks /\ asks # <<>> /\ calls[c].pool = "none" /\ calls[c].answer = "none"
    BY <1>1, <1>2 DEF CallRecs, CallFits
  <1>4. /\ p \in PoolNames /\ rest \in Asks
        /\ \A q : Asked(q, asks) => q = p \/ (rest # <<>> /\ Asked(q, rest))
        /\ \A q : Asked(q, rest) => Asked(q, asks)
    BY <1>3, AsksAre
  <1>5. p \notin calls[c].steady
    <2>1. InUse(p) = {d \in Calls \ {c} : calls[d].pool = p}
      BY <1>3, <1>4 DEF InUse, PoolNames
    <2>2. ~ CouldServe(p, c)
      BY <1>1, <2>1 DEF Available, CouldServe, Serves
    <2> QED
      BY <1>1, <1>2, <2>2 DEF CallLive
  <1>6. /\ \A q \in PoolNames : Asked(q, asks) => q \in Pools
        /\ \A q \in calls[c].steady : Asked(q, asks)
        /\ calls[c].op = "following" /\ "primary" \in calls[c].steady => p = "primary"
    BY <1>1, <1>2 DEF CallFits
  <1>7. CASE rest = <<>>
    <2>1. Goes(c, Answered(calls[c], "unavailable"), leaderDb)
      BY <1>7 DEF Refused
    <2>2. calls[c].steady = {}
      BY <1>2, <1>4, <1>5, <1>6, <1>7 DEF CallRecs
    <2>3. Answered(calls[c], "unavailable") \in CallRecs /\ CallFits(Answered(calls[c], "unavailable"))
          /\ Answered(calls[c], "unavailable").pool = "none" /\ Answered(calls[c], "unavailable").auth = "cookie"
      BY <2>2, AnsweredFits DEF Replies
    <2> QED
      BY <1>1, <2>1, <2>3, MovesOn
  <1>8. CASE rest # <<>>
    <2>1. Goes(c, r, leaderDb)
      BY <1>8 DEF Refused
    <2>2. "following" \in ReadOps
      BY DEF ReadOps
    <2> HIDE DEF p, rest, asks
    <2>3. /\ r \in CallRecs /\ r.op = calls[c].op /\ r.step = "pool" /\ r.pool = "none" /\ r.asks = rest
          /\ r.steady = calls[c].steady /\ r.answer = "none" /\ r.krate = calls[c].krate
          /\ r.auth = calls[c].auth /\ r.known = calls[c].known
      BY <1>1, <1>2, <1>3, <1>4 DEF CallRecs
    <2> HIDE DEF r
    <2>4. CallFits(r)
      BY <1>2, <1>4, <1>5, <1>6, <1>8, <2>2, <2>3 DEF CallFits
    <2> QED
      BY <1>1, <1>3, <2>1, <2>3, <2>4, MovesOn
  <1> QED
    BY <1>7, <1>8


\* A request that holds a connection, and goes on with it.
LEMMA HolderMoves ==
  ASSUME FollowInd, NEW c \in Calls, calls[c].step \in {"auth", "target"}, NEW step \in {"target", "run"}, NEW id \in 0..1,
         step = "run" /\ calls[c].op # "search" => id = 1,
         Goes(c, [calls[c] EXCEPT !.step = step, !.krate = id], leaderDb),
         UNCHANGED <<followWorld, followCalls>>,
         wrote' = wrote \/ \E p \in Pools : MayWrite(p) /\ wrote' = wrote \cup {p}
  PROVE  FollowInd'
  <1> DEFINE r == [calls[c] EXCEPT !.step = step, !.krate = id]
  <1>1. calls[c] \in CallRecs /\ CallFits(calls[c])
    BY DEF FollowInd, FollowTypes
  <1>2. /\ r \in CallRecs /\ r.op = calls[c].op /\ r.step = step /\ r.pool = calls[c].pool
        /\ r.krate = id /\ r.steady = calls[c].steady /\ r.answer = calls[c].answer
        /\ r.auth = calls[c].auth /\ r.known = calls[c].known
    BY <1>1 DEF CallRecs
  <1>3. Goes(c, r, leaderDb)
    OBVIOUS
  <1> HIDE DEF r
  <1>4. CallFits(r)
    BY <1>1, <1>2 DEF CallFits
  <1> QED
    BY <1>2, <1>3, <1>4, MovesOn

LEMMA AuthInd ==
  ASSUME FollowInd, NEW c \in Calls, AuthToken(c) \/ AuthCookie(c)
  PROVE  FollowInd'
  <1>1. /\ calls[c].step = "auth"
        /\ UNCHANGED <<followWorld, followCalls>>
        /\ wrote' = wrote \/ (MayWrite(calls[c].pool) /\ wrote' = wrote \cup {calls[c].pool})
    BY DEF AuthToken, AuthCookie, Holds, Writes
  <1>2. calls[c] \in CallRecs /\ CallFits(calls[c])
    BY DEF FollowInd, FollowTypes
  <1>3. calls[c].pool \in Pools
    BY <1>1, <1>2 DEF CallFits
  <1> DEFINE r == [calls[c] EXCEPT !.step = "target"]
             id == calls[c].krate
  <1>4. id \in 0..1
    BY <1>2 DEF CallRecs
  <1>5. r = [calls[c] EXCEPT !.step = "target", !.krate = id]
    BY <1>2 DEF CallRecs
  <1>8. wrote' = wrote \/ \E p \in Pools : MayWrite(p) /\ wrote' = wrote \cup {p}
    BY <1>1, <1>3
  <1>6. CASE Goes(c, r, leaderDb)
    <2> HIDE DEF r, id
    <2>1. Goes(c, [calls[c] EXCEPT !.step = "target", !.krate = id], leaderDb)
      BY <1>5, <1>6
    <2> QED
      BY <1>1, <1>4, <1>8, <2>1, HolderMoves
  <1>7. CASE AuthToken(c) /\ ~ Data(calls[c].pool).token
    <2>1. Goes(c, Answered(calls[c], "forbidden"), leaderDb) /\ calls[c].auth = "token"
      BY <1>7 DEF AuthToken
    <2>2. PoolConfig[calls[c].pool].url # "leader" /\ ~ followerDb.token
      BY <1>7 DEF Data, FollowInd, FollowTypes
    <2>3. ~ calls[c].known
      BY <2>1, <2>2 DEF FollowInd, CallLive
    <2>4. /\ Answered(calls[c], "forbidden") \in CallRecs /\ CallFits(Answered(calls[c], "forbidden"))
          /\ Answered(calls[c], "forbidden").pool = "none" /\ Answered(calls[c], "forbidden").auth = "cookie"
      BY <2>2, <2>3, AnsweredFits DEF Replies
    <2> QED
      BY <1>1, <1>8, <2>1, <2>4, MovesOn
  <1> QED
    BY <1>6, <1>7 DEF AuthToken, AuthCookie

LEMMA QueryFailsInd ==
  ASSUME FollowInd, NEW c \in Calls, QueryFails(c)
  PROVE  FollowInd'
  <1>1. PICK a \in {"error", "forbidden"} : Goes(c, Answered(calls[c], a), leaderDb)
    BY DEF QueryFails
  <1>2. /\ calls[c].pool # "none" /\ PoolConfig[calls[c].pool].url \notin dbUp
        /\ UNCHANGED <<followWorld, followCalls, wrote>>
    BY DEF QueryFails
  <1>3. calls[c] \in CallRecs /\ CallFits(calls[c]) /\ CallLive(c)
    BY DEF FollowInd, FollowTypes
  <1>4. calls[c].step # "answered"
    BY <1>2, <1>3 DEF CallFits
  <1>5. calls[c].pool \notin calls[c].steady
    BY <1>2, <1>3, <1>4 DEF CallLive, CouldServe, Serves
  <1>6. /\ Answered(calls[c], a) \in CallRecs /\ CallFits(Answered(calls[c], a))
        /\ Answered(calls[c], a).pool = "none" /\ Answered(calls[c], a).auth = "cookie"
    BY <1>5, AnsweredFits DEF Replies
  <1> QED
    BY <1>1, <1>2, <1>6, MovesOn

LEMMA FollowTargetInd ==
  ASSUME FollowInd, NEW c \in Calls, FollowTarget(c)
  PROVE  FollowInd'
  <1> DEFINE id == Data(calls[c].pool).krate
  <1>1. calls[c].step = "target" /\ UNCHANGED <<followWorld, followCalls, wrote>>
    BY DEF FollowTarget, Holds
  <1>2. id \in 0..1
    BY DEF FollowInd, FollowTypes, DbOk, Data
  <1>3. CASE calls[c].op # "search" /\ id = 0
    <2>1. Goes(c, Answered(calls[c], "not found"), leaderDb)
      BY <1>3 DEF FollowTarget
    <2>2. /\ Answered(calls[c], "not found") \in CallRecs /\ CallFits(Answered(calls[c], "not found"))
          /\ Answered(calls[c], "not found").pool = "none" /\ Answered(calls[c], "not found").auth = "cookie"
      BY AnsweredFits DEF Replies
    <2> QED
      BY <1>1, <2>1, <2>2, MovesOn
  <1>4. CASE ~ (calls[c].op # "search" /\ id = 0)
    <2>1. Goes(c, [calls[c] EXCEPT !.step = "run", !.krate = id], leaderDb)
      BY <1>4 DEF FollowTarget
    <2>2. calls[c].op # "search" => id = 1
      BY <1>2, <1>4
    <2> HIDE DEF id
    <2> QED
      BY <1>1, <1>2, <2>1, <2>2, HolderMoves
  <1> QED
    BY <1>3, <1>4

LEMMA ChangeFollowInd ==
  ASSUME FollowInd, NEW c \in Calls, ChangeFollow(c)
  PROVE  FollowInd'
  <1> DEFINE id == calls[c].krate
             able == calls[c].op = "unfollow" \/ leaderDb.krate = id
             follows == IF calls[c].op = "follow" THEN leaderDb.follows \cup {id} ELSE leaderDb.follows \ {id}
             data == IF MayWrite(calls[c].pool) /\ able THEN [leaderDb EXCEPT !.follows = follows] ELSE leaderDb
             a == IF ~ MayWrite(calls[c].pool) THEN "read only" ELSE IF able THEN "ok" ELSE "error"
  <1>1. /\ calls[c].step = "run" /\ calls[c].op \in WriteOps
        /\ leaderDb' = data /\ Goes(c, Answered(calls[c], a), data)
        /\ wrote' = wrote \/ (MayWrite(calls[c].pool) /\ wrote' = wrote \cup {calls[c].pool})
        /\ UNCHANGED <<dbEnv, dbUp, followerDb, outages, followCalls>>
    BY DEF ChangeFollow, Holds, Writes
  <1>2. calls[c] \in CallRecs /\ CallFits(calls[c])
    BY DEF FollowInd, FollowTypes
  <1>3. calls[c].pool \in Pools /\ id = 1
    BY <1>1, <1>2 DEF CallFits, WriteOps
  <1>4. /\ leaderDb \in DbRecs /\ DbOk(leaderDb)
        /\ followCalls \in 0..MaxFollowCalls /\ leaderDb.token
    BY DEF FollowInd, FollowTypes
  <1>5. data \in DbRecs /\ DbOk(data) /\ data.token
    <2>1. CASE MayWrite(calls[c].pool) /\ able
      <3>1. follows \in SUBSET (0..1) /\ follows \subseteq {leaderDb.krate} \ {0}
        BY <1>1, <1>3, <1>4, <2>1 DEF DbOk, WriteOps
      <3>2. data = [leaderDb EXCEPT !.follows = follows]
        BY <2>1
      <3> HIDE DEF data, follows
      <3>3. data \in DbRecs /\ data.krate = leaderDb.krate /\ data.follows = follows /\ data.token
        BY <1>4, <3>1, <3>2 DEF DbRecs
      <3> QED
        BY <1>4, <3>1, <3>3 DEF DbOk
    <2>2. CASE ~ (MayWrite(calls[c].pool) /\ able)
      BY <1>4, <2>2
    <2> QED
      BY <2>1, <2>2
  <1>6. a \in Replies /\ a \notin {"unavailable", "forbidden", "yes", "no"} /\ calls[c].op \notin ReadOps
    BY <1>1 DEF Replies, ReadOps, WriteOps
  <1>7. /\ Answered(calls[c], a) \in CallRecs /\ CallFits(Answered(calls[c], a))
        /\ Answered(calls[c], a).pool = "none" /\ Answered(calls[c], a).auth = "cookie"
    BY <1>6, AnsweredFits
  <1> HIDE DEF data, a
  <1>8. Goes(c, Answered(calls[c], a), leaderDb')
    BY <1>1
  <1>9. leaderDb' \in DbRecs /\ DbOk(leaderDb') /\ leaderDb'.token
    BY <1>1, <1>5
  <1>10. wrote' = wrote \/ \E p \in Pools : MayWrite(p) /\ wrote' = wrote \cup {p}
    BY <1>1, <1>3
  <1> DEFINE r == Answered(calls[c], a)
  <1> HIDE DEF r
  <1> QED
    BY <1>1, <1>4, <1>7, <1>8, <1>9, <1>10, GoesInd DEF r

LEMMA ReadFollowInd ==
  ASSUME FollowInd, NEW c \in Calls, ReadFollow(c)
  PROVE  FollowInd'
  <1> DEFINE data == Data(calls[c].pool)
             id == IF calls[c].op = "search" THEN data.krate ELSE calls[c].krate
             a == FollowAnswer(data, id)
  <1>1. /\ calls[c].step = "run" /\ calls[c].op \in ReadOps
        /\ Goes(c, Answered(calls[c], a), leaderDb)
        /\ UNCHANGED <<followWorld, followCalls, wrote>>
    BY DEF ReadFollow, Holds
  <1>2. calls[c] \in CallRecs /\ CallFits(calls[c]) /\ CallLive(c) /\ DbOk(leaderDb)
    BY DEF FollowInd, FollowTypes
  <1>3. a \in {"yes", "no"}
    BY DEF FollowAnswer
  <1>4. calls[c].op = "following" /\ "primary" \in calls[c].steady /\ PoolConfig["primary"].url = "leader"
          => a \in calls[c].expect
    <2> SUFFICES ASSUME calls[c].op = "following", "primary" \in calls[c].steady, PoolConfig["primary"].url = "leader"
                 PROVE  a \in calls[c].expect
      OBVIOUS
    <2>1. calls[c].pool = "primary" /\ calls[c].krate = 1
      BY <1>1, <1>2 DEF CallFits
    <2>2. data = leaderDb /\ id = 1
      BY <2>1 DEF Data
    <2>3. a = FollowAnswer(leaderDb, leaderDb.krate)
      BY <1>2, <2>2 DEF FollowAnswer, DbOk
    <2> QED
      BY <1>1, <1>2, <2>3 DEF CallLive
  <1> HIDE DEF a
  <1>5. /\ Answered(calls[c], a) \in CallRecs /\ CallFits(Answered(calls[c], a))
        /\ Answered(calls[c], a).pool = "none" /\ Answered(calls[c], a).auth = "cookie"
    BY <1>3, <1>4, AnsweredFits DEF Replies
  <1> QED
    BY <1>1, <1>5, MovesOn


LEMMA EndCallInd ==
  ASSUME FollowInd, NEW c \in Calls, EndCall(c)
  PROVE  FollowInd'
  <1>1. /\ calls[c].step = "answered" /\ calls' = [calls EXCEPT ![c] = NoCall]
        /\ UNCHANGED <<dbEnv, dbUp, leaderDb, followerDb, outages, followCalls, wrote>>
    BY DEF EndCall, followWorld
  <1>2. FollowTypes /\ calls \in [Calls -> CallRecs] /\ calls[c].pool = "none"
    BY <1>1 DEF FollowInd, FollowTypes, CallFits
  <1>3. /\ calls' \in [Calls -> CallRecs] /\ calls'[c] = NoCall
        /\ \A d \in Calls : d # c => calls'[d] = calls[d]
        /\ \A d \in Calls : calls'[d].pool = calls[d].pool
    BY <1>1, <1>2, CallRecords
  <1>4. PoolConfig' = PoolConfig /\ Pools' = Pools
    BY <1>1 DEF PoolConfig, Pools
  <1>5. ASSUME NEW d \in Calls PROVE CallFits(calls[d])' /\ CallLive(d)'
    <2>1. CallFits(calls[d]) /\ CallLive(d)
      BY DEF FollowInd
    <2>2. CASE d = c
      <3>1. CallFits(NoCall)
        BY CallRecords DEF CallFits, ReadOps
      <3>2. calls'[d] = NoCall
        BY <1>3, <2>2
      <3>3. CallFits(calls[d])'
        BY <1>4, <3>1, <3>2 DEF CallFits
      <3>4. CallLive(d)'
        BY <3>2, CallRecords DEF CallLive, ReadOps
      <3> QED
        BY <3>3, <3>4
    <2>3. CASE d # c
      <3>1. calls'[d] = calls[d]
        BY <1>3, <2>3
      <3>2. CallFits(calls[d])'
        BY <1>4, <2>1, <3>1 DEF CallFits
      <3>3. \A p : {e \in Calls \ {d} : calls[e].pool = p} = {e \in Calls \ {d} : calls'[e].pool = p}
        BY <1>3
      <3>4. CallLive(d)'
        BY <1>1, <1>4, <2>1, <3>1, <3>3 DEF CallLive, CouldServe, Serves, FollowAnswer
      <3> QED
        BY <3>2, <3>4
    <2> QED
      BY <2>2, <2>3
  <1>6. \A p : InUse(p)' = InUse(p)
    BY <1>3 DEF InUse
  <1>7. FollowTypes'
    BY <1>1, <1>2, <1>3 DEF FollowTypes, DbOk
  <1>8. ReadOnlyKept'
    BY <1>1 DEF FollowInd, ReadOnlyKept
  <1> QED
    BY <1>5, <1>6, <1>7, <1>8 DEF FollowInd

\* The databases change, and the requests notice.
LEMMA WorldMoves ==
  ASSUME FollowInd, DeleteFollowed \/ \E db \in {"leader", "follower"} : Outage(db)
  PROVE  FollowInd'
  <1>1. /\ calls \in [Calls -> CallRecs] /\ \A c \in Calls : CallFits(calls[c])
        /\ \A p \in PoolNames : Cardinality({c \in Calls : calls[c].pool = p}) =< PoolSize
        /\ outages \in 0..MaxOutages /\ followCalls \in 0..MaxFollowCalls /\ dbUp \subseteq {"leader", "follower"}
        /\ leaderDb \in DbRecs /\ DbOk(leaderDb) /\ leaderDb.token
        /\ \A c \in Calls : calls[c].known => calls[c].auth = "cookie" \/ followerDb.token
    BY DEF FollowInd, FollowTypes, InUse, CallLive
  <1>2. CASE DeleteFollowed
    <2>1. /\ leaderDb' = [leaderDb EXCEPT !.krate = 0, !.follows = {}] /\ calls' = Observed(calls, leaderDb', dbUp)
          /\ UNCHANGED <<dbEnv, dbUp, followerDb, outages, followCalls, wrote>>
      BY <1>2 DEF DeleteFollowed
    <2>2. leaderDb' \in DbRecs /\ leaderDb'.krate = 0 /\ leaderDb'.follows = {} /\ leaderDb'.token
      <3> DEFINE none == {}
                 db == [leaderDb EXCEPT !.krate = 0, !.follows = none]
      <3>1. none \in SUBSET (0..1) /\ 0 \in 0..1 /\ leaderDb' = db
        BY <2>1
      <3>2. none = {}
        OBVIOUS
      <3> HIDE DEF none
      <3>3. db \in DbRecs /\ db.krate = 0 /\ db.follows = none /\ db.token
        BY <1>1, <3>1 DEF DbRecs
      <3> HIDE DEF db
      <3> QED
        BY <3>1, <3>2, <3>3
    <2>3. DbOk(leaderDb')
      BY <2>2 DEF DbOk
    <2>4. calls' = Observed(calls, leaderDb', dbUp')
      BY <2>1
    <2> QED
      BY <1>1, <2>1, <2>2, <2>3, <2>4, ObservedInd
  <1>3. ASSUME NEW db \in {"leader", "follower"}, Outage(db) PROVE FollowInd'
    <2>1. /\ outages < MaxOutages /\ outages' = outages + 1 /\ dbUp' = dbUp \ {db}
          /\ calls' = Observed(calls, leaderDb, dbUp')
          /\ UNCHANGED <<dbEnv, leaderDb, followerDb, followCalls, wrote>>
      BY <1>3 DEF Outage
    <2>2. outages' \in 0..MaxOutages /\ dbUp' \subseteq {"leader", "follower"}
      BY <1>1, <2>1, FollowingAssumption
    <2>3. calls' = Observed(calls, leaderDb', dbUp')
      BY <2>1
    <2>4. leaderDb' \in DbRecs /\ DbOk(leaderDb')
      BY <1>1, <2>1 DEF DbOk
    <2> QED
      BY <1>1, <2>1, <2>2, <2>3, <2>4, ObservedInd
  <1> QED
    BY <1>2, <1>3

\* The follower catches up, a database comes back, or nothing happens.
LEMMA WorldRecovers ==
  ASSUME FollowInd, Replicate \/ (\E db \in {"leader", "follower"} : Recovery(db)) \/ UNCHANGED followVars
  PROVE  FollowInd'
  <1>1. /\ UNCHANGED <<dbEnv, leaderDb, calls, outages, followCalls, wrote>>
        /\ dbUp' = dbUp \/ \E db \in {"leader", "follower"} : dbUp' = dbUp \cup {db}
        /\ followerDb' = followerDb \/ followerDb' = leaderDb
    BY DEF Replicate, Recovery, followVars
  <1>2. dbUp \subseteq dbUp'
    BY <1>1
  <1>3. FollowTypes'
    BY <1>1 DEF FollowInd, FollowTypes, DbOk
  <1>4. PoolConfig' = PoolConfig /\ Pools' = Pools
    BY <1>1 DEF PoolConfig, Pools
  <1>5. ASSUME NEW c \in Calls PROVE CallFits(calls[c])' /\ CallLive(c)'
    <2>1. CallFits(calls[c]) /\ CallLive(c) /\ calls' = calls
      BY <1>1 DEF FollowInd
    <2>2. CallFits(calls[c])'
      BY <1>4, <2>1 DEF CallFits
    <2>4. followerDb.token => followerDb'.token
      BY <1>1 DEF FollowInd, FollowTypes
    <2>3. CallLive(c)'
      BY <1>1, <1>2, <1>4, <2>1, <2>4 DEF CallLive, CouldServe, Serves, FollowAnswer
    <2> QED
      BY <2>2, <2>3
  <1>6. \A p : InUse(p)' = InUse(p)
    BY <1>1 DEF InUse
  <1>7. ReadOnlyKept'
    BY <1>1 DEF FollowInd, ReadOnlyKept
  <1> QED
    BY <1>3, <1>5, <1>6, <1>7 DEF FollowInd

LEMMA StepFollowInd == FollowInd /\ [FollowNext]_followVars => FollowInd'
  <1> SUFFICES ASSUME FollowInd, [FollowNext]_followVars PROVE FollowInd'
    OBVIOUS
  <1>1. CASE UNCHANGED followVars \/ Replicate \/ \E db \in {"leader", "follower"} : Recovery(db)
    BY <1>1, WorldRecovers
  <1>2. CASE DeleteFollowed \/ \E db \in {"leader", "follower"} : Outage(db)
    BY <1>2, WorldMoves
  <1>3. ASSUME NEW c \in Calls, NEW op \in WriteOps \cup ReadOps, NEW auth \in {"cookie", "token"}, BeginRequest(c, op, auth)
        PROVE  FollowInd'
    BY <1>3, BeginRequestInd
  <1>4. ASSUME NEW c \in Calls, Obtain(c) \/ Refused(c) PROVE FollowInd'
    BY <1>4, ObtainInd, RefusedInd
  <1>5. ASSUME NEW c \in Calls, QueryFails(c) \/ AuthToken(c) \/ AuthCookie(c) \/ FollowTarget(c) PROVE FollowInd'
    BY <1>5, QueryFailsInd, AuthInd, FollowTargetInd
  <1>6. ASSUME NEW c \in Calls, ChangeFollow(c) \/ ReadFollow(c) \/ EndCall(c) PROVE FollowInd'
    BY <1>6, ChangeFollowInd, ReadFollowInd, EndCallInd
  <1> QED
    BY <1>1, <1>2, <1>3, <1>4, <1>5, <1>6 DEF FollowNext

LEMMA InitFollowInd == FollowInit => FollowInd
  <1> SUFFICES ASSUME FollowInit PROVE FollowInd
    OBVIOUS
  <1>1. /\ dbUp = {"leader", "follower"} /\ leaderDb = [krate |-> 1, follows |-> {}, token |-> TRUE]
        /\ followerDb = leaderDb \/ followerDb = [leaderDb EXCEPT !.token = FALSE]
        /\ calls = [c \in Calls |-> NoCall] /\ outages = 0 /\ followCalls = 0 /\ wrote = {}
    BY DEF FollowInit
  <1>2. leaderDb \in DbRecs /\ DbOk(leaderDb) /\ leaderDb.token /\ followerDb \in DbRecs /\ DbOk(followerDb)
    <2> DEFINE none == {}
    <2>0. none \in SUBSET (0..1) /\ none \subseteq {1} \ {0}
      OBVIOUS
    <2>1. leaderDb = [krate |-> 1, follows |-> none, token |-> TRUE]
      BY <1>1
    <2> HIDE DEF none
    <2>2. leaderDb \in DbRecs /\ DbOk(leaderDb) /\ leaderDb.token
      BY <2>0, <2>1 DEF DbOk, DbRecs
    <2>3. [leaderDb EXCEPT !.token = FALSE] \in DbRecs /\ DbOk([leaderDb EXCEPT !.token = FALSE])
      BY <2>2 DEF DbOk, DbRecs
    <2> QED
      BY <1>1, <2>2, <2>3
  <1>3. calls \in [Calls -> CallRecs] /\ \A c \in Calls : calls[c] = NoCall
    BY <1>1, CallRecords
  <1>4. outages \in 0..MaxOutages /\ followCalls \in 0..MaxFollowCalls
    BY <1>1, FollowingAssumption
  <1>5. /\ dbEnv \in [replicaUrl : {"none", "leader", "follower"}, offline : {"no", "leader", "follower"},
                      readOnly : BOOLEAN]
        /\ dbEnv.offline = "leader" => dbEnv.replicaUrl # "none"
    BY DEF FollowInit
  <1>6. FollowTypes
    BY <1>1, <1>2, <1>3, <1>4, <1>5 DEF FollowTypes
  <1>7. \A c \in Calls : CallFits(calls[c]) /\ CallLive(c)
    BY <1>3, CallRecords DEF CallFits, CallLive, ReadOps
  <1>8. ASSUME NEW p \in PoolNames PROVE Cardinality(InUse(p)) =< PoolSize
    <2>1. InUse(p) = {}
      BY <1>3, CallRecords DEF InUse, PoolNames
    <2> QED
      BY <2>1, FS_EmptySet, FollowingAssumption
  <1>9. ReadOnlyKept
    BY <1>1 DEF ReadOnlyKept
  <1> QED
    BY <1>6, <1>7, <1>8, <1>9 DEF FollowInd

\* A request is turned away only if no pool it may use could have served it all the time, and a read
\* is cut off only with the database it reads; users read what they wrote; nothing is written over a
\* connection that may not; and a token is refused only with its connection lost or over a follower
\* that did not have it yet: get_following_crate, AppState::db_read_prefer_primary and
\* ApiToken::find_by_api_token with any number of requests in flight.
THEOREM FollowsAreKept == FollowSpec => []FollowInv
  <1>1. FollowInd => FollowInv
    <2> SUFFICES ASSUME FollowInd PROVE FollowInv
      OBVIOUS
    <2>1. FollowTypes /\ ReadOnlyKept /\ Pools \subseteq PoolNames
      BY PoolsAre DEF FollowInd
    <2>2. \A c \in Calls : calls[c] \in CallRecs /\ CallFits(calls[c])
      BY DEF FollowInd, FollowTypes
    <2>3. \A c \in Calls : calls[c].pool \in Pools \cup {"none"}
      BY <2>2 DEF CallFits, CallRecs
    <2>4. \A c \in Calls : calls[c].op \in WriteOps \cup ReadOps \cup {"none"}
      BY <2>2 DEF CallRecs
    <2>5. \A p \in Pools : Cardinality(InUse(p)) =< PoolSize
      BY <2>1 DEF FollowInd
    <2>6. FollowTypeOK
      BY <2>1, <2>3, <2>4, <2>5 DEF FollowTypeOK, FollowTypes, DbOk, DbRecs, PoolNames
    <2>7. ReadsSurvive /\ ReadYourWrites /\ TokensAccepted
      BY <2>2 DEF CallFits, ReadsSurvive, ReadYourWrites, TokensAccepted
    <2> QED
      BY <2>1, <2>6, <2>7 DEF FollowInv
  <1> QED
    BY <1>1, InitFollowInd, StepFollowInd, PTL DEF FollowSpec

-----------------------------------------------------------------------------
(* Secret scanning.                                                        *)

Labels == Secrets \X BOOLEAN
ReportRecs == [step : {"idle", "verify", "fetch", "alerts", "revoke", "mail"}, key : {0} \cup Keys,
               tokens : Seq(Secrets), labels : Seq(Labels), fetched : {0} \cup Keys, since : 0..MaxScanNow]

LabelsOf(k) == {k.labels[i] : i \in 1..Len(k.labels)}

\* A request is about to revoke this token, or to mail its owner.
Works(k, t) == k.step \in {"revoke", "mail"} /\ Head(k.tokens) = t

\* What a label says of a token is true.
LabelIsTrue(t, l) == t \notin valid /\ (l => t \in known) /\ (t \in ApiSecrets \cap known => l)

\* GitHub has not replaced this key before that time.
NotReplaced(key, time) == key \in Keys /\ (retired[key] # NoTime => retired[key] >= time)

\* A request works at tokens that have a row, and mails about those it has revoked; its keys are as
\* fresh as its fetch is long.
ReportFits(k) ==
  /\ k.step \in {"revoke", "mail"} => k.tokens # <<>>
  /\ k.step = "revoke" => Head(k.tokens) \in ApiSecrets \cap known
  /\ k.step = "mail" => Head(k.tokens) \in known \ valid
  /\ k.step \in {"idle", "verify", "fetch"} => k.labels = <<>>
  /\ k.step = "fetch" => k.since =< scanNow /\ scanNow =< k.since + MaxFetchTicks
  /\ k.step = "fetch" /\ k.fetched # 0 => NotReplaced(k.fetched, k.since)
  /\ \A t \in Secrets, l \in BOOLEAN : <<t, l>> \in LabelsOf(k) => LabelIsTrue(t, l)

\* One request at a time works at a token that is no clash, before its only mail; a token that is
\* revoked has a request that is about to mail, or a mail, and a label in an answer or on its way
\* there, unless its request was cut.
OneMail(t) ==
  /\ \A r, q \in Reports : Works(report[r], t) /\ Works(report[q], t) => r = q
  /\ \A r \in Reports : Works(report[r], t) => mails[t] = 0
  /\ \A r \in Reports : Works(report[r], t) /\ report[r].step = "revoke" => t \in valid
  /\ t \in valid => mails[t] = 0
  /\ mails[t] =< 1

OnItsWay(t) ==
  \/ \E r \in Reports : report[r].step = "mail" /\ Head(report[r].tokens) = t
  \/ /\ mails[t] = 1
     /\ TRUE \in answers[t] \/ \E r \in Reports : <<t, TRUE>> \in LabelsOf(report[r])

TokenFits(t) ==
  /\ t \notin clash => OneMail(t)
  /\ t \in (known \cap PubSecrets) \ (cut \cup valid) => OnItsWay(t)
  /\ \A l \in answers[t] : LabelIsTrue(t, l)

KeysFit ==
  /\ \A k \in Keys : k >= currentKey => retired[k] = NoTime
  /\ cachedAt # NoTime => cachedAt =< scanNow /\ NotReplaced(cachedKey, cachedAt - MaxFetchTicks)
  /\ ReplacedKeyRefused

ScanTypes ==
  /\ scanNow \in 0..MaxScanNow /\ currentKey \in Keys
  /\ retired \in [Keys -> {NoTime} \cup 0..MaxScanNow]
  /\ cachedKey \in {0} \cup Keys /\ cachedAt \in {NoTime} \cup 0..MaxScanNow
  /\ known \subseteq Secrets /\ valid \subseteq known
  /\ reports \in 0..MaxReports
  /\ mails \in [Secrets -> Nat] /\ answers \in [Secrets -> SUBSET BOOLEAN]
  /\ clash \subseteq ApiSecrets /\ cut \subseteq Secrets
  /\ report \in [Reports -> ReportRecs]

OneFetch == \A r, q \in Reports : report[r].step = "fetch" /\ report[q].step = "fetch" => r = q

ScanInd ==
  /\ ScanTypes
  /\ OneFetch
  /\ \A r \in Reports : ReportFits(report[r])
  /\ \A t \in Secrets : TokenFits(t)
  /\ KeysFit

\* The record of no request.
LEMMA NoReportRecord ==
  /\ NoReport \in ReportRecs /\ NoReport.step = "idle" /\ NoReport.labels = <<>> /\ NoReport.tokens = <<>>
  /\ NoReport.key = 0 /\ NoReport.fetched = 0 /\ NoReport.since = 0
  /\ LabelsOf(NoReport) = {}
  <1> DEFINE none == <<>>
             r == [step |-> "idle", key |-> 0, tokens |-> none, labels |-> none, fetched |-> 0, since |-> 0]
  <1>1. NoReport = r /\ none \in Seq(Secrets) /\ none \in Seq(Labels) /\ Len(none) = 0 /\ none = <<>>
    BY DEF NoReport
  <1>2. 0 \in 0..MaxScanNow
    BY SecretScanningAssumption
  <1> HIDE DEF none
  <1>3. r \in ReportRecs /\ r.step = "idle" /\ r.labels = none /\ r.tokens = none /\ r.key = 0 /\ r.fetched = 0 /\ r.since = 0
    BY <1>1, <1>2 DEF ReportRecs
  <1> HIDE DEF r
  <1>4. LabelsOf(r) = {}
    BY <1>1, <1>3 DEF LabelsOf
  <1> QED
    BY <1>1, <1>3, <1>4

\* A request that stays as it is keeps what holds of it, while tokens are revoked.
LEMMA FitsOn ==
  ASSUME NEW k, ReportFits(k), known' = known, valid' \subseteq valid, scanNow' = scanNow, retired' = retired
  PROVE  ReportFits(k)'
  <1>1. \A t, l : LabelIsTrue(t, l) => LabelIsTrue(t, l)'
    BY DEF LabelIsTrue
  <1>2. \A key, time : NotReplaced(key, time) => NotReplaced(key, time)'
    BY DEF NotReplaced
  <1> QED
    BY <1>1, <1>2 DEF ReportFits, LabelsOf

\* What holds of a token does, when one request steps that works at another one, or at none, and
\* keeps its labels.
LEMMA TokenOn ==
  ASSUME ScanInd, NEW t \in Secrets, NEW r \in Reports, NEW k \in ReportRecs, report' = [report EXCEPT ![r] = k],
         known' = known, valid' \subseteq valid, t \in valid => t \in valid',
         clash \subseteq clash', cut \subseteq cut',
         mails'[t] = mails[t], answers'[t] = answers[t],
         ~ Works(k, t), report[r].step = "mail" /\ Head(report[r].tokens) = t => t \in cut',
         <<t, TRUE>> \in LabelsOf(report[r]) => <<t, TRUE>> \in LabelsOf(k) \/ t \in cut'
  PROVE  TokenFits(t)'
  <1>1. report'[r] = k /\ \A q \in Reports : q # r => report'[q] = report[q]
    BY DEF ScanInd, ScanTypes
  <1>2. TokenFits(t)
    BY DEF ScanInd
  <1>3. t \notin clash' => OneMail(t)'
    BY <1>1, <1>2 DEF TokenFits, OneMail, Works
  <1>4. t \in (known \cap PubSecrets) \ (cut' \cup valid') => OnItsWay(t)'
    BY <1>1, <1>2 DEF TokenFits, OnItsWay, LabelsOf
  <1>5. \A l \in answers'[t] : LabelIsTrue(t, l)'
    BY <1>2 DEF TokenFits, LabelIsTrue
  <1> QED
    BY <1>3, <1>4, <1>5 DEF TokenFits


\* One request steps.
LEMMA ReportMoves ==
  ASSUME ScanInd, NEW r \in Reports, NEW k \in ReportRecs, report' = [report EXCEPT ![r] = k],
         UNCHANGED <<known, scanNow, retired, currentKey>>, valid' \subseteq valid,
         cachedKey' \in {0} \cup Keys, cachedAt' \in {NoTime} \cup 0..MaxScanNow, reports' \in 0..MaxReports,
         mails' \in [Secrets -> Nat], answers' \in [Secrets -> SUBSET BOOLEAN],
         clash' \subseteq ApiSecrets, cut' \subseteq Secrets,
         k.step = "fetch" => report[r].step = "fetch" \/ ScanUnlocked,
         ReportFits(k)', \A t \in Secrets : TokenFits(t)', KeysFit'
  PROVE  ScanInd'
  <1>1. report' \in [Reports -> ReportRecs] /\ report'[r] = k /\ \A q \in Reports : q # r => report'[q] = report[q]
    BY DEF ScanInd, ScanTypes
  <1>2. ScanTypes'
    BY <1>1 DEF ScanInd, ScanTypes
  <1>3. OneFetch'
    BY <1>1 DEF ScanInd, OneFetch, ScanUnlocked
  <1>4. ASSUME NEW q \in Reports PROVE ReportFits(report[q])'
    <2>1. CASE q = r
      <3>1. report'[q] = k
        BY <1>1, <2>1
      <3>2. ReportFits(k)'
        OBVIOUS
      <3> QED
        BY <3>1, <3>2 DEF ReportFits, LabelsOf
    <2>2. CASE q # r
      <3>1. report'[q] = report[q]
        BY <1>1, <2>2
      <3> PICK h : h = report[q]
        OBVIOUS
      <3>2. ReportFits(h)
        BY DEF ScanInd
      <3>3. ReportFits(h)'
        BY <3>2, FitsOn
      <3> QED
        BY <3>1, <3>3 DEF ReportFits, LabelsOf
    <2> QED
      BY <2>1, <2>2
  <1> QED
    BY <1>2, <1>3, <1>4 DEF ScanInd

\* A step of a request at no token, before or after its work at the tokens.
LEMMA ReportSteps ==
  ASSUME ScanInd, NEW r \in Reports, NEW k \in ReportRecs, report' = [report EXCEPT ![r] = k],
         UNCHANGED <<known, scanNow, retired, currentKey, valid, mails, answers, clash>>,
         cachedKey' \in {0} \cup Keys, cachedAt' \in {NoTime} \cup 0..MaxScanNow, reports' \in 0..MaxReports,
         cut \subseteq cut', cut' \subseteq Secrets,
         k.step = "fetch" => report[r].step = "fetch" \/ ScanUnlocked,
         report[r].step \notin {"revoke", "mail"}, k.step \notin {"revoke", "mail"},
         report[r].labels = <<>> \/ k.labels = report[r].labels,
         ReportFits(k)', KeysFit'
  PROVE  ScanInd'
  <1>1. mails' \in [Secrets -> Nat] /\ answers' \in [Secrets -> SUBSET BOOLEAN] /\ clash' \subseteq ApiSecrets
    BY DEF ScanInd, ScanTypes
  <1>2. ASSUME NEW t \in Secrets PROVE TokenFits(t)'
    <2>1. ~ Works(k, t) /\ known' = known /\ valid' = valid /\ mails'[t] = mails[t] /\ answers'[t] = answers[t]
      BY DEF Works
    <2>2. <<t, TRUE>> \in LabelsOf(report[r]) => <<t, TRUE>> \in LabelsOf(k)
      <3>1. CASE report[r].labels = <<>>
        <4>1. Len(report[r].labels) = 0
          BY <3>1
        <4> QED
          BY <4>1 DEF LabelsOf
      <3>2. CASE k.labels = report[r].labels
        BY <3>2 DEF LabelsOf
      <3> QED
        BY <3>1, <3>2
    <2> QED
      BY <2>1, <2>2, TokenOn
  <1> QED
    BY <1>1, <1>2, ReportMoves

\* What holds of the cache and of the accepted keys while neither changes.
LEMMA KeysOn ==
  ASSUME KeysFit, UNCHANGED <<scanNow, retired, currentKey, cachedKey, cachedAt, lateKeys>>
  PROVE  KeysFit'
  BY DEF KeysFit, NotReplaced, ReplacedKeyRefused

LEMMA ReportArrivesInd ==
  ASSUME ScanInd, NEW r \in Reports, NEW tokens \in Seq(Secrets), ReportArrives(r, tokens)
  PROVE  ScanInd'
  <1> DEFINE key == currentKey
  <1> PICK k : k = [NoReport EXCEPT !.step = "verify", !.key = key, !.tokens = tokens]
    OBVIOUS
  <1>1. /\ report[r].step = "idle" /\ reports < MaxReports /\ reports' = reports + 1
        /\ report' = [report EXCEPT ![r] = k]
        /\ UNCHANGED <<known, scanNow, currentKey, retired, cachedKey, cachedAt, valid, mails, answers, clash, cut, lateKeys>>
    BY DEF ReportArrives
  <1>2. reports' \in 0..MaxReports /\ key \in Keys /\ ScanTypes
    BY <1>1, SecretScanningAssumption DEF ScanInd, ScanTypes
  <1>3. report[r].labels = <<>>
    BY <1>1 DEF ScanInd, ReportFits
  <1> HIDE DEF key
  <1>4. k \in ReportRecs /\ k.step = "verify" /\ k.labels = <<>>
    BY <1>2, NoReportRecord DEF ReportRecs
  <1>5. LabelsOf(k) = {}
    BY <1>4 DEF LabelsOf
  <1>6. ReportFits(k)'
    BY <1>4, <1>5 DEF ReportFits, LabelsOf
  <1>7. KeysFit'
    BY <1>1, KeysOn DEF ScanInd
  <1> QED
    BY <1>1, <1>2, <1>3, <1>4, <1>6, <1>7, ReportSteps DEF ScanTypes

\* Whether a request goes on with this key or is refused.
LEMMA VerifiedInd ==
  ASSUME ScanInd, NEW r \in Reports, report[r].step \in {"verify", "fetch"}, NEW key, Verified(r, key),
         UNCHANGED <<known, scanNow, currentKey, retired, valid, reports, mails, answers, clash>>,
         cachedKey' \in {0} \cup Keys, cachedAt' \in {NoTime} \cup 0..MaxScanNow,
         cachedAt' # NoTime => cachedAt' =< scanNow /\ NotReplaced(cachedKey', cachedAt' - MaxFetchTicks),
         retired[key] # NoTime => scanNow - retired[key] < KeyLifetime + MaxFetchTicks
  PROVE  ScanInd'
  <1>1. ScanTypes /\ ReportFits(report[r]) /\ KeysFit /\ report[r] \in ReportRecs
    BY DEF ScanInd, ScanTypes
  <1>2. report[r].labels = <<>> /\ reports' \in 0..MaxReports
    BY <1>1 DEF ReportFits, ScanTypes
  <1>3. CASE report[r].key = key
    <2> DEFINE o == report[r]
    <2> PICK k : k = [o EXCEPT !.step = "alerts"]
      OBVIOUS
    <2>1. report' = [report EXCEPT ![r] = k] /\ cut' = cut
          /\ lateKeys' = IF retired[key] = NoTime THEN lateKeys ELSE lateKeys \cup {scanNow - retired[key]}
      BY <1>3 DEF Verified
    <2>2. o \in ReportRecs /\ o.labels = <<>>
      BY <1>1, <1>2
    <2> HIDE DEF o
    <2>3. k \in ReportRecs /\ k.step = "alerts" /\ k.labels = <<>>
      BY <2>2 DEF ReportRecs
    <2>4. LabelsOf(k) = {}
      BY <2>3 DEF LabelsOf
    <2>5. ReportFits(k)'
      BY <2>3, <2>4 DEF ReportFits, LabelsOf
    <2>6. KeysFit'
      <3>1. ReplacedKeyRefused'
        BY <1>1, <2>1 DEF KeysFit, ReplacedKeyRefused
      <3> QED
        BY <1>1, <3>1 DEF KeysFit, NotReplaced
    <2>7. cut \subseteq cut' /\ cut' \subseteq Secrets
      BY <1>1, <2>1 DEF ScanTypes
    <2> QED
      BY <1>2, <2>1, <2>3, <2>5, <2>6, <2>7, ReportSteps
  <1>4. CASE report[r].key # key
    <2>1. /\ report' = [report EXCEPT ![r] = NoReport] /\ lateKeys' = lateKeys
          /\ cut' = cut \cup {report[r].tokens[i] : i \in 1..Len(report[r].tokens)}
      BY <1>4 DEF Verified
    <2>2. {report[r].tokens[i] : i \in 1..Len(report[r].tokens)} \subseteq Secrets
      BY <1>1 DEF ReportRecs
    <2>3. cut \subseteq cut' /\ cut' \subseteq Secrets
      BY <1>1, <2>1, <2>2 DEF ScanTypes
    <2>4. ReportFits(NoReport)'
      BY NoReportRecord DEF ReportFits, LabelsOf
    <2>5. KeysFit'
      <3>1. ReplacedKeyRefused'
        BY <1>1, <2>1 DEF KeysFit, ReplacedKeyRefused
      <3> QED
        BY <1>1, <3>1 DEF KeysFit, NotReplaced
    <2> QED
      BY <1>2, <2>1, <2>3, <2>4, <2>5, NoReportRecord, ReportSteps
  <1> QED
    BY <1>3, <1>4

LEMMA GetKeysInd ==
  ASSUME ScanInd, NEW r \in Reports, GetKeys(r)
  PROVE  ScanInd'
  <1>1. /\ report[r].step = "verify" /\ ScanUnlocked
        /\ UNCHANGED <<known, scanNow, currentKey, retired, cachedKey, cachedAt, valid, reports, mails, answers, clash>>
    BY DEF GetKeys
  <1>2. ScanTypes /\ ReportFits(report[r]) /\ KeysFit /\ report[r] \in ReportRecs
    BY DEF ScanInd, ScanTypes
  <1>3. CASE CacheValid /\ Verified(r, cachedKey)
    <2>1. /\ cachedAt # NoTime /\ scanNow < cachedAt + KeyLifetime
          /\ cachedAt =< scanNow /\ NotReplaced(cachedKey, cachedAt - MaxFetchTicks)
      BY <1>2, <1>3 DEF CacheValid, KeysFit
    <2>2. retired[cachedKey] # NoTime => scanNow - retired[cachedKey] < KeyLifetime + MaxFetchTicks
      <3>1. cachedKey \in Keys /\ scanNow \in Nat /\ cachedAt \in Nat
        BY <1>2, <2>1, SecretScanningAssumption DEF ScanTypes, NotReplaced, NoTime
      <3>2. retired[cachedKey] \in {NoTime} \cup 0..MaxScanNow
        BY <1>2, <3>1 DEF ScanTypes
      <3> QED
        BY <2>1, <3>1, <3>2, SecretScanningAssumption DEF NotReplaced
    <2> QED
      BY <1>1, <1>2, <1>3, <2>1, <2>2, VerifiedInd DEF ScanTypes
  <1>4. CASE ~ CacheValid /\ report' = [report EXCEPT ![r].step = "fetch", ![r].fetched = 0, ![r].since = scanNow]
              /\ UNCHANGED <<lateKeys, cut>>
    <2> DEFINE o == report[r]
               now == scanNow
    <2> PICK k : k = [o EXCEPT !.step = "fetch", !.fetched = 0, !.since = now]
      OBVIOUS
    <2>1. report' = [report EXCEPT ![r] = k]
      BY <1>2, <1>4
    <2>2. o \in ReportRecs /\ o.labels = <<>> /\ now \in 0..MaxScanNow
      BY <1>1, <1>2 DEF ReportFits, ScanTypes
    <2>0. scanNow = now /\ scanNow' = now
      BY <1>1
    <2> HIDE DEF o, now
    <2>3. k \in ReportRecs /\ k.step = "fetch" /\ k.labels = <<>> /\ k.fetched = 0 /\ k.since = now
      BY <2>2 DEF ReportRecs
    <2>4. LabelsOf(k) = {}
      BY <2>3 DEF LabelsOf
    <2>5. now =< now + MaxFetchTicks
      BY <2>2, SecretScanningAssumption
    <2>6. ReportFits(k)'
      BY <2>0, <2>2, <2>3, <2>4, <2>5 DEF ReportFits, LabelsOf
    <2>7. KeysFit'
      BY <1>1, <1>2, <1>4, KeysOn
    <2>8. report[r].labels = <<>>
      BY <2>2 DEF o
    <2> QED
      BY <1>1, <1>2, <1>4, <2>1, <2>3, <2>6, <2>7, <2>8, ReportSteps DEF ScanTypes
  <1> QED
    BY <1>3, <1>4 DEF GetKeys


LEMMA KeysSentInd ==
  ASSUME ScanInd, NEW r \in Reports, KeysSent(r)
  PROVE  ScanInd'
  <1> DEFINE h == report[r]
             key == currentKey
  <1> PICK k : k = [h EXCEPT !.fetched = key]
    OBVIOUS
  <1>1. /\ h.step = "fetch" /\ report' = [report EXCEPT ![r] = k]
        /\ UNCHANGED <<known, scanNow, currentKey, retired, cachedKey, cachedAt, valid, reports, mails, answers, clash, cut, lateKeys>>
    BY DEF KeysSent
  <1>2. ScanTypes /\ ReportFits(h) /\ KeysFit /\ h \in ReportRecs /\ key \in Keys
    BY DEF ScanInd, ScanTypes
  <1>3. retired[key] = NoTime
    BY <1>2 DEF KeysFit, Keys
  <1>4. report[r].step = "fetch" /\ report[r].labels = <<>>
    BY <1>1, <1>2 DEF ReportFits
  <1> HIDE DEF key
  <1>6. k \in ReportRecs /\ k.step = "fetch" /\ k.labels = h.labels /\ k.fetched = key /\ k.since = h.since
    BY <1>1, <1>2 DEF ReportRecs
  <1>7. h.labels = <<>> /\ h.since =< scanNow /\ scanNow =< h.since + MaxFetchTicks
    BY <1>1, <1>2 DEF ReportFits
  <1>8. NotReplaced(k.fetched, k.since)'
    <2>1. retired' = retired /\ NotReplaced(key, h.since)
      BY <1>1, <1>2, <1>3 DEF NotReplaced
    <2> QED
      BY <1>6, <2>1 DEF NotReplaced
  <1>9. LabelsOf(k) = {}
    BY <1>6, <1>7 DEF LabelsOf
  <1>10. ReportFits(k)'
    <2>1. scanNow' = scanNow
      BY <1>1
    <2> HIDE DEF h
    <2> QED
      BY <1>6, <1>7, <1>8, <1>9, <2>1 DEF ReportFits, LabelsOf
  <1>11. KeysFit'
    BY <1>1, <1>2, KeysOn
  <1>12. cut \subseteq cut' /\ cut' \subseteq Secrets
    BY <1>1, <1>2 DEF ScanTypes
  <1> QED
    BY <1>1, <1>2, <1>4, <1>6, <1>10, <1>11, <1>12, ReportSteps DEF ScanTypes

LEMMA KeysArriveInd ==
  ASSUME ScanInd, NEW r \in Reports, KeysArrive(r)
  PROVE  ScanInd'
  <1> PICK key : key = report[r].fetched
    OBVIOUS
  <1>1. /\ report[r].step = "fetch" /\ key # 0 /\ cachedKey' = key /\ cachedAt' = scanNow /\ Verified(r, key)
        /\ UNCHANGED <<known, scanNow, currentKey, retired, valid, reports, mails, answers, clash>>
    BY DEF KeysArrive
  <1>2. ScanTypes /\ ReportFits(report[r]) /\ report[r] \in ReportRecs
    BY DEF ScanInd, ScanTypes
  <1>3. /\ NotReplaced(key, report[r].since) /\ scanNow =< report[r].since + MaxFetchTicks
        /\ report[r].since \in Nat /\ scanNow \in 0..MaxScanNow
    BY <1>1, <1>2, SecretScanningAssumption DEF ReportFits, ReportRecs, ScanTypes
  <1>4. key \in Keys /\ (retired[key] # NoTime => retired[key] \in Nat /\ retired[key] >= report[r].since)
    BY <1>2, <1>3, SecretScanningAssumption DEF NotReplaced, ScanTypes
  <1>5. retired[key] # NoTime => retired[key] >= scanNow - MaxFetchTicks
                                 /\ scanNow - retired[key] < KeyLifetime + MaxFetchTicks
    BY <1>3, <1>4, SecretScanningAssumption
  <1>6. cachedAt' # NoTime => cachedAt' =< scanNow /\ NotReplaced(cachedKey', cachedAt' - MaxFetchTicks)
    BY <1>1, <1>3, <1>4, <1>5 DEF NotReplaced
  <1> QED
    BY <1>1, <1>3, <1>4, <1>5, <1>6, VerifiedInd

\* A request with one more label.
LEMMA LabelledReport ==
  ASSUME NEW h \in ReportRecs, h.tokens # <<>>, NEW l \in BOOLEAN,
         NEW k, k = [h EXCEPT !.step = "alerts", !.tokens = Tail(h.tokens), !.labels = Append(h.labels, <<Head(h.tokens), l>>)]
  PROVE  /\ k \in ReportRecs /\ k.step = "alerts"
         /\ LabelsOf(k) = LabelsOf(h) \cup {<<Head(h.tokens), l>>}
  <1> DEFINE t == Head(h.tokens)
             tokens == Tail(h.tokens)
             labels == Append(h.labels, <<t, l>>)
  <1>1. h.tokens \in Seq(Secrets) /\ h.labels \in Seq(Labels)
    BY DEF ReportRecs
  <1>2. t \in Secrets /\ tokens \in Seq(Secrets)
    BY <1>1
  <1>3. <<t, l>> \in Labels
    BY <1>2 DEF Labels
  <1>4. /\ labels \in Seq(Labels) /\ Len(labels) = Len(h.labels) + 1 /\ labels[Len(h.labels) + 1] = <<t, l>>
        /\ \A i \in 1..Len(h.labels) : labels[i] = h.labels[i]
    BY <1>1, <1>3
  <1>5. {labels[i] : i \in 1..Len(labels)} = {h.labels[i] : i \in 1..Len(h.labels)} \cup {<<t, l>>}
    <2> PICK n : n = Len(h.labels)
      OBVIOUS
    <2> PICK x : x = <<t, l>>
      OBVIOUS
    <2>1. n \in Nat /\ 1..(n + 1) = (1..n) \cup {n + 1}
      BY <1>1
    <2>2. Len(labels) = n + 1 /\ labels[n + 1] = x /\ \A i \in 1..n : labels[i] = h.labels[i]
      BY <1>4
    <2> HIDE DEF labels, t
    <2>3. {labels[i] : i \in (1..n) \cup {n + 1}} = {h.labels[i] : i \in 1..n} \cup {x}
      BY <2>2
    <2> QED
      BY <2>1, <2>2, <2>3
  <1> HIDE DEF tokens, labels
  <1>6. k \in ReportRecs /\ k.step = "alerts" /\ k.labels = labels
    <2>0. tokens \in Seq(Secrets) /\ labels \in Seq(Labels)
      BY <1>2, <1>4
    <2>1. k = [h EXCEPT !.step = "alerts", !.tokens = tokens, !.labels = labels]
      BY DEF tokens, labels
    <2> QED
      BY <2>0, <2>1 DEF ReportRecs
  <1> QED
    BY <1>5, <1>6 DEF LabelsOf

\* A request labels its first token, with what is true of it.
LEMMA LabelledFits ==
  ASSUME ScanInd, NEW r \in Reports, report[r].tokens # <<>>, NEW l \in BOOLEAN,
         NEW k, k = [report[r] EXCEPT !.step = "alerts", !.tokens = Tail(report[r].tokens),
                                      !.labels = Append(report[r].labels, <<First(r), l>>)],
         UNCHANGED <<known, valid, scanNow, retired>>, LabelIsTrue(First(r), l)
  PROVE  k \in ReportRecs /\ k.step = "alerts" /\ LabelsOf(k) = LabelsOf(report[r]) \cup {<<First(r), l>>} /\ ReportFits(k)'
  <1>1. report[r] \in ReportRecs /\ ReportFits(report[r])
    BY DEF ScanInd, ScanTypes
  <1>2. k \in ReportRecs /\ k.step = "alerts" /\ LabelsOf(k) = LabelsOf(report[r]) \cup {<<First(r), l>>}
    BY <1>1, LabelledReport DEF First
  <1>3. ReportFits(k)
    <2>1. ASSUME NEW t \in Secrets, NEW m \in BOOLEAN, <<t, m>> \in LabelsOf(k) PROVE LabelIsTrue(t, m)
      <3>1. CASE <<t, m>> \in LabelsOf(report[r])
        BY <1>1, <3>1 DEF ReportFits
      <3>2. CASE <<t, m>> = <<First(r), l>>
        <4>1. t = First(r) /\ m = l
          BY <3>2
        <4> QED
          BY <4>1
      <3> QED
        BY <1>2, <2>1, <3>1, <3>2
    <2> QED
      BY <1>2, <2>1 DEF ReportFits
  <1>4. ReportFits(k)'
    BY <1>3, FitsOn
  <1> QED
    BY <1>2, <1>4


\* A token that a request labels without doing anything about it.
LEMMA OnlyLabelled ==
  ASSUME ScanInd, NEW r \in Reports, report[r].step = "alerts", report[r].tokens # <<>>, NEW l \in BOOLEAN,
         Labelled(r, l), LabelIsTrue(First(r), l), clash \subseteq clash', clash' \subseteq ApiSecrets,
         UNCHANGED <<known, scanNow, currentKey, retired, cachedKey, cachedAt, valid, reports, mails, answers, cut, lateKeys>>
  PROVE  ScanInd'
  <1> PICK k : k = [report[r] EXCEPT !.step = "alerts", !.tokens = Tail(report[r].tokens),
                                     !.labels = Append(report[r].labels, <<First(r), l>>)]
    OBVIOUS
  <1>1. ScanTypes /\ KeysFit
    BY DEF ScanInd
  <1>2. report' = [report EXCEPT ![r] = k]
    BY <1>1 DEF Labelled, ScanTypes
  <1>3. k \in ReportRecs /\ k.step = "alerts" /\ LabelsOf(k) = LabelsOf(report[r]) \cup {<<First(r), l>>} /\ ReportFits(k)'
    BY LabelledFits
  <1>4. ASSUME NEW t \in Secrets PROVE TokenFits(t)'
    BY <1>2, <1>3, TokenOn DEF Works
  <1>5. KeysFit'
    BY <1>1, KeysOn
  <1> QED
    BY <1>1, <1>2, <1>3, <1>4, <1>5, ReportMoves DEF ScanTypes

LEMMA RevokePubInd ==
  ASSUME ScanInd, NEW r \in Reports, RevokePub(r)
  PROVE  ScanInd'
  <1> PICK h : h = report[r]
    OBVIOUS
  <1> PICK t0 : t0 = First(r)
    OBVIOUS
  <1>1. /\ h.step = "alerts" /\ h.tokens # <<>> /\ t0 \in PubSecrets /\ valid' = valid \ {t0}
        /\ UNCHANGED <<known, scanNow, currentKey, retired, cachedKey, cachedAt, reports, mails, answers, clash, cut, lateKeys>>
    BY DEF RevokePub
  <1>2. ScanTypes /\ KeysFit /\ h \in ReportRecs /\ ReportFits(h) /\ t0 \in Secrets /\ t0 \notin ApiSecrets
    BY <1>1, SecretScanningAssumption DEF ScanInd, ScanTypes, Secrets
  <1>3. KeysFit'
    BY <1>1, <1>2, KeysOn
  <1>4. CASE t0 \in valid
    <2> PICK k : k = [h EXCEPT !.step = "mail"]
      OBVIOUS
    <2>1. report' = [report EXCEPT ![r] = k]
      BY <1>2, <1>4 DEF RevokePub, ScanTypes
    <2>2. k \in ReportRecs /\ k.step = "mail" /\ k.tokens = h.tokens /\ k.labels = h.labels
      BY <1>2 DEF ReportRecs
    <2>3. LabelsOf(k) = LabelsOf(h)
      BY <2>2 DEF LabelsOf
    <2>4. ReportFits(k)'
      <3>1. \A t, l : LabelIsTrue(t, l) => LabelIsTrue(t, l)'
        BY <1>1 DEF LabelIsTrue
      <3>2. LabelsOf(k)' = LabelsOf(h)
        BY <2>3 DEF LabelsOf
      <3>3. Head(k.tokens) \in known' \ valid'
        BY <1>1, <1>2, <1>4, <2>2 DEF ScanTypes, First
      <3>4. \A t \in Secrets, l \in BOOLEAN : <<t, l>> \in LabelsOf(k)' => LabelIsTrue(t, l)'
        BY <1>2, <3>1, <3>2 DEF ReportFits
      <3> QED
        BY <1>1, <2>2, <3>3, <3>4 DEF ReportFits
    <2>5. TokenFits(t0)'
      <3>1. TokenFits(t0) /\ OneMail(t0)
        BY <1>2 DEF ScanInd, ScanTypes, TokenFits
      <3>2. \A q \in Reports : ~ Works(report[q], t0)
        BY <1>2, <1>4 DEF ScanInd, ReportFits, Works
      <3>3. report'[r] = k /\ Works(k, t0) /\ \A q \in Reports : q # r => report'[q] = report[q]
        BY <1>2, <2>1, <2>2 DEF ScanTypes, Works, First
      <3>4. OneMail(t0)'
        BY <1>1, <1>4, <2>2, <3>1, <3>2, <3>3 DEF OneMail, Works
      <3>5. OnItsWay(t0)'
        BY <2>2, <3>3 DEF OnItsWay, Works
      <3>6. \A l \in answers'[t0] : LabelIsTrue(t0, l)'
        BY <1>1, <3>1 DEF TokenFits, LabelIsTrue
      <3> QED
        BY <3>4, <3>5, <3>6 DEF TokenFits
    <2>6. ASSUME NEW t \in Secrets, t # t0 PROVE TokenFits(t)'
      <3>1. ~ Works(k, t)
        BY <2>2, <2>6 DEF Works, First
      <3>2. t \in valid => t \in valid'
        BY <1>1, <2>6
      <3> QED
        BY <1>1, <2>1, <2>2, <2>3, <3>1, <3>2, TokenOn
    <2>7. \A t \in Secrets : TokenFits(t)'
      BY <2>5, <2>6
    <2>8. valid' \subseteq valid
      BY <1>1
    <2> QED
      BY <1>1, <1>2, <1>3, <2>1, <2>2, <2>4, <2>7, <2>8, ReportMoves DEF ScanTypes
  <1>5. CASE t0 \notin valid
    <2>1. Labelled(r, FALSE) /\ valid' = valid
      BY <1>1, <1>5 DEF RevokePub
    <2>2. LabelIsTrue(t0, FALSE)
      BY <1>2, <1>5 DEF LabelIsTrue
    <2>3. clash \subseteq clash' /\ clash' \subseteq ApiSecrets
      BY <1>1, <1>2 DEF ScanTypes
    <2> QED
      BY <1>1, <2>1, <2>2, <2>3, OnlyLabelled
  <1> QED
    BY <1>4, <1>5


LEMMA ReadApiTokenInd ==
  ASSUME ScanInd, NEW r \in Reports, ReadApiToken(r)
  PROVE  ScanInd'
  <1> PICK h : h = report[r]
    OBVIOUS
  <1> PICK t0 : t0 = First(r)
    OBVIOUS
  <1>1. /\ h.step = "alerts" /\ h.tokens # <<>> /\ t0 \in ApiSecrets
        /\ clash' = IF \E q \in Reports \ {r} : report[q].step = "revoke" /\ First(q) = t0 THEN clash \cup {t0} ELSE clash
        /\ UNCHANGED <<known, scanNow, currentKey, retired, cachedKey, cachedAt, valid, reports, mails, answers, cut, lateKeys>>
    BY DEF ReadApiToken
  <1>2. ScanTypes /\ KeysFit /\ h \in ReportRecs /\ ReportFits(h) /\ t0 \in Secrets /\ t0 \notin PubSecrets
    BY <1>1, SecretScanningAssumption DEF ScanInd, ScanTypes, Secrets
  <1>3. clash \subseteq clash' /\ clash' \subseteq ApiSecrets
    BY <1>1, <1>2 DEF ScanTypes
  <1>4. CASE t0 \in valid
    <2> PICK k : k = [h EXCEPT !.step = "revoke"]
      OBVIOUS
    <2>1. report' = [report EXCEPT ![r] = k]
      BY <1>2, <1>4 DEF ReadApiToken, ScanTypes
    <2>2. k \in ReportRecs /\ k.step = "revoke" /\ k.tokens = h.tokens /\ k.labels = h.labels
      BY <1>2 DEF ReportRecs
    <2>3. LabelsOf(k) = LabelsOf(h)
      BY <2>2 DEF LabelsOf
    <2>4. Head(k.tokens) \in ApiSecrets \cap known
      BY <1>1, <1>2, <1>4, <2>2 DEF ScanTypes, First
    <2>5. ReportFits(k)
      BY <1>1, <1>2, <2>2, <2>3, <2>4 DEF ReportFits
    <2>6. ReportFits(k)'
      BY <1>1, <2>5, FitsOn
    <2>7. TokenFits(t0)'
      <3>1. TokenFits(t0) /\ \A q \in Reports : ReportFits(report[q])
        BY <1>2 DEF ScanInd
      <3>2. report'[r] = k /\ Works(k, t0) /\ \A q \in Reports : q # r => report'[q] = report[q]
        BY <1>2, <2>1, <2>2 DEF ScanTypes, Works, First
      <3>3. t0 \notin clash' => OneMail(t0)'
        <4> SUFFICES ASSUME t0 \notin clash' PROVE OneMail(t0)'
          OBVIOUS
        <4>1. OneMail(t0)
          BY <1>3, <3>1 DEF TokenFits
        <4>2. \A q \in Reports : q # r => ~ Works(report[q], t0)
          BY <1>1, <1>4, <3>1 DEF ReportFits, Works, First
        <4> QED
          BY <1>1, <1>4, <3>2, <4>1, <4>2 DEF OneMail
      <3>4. \A l \in answers'[t0] : LabelIsTrue(t0, l)'
        BY <1>1, <3>1 DEF TokenFits, LabelIsTrue
      <3> QED
        BY <1>2, <3>3, <3>4 DEF TokenFits
    <2>8. ASSUME NEW t \in Secrets, t # t0 PROVE TokenFits(t)'
      <3>1. ~ Works(k, t)
        BY <2>2, <2>8 DEF Works, First
      <3> QED
        BY <1>1, <1>3, <2>1, <2>2, <2>3, <3>1, TokenOn
    <2>9. \A t \in Secrets : TokenFits(t)'
      BY <2>7, <2>8
    <2>10. KeysFit'
      BY <1>1, <1>2, KeysOn
    <2> QED
      BY <1>1, <1>2, <1>3, <2>1, <2>2, <2>6, <2>9, <2>10, ReportMoves DEF ScanTypes
  <1>5. CASE t0 \notin valid
    <2>1. Labelled(r, t0 \in known)
      BY <1>1, <1>5 DEF ReadApiToken
    <2>2. LabelIsTrue(t0, t0 \in known) /\ (t0 \in known) \in BOOLEAN
      BY <1>5 DEF LabelIsTrue
    <2> QED
      BY <1>1, <1>3, <2>1, <2>2, OnlyLabelled
  <1> QED
    BY <1>4, <1>5

LEMMA RevokeApiInd ==
  ASSUME ScanInd, NEW r \in Reports, RevokeApi(r)
  PROVE  ScanInd'
  <1> PICK h : h = report[r]
    OBVIOUS
  <1> PICK t0 : t0 = First(r)
    OBVIOUS
  <1> PICK k : k = [h EXCEPT !.step = "mail"]
    OBVIOUS
  <1>1. /\ h.step = "revoke" /\ valid' = valid \ {t0}
        /\ UNCHANGED <<known, scanNow, currentKey, retired, cachedKey, cachedAt, reports, mails, answers, clash, cut, lateKeys>>
    BY DEF RevokeApi
  <1>2. ScanTypes /\ KeysFit /\ h \in ReportRecs /\ ReportFits(h)
    BY DEF ScanInd, ScanTypes
  <1>3. t0 \in ApiSecrets \cap known /\ h.tokens # <<>> /\ t0 \in Secrets /\ t0 \notin PubSecrets
    BY <1>1, <1>2, SecretScanningAssumption DEF ReportFits, First, Secrets
  <1>4. report' = [report EXCEPT ![r] = k]
    BY <1>2 DEF RevokeApi, ScanTypes
  <1>5. k \in ReportRecs /\ k.step = "mail" /\ k.tokens = h.tokens /\ k.labels = h.labels
    BY <1>2 DEF ReportRecs
  <1>6. LabelsOf(k) = LabelsOf(h)
    BY <1>5 DEF LabelsOf
  <1>7. ReportFits(k)'
    <2>1. \A t, l : LabelIsTrue(t, l) => LabelIsTrue(t, l)'
      BY <1>1 DEF LabelIsTrue
    <2>2. LabelsOf(k)' = LabelsOf(h)
      BY <1>6 DEF LabelsOf
    <2>3. Head(k.tokens) \in known' \ valid'
      BY <1>1, <1>3, <1>5 DEF First
    <2>4. \A t \in Secrets, l \in BOOLEAN : <<t, l>> \in LabelsOf(k)' => LabelIsTrue(t, l)'
      BY <1>2, <2>1, <2>2 DEF ReportFits
    <2> QED
      BY <1>3, <1>5, <2>3, <2>4 DEF ReportFits
  <1>8. TokenFits(t0)'
    <2>1. TokenFits(t0)
      BY <1>3 DEF ScanInd
    <2>2. /\ report'[r] = k /\ Works(k, t0) /\ Works(report[r], t0)
          /\ \A q \in Reports : q # r => report'[q] = report[q]
      BY <1>1, <1>2, <1>4, <1>5 DEF ScanTypes, Works, First
    <2>3. t0 \notin clash' => OneMail(t0)'
      <3> SUFFICES ASSUME t0 \notin clash' PROVE OneMail(t0)'
        OBVIOUS
      <3>1. OneMail(t0)
        BY <1>1, <2>1 DEF TokenFits
      <3>2. \A q \in Reports : q # r => ~ Works(report[q], t0)
        BY <2>2, <3>1 DEF OneMail
      <3> QED
        BY <1>1, <1>5, <2>2, <3>1, <3>2 DEF OneMail
    <2>4. \A l \in answers'[t0] : LabelIsTrue(t0, l)'
      BY <1>1, <2>1 DEF TokenFits, LabelIsTrue
    <2> QED
      BY <1>3, <2>3, <2>4 DEF TokenFits
  <1>9. ASSUME NEW t \in Secrets, t # t0 PROVE TokenFits(t)'
    <2>1. ~ Works(k, t)
      BY <1>5, <1>9 DEF Works, First
    <2>2. (t \in valid => t \in valid') /\ report[r].step # "mail"
      BY <1>1, <1>9
    <2> QED
      BY <1>1, <1>4, <1>5, <1>6, <2>1, <2>2, TokenOn
  <1>10. \A t \in Secrets : TokenFits(t)'
    BY <1>8, <1>9
  <1>11. KeysFit' /\ valid' \subseteq valid
    BY <1>1, <1>2, KeysOn
  <1> QED
    BY <1>1, <1>2, <1>4, <1>5, <1>7, <1>10, <1>11, ReportMoves DEF ScanTypes

LEMMA SendAlertMailInd ==
  ASSUME ScanInd, NEW r \in Reports, SendAlertMail(r)
  PROVE  ScanInd'
  <1> PICK h : h = report[r]
    OBVIOUS
  <1> PICK t0 : t0 = First(r)
    OBVIOUS
  <1> PICK k : k = [h EXCEPT !.step = "alerts", !.tokens = Tail(h.tokens), !.labels = Append(h.labels, <<t0, TRUE>>)]
    OBVIOUS
  <1>1. /\ h.step = "mail" /\ mails' = [mails EXCEPT ![t0] = @ + 1]
        /\ UNCHANGED <<known, scanNow, currentKey, retired, cachedKey, cachedAt, valid, reports, answers, clash, cut, lateKeys>>
    BY DEF SendAlertMail
  <1>2. ScanTypes /\ KeysFit /\ h \in ReportRecs /\ ReportFits(h)
    BY DEF ScanInd, ScanTypes
  <1>3. t0 \in known \ valid /\ h.tokens # <<>> /\ t0 \in Secrets
    BY <1>1, <1>2 DEF ReportFits, First, ScanTypes
  <1>4. report' = [report EXCEPT ![r] = k]
    BY <1>2 DEF SendAlertMail, Labelled, ScanTypes
  <1>5. k \in ReportRecs /\ k.step = "alerts" /\ LabelsOf(k) = LabelsOf(h) \cup {<<t0, TRUE>>} /\ ReportFits(k)'
    <2>1. LabelIsTrue(t0, TRUE)
      BY <1>3 DEF LabelIsTrue
    <2> QED
      BY <1>1, <1>3, <2>1, LabelledFits
  <1>6. mails' \in [Secrets -> Nat] /\ mails'[t0] = mails[t0] + 1 /\ \A t \in Secrets : t # t0 => mails'[t] = mails[t]
    BY <1>1, <1>2, <1>3 DEF ScanTypes
  <1>7. TokenFits(t0)'
    <2>1. TokenFits(t0)
      BY <1>3 DEF ScanInd
    <2>2. /\ report'[r] = k /\ ~ Works(k, t0) /\ Works(report[r], t0)
          /\ \A q \in Reports : q # r => report'[q] = report[q]
      BY <1>1, <1>2, <1>4, <1>5 DEF ScanTypes, Works, First
    <2>3. t0 \notin clash => OneMail(t0)' /\ mails'[t0] = 1
      <3> SUFFICES ASSUME t0 \notin clash PROVE OneMail(t0)' /\ mails'[t0] = 1
        OBVIOUS
      <3>1. OneMail(t0)
        BY <2>1 DEF TokenFits
      <3>2. mails[t0] = 0 /\ \A q \in Reports : q # r => ~ Works(report[q], t0)
        BY <2>2, <3>1 DEF OneMail
      <3>3. mails'[t0] = 1
        BY <1>6, <3>2
      <3> QED
        BY <1>1, <1>3, <2>2, <3>2, <3>3 DEF OneMail
    <2>4. t0 \in PubSecrets => OnItsWay(t0)'
      <3> SUFFICES ASSUME t0 \in PubSecrets PROVE OnItsWay(t0)'
        OBVIOUS
      <3>1. t0 \notin clash
        BY <1>2, SecretScanningAssumption DEF ScanTypes
      <3>2. <<t0, TRUE>> \in LabelsOf(report'[r])
        BY <1>5, <2>2
      <3> QED
        BY <2>3, <3>1, <3>2 DEF OnItsWay, LabelsOf
    <2>5. \A l \in answers'[t0] : LabelIsTrue(t0, l)'
      BY <1>1, <2>1 DEF TokenFits, LabelIsTrue
    <2> QED
      BY <1>1, <2>3, <2>4, <2>5 DEF TokenFits
  <1>8. ASSUME NEW t \in Secrets, t # t0 PROVE TokenFits(t)'
    <2>1. ~ Works(k, t) /\ Head(report[r].tokens) # t
      BY <1>5, <1>8 DEF Works, First
    <2>2. <<t, TRUE>> \in LabelsOf(report[r]) => <<t, TRUE>> \in LabelsOf(k)
      BY <1>5
    <2> QED
      BY <1>1, <1>4, <1>5, <1>6, <1>8, <2>1, <2>2, TokenOn
  <1>9. \A t \in Secrets : TokenFits(t)'
    BY <1>7, <1>8
  <1>10. KeysFit'
    BY <1>1, <1>2, KeysOn
  <1> QED
    BY <1>1, <1>2, <1>4, <1>5, <1>6, <1>9, <1>10, ReportMoves DEF ScanTypes


\* A request that ends leaves nothing behind.
LEMMA NoReportFits ==
  ASSUME ScanInd
  PROVE  ReportFits(NoReport)' /\ \A t : ~ Works(NoReport, t)
  BY NoReportRecord DEF ReportFits, LabelsOf, Works

LEMMA AnswerReportInd ==
  ASSUME ScanInd, NEW r \in Reports, AnswerReport(r)
  PROVE  ScanInd'
  <1> PICK h : h = report[r]
    OBVIOUS
  <1> DEFINE heard(t) == {h.labels[i][2] : i \in {j \in 1..Len(h.labels) : h.labels[j][1] = t}}
  <1>1. /\ h.step = "alerts" /\ report' = [report EXCEPT ![r] = NoReport]
        /\ answers' = [t \in Secrets |-> answers[t] \cup heard(t)]
        /\ UNCHANGED <<known, scanNow, currentKey, retired, cachedKey, cachedAt, valid, reports, mails, clash, cut, lateKeys>>
    BY DEF AnswerReport
  <1>2. ScanTypes /\ KeysFit /\ h \in ReportRecs /\ ReportFits(h)
    BY DEF ScanInd, ScanTypes
  <1>3. ASSUME NEW t \in Secrets PROVE heard(t) = {l \in BOOLEAN : <<t, l>> \in LabelsOf(h)}
    <2>1. \A i \in 1..Len(h.labels) : h.labels[i] \in Labels
      BY <1>2 DEF ReportRecs
    <2>2. \A x \in Labels : x = <<x[1], x[2]>> /\ x[2] \in BOOLEAN
      BY DEF Labels
    <2>3. ASSUME NEW l \in heard(t) PROVE l \in BOOLEAN /\ <<t, l>> \in LabelsOf(h)
      <3>1. PICK i \in 1..Len(h.labels) : h.labels[i][1] = t /\ h.labels[i][2] = l
        BY <2>3
      <3>2. h.labels[i] = <<t, l>> /\ l \in BOOLEAN
        BY <2>1, <2>2, <3>1
      <3> QED
        BY <3>2 DEF LabelsOf
    <2>4. ASSUME NEW l \in BOOLEAN, <<t, l>> \in LabelsOf(h) PROVE l \in heard(t)
      <3>1. PICK i \in 1..Len(h.labels) : h.labels[i] = <<t, l>>
        BY <2>4 DEF LabelsOf
      <3>2. h.labels[i][1] = t /\ h.labels[i][2] = l
        BY <3>1
      <3> QED
        BY <3>2
    <2> HIDE DEF heard
    <2> QED
      BY <2>3, <2>4
  <1> HIDE DEF heard
  <1>4. answers' \in [Secrets -> SUBSET BOOLEAN] /\ \A t \in Secrets : answers'[t] = answers[t] \cup heard(t)
    BY <1>1, <1>2, <1>3 DEF ScanTypes
  <1>5. report'[r] = NoReport /\ \A q \in Reports : q # r => report'[q] = report[q]
    BY <1>1, <1>2 DEF ScanTypes
  <1>6. ASSUME NEW t \in Secrets PROVE TokenFits(t)'
    <2>1. TokenFits(t) /\ ~ Works(NoReport, t)
      BY NoReportFits DEF ScanInd
    <2>2. t \notin clash' => OneMail(t)'
      BY <1>1, <1>5, <2>1 DEF TokenFits, OneMail, Works
    <2>3. t \in (known' \cap PubSecrets) \ (cut' \cup valid') => OnItsWay(t)'
      <3> SUFFICES ASSUME t \in (known' \cap PubSecrets) \ (cut' \cup valid') PROVE OnItsWay(t)'
        OBVIOUS
      <3>1. OnItsWay(t)
        BY <1>1, <2>1 DEF TokenFits
      <3>2. <<t, TRUE>> \in LabelsOf(h) => TRUE \in answers'[t]
        BY <1>3, <1>4
      <3>3. TRUE \in answers[t] => TRUE \in answers'[t]
        BY <1>4
      <3>4. CASE \E q \in Reports : report[q].step = "mail" /\ Head(report[q].tokens) = t
        BY <1>1, <1>5, <3>4 DEF OnItsWay
      <3>5. CASE mails[t] = 1 /\ (TRUE \in answers[t] \/ \E q \in Reports : <<t, TRUE>> \in LabelsOf(report[q]))
        <4>1. mails'[t] = 1
          BY <1>1, <3>5
        <4>2. CASE TRUE \in answers[t]
          BY <3>3, <4>1, <4>2 DEF OnItsWay
        <4>3. ASSUME NEW q \in Reports, <<t, TRUE>> \in LabelsOf(report[q]) PROVE OnItsWay(t)'
          BY <1>5, <3>2, <4>1, <4>3 DEF OnItsWay, LabelsOf
        <4> QED
          BY <3>5, <4>2, <4>3
      <3> QED
        BY <3>1, <3>4, <3>5 DEF OnItsWay
    <2>4. ASSUME NEW l \in answers'[t] PROVE LabelIsTrue(t, l)'
      <3>1. LabelIsTrue(t, l)
        BY <1>2, <1>3, <1>4, <2>1, <2>4 DEF TokenFits, ReportFits
      <3> QED
        BY <1>1, <3>1 DEF LabelIsTrue
    <2> QED
      BY <2>2, <2>3, <2>4 DEF TokenFits
  <1>7. KeysFit' /\ valid' \subseteq valid
    BY <1>1, <1>2, KeysOn
  <1> QED
    BY <1>1, <1>2, <1>4, <1>6, <1>7, NoReportRecord, NoReportFits, ReportMoves DEF ScanTypes

LEMMA ReportCutInd ==
  ASSUME ScanInd, NEW r \in Reports, ReportCut(r)
  PROVE  ScanInd'
  <1> PICK h : h = report[r]
    OBVIOUS
  <1> DEFINE cutOff == {h.tokens[i] : i \in 1..Len(h.tokens)}
             labelled == {h.labels[i][1] : i \in 1..Len(h.labels)}
  <1>1. /\ cut' = cut \cup cutOff \cup labelled /\ report' = [report EXCEPT ![r] = NoReport]
        /\ UNCHANGED <<known, scanNow, currentKey, retired, cachedKey, cachedAt, valid, reports, mails, answers, clash, lateKeys>>
    BY DEF ReportCut
  <1>2. ScanTypes /\ KeysFit /\ h \in ReportRecs /\ ReportFits(h)
    BY DEF ScanInd, ScanTypes
  <1>3. cutOff \subseteq Secrets
    BY <1>2 DEF ReportRecs
  <1>4. labelled \subseteq Secrets
    <2>1. \A i \in 1..Len(h.labels) : h.labels[i] \in Labels
      BY <1>2 DEF ReportRecs
    <2> QED
      BY <2>1 DEF Labels
  <1>5. h.step = "mail" => Head(h.tokens) \in cutOff
    <2>1. h.step = "mail" => h.tokens # <<>> /\ h.tokens \in Seq(Secrets)
      BY <1>2 DEF ReportFits, ReportRecs
    <2> QED
      BY <2>1
  <1>6. \A t, l : <<t, l>> \in LabelsOf(h) => t \in labelled
    BY DEF LabelsOf
  <1> HIDE DEF cutOff, labelled
  <1>7. cut \subseteq cut' /\ cut' \subseteq Secrets
    BY <1>1, <1>2, <1>3, <1>4 DEF ScanTypes
  <1>8. ASSUME NEW t \in Secrets PROVE TokenFits(t)'
    <2>1. report[r].step = "mail" /\ Head(report[r].tokens) = t => t \in cut'
      BY <1>1, <1>5
    <2>2. <<t, TRUE>> \in LabelsOf(report[r]) => t \in cut'
      BY <1>1, <1>6
    <2> QED
      BY <1>1, <1>7, <2>1, <2>2, NoReportRecord, NoReportFits, TokenOn
  <1>9. KeysFit' /\ valid' \subseteq valid
    BY <1>1, <1>2, KeysOn
  <1> QED
    BY <1>1, <1>2, <1>7, <1>8, <1>9, NoReportRecord, NoReportFits, ReportMoves DEF ScanTypes

\* The clock and the keys: a fetch has its time, and a key that is replaced is replaced now.
LEMMA TimePasses ==
  ASSUME ScanInd, RotateKey \/ ScanTick \/ UNCHANGED scanVars
  PROVE  ScanInd'
  <1>1. UNCHANGED <<known, valid, report, reports, mails, answers, clash, cut, lateKeys, cachedKey, cachedAt>>
    BY DEF RotateKey, ScanTick, scanVars
  <1>2. ScanTypes /\ KeysFit /\ MaxFetchTicks \in Nat /\ MaxKeys \in Nat /\ MaxScanNow \in Nat
    BY SecretScanningAssumption DEF ScanInd
  <1>3. /\ scanNow' \in 0..MaxScanNow /\ scanNow =< scanNow'
        /\ \A r \in Reports : report[r].step = "fetch" => scanNow' =< report[r].since + MaxFetchTicks
    <2>1. \A r \in Reports : report[r] \in ReportRecs /\ (report[r].step = "fetch" => scanNow =< report[r].since + MaxFetchTicks)
      BY <1>2 DEF ScanInd, ScanTypes, ReportFits
    <2>2. \A r \in Reports : report[r].since \in Int
      BY <2>1 DEF ReportRecs
    <2> QED
      BY <1>2, <2>1, <2>2 DEF RotateKey, ScanTick, scanVars, ScanTypes
  <1>4. /\ currentKey' \in Keys /\ retired' \in [Keys -> {NoTime} \cup 0..MaxScanNow]
        /\ \A k \in Keys : k >= currentKey' => retired'[k] = NoTime
        /\ \A k \in Keys : retired'[k] = retired[k] \/ retired'[k] = scanNow
    <2>1. CASE RotateKey
      BY <1>2, <2>1 DEF RotateKey, ScanTypes, KeysFit, Keys
    <2>2. CASE ScanTick \/ UNCHANGED scanVars
      BY <1>2, <2>2 DEF ScanTick, scanVars, ScanTypes, KeysFit
    <2> QED
      BY <2>1, <2>2
  <1>5. ASSUME NEW key, NEW time \in Int, time =< scanNow, NotReplaced(key, time) PROVE NotReplaced(key, time)'
    BY <1>2, <1>3, <1>4, <1>5 DEF NotReplaced, ScanTypes
  <1>6. ScanTypes'
    BY <1>1, <1>2, <1>3, <1>4 DEF ScanTypes
  <1>7. ASSUME NEW r \in Reports PROVE ReportFits(report[r])'
    <2> PICK k : k = report[r]
      OBVIOUS
    <2>1. k \in ReportRecs /\ ReportFits(k) /\ report'[r] = k
      BY <1>1, <1>2 DEF ScanInd, ScanTypes
    <2>2. k.since \in Int /\ k.labels \in Seq(Labels)
      BY <2>1 DEF ReportRecs
    <2>3. k.step = "fetch" => k.since =< scanNow' /\ scanNow' =< k.since + MaxFetchTicks
      BY <1>2, <1>3, <2>1, <2>2 DEF ReportFits, ScanTypes
    <2>4. k.step = "fetch" /\ k.fetched # 0 => NotReplaced(k.fetched, k.since)'
      BY <1>5, <2>1, <2>2 DEF ReportFits
    <2>5. \A t \in Secrets, l \in BOOLEAN : <<t, l>> \in LabelsOf(k) => LabelIsTrue(t, l)'
      BY <1>1, <2>1 DEF ReportFits, LabelIsTrue
    <2>6. ReportFits(k)'
      BY <1>1, <2>1, <2>3, <2>4, <2>5 DEF ReportFits, LabelsOf
    <2> QED
      BY <2>1, <2>6 DEF ReportFits, LabelsOf
  <1>8. KeysFit'
    <2>1. ReplacedKeyRefused'
      BY <1>1, <1>2 DEF KeysFit, ReplacedKeyRefused
    <2>2. ASSUME cachedAt' # NoTime PROVE cachedAt' =< scanNow' /\ NotReplaced(cachedKey, cachedAt - MaxFetchTicks)'
      <3>1. /\ cachedAt # NoTime /\ cachedAt =< scanNow /\ cachedAt \in Nat
            /\ NotReplaced(cachedKey, cachedAt - MaxFetchTicks) /\ scanNow \in Nat /\ scanNow' \in Nat
        BY <1>1, <1>2, <1>3, <2>2 DEF KeysFit, ScanTypes
      <3>2. cachedAt - MaxFetchTicks =< scanNow /\ cachedAt - MaxFetchTicks \in Int
        BY <1>2, <3>1
      <3> PICK key : key = cachedKey
        OBVIOUS
      <3> PICK time : time = cachedAt - MaxFetchTicks
        OBVIOUS
      <3>3. NotReplaced(key, time)'
        BY <1>5, <3>1, <3>2
      <3>4. cachedKey' = key /\ cachedAt' - MaxFetchTicks = time /\ cachedAt' =< scanNow'
        BY <1>1, <1>3, <3>1
      <3> QED
        BY <3>3, <3>4 DEF NotReplaced
    <2> QED
      BY <1>4, <2>1, <2>2 DEF KeysFit, NotReplaced
  <1>9. OneFetch' /\ \A t \in Secrets : TokenFits(t)'
    <2>1. OneFetch'
      BY <1>1 DEF ScanInd, OneFetch
    <2>2. ASSUME NEW t \in Secrets PROVE TokenFits(t)'
      <3>1. TokenFits(t)
        BY DEF ScanInd
      <3>2. OneMail(t) => OneMail(t)'
        BY <1>1 DEF OneMail, Works
      <3>3. OnItsWay(t) => OnItsWay(t)'
        BY <1>1 DEF OnItsWay, LabelsOf
      <3>4. \A l \in answers'[t] : LabelIsTrue(t, l)'
        BY <1>1, <3>1 DEF TokenFits, LabelIsTrue
      <3> QED
        BY <1>1, <3>1, <3>2, <3>3, <3>4 DEF TokenFits
    <2> QED
      BY <2>1, <2>2
  <1> QED
    BY <1>6, <1>7, <1>8, <1>9 DEF ScanInd


LEMMA StepScanInd == ScanInd /\ [ScanNext]_scanVars => ScanInd'
  <1> SUFFICES ASSUME ScanInd, [ScanNext]_scanVars PROVE ScanInd'
    OBVIOUS
  <1>1. CASE RotateKey \/ ScanTick \/ UNCHANGED scanVars
    BY <1>1, TimePasses
  <1>2. ASSUME NEW r \in Reports, NEW s \in Secrets, NEW t \in Secrets, NEW tokens \in {<<s>>, <<s, t>>}, ReportArrives(r, tokens)
        PROVE  ScanInd'
    <2>1. <<s>> \in Seq(Secrets) /\ <<s, t>> \in Seq(Secrets)
      OBVIOUS
    <2>2. tokens = <<s>> \/ tokens = <<s, t>>
      OBVIOUS
    <2>3. tokens \in Seq(Secrets)
      BY <2>1, <2>2, Zenon
    <2> QED
      BY <1>2, <2>3, ReportArrivesInd
  <1>3. ASSUME NEW r \in Reports, GetKeys(r) \/ KeysSent(r) \/ KeysArrive(r) PROVE ScanInd'
    BY <1>3, GetKeysInd, KeysSentInd, KeysArriveInd
  <1>4. ASSUME NEW r \in Reports, RevokePub(r) \/ ReadApiToken(r) \/ RevokeApi(r) PROVE ScanInd'
    BY <1>4, RevokePubInd, ReadApiTokenInd, RevokeApiInd
  <1>5. ASSUME NEW r \in Reports, SendAlertMail(r) \/ AnswerReport(r) \/ ReportCut(r) PROVE ScanInd'
    BY <1>5, SendAlertMailInd, AnswerReportInd, ReportCutInd
  <1> QED
    BY <1>1, <1>2, <1>3, <1>4, <1>5 DEF ScanNext

LEMMA InitScanInd == ScanInit => ScanInd
  <1> SUFFICES ASSUME ScanInit PROVE ScanInd
    OBVIOUS
  <1>1. /\ scanNow = 0 /\ currentKey = 1 /\ retired = [k \in Keys |-> NoTime] /\ cachedKey = 0 /\ cachedAt = NoTime
        /\ known \subseteq Secrets /\ valid \subseteq known /\ known \cap PubSecrets \subseteq valid
        /\ report = [r \in Reports |-> NoReport] /\ reports = 0
        /\ mails = [t \in Secrets |-> 0] /\ answers = [t \in Secrets |-> {}]
        /\ clash = {} /\ cut = {} /\ lateKeys = {}
    BY DEF ScanInit
  <1>2. ScanTypes
    BY <1>1, NoReportRecord, SecretScanningAssumption DEF ScanTypes, Keys
  <1>3. \A r \in Reports : report[r] = NoReport
    BY <1>1
  <1>4. OneFetch /\ KeysFit
    BY <1>1, <1>3, NoReportRecord DEF OneFetch, KeysFit, ReplacedKeyRefused
  <1>5. \A r \in Reports : ReportFits(report[r])
    BY <1>3, NoReportRecord DEF ReportFits
  <1>6. ASSUME NEW t \in Secrets PROVE TokenFits(t)
    <2>1. OneMail(t)
      BY <1>1, <1>3, NoReportRecord DEF OneMail, Works
    <2> QED
      BY <1>1, <2>1 DEF TokenFits
  <1> QED
    BY <1>2, <1>4, <1>5, <1>6 DEF ScanInd

\* verify_github_signature and alert_revoke_token: with any number of requests, tokens and keys, a token that is in an answer is
\* revoked, its owner hears of it once, and a key that GitHub has replaced is refused when the
\* cache has run out.
THEOREM ScanIsSound == ScanSpec => []ScanInv
  <1>1. ScanInd => ScanInv
    <2> SUFFICES ASSUME ScanInd PROVE ScanInv
      OBVIOUS
    <2>1. ScanTypes /\ KeysFit /\ \A t \in Secrets : TokenFits(t)
      BY DEF ScanInd
    <2>2. Cardinality({r \in Reports : report[r].step = "fetch"}) =< 1
      <3> DEFINE S == {r \in Reports : report[r].step = "fetch"}
      <3>1. \A x, y \in S : x = y
        BY DEF ScanInd, OneFetch
      <3> HIDE DEF S
      <3>2. Cardinality(S) =< 1
        BY <3>1, AtMostOne
      <3> QED
        BY <3>2 DEF S
    <2>3. ScanTypeOK
      BY <2>1, <2>2 DEF ScanTypes, ScanTypeOK
    <2>4. ASSUME NEW t \in Secrets
          PROVE  /\ answers[t] # {} => t \notin valid
                 /\ TRUE \in answers[t] => t \in known
                 /\ t \in ApiSecrets \cap known => FALSE \notin answers[t]
      BY <2>1 DEF TokenFits, LabelIsTrue, ScanTypes
    <2>5. ASSUME NEW t \in Secrets, t \notin clash PROVE mails[t] =< 1
      BY <2>1, <2>5 DEF TokenFits, OneMail
    <2>6. ASSUME NEW t \in (known \cap PubSecrets) \ (cut \cup valid), \A r \in Reports : report[r].step = "idle"
          PROVE  mails[t] = 1 /\ TRUE \in answers[t]
      <3>1. t \in Secrets /\ OnItsWay(t)
        BY <2>1, <2>6 DEF TokenFits, ScanTypes
      <3>2. \A r \in Reports : <<t, TRUE>> \notin LabelsOf(report[r])
        <4>1. ASSUME NEW r \in Reports PROVE LabelsOf(report[r]) = {}
          <5>1. report[r].labels = <<>>
            BY <2>6 DEF ScanInd, ReportFits
          <5>2. Len(report[r].labels) = 0
            BY <5>1
          <5> QED
            BY <5>2 DEF LabelsOf
        <4> QED
          BY <4>1
      <3> QED
        BY <2>6, <3>1, <3>2 DEF OnItsWay
    <2>7. AnsweredIsRevoked
      BY <2>4 DEF AnsweredIsRevoked
    <2>8. ToldOnce
      BY <2>5, <2>6 DEF ToldOnce
    <2> QED
      BY <2>1, <2>3, <2>7, <2>8 DEF ScanInv, KeysFit
  <1> QED
    BY <1>1, InitScanInd, StepScanInd, PTL DEF ScanSpec

-----------------------------------------------------------------------------
(* The invalidation of the CDNs: the invariant.                            *)

Contents == 0..MaxContent
WriterStates == {"idle", "wrote", "purged", "queued", "scheduled"}
CdnRuns == [pc : {"idle", "purged", "queued"}, paths : SUBSET CratePaths]
Items == [id : Int, path : Paths]
ProcessRuns == [pc : {"idle", "next", "fetched", "accepted"}, dist : {"Index", "Static"},
                batch : SUBSET Items, attempt : 0..MaxAttempts]
Processings == [waits : BOOLEAN, run : ProcessRuns, missed : BOOLEAN]

FileTypes ==
  /\ wanted \in [Paths -> Contents]
  /\ origin \in [Paths -> Contents]
  /\ edge \in [Cdns -> [Paths -> None..MaxContent]]
  /\ lost \in SUBSET (Cdns \X Paths)

JobTypes ==
  /\ due \in [Paths -> BOOLEAN]
  /\ writer \in [Paths -> WriterStates]
  /\ \A p \in CratePaths : writer[p] = "idle"
  /\ cdnJobs \in SUBSET (SUBSET CratePaths)
  /\ cdnRun \in CdnRuns
  /\ process \in Processings

\* The rows of the queue, and the batch of a run.
RowTypes ==
  /\ items \in SUBSET Items
  /\ IsFiniteSet(items)
  /\ nextItem \in Int
  /\ \A i \in items : i.id < nextItem
  /\ \A i, j \in items : i.id = j.id => i = j
  /\ process.run.batch \subseteq items
  /\ Cardinality(process.run.batch) <= BatchSize
  /\ \A i \in process.run.batch : Distribution(i.path) = process.run.dist

\* The files of the crate go together, and a deletion has not begun before it was asked for;
\* what one has removed without an InvalidateCdns job is lost.
CrateInd ==
  \A p \in CratePaths :
    /\ \A q \in CratePaths : wanted[p] = Gone => wanted[q] = Gone
    /\ due[p] => wanted[p] = Gone
    /\ wanted[p] # Gone => origin[p] # Gone
    /\ due[p] /\ origin[p] = Gone => \A c \in Cdns : <<c, p>> \in lost

InJob(p) == \E ps \in cdnJobs : p \in ps

\* The rows that CloudFront has dealt with, and that are about to be removed.
Settled == IF process.run.pc = "accepted" THEN process.run.batch ELSE {}
InQueue(p) == \E i \in items \ Settled : i.path = p

\* What still leads to a purge of the path that has not been made.
WillPurge(p) ==
  \/ due[p]
  \/ p \in IndexPaths /\ writer[p] = "wrote"
  \/ p \in DerivedPaths /\ writer[p] # "idle"
  \/ InJob(p)

WillInvalidate(p) ==
  \/ due[p]
  \/ writer[p] \in {"wrote", "purged"}
  \/ InJob(p)
  \/ cdnRun.pc = "purged" /\ p \in cdnRun.paths
  \/ InQueue(p)

PurgeInd == \A p \in Paths : Stale("fastly", p) /\ <<"fastly", p>> \notin lost => WillPurge(p)

InvalidateInd ==
  \A p \in Paths : Stale("cloudfront", p) /\ <<"cloudfront", p>> \notin lost => WillInvalidate(p)

\* A processing job waits or will be enqueued, or an enqueue was given up.
Coming ==
  \/ process.waits \/ process.missed
  \/ \E p \in Paths : writer[p] \in {"wrote", "purged", "queued"} \/ due[p]
  \/ cdnRun.pc # "idle" \/ cdnJobs # {}

\* Rows that the run at work has passed over, or that no run is to process, are seen to later.
StrandedInd ==
  /\ process.run.pc = "idle" /\ items # {} => Coming
  /\ process.run.pc # "idle" /\ process.run.dist = "Static"
     /\ (\E i \in items : Distribution(i.path) = "Index") => Coming

CdnTypes == FileTypes /\ JobTypes /\ RowTypes
CdnInd == CdnTypes /\ CrateInd /\ PurgeInd /\ InvalidateInd /\ StrandedInd


-----------------------------------------------------------------------------
(* What the operators of the model do.                                     *)

\* A purge empties the caches of one CDN of some files, and of no other.
LEMMA PurgedEdge ==
  ASSUME FileTypes, NEW c \in Cdns, NEW ps
  PROVE  /\ Purged(c, ps) \in [Cdns -> [Paths -> None..MaxContent]]
         /\ \A d \in Cdns, p \in Paths :
              Purged(c, ps)[d][p] = IF d = c /\ p \in ps THEN None ELSE edge[d][p]
  <1>1. None \in None..MaxContent
    BY CdnAssumption DEF None
  <1>2. PICK f : f = [p \in Paths |-> IF p \in ps THEN None ELSE edge[c][p]]
    OBVIOUS
  <1>3. Purged(c, ps) = [edge EXCEPT ![c] = f]
    BY <1>2 DEF Purged
  <1>4. f \in [Paths -> None..MaxContent]
    BY <1>1, <1>2 DEF FileTypes
  <1> QED
    BY <1>2, <1>3, <1>4 DEF FileTypes

\* queue_paths gives the paths rows of their own, with ids that have not been used.
LEMMA QueuePathsAdds ==
  ASSUME RowTypes, NEW ps \in SUBSET Paths, IsFiniteSet(ps), QueuePaths(ps)
  PROVE  /\ items' \in SUBSET Items /\ IsFiniteSet(items') /\ items \subseteq items'
         /\ nextItem' \in Int
         /\ \A i \in items' : i.id < nextItem'
         /\ \A i, j \in items' : i.id = j.id => i = j
         /\ \A p \in ps : \E i \in items' \ items : i.path = p
  <1> DEFINE n == Cardinality(ps)
  <1>1. n \in Nat /\ nextItem \in Int
    BY FS_CardinalityType DEF RowTypes
  <1>2. PICK ids \in [ps -> nextItem..(nextItem + n - 1)] :
          /\ \A p, q \in ps : ids[p] = ids[q] => p = q
          /\ items' = items \cup {[id |-> ids[p], path |-> p] : p \in ps}
    BY DEF QueuePaths
  <1>3. nextItem' = nextItem + n
    BY DEF QueuePaths
  <1> HIDE DEF n
  <1>4. PICK new : new = {[id |-> ids[p], path |-> p] : p \in ps}
    OBVIOUS
  <1>5. \A i \in new : /\ i \in Items /\ i.path \in ps /\ i.id = ids[i.path]
                       /\ nextItem <= i.id /\ i.id < nextItem + n
    BY <1>1, <1>2, <1>4 DEF Items
  <1>6. IsFiniteSet(new)
    <2>1. PICK f : f = [i \in new |-> i.path]
      OBVIOUS
    <2>2. \A i, j \in new : i.path = j.path => i = j
      BY <1>4
    <2>3. f \in Injection(new, ps)
      BY <1>5, <2>1, <2>2 DEF Injection, IsInjective
    <2> QED
      BY <2>3, FS_Injection
  <1>7. items' = items \cup new
    BY <1>2, <1>4
  <1>8. IsFiniteSet(items')
    BY <1>6, <1>7, FS_Union DEF RowTypes
  <1>9. \A i, j \in new : i.id = j.id => i = j
    BY <1>2, <1>4
  <1>10. /\ \A i \in items : i \in Items /\ i.id \in Int /\ i.id < nextItem
         /\ \A i, j \in items : i.id = j.id => i = j
    BY DEF RowTypes, Items
  <1>11. \A i \in new : i.id \in Int
    BY <1>5 DEF Items
  <1>12. \A p \in ps : \E i \in new : i.path = p
    <2> TAKE p \in ps
    <2>1. [id |-> ids[p], path |-> p] \in new
      BY <1>4
    <2> QED
      BY <2>1
  <1>13. \A i \in items' : i \in Items /\ i.id < nextItem'
    BY <1>1, <1>3, <1>5, <1>7, <1>10, <1>11
  <1>14. \A i, j \in items' : i.id = j.id => i = j
    BY <1>1, <1>5, <1>7, <1>9, <1>10, <1>11
  <1>15. \A i \in new : i \notin items
    BY <1>1, <1>5, <1>10, <1>11
  <1> QED
    BY <1>1, <1>3, <1>7, <1>8, <1>12, <1>13, <1>14, <1>15

\* fetch_batch finds rows if there are any of the distribution, and no more than BATCH_SIZE.
LEMMA FetchBatchOldest ==
  ASSUME RowTypes, NEW d
  PROVE  /\ FetchBatch(d) \subseteq items
         /\ \A i \in FetchBatch(d) : Distribution(i.path) = d
         /\ Cardinality(FetchBatch(d)) <= BatchSize
         /\ FetchBatch(d) = {} => \A i \in items : Distribution(i.path) # d
  <1> DEFINE own == {i \in items : Distribution(i.path) = d}
             older(i) == {j \in own : j.id < i.id}
  <1>1. IsFiniteSet(own) /\ own \subseteq items /\ \A i \in own : i.id \in Int
    BY FS_Subset DEF RowTypes, Items
  <1>2. PICK O : O = own
    OBVIOUS
  <1>3. PICK f : f = [i \in O |-> Cardinality(older(i))]
    OBVIOUS
  <1>4. FetchBatch(d) = {i \in O : f[i] < BatchSize}
    BY <1>2, <1>3 DEF FetchBatch
  <1>5. \A i \in O : /\ IsFiniteSet(older(i)) /\ older(i) \subseteq O
                     /\ f[i] = Cardinality(older(i)) /\ f[i] \in Nat
    BY <1>1, <1>2, <1>3, FS_Subset, FS_CardinalityType
  <1>6. \A i, k \in O : i.id < k.id => f[i] < f[k]
    <2> TAKE i \in O, k \in O
    <2> HAVE i.id < k.id
    <2>1. i.id \in Int /\ k.id \in Int /\ \A j \in O : j.id \in Int
      BY <1>1, <1>2
    <2>2. older(i) \subseteq older(k) /\ i \in older(k) /\ i \notin older(i)
      BY <1>2, <2>1
    <2>3. IsFiniteSet(older(k)) /\ f[i] = Cardinality(older(i)) /\ f[k] = Cardinality(older(k))
      BY <1>5
    <2> HIDE DEF older
    <2>4. f[i] <= f[k] /\ f[i] # f[k]
      BY <2>2, <2>3, FS_Subset
    <2>5. f[i] \in Nat /\ f[k] \in Nat
      BY <1>5
    <2> QED
      BY <2>4, <2>5
  <1> HIDE DEF own, older
  <1>7. PICK batch : batch = {i \in O : f[i] < BatchSize}
    OBVIOUS
  <1>8. Cardinality(batch) <= BatchSize
    <2>1. PICK g : g = [i \in batch |-> f[i]]
      OBVIOUS
    <2>2. \A i, k \in O : f[i] = f[k] => i = k
      <3> TAKE i \in O, k \in O
      <3>1. i.id \in Int /\ k.id \in Int /\ f[i] \in Nat /\ f[k] \in Nat
        BY <1>1, <1>2, <1>5
      <3>2. i.id = k.id => i = k
        BY <1>1, <1>2 DEF RowTypes
      <3> QED
        BY <1>6, <3>1, <3>2
    <2>3. g \in Injection(batch, 0..(BatchSize - 1))
      <3>1. \A i \in batch : i \in O /\ f[i] \in 0..(BatchSize - 1)
        BY <1>5, <1>7, CdnAssumption
      <3> QED
        BY <2>1, <2>2, <3>1 DEF Injection, IsInjective
    <2>4. IsFiniteSet(0..(BatchSize - 1)) /\ Cardinality(0..(BatchSize - 1)) = BatchSize
      BY FS_Interval, CdnAssumption
    <2> QED
      BY <2>3, <2>4, FS_Injection
  <1>9. batch = {} => O = {}
    <2> SUFFICES ASSUME O # {}
                 PROVE  \E i \in O : f[i] < BatchSize
      BY <1>7
    <2> DEFINE Olders == {older(i) : i \in O}
    <2>1. IsWellFoundedOn(StrictSubsetOrdering(O), SUBSET O)
      BY <1>1, <1>2, FS_FiniteSubsetsOfFinite, FS_StrictSubsetOrderingWellFounded
    <2>2. Olders \subseteq SUBSET O /\ Olders # {}
      BY <1>5
    <2>3. PICK A \in Olders : \A B \in Olders : <<B, A>> \notin StrictSubsetOrdering(O)
      <3> HIDE DEF Olders
      <3> QED
        BY <2>1, <2>2, WFMin
    <2>4. PICK i \in O : A = older(i)
      BY <2>3
    <2>5. older(i) = {}
      <3> SUFFICES ASSUME NEW j \in older(i)
                   PROVE  FALSE
        OBVIOUS
      <3>1. j \in O /\ i.id \in Int /\ j.id < i.id /\ \A k \in O : k.id \in Int
        BY <1>1, <1>2 DEF older
      <3>2. older(j) \subseteq older(i) /\ j \notin older(j)
        BY <1>2, <3>1 DEF older
      <3>3. <<older(j), older(i)>> \in StrictSubsetOrdering(O)
        BY <1>5, <3>1, <3>2 DEF StrictSubsetOrdering
      <3> QED
        BY <2>3, <2>4, <3>1, <3>3
    <2>6. f[i] = 0
      BY <1>5, <2>5, FS_EmptySet
    <2> QED
      BY <2>6, CdnAssumption
  <1> QED
    BY <1>1, <1>2, <1>4, <1>7, <1>8, <1>9 DEF own


-----------------------------------------------------------------------------
(* The initial states, and the types.                                      *)

\* At first nothing is queued, and every cache has the file that is in storage.
LEMMA InitCdn == CdnInit => CdnInd
  <1> SUFFICES ASSUME CdnInit
               PROVE  CdnInd
    OBVIOUS
  <1>1. FileTypes
    BY CdnAssumption DEF CdnInit, FileTypes, Contents, None
  <1>2. NoRun \in CdnRuns /\ NoBatch \in ProcessRuns
    BY CdnAssumption DEF NoRun, NoBatch, CdnRuns, ProcessRuns
  <1>3. JobTypes
    BY <1>2 DEF CdnInit, JobTypes, WriterStates, Processings, Paths
  <1>4. RowTypes
    <2>1. items = {} /\ nextItem = 1 /\ process.run.batch = {}
      BY DEF CdnInit, NoBatch
    <2>2. IsFiniteSet({}) /\ Cardinality({}) = 0 /\ 0 <= BatchSize
      BY FS_EmptySet, CdnAssumption
    <2> QED
      BY <2>1, <2>2 DEF RowTypes
  <1>5. CrateInd
    BY DEF CdnInit, CrateInd, Gone, Paths
  <1>6. PurgeInd /\ InvalidateInd
    BY DEF CdnInit, PurgeInd, InvalidateInd, Stale, Cdns
  <1>7. StrandedInd
    BY DEF CdnInit, StrandedInd, NoBatch
  <1> QED
    BY <1>1, <1>3, <1>4, <1>5, <1>6, <1>7 DEF CdnInd, CdnTypes

\* What a step does to the processing job: it enqueues it, loses an enqueue, or is one of the
\* run's own.
LEMMA ProcessSteps ==
  ASSUME CdnTypes, CdnNext
  PROVE  /\ process' \in Processings
         /\ \/ process' = process
            \/ process'.waits /\ process'.run = process.run
            \/ process'.waits = process.waits /\ process'.missed /\ process'.run = process.run
            \/ ProcessStart \/ ProcessFetch \/ Invalidate \/ Backoff \/ RemoveItems \/ ProcessFail
  <1> DEFINE OtherStep ==
               \/ process' = process
               \/ process'.waits /\ process'.run = process.run
               \/ process'.waits = process.waits /\ process'.missed /\ process'.run = process.run
  <1>1. process \in Processings /\ MaxAttempts \in Nat \ {0}
    BY CdnAssumption DEF CdnTypes, JobTypes
  <1>2. ASSUME EnqueueProcess
        PROVE  process' \in Processings /\ OtherStep
    BY <1>1, <1>2 DEF EnqueueProcess, Processings
  <1>3. ASSUME NEW p \in Paths, NEW feed \in BOOLEAN, GiveUp(p, feed)
        PROVE  process' \in Processings /\ OtherStep
    BY <1>1, <1>3 DEF GiveUp, Processings
  <1>4. ASSUME UNCHANGED process
        PROVE  process' \in Processings /\ OtherStep
    BY <1>1, <1>4
  <1> HIDE DEF OtherStep
  <1>5. ASSUME NEW p \in Paths, ChangeContent(p) \/ WriterNext(p) \/ WriterFail(p)
        PROVE  process' \in Processings /\ OtherStep
    BY <1>2, <1>4, <1>5
       DEF ChangeContent, WriterNext, Write, PurgeFastly, QueuePath, Schedule, WriterFail
  <1>6. ASSUME DeleteCrateFromStorage \/ DeleteCrateFail \/ PurgeNext \/ CdnFail
        PROVE  process' \in Processings /\ OtherStep
    BY <1>2, <1>4, <1>6
       DEF DeleteCrateFromStorage, DeleteCrateFail, PurgeNext, CdnPurge, CdnQueue, CdnSchedule, CdnFail
  <1>7. ASSUME NEW c \in Cdns, NEW p \in Paths, EdgeFetch(c, p)
        PROVE  process' \in Processings /\ OtherStep
    BY <1>4, <1>7 DEF EdgeFetch
  <1>8. ASSUME ProcessStart \/ ProcessFetch \/ Invalidate \/ Backoff \/ RemoveItems \/ ProcessFail
        PROVE  process' \in Processings
    <2>1. NoBatch \in ProcessRuns
      BY <1>1 DEF NoBatch, ProcessRuns
    <2>2. CASE ProcessStart
      BY <1>1, <2>1, <2>2 DEF ProcessStart, Processings, ProcessRuns, NoBatch
    <2>3. CASE ProcessFetch
      <3>1. process.run.dist \in {"Index", "Static"}
        BY <1>1 DEF Processings, ProcessRuns
      <3>2. FetchBatch(process.run.dist) \in SUBSET Items
        BY FetchBatchOldest DEF CdnTypes, RowTypes
      <3>3. PICK d \in {"Index", "Static"}, batch \in SUBSET Items :
              d = process.run.dist /\ batch = FetchBatch(d)
        BY <3>1, <3>2
      <3>4. PICK run : run = IF batch # {}
                             THEN [pc |-> "fetched", dist |-> d, batch |-> batch, attempt |-> 1]
                             ELSE IF d = "Index" THEN [NoBatch EXCEPT !.pc = "next", !.dist = "Static"]
                             ELSE NoBatch
        OBVIOUS
      <3>5. run \in ProcessRuns
        <4>1. [NoBatch EXCEPT !.pc = "next", !.dist = "Static"] \in ProcessRuns
          BY <2>1 DEF ProcessRuns
        <4>2. 1 \in 0..MaxAttempts
          BY <1>1
        <4>3. [pc |-> "fetched", dist |-> d, batch |-> batch, attempt |-> 1] \in ProcessRuns
          BY <4>2 DEF ProcessRuns
        <4> QED
          BY <2>1, <3>4, <4>1, <4>3
      <3>6. process' = [process EXCEPT !.run = run]
        BY <2>3, <3>3, <3>4 DEF ProcessFetch
      <3> QED
        BY <1>1, <3>5, <3>6 DEF Processings
    <2>4. CASE Invalidate
      BY <1>1, <2>4 DEF Invalidate, Processings, ProcessRuns
    <2>5. CASE Backoff
      <3>1. process.run \in ProcessRuns
        BY <1>1 DEF Processings
      <3>2. PICK run : run = [process.run EXCEPT !.attempt = process.run.attempt + 1]
        OBVIOUS
      <3>3. run \in ProcessRuns
        BY <1>1, <2>5, <3>1, <3>2 DEF Backoff, ProcessRuns
      <3>4. process' = [process EXCEPT !.run = run]
        BY <2>5, <3>2 DEF Backoff
      <3> QED
        BY <1>1, <3>3, <3>4 DEF Processings
    <2>6. CASE RemoveItems
      BY <1>1, <2>1, <2>6 DEF RemoveItems, Processings, ProcessRuns, NoBatch
    <2>7. CASE ProcessFail
      BY <1>1, <2>1, <2>7 DEF ProcessFail, Processings
    <2> QED
      BY <1>8, <2>2, <2>3, <2>4, <2>5, <2>6, <2>7
  <1> QED
    BY <1>3, <1>5, <1>6, <1>7, <1>8 DEF CdnNext, ProcessNext, OtherStep

\* The contents of files and caches, and what jobs have given up.
LEMMA StepFileTypes ==
  ASSUME CdnTypes, CdnNext
  PROVE  FileTypes' /\ lost \subseteq lost'
  <1> USE DEF CdnTypes
  <1>0. Gone \in Contents /\ Contents \subseteq Int /\ Contents \subseteq None..MaxContent
    BY CdnAssumption DEF Contents, Gone, None
  <1>1. ASSUME NEW p \in Paths, ChangeContent(p)
        PROVE  FileTypes' /\ lost \subseteq lost'
    <2>1. wanted[p] \in Contents /\ wanted[p] < MaxContent
      BY <1>1 DEF ChangeContent, FileTypes
    <2>2. wanted[p] + 1 \in Contents
      BY <2>1, CdnAssumption DEF Contents
    <2>3. wanted' \in [Paths -> Contents]
      BY <1>0, <1>1, <2>2 DEF ChangeContent, FileTypes
    <2> QED
      BY <1>1, <2>3 DEF ChangeContent, FileTypes
  <1>2. ASSUME NEW p \in Paths, WriterNext(p) \/ WriterFail(p)
        PROVE  FileTypes' /\ lost \subseteq lost'
    <2>1. CASE Write(p)
      BY <2>1 DEF Write, FileTypes
    <2>2. CASE PurgeFastly(p)
      <3>1. "fastly" \in Cdns
        BY DEF Cdns
      <3> QED
        BY <2>2, <3>1, PurgedEdge DEF PurgeFastly, FileTypes
    <2>3. CASE QueuePath(p) \/ Schedule(p) \/ WriterFail(p)
      BY <2>3 DEF QueuePath, Schedule, WriterFail, FileTypes, files
    <2> QED
      BY <1>2, <2>1, <2>2, <2>3 DEF WriterNext
  <1>3. ASSUME NEW p \in Paths, NEW feed \in BOOLEAN, GiveUp(p, feed)
        PROVE  FileTypes' /\ lost \subseteq lost'
    BY <1>3 DEF GiveUp, FileTypes, files, Cdns
  <1>4. CASE DeleteCrateFromStorage
    BY <1>0, <1>4 DEF DeleteCrateFromStorage, Deleted, FileTypes
  <1>5. CASE DeleteCrateFail
    <2>1. PICK ps \in SUBSET Listed : origin' = Deleted(ps) /\ lost' = lost \cup (Cdns \X ps)
      BY <1>5 DEF DeleteCrateFail
    <2>2. ps \subseteq Paths
      BY DEF Listed, Paths
    <2> QED
      BY <1>0, <1>5, <2>1, <2>2 DEF DeleteCrateFail, Deleted, FileTypes
  <1>6. CASE PurgeNext \/ CdnFail
    <2>1. "fastly" \in Cdns
      BY DEF Cdns
    <2> QED
      BY <1>6, <2>1, PurgedEdge
         DEF PurgeNext, CdnPurge, CdnQueue, CdnSchedule, CdnFail, FileTypes, files
  <1>7. CASE ProcessNext \/ Backoff \/ ProcessFail
    <2>1. "cloudfront" \in Cdns
      BY DEF Cdns
    <2> QED
      BY <1>7, <2>1, PurgedEdge
         DEF ProcessNext, ProcessStart, ProcessFetch, Invalidate, RemoveItems, Backoff, ProcessFail,
             FileTypes, files
  <1>8. ASSUME NEW c \in Cdns, NEW p \in Paths, EdgeFetch(c, p)
        PROVE  FileTypes' /\ lost \subseteq lost'
    <2>1. origin[p] \in None..MaxContent
      BY <1>0 DEF FileTypes
    <2> QED
      BY <1>8, <2>1 DEF EdgeFetch, FileTypes
  <1> QED
    BY <1>1, <1>2, <1>3, <1>4, <1>5, <1>6, <1>7, <1>8 DEF CdnNext


\* The jobs: only index files and derived ones have a writer of their own, and InvalidateCdns
\* is about files of the crate.
LEMMA StepJobTypes ==
  ASSUME CdnTypes, CdnNext
  PROVE  JobTypes'
  <1> USE DEF CdnTypes, JobTypes
  <1>0. process' \in Processings
    BY ProcessSteps
  <1>1. ASSUME NEW p \in Paths, ChangeContent(p)
        PROVE  JobTypes'
    BY <1>0, <1>1 DEF ChangeContent
  <1>2. ASSUME NEW p \in Paths, WriterNext(p) \/ WriterFail(p)
        PROVE  JobTypes'
    <2>1. p \notin CratePaths
      BY <1>2 DEF WriterNext, Write, PurgeFastly, QueuePath, Schedule, WriterFail
    <2>2. writer' \in [Paths -> WriterStates] /\ \A q \in Paths \ {p} : writer'[q] = writer[q]
      BY <1>2 DEF WriterNext, Write, PurgeFastly, QueuePath, Schedule, WriterFail, WriterStates
    <2>3. due' \in [Paths -> BOOLEAN] /\ UNCHANGED <<cdnJobs, cdnRun>>
      BY <1>2 DEF WriterNext, Write, PurgeFastly, QueuePath, Schedule, WriterFail
    <2> QED
      BY <1>0, <2>1, <2>2, <2>3 DEF Paths
  <1>3. ASSUME NEW p \in Paths, NEW feed \in BOOLEAN, GiveUp(p, feed)
        PROVE  JobTypes'
    <2>1. p \notin CratePaths
      BY <1>3, CdnAssumption DEF GiveUp
    <2>2. writer' \in [Paths -> WriterStates] /\ \A q \in Paths \ {p} : writer'[q] = writer[q]
      BY <1>3 DEF GiveUp, WriterStates
    <2> QED
      BY <1>0, <1>3, <2>1, <2>2 DEF GiveUp, Paths
  <1>4. CASE DeleteCrateFromStorage
    BY <1>0, <1>4 DEF DeleteCrateFromStorage, Listed
  <1>5. CASE DeleteCrateFail
    BY <1>0, <1>5 DEF DeleteCrateFail, jobs
  <1>6. CASE PurgeNext \/ CdnFail
    BY <1>0, <1>6 DEF PurgeNext, CdnPurge, CdnQueue, CdnSchedule, CdnFail, CdnRuns, NoRun
  <1>7. CASE ProcessNext \/ Backoff \/ ProcessFail
    BY <1>0, <1>7
       DEF ProcessNext, ProcessStart, ProcessFetch, Invalidate, RemoveItems, Backoff, ProcessFail, jobs
  <1>8. ASSUME NEW c \in Cdns, NEW p \in Paths, EdgeFetch(c, p)
        PROVE  JobTypes'
    BY <1>0, <1>8 DEF EdgeFetch, jobs
  <1> QED
    BY <1>1, <1>2, <1>3, <1>4, <1>5, <1>6, <1>7, <1>8 DEF CdnNext

\* The batch of a run consists of rows that are in the queue until the run removes them.
LEMMA StepRowTypes ==
  ASSUME CdnTypes, CdnNext
  PROVE  RowTypes'
  <1> USE DEF CdnTypes
  <1>0. process \in Processings /\ process.run \in ProcessRuns
    BY DEF JobTypes, Processings
  <1>1. ASSUME UNCHANGED queue, process'.run.batch = {} \/ process'.run = process.run
        PROVE  RowTypes'
    <2>1. Cardinality({}) <= BatchSize
      BY FS_EmptySet, CdnAssumption
    <2> QED
      BY <1>1, <2>1 DEF RowTypes, queue, Distribution
  <1>2. ASSUME NEW ps \in SUBSET Paths, IsFiniteSet(ps), QueuePaths(ps), process' = process
        PROVE  RowTypes'
    BY <1>2, QueuePathsAdds DEF RowTypes, Distribution
  <1>3. ASSUME NEW p \in Paths, ChangeContent(p) \/ Write(p) \/ PurgeFastly(p) \/ WriterFail(p)
        PROVE  RowTypes'
    BY <1>1, <1>3 DEF ChangeContent, Write, PurgeFastly, WriterFail
  <1>4. ASSUME NEW p \in Paths, QueuePath(p)
        PROVE  RowTypes'
    BY <1>2, <1>4, FS_Singleton DEF QueuePath
  <1>5. ASSUME EnqueueProcess
        PROVE  process'.run = process.run
    BY <1>0, <1>5 DEF EnqueueProcess, Processings
  <1>6. ASSUME NEW p \in Paths, Schedule(p)
        PROVE  RowTypes'
    BY <1>1, <1>5, <1>6 DEF Schedule
  <1>7. ASSUME NEW p \in Paths, NEW feed \in BOOLEAN, GiveUp(p, feed)
        PROVE  RowTypes'
    <2>1. process'.run = process.run
      BY <1>0, <1>7 DEF GiveUp, Processings
    <2> QED
      BY <1>1, <1>7, <2>1 DEF GiveUp
  <1>8. CASE DeleteCrateFromStorage \/ DeleteCrateFail \/ CdnFail \/ \E ps \in cdnJobs : CdnPurge(ps)
    BY <1>1, <1>8 DEF DeleteCrateFromStorage, DeleteCrateFail, CdnFail, CdnPurge
  <1>9. CASE CdnQueue
    <2>1. cdnRun.paths \in SUBSET Paths /\ IsFiniteSet(cdnRun.paths)
      BY FS_Subset, CdnAssumption DEF JobTypes, CdnRuns, Paths
    <2> QED
      BY <1>2, <1>9, <2>1 DEF CdnQueue
  <1>10. CASE CdnSchedule
    BY <1>1, <1>5, <1>10 DEF CdnSchedule
  <1>11. CASE ProcessStart \/ ProcessFail
    <2>1. process'.run.batch = {}
      <3>1. process'.run \in {NoBatch, [NoBatch EXCEPT !.pc = "next"]}
        BY <1>0, <1>11 DEF ProcessStart, ProcessFail, Processings
      <3> QED
        BY <3>1 DEF NoBatch
    <2> QED
      BY <1>1, <1>11, <2>1 DEF ProcessStart, ProcessFail
  <1>12. CASE ProcessFetch
    <2>1. PICK d : d = process.run.dist
      OBVIOUS
    <2>2. CASE FetchBatch(d) = {}
      <3>1. process'.run.batch = {}
        BY <1>0, <1>12, <2>1, <2>2 DEF ProcessFetch, NoBatch, Processings
      <3> QED
        BY <1>1, <1>12, <3>1 DEF ProcessFetch
    <2>3. CASE FetchBatch(d) # {}
      <3>1. process'.run.batch = FetchBatch(d) /\ process'.run.dist = d /\ UNCHANGED queue
        BY <1>0, <1>12, <2>1, <2>3 DEF ProcessFetch, Processings
      <3> QED
        BY <3>1, FetchBatchOldest DEF RowTypes, queue, Distribution
    <2> QED
      BY <2>2, <2>3
  <1>13. CASE Invalidate \/ Backoff
    <2>1. process'.run.batch = process.run.batch /\ process'.run.dist = process.run.dist
      BY <1>0, <1>13 DEF Invalidate, Backoff, Processings, ProcessRuns
    <2> QED
      BY <1>13, <2>1 DEF Invalidate, Backoff, RowTypes, queue, Distribution
  <1>14. CASE RemoveItems
    <2>1. process'.run.batch = {}
      BY <1>0, <1>14 DEF RemoveItems, NoBatch, Processings
    <2>2. Cardinality({}) <= BatchSize
      BY FS_EmptySet, CdnAssumption
    <2>3. items' \subseteq items /\ nextItem' = nextItem /\ IsFiniteSet(items')
      BY <1>14, FS_Subset DEF RemoveItems, RowTypes
    <2> QED
      BY <2>1, <2>2, <2>3 DEF RowTypes
  <1>15. ASSUME NEW c \in Cdns, NEW p \in Paths, EdgeFetch(c, p)
        PROVE  RowTypes'
    BY <1>1, <1>15 DEF EdgeFetch
  <1> QED
    BY <1>3, <1>4, <1>6, <1>7, <1>8, <1>9, <1>10, <1>11, <1>12, <1>13, <1>14, <1>15
       DEF CdnNext, WriterNext, PurgeNext, ProcessNext


-----------------------------------------------------------------------------
(* The crate, and what still has to be told to the CDNs.                   *)

\* DeleteCrateFromStorage: files that are gone without an InvalidateCdns job are given up.
LEMMA StepCrateInd ==
  ASSUME CdnTypes, CrateInd, CdnNext
  PROVE  CrateInd'
  <1> USE DEF CdnTypes, CrateInd
  <1>0. lost \subseteq lost' /\ CratePaths \subseteq Paths
    BY StepFileTypes DEF Paths
  <1>1. ASSUME \A p \in CratePaths : wanted'[p] = wanted[p] /\ origin'[p] = origin[p]
                                     /\ (due'[p] => due[p])
        PROVE  CrateInd'
    BY <1>0, <1>1
  <1>2. ASSUME NEW p \in Paths, ChangeContent(p)
        PROVE  CrateInd'
    <2>1. CASE p \in CratePaths
      <3>1. wanted[p] # Gone
        BY <1>2, <2>1 DEF ChangeContent
      <3>2. \A q \in CratePaths : origin[q] # Gone
        BY <2>1, <3>1
      <3>3. \A q \in CratePaths : wanted'[q] = Gone /\ origin'[q] = origin[q]
        BY <1>0, <1>2, <2>1 DEF ChangeContent
      <3> QED
        BY <3>2, <3>3
    <2>2. CASE p \notin CratePaths
      <3>1. \A q \in CratePaths : wanted'[q] = wanted[q] /\ origin'[q] = origin[q]
                                  /\ (due'[q] => due[q])
        BY <1>0, <1>2, <2>2 DEF ChangeContent, FileTypes, JobTypes
      <3> QED
        BY <1>1, <3>1
    <2> QED
      BY <2>1, <2>2
  <1>3. ASSUME NEW p \in Paths, WriterNext(p) \/ WriterFail(p)
        PROVE  CrateInd'
    <2>1. p \notin CratePaths
      BY <1>3 DEF WriterNext, Write, PurgeFastly, QueuePath, Schedule, WriterFail, JobTypes
    <2> QED
      BY <1>0, <1>1, <1>3, <2>1
         DEF WriterNext, Write, PurgeFastly, QueuePath, Schedule, WriterFail, FileTypes, JobTypes, files
  <1>4. ASSUME NEW p \in Paths, NEW feed \in BOOLEAN, GiveUp(p, feed)
        PROVE  CrateInd'
    BY <1>1, <1>4 DEF GiveUp, files
  <1>5. CASE DeleteCrateFromStorage
    <2>1. /\ \A p \in CratePaths : due[p]
          /\ wanted' = wanted
      BY <1>5 DEF DeleteCrateFromStorage
    <2>2. \A p \in CratePaths : due'[p] = FALSE
      BY <1>0, <1>5 DEF DeleteCrateFromStorage
    <2> QED
      BY <2>1, <2>2
  <1>6. CASE DeleteCrateFail
    <2>1. PICK ps \in SUBSET Listed : origin' = Deleted(ps) /\ lost' = lost \cup (Cdns \X ps)
      BY <1>6 DEF DeleteCrateFail
    <2>2. /\ \A p \in CratePaths : due[p]
          /\ wanted' = wanted /\ due' = due
      BY <1>6 DEF DeleteCrateFail, jobs
    <2>3. \A p \in CratePaths : origin'[p] = IF p \in ps THEN Gone ELSE origin[p]
      BY <1>0, <2>1 DEF Deleted
    <2> QED
      BY <1>0, <2>1, <2>2, <2>3
  <1>7. CASE PurgeNext \/ CdnFail
    BY <1>1, <1>7 DEF PurgeNext, CdnPurge, CdnQueue, CdnSchedule, CdnFail, files
  <1>8. CASE ProcessNext \/ Backoff \/ ProcessFail
    BY <1>1, <1>8
       DEF ProcessNext, ProcessStart, ProcessFetch, Invalidate, RemoveItems, Backoff, ProcessFail,
           jobs, files
  <1>9. ASSUME NEW c \in Cdns, NEW p \in Paths, EdgeFetch(c, p)
        PROVE  CrateInd'
    BY <1>1, <1>9 DEF EdgeFetch, jobs
  <1> QED
    BY <1>2, <1>3, <1>4, <1>5, <1>6, <1>7, <1>8, <1>9 DEF CdnNext

\* When a deletion runs through, every file it removes is in its InvalidateCdns job; a file
\* that it does not find has been given up.
LEMMA DeletionTells ==
  ASSUME CdnTypes, CrateInd, DeleteCrateFromStorage, NEW c \in Cdns, NEW p \in Paths,
         Stale(c, p)', <<c, p>> \notin lost'
  PROVE  /\ \/ InJob(p)'
            \/ Stale(c, p) /\ due'[p] = due[p]
         /\ \A q \in Paths : InJob(q) => InJob(q)'
  <1>1. /\ origin' = Deleted(Listed) /\ cdnJobs' = cdnJobs \cup {Listed} /\ lost' = lost
        /\ edge' = edge /\ \A q \in CratePaths : due[q]
        /\ due' = [q \in Paths |-> due[q] /\ q \notin CratePaths]
    BY DEF DeleteCrateFromStorage
  <1>2. \A q \in Paths : InJob(q) => InJob(q)'
    BY <1>1 DEF InJob
  <1>3. CASE p \in Listed
    BY <1>1, <1>2, <1>3 DEF InJob
  <1>4. CASE p \notin Listed
    <2>1. origin'[p] = origin[p]
      BY <1>1, <1>4 DEF Deleted
    <2>2. p \notin CratePaths
      BY <1>1, <1>4 DEF Listed, CrateInd
    <2>3. due'[p] = due[p]
      BY <1>1, <2>2 DEF CdnTypes, JobTypes
    <2>4. Stale(c, p)
      BY <1>1, <2>1 DEF Stale
    <2> QED
      BY <1>2, <2>3, <2>4
  <1> QED
    BY <1>3, <1>4

\* A deletion that fails gives up what it has removed.
LEMMA FailedDeletionTells ==
  ASSUME CdnTypes, DeleteCrateFail, NEW c \in Cdns, NEW p \in Paths,
         Stale(c, p)', <<c, p>> \notin lost'
  PROVE  Stale(c, p) /\ <<c, p>> \notin lost
  <1>1. PICK ps \in SUBSET Listed : origin' = Deleted(ps) /\ lost' = lost \cup (Cdns \X ps)
    BY DEF DeleteCrateFail
  <1>2. p \notin ps /\ edge' = edge
    BY <1>1 DEF DeleteCrateFail
  <1>3. origin'[p] = origin[p]
    BY <1>1, <1>2 DEF Deleted
  <1> QED
    BY <1>1, <1>2, <1>3 DEF Stale


\* Fastly: whoever changes a file purges it, or has the purge in a job, until it is done.
LEMMA StepPurgeInd ==
  ASSUME CdnTypes, CrateInd, PurgeInd, CdnNext
  PROVE  PurgeInd'
  <1> SUFFICES ASSUME NEW p \in Paths, Stale("fastly", p)', <<"fastly", p>> \notin lost'
               PROVE  WillPurge(p)'
    BY DEF PurgeInd
  <1> USE DEF CdnTypes
  <1>0. /\ "fastly" \in Cdns /\ "cloudfront" \in Cdns /\ <<"fastly", p>> \notin lost
        /\ Stale("fastly", p) => WillPurge(p)
    <2>1. lost \subseteq lost'
      BY StepFileTypes
    <2> QED
      BY <2>1 DEF PurgeInd, Cdns
  <1>1. ASSUME UNCHANGED <<origin, due, writer>>, edge'["fastly"] = edge["fastly"],
               cdnJobs \subseteq cdnJobs'
        PROVE  WillPurge(p)'
    <2>1. Stale("fastly", p)
      BY <1>1 DEF Stale
    <2> QED
      BY <1>0, <1>1, <2>1 DEF WillPurge, InJob
  <1>2. ASSUME NEW q \in Paths, ChangeContent(q)
        PROVE  WillPurge(p)'
    <2>1. Stale("fastly", p)
      BY <1>2 DEF Stale, ChangeContent
    <2>2. due'[p] \in BOOLEAN /\ (due[p] => due'[p])
      BY <1>2 DEF ChangeContent, JobTypes
    <2> QED
      BY <1>0, <1>2, <2>1, <2>2 DEF WillPurge, InJob, ChangeContent
  <1>3. ASSUME NEW q \in Paths, Write(q)
        PROVE  WillPurge(p)'
    <2>1. CASE p = q
      <3>1. writer'[p] = "wrote" /\ p \in IndexPaths \cup DerivedPaths
        BY <1>3, <2>1 DEF Write, JobTypes, Paths
      <3> QED
        BY <3>1 DEF WillPurge
    <2>2. CASE p # q
      <3>1. Stale("fastly", p)
        BY <1>3, <2>2 DEF Write, Stale, FileTypes
      <3>2. due'[p] = due[p] /\ writer'[p] = writer[p] /\ cdnJobs' = cdnJobs
        BY <1>3, <2>2 DEF Write, JobTypes
      <3> QED
        BY <1>0, <3>1, <3>2 DEF WillPurge, InJob
    <2> QED
      BY <2>1, <2>2
  <1>4. ASSUME NEW q \in Paths, PurgeFastly(q)
        PROVE  WillPurge(p)'
    <2>1. p # q /\ Stale("fastly", p)
      <3>1. CASE edge' = Purged("fastly", {q})
        <4>1. edge'["fastly"][p] = IF p \in {q} THEN None ELSE edge["fastly"][p]
          BY <1>0, <3>1, PurgedEdge
        <4> QED
          BY <1>4, <4>1 DEF PurgeFastly, Stale
      <3>2. CASE lost' = lost \cup {<<"fastly", q>>} /\ UNCHANGED edge
        BY <1>4, <3>2 DEF PurgeFastly, Stale
      <3> QED
        BY <1>4, <3>1, <3>2 DEF PurgeFastly
    <2>2. due' = due /\ writer'[p] = writer[p] /\ cdnJobs' = cdnJobs
      BY <1>4, <2>1 DEF PurgeFastly, JobTypes
    <2> QED
      BY <1>0, <2>1, <2>2 DEF WillPurge, InJob
  <1>5. ASSUME NEW q \in Paths, QueuePath(q) \/ Schedule(q)
        PROVE  WillPurge(p)'
    <2>1. Stale("fastly", p) /\ due' = due /\ cdnJobs' = cdnJobs
      BY <1>5 DEF QueuePath, Schedule, Stale, files
    <2>2. /\ p \in IndexPaths /\ writer[p] = "wrote" => writer'[p] = "wrote"
          /\ p \in DerivedPaths /\ writer[p] # "idle" => writer'[p] # "idle"
      BY <1>5, CdnAssumption DEF QueuePath, Schedule, JobTypes
    <2> QED
      BY <1>0, <2>1, <2>2 DEF WillPurge, InJob
  <1>6. ASSUME NEW q \in Paths, NEW feed \in BOOLEAN, GiveUp(q, feed)
        PROVE  WillPurge(p)'
    <2>1. Stale("fastly", p) /\ due' = due /\ cdnJobs' = cdnJobs
      BY <1>6 DEF GiveUp, Stale, files
    <2>2. CASE p = q
      <3>1. ~feed
        BY <1>0, <1>6, <2>2 DEF GiveUp
      <3>2. p \in DerivedPaths /\ writer'[p] = "scheduled"
        BY <1>6, <2>2, <3>1 DEF GiveUp, JobTypes
      <3> QED
        BY <3>2 DEF WillPurge
    <2>3. CASE p # q
      <3>1. writer'[p] = writer[p]
        BY <1>6, <2>3 DEF GiveUp, JobTypes
      <3> QED
        BY <1>0, <2>1, <3>1 DEF WillPurge, InJob
    <2> QED
      BY <2>2, <2>3
  <1>7. ASSUME NEW q \in Paths, WriterFail(q)
        PROVE  WillPurge(p)'
    <2>1. Stale("fastly", p) /\ cdnJobs' = cdnJobs
      BY <1>7 DEF WriterFail, Stale, files
    <2>2. due'[p] = TRUE \/ (due'[p] = due[p] /\ writer'[p] = writer[p])
      BY <1>7 DEF WriterFail, JobTypes
    <2> QED
      BY <1>0, <2>1, <2>2 DEF WillPurge, InJob
  <1>8. CASE DeleteCrateFromStorage
    <2>1. /\ InJob(p)' \/ (Stale("fastly", p) /\ due'[p] = due[p])
          /\ InJob(p) => InJob(p)'
      BY <1>0, <1>8, DeletionTells
    <2>2. writer' = writer
      BY <1>8 DEF DeleteCrateFromStorage
    <2> QED
      BY <1>0, <2>1, <2>2 DEF WillPurge
  <1>9. CASE DeleteCrateFail
    <2>1. Stale("fastly", p)
      BY <1>0, <1>9, FailedDeletionTells
    <2> QED
      BY <1>0, <1>9, <2>1 DEF DeleteCrateFail, WillPurge, InJob, jobs
  <1>10. ASSUME NEW ps \in cdnJobs, CdnPurge(ps)
         PROVE  WillPurge(p)'
    <2>1. edge'["fastly"][p] = IF p \in ps THEN None ELSE edge["fastly"][p]
      BY <1>0, <1>10, PurgedEdge DEF CdnPurge
    <2>2. p \notin ps /\ Stale("fastly", p)
      BY <1>10, <2>1 DEF CdnPurge, Stale
    <2>3. InJob(p) => InJob(p)'
      BY <1>10, <2>2 DEF CdnPurge, InJob
    <2> QED
      BY <1>0, <1>10, <2>2, <2>3 DEF CdnPurge, WillPurge
  <1>11. CASE CdnQueue \/ CdnSchedule \/ CdnFail
    BY <1>1, <1>11 DEF CdnQueue, CdnSchedule, CdnFail, files
  <1>12. CASE ProcessNext \/ Backoff \/ ProcessFail
    <2>1. edge'["fastly"] = edge["fastly"]
      BY <1>0, <1>12
         DEF ProcessNext, ProcessStart, ProcessFetch, Invalidate, RemoveItems, Backoff, ProcessFail,
             Purged, FileTypes, files
    <2>2. UNCHANGED <<origin, due, writer, cdnJobs>>
      BY <1>12
         DEF ProcessNext, ProcessStart, ProcessFetch, Invalidate, RemoveItems, Backoff, ProcessFail,
             files, jobs
    <2> QED
      BY <1>1, <2>1, <2>2
  <1>13. ASSUME NEW c \in Cdns, NEW q \in Paths, EdgeFetch(c, q)
         PROVE  WillPurge(p)'
    <2>1. Stale("fastly", p)
      BY <1>0, <1>13 DEF EdgeFetch, Stale, FileTypes
    <2> QED
      BY <1>0, <1>13, <2>1 DEF EdgeFetch, WillPurge, InJob, jobs
  <1> QED
    BY <1>2, <1>3, <1>4, <1>5, <1>6, <1>7, <1>8, <1>9, <1>10, <1>11, <1>12, <1>13
       DEF CdnNext, WriterNext, PurgeNext


\* What the run of the processing job has still to send, and what happens to the caches.
LEMMA ProcessTells ==
  ASSUME CdnTypes, ProcessNext \/ Backoff \/ ProcessFail, NEW p \in Paths, Stale("cloudfront", p)'
  PROVE  Stale("cloudfront", p) /\ (InQueue(p) => InQueue(p)')
  <1> USE DEF CdnTypes
  <1>0. process \in Processings /\ process.run \in ProcessRuns
    BY DEF JobTypes, Processings
  <1>1. ASSUME UNCHANGED <<files, items>>, process'.run.pc # "accepted"
        PROVE  Stale("cloudfront", p) /\ (InQueue(p) => InQueue(p)')
    BY <1>1 DEF Stale, InQueue, Settled, files
  <1>2. CASE ProcessStart \/ ProcessFail
    <2>1. process'.run \in {NoBatch, [NoBatch EXCEPT !.pc = "next"]}
      BY <1>0, <1>2 DEF ProcessStart, ProcessFail, Processings
    <2>2. process'.run.pc # "accepted"
      BY <2>1 DEF NoBatch
    <2> QED
      BY <1>1, <1>2, <2>2 DEF ProcessStart, ProcessFail, queue
  <1>3. CASE ProcessFetch
    <2>1. process'.run.pc # "accepted"
      BY <1>0, <1>3 DEF ProcessFetch, NoBatch, Processings
    <2> QED
      BY <1>1, <1>3, <2>1 DEF ProcessFetch, queue
  <1>4. CASE Backoff
    <2>1. process'.run.pc = "fetched"
      BY <1>0, <1>4 DEF Backoff, Processings, ProcessRuns
    <2> QED
      BY <1>1, <1>4, <2>1 DEF Backoff, queue
  <1>5. CASE Invalidate
    <2>1. "cloudfront" \in Cdns
      BY DEF Cdns
    <2>2. edge'["cloudfront"][p] = IF p \in BatchPaths THEN None ELSE edge["cloudfront"][p]
      BY <1>5, <2>1, PurgedEdge DEF Invalidate
    <2>3. p \notin BatchPaths /\ Stale("cloudfront", p)
      BY <1>5, <2>2 DEF Invalidate, Stale
    <2>4. items' = items /\ process'.run.batch = process.run.batch
      BY <1>0, <1>5 DEF Invalidate, Processings, ProcessRuns, queue
    <2>5. Settled' \subseteq process.run.batch
      BY <2>4 DEF Settled
    <2> QED
      BY <2>3, <2>4, <2>5 DEF InQueue, BatchPaths
  <1>6. CASE RemoveItems
    <2>1. process'.run.pc = "next"
      BY <1>0, <1>6 DEF RemoveItems, NoBatch, Processings
    <2>2. Settled = process.run.batch /\ Settled' = {} /\ items' = items \ process.run.batch
      BY <1>6, <2>1 DEF RemoveItems, Settled
    <2> QED
      BY <1>6, <2>2 DEF RemoveItems, InQueue, Stale, files
  <1> QED
    BY <1>2, <1>3, <1>4, <1>5, <1>6 DEF ProcessNext

\* CloudFront: whoever changes a file puts its path into the queue, or has it in a job, and the
\* row stays until CloudFront has accepted it.
LEMMA StepInvalidateInd ==
  ASSUME CdnTypes, CrateInd, InvalidateInd, CdnNext
  PROVE  InvalidateInd'
  <1> SUFFICES ASSUME NEW p \in Paths, Stale("cloudfront", p)', <<"cloudfront", p>> \notin lost'
               PROVE  WillInvalidate(p)'
    BY DEF InvalidateInd
  <1> USE DEF CdnTypes
  <1>0. /\ "fastly" \in Cdns /\ "cloudfront" \in Cdns /\ <<"cloudfront", p>> \notin lost
        /\ Stale("cloudfront", p) => WillInvalidate(p)
        /\ process \in Processings
    <2>1. lost \subseteq lost'
      BY StepFileTypes
    <2> QED
      BY <2>1 DEF InvalidateInd, Cdns, JobTypes
  <1>1. ASSUME items \subseteq items', process'.run = process.run, InQueue(p)
        PROVE  InQueue(p)'
    BY <1>1 DEF InQueue, Settled
  <1>2. ASSUME NEW ps \in SUBSET Paths, IsFiniteSet(ps), QueuePaths(ps), process' = process
        PROVE  /\ InQueue(p) => InQueue(p)'
               /\ p \in ps => InQueue(p)'
    <2>1. items \subseteq items' /\ \A q \in ps : \E i \in items' \ items : i.path = q
      BY <1>2, QueuePathsAdds
    <2>2. Settled' \subseteq items
      BY <1>2 DEF Settled, RowTypes
    <2> QED
      BY <1>1, <1>2, <2>1, <2>2 DEF InQueue
  <1>3. ASSUME EnqueueProcess, UNCHANGED queue
        PROVE  InQueue(p) => InQueue(p)'
    <2>1. process'.run = process.run
      BY <1>0, <1>3 DEF EnqueueProcess, Processings
    <2> QED
      BY <1>1, <1>3, <2>1 DEF queue
  <1>4. ASSUME UNCHANGED <<queue, process>>
        PROVE  InQueue(p) => InQueue(p)'
    BY <1>1, <1>4 DEF queue
  <1>5. ASSUME NEW q \in Paths, ChangeContent(q)
        PROVE  WillInvalidate(p)'
    <2>1. Stale("cloudfront", p)
      BY <1>5 DEF Stale, ChangeContent
    <2>2. due'[p] \in BOOLEAN /\ (due[p] => due'[p])
      BY <1>5 DEF ChangeContent, JobTypes
    <2> QED
      BY <1>0, <1>4, <1>5, <2>1, <2>2 DEF WillInvalidate, InJob, ChangeContent
  <1>6. ASSUME NEW q \in Paths, Write(q)
        PROVE  WillInvalidate(p)'
    <2>1. CASE p = q
      BY <1>6, <2>1 DEF Write, JobTypes, WillInvalidate
    <2>2. CASE p # q
      <3>1. Stale("cloudfront", p)
        BY <1>6, <2>2 DEF Write, Stale, FileTypes
      <3>2. due'[p] = due[p] /\ writer'[p] = writer[p] /\ UNCHANGED <<cdnJobs, cdnRun, queue, process>>
        BY <1>6, <2>2 DEF Write, JobTypes
      <3> QED
        BY <1>0, <1>4, <3>1, <3>2 DEF WillInvalidate, InJob
    <2> QED
      BY <2>1, <2>2
  <1>7. ASSUME NEW q \in Paths, PurgeFastly(q)
        PROVE  WillInvalidate(p)'
    <2>1. edge'["cloudfront"] = edge["cloudfront"]
      BY <1>0, <1>7 DEF PurgeFastly, Purged, FileTypes
    <2>2. Stale("cloudfront", p)
      BY <1>7, <2>1 DEF PurgeFastly, Stale
    <2>3. writer[p] \in {"wrote", "purged"} => writer'[p] \in {"wrote", "purged"}
      BY <1>7 DEF PurgeFastly, JobTypes
    <2>4. UNCHANGED <<due, cdnJobs, cdnRun, queue, process>>
      BY <1>7 DEF PurgeFastly
    <2> QED
      BY <1>0, <1>4, <2>2, <2>3, <2>4 DEF WillInvalidate, InJob
  <1>8. ASSUME NEW q \in Paths, QueuePath(q)
        PROVE  WillInvalidate(p)'
    <2>1. Stale("cloudfront", p) /\ UNCHANGED <<due, cdnJobs, cdnRun>>
      BY <1>8 DEF QueuePath, Stale, files
    <2>2. /\ InQueue(p) => InQueue(p)'
          /\ p = q => InQueue(p)'
      BY <1>2, <1>8, FS_Singleton DEF QueuePath
    <2>3. p # q => writer'[p] = writer[p]
      BY <1>8 DEF QueuePath, JobTypes
    <2> QED
      BY <1>0, <2>1, <2>2, <2>3 DEF WillInvalidate, InJob
  <1>9. ASSUME NEW q \in Paths, Schedule(q)
        PROVE  WillInvalidate(p)'
    <2>1. Stale("cloudfront", p) /\ UNCHANGED <<due, cdnJobs, cdnRun>>
      BY <1>9 DEF Schedule, Stale, files
    <2>2. InQueue(p) => InQueue(p)'
      BY <1>3, <1>9 DEF Schedule
    <2>3. writer[p] \in {"wrote", "purged"} => writer'[p] = writer[p]
      BY <1>9 DEF Schedule, JobTypes
    <2> QED
      BY <1>0, <2>1, <2>2, <2>3 DEF WillInvalidate, InJob
  <1>10. ASSUME NEW q \in Paths, NEW feed \in BOOLEAN, GiveUp(q, feed)
         PROVE  WillInvalidate(p)'
    <2>1. Stale("cloudfront", p) /\ UNCHANGED <<due, cdnJobs, cdnRun>>
      BY <1>10 DEF GiveUp, Stale, files
    <2>2. p # q
      BY <1>0, <1>10 DEF GiveUp
    <2>3. writer'[p] = writer[p]
      BY <1>10, <2>2 DEF GiveUp, JobTypes
    <2>4. process'.run = process.run /\ items' = items
      BY <1>0, <1>10 DEF GiveUp, Processings, queue
    <2>5. InQueue(p) => InQueue(p)'
      BY <1>1, <2>4
    <2> QED
      BY <1>0, <2>1, <2>3, <2>5 DEF WillInvalidate, InJob
  <1>11. ASSUME NEW q \in Paths, WriterFail(q)
         PROVE  WillInvalidate(p)'
    <2>1. Stale("cloudfront", p) /\ UNCHANGED <<cdnJobs, cdnRun, queue, process>>
      BY <1>11 DEF WriterFail, Stale, files
    <2>2. due'[p] = TRUE \/ (due'[p] = due[p] /\ writer'[p] = writer[p])
      BY <1>11 DEF WriterFail, JobTypes
    <2> QED
      BY <1>0, <1>4, <2>1, <2>2 DEF WillInvalidate, InJob
  <1>12. CASE DeleteCrateFromStorage
    <2>1. /\ InJob(p)' \/ (Stale("cloudfront", p) /\ due'[p] = due[p])
          /\ InJob(p) => InJob(p)'
      BY <1>0, <1>12, DeletionTells
    <2>2. UNCHANGED <<writer, cdnRun, queue, process>>
      BY <1>12 DEF DeleteCrateFromStorage
    <2> QED
      BY <1>0, <1>4, <2>1, <2>2 DEF WillInvalidate
  <1>13. CASE DeleteCrateFail
    <2>1. Stale("cloudfront", p)
      BY <1>0, <1>13, FailedDeletionTells
    <2> QED
      BY <1>0, <1>4, <1>13, <2>1 DEF DeleteCrateFail, WillInvalidate, InJob, jobs
  <1>14. ASSUME NEW ps \in cdnJobs, CdnPurge(ps)
         PROVE  WillInvalidate(p)'
    <2>1. edge'["cloudfront"] = edge["cloudfront"]
      BY <1>0, <1>14 DEF CdnPurge, Purged, FileTypes
    <2>2. Stale("cloudfront", p)
      BY <1>14, <2>1 DEF CdnPurge, Stale
    <2>3. InJob(p) => InJob(p)' \/ (cdnRun'.pc = "purged" /\ p \in cdnRun'.paths)
      BY <1>14 DEF CdnPurge, InJob
    <2>4. cdnRun.pc = "idle" /\ UNCHANGED <<due, writer, queue, process>>
      BY <1>14 DEF CdnPurge
    <2> QED
      BY <1>0, <1>4, <2>2, <2>3, <2>4 DEF WillInvalidate
  <1>15. CASE CdnQueue
    <2>1. cdnRun.paths \in SUBSET Paths /\ IsFiniteSet(cdnRun.paths)
      BY FS_Subset, CdnAssumption DEF JobTypes, CdnRuns, Paths
    <2>2. /\ InQueue(p) => InQueue(p)'
          /\ p \in cdnRun.paths => InQueue(p)'
      BY <1>2, <1>15, <2>1 DEF CdnQueue
    <2>3. Stale("cloudfront", p) /\ UNCHANGED <<due, writer, cdnJobs>>
      BY <1>15 DEF CdnQueue, Stale, files
    <2> QED
      BY <1>0, <2>2, <2>3 DEF WillInvalidate, InJob
  <1>16. CASE CdnSchedule
    <2>1. Stale("cloudfront", p) /\ UNCHANGED <<due, writer, cdnJobs>>
      BY <1>16 DEF CdnSchedule, Stale, files
    <2>2. cdnRun.pc # "purged" /\ (InQueue(p) => InQueue(p)')
      BY <1>3, <1>16 DEF CdnSchedule
    <2> QED
      BY <1>0, <2>1, <2>2 DEF WillInvalidate, InJob
  <1>17. CASE CdnFail
    <2>1. Stale("cloudfront", p) /\ UNCHANGED <<due, writer, queue, process>>
      BY <1>17 DEF CdnFail, Stale, files
    <2>2. InJob(p) \/ p \in cdnRun.paths => InJob(p)'
      BY <1>17 DEF CdnFail, InJob
    <2> QED
      BY <1>0, <1>4, <2>1, <2>2 DEF WillInvalidate
  <1>18. CASE ProcessNext \/ Backoff \/ ProcessFail
    <2>1. Stale("cloudfront", p) /\ (InQueue(p) => InQueue(p)')
      BY <1>18, ProcessTells
    <2>2. UNCHANGED <<due, writer, cdnJobs, cdnRun>>
      BY <1>18
         DEF ProcessNext, ProcessStart, ProcessFetch, Invalidate, RemoveItems, Backoff, ProcessFail, jobs
    <2> QED
      BY <1>0, <2>1, <2>2 DEF WillInvalidate, InJob
  <1>19. ASSUME NEW c \in Cdns, NEW q \in Paths, EdgeFetch(c, q)
         PROVE  WillInvalidate(p)'
    <2>1. Stale("cloudfront", p)
      BY <1>0, <1>19 DEF EdgeFetch, Stale, FileTypes
    <2> QED
      BY <1>0, <1>4, <1>19, <2>1 DEF EdgeFetch, WillInvalidate, InJob, jobs
  <1> QED
    BY <1>5, <1>6, <1>7, <1>8, <1>9, <1>10, <1>11, <1>12, <1>13, <1>14, <1>15, <1>16, <1>17, <1>18,
       <1>19 DEF CdnNext, WriterNext, PurgeNext


-----------------------------------------------------------------------------
(* The processing job.                                                     *)

\* Until a run of the processing job starts, whoever is about to enqueue one does, or gives up.
LEMMA ComingStays ==
  ASSUME CdnTypes, CdnNext, Coming, ~ProcessStart
  PROVE  Coming'
  <1> USE DEF CdnTypes
  <1>0. process \in Processings
    BY DEF JobTypes
  <1>1. ASSUME UNCHANGED <<jobs, process>>
        PROVE  Coming'
    BY <1>1 DEF Coming, jobs
  <1>2. ASSUME NEW q \in Paths, due'[q] \/ writer'[q] \in {"wrote", "purged", "queued"}
        PROVE  Coming'
    BY <1>2 DEF Coming
  <1>3. ASSUME EnqueueProcess
        PROVE  Coming'
    BY <1>0, <1>3 DEF EnqueueProcess, Processings, Coming
  <1>4. ASSUME NEW q \in Paths, ChangeContent(q) \/ WriterFail(q)
        PROVE  Coming'
    <2>1. due'[q]
      BY <1>4 DEF ChangeContent, WriterFail, JobTypes
    <2> QED
      BY <1>2, <2>1
  <1>5. ASSUME NEW q \in Paths, Write(q) \/ QueuePath(q)
        PROVE  Coming'
    <2>1. writer'[q] \in {"wrote", "queued"}
      BY <1>5 DEF Write, QueuePath, JobTypes
    <2> QED
      BY <1>2, <2>1
  <1>6. ASSUME NEW q \in Paths, PurgeFastly(q)
        PROVE  Coming'
    <2>1. CASE q \in IndexPaths
      <3>1. writer'[q] = "purged"
        BY <1>6, <2>1 DEF PurgeFastly, JobTypes
      <3> QED
        BY <1>2, <3>1
    <2>2. CASE q \notin IndexPaths
      <3>1. writer[q] = "scheduled" /\ \A p \in Paths \ {q} : writer'[p] = writer[p]
        BY <1>6, <2>2 DEF PurgeFastly, JobTypes
      <3> QED
        BY <1>6, <3>1 DEF PurgeFastly, Coming
    <2> QED
      BY <2>1, <2>2
  <1>7. ASSUME NEW q \in Paths, Schedule(q)
        PROVE  Coming'
    BY <1>3, <1>7 DEF Schedule
  <1>8. ASSUME NEW q \in Paths, NEW feed \in BOOLEAN, GiveUp(q, feed)
        PROVE  Coming'
    BY <1>0, <1>8 DEF GiveUp, Processings, Coming
  <1>9. CASE DeleteCrateFromStorage \/ CdnFail
    BY <1>9 DEF DeleteCrateFromStorage, CdnFail, Coming
  <1>10. CASE DeleteCrateFail
    BY <1>1, <1>10 DEF DeleteCrateFail
  <1>11. CASE (\E ps \in cdnJobs : CdnPurge(ps)) \/ CdnQueue
    <2>1. cdnRun'.pc \in {"purged", "queued"}
      BY <1>11 DEF CdnPurge, CdnQueue, JobTypes, CdnRuns
    <2> QED
      BY <2>1 DEF Coming
  <1>12. CASE CdnSchedule
    BY <1>3, <1>12 DEF CdnSchedule
  <1>13. CASE ProcessFetch \/ Invalidate \/ RemoveItems \/ Backoff
    <2>1. process'.waits = process.waits /\ process'.missed = process.missed
      BY <1>0, <1>13 DEF ProcessFetch, Invalidate, RemoveItems, Backoff, Processings
    <2>2. UNCHANGED jobs
      BY <1>13 DEF ProcessFetch, Invalidate, RemoveItems, Backoff
    <2> QED
      BY <2>1, <2>2 DEF Coming, jobs
  <1>14. CASE ProcessFail
    BY <1>0, <1>14 DEF ProcessFail, Processings, Coming
  <1>15. ASSUME NEW c \in Cdns, NEW q \in Paths, EdgeFetch(c, q)
         PROVE  Coming'
    BY <1>1, <1>15 DEF EdgeFetch
  <1> QED
    BY <1>4, <1>5, <1>6, <1>7, <1>8, <1>9, <1>10, <1>11, <1>12, <1>13, <1>14, <1>15
       DEF CdnNext, WriterNext, PurgeNext, ProcessNext

\* Who adds a row is about to enqueue the processing job.
LEMMA RowsAreFollowed ==
  ASSUME CdnTypes, CdnNext
  PROVE  items' \subseteq items \/ Coming'
  <1> USE DEF CdnTypes
  <1>1. ASSUME UNCHANGED queue
        PROVE  items' \subseteq items
    BY <1>1 DEF queue
  <1>2. ASSUME NEW p \in Paths, QueuePath(p)
        PROVE  Coming'
    <2>1. writer'[p] = "queued"
      BY <1>2 DEF QueuePath, JobTypes
    <2> QED
      BY <2>1 DEF Coming
  <1>3. CASE CdnQueue
    <2>1. cdnRun'.pc = "queued"
      BY <1>3 DEF CdnQueue, JobTypes, CdnRuns
    <2> QED
      BY <2>1 DEF Coming
  <1>4. ASSUME NEW p \in Paths,
               ChangeContent(p) \/ Write(p) \/ PurgeFastly(p) \/ Schedule(p) \/ WriterFail(p)
        PROVE  items' \subseteq items
    BY <1>1, <1>4 DEF ChangeContent, Write, PurgeFastly, Schedule, WriterFail
  <1>5. ASSUME NEW p \in Paths, NEW feed \in BOOLEAN, GiveUp(p, feed)
        PROVE  items' \subseteq items
    BY <1>1, <1>5 DEF GiveUp
  <1>6. CASE \/ DeleteCrateFromStorage \/ DeleteCrateFail \/ CdnSchedule \/ CdnFail
             \/ \E ps \in cdnJobs : CdnPurge(ps)
    BY <1>1, <1>6 DEF DeleteCrateFromStorage, DeleteCrateFail, CdnSchedule, CdnFail, CdnPurge
  <1>7. CASE ProcessNext \/ Backoff \/ ProcessFail
    BY <1>1, <1>7
       DEF ProcessNext, ProcessStart, ProcessFetch, Invalidate, RemoveItems, Backoff, ProcessFail
  <1>8. ASSUME NEW c \in Cdns, NEW p \in Paths, EdgeFetch(c, p)
        PROVE  items' \subseteq items
    BY <1>1, <1>8 DEF EdgeFetch
  <1> QED
    BY <1>2, <1>3, <1>4, <1>5, <1>6, <1>7, <1>8 DEF CdnNext, WriterNext, PurgeNext

\* ProcessCloudfrontInvalidationQueue: a run looks at the paths of the index first, and only
\* rows that were queued after that can be left when it ends.
LEMMA StepStrandedInd ==
  ASSUME CdnTypes, StrandedInd, CdnNext
  PROVE  StrandedInd'
  <1> USE DEF CdnTypes
  <1>0. process \in Processings /\ process.run \in ProcessRuns
    BY DEF JobTypes, Processings
  <1>1. ASSUME Coming'
        PROVE  StrandedInd'
    BY <1>1 DEF StrandedInd
  <1>2. ASSUME ~ProcessStart, items' \subseteq items, process'.run.dist = process.run.dist,
               process'.run.pc = "idle" <=> process.run.pc = "idle"
        PROVE  StrandedInd'
    <2>1. Coming => Coming'
      BY <1>2, ComingStays
    <2> QED
      BY <1>2, <2>1 DEF StrandedInd, Distribution
  <1>3. CASE ProcessStart
    <2>1. process'.run = [NoBatch EXCEPT !.pc = "next"]
      BY <1>0, <1>3 DEF ProcessStart, Processings
    <2>2. process'.run.pc = "next" /\ process'.run.dist = "Index"
      BY <2>1 DEF NoBatch
    <2> QED
      BY <2>2 DEF StrandedInd
  <1>4. CASE ProcessFetch
    <2>1. PICK d \in {"Index", "Static"} : d = process.run.dist
      BY <1>0 DEF ProcessRuns
    <2>2. process.run.pc = "next" /\ items' = items
      BY <1>4 DEF ProcessFetch, queue
    <2>3. ~ProcessStart
      BY <2>2 DEF ProcessStart
    <2>4. CASE FetchBatch(d) # {}
      <3>1. process'.run.pc = "fetched" /\ process'.run.dist = d
        BY <1>0, <1>4, <2>1, <2>4 DEF ProcessFetch, Processings
      <3> QED
        BY <1>2, <2>1, <2>2, <2>3, <3>1
    <2>5. CASE FetchBatch(d) = {} /\ d = "Index"
      <3>1. process'.run = [NoBatch EXCEPT !.pc = "next", !.dist = "Static"]
        BY <1>0, <1>4, <2>1, <2>5 DEF ProcessFetch, Processings
      <3>2. process'.run.pc = "next"
        BY <3>1 DEF NoBatch
      <3>3. \A i \in items : Distribution(i.path) # "Index"
        BY <2>5, FetchBatchOldest
      <3> QED
        BY <2>2, <3>2, <3>3 DEF StrandedInd, Distribution
    <2>6. CASE FetchBatch(d) = {} /\ d = "Static"
      <3>1. process'.run = NoBatch
        BY <1>0, <1>4, <2>1, <2>6 DEF ProcessFetch, Processings
      <3>2. process'.run.pc = "idle"
        BY <3>1 DEF NoBatch
      <3>3. \A i \in items : Distribution(i.path) # "Static"
        BY <2>6, FetchBatchOldest
      <3>4. \A i \in items : Distribution(i.path) = "Index"
        BY <3>3 DEF Distribution
      <3>5. items # {} => Coming
        BY <2>1, <2>2, <2>6, <3>4 DEF StrandedInd
      <3>6. items # {} => Coming'
        BY <2>3, <3>5, ComingStays
      <3> QED
        BY <2>2, <3>2, <3>6 DEF StrandedInd
    <2> QED
      BY <2>1, <2>4, <2>5, <2>6
  <1>5. CASE Invalidate \/ Backoff \/ RemoveItems
    <2>1. /\ process.run.pc \in {"fetched", "accepted"}
          /\ process'.run.pc \in {"fetched", "accepted", "next"}
          /\ process'.run.dist = process.run.dist
      <3>1. CASE Invalidate \/ Backoff
        BY <1>0, <3>1 DEF Invalidate, Backoff, Processings, ProcessRuns
      <3>2. CASE RemoveItems
        <4>1. process'.run = [NoBatch EXCEPT !.pc = "next", !.dist = process.run.dist]
          BY <1>0, <3>2 DEF RemoveItems, Processings
        <4> QED
          BY <3>2, <4>1 DEF RemoveItems, NoBatch
      <3> QED
        BY <1>5, <3>1, <3>2
    <2>2. items' \subseteq items
      BY <1>5 DEF Invalidate, Backoff, RemoveItems, queue
    <2>3. ~ProcessStart
      BY <2>1 DEF ProcessStart
    <2> QED
      BY <1>2, <2>1, <2>2, <2>3
  <1>6. CASE ProcessFail
    <2>1. process'.waits
      BY <1>0, <1>6 DEF ProcessFail, Processings
    <2> QED
      BY <1>1, <2>1 DEF Coming
  <1>7. CASE process'.waits \/ process'.missed
    BY <1>1, <1>7 DEF Coming
  <1>8. CASE process' = process /\ ~ProcessStart
    <2>1. items' \subseteq items \/ Coming'
      BY RowsAreFollowed
    <2> QED
      BY <1>1, <1>2, <1>8, <2>1
  <1> QED
    BY <1>3, <1>4, <1>5, <1>6, <1>7, <1>8, ProcessSteps

-----------------------------------------------------------------------------
\* The invariant is inductive.
LEMMA StepCdn == CdnInd /\ [CdnNext]_cdnVars => CdnInd'
  <1> SUFFICES ASSUME CdnInd, [CdnNext]_cdnVars
               PROVE  CdnInd'
    OBVIOUS
  <1>1. CASE CdnNext
    BY <1>1, StepFileTypes, StepJobTypes, StepRowTypes, StepCrateInd, StepPurgeInd,
       StepInvalidateInd, StepStrandedInd
       DEF CdnInd, CdnTypes
  <1>2. CASE UNCHANGED cdnVars
    <2>1. FileTypes' /\ JobTypes' /\ RowTypes'
      BY <1>2 DEF CdnInd, CdnTypes, FileTypes, JobTypes, RowTypes, Distribution, cdnVars, files,
                  jobs, queue
    <2>2. CrateInd' /\ StrandedInd'
      BY <1>2 DEF CdnInd, CrateInd, StrandedInd, Coming, Distribution, cdnVars, files, jobs, queue
    <2>3. PurgeInd' /\ InvalidateInd'
      BY <1>2 DEF CdnInd, PurgeInd, InvalidateInd, Stale, WillPurge, WillInvalidate, InJob, InQueue,
                  Settled, cdnVars, files, jobs, queue
    <2> QED
      BY <2>1, <2>2, <2>3 DEF CdnInd, CdnTypes
  <1> QED
    BY <1>1, <1>2

\* The jobs behind the CDNs: whatever fails, an outdated file in a cache is known to a job that
\* waits or runs, to an InvalidateCdns job or to a row of the queue, unless a job has given it
\* up; and no row is left without a processing job to come.
THEOREM CdnIsSound == CdnSpec => []CdnInv
  <1>1. CdnInd => CdnInv
    <2> SUFFICES ASSUME CdnInd
                 PROVE  CdnInv
      OBVIOUS
    <2> USE DEF CdnInd, CdnTypes
    <2>1. CdnTypeOK
      <3>1. process.run.attempt \in 0..MaxAttempts
        BY DEF JobTypes, Processings, ProcessRuns
      <3>2. \A i \in items : i.path \in Paths
        BY DEF RowTypes, Items
      <3> QED
        BY <3>1, <3>2 DEF CdnTypeOK, FileTypes, JobTypes, RowTypes, Contents
    <2>2. StaleIsRemembered
      <3> SUFFICES ASSUME NEW c \in Cdns, NEW p \in Paths, Stale(c, p), <<c, p>> \notin lost
                   PROVE  Remembered(c, p)
        BY DEF StaleIsRemembered
      <3>1. InJob(p) => \E ps \in cdnJobs \cup {cdnRun.paths} : p \in ps
        BY DEF InJob
      <3>2. InQueue(p) => \E i \in items : i.path = p
        BY DEF InQueue
      <3>3. CASE c = "fastly"
        BY <3>1, <3>3 DEF PurgeInd, WillPurge, Remembered
      <3>4. CASE c = "cloudfront"
        BY <3>1, <3>2, <3>4 DEF InvalidateInd, WillInvalidate, Remembered
      <3> QED
        BY <3>3, <3>4 DEF Cdns
    <2>3. NoItemStranded
      BY DEF StrandedInd, Coming, NoItemStranded
    <2> QED
      BY <2>1, <2>2, <2>3 DEF CdnInv
  <1> QED
    BY InitCdn, StepCdn, <1>1, PTL DEF CdnSpec
=============================================================================
