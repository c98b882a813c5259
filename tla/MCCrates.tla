------------------------------- MODULE MCCrates ------------------------------
(***************************************************************************)
(* Small instances, for TLC, of what is kept of a crate: its versions, its *)
(* settings and its followers.  They share no state, so a behaviour is one *)
(* of one of them, chosen in the initial state; the others stay where they *)
(* begin.                                                                  *)
(***************************************************************************)
EXTENDS CrateVersions, CrateSettings, Following, TLC

VARIABLE part

\* Handlers are interchangeable, and so are workers and requests.
MCSymmetry == Permutations(Handlers) \cup Permutations(Workers)

\* One environment of those that give the same pools, and a follower that lags
\* where a pool leads to it.
OneOfAKind ==
  /\ dbEnv.offline = "leader" => ~ dbEnv.readOnly
  /\ dbEnv.offline = "follower" => dbEnv.replicaUrl = "follower"
  /\ (\A p \in Pools : PoolConfig[p].url = "leader") => followerDb = leaderDb

\* A part that stays where it begins has one beginning.
MCInit ==
  /\ part \in Jobs \cup {"settings", "follow"}
  /\ Init
  /\ SettingInit
  /\ part # "settings" =>
       setting = "on" /\ people = [u \in People |-> [owner |-> FALSE, mail |-> "none"]]
  /\ FollowInit /\ OneOfAKind
  /\ part # "follow" =>
       dbEnv = [replicaUrl |-> "follower", offline |-> "no", readOnly |-> FALSE] /\ followerDb = leaderDb

\* In one part of the behaviours the default version job runs and the index job
\* waits, in another it is the other way round; only there requests have
\* messages.  The two jobs share no state.
VersionsNext ==
  /\ Next
  /\ part = "default" =>
       rows'["index"] >= rows["index"] /\ \A h \in Handlers : text'[h] = NoMessage
  /\ part = "index" => UNCHANGED wpc

MCNext ==
  /\ UNCHANGED part
  /\ \/ part \in Jobs /\ VersionsNext
     \/ part \notin Jobs /\ UNCHANGED vars
  /\ \/ part = "settings" /\ SettingNext
     \/ part # "settings" /\ UNCHANGED settingVars
  /\ \/ part = "follow" /\ FollowNext
     \/ part # "follow" /\ UNCHANGED followVars

MCSpec == MCInit /\ [][MCNext]_<<part, vars, settingVars, followVars>>
=============================================================================
