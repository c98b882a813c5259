---------------------------- MODULE MCArtifacts -----------------------------
(***************************************************************************)
(* Small instances, for TLC, of what a publication is checked against and  *)
(* what the jobs make of it: the upload with its manifest, feeds, readmes, *)
(* images, mails to owners, the check for similar names and the index of   *)
(* archived downloads.                                                     *)
(* They share no state, so a behaviour is one of one of them, chosen in    *)
(* the initial state; the others stay where they begin.                    *)
(***************************************************************************)
EXTENDS Manifest, Feeds, Readmes, CrateImages, PublishMail, SimilarNames, ArchiveIndex, TLC

CONSTANTS w1, w2

VARIABLE part

\* Workers and tasks are called the same in all of them.
MCSymmetry == Permutations({w1, w2})

Parts == {"manifest", "feeds", "readmes", "images", "mail", "names", "archive"}

\* A part that stays where it begins has one beginning.
MCInit ==
  /\ part \in Parts
  /\ FeedInit /\ (part # "feeds" => watched = CHOOSE f \in FeedIds : TRUE)
  /\ ReadmeInit
  /\ ImageInit
  /\ NoticeInit /\ (part # "mail" => mailOwners \cup subscribed \cup confirmed = {})
  /\ TypoInit
  /\ part # "names" =>
       ~notify /\ fewDownloads = {} /\ ownersOf = [n \in Names |-> {}]
  /\ ArchiveInit
  /\ IF part = "manifest"
     THEN ManifestInit
     ELSE /\ input = Request(GoodBody, GoodEntries, GoodFields, NoFeatures, <<>>, MaxUpload)
          /\ PublishBegins

MCNext ==
  /\ UNCHANGED part
  /\ \/ part = "manifest" /\ ManifestNext
     \/ part # "manifest" /\ UNCHANGED manifestVars
  /\ \/ part = "feeds" /\ FeedNext
     \/ part # "feeds" /\ UNCHANGED feedVars
  /\ \/ part = "readmes" /\ ReadmeNext
     \/ part # "readmes" /\ UNCHANGED readmeVars
  /\ \/ part = "images" /\ ImageNext
     \/ part # "images" /\ UNCHANGED imageVars
  /\ \/ part = "mail" /\ NoticeNext
     \/ part # "mail" /\ UNCHANGED noticeVars
  /\ \/ part = "names" /\ TypoNext
     \/ part # "names" /\ UNCHANGED typoVars
  /\ \/ part = "archive" /\ ArchiveNext
     \/ part # "archive" /\ UNCHANGED archiveVars

MCSpec ==
  MCInit /\ [][MCNext]_<<part, manifestVars, feedVars, readmeVars, imageVars, noticeVars, typoVars, archiveVars>>

-----------------------------------------------------------------------------
\* A feed shows one item, and older ones of the last tick.
MCNumItems == [k \in Kinds |-> 1]
MCAge == [k \in Kinds |-> 1]

\* A crate that is popular, a name that adds a word to it and one that resembles it.
MCOldNames == {<<"foo">>}
MCNewNames == {<<"foo", "rs">>, <<"fooo">>}
MCResembles == {<<<<"fooo">>, <<"foo">>>>}
MCNameOwners == {<<"user", 1>>, <<"team", 1>>}
=============================================================================
