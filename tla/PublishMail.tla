---------------------------- MODULE PublishMail -----------------------------
(***************************************************************************)
(* SendPublishNotificationsJob: the mails to the owners of a crate about a *)
(* version that was published.  The job keeps no record of what it has     *)
(* sent: that a retry does not send mails twice rests on its being retried *)
(* only when no mail was sent.                                             *)
(*                                                                         *)
(* The mail server takes a mail or refuses it.  The wording, which depends *)
(* on who or what has published, is left out.                              *)
(***************************************************************************)
EXTENDS Integers, FiniteSets

CONSTANTS
  MailUsers,      \* users
  MaxMailFails,   \* bound: runs of the job that fail
  MaxMailChanges  \* bound: changes of owners, settings and addresses

ASSUME PublishMailAssumption ==
  IsFiniteSet(MailUsers) /\ MaxMailFails \in Nat /\ MaxMailChanges \in Nat

VARIABLES
  mailOwners,  \* the users that own the crate
  subscribed,  \* the users with publish_notifications
  confirmed,   \* the users with a verified address
  mailChanges, \* changes of these so far
  versionRow,  \* whether the version still exists
  mailJob,     \* "waits", "details", "sending" or "done"
  recipients,  \* the recipients the run has loaded and not yet tried
  numSent,     \* mails sent in this run
  mailFails,   \* runs that failed so far
  inbox,       \* history: per user, the mails that have arrived
  unheeded,    \* history: whether there was nobody to tell at some time
  killed       \* history: whether a worker ended in the middle of a run

noticeVars == <<mailOwners, subscribed, confirmed, mailChanges, versionRow, mailJob, recipients,
              numSent, mailFails, inbox, unheeded, killed>>
mailPeople == <<mailOwners, subscribed, confirmed, mailChanges>>

\* Owners that are users, want the mails, and have a verified address.
Recipients == mailOwners \cap subscribed \cap confirmed

\* The job was enqueued by the transaction that published the version.
NoticeInit ==
  /\ mailOwners \in SUBSET MailUsers /\ subscribed \in SUBSET MailUsers
  /\ confirmed \in SUBSET MailUsers
  /\ mailChanges = 0
  /\ versionRow = TRUE
  /\ mailJob = "waits"
  /\ recipients = {} /\ numSent = 0 /\ mailFails = 0
  /\ inbox = [u \in MailUsers |-> 0]
  /\ unheeded = (Recipients = {}) /\ killed = FALSE

Toggled(S, u) == IF u \in S THEN S \ {u} ELSE S \cup {u}

\* Owners come and go, settings and addresses change.
PeopleChange(u) ==
  /\ mailChanges < MaxMailChanges
  /\ mailChanges' = mailChanges + 1
  /\ \/ mailOwners' = Toggled(mailOwners, u) /\ UNCHANGED <<subscribed, confirmed>>
     \/ subscribed' = Toggled(subscribed, u) /\ UNCHANGED <<mailOwners, confirmed>>
     \/ confirmed' = Toggled(confirmed, u) /\ UNCHANGED <<mailOwners, subscribed>>
  /\ unheeded' = (unheeded \/ Recipients' = {})
  /\ UNCHANGED <<versionRow, mailJob, recipients, numSent, mailFails, inbox, killed>>

VersionDeleted ==
  /\ versionRow /\ versionRow' = FALSE
  /\ UNCHANGED <<mailPeople, mailJob, recipients, numSent, mailFails, inbox, unheeded, killed>>

LoadDetails ==
  /\ mailJob = "waits"
  /\ mailJob' = IF versionRow THEN "details" ELSE "done"
  /\ numSent' = 0
  /\ UNCHANGED <<mailPeople, versionRow, recipients, mailFails, inbox, unheeded, killed>>

\* With nobody to tell the job ends well.
LoadRecipients ==
  /\ mailJob = "details"
  /\ recipients' = Recipients
  /\ mailJob' = IF Recipients = {} THEN "done" ELSE "sending"
  /\ UNCHANGED <<mailPeople, versionRow, numSent, mailFails, inbox, unheeded, killed>>

\* One mail; a failure is logged, and the next one is tried.
SendMail(u, sent) ==
  /\ mailJob = "sending"
  /\ u \in recipients
  /\ recipients' = recipients \ {u}
  /\ inbox' = IF sent THEN [inbox EXCEPT ![u] = @ + 1] ELSE inbox
  /\ numSent' = IF sent THEN numSent + 1 ELSE numSent
  /\ UNCHANGED <<mailPeople, versionRow, mailJob, mailFails, unheeded, killed>>

\* The job fails, and is retried, when no mail at all was sent.
EndOfMails_strict ==
  /\ mailJob = "sending" /\ recipients = {}
  /\ \/ /\ mailFails < MaxMailFails
        /\ mailJob' = "waits" /\ mailFails' = mailFails + 1
     \/ numSent > 0 /\ mailJob' = "done" /\ UNCHANGED mailFails
  /\ UNCHANGED <<mailPeople, versionRow, recipients, numSent, inbox, unheeded, killed>>

EndOfMails ==
  /\ mailJob = "sending" /\ recipients = {}
  /\ \/ /\ numSent = 0 /\ mailFails < MaxMailFails
        /\ mailJob' = "waits" /\ mailFails' = mailFails + 1
     \/ numSent > 0 /\ mailJob' = "done" /\ UNCHANGED mailFails
  /\ UNCHANGED <<mailPeople, versionRow, recipients, numSent, inbox, unheeded, killed>>

\* A query fails, or the worker ends; in the latter case mails may be out.
RunCut ==
  /\ mailJob \in {"details", "sending"}
  /\ mailFails < MaxMailFails
  /\ mailFails' = mailFails + 1
  /\ mailJob' = "waits"
  /\ killed' = (killed \/ mailJob = "sending")
  /\ UNCHANGED <<mailPeople, versionRow, recipients, numSent, inbox, unheeded>>

NoticeNext ==
  \/ \E u \in MailUsers : PeopleChange(u)
  \/ VersionDeleted
  \/ LoadDetails
  \/ LoadRecipients
  \/ \E u \in MailUsers, sent \in BOOLEAN : SendMail(u, sent)
  \/ EndOfMails
  \/ RunCut

NoticeSpec == NoticeInit /\ [][NoticeNext]_noticeVars

-----------------------------------------------------------------------------

\* Types; while a run sends, its count is that of mails out in this run.
NoticeTypeOK ==
  /\ mailOwners \subseteq MailUsers /\ subscribed \subseteq MailUsers /\ confirmed \subseteq MailUsers
  /\ mailChanges \in 0..MaxMailChanges /\ mailFails \in 0..MaxMailFails
  /\ versionRow \in BOOLEAN /\ unheeded \in BOOLEAN /\ killed \in BOOLEAN
  /\ mailJob \in {"waits", "details", "sending", "done"}
  /\ recipients \subseteq MailUsers
  /\ inbox \in [MailUsers -> 0..MaxMailFails + 1]
  /\ numSent \in 0..Cardinality(MailUsers)

\* No owner gets the mail twice, however often the job is retried and however
\* the owners change meanwhile, unless a worker ended in the middle of a run.
MailOnce == killed \/ \A u \in MailUsers : inbox[u] =< 1

\* When the job has ended well, somebody was mailed, unless the version was
\* deleted or there was a time since the publication with nobody to tell.
SomeoneTold ==
  mailJob = "done" /\ (\A u \in MailUsers : inbox[u] = 0) => ~ versionRow \/ unheeded

\* SendPublishNotifications: nobody is mailed twice by the retries of a run, and the job
\* does not end well with nobody mailed while there was somebody to tell.
NoticeInv == NoticeTypeOK /\ MailOnce /\ SomeoneTold
=============================================================================
