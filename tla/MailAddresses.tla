---------------------------- MODULE MailAddresses ----------------------------
(***************************************************************************)
(* Users and their mail addresses.  The row of an address has a token; the *)
(* link with the token is mailed to the address, and whoever opens it      *)
(* verifies the row that has the token at that time.  A trigger of the     *)
(* table draws a new token when the address of a row changes.              *)
(*                                                                         *)
(* Mail is sent between the steps of a handler: by update_user after the   *)
(* statement that stored the address, by a first login and by              *)
(* resend_email_verification inside their transactions.                    *)
(***************************************************************************)
EXTENDS Naturals

CONSTANTS
  Accounts,   \* GitHub accounts
  Addresses,
  Profile,    \* the address in the GitHub profile of an account, or NoAddress
  Updates,    \* requests at a time
  MaxSecret   \* bound: tokens drawn

NoAddress == "no address"
NoSecret == 0

ASSUME MailAssumption ==
  /\ NoAddress \notin Addresses
  /\ Profile \in [Accounts -> Addresses \cup {NoAddress}]
  /\ MaxSecret \in Nat

VARIABLES
  registered, \* the accounts that have a row in users, by the times they logged in
  emails,     \* per user: address, token and verified
  upc,        \* per request: "idle", "mailing", "mailed" or "resending"
  about,      \* per request: the user, the address and the token of its mail
  drawn,      \* tokens drawn so far
  mailbox,    \* mails that were delivered: address, user and token
  opened      \* history: for which users a link mailed to which address was opened

mailVars == <<registered, emails, upc, about, drawn, mailbox, opened>>

NoRowOfEmail == [addr |-> NoAddress, token |-> NoSecret, verified |-> FALSE]
Nothing == [user |-> NoAddress, addr |-> NoAddress, token |-> NoSecret]

MailInit ==
  /\ registered = {}
  /\ emails = [u \in Accounts |-> NoRowOfEmail]
  /\ upc = [r \in Updates |-> "idle"]
  /\ about = [r \in Updates |-> Nothing]
  /\ drawn = 0
  /\ mailbox = {}
  /\ opened = {}

\* Nobody has the row of the user locked: the transactions of a first login and of
\* resend_email_verification keep it until they end.
AccountUnlocked(u) == \A r \in Updates : upc[r] \in {"resending", "mailed"} => about[r].user # u

Mailing(r, u, addr, token, next) ==
  /\ upc[r] = "idle"
  /\ upc' = [upc EXCEPT ![r] = next]
  /\ about' = [about EXCEPT ![r] = [user |-> u, addr |-> addr, token |-> token]]

Done(r) ==
  /\ upc' = [upc EXCEPT ![r] = "idle"]
  /\ about' = [about EXCEPT ![r] = Nothing]

\* create_or_update_user: insert_if_missing leaves an address that is there alone.
\* The mail of a first login is sent before the commit, and its failure is swallowed;
\* here the transaction is one step, in which the mail is or is not delivered.
LogInUser(u) ==
  /\ AccountUnlocked(u)
  /\ registered' = registered \cup {u}
  /\ IF Profile[u] # NoAddress /\ emails[u] = NoRowOfEmail
     THEN /\ drawn < MaxSecret
          /\ drawn' = drawn + 1
          /\ emails' = [emails EXCEPT ![u] =
                          [addr |-> Profile[u], token |-> drawn + 1, verified |-> FALSE]]
          /\ \E sent \in SUBSET {[to |-> Profile[u], user |-> u, token |-> drawn + 1]} :
               mailbox' = mailbox \cup sent
     ELSE UNCHANGED <<drawn, emails, mailbox>>
  /\ UNCHANGED <<upc, about, opened>>

\* The transaction is rolled back, after the mail with its token was sent.
LogInUserFails(u) ==
  /\ emails[u] = NoRowOfEmail /\ Profile[u] # NoAddress
  /\ drawn < MaxSecret
  /\ drawn' = drawn + 1
  /\ mailbox' = mailbox \cup {[to |-> Profile[u], user |-> u, token |-> drawn + 1]}
  /\ UNCHANGED <<registered, emails, upc, about, opened>>

\* Mutant: the address of a row changes and its token does not.
Reconfirmed_kept(row, addr, token) ==
  [addr |-> addr, token |-> IF row.token = NoSecret THEN token ELSE row.token, verified |-> FALSE]

\* NewEmail::insert_or_update sets verified to false; the trigger
\* reconfirm_email_on_email_change draws a token when the address is a new one.
Reconfirmed(row, addr, token) ==
  [addr |-> addr, token |-> IF row.addr = addr THEN row.token ELSE token, verified |-> FALSE]

\* update_user with an address: the row is stored,
UpdateEmail(r, u, addr) ==
  LET row == Reconfirmed(emails[u], addr, drawn + 1) IN
  /\ u \in registered
  /\ AccountUnlocked(u)
  /\ drawn < MaxSecret
  /\ drawn' = drawn + 1
  /\ emails' = [emails EXCEPT ![u] = row]
  /\ Mailing(r, u, addr, row.token, "mailing")
  /\ UNCHANGED <<registered, mailbox, opened>>

\* and then mail is sent to the address of the request, or is not.
SendConfirmation(r) ==
  /\ upc[r] = "mailing"
  /\ \E sent \in SUBSET {[to |-> about[r].addr, user |-> about[r].user, token |-> about[r].token]} :
       mailbox' = mailbox \cup sent
  /\ Done(r)
  /\ UNCHANGED <<registered, emails, drawn, opened>>

\* resend_email_verification: in a transaction the row gets a new token,
Resend(r, u) ==
  /\ u \in registered
  /\ AccountUnlocked(u)
  /\ emails[u] # NoRowOfEmail
  /\ drawn < MaxSecret
  /\ drawn' = drawn + 1
  /\ Mailing(r, u, emails[u].addr, drawn + 1, "resending")
  /\ UNCHANGED <<registered, emails, mailbox, opened>>

\* the mail is sent,
SendResent(r) ==
  /\ upc[r] = "resending"
  /\ mailbox' = mailbox \cup {[to |-> about[r].addr, user |-> about[r].user, token |-> about[r].token]}
  /\ upc' = [upc EXCEPT ![r] = "mailed"]
  /\ UNCHANGED <<registered, emails, about, drawn, opened>>

\* and the token is committed,
CommitResent(r) ==
  /\ upc[r] = "mailed"
  /\ emails' = [emails EXCEPT ![about[r].user].token = about[r].token]
  /\ Done(r)
  /\ UNCHANGED <<registered, drawn, mailbox, opened>>

\* or everything is rolled back, when the mail or the commit fails.
ResendFails(r) ==
  /\ upc[r] \in {"resending", "mailed"}
  /\ Done(r)
  /\ UNCHANGED <<registered, emails, drawn, mailbox, opened>>

\* confirm_user_email: a link is opened.  The row that has its token, if there is one,
\* is verified; the update waits for a transaction that has the row.
ConfirmUserEmail(m) ==
  /\ opened' = opened \cup {[user |-> m.user, addr |-> m.to]}
  /\ \A u \in Accounts : emails[u].token = m.token => AccountUnlocked(u)
  /\ emails' = [u \in Accounts |-> IF emails[u].token = m.token
                                   THEN [emails[u] EXCEPT !.verified = TRUE] ELSE emails[u]]
  /\ UNCHANGED <<registered, upc, about, drawn, mailbox>>

MailNext ==
  \/ \E u \in Accounts : LogInUser(u) \/ LogInUserFails(u)
  \/ \E r \in Updates, u \in Accounts : Resend(r, u) \/ \E a \in Addresses : UpdateEmail(r, u, a)
  \/ \E r \in Updates : SendConfirmation(r) \/ SendResent(r) \/ CommitResent(r) \/ ResendFails(r)
  \/ \E m \in mailbox : ConfirmUserEmail(m)

MailSpec == MailInit /\ [][MailNext]_mailVars

-----------------------------------------------------------------------------
\* Rows and requests have their types, and no two rows share a token.
MailTypeOK ==
  /\ registered \subseteq Accounts
  /\ \A u \in Accounts : emails[u] = NoRowOfEmail \/ /\ u \in registered
                                                     /\ emails[u].addr \in Addresses
                                                     /\ emails[u].token \in 1 .. drawn
  /\ \A u, v \in Accounts : u # v /\ emails[u].token = emails[v].token => emails[u].token = NoSecret
  /\ \A r \in Updates : (upc[r] = "idle") <=> (about[r] = Nothing)

\* emails.verified: publish and the owners' handlers rely on it.  An address is
\* verified only when a link that was mailed to this very address for this user was
\* opened: not by a link mailed to an earlier address, however late it is opened and
\* however updates and resends overlap.
VerifiedMeansOpened ==
  \A u \in Accounts : emails[u].verified =>
    [user |-> u, addr |-> emails[u].addr] \in opened

\* The rows of emails: an address counts as verified only when a link mailed to it was
\* opened.
MailInv == MailTypeOK /\ VerifiedMeansOpened

=============================================================================
