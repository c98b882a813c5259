---------------------------- MODULE MCCredentials ----------------------------
(***************************************************************************)
(* Small instances, for TLC, of the six modules about who may do what:     *)
(* sessions, mail addresses, API tokens, administrators, trusted           *)
(* publishing and the owners of a crate.  They share no state, so a        *)
(* behaviour is one of one of them, chosen in the initial state; the       *)
(* others stay where they begin.                                           *)
(***************************************************************************)
EXTENDS Sessions, MailAddresses, ApiTokens, Admins, TrustedPublishing, Ownership, TLC

CONSTANTS u1, u2, t1

VARIABLE part

\* Requests are called the same in all of them.
MCSymmetry == Permutations(Handlers)

MCInit ==
  /\ part \in {"sessions", "mail", "tokens", "admins", "trustpub", "owners"}
  /\ SessionsInit
  /\ MailInit
  /\ TokensInit
  /\ AdminsInit /\ (part # "admins" => permitted \cup members = {})
  /\ TrustpubInit /\ (part # "trustpub" => provider = "github")
  /\ Init

MCNext ==
  /\ UNCHANGED part
  /\ \/ part = "sessions" /\ SessionsNext
     \/ part # "sessions" /\ UNCHANGED sessionVars
  /\ \/ part = "mail" /\ MailNext
     \/ part # "mail" /\ UNCHANGED mailVars
  /\ \/ part = "tokens" /\ TokensNext
     \/ part # "tokens" /\ UNCHANGED tokenVars
  /\ \/ part = "admins" /\ AdminsNext
     \/ part # "admins" /\ UNCHANGED adminVars
  /\ \/ part = "trustpub" /\ TrustpubNext
     \/ part # "trustpub" /\ UNCHANGED trustpubVars
  /\ \/ part = "owners" /\ Next
     \/ part # "owners" /\ UNCHANGED vars

MCSpec ==
  MCInit /\ [][MCNext]_<<part, sessionVars, mailVars, tokenVars, adminVars, trustpubVars, vars>>

-----------------------------------------------------------------------------
\* One account has an address in its GitHub profile.
MCProfile == [u \in Accounts |-> IF u = "u1" THEN "a1" ELSE NoAddress]

MCScopes == {[endpoints |-> {}, crates |-> {}], [endpoints |-> {{"yank"}}, crates |-> {{"c"}}]}
MCExpiries == {NoExpiry, 1, 2}

\* A GitHub repository, and a GitLab project whose path is taken over by another
\* namespace.
Claim(from, repo, owner, environment, iat, exp) ==
  [provider |-> from, key |-> from, valid |-> TRUE, iat |-> iat, exp |-> exp,
   jti |-> owner, repo |-> repo, owner |-> owner, workflow |-> "release",
   environment |-> environment, event |-> "push"]

MCClaims ==
  LET claims == [hub |-> Claim("github", "O/R", "o1", "Prod", 0, 1),
                 lab1 |-> Claim("gitlab", "n/p", "n1", NoEnvironment, 0, 0),
                 lab2 |-> Claim("gitlab", "n/p", "n2", "prod", 2, 2)]
  IN [j \in Jwts |-> claims[j]]

MCLower == [n \in {"O/R", "o/r", "n/p", "Prod", "prod"} |->
              CASE n = "O/R" -> "o/r" [] n = "Prod" -> "prod" [] OTHER -> n]

Offer(from, repo, owner, environment) ==
  [crate |-> "c1", provider |-> from, repo |-> repo, owner |-> owner,
   workflow |-> "release", environment |-> environment]

MCOffers == {Offer("github", "o/r", "o1", "prod"), Offer("gitlab", "n/p", "n1", NoEnvironment)}

MCKeys == [p \in Providers |-> {p}]
=============================================================================
