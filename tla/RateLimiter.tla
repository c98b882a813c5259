---------------------------- MODULE RateLimiter -----------------------------
(***************************************************************************)
(* The token bucket of src/rate_limiter.rs for one user and one limited    *)
(* action; buckets of other users and actions are other rows.  A request   *)
(* takes its timestamp on the web server, reads the override of the user,  *)
(* and then upserts the bucket in one statement.  Requests of a user run   *)
(* concurrently on several servers, so the upserts need not happen in the  *)
(* order of their timestamps.                                              *)
(***************************************************************************)
EXTENDS Integers

CONSTANTS
  Requests,   \* requests of the user in flight at a time
  Rate,       \* refill_rate: the time after which a token is added
  Second,     \* the units of the clock in a second
  Burst,      \* the configured burst of the action
  Bursts,     \* the bursts an operator may put into publish_rate_overrides
  Ends,       \* and when such an override expires
  MaxTime,    \* bound: the clock
  MaxAnswers  \* bound: answered requests

ASSUME RateLimiterAssumption ==
  /\ Rate \in Nat \ {0}
  /\ Second \in Nat \ {0}
  /\ Burst \in Nat
  /\ Bursts \subseteq Nat
  /\ Ends \subseteq Nat
  /\ MaxTime \in Nat
  /\ MaxAnswers \in Nat

VARIABLES
  clock,      \* the time
  override,   \* the user's row of publish_rate_overrides; an expired row is as none
  exists,     \* the user has a row in publish_limit_buckets,
  tokens,     \*   with its tokens
  lastRefill, \*   and its last_refill
  pc,         \* per request: "idle", "timed" (has its now), "limited" (has its burst)
  now,        \* per request: its timestamp
  burst,      \* per request: the burst that applies to it
  answers,    \* history: the number of answered requests
  admitted,   \* history: the number of those that were let through
  created,    \* history: when the bucket was created
  refills,    \* history: tokens added to the bucket since it was created
  inverted,   \* history: tokens taken back from it, in upserts older than a refill
  highest,    \* history: the largest burst that has applied
  retryAfter  \* the time told with the last answer, when that was a rejection

bucket == <<exists, tokens, lastRefill>>
history == <<answers, admitted, created, refills, inverted, highest, retryAfter>>
rateVars == <<clock, override, bucket, pc, now, burst, history>>

\* The last answer was no rejection.
NotRejected == -1

\* TooManyRequests::response: the format of HTTP dates cuts a time to the second.
WholeSeconds(t) == Second * (t \div Second)

RateInit ==
  /\ clock = 0
  /\ override = [burst |-> 0, expires_at |-> 0]
  /\ exists = FALSE
  /\ tokens = 0
  /\ lastRefill = 0
  /\ pc = [r \in Requests |-> "idle"]
  /\ now = [r \in Requests |-> 0]
  /\ burst = [r \in Requests |-> 0]
  /\ answers = 0
  /\ admitted = 0
  /\ created = 0
  /\ refills = 0
  /\ inverted = 0
  /\ highest = 0
  /\ retryAfter = NotRejected

\* check_rate_limit: the request takes its timestamp, Utc::now().
TakeTime(r) ==
  /\ pc[r] = "idle"
  /\ pc' = [pc EXCEPT ![r] = "timed"]
  /\ now' = [now EXCEPT ![r] = clock]
  /\ UNCHANGED <<clock, override, bucket, burst, history>>

\* The burst that applies at time t: an override that has not expired goes
\* before the configuration.
BurstAt(t) == IF override.expires_at > t THEN override.burst ELSE Burst

\* take_token: the first statement reads the override.
ReadBurst(r) ==
  /\ pc[r] = "timed"
  /\ pc' = [pc EXCEPT ![r] = "limited"]
  /\ burst' = [burst EXCEPT ![r] = BurstAt(now[r])]
  /\ UNCHANGED <<clock, override, bucket, now, history>>

Least(a, b) == IF a <= b THEN a ELSE b
Greatest(a, b) == IF a >= b THEN a ELSE b

\* The tokens the time since the last refill is worth.  Negative when the bucket
\* was refilled at a time after t.
TokensToAdd(t) == (t - lastRefill) \div Rate

\* Mutant: a late request is counted as if it had waited for a refill.
TokensAfter_rounded_up(t, b) ==
  Least(b, Greatest(0, tokens - 1) + TokensToAdd(t) + 1)

TokensAfter(t, b) == Least(b, Greatest(0, tokens - 1) + TokensToAdd(t))

RefillAfter(t) == lastRefill + Rate * TokensToAdd(t)

\* Mutant: bucket.tokens > 1
Admits_above_one(n) == n > 1

\* check_rate_limit: bucket.tokens >= 1
Admits(n) == n >= 1

\* The upsert finds no row and inserts a full bucket.
InsertBucket(r) ==
  /\ ~exists
  /\ exists' = TRUE
  /\ tokens' = burst[r]
  /\ lastRefill' = now[r]
  /\ created' = now[r]
  /\ UNCHANGED <<refills, inverted>>

\* The upsert finds the row.
UpdateBucket(r) ==
  /\ exists
  /\ tokens' = TokensAfter(now[r], burst[r])
  /\ lastRefill' = RefillAfter(now[r])
  /\ refills' = refills + TokensToAdd(now[r])
  /\ inverted' = inverted + Greatest(0, -TokensToAdd(now[r]))
  /\ UNCHANGED <<exists, created>>

\* The request is over, and its variables with it.
End(r) ==
  /\ pc' = [pc EXCEPT ![r] = "idle"]
  /\ now' = [now EXCEPT ![r] = 0]
  /\ burst' = [burst EXCEPT ![r] = 0]

\* take_token: the upsert, and the answer of check_rate_limit.
Answer(r) ==
  /\ pc[r] = "limited"
  /\ answers < MaxAnswers
  /\ InsertBucket(r) \/ UpdateBucket(r)
  /\ End(r)
  /\ answers' = answers + 1
  /\ admitted' = IF Admits(tokens') THEN admitted + 1 ELSE admitted
  /\ retryAfter' = IF Admits(tokens') THEN NotRejected ELSE WholeSeconds(lastRefill' + Rate)
  /\ highest' = Greatest(highest, burst[r])
  /\ UNCHANGED <<clock, override>>

\* An operator writes the override by hand, with or without an end.
SetOverride ==
  /\ \E b \in Bursts, t \in Ends :
       override' = [burst |-> b, expires_at |-> t]
  /\ UNCHANGED <<clock, bucket, pc, now, burst, history>>

\* The connection or the server of a request is lost before the upsert.
Lose(r) ==
  /\ pc[r] # "idle"
  /\ End(r)
  /\ UNCHANGED <<clock, override, bucket, history>>

Tick ==
  /\ clock < MaxTime
  /\ clock' = clock + 1
  /\ UNCHANGED <<override, bucket, pc, now, burst, history>>

RateNext ==
  \/ \E r \in Requests : TakeTime(r) \/ ReadBurst(r) \/ Answer(r) \/ Lose(r)
  \/ SetOverride
  \/ Tick

RateSpec == RateInit /\ [][RateNext]_rateVars

-----------------------------------------------------------------------------
\* Times of requests and counts are naturals; tokens and last_refill may be negative.
RateTypeOK ==
  /\ clock \in Nat
  /\ override \in [burst : Nat, expires_at : Nat]
  /\ exists \in BOOLEAN
  /\ tokens \in Int /\ lastRefill \in Int
  /\ pc \in [Requests -> {"idle", "timed", "limited"}]
  /\ now \in [Requests -> Nat]
  /\ burst \in [Requests -> Nat]
  /\ answers \in Nat /\ admitted \in Nat /\ created \in Nat
  /\ inverted \in Nat /\ highest \in Nat
  /\ refills \in Int
  /\ retryAfter \in Int

\* The spendable tokens of the bucket: the next request to use it takes one.
Left == Greatest(0, tokens - 1)

\* take_token: the requests let through, and those the bucket still has tokens
\* for, are no more than the burst and one for every refill, whatever requests
\* ran at the same time and whatever overrides came and went.  A request whose
\* timestamp is older than a refill that came first takes that refill back, and
\* only such a request can bring a further token.
AdmissionBound == admitted + Left <= highest + refills + inverted

\* take_token: tokens are added for time that has passed and for nothing else:
\* the refill time advances by whole refills, no part of the time is lost to
\* requests that come in between, and it never runs ahead of the clock.  With it
\* the bound above is one in time.
RefillsAreTimed ==
  /\ lastRefill = created + Rate * refills
  /\ created <= clock
  /\ lastRefill <= clock

\* What take_token keeps true of a bucket, however requests overlap: admissions are
\* bounded by bursts and refills, and refills follow the clock.
RateInv == RateTypeOK /\ AdmissionBound /\ RefillsAreTimed

\* check_rate_limit: a user who was rejected and comes back when the second it was told
\* is over, and not with a burst of zero, is let through, whatever was rejected in
\* between.  One that comes back in that very second may be refused: the time it is
\* told is cut to the second, and last_refill is not.
RetryAfterHonoured ==
  [][\A r \in Requests :
       /\ Answer(r) /\ retryAfter # NotRejected
       /\ now[r] >= retryAfter + Second /\ burst[r] > 0
       => admitted' = admitted + 1]_rateVars
=============================================================================
