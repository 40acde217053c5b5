------------------------- MODULE RateLimiterHistory -------------------------
(***************************************************************************)
(* The rate limiter on its own, with a record of what it admitted: how     *)
(* many requests of each CN got through before each instant.               *)
(***************************************************************************)
EXTENDS RateLimiter

VARIABLE admitted   \* CN -> instant -> number of requests admitted before it

limiterVars == <<rateVars, admitted>>

Instant == 0..(MaxTime + Window)

LimiterInit ==
  /\ RateInit
  /\ admitted = [c \in Caller |-> [t \in Instant |-> 0]]

\* Bound: the requests of one CN admitted at one instant.
Burst == MaxRequests + 2

Ask(c) ==
  /\ admitted[c][now + 1] - admitted[c][now] < Burst
  /\ \E ok \in BOOLEAN :
       /\ Check(c, ok)
       /\ admitted' = [admitted EXCEPT ![c] =
            [t \in Instant |-> IF ok /\ t > now THEN @[t] + 1 ELSE @[t]]]

LimiterNext ==
  \/ \E c \in Caller : Ask(c)
  \/ evict_expired /\ UNCHANGED admitted
  \/ Tick /\ UNCHANGED admitted

LimiterSpec == LimiterInit /\ [][LimiterNext]_limiterVars

\* What a window may admit: the first request after one has passed is never
\* refused, not even at a limit of none.
Worth == IF MaxRequests = 0 THEN 1 ELSE MaxRequests

\* Fixed windows and eviction together never let more than two windows'
\* worth of requests through in any span as long as a window: a bucket is
\* never forgotten while it still counts (RateLimiter::check, evict_expired).
SlidingBound ==
  RateEnabled =>
    \A c \in Caller, t \in 0..MaxTime :
      admitted[c][t + Window] - admitted[c][t] <= 2 * Worth

=============================================================================
