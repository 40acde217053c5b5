---------------------------- MODULE RateLimiter ----------------------------
(***************************************************************************)
(* host-agent's per-CN fixed-window rate limiter (rate_limit.rs) and the   *)
(* clock it shares with the approval manager.  A bucket is created by the  *)
(* first request of a CN, restarted by the first request after its window  *)
(* has passed, and dropped by a background task once two windows have      *)
(* passed.                                                                 *)
(***************************************************************************)
EXTENDS Integers

CONSTANTS
  Caller,       \* client certificate CNs
  RateEnabled,  \* rate_limit.enabled
  MaxRequests,  \* rate_limit.max_requests
  Window,       \* rate_limit.window_seconds
  NoBucket,     \* no bucket for this CN
  MaxTime       \* bound: the last instant the model reaches

Bucket == [count : Nat, window_start : Nat]

ASSUME RateAssumption ==
  /\ RateEnabled \in BOOLEAN
  /\ MaxRequests \in Nat
  /\ Window \in Nat \ {0}
  /\ MaxTime \in Nat
  /\ NoBucket \notin Bucket

VARIABLES
  now,      \* the clock
  buckets   \* CN -> Bucket or NoBucket

rateVars == <<now, buckets>>

RateTypeOK ==
  /\ now \in 0..MaxTime
  /\ buckets \in [Caller -> Bucket \cup {NoBucket}]

RateInit ==
  /\ now = 0
  /\ buckets = [c \in Caller |-> NoBucket]

\* The bucket check works on: the stored one, or a new empty one.
Opened(c) ==
  IF buckets[c] = NoBucket THEN [count |-> 0, window_start |-> now]
                           ELSE buckets[c]

\* Mutant: a window is over as soon as the clock has moved.
WindowPassed_Tick(b) == now - b.window_start > 0

WindowPassed(b) == now - b.window_start >= Window

\* check(c) answers Ok.
Admits(c) ==
  \/ ~RateEnabled
  \/ WindowPassed(Opened(c))
  \/ Opened(c).count < MaxRequests

\* The bucket check leaves behind.
Charged(c) ==
  LET b == Opened(c)
  IN  IF ~RateEnabled THEN buckets[c]
      ELSE IF WindowPassed(b) THEN [count |-> 1, window_start |-> now]
      ELSE IF b.count < MaxRequests THEN [b EXCEPT !.count = b.count + 1]
      ELSE b

\* RateLimiter::check, with its verdict ok.
Check(c, ok) ==
  /\ ok = Admits(c)
  /\ buckets' = [buckets EXCEPT ![c] = Charged(c)]
  /\ UNCHANGED now

\* evict_expired keeps the buckets younger than two windows.
Evicted ==
  [c \in Caller |->
     IF buckets[c] # NoBucket /\ now - buckets[c].window_start < 2 * Window
     THEN buckets[c] ELSE NoBucket]

evict_expired ==
  /\ buckets' = Evicted
  /\ UNCHANGED now

Tick ==
  /\ now < MaxTime
  /\ now' = now + 1
  /\ UNCHANGED buckets
=============================================================================
