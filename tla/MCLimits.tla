------------------------------ MODULE MCLimits ------------------------------
(* The two rate limiters of the system, the host agent's and the adversary   *)
(* detector's, for TLC.  They share no state; a behaviour moves one of them. *)
EXTENDS RateLimiterHistory, TokenBucket, TLC

VARIABLE part

Symmetric == Permutations(Sources)

MCInit == LimiterInit /\ BucketInit /\ part \in {"window", "bucket"}

MCNext ==
  /\ \/ part = "window" /\ LimiterNext /\ UNCHANGED bvars
     \/ part = "bucket" /\ BucketNext /\ UNCHANGED limiterVars
  /\ UNCHANGED part

MCSpec == MCInit /\ [][MCNext]_<<limiterVars, bvars, part>>
=============================================================================
