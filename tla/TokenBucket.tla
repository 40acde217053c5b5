---------------------------- MODULE TokenBucket ----------------------------
(***************************************************************************)
(* The per-source rate limiter in front of AdversaryDetector::fetch        *)
(* (crates/adversary-detector/src/proxy.rs): a bucket of whole tokens that *)
(* is refilled from the time since its last refill, and a bound on the     *)
(* number of sources that are tracked.  Time is counted in ticks; the      *)
(* configured rate is Num tokens in Den ticks.                             *)
(***************************************************************************)
EXTENDS Naturals, Sequences, FiniteSets

CONSTANTS
  Sources, burst_size, Num, Den,
  MaxSources, \* RATE_LIMITER_MAX_SOURCES
  MaxTick, MaxChecks \* bounds: of the clock, and of the checks per source

ASSUME BucketAssumption ==
  /\ burst_size \in Nat
  /\ Num \in Nat /\ Den \in Nat \ {0}
  /\ MaxSources \in Nat /\ MaxSources >= 4

VARIABLES
  tick,    \* Instant::now
  source_buckets, \* [tokens, refilled, accessed] of the sources that are tracked
  passed   \* history: when requests of a source passed, in its bucket's life

bvars == <<tick, source_buckets, passed>>

BucketInit ==
  /\ tick = 0
  /\ source_buckets = [s \in {} |-> 0]
  /\ passed = [s \in Sources |-> << >>]

(* One source of five goes, those that were not used for the longest.      *)
Oldest(gone) ==
  \A s \in gone, t \in DOMAIN source_buckets \ gone :
    source_buckets[s].accessed <= source_buckets[t].accessed

evict_if_needed(gone) ==
  IF Cardinality(DOMAIN source_buckets) <= MaxSources THEN gone = {}
  ELSE /\ gone \in SUBSET DOMAIN source_buckets
       /\ Cardinality(gone) = Cardinality(DOMAIN source_buckets) \div 5
       /\ Oldest(gone)

(* Mutant: the clock of the last refill is not moved.                      *)
RefillsTwice(b) ==
  LET more == ((tick - b.refilled) * Num) \div Den
      sum == b.tokens + more
  IN  [b EXCEPT !.tokens = IF sum > burst_size THEN burst_size ELSE sum,
                !.accessed = tick]

(* The refill of `check`: whole tokens only, and the clock of the last      *)
(* refill moves only if there was one.                                     *)
Refilled(b) ==
  LET more == ((tick - b.refilled) * Num) \div Den
      sum == b.tokens + more
  IN  IF more > 0
      THEN [tokens |-> IF sum > burst_size THEN burst_size ELSE sum,
            refilled |-> tick, accessed |-> tick]
      ELSE [b EXCEPT !.accessed = tick]

check(s) ==
  /\ Len(passed[s]) < MaxChecks
  /\ \E gone \in SUBSET DOMAIN source_buckets :
       /\ evict_if_needed(gone)
       /\ LET kept == DOMAIN source_buckets \ gone
              known == IF s \in kept THEN source_buckets[s]
                       ELSE [tokens |-> burst_size, refilled |-> tick,
                             accessed |-> tick]
              b == Refilled(known)
              pass == b.tokens > 0
              life == IF s \in kept THEN passed[s] ELSE << >>
          IN  /\ source_buckets' = [t \in kept \cup {s} |->
                               IF t # s THEN source_buckets[t]
                               ELSE IF pass THEN [b EXCEPT !.tokens = @ - 1]
                               ELSE b]
              /\ passed' = [t \in Sources |->
                              IF t = s THEN IF pass THEN Append(life, tick)
                                            ELSE life
                              ELSE IF t \in gone THEN << >> ELSE passed[t]]
  /\ UNCHANGED tick

Elapse ==
  /\ tick < MaxTick
  /\ tick' = tick + 1
  /\ UNCHANGED <<source_buckets, passed>>

BucketNext == Elapse \/ \E s \in Sources : check(s)

-----------------------------------------------------------------------------
(* In every interval, however the refills were rounded and whenever they    *)
(* happened, a source passes at most the burst and what the rate gives in   *)
(* that interval, rounded up; and the map of sources stays within one of    *)
(* its limit (check, evict_if_needed).                                      *)
BucketBound ==
  /\ \A s \in Sources : \A i, j \in DOMAIN passed[s] :
       i <= j =>
         j - i + 1 <= burst_size
                      + ((passed[s][j] - passed[s][i]) * Num + Den - 1) \div Den
  /\ Cardinality(DOMAIN source_buckets) <= MaxSources + 1
=============================================================================
