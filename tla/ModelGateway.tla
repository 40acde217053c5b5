---------------------------- MODULE ModelGateway ----------------------------
(***************************************************************************)
(* The model gateway (calciforge, proxy/handlers.rs, proxy/gateway.rs,     *)
(* providers/alloy.rs): requests for an alloy of concrete models.  A       *)
(* request gets a plan, and tries its models in turn; a model behind a     *)
(* provider with an on_switch script is first made the resident one, under *)
(* the provider's lock, and the lock is released before the call.  Calls   *)
(* are retried and attempts fall back as the failure's kind allows.        *)
(*                                                                         *)
(* Selectors nested in an alloy, and request sizes, are left out, and the  *)
(* models share one policy of retries and fallback.  The                   *)
(* runtime that holds the resident model is external; a script that fails  *)
(* may have switched it or not.                                            *)
(***************************************************************************)
EXTENDS Integers, Sequences, FiniteSets

CONSTANTS
  Request,
  Constituents,  \* the alloy's models, in configuration order
  Switched,      \* those served by the provider with an on_switch script
  RoundRobin,    \* the alloy's strategy: round robin, or weighted
  Kind,          \* kinds of failure
  Misconfigured, \* the one of a failed script
  RetryOn, MaxRetries,
  FallbackOn,    \* kinds that move on to the plan's next model
  NoModel, NoRequest

N == Len(Constituents)
Model == {Constituents[k] : k \in 1..N}

ASSUME GatewayAssumption ==
  /\ Constituents \in Seq(Model) /\ N \in Nat \ {0}
  /\ \A j, k \in 1..N : Constituents[j] = Constituents[k] => j = k
  /\ Switched \subseteq Model
  /\ RetryOn \subseteq Kind /\ FallbackOn \subseteq Kind
  /\ Misconfigured \in Kind
  /\ MaxRetries \in Nat
  /\ NoModel \notin Model /\ NoRequest \notin Request
  /\ RoundRobin \in BOOLEAN

VARIABLES
  next_rr_index,
  stats,     \* model -> requests and failures counted for it
  pc, plan,  \* request -> where it is, the models it tries
  idx,       \* request -> the plan's model being tried
  attempt,   \* request -> retries of the current call so far
  holder,    \* who holds the provider's switch_state lock
  current,   \* the model recorded in switch_state
  script,    \* request -> the model its running script switches to
  loaded,    \* the provider's resident model
  primaries  \* history: model -> how many plans it was the first of

request == <<plan, idx, attempt>>
switch_state == <<holder, current>>
vars == <<next_rr_index, stats, pc, request, switch_state, script, loaded,
          primaries>>

Ended == {"answered", "failed", "gone"}
Position == {"new", "trying", "locking", "switching", "calling"} \cup Ended

Init ==
  /\ next_rr_index = 0
  /\ stats = [m \in Model |-> [requests |-> 0, failures |-> 0]]
  /\ pc = [r \in Request |-> "new"]
  /\ plan = [r \in Request |-> Constituents]
  /\ idx = [r \in Request |-> 1]
  /\ attempt = [r \in Request |-> 0]
  /\ holder = NoRequest
  /\ current = NoModel
  /\ script = [r \in Request |-> NoModel]
  /\ loaded = NoModel
  /\ primaries = [m \in Model |-> 0]

Goto(r, where) == pc' = [pc EXCEPT ![r] = where]
Target(r) == plan[r][idx[r]]

-----------------------------------------------------------------------------
(* Plans.                                                                  *)

\* Mutant: the index is used and never moved.
Advanced_Stuck == next_rr_index

Advanced == (next_rr_index + 1) % N

\* The constituents from next_rr_index on, around the end.
round_robin_order ==
  [k \in 1..N |-> Constituents[((next_rr_index + k - 1) % N) + 1]]

\* Drawn by weight without replacement: any order may come out.
weighted_orders ==
  {[k \in 1..N |-> Constituents[f[k]]] :
     f \in {g \in [1..N -> 1..N] : \A j, k \in 1..N : g[j] = g[k] => j = k}}

\* The request is planned under the alloy's lock.  It may be turned away
\* before that (key, alias, access, unknown model) or after it (access to
\* one of the plan's models).
select_plan(r) ==
  /\ pc[r] = "new"
  /\ \/ Goto(r, "failed") /\ UNCHANGED <<next_rr_index, plan, primaries>>
     \/ \E p \in IF RoundRobin THEN {round_robin_order} ELSE weighted_orders :
          /\ plan' = [plan EXCEPT ![r] = p]
          /\ next_rr_index' = IF RoundRobin THEN Advanced ELSE next_rr_index
          /\ primaries' = [primaries EXCEPT ![p[1]] = @ + 1]
          /\ Goto(r, "trying") \/ Goto(r, "failed")
  /\ UNCHANGED <<stats, idx, attempt, switch_state, script, loaded>>

-----------------------------------------------------------------------------
(* One model of the plan.                                                  *)

Counted(s) == [s EXCEPT !.requests = @ + 1]

\* The attempt is counted, and the model's provider found.
try_provider(r) ==
  /\ pc[r] = "trying"
  /\ stats' = [stats EXCEPT ![Target(r)] = Counted(@)]
  /\ Goto(r, IF Target(r) \in Switched THEN "locking" ELSE "calling")
  /\ UNCHANGED <<next_rr_index, request, switch_state, script, loaded,
                 primaries>>

\* Mutant: the guard is let go of when the script is started.
ensure_provider_model_ready_Early(r) ==
  /\ pc[r] = "locking"
  /\ holder = NoRequest
  /\ \/ /\ current = Target(r)
        /\ Goto(r, "calling")
        /\ UNCHANGED <<holder, script>>
     \/ /\ current # Target(r)
        /\ Goto(r, "switching")
        /\ script' = [script EXCEPT ![r] = Target(r)]
        /\ UNCHANGED holder
  /\ UNCHANGED <<next_rr_index, stats, request, current, loaded, primaries>>

\* Mutant: a request for the model that is current waits for it to change.
ensure_provider_model_ready_Waits(r) ==
  /\ pc[r] = "locking"
  /\ holder = NoRequest
  /\ current # Target(r)
  /\ Goto(r, "switching")
  /\ holder' = r
  /\ script' = [script EXCEPT ![r] = Target(r)]
  /\ UNCHANGED <<next_rr_index, stats, request, current, loaded, primaries>>

\* The lock is ours; if the model is the current one it is let go at once,
\* otherwise the script is started.
ensure_provider_model_ready(r) ==
  /\ pc[r] = "locking"
  /\ holder = NoRequest
  /\ \/ /\ current = Target(r)
        /\ Goto(r, "calling")
        /\ UNCHANGED <<holder, script>>
     \/ /\ current # Target(r)
        /\ Goto(r, "switching")
        /\ holder' = r
        /\ script' = [script EXCEPT ![r] = Target(r)]
  /\ UNCHANGED <<next_rr_index, stats, request, current, loaded, primaries>>

\* The attempt failed.  It is counted once more, as a failure, and the next
\* model is tried if there is one and the kind allows it.
AttemptFails(r, kind) ==
  /\ stats' = [stats EXCEPT ![Target(r)] = [Counted(@) EXCEPT !.failures = @ + 1]]
  /\ attempt' = [attempt EXCEPT ![r] = 0]
  /\ IF idx[r] < N /\ kind \in FallbackOn
     THEN /\ idx' = [idx EXCEPT ![r] = @ + 1]
          /\ Goto(r, "trying")
     ELSE /\ UNCHANGED idx
          /\ Goto(r, "failed")

\* Whoever waits for the script drops its guard.
Unlocked(r) == holder' = IF holder = r THEN NoRequest ELSE holder

\* The script ends well: the model is resident, and recorded as current.
script_done(r) ==
  /\ script[r] # NoModel
  /\ loaded' = script[r]
  /\ script' = [script EXCEPT ![r] = NoModel]
  /\ IF pc[r] = "switching"
     THEN Unlocked(r) /\ current' = Target(r) /\ Goto(r, "calling")
     ELSE UNCHANGED <<switch_state, pc>>
  /\ UNCHANGED <<next_rr_index, stats, request, primaries>>

\* It fails, or is killed after its timeout.
script_fails(r) ==
  /\ script[r] # NoModel
  /\ loaded' \in {loaded, script[r]}
  /\ script' = [script EXCEPT ![r] = NoModel]
  /\ IF pc[r] = "switching"
     THEN Unlocked(r) /\ AttemptFails(r, Misconfigured)
     ELSE UNCHANGED <<holder, pc, stats, idx, attempt>>
  /\ UNCHANGED <<next_rr_index, plan, current, primaries>>

should_retry_locally(r, kind) == attempt[r] < MaxRetries /\ kind \in RetryOn

\* The call is answered, or fails and is made again, or fails for good.
chat_completion(r) ==
  /\ pc[r] = "calling"
  /\ \/ Goto(r, "answered") /\ UNCHANGED <<stats, idx, attempt>>
     \/ \E kind \in Kind :
          IF should_retry_locally(r, kind)
          THEN /\ attempt' = [attempt EXCEPT ![r] = @ + 1]
               /\ UNCHANGED <<pc, stats, idx>>
          ELSE AttemptFails(r, kind)
  /\ UNCHANGED <<next_rr_index, plan, switch_state, script, loaded, primaries>>

\* The client goes away: its handler and the guard it holds are dropped; a
\* script that runs on a blocking thread is not.
hang_up(r) ==
  /\ pc[r] \notin Ended \cup {"new"}
  /\ Goto(r, "gone")
  /\ Unlocked(r)
  /\ UNCHANGED <<next_rr_index, stats, request, current, script, loaded,
                 primaries>>

Step(r) ==
  \/ try_provider(r)
  \/ ensure_provider_model_ready(r)
  \/ script_done(r)
  \/ script_fails(r)
  \/ chat_completion(r)

Next == \E r \in Request : select_plan(r) \/ Step(r) \/ hang_up(r)

Spec == Init /\ [][Next]_vars

\* Handlers run, scripts and calls have timeouts, and the lock is handed out
\* in the order it was asked for.
Fairness == \A r \in Request : WF_vars(Step(r))

-----------------------------------------------------------------------------
(* Properties.                                                             *)

\* Of the requests that wait for a switch (ensure_provider_model_ready) there
\* is never more than one, it holds the provider's lock and its own script is
\* running, whatever scripts of clients that went away still run beside it.
\* The lock is held by nobody else, so no failed or abandoned switch keeps it.
WaitersExclusive ==
  /\ \A r \in Request : pc[r] = "switching" => holder = r /\ script[r] = Target(r)
  /\ holder # NoRequest => pc[holder] = "switching"

\* Round robin: however requests interleave or are turned away, no model
\* starts more than one plan more than another.
RoundRobinFair ==
  \A m, n \in Model : primaries[m] <= primaries[n] + 1

\* Every planned request is answered or fails, or its client has gone,
\* although requests wait for each other's scripts.
RequestsEnd ==
  \A r \in Request : pc[r] = "trying" ~> pc[r] \in Ended
=============================================================================
