------------------------- MODULE ModelGatewayProofs -------------------------
(***************************************************************************)
(* Results about the gateway for every set of requests and every alloy:    *)
(* the requests that wait for a switch of a provider exclude each other,   *)
(* and round robin spreads the first models of plans evenly.  One about    *)
(* the local model, for any number of switches: it is the one recorded.    *)
(* And one about a call to a provider: a client gets what it sent.         *)
(***************************************************************************)
EXTENDS ModelGateway, LocalModel, GatewayCalls, TLAPS, FiniteSetTheorems

-----------------------------------------------------------------------------
(* The provider's lock.                                                    *)

\* The inductive invariant: the lock belongs to the request that waits for a
\* switch, if there is one, and that request's own script is running.
LockInv ==
  /\ pc \in [Request -> Position]
  /\ script = [r \in Request |-> script[r]]
  /\ plan = [r \in Request |-> plan[r]]
  /\ idx = [r \in Request |-> idx[r]]
  /\ holder \in Request \cup {NoRequest}
  /\ WaitersExclusive

\* Nobody waits and nobody holds the lock at the start.
LEMMA InitLock == Init => LockInv
  BY GatewayAssumption DEF Init, LockInv, Position, WaitersExclusive

\* Each step keeps the lock with the request that waits: it is taken when it
\* is free, by the request that starts a script, and given back in the step in
\* which that request stops waiting, because its script ended or its client
\* went away.
LEMMA NextLock ==
  ASSUME LockInv, [Next]_vars
  PROVE  LockInv'
<1> USE GatewayAssumption
      DEF LockInv, WaitersExclusive, Goto, Target, Position, Ended
<1>1. ASSUME NEW r \in Request, select_plan(r)
      PROVE  LockInv'
  BY <1>1 DEF select_plan, switch_state
<1>2. ASSUME NEW r \in Request, try_provider(r)
      PROVE  LockInv'
  BY <1>2 DEF try_provider, switch_state, request
<1>3. ASSUME NEW r \in Request, ensure_provider_model_ready(r)
      PROVE  LockInv'
  BY <1>3 DEF ensure_provider_model_ready, request
<1>4. ASSUME NEW r \in Request, script_done(r)
      PROVE  LockInv'
  <2>1. UNCHANGED <<plan, idx>>
    BY <1>4 DEF script_done, request
  <2>2. CASE pc[r] = "switching"
    <3>1. holder = r /\ \A q \in Request \ {r} : pc[q] # "switching"
      BY <2>2
    <3>2. /\ holder' = NoRequest
          /\ pc' = [pc EXCEPT ![r] = "calling"]
          /\ script' = [script EXCEPT ![r] = NoModel]
      BY <1>4, <2>2, <3>1 DEF script_done, Unlocked
    <3>3. /\ pc' \in [Request -> Position]
          /\ \A q \in Request : pc'[q] # "switching"
      BY <3>1, <3>2
    <3>4. script' = [q \in Request |-> script'[q]]
      BY <3>2
    <3>5. plan' = [q \in Request |-> plan'[q]] /\ idx' = [q \in Request |-> idx'[q]]
      BY <2>1
    <3> HIDE DEF Position
    <3>6. QED
      BY <3>2, <3>3, <3>4, <3>5
  <2>3. CASE pc[r] # "switching"
    BY <1>4, <2>1, <2>3 DEF script_done, switch_state
  <2>4. QED
    BY <2>2, <2>3
<1>5. ASSUME NEW r \in Request, script_fails(r)
      PROVE  LockInv'
  <2>1. CASE pc[r] = "switching"
    <3>1. holder = r /\ \A q \in Request \ {r} : pc[q] # "switching"
      BY <2>1
    <3>2. /\ holder' = NoRequest
          /\ script' = [script EXCEPT ![r] = NoModel]
          /\ plan' = plan
          /\ idx' = [q \in Request |-> idx'[q]]
      BY <1>5, <2>1, <3>1 DEF script_fails, Unlocked, AttemptFails
    <3>3. PICK where \in {"trying", "failed"} : pc' = [pc EXCEPT ![r] = where]
      BY <1>5, <2>1 DEF script_fails, AttemptFails
    <3>4. pc' \in [Request -> Position] /\ \A q \in Request : pc'[q] # "switching"
      <4>1. where \in Position /\ where # "switching"
        OBVIOUS
      <4> QED
        BY <3>1, <3>3, <4>1
    <3>5. plan' = [q \in Request |-> plan'[q]] /\ script' = [q \in Request |-> script'[q]]
      BY <3>2
    <3>6. QED
      BY <3>2, <3>4, <3>5
  <2>2. CASE pc[r] # "switching"
    <3>1. /\ UNCHANGED <<holder, pc, idx, plan>>
          /\ script' = [script EXCEPT ![r] = NoModel]
      BY <1>5, <2>2 DEF script_fails
    <3>2. script' = [q \in Request |-> script'[q]]
          /\ \A q \in Request \ {r} : script'[q] = script[q]
      BY <3>1
    <3> HIDE DEF Position
    <3> QED
      BY <2>2, <3>1, <3>2
  <2>3. QED
    BY <2>1, <2>2
<1>6. ASSUME NEW r \in Request, chat_completion(r)
      PROVE  LockInv'
  <2>1. /\ pc[r] = "calling"
        /\ UNCHANGED <<plan, holder, script>>
    BY <1>6 DEF chat_completion, switch_state
  <2>2. /\ idx' = [q \in Request |-> idx'[q]]
        /\ \A q \in Request \ {r} : idx'[q] = idx[q]
    <3>1. idx' = idx \/ \E kind \in Kind : AttemptFails(r, kind)
      BY <1>6 DEF chat_completion
    <3>2. ASSUME NEW kind \in Kind, AttemptFails(r, kind)
          PROVE  idx' = idx \/ idx' = [idx EXCEPT ![r] = @ + 1]
      BY <3>2 DEF AttemptFails
    <3>3. idx' = idx \/ idx' = [idx EXCEPT ![r] = @ + 1]
      BY <3>1, <3>2
    <3> HIDE DEF Position
    <3> QED
      BY <3>3
  <2>3. \/ pc' = pc
        \/ \E where \in {"answered", "trying", "failed"} :
             pc' = [pc EXCEPT ![r] = where]
    <3>1. \/ Goto(r, "answered") \/ pc' = pc
          \/ \E kind \in Kind : AttemptFails(r, kind)
      BY <1>6 DEF chat_completion
    <3>2. ASSUME NEW kind \in Kind, AttemptFails(r, kind)
          PROVE  Goto(r, "trying") \/ Goto(r, "failed")
      BY <3>2 DEF AttemptFails
    <3> QED
      BY <3>1, <3>2
  <2>4. /\ pc' \in [Request -> Position]
        /\ \A q \in Request : pc'[q] = "switching" <=> pc[q] = "switching"
    <3>1. CASE pc' = pc
      BY <3>1
    <3>2. ASSUME NEW where \in {"answered", "trying", "failed"},
                 pc' = [pc EXCEPT ![r] = where]
          PROVE  /\ pc' \in [Request -> Position]
                 /\ \A q \in Request : pc'[q] = "switching" <=> pc[q] = "switching"
      <4>1. where \in Position /\ where # "switching"
        OBVIOUS
      <4> QED
        BY <2>1, <3>2, <4>1
    <3> QED
      BY <2>3, <3>1, <3>2
  <2>5. QED
    BY <2>1, <2>2, <2>4
<1>7. ASSUME NEW r \in Request, hang_up(r)
      PROVE  LockInv'
  BY <1>7 DEF hang_up, Unlocked, request
<1>8. CASE UNCHANGED vars
  BY <1>8 DEF vars, switch_state, request
<1>9. QED
  BY <1>1, <1>2, <1>3, <1>4, <1>5, <1>6, <1>7, <1>8 DEF Next, Step

\* Whatever the number of requests and whoever goes away, at most one request
\* waits for a switch of the provider, and only such a request holds its lock
\* (ensure_provider_model_ready).
THEOREM SwitchWaitersAreExclusive == Spec => []WaitersExclusive
<1>1. LockInv => WaitersExclusive
  BY DEF LockInv
<1>2. LockInv /\ [Next]_vars => LockInv'
  BY NextLock
<1>3. QED
  BY InitLock, <1>1, <1>2, PTL DEF Spec

-----------------------------------------------------------------------------
(* Round robin.                                                            *)

\* The models before next_rr_index have started one plan more than the rest.
Level(q) ==
  \A k \in 1..N :
    primaries[Constituents[k]] = IF k <= next_rr_index THEN q + 1 ELSE q

Leveled ==
  /\ next_rr_index \in 0..(N - 1)
  /\ primaries = [m \in Model |-> primaries[m]]
  /\ \E q \in Nat : Level(q)

\* No plan has been made at the start.
LEMMA InitLeveled == Init => Leveled
<1> SUFFICES ASSUME Init PROVE Leveled
  OBVIOUS
<1> USE GatewayAssumption
<1>1. Level(0)
  BY DEF Init, Level, N, Model
<1>2. QED
  BY <1>1 DEF Init, Leveled

\* The index moves to the next constituent, and from the last to the first.
LEMMA AdvancedValue ==
  ASSUME next_rr_index \in 0..(N - 1)
  PROVE  Advanced = IF next_rr_index = N - 1 THEN 0 ELSE next_rr_index + 1
  BY GatewayAssumption DEF Advanced

\* The plan starts with the constituent the index points at.
LEMMA FirstOfOrder ==
  ASSUME next_rr_index \in 0..(N - 1)
  PROVE  round_robin_order[1] = Constituents[next_rr_index + 1]
<1> USE GatewayAssumption
<1>1. N \in Nat \ {0} /\ 1 \in 1..N
  OBVIOUS
<1>2. next_rr_index + 1 - 1 = next_rr_index
  OBVIOUS
<1>3. next_rr_index % N = next_rr_index
  BY <1>1
<1>4. round_robin_order[1] = Constituents[((next_rr_index + 1 - 1) % N) + 1]
  BY <1>1 DEF round_robin_order
<1>5. QED
  BY <1>2, <1>3, <1>4

\* Only planning touches the index and the count of plans.
LEMMA NextLeveled ==
  ASSUME RoundRobin = TRUE, Leveled, [Next]_vars
  PROVE  Leveled'
<1> USE GatewayAssumption
<1>1. CASE UNCHANGED <<next_rr_index, primaries>>
  BY <1>1 DEF Leveled, Level
<1>2. ASSUME NEW r \in Request, select_plan(r),
             ~ UNCHANGED <<next_rr_index, primaries>>
      PROVE  Leveled'
  <2> DEFINE i == next_rr_index
  <2>1. i \in 0..(N - 1) /\ N \in Nat \ {0}
    BY DEF Leveled
  <2>2. /\ next_rr_index' = IF i = N - 1 THEN 0 ELSE i + 1
        /\ primaries' = [primaries EXCEPT ![Constituents[i + 1]] = @ + 1]
    BY <1>2, <2>1, AdvancedValue, FirstOfOrder DEF select_plan
  <2>3. PICK q \in Nat : Level(q)
    BY DEF Leveled
  <2>f. primaries' = [m \in Model |-> primaries'[m]]
    BY <2>2 DEF Leveled
  <2>4. \A k \in 1..N :
          primaries'[Constituents[k]] =
            IF k = i + 1 THEN q + 1 ELSE primaries[Constituents[k]]
    <3> TAKE k \in 1..N
    <3>1. i + 1 \in 1..N /\ ~ (i + 1 <= i)
      BY <2>1
    <3>2. Constituents[k] \in Model /\ Constituents[i + 1] \in Model
      BY <3>1 DEF Model
    <3>3. primaries[Constituents[i + 1]] = q
      BY <2>3, <3>1 DEF Level
    <3>4. Constituents[k] = Constituents[i + 1] => k = i + 1
      BY <3>1
    <3>5. DOMAIN primaries = Model
      BY DEF Leveled
    <3>6. QED
      BY <2>2, <3>2, <3>3, <3>4, <3>5
  <2>5. CASE i = N - 1
    <3>1. Level(q + 1)'
      BY <2>1, <2>2, <2>3, <2>4, <2>5 DEF Level
    <3>2. next_rr_index' \in 0..(N - 1)
      BY <2>1, <2>2, <2>5
    <3>3. QED
      BY <2>f, <3>1, <3>2 DEF Leveled
  <2>6. CASE i # N - 1
    <3>1. Level(q)'
      BY <2>1, <2>2, <2>3, <2>4, <2>6 DEF Level
    <3>2. next_rr_index' \in 0..(N - 1)
      BY <2>1, <2>2, <2>6
    <3>3. QED
      BY <2>f, <3>1, <3>2 DEF Leveled
  <2>7. QED
    BY <2>5, <2>6
<1>3. CASE UNCHANGED vars
  BY <1>1, <1>3 DEF vars
<1>4. ASSUME NEW r \in Request, Step(r) \/ hang_up(r)
      PROVE  UNCHANGED <<next_rr_index, primaries>>
  BY <1>4 DEF Step, hang_up, try_provider, ensure_provider_model_ready,
              script_done, script_fails, chat_completion
<1>5. QED
  BY <1>1, <1>2, <1>3, <1>4 DEF Next

\* Round robin is fair for alloys of any size: no constituent starts two plans
\* more than another (round_robin_order), however requests interleave.
THEOREM RoundRobinIsFair ==
  ASSUME RoundRobin = TRUE
  PROVE  Spec => []RoundRobinFair
<1>1. Leveled => RoundRobinFair
  <2> SUFFICES ASSUME Leveled, NEW m \in Model, NEW n \in Model
               PROVE  primaries[m] <= primaries[n] + 1
    BY DEF RoundRobinFair
  <2>1. PICK q \in Nat : Level(q)
    BY DEF Leveled
  <2>2. \A k \in 1..N : primaries[Constituents[k]] \in {q, q + 1}
    BY <2>1 DEF Level
  <2>3. primaries[m] \in {q, q + 1} /\ primaries[n] \in {q, q + 1}
    BY <2>2 DEF Model
  <2>4. QED
    BY <2>3
<1>2. Leveled /\ [Next]_vars => Leveled'
  BY NextLeveled
<1>3. QED
  BY InitLeveled, <1>1, <1>2, PTL DEF Spec

-----------------------------------------------------------------------------
(* The local model.                                                        *)

\* Where a switch may be.
Stage == {"idle", "switch", "pre_switch", "stop", "kill", "spawn", "wait",
            "store", "post_switch", "record", "done", "failed"}

\* Nothing is on its way to the port but the server p.
OnlyServer(p) ==
  /\ Serving = {p}
  /\ \A q \in Servers : proc[q] # "up"

\* No server of a switch is on the port, or on its way to it.
NoServer == \A q \in Switches : proc[q] \notin {"up", "serving"}

\* What is recorded, held and served agree: either there is nothing yet, or
\* all three are of one switch.
Agreed ==
  \/ handle = None /\ state = None /\ NoServer
  \/ handle \in Switches /\ state = target[handle] /\ OnlyServer(handle)

\* What holds at each place of the switch under way.
PlaceHolds(s) ==
  /\ thread[s] \in {"pre_switch", "stop", "kill", "spawn", "wait", "store", "post_switch", "record"}
       => target[s] \in Models
  /\ thread[s] \in {"switch", "pre_switch", "stop"} => Agreed
  /\ thread[s] = "kill" => handle = None /\ NoServer
  /\ thread[s] = "spawn" => handle = None /\ NoServer /\ Serving = {}
  /\ thread[s] = "wait" =>
       /\ handle = None
       /\ proc[s] \in {"up", "serving"}
       /\ \A q \in Servers \ {s} : proc[q] \notin {"up", "serving"}
  /\ thread[s] = "store" => handle = None /\ OnlyServer(s)
  /\ thread[s] \in {"post_switch", "record"} => handle = s /\ OnlyServer(s)

\* The inductive invariant: while switches come one after the other and no
\* server fails, at most one is under way, what its place says holds, and
\* between switches record, handle and port agree.
LocalModelInv ==
  /\ target \in [Switches -> Models \cup {None, "unknown"}]
  /\ thread \in [Switches -> Stage]
  /\ proc \in [Servers -> {"none", "up", "serving", "gone"}]
  /\ proc[External] # "up"
  /\ alone /\ smooth =>
       /\ \A s, t \in UnderWay : s = t
       /\ \A s \in UnderWay : PlaceHolds(s)
       /\ UnderWay = {} => Agreed

\* Nothing is recorded, held or served by a switch at the start.
LEMMA LocalModelInitInv == LocalModelInit => LocalModelInv
<1> SUFFICES ASSUME LocalModelInit PROVE LocalModelInv
  OBVIOUS
<1> USE LocalModelAssumption DEF LocalModelInit
<1>1. UnderWay = {}
  BY DEF UnderWay, Resting
<1>2. Agreed
  BY DEF Agreed, NoServer, Servers
<1>3. /\ target \in [Switches -> Models \cup {None, "unknown"}]
      /\ thread \in [Switches -> Stage]
      /\ proc \in [Servers -> {"none", "up", "serving", "gone"}]
      /\ proc[External] # "up"
  BY DEF Stage, Servers
<1> QED
  BY <1>1, <1>2, <1>3 DEF LocalModelInv

\* What the invariant says between switches is the property.
LEMMA InvServed == LocalModelInv => RecordedIsServed
<1> SUFFICES ASSUME LocalModelInv, alone, smooth, UnderWay = {}, state # None
             PROVE  Served = {state} /\ Serving = {handle}
  BY DEF RecordedIsServed
<1>1. handle \in Switches /\ state = target[handle] /\ Serving = {handle}
  BY DEF LocalModelInv, Agreed, OnlyServer
<1> QED
  BY <1>1 DEF Served

-----------------------------------------------------------------------------

\* A switch that begins alone finds no other under way, and everything agreed.
LEMMA SwitchBegins ==
  ASSUME LocalModelInv, NEW s \in Switches, thread[s] = "idle", Goes(s, "switch"),
         alone' = (alone /\ UnderWay = {}),
         UNCHANGED <<target, state, handle, proc, smooth>>
  PROVE  LocalModelInv'
<1> USE DEF LocalModelInv, Goes
<1>1. ASSUME alone', smooth' PROVE UnderWay' = {s} /\ Agreed'
  <2>1. UnderWay = {} /\ Agreed
    BY <1>1
  <2> QED
    BY <2>1 DEF UnderWay, Resting, Stage, Agreed, NoServer, OnlyServer, Serving
<1>2. ASSUME alone', smooth' PROVE PlaceHolds(s)'
  BY <1>1, <1>2 DEF PlaceHolds
<1> QED
  BY <1>1, <1>2 DEF Stage

\* A step of a switch under way, as far as the invariant sees it.
LEMMA SwitchGoesOn ==
  ASSUME LocalModelInv, NEW s \in Switches, s \in UnderWay, NEW place \in Stage, Goes(s, place),
         UNCHANGED <<target, alone>>,
         proc' \in [Servers -> {"none", "up", "serving", "gone"}], proc'[External] # "up",
         smooth' => smooth,
         smooth' /\ alone /\ smooth /\ PlaceHolds(s) =>
           IF place \in Resting THEN Agreed' ELSE PlaceHolds(s)'
  PROVE  LocalModelInv'
<1> USE DEF LocalModelInv, Goes
<1>1. ASSUME alone', smooth'
      PROVE  UnderWay' = IF place \in Resting THEN {} ELSE {s}
  <2>1. UnderWay = {s}
    BY <1>1
  <2> QED
    BY <2>1 DEF UnderWay
<1> QED
  BY <1>1

\* Each step of the one switch under way takes it from what its place says to
\* what the next one says; only a server that a switch waits for can come up,
\* and a server that goes by itself ends what is promised.
LEMMA LocalModelNextInv ==
  ASSUME LocalModelInv, [LocalModelNext]_localVars
  PROVE  LocalModelInv'
<1> USE LocalModelAssumption
<1>1. ASSUME NEW s \in Switches, local_model_switch(s) PROVE LocalModelInv'
  <2>1. CASE Goes(s, "failed") /\ UNCHANGED alone
    <3>1. UnderWay' = UnderWay
      BY <1>1, <2>1 DEF local_model_switch, UnderWay, Goes, Resting, LocalModelInv
    <3>2. \A t \in UnderWay : PlaceHolds(t)' <=> PlaceHolds(t)
      BY <1>1, <2>1 DEF local_model_switch, UnderWay, Goes, Resting, LocalModelInv,
        PlaceHolds, Agreed, NoServer, OnlyServer, Serving
    <3> QED
      BY <1>1, <2>1, <3>1, <3>2 DEF local_model_switch, Goes, LocalModelInv, Stage,
        Agreed, NoServer, OnlyServer, Serving
  <2>2. CASE Goes(s, "switch") /\ alone' = (alone /\ UnderWay = {})
    BY <1>1, <2>2, SwitchBegins DEF local_model_switch
  <2> QED
    BY <1>1, <2>1, <2>2 DEF local_model_switch
<1>2. ASSUME NEW s \in Switches, handle_model(s) PROVE LocalModelInv'
  BY <1>2, SwitchBegins DEF handle_model
<1>3. ASSUME NEW s \in Switches, auto_load(s) PROVE LocalModelInv'
  BY <1>3, SwitchBegins DEF auto_load
<1>4. ASSUME NEW s \in Switches, switch(s) PROVE LocalModelInv'
  <2> DEFINE place == IF target[s] \notin Models THEN "failed"
             ELSE IF state = target[s] THEN "done"
             ELSE IF Hooks THEN "pre_switch" ELSE "stop"
  <2>1. place \in Stage /\ Goes(s, place) /\ s \in UnderWay
    BY <1>4 DEF switch, Stage, UnderWay, Resting
  <2>2. ASSUME PlaceHolds(s) PROVE IF place \in Resting THEN Agreed' ELSE PlaceHolds(s)'
    <3>1. Agreed'
      BY <1>4, <2>2 DEF switch, PlaceHolds, Agreed, NoServer, OnlyServer, Serving
    <3> QED
      BY <1>4, <3>1 DEF switch, PlaceHolds, Goes, Resting, LocalModelInv
  <2> QED
    BY <1>4, <2>1, <2>2, SwitchGoesOn DEF switch, LocalModelInv
<1>5. ASSUME NEW s \in Switches, run_hook(s) PROVE LocalModelInv'
  <2> DEFINE Follows(place) ==
        \/ thread[s] = "pre_switch" /\ place \in {"stop", "failed"}
        \/ thread[s] = "post_switch" /\ place = "record"
  <2>1. PICK place \in Stage : Goes(s, place) /\ Follows(place)
    BY <1>5 DEF run_hook, Stage
  <2>2. s \in UnderWay
    BY <2>1 DEF UnderWay, Resting
  <2>3. ASSUME PlaceHolds(s) PROVE IF place \in Resting THEN Agreed' ELSE PlaceHolds(s)'
    <3>1. Agreed' = Agreed /\ OnlyServer(s)' = OnlyServer(s)
      BY <1>5 DEF run_hook, Agreed, NoServer, OnlyServer, Serving
    <3> QED
      BY <1>5, <2>1, <2>3, <3>1 DEF run_hook, PlaceHolds, Goes, Resting, LocalModelInv
  <2> QED
    BY <1>5, <2>1, <2>2, <2>3, SwitchGoesOn DEF run_hook, LocalModelInv
<1>6. ASSUME NEW s \in Switches, stop(s) PROVE LocalModelInv'
  <2>1. s \in UnderWay /\ "kill" \in Stage
    BY <1>6 DEF stop, UnderWay, Resting, Stage
  <2>2. ASSUME PlaceHolds(s) PROVE PlaceHolds(s)'
    <3>1. Agreed
      BY <1>6, <2>2 DEF stop, PlaceHolds
    <3>2. NoServer'
      BY <1>6, <3>1 DEF stop, Agreed, NoServer, OnlyServer, Serving, Servers, LocalModelInv
    <3> QED
      BY <1>6, <2>2, <3>2 DEF stop, PlaceHolds, Goes, LocalModelInv
  <2>3. proc' \in [Servers -> {"none", "up", "serving", "gone"}] /\ proc'[External] # "up"
    BY <1>6 DEF stop, LocalModelInv, Servers
  <2> QED
    BY <1>6, <2>1, <2>2, <2>3, SwitchGoesOn DEF stop, Resting
<1>7. ASSUME NEW s \in Switches, kill_existing_on_port(s) PROVE LocalModelInv'
  <2>1. s \in UnderWay /\ "spawn" \in Stage
    BY <1>7 DEF kill_existing_on_port, UnderWay, Resting, Stage
  <2>2. ASSUME PlaceHolds(s), smooth' PROVE PlaceHolds(s)'
    <3>1. proc' = [p \in Servers |-> IF p \in Serving THEN "gone" ELSE proc[p]]
      BY <1>7, <2>2 DEF kill_existing_on_port
    <3>2. NoServer' /\ Serving' = {}
      BY <1>7, <2>2, <3>1 DEF kill_existing_on_port, PlaceHolds, NoServer, Serving, Servers
    <3> QED
      BY <1>7, <2>2, <3>2 DEF kill_existing_on_port, PlaceHolds, Goes, LocalModelInv
  <2>3. proc' \in [Servers -> {"none", "up", "serving", "gone"}] /\ proc'[External] # "up"
    BY <1>7 DEF kill_existing_on_port, LocalModelInv, Servers
  <2> QED
    BY <1>7, <2>1, <2>2, <2>3, SwitchGoesOn DEF kill_existing_on_port, Resting
<1>8. ASSUME NEW s \in Switches, start(s) PROVE LocalModelInv'
  <2>1. s \in UnderWay /\ {"wait", "failed"} \subseteq Stage
    BY <1>8 DEF start, UnderWay, Resting, Stage
  <2>2. proc' \in [Servers -> {"none", "up", "serving", "gone"}] /\ proc'[External] # "up"
    BY <1>8 DEF start, LocalModelInv, Servers
  <2>3. ASSUME PlaceHolds(s), smooth' PROVE Goes(s, "wait") /\ PlaceHolds(s)'
    <3>1. proc' = [proc EXCEPT ![s] = "up"] /\ Goes(s, "wait")
      BY <1>8, <2>3 DEF start
    <3>2. \A q \in Servers \ {s} : proc'[q] \notin {"up", "serving"}
      BY <1>8, <2>3, <3>1 DEF start, PlaceHolds, NoServer, Serving, Servers, LocalModelInv
    <3> QED
      BY <1>8, <2>3, <3>1, <3>2 DEF start, PlaceHolds, Goes, LocalModelInv, Servers
  <2> QED
    BY <1>8, <2>1, <2>2, <2>3, SwitchGoesOn DEF start, Resting
<1>9. ASSUME NEW s \in Switches, wait_for_ready(s) PROVE LocalModelInv'
  <2>1. s \in UnderWay /\ {"store", "failed"} \subseteq Stage
    BY <1>9 DEF wait_for_ready, UnderWay, Resting, Stage
  <2>2. ASSUME PlaceHolds(s), smooth' PROVE Goes(s, "store") /\ PlaceHolds(s)'
    <3>1. Serving # {} /\ Goes(s, "store")
      BY <1>9, <2>2 DEF wait_for_ready
    <3>2. OnlyServer(s)'
      BY <1>9, <2>2, <3>1 DEF wait_for_ready, PlaceHolds, OnlyServer, Serving, LocalModelInv
    <3> QED
      BY <1>9, <2>2, <3>1, <3>2 DEF wait_for_ready, PlaceHolds, Goes, LocalModelInv
  <2> QED
    BY <1>9, <2>1, <2>2, SwitchGoesOn DEF wait_for_ready, LocalModelInv, Resting
<1>10. ASSUME NEW s \in Switches, store_handle(s) PROVE LocalModelInv'
  <2> DEFINE place == IF Hooks THEN "post_switch" ELSE "record"
  <2>1. s \in UnderWay /\ place \in Stage /\ place \notin Resting /\ Goes(s, place)
    BY <1>10 DEF store_handle, UnderWay, Resting, Stage
  <2>2. ASSUME PlaceHolds(s) PROVE PlaceHolds(s)'
    BY <1>10, <2>2 DEF store_handle, PlaceHolds, Goes, LocalModelInv, OnlyServer, Serving
  <2> QED
    BY <1>10, <2>1, <2>2, SwitchGoesOn DEF store_handle, LocalModelInv
<1>11. ASSUME NEW s \in Switches, record_loaded(s) PROVE LocalModelInv'
  <2>1. s \in UnderWay /\ "done" \in Stage /\ "done" \in Resting
    BY <1>11 DEF record_loaded, UnderWay, Resting, Stage
  <2>2. ASSUME PlaceHolds(s) PROVE Agreed'
    BY <1>11, <2>2 DEF record_loaded, PlaceHolds, Agreed, OnlyServer, Serving
  <2> QED
    BY <1>11, <2>1, <2>2, SwitchGoesOn DEF record_loaded, LocalModelInv
<1>12. ASSUME NEW p \in Servers, bind(p) PROVE LocalModelInv'
  <2>1. /\ proc' \in [Servers -> {"none", "up", "serving", "gone"}]
        /\ p # External /\ p \in Switches /\ proc'[External] # "up"
        /\ UnderWay' = UnderWay
    BY <1>12 DEF bind, LocalModelInv, Servers, UnderWay
  <2>2. ASSUME alone, smooth PROVE \E s \in UnderWay : thread[s] = "wait" /\ s = p
    <3>1. CASE UnderWay = {}
      BY <1>12, <2>1, <2>2, <3>1 DEF bind, LocalModelInv, Agreed, NoServer, OnlyServer
    <3>2. CASE UnderWay # {}
      <4>1. PICK s \in UnderWay : PlaceHolds(s)
        BY <2>2, <3>2 DEF LocalModelInv
      <4>2. thread[s] \in Stage \ Resting
        BY DEF UnderWay, LocalModelInv
      <4> QED
        BY <1>12, <2>1, <4>1, <4>2 DEF bind, Stage, Resting, PlaceHolds, Agreed, NoServer,
          OnlyServer
    <3> QED
      BY <3>1, <3>2
  <2>3. ASSUME alone, smooth
        PROVE  /\ \A s, t \in UnderWay : s = t
               /\ \A s \in UnderWay : PlaceHolds(s)'
               /\ UnderWay # {}
    <3>1. p \in UnderWay /\ thread[p] = "wait" /\ UnderWay = {p} /\ PlaceHolds(p)
      BY <2>2, <2>3 DEF LocalModelInv
    <3>2. Serving = {}
      BY <1>12, <3>1 DEF PlaceHolds, Serving, bind
    <3>3. PlaceHolds(p)'
      BY <1>12, <2>1, <3>1, <3>2 DEF bind, PlaceHolds, LocalModelInv, Servers
    <3> QED
      BY <3>1, <3>3
  <2> QED
    BY <1>12, <2>1, <2>3 DEF bind, LocalModelInv
<1>13. ASSUME NEW p \in Servers, crash(p) PROVE LocalModelInv'
  BY <1>13 DEF crash, LocalModelInv, Servers
<1>14. CASE UNCHANGED localVars
  BY <1>14 DEF localVars, LocalModelInv, UnderWay, PlaceHolds, Agreed, NoServer, OnlyServer,
    Serving
<1> QED
  BY <1>1, <1>2, <1>3, <1>4, <1>5, <1>6, <1>7, <1>8, <1>9, <1>10, <1>11, <1>12, <1>13, <1>14
  DEF LocalModelNext

\* For any number of switches and models: switches made one after the other,
\* with no server failing, end with the recorded model served, and by it alone
\* (LocalModelManager::switch, kill_existing_on_port).
THEOREM RecordedModelIsServed == LocalModelSpec => []RecordedIsServed
<1>1. LocalModelInit => LocalModelInv
  BY LocalModelInitInv
<1>2. LocalModelInv /\ [LocalModelNext]_localVars => LocalModelInv'
  BY LocalModelNextInv
<1> QED
  BY <1>1, <1>2, InvServed, PTL DEF LocalModelSpec

-----------------------------------------------------------------------------
(* A call to a provider.                                                   *)

\* A finite set of numbers has a least one.
LEMMA HasLeast ==
  ASSUME NEW S \in SUBSET Nat, IsFiniteSet(S), S # {}
  PROVE  \E j \in S : \A i \in S : j <= i
<1> DEFINE upto(j) == {i \in S : i <= j}
           T == {upto(j) : j \in S}
<1>1. IsWellFoundedOn(StrictSubsetOrdering(S), SUBSET S)
  BY FS_StrictSubsetOrderingWellFounded, FS_FiniteSubsetsOfFinite
<1>2. T \subseteq SUBSET S /\ T # {}
  OBVIOUS
<1>3. \E x \in T : \A y \in T : ~ (<<y, x>> \in StrictSubsetOrdering(S))
  <2> HIDE DEF T
  <2> QED BY <1>1, <1>2, WFMin
<1>4. PICK j \in S : \A y \in T : ~ (<<y, upto(j)>> \in StrictSubsetOrdering(S))
  BY <1>3
<1>5. ASSUME NEW i \in S, i < j PROVE FALSE
  <2>1. ASSUME NEW x \in S, x <= i PROVE x <= j
    <3>1. x \in Nat /\ i \in Nat /\ j \in Nat
      OBVIOUS
    <3> QED BY <2>1, <3>1, <1>5
  <2>2. upto(i) \subseteq upto(j)
    BY <2>1
  <2>3. j \in upto(j) /\ j \notin upto(i)
    BY <1>5
  <2>4. <<upto(i), upto(j)>> \in StrictSubsetOrdering(S)
    BY <2>2, <2>3 DEF StrictSubsetOrdering
  <2> QED BY <1>4, <2>4
<1>6. \A i \in S : j <= i
  <2> SUFFICES ASSUME NEW i \in S PROVE j <= i
    OBVIOUS
  <2>1. i \in Nat /\ j \in Nat /\ ~ (i < j)
    BY <1>5
  <2> QED BY <2>1
<1> QED BY <1>6

Sorts(s, S) ==
  /\ s \in [1..Cardinality(S) -> S]
  /\ \A i, j \in DOMAIN s : i < j => s[i] < s[j]

\* Every finite set of numbers can be sorted: the least goes before the others.
LEMMA CanBeSorted ==
  ASSUME NEW S \in SUBSET Nat, IsFiniteSet(S)
  PROVE  \E s : Sorts(s, S)
<1> DEFINE Bad == {T \in SUBSET S : ~ \E s : Sorts(s, T)}
<1> SUFFICES ASSUME Bad # {} PROVE FALSE
  OBVIOUS
<1>1. IsWellFoundedOn(StrictSubsetOrdering(S), SUBSET S)
  BY FS_StrictSubsetOrderingWellFounded, FS_FiniteSubsetsOfFinite
<1>2. \E T \in Bad : \A U \in Bad : ~ (<<U, T>> \in StrictSubsetOrdering(S))
  <2>1. Bad \subseteq SUBSET S
    OBVIOUS
  <2> HIDE DEF Bad
  <2> QED BY <1>1, <2>1, WFMin
<1>3. PICK T \in Bad : \A U \in Bad : ~ (<<U, T>> \in StrictSubsetOrdering(S))
  BY <1>2
<1>4. T \in SUBSET S /\ IsFiniteSet(T)
  BY FS_Subset
<1>5. T # {}
  <2>1. Cardinality({}) = 0
    BY FS_EmptySet
  <2>2. Sorts([i \in {} |-> 0], {})
    BY <2>1 DEF Sorts
  <2> QED BY <2>2
<1>6. PICK m \in T : \A i \in T : m <= i
  BY <1>4, <1>5, HasLeast
<1> DEFINE U == T \ {m}
           n == Cardinality(U)
<1>7. IsFiniteSet(U) /\ n \in Nat /\ Cardinality(T) = n + 1
  <2>1. IsFiniteSet(U) /\ n = Cardinality(T) - 1
    BY <1>4, FS_RemoveElement
  <2>2. n \in Nat /\ Cardinality(T) \in Nat
    BY <1>4, <2>1, FS_CardinalityType
  <2> HIDE DEF n, U
  <2> QED BY <2>1, <2>2
<1>8. \E s : Sorts(s, U)
  <2>1. U \in SUBSET S /\ <<U, T>> \in StrictSubsetOrdering(S)
    BY <1>4 DEF StrictSubsetOrdering
  <2> QED BY <1>3, <2>1
<1>9. PICK s : Sorts(s, U)
  BY <1>8
<1> DEFINE t == [i \in 1..(n + 1) |-> IF i = 1 THEN m ELSE s[i - 1]]
<1>10. \A i \in 1..n : s[i] \in T /\ m < s[i]
  <2> SUFFICES ASSUME NEW i \in 1..n PROVE s[i] \in T /\ m < s[i]
    OBVIOUS
  <2>1. s[i] \in U
    BY <1>9 DEF Sorts
  <2>2. s[i] \in Nat /\ m \in Nat /\ m <= s[i] /\ m # s[i]
    BY <1>4, <1>6, <2>1
  <2> QED BY <2>1, <2>2
<1>11. \A i, j \in 1..n : i < j => s[i] < s[j]
  BY <1>9 DEF Sorts
<1> HIDE DEF n, U
<1>12. t \in [1..(n + 1) -> T]
  BY <1>7, <1>10
<1>13. \A i, j \in 1..(n + 1) : i < j => t[i] < t[j]
  BY <1>7, <1>10, <1>11
<1>14. Sorts(t, T)
  BY <1>7, <1>12, <1>13 DEF Sorts
<1> QED BY <1>14

LEMMA SortedInOrder ==
  ASSUME NEW S \in SUBSET Nat, IsFiniteSet(S)
  PROVE  Sorts(Call!InOrder(S), S)
<1>1. Call!Cardinality(S) = Cardinality(S)
  BY DEF Call!Cardinality, Cardinality
<1>2. Call!InOrder(S) = CHOOSE s \in [1..Cardinality(S) -> S] :
                          \A i, j \in DOMAIN s : i < j => s[i] < s[j]
  BY <1>1 DEF Call!InOrder
<1> QED BY <1>2, CanBeSorted DEF Sorts

LEMMA CallConstants ==
  /\ Indexes \in SUBSET Nat /\ IsFiniteSet(Indexes) /\ Indexes # {}
  /\ Calls \in Nat
<1>1. Call!IsFiniteSet(Indexes) => IsFiniteSet(Indexes)
  BY DEF Call!IsFiniteSet, IsFiniteSet
<1> QED BY <1>1, CallsAssumption DEF Call!UpstreamAssumption

Fragments == Seq(Nat \X Nat)

\* A choice as it is put together is what the provider sent of it: m has the
\* fragments of each of its parts.
Matches(a, m) ==
  /\ a.content = m[<<"content", 0>>]
  /\ a.reasoning = m[<<"reasoning", 0>>]
  /\ a.finish = IF m[<<"finish", 0>>] = <<>> THEN Absent
                ELSE m[<<"finish", 0>>][Len(m[<<"finish", 0>>])]
  /\ a.seen <=> \E p \in Call!Parts : m[p] # <<>>
  /\ \A k \in 1..Calls : /\ a.tool_calls[k].arguments = m[<<"call", k>>]
                         /\ a.tool_calls[k].seen <=> m[<<"call", k>>] # <<>>

AllMatch == \A c \in Indexes : Matches(acc.choices[c], sent[c])

\* The inductive invariant: an attempt begins with nothing read and nothing
\* sent, and what has been read, up to an event that should not be there, is
\* what was sent.
StreamInv ==
  /\ retries \in Nat /\ events \in Nat
  /\ sent \in [Indexes -> [Call!Parts -> Fragments]]
  /\ acc.choices = [c \in Indexes |-> acc.choices[c]]
  /\ at \in {"new", "called", "waiting"} => acc = Call!Accumulated /\ sent = Call!Nothing
  /\ at = "reading" /\ ~acc.error => AllMatch
  /\ StreamIsReassembled

\* The parts of a choice are as many as they seem.
LEMMA PartsDiffer ==
  /\ \A k, j : <<"call", k>> = <<"call", j>> => k = j
  /\ \A k : /\ <<"call", k>> # <<"content", 0>>
            /\ <<"call", k>> # <<"reasoning", 0>>
            /\ <<"call", k>> # <<"finish", 0>>
  /\ <<"content", 0>> # <<"reasoning", 0>>
  /\ <<"content", 0>> # <<"finish", 0>>
  /\ <<"reasoning", 0>> # <<"finish", 0>>
<1>1. ASSUME NEW x, NEW y, NEW k, NEW j, <<x, k>> = <<y, j>> PROVE x = y /\ k = j
  BY <1>1
<1> QED BY <1>1

LEMMA PartsAre ==
  /\ {<<"content", 0>>, <<"reasoning", 0>>, <<"finish", 0>>} \subseteq Call!Parts
  /\ \A k \in 1..Calls : <<"call", k>> \in Call!Parts
  /\ \A p \in Call!Parts : \/ p[1] = "call" /\ \E k \in 1..Calls : p = <<"call", k>>
                           \/ p = <<"content", 0>>
                           \/ p = <<"reasoning", 0>>
                           \/ p = <<"finish", 0>>
BY DEF Call!Parts

\* Nothing was sent, and nothing is put together yet.
LEMMA NothingMatches ==
  ASSUME NEW c \in Indexes
  PROVE  /\ Matches(Call!Accumulated.choices[c], Call!Nothing[c])
         /\ Call!Nothing \in [Indexes -> [Call!Parts -> Fragments]]
         /\ Call!Accumulated.choices = [d \in Indexes |-> Call!Accumulated.choices[d]]
<1>1. Call!Nothing[c] = [p \in Call!Parts |-> <<>>]
  BY DEF Call!Nothing
<1>2. /\ Call!Accumulated.choices = [d \in Indexes |-> Call!ChoiceAccumulator]
      /\ Call!Accumulated.choices[c] = Call!ChoiceAccumulator
  BY DEF Call!Accumulated
<1>3. Call!Nothing \in [Indexes -> [Call!Parts -> Fragments]]
  BY DEF Call!Nothing, Fragments
<1> DEFINE a == Call!ChoiceAccumulator
           m == Call!Nothing[c]
<1>4. \A p \in Call!Parts : m[p] = <<>>
  BY <1>1
<1>5. /\ a.content = <<>> /\ a.reasoning = <<>> /\ a.finish = Absent /\ a.seen = FALSE
      /\ \A k \in 1..Calls : a.tool_calls[k].seen = FALSE /\ a.tool_calls[k].arguments = <<>>
  BY DEF Call!ChoiceAccumulator, Call!ToolCallAccumulator
<1> HIDE DEF a, m
<1>6. Matches(a, m)
  BY <1>4, <1>5, PartsAre DEF Matches
<1> QED
  BY <1>2, <1>3, <1>6 DEF a, m

LEMMA StreamInitInv == Call!UpstreamInit => StreamInv
<1> SUFFICES ASSUME Call!UpstreamInit PROVE StreamInv
  OBVIOUS
<1>1. PICK c \in Indexes : TRUE
  BY CallConstants
<1>2. /\ retries = 0 /\ events = 0 /\ at = "new"
      /\ acc = Call!Accumulated /\ sent = Call!Nothing
  BY DEF Call!UpstreamInit
<1>3. StreamIsReassembled
  BY <1>2 DEF StreamIsReassembled, Call!StreamIsReassembled
<1> QED
  BY <1>1, <1>2, <1>3, NothingMatches DEF StreamInv

\* A failed attempt is forgotten, whether there is another one or not.
LEMMA FailsForgets ==
  ASSUME StreamInv, NEW kind, Call!Fails(kind)
  PROVE  StreamInv'
<1>1. PICK c \in Indexes : TRUE
  BY CallConstants
<1>2. /\ events' = 0 /\ acc' = Call!Accumulated /\ sent' = Call!Nothing
      /\ at' \in {"waiting", "failed"} /\ retries' \in {retries, retries + 1}
  BY DEF Call!Fails, Call!Dropped
<1>3. StreamIsReassembled'
  BY <1>2 DEF StreamIsReassembled, Call!StreamIsReassembled
<1>4. retries' \in Nat
  BY <1>2 DEF StreamInv
<1> QED
  BY <1>1, <1>2, <1>3, <1>4, NothingMatches DEF StreamInv

\* Steps that neither read nor send.
LEMMA RestsKeepStream ==
  ASSUME StreamInv, UNCHANGED <<retries, events, acc, sent>>,
         \/ UNCHANGED <<at, setting, got, told>>
         \/ at \in {"new", "called", "waiting"} /\ at' \in {"new", "called", "reading"}
  PROVE  StreamInv'
<1>1. StreamIsReassembled'
  <2>1. CASE at' # "answered"
    BY <2>1 DEF StreamIsReassembled, Call!StreamIsReassembled
  <2>2. CASE UNCHANGED <<at, setting, got, told>>
    <3>1. ASSUME NEW c PROVE Call!Sent(c)' = Call!Sent(c)
      BY <2>2 DEF Call!Sent
    <3> QED
      BY <2>2, <3>1 DEF StreamInv, StreamIsReassembled, Call!StreamIsReassembled
  <2> QED BY <2>1, <2>2
<1>2. AllMatch' <=> AllMatch
  BY DEF AllMatch
<1>3. at \in {"new", "called", "waiting"} => AllMatch
  BY NothingMatches DEF StreamInv, AllMatch
<1> QED
  BY <1>1, <1>2, <1>3 DEF StreamInv

LEMMA Longer ==
  ASSUME NEW s \in Fragments, NEW f \in Nat \X Nat
  PROVE  /\ Append(s, f) \in Fragments
         /\ Append(s, f) # <<>>
         /\ Append(s, f)[Len(Append(s, f))] = f
BY DEF Fragments

\* A fragment of text, or the reason to finish, comes to its part.
LEMMA TextMatches ==
  ASSUME NEW a, NEW m \in [Call!Parts -> Fragments], Matches(a, m),
         NEW p \in Call!Parts, p[1] # "call", NEW f \in Nat \X Nat,
         NEW e, e.part = p, e.calls = <<>>, e.text = f
  PROVE  Matches(Call!choice_delta(a, e), [m EXCEPT ![p] = Append(m[p], f)])
<1> DEFINE b == Call!choice_delta(a, e)
           n == [m EXCEPT ![p] = Append(m[p], f)]
<1>1. /\ n[p] = Append(m[p], f)
      /\ \A q \in Call!Parts : q # p => n[q] = m[q]
  OBVIOUS
<1>2. p \in {<<"content", 0>>, <<"reasoning", 0>>, <<"finish", 0>>}
  BY PartsAre
<1>3. m[p] \in Fragments
  OBVIOUS
<1>4. /\ b.seen = TRUE
      /\ b.finish = IF p[1] = "finish" THEN f ELSE a.finish
      /\ b.content = IF p[1] = "content" THEN Append(a.content, f) ELSE a.content
      /\ b.reasoning = IF p[1] = "reasoning" THEN Append(a.reasoning, f) ELSE a.reasoning
  BY DEF Call!choice_delta
<1>5. \A k \in 1..Calls : b.tool_calls[k] = a.tool_calls[k]
  BY DEF Call!choice_delta, Call!tool_call_delta
<1>6. \A k \in 1..Calls : n[<<"call", k>>] = m[<<"call", k>>]
  <2>1. ASSUME NEW k \in 1..Calls PROVE <<"call", k>> \in Call!Parts /\ <<"call", k>> # p
    BY <1>2, PartsAre, PartsDiffer
  <2> QED BY <1>1, <2>1
<1>7. \E q \in Call!Parts : n[q] # <<>>
  BY <1>1, <1>3, Longer
<1> HIDE DEF b, n
<1>8. /\ b.content = n[<<"content", 0>>]
      /\ b.reasoning = n[<<"reasoning", 0>>]
      /\ b.finish = IF n[<<"finish", 0>>] = <<>> THEN Absent
                    ELSE n[<<"finish", 0>>][Len(n[<<"finish", 0>>])]
  <2> DEFINE C == <<"content", 0>>
             R == <<"reasoning", 0>>
             L == <<"finish", 0>>
  <2> SUFFICES /\ b.content = n[C] /\ b.reasoning = n[R]
               /\ b.finish = IF n[L] = <<>> THEN Absent ELSE n[L][Len(n[L])]
    OBVIOUS
  <2>1. /\ {C, R, L} \subseteq Call!Parts /\ p \in {C, R, L}
        /\ C # R /\ C # L /\ R # L
        /\ C[1] = "content" /\ R[1] = "reasoning" /\ L[1] = "finish"
    BY <1>2, PartsAre, PartsDiffer
  <2>2. /\ a.content = m[C] /\ a.reasoning = m[R]
        /\ a.finish = IF m[L] = <<>> THEN Absent ELSE m[L][Len(m[L])]
    BY DEF Matches
  <2> HIDE DEF C, R, L
  <2>3. CASE p = C
    BY <1>1, <1>4, <2>1, <2>2, <2>3
  <2>4. CASE p = R
    BY <1>1, <1>4, <2>1, <2>2, <2>4
  <2>5. CASE p = L
    <3>1. n[L] = Append(m[L], f) /\ n[L] # <<>> /\ n[L][Len(n[L])] = f
      BY <1>1, <1>3, <2>5, Longer
    <3> QED
      BY <1>1, <1>4, <2>1, <2>2, <2>5, <3>1
  <2> QED BY <2>1, <2>3, <2>4, <2>5
<1>9. Matches(b, n)
  BY <1>4, <1>5, <1>6, <1>7, <1>8 DEF Matches
<1> QED
  BY <1>9 DEF b, n

\* An event e with the fragment f of the l tool calls that ks numbers, and what
\* was sent of a choice with that fragment.
SaysCalls(e, l, ks, f) ==
  /\ l \in 1..Calls /\ ks \in [1..l -> 1..Calls] /\ f \in Nat \X Nat
  /\ e.part = <<"call", 0>> /\ e.text = f /\ DOMAIN e.calls = 1..l
  /\ \A i \in 1..l : Call!call_index(e.calls[i], i) = ks[i]

WithCalls(m, ks, f) ==
  [q \in Call!Parts |-> IF \E i \in DOMAIN ks : q = <<"call", ks[i]>>
                        THEN Append(m[q], f) ELSE m[q]]

\* A fragment of some tool calls comes to these calls.
LEMMA CallsMatch ==
  ASSUME NEW a, NEW m \in [Call!Parts -> Fragments], Matches(a, m),
         NEW l, NEW ks, NEW f, NEW e, SaysCalls(e, l, ks, f)
  PROVE  Matches(Call!choice_delta(a, e), WithCalls(m, ks, f))
<1> DEFINE n == WithCalls(m, ks, f)
<1> USE DEF SaysCalls
<1>0. n = [q \in Call!Parts |-> IF \E i \in DOMAIN ks : q = <<"call", ks[i]>>
                                 THEN Append(m[q], f) ELSE m[q]]
  BY DEF WithCalls
<1> HIDE DEF n
<1> DEFINE b == Call!choice_delta(a, e)
           Grows(k) == \E i \in 1..l : ks[i] = k
<1>1. \A k \in 1..Calls : n[<<"call", k>>] = IF Grows(k) THEN Append(m[<<"call", k>>], f)
                                             ELSE m[<<"call", k>>]
  <2> SUFFICES ASSUME NEW k \in 1..Calls
               PROVE  n[<<"call", k>>] = IF Grows(k) THEN Append(m[<<"call", k>>], f)
                                         ELSE m[<<"call", k>>]
    OBVIOUS
  <2>1. (\E i \in DOMAIN ks : <<"call", k>> = <<"call", ks[i]>>) <=> Grows(k)
    BY PartsDiffer
  <2>2. <<"call", k>> \in Call!Parts
    BY PartsAre
  <2> QED BY <1>0, <2>1, <2>2
<1>2. \A q \in {<<"content", 0>>, <<"reasoning", 0>>, <<"finish", 0>>} : n[q] = m[q]
  <2> SUFFICES ASSUME NEW q \in {<<"content", 0>>, <<"reasoning", 0>>, <<"finish", 0>>}
               PROVE  n[q] = m[q]
    OBVIOUS
  <2>1. q \in Call!Parts /\ ~ \E i \in DOMAIN ks : q = <<"call", ks[i]>>
    BY PartsAre, PartsDiffer
  <2> QED BY <1>0, <2>1
<1>3. /\ b.seen = TRUE
      /\ b.finish = a.finish /\ b.content = a.content /\ b.reasoning = a.reasoning
  BY DEF Call!choice_delta
<1>4. ASSUME NEW k \in 1..Calls
      PROVE  IF Grows(k)
             THEN /\ b.tool_calls[k].seen = TRUE
                  /\ b.tool_calls[k].arguments = Append(a.tool_calls[k].arguments, f)
             ELSE b.tool_calls[k] = a.tool_calls[k]
  <2>1. b.tool_calls = Call!tool_call_delta(a.tool_calls, e)
    BY DEF Call!choice_delta
  <2> DEFINE here == {i \in DOMAIN e.calls : Call!call_index(e.calls[i], i) = k}
  <2>2. (here = {}) <=> ~ Grows(k)
    OBVIOUS
  <2> DEFINE named == a.tool_calls[k].named \/ \E i \in here : e.calls[i].named
  <2>3. Call!tool_call_delta(a.tool_calls, e)[k] =
          IF here = {} THEN a.tool_calls[k]
          ELSE [seen |-> TRUE, named |-> named,
                arguments |-> Append(a.tool_calls[k].arguments, f)]
    BY DEF Call!tool_call_delta
  <2>4. CASE Grows(k)
    <3> DEFINE args == Append(a.tool_calls[k].arguments, f)
               v == b.tool_calls[k]
    <3>1. v = [seen |-> TRUE, named |-> named, arguments |-> args]
      BY <2>1, <2>2, <2>3, <2>4
    <3> HIDE DEF v, named, args
    <3>2. v.seen = TRUE /\ v.arguments = args
      BY <3>1
    <3> QED
      BY <2>4, <3>2 DEF v, args
  <2>5. CASE ~ Grows(k)
    BY <2>1, <2>2, <2>3, <2>5
  <2> QED
    BY <2>4, <2>5
<1>5. \A k \in 1..Calls : m[<<"call", k>>] \in Fragments
  BY PartsAre
<1>6. \E q \in Call!Parts : n[q] # <<>>
  <2>1. 1 \in 1..l /\ ks[1] \in 1..Calls /\ Grows(ks[1])
    BY CallConstants
  <2> HIDE DEF Grows
  <2>2. n[<<"call", ks[1]>>] # <<>>
    <3> DEFINE x == m[<<"call", ks[1]>>]
               y == n[<<"call", ks[1]>>]
    <3>1. x \in Fragments /\ y = Append(x, f)
      BY <1>1, <1>5, <2>1
    <3> HIDE DEF x, y
    <3>2. y # <<>>
      BY <3>1, Longer
    <3> QED BY <3>2 DEF y
  <2> QED
    BY <2>1, <2>2, PartsAre
<1> HIDE DEF b, Grows
<1>7. ASSUME NEW k \in 1..Calls
      PROVE  /\ b.tool_calls[k].arguments = n[<<"call", k>>]
             /\ b.tool_calls[k].seen <=> n[<<"call", k>>] # <<>>
  <2>1. /\ a.tool_calls[k].arguments = m[<<"call", k>>]
        /\ a.tool_calls[k].seen <=> m[<<"call", k>>] # <<>>
    BY DEF Matches
  <2> DEFINE x == m[<<"call", k>>]
             y == n[<<"call", k>>]
             u == a.tool_calls[k]
             v == b.tool_calls[k]
  <2>2. /\ x \in Fragments
        /\ y = IF Grows(k) THEN Append(x, f) ELSE x
        /\ IF Grows(k) THEN v.seen = TRUE /\ v.arguments = Append(u.arguments, f) ELSE v = u
        /\ u.arguments = x /\ (u.seen <=> x # <<>>)
    BY <1>1, <1>4, <1>5, <2>1
  <2>3. Append(x, f) # <<>>
    BY <2>2, Longer
  <2> HIDE DEF x, y, u, v
  <2>4. v.arguments = y /\ (v.seen <=> y # <<>>)
    BY <2>2, <2>3
  <2> QED
    BY <2>4 DEF y, v
<1>8. Matches(b, n)
  <2> DEFINE content == <<"content", 0>>
             reasoning == <<"reasoning", 0>>
             last == <<"finish", 0>>
  <2>1. n[content] = m[content] /\ n[reasoning] = m[reasoning] /\ n[last] = m[last]
    BY <1>2
  <2>2. /\ a.content = m[content] /\ a.reasoning = m[reasoning]
        /\ a.finish = IF m[last] = <<>> THEN Absent ELSE m[last][Len(m[last])]
    BY DEF Matches
  <2> HIDE DEF content, reasoning, last
  <2>3. /\ b.content = n[content] /\ b.reasoning = n[reasoning]
        /\ b.finish = IF n[last] = <<>> THEN Absent ELSE n[last][Len(n[last])]
    BY <1>3, <2>1, <2>2
  <2>4. b.seen <=> \E q \in Call!Parts : n[q] # <<>>
    BY <1>3, <1>6
  <2> QED
    BY <1>7, <2>3, <2>4 DEF Matches, content, reasoning, last
<1> QED
  BY <1>8 DEF b, n

LEMMA FragmentType == StreamInv => Call!Fragment \in Nat \X Nat
BY DEF StreamInv, Call!Fragment

\* An event that adds to choice c what the provider sent of it.
LEMMA OneChoiceGrows ==
  ASSUME StreamInv, at = "reading", UNCHANGED <<at, retries>>,
         NEW c \in Indexes, NEW m \in [Call!Parts -> Fragments],
         sent' = [sent EXCEPT ![c] = m],
         NEW e, e.kind = "choice", e.choice = c, Call!Reads(e),
         Matches(acc.choices[c], sent[c]) => Matches(Call!choice_delta(acc.choices[c], e), m)
  PROVE  StreamInv'
<1>1. /\ acc.choices = [d \in Indexes |-> acc.choices[d]]
      /\ events \in Nat /\ retries \in Nat
      /\ sent \in [Indexes -> [Call!Parts -> Fragments]]
  BY DEF StreamInv
<1>2. events' = events + 1 /\ acc' = Call!chunk(e)
  BY DEF Call!Reads
<1>3. sent' \in [Indexes -> [Call!Parts -> Fragments]]
  BY <1>1
<1>4. StreamIsReassembled'
  BY DEF StreamIsReassembled, Call!StreamIsReassembled
<1>5. CASE acc.error
  <2>1. acc' = acc
    BY <1>2, <1>5 DEF Call!chunk
  <2> QED
    BY <1>1, <1>2, <1>3, <1>4, <1>5, <2>1 DEF StreamInv
<1>6. CASE ~ acc.error
  <2> DEFINE x == Call!choice_delta(acc.choices[c], e)
             all == acc.choices
  <2>1. acc'.choices = [all EXCEPT ![c] = x] /\ acc'.error = FALSE
    BY <1>2, <1>6 DEF Call!chunk
  <2>2. AllMatch
    BY <1>6 DEF StreamInv
  <2>3. Matches(x, m)
    BY <2>2 DEF AllMatch
  <2> HIDE DEF x
  <2>4. acc'.choices = [d \in Indexes |-> acc'.choices[d]]
    BY <1>1, <2>1
  <2>5. ASSUME NEW d \in Indexes PROVE Matches(acc'.choices[d], sent'[d])
    <3>1. CASE d = c
      <4>1. acc'.choices[d] = x /\ sent'[d] = m
        BY <1>1, <2>1, <3>1
      <4> QED BY <2>3, <4>1
    <3>2. CASE d # c
      <4>1. acc'.choices[d] = acc.choices[d] /\ sent'[d] = sent[d]
        BY <1>1, <2>1, <3>2
      <4> QED BY <2>2, <4>1 DEF AllMatch
    <3> QED BY <3>1, <3>2
  <2>6. AllMatch'
    BY <2>5 DEF AllMatch
  <2> QED
    BY <1>1, <1>2, <1>3, <1>4, <2>4, <2>6 DEF StreamInv
<1> QED BY <1>5, <1>6

\* The provider sends an event.
LEMMA EmitsKeepsStream == StreamInv /\ Call!emits => StreamInv'
<1> SUFFICES ASSUME StreamInv, Call!emits PROVE StreamInv'
  OBVIOUS
<1>1. at = "reading" /\ UNCHANGED <<at, retries, setting, got, told>>
  BY DEF Call!emits
<1>2. \A c \in Indexes : sent[c] \in [Call!Parts -> Fragments]
  BY DEF StreamInv
<1> DEFINE f == Call!Fragment
<1>3. f \in Nat \X Nat
  BY FragmentType
<1>4. ASSUME NEW c \in Indexes, NEW p \in Call!Parts, Call!Text(c, p) PROVE StreamInv'
  <2> DEFINE e == [kind |-> "choice", choice |-> c, part |-> p, calls |-> <<>>, text |-> f]
             old == sent[c]
             m == [old EXCEPT ![p] = Append(old[p], f)]
  <2>1. p[1] # "call" /\ Call!Reads(e) /\ sent' = [sent EXCEPT ![c] = m]
    BY <1>4 DEF Call!Text, Call!Says, StreamInv
  <2>2. old \in [Call!Parts -> Fragments]
    BY <1>2
  <2>3. m \in [Call!Parts -> Fragments]
    <3>1. Append(old[p], f) \in Fragments
      <4> HIDE DEF f, old
      <4> QED BY <1>3, <2>2, Longer
    <3> HIDE DEF f, old
    <3> QED BY <2>2, <3>1
  <2>4. e.part = p /\ e.calls = <<>> /\ e.text = f /\ e.kind = "choice" /\ e.choice = c
    OBVIOUS
  <2> HIDE DEF e, f
  <2>5. Matches(acc.choices[c], old) => Matches(Call!choice_delta(acc.choices[c], e), m)
    <3> HIDE DEF old
    <3> QED BY <1>3, <2>1, <2>2, <2>4, TextMatches
  <2> HIDE DEF m
  <2> QED
    BY <1>1, <2>1, <2>3, <2>4, <2>5, OneChoiceGrows
<1>5. ASSUME NEW c \in Indexes, NEW l \in 1..Calls, NEW numbered \in BOOLEAN,
             NEW ks \in [1..l -> 1..Calls], Call!ToolCalls(c, ks, numbered)
      PROVE  StreamInv'
  <2> DEFINE calls == [i \in DOMAIN ks |->
                        [numbered |-> numbered, index |-> ks[i],
                         named |-> fault # "unnamed call" /\ sent[c][<<"call", ks[i]>>] = <<>>]]
             e == [kind |-> "choice", choice |-> c, part |-> <<"call", 0>>,
                   calls |-> calls, text |-> f]
             old == sent[c]
             m == [q \in Call!Parts |-> IF \E i \in DOMAIN ks : q = <<"call", ks[i]>>
                                        THEN Append(old[q], f) ELSE old[q]]
  <2>1. /\ numbered \/ \A i \in DOMAIN ks : ks[i] = i
        /\ Call!Reads(e) /\ sent' = [sent EXCEPT ![c] = m]
    BY <1>5 DEF Call!ToolCalls
  <2>2. old \in [Call!Parts -> Fragments]
    BY <1>2
  <2>3. m \in [Call!Parts -> Fragments]
    <3>1. ASSUME NEW q \in Call!Parts PROVE Append(old[q], f) \in Fragments /\ old[q] \in Fragments
      <4> HIDE DEF f, old
      <4> QED BY <1>3, <2>2, Longer
    <3> HIDE DEF f, old
    <3> QED BY <3>1
  <2>4. /\ e.part = <<"call", 0>> /\ e.text = f /\ e.kind = "choice" /\ e.choice = c
        /\ e.calls = calls /\ DOMAIN calls = 1..l
    OBVIOUS
  <2>5. \A i \in 1..l : Call!call_index(e.calls[i], i) = ks[i]
    <3>1. \A i \in 1..l : calls[i].numbered = numbered /\ calls[i].index = ks[i]
      OBVIOUS
    <3> HIDE DEF calls, e
    <3> QED BY <2>1, <2>4, <3>1 DEF Call!call_index
  <2> HIDE DEF calls, e, f
  <2>6. Matches(acc.choices[c], old) => Matches(Call!choice_delta(acc.choices[c], e), m)
    <3> SUFFICES ASSUME Matches(acc.choices[c], old)
                 PROVE  Matches(Call!choice_delta(acc.choices[c], e), m)
      OBVIOUS
    <3>1. e.part = <<"call", 0>> /\ e.text = f /\ DOMAIN e.calls = 1..l
      BY <2>4
    <3> DEFINE a == acc.choices[c]
    <3>2. Matches(a, old)
      OBVIOUS
    <3>4. m = [q \in Call!Parts |-> IF \E i \in DOMAIN ks : q = <<"call", ks[i]>>
                                    THEN Append(old[q], f) ELSE old[q]]
      OBVIOUS
    <3> HIDE DEF old, a, m
    <3>5. l \in 1..Calls /\ ks \in [1..l -> 1..Calls]
      OBVIOUS
    <3>3. Matches(Call!choice_delta(a, e), m)
      <4> DEFINE delta == Call!choice_delta(a, e)
      <4>1. Matches(delta, m)
        <5>1. SaysCalls(e, l, ks, f)
          BY <1>3, <2>4, <2>5, <3>1, <3>5 DEF SaysCalls
        <5>2. m = WithCalls(old, ks, f)
          BY <3>4 DEF WithCalls
        <5> QED
          BY <2>2, <3>2, <5>1, <5>2, CallsMatch
      <4> QED BY <4>1
    <3> QED BY <3>3 DEF a
  <2> HIDE DEF m
  <2> QED
    BY <1>1, <2>1, <2>3, <2>4, <2>6, OneChoiceGrows
<1>6. ASSUME NEW kind \in {"usage", "comment", "malformed"}, Call!Other(kind) PROVE StreamInv'
  <2> DEFINE e == [kind |-> kind]
  <2>1. sent' = sent /\ events' = events + 1 /\ acc' = Call!chunk(e) /\ e.kind = kind
    BY <1>6 DEF Call!Other, Call!Reads
  <2> HIDE DEF e
  <2>2. acc'.choices = acc.choices /\ (acc.error => acc'.error)
    BY <2>1 DEF Call!chunk
  <2>3. StreamIsReassembled'
    BY <1>1 DEF StreamIsReassembled, Call!StreamIsReassembled
  <2>4. AllMatch => AllMatch'
    BY <2>1, <2>2 DEF AllMatch
  <2>5. events' \in Nat /\ retries' \in Nat
    BY <1>1, <2>1 DEF StreamInv
  <2> QED
    BY <1>1, <2>1, <2>2, <2>3, <2>4, <2>5 DEF StreamInv
<1> QED
  BY <1>4, <1>5, <1>6 DEF Call!emits

\* A choice that is put together as it was sent makes the message sent.
LEMMA MessageIsSent ==
  ASSUME NEW c \in Indexes, Matches(acc.choices[c], sent[c])
  PROVE  LET x == Call!message(acc.choices[c])
         IN  Call!Sent(c) = IF setting.stream THEN [x EXCEPT !.reasoning = <<>>] ELSE x
<1> DEFINE a == acc.choices[c]
           m == sent[c]
           K == {k \in 1..Calls : a.tool_calls[k].seen}
           J == {k \in 1..Calls : m[<<"call", k>>] # <<>>}
           ks == Call!InOrder(K)
           said == [i \in DOMAIN ks |-> a.tool_calls[ks[i]].arguments]
           meant == [i \in DOMAIN ks |-> m[<<"call", ks[i]>>]]
<1>1. K = J
  BY DEF Matches
<1>2. \A i \in DOMAIN ks : ks[i] \in 1..Calls
  <2>1. K \in SUBSET Nat /\ IsFiniteSet(K)
    <3>1. IsFiniteSet(1..Calls) /\ 1..Calls \in SUBSET Nat
      BY CallConstants, FS_Interval
    <3>2. K \in SUBSET (1..Calls)
      OBVIOUS
    <3> HIDE DEF K
    <3> QED BY <3>1, <3>2, FS_Subset
  <2>2. ks \in [1..Cardinality(K) -> K]
    <3> HIDE DEF K
    <3> QED BY <2>1, SortedInOrder DEF Sorts
  <2> QED BY <2>2
<1>3. said = meant
  <2> HIDE DEF ks
  <2> QED BY <1>2 DEF Matches
<1> DEFINE finish == m[<<"finish", 0>>]
           last == IF finish = <<>> THEN Absent ELSE finish[Len(finish)]
<1>4. Call!Sent(c) = [content |-> m[<<"content", 0>>],
                      reasoning |-> IF setting.stream THEN <<>> ELSE m[<<"reasoning", 0>>],
                      finish |-> last,
                      tool_calls |-> meant]
  <2>1. Call!InOrder(J) = ks
    BY <1>1
  <2> HIDE DEF ks, K
  <2> QED BY <2>1 DEF Call!Sent
<1>5. Call!message(a) = [content |-> a.content, reasoning |-> a.reasoning,
                         finish |-> a.finish, tool_calls |-> said]
  BY DEF Call!message
<1>6. a.content = m[<<"content", 0>>] /\ a.reasoning = m[<<"reasoning", 0>>] /\ a.finish = last
  BY DEF Matches
<1> HIDE DEF a, m, said, meant, last
<1> QED
  BY <1>3, <1>4, <1>5, <1>6 DEF a

\* The choices put together are those the provider sent something of.
LEMMA ParseKeepsStream == StreamInv /\ Call!parse_streaming_chat_completion => StreamInv'
<1> SUFFICES ASSUME StreamInv, Call!parse_streaming_chat_completion PROVE StreamInv'
  OBVIOUS
<1> DEFINE C == {c \in Indexes : acc.choices[c].seen}
           S == {c \in Indexes : \E p \in Call!Parts : sent[c][p] # <<>>}
           seen == Call!InOrder(C)
           n == Cardinality(C)
           messages == [i \in DOMAIN seen |-> Call!message(acc.choices[seen[i]])]
<1>1. CASE Call!Fails("invalid_response")
  BY <1>1, FailsForgets
<1>2. CASE /\ at = "reading" /\ ~ acc.error /\ seen # <<>>
           /\ Call!Succeeds(messages) /\ UNCHANGED <<events, acc, fault, sent>>
  <2>1. AllMatch
    BY <1>2 DEF StreamInv
  <2>2. C = S
    BY <2>1 DEF AllMatch, Matches
  <2>3. C \in SUBSET Nat /\ IsFiniteSet(C)
    BY CallConstants, FS_Subset
  <2>4. n \in Nat /\ seen \in [1..n -> C]
    <3> HIDE DEF C
    <3> QED BY <2>3, SortedInOrder, FS_CardinalityType DEF Sorts
  <2>5. n >= 1
    <3> SUFFICES ASSUME n = 0 PROVE FALSE
      <4> HIDE DEF n
      <4> QED BY <2>4
    <3>1. DOMAIN seen = {}
      <4> HIDE DEF n, seen
      <4> QED BY <2>4
    <3>2. seen = <<>>
      <4> HIDE DEF n
      <4>1. seen = [i \in 1..0 |-> seen[i]]
        BY <2>4
      <4> HIDE DEF seen
      <4> QED BY <4>1
    <3> QED BY <1>2, <3>2
  <2>6. /\ at' = "answered" /\ UNCHANGED <<setting, retries, events, acc, sent>>
        /\ got' = IF setting.stream THEN Call!streaming_response(messages) ELSE messages
        /\ told'.choices = Len(messages)
    BY <1>2 DEF Call!Succeeds, Call!emit_gateway_attempt, Call!success_response
  <2>7. Len(messages) = n /\ DOMAIN messages = 1..n /\ DOMAIN seen = 1..n
    <3> HIDE DEF seen, n
    <3> QED BY <2>4
  <2>8. ASSUME NEW i \in 1..n
        PROVE  Call!Sent(seen[i]) = IF setting.stream THEN [messages[i] EXCEPT !.reasoning = <<>>]
                                    ELSE messages[i]
    <3>1. seen[i] \in Indexes
      <4> HIDE DEF seen, n
      <4> QED BY <2>4
    <3>2. messages[i] = Call!message(acc.choices[seen[i]])
      <4> HIDE DEF seen, n
      <4> QED BY <2>7
    <3>3. Matches(acc.choices[seen[i]], sent[seen[i]])
      BY <2>1, <3>1 DEF AllMatch
    <3> HIDE DEF seen, n, messages
    <3> QED BY <3>1, <3>2, <3>3, MessageIsSent
  <2>9. \A c : Call!Sent(c)' = Call!Sent(c)
    BY <2>6 DEF Call!Sent
  <2> DEFINE spoken == Call!InOrder(S)
  <2>10. spoken' = seen /\ Len(seen) = n
    <3>1. spoken' = seen
      BY <2>2, <2>6
    <3>2. Len(seen) = n
      <4> HIDE DEF seen, n
      <4> QED BY <2>4, <2>7
    <3> QED BY <3>1, <3>2
  <2>11. got' = [i \in 1..(IF setting.stream THEN 1 ELSE n) |-> Call!Sent(seen[i])]
    <3>1. CASE setting.stream
      <4>1. Call!streaming_response(messages) = <<[messages[1] EXCEPT !.reasoning = <<>>]>>
        BY DEF Call!streaming_response
      <4>2. [messages[1] EXCEPT !.reasoning = <<>>] = Call!Sent(seen[1])
        <5> HIDE DEF seen, n, messages
        <5> QED BY <2>4, <2>5, <2>8, <3>1
      <4> HIDE DEF seen, n, messages
      <4>3. got' = <<Call!Sent(seen[1])>>
        BY <2>6, <3>1, <4>1, <4>2
      <4> QED BY <3>1, <4>3
    <3>2. CASE ~ setting.stream
      <4>1. got' = messages
        BY <2>6, <3>2
      <4>2. messages = [i \in 1..n |-> messages[i]]
        BY <2>7
      <4>3. \A i \in 1..n : messages[i] = Call!Sent(seen[i])
        BY <2>8, <3>2
      <4> HIDE DEF seen, n, messages
      <4> QED BY <3>2, <4>1, <4>2, <4>3
    <3> QED BY <3>1, <3>2
  <2>12. StreamIsReassembled'
    <3> HIDE DEF seen, n, messages
    <3>1. ASSUME NEW i \in 1..n PROVE Call!Sent(spoken[i])' = Call!Sent(seen[i])
      BY <2>6, <2>10 DEF Call!Sent
    <3> DEFINE count == IF setting.stream THEN 1 ELSE n
               whole == [i \in 1..(IF setting.stream THEN 1 ELSE Len(spoken)) |->
                           Call!Sent(spoken[i])]
    <3>2. whole' = [i \in 1..count |-> Call!Sent(spoken[i])']
      BY <2>6, <2>10
    <3>3. \A i \in 1..count : i \in 1..n
      BY <2>4, <2>5
    <3>4. whole' = got'
      <4> HIDE DEF spoken
      <4> QED BY <2>11, <3>1, <3>2, <3>3
    <3>5. told'.choices = Len(spoken)'
      BY <2>6, <2>7, <2>10
    <3> QED BY <3>4, <3>5 DEF StreamIsReassembled, Call!StreamIsReassembled
  <2>13. AllMatch'
    BY <2>1, <2>6 DEF AllMatch
  <2> QED
    BY <2>6, <2>12, <2>13 DEF StreamInv
<1> QED
  BY <1>1, <1>2 DEF Call!parse_streaming_chat_completion

\* An answer in one piece is the first choice's text.
LEMMA JsonKeepsStream == StreamInv /\ Call!json_answer => StreamInv'
<1> SUFFICES ASSUME StreamInv, Call!json_answer PROVE StreamInv'
  OBVIOUS
<1> DEFINE text == <<<<retries, 0>>>>
           first == CHOOSE c \in Indexes : \A d \in Indexes : c <= d
           x == [content |-> text, reasoning |-> <<>>, tool_calls |-> <<>>, finish |-> Absent]
<1>1. CASE Call!Fails("invalid_response")
  BY <1>1, FailsForgets
<1>2. CASE /\ at = "called" /\ sent' = [sent EXCEPT ![first][<<"content", 0>>] = text]
           /\ Call!Succeeds(<<x>>) /\ UNCHANGED <<events, acc, fault>>
  <2>1. first \in Indexes
    BY CallConstants, HasLeast
  <2> HIDE DEF first
  <2>2. sent = Call!Nothing /\ retries \in Nat
    BY <1>2 DEF StreamInv
  <2>3. text \in Fragments /\ text # <<>>
    BY <2>2 DEF Fragments
  <2> HIDE DEF text
  <2> DEFINE C == <<"content", 0>>
             m == [p \in Call!Parts |-> IF p = C THEN text ELSE <<>>]
  <2>4. /\ sent' \in [Indexes -> [Call!Parts -> Fragments]]
        /\ sent'[first] = m
        /\ \A c \in Indexes : c # first => \A p \in Call!Parts : sent'[c][p] = <<>>
    <3>1. sent = [c \in Indexes |-> [p \in Call!Parts |-> <<>>]]
      BY <2>2 DEF Call!Nothing
    <3>2. sent'[first] = m
      BY <1>2, <2>1, <3>1, PartsAre
    <3>3. ASSUME NEW c \in Indexes, c # first
          PROVE  sent'[c] = [p \in Call!Parts |-> <<>>]
      BY <1>2, <3>1, <3>3
    <3>4. <<>> \in Fragments
      BY DEF Fragments
    <3>5. m \in [Call!Parts -> Fragments]
      BY <2>3, <3>4
    <3>6. \A c \in Indexes : sent'[c] \in [Call!Parts -> Fragments]
      <4> HIDE DEF m
      <4> QED BY <3>2, <3>3, <3>4, <3>5
    <3>7. sent' = [c \in Indexes |-> sent'[c]]
      BY <1>2, <3>1
    <3>8. sent' \in [Indexes -> [Call!Parts -> Fragments]]
      <4> HIDE DEF m
      <4> QED BY <3>6, <3>7
    <3> QED BY <3>2, <3>3, <3>8
  <2>5. C \in Call!Parts /\ m[C] = text /\ \A p \in Call!Parts : p # C => m[p] = <<>>
    BY PartsAre
  <2>6. {c \in Indexes : \E p \in Call!Parts : sent'[c][p] # <<>>} = {first}
    <3> HIDE DEF m, C
    <3> QED BY <2>1, <2>3, <2>4, <2>5
  <2> DEFINE spoken == Call!InOrder({first})
  <2>7. spoken \in [1..1 -> {first}] /\ spoken[1] = first /\ Len(spoken) = 1
    <3>1. {first} \in SUBSET Nat /\ IsFiniteSet({first}) /\ Cardinality({first}) = 1
      BY <2>1, CallConstants, FS_Singleton
    <3>2. spoken \in [1..1 -> {first}]
      BY <3>1, SortedInOrder DEF Sorts
    <3> HIDE DEF spoken
    <3> QED BY <3>2
  <2>8. /\ at' = "answered" /\ UNCHANGED <<setting, retries, events, acc>>
        /\ got' = IF setting.stream THEN Call!streaming_response(<<x>>) ELSE <<x>>
        /\ told'.choices = 1
    <3>1. Len(<<x>>) = 1
      OBVIOUS
    <3> QED
      BY <1>2, <3>1 DEF Call!Succeeds, Call!emit_gateway_attempt, Call!success_response
  <2>9. got' = <<x>>
    <3>1. Call!streaming_response(<<x>>) = <<[x EXCEPT !.reasoning = <<>>]>>
      BY DEF Call!streaming_response
    <3>2. [x EXCEPT !.reasoning = <<>>] = x
      OBVIOUS
    <3> HIDE DEF x
    <3> QED BY <2>8, <3>1, <3>2
  <2>10. Call!Sent(first)' = x
    <3> DEFINE R == <<"reasoning", 0>>
               F == <<"finish", 0>>
               ks == Call!InOrder({})
    <3>1. m[R] = <<>> /\ m[F] = <<>> /\ \A k \in 1..Calls : m[<<"call", k>>] = <<>>
      BY <2>5, PartsAre, PartsDiffer
    <3>2. {k \in 1..Calls : m[<<"call", k>>] # <<>>} = {}
      BY <3>1
    <3>3. DOMAIN ks = {}
      <4>1. {} \in SUBSET Nat /\ IsFiniteSet({}) /\ Cardinality({}) = 0
        BY FS_EmptySet
      <4>2. ks \in [1..0 -> {}]
        BY <4>1, SortedInOrder DEF Sorts
      <4> HIDE DEF ks
      <4> QED BY <4>2
    <3> DEFINE calls == [i \in DOMAIN ks |-> m[<<"call", ks[i]>>]]
    <3>4. calls = <<>>
      <4> HIDE DEF ks, m
      <4> QED BY <3>3
    <3> HIDE DEF m
    <3>5. Call!Sent(first)' =
            [content |-> m[C],
             reasoning |-> IF setting'.stream THEN <<>> ELSE m[R],
             finish |-> IF m[F] = <<>> THEN Absent ELSE m[F][Len(m[F])],
             tool_calls |-> calls]
      BY <2>4, <3>2 DEF Call!Sent
    <3> HIDE DEF calls
    <3> QED BY <2>5, <3>1, <3>4, <3>5
  <2>11. StreamIsReassembled'
    <3> HIDE DEF x, spoken
    <3>1. [i \in 1..1 |-> Call!Sent(spoken[i])'] = <<x>>
      <4>1. Call!Sent(spoken[1])' = x
        BY <2>7, <2>8, <2>10 DEF Call!Sent
      <4> QED BY <4>1
    <3>2. (IF setting'.stream THEN 1 ELSE Len(spoken)) = 1
      BY <2>7
    <3> QED
      BY <2>6, <2>7, <2>8, <2>9, <3>1, <3>2 DEF StreamIsReassembled, Call!StreamIsReassembled, spoken
  <2> QED
    BY <2>4, <2>8, <2>11 DEF StreamInv
<1> QED
  BY <1>1, <1>2 DEF Call!json_answer

LEMMA StreamInductive == StreamInv /\ [Call!UpstreamNext]_(Call!upstreamVars) => StreamInv'
<1> SUFFICES ASSUME StreamInv, [Call!UpstreamNext]_(Call!upstreamVars) PROVE StreamInv'
  OBVIOUS
<1>1. CASE Call!send_chat_completion_request
  BY <1>1, RestsKeepStream DEF Call!send_chat_completion_request
<1>2. CASE Call!transport
  BY <1>2, FailsForgets DEF Call!transport
<1>3. CASE Call!http_status_error
  BY <1>3, FailsForgets DEF Call!http_status_error
<1>4. CASE Call!json_answer
  BY <1>4, JsonKeepsStream
<1>5. CASE Call!event_stream
  BY <1>5, RestsKeepStream DEF Call!event_stream
<1>6. CASE Call!emits
  BY <1>6, EmitsKeepsStream
<1>7. CASE Call!parse_streaming_chat_completion
  BY <1>7, ParseKeepsStream
<1>8. CASE Call!retry_delay
  BY <1>8, RestsKeepStream DEF Call!retry_delay
<1>9. CASE Call!hang_up
  <2>1. PICK c \in Indexes : TRUE
    BY CallConstants
  <2>2. /\ at' = "gone" /\ events' = 0 /\ acc' = Call!Accumulated /\ sent' = Call!Nothing
        /\ retries' = retries
    BY <1>9 DEF Call!hang_up, Call!Dropped
  <2>3. StreamIsReassembled'
    BY <2>2 DEF StreamIsReassembled, Call!StreamIsReassembled
  <2> QED
    BY <2>1, <2>2, <2>3, NothingMatches DEF StreamInv
<1>10. ASSUME NEW s, Call!sink_emits(s) PROVE StreamInv'
  BY <1>10, RestsKeepStream DEF Call!sink_emits
<1>11. CASE UNCHANGED Call!upstreamVars
  BY <1>11, RestsKeepStream DEF Call!upstreamVars
<1> QED
  BY <1>1, <1>2, <1>3, <1>4, <1>5, <1>6, <1>7, <1>8, <1>9, <1>10, <1>11 DEF Call!UpstreamNext

\* What a client is answered is what the provider sent in the attempt that
\* succeeded, however the events of its stream were interleaved
\* (parse_streaming_chat_completion, LoggingGateway).
THEOREM StreamsAreReassembled == Call!UpstreamSpec => []StreamIsReassembled
<1>1. Call!UpstreamInit => StreamInv
  BY StreamInitInv
<1>2. StreamInv /\ [Call!UpstreamNext]_(Call!upstreamVars) => StreamInv'
  BY StreamInductive
<1>3. StreamInv => StreamIsReassembled
  BY DEF StreamInv
<1> QED
  BY <1>1, <1>2, <1>3, PTL DEF Call!UpstreamSpec
=============================================================================
