----------------------------- MODULE LocalModel -----------------------------
(***************************************************************************)
(* The local model manager (calciforge: local_model/) and who asks it to   *)
(* switch: POST /control/local/switch, !model, and the start-up load of    *)
(* main.rs.  A switch runs on a thread of its own; threads share the       *)
(* recorded model and the handle of the server process, each under a lock  *)
(* that is held for one access only.  All servers use one port.            *)
(***************************************************************************)
EXTENDS Naturals, FiniteSets

CONSTANTS
  Switches,  \* requests for a switch
  Startup,   \* the one made at start-up
  Models,
  Wanted,    \* the combinations of targets considered; None is not made
  Hooks,     \* scripts are configured to run before and after
  None

External == "external"  \* a server from outside

ASSUME LocalModelAssumption ==
  /\ Startup \in Switches
  /\ External \notin Switches
  /\ None \notin Models \cup Switches
  /\ Wanted \subseteq [Switches -> Models \cup {None, "unknown"}]
  /\ Hooks \in BOOLEAN

VARIABLES
  target,   \* what each switch is for
  thread,   \* where each switch is
  state,    \* the recorded model
  handle,   \* the switch whose server the manager holds
  proc,     \* servers by switch, and one from outside: "none", "up", "serving", "gone"
  alone,    \* history: no two switches overlapped,
  smooth    \* and no server failed, stayed when it should go, or went by itself

localVars == <<target, thread, state, handle, proc, alone, smooth>>

Servers == Switches \cup {External}
Serving == {p \in Servers : proc[p] = "serving"}
Resting == {"idle", "done", "failed"}
UnderWay == {s \in Switches : thread[s] \notin Resting}

LocalModelInit ==
  /\ target \in Wanted
  /\ thread = [s \in Switches |-> "idle"]
  /\ state = None
  /\ handle = None
  /\ \E e \in {"none", "serving"} :
       proc = [p \in Servers |-> IF p = External THEN e ELSE "none"]
  /\ alone = TRUE
  /\ smooth = TRUE

Goes(s, place) == thread' = [thread EXCEPT ![s] = place]

-----------------------------------------------------------------------------

\* POST /control/local/switch: the key and the body are checked, then a
\* thread takes over, whatever becomes of the connection.
local_model_switch(s) ==
  /\ s # Startup /\ thread[s] = "idle" /\ target[s] # None
  /\ \/ Goes(s, "failed") /\ UNCHANGED alone
     \/ Goes(s, "switch") /\ alone' = (alone /\ UnderWay = {})
  /\ UNCHANGED <<target, state, handle, proc, smooth>>

\* !model answers at once; a model nobody knows starts nothing.
handle_model(s) ==
  /\ s # Startup /\ thread[s] = "idle" /\ target[s] \in Models
  /\ Goes(s, "switch")
  /\ alone' = (alone /\ UnderWay = {})
  /\ UNCHANGED <<target, state, handle, proc, smooth>>

\* main: the configured model is loaded in the background.
auto_load(s) ==
  /\ s = Startup /\ thread[s] = "idle" /\ target[s] # None
  /\ Goes(s, "switch")
  /\ alone' = (alone /\ UnderWay = {})
  /\ UNCHANGED <<target, state, handle, proc, smooth>>

\* A model that is recorded is taken to be there.
switch(s) ==
  /\ thread[s] = "switch"
  /\ Goes(s, IF target[s] \notin Models THEN "failed"
             ELSE IF state = target[s] THEN "done"
             ELSE IF Hooks THEN "pre_switch" ELSE "stop")
  /\ UNCHANGED <<target, state, handle, proc, alone, smooth>>

\* The first script must succeed; what the second returns does not matter.
run_hook(s) ==
  /\ \/ thread[s] = "pre_switch" /\ (Goes(s, "stop") \/ Goes(s, "failed"))
     \/ thread[s] = "post_switch" /\ Goes(s, "record")
  /\ UNCHANGED <<target, state, handle, proc, alone, smooth>>

\* The server the manager holds is terminated, in the end by force.
stop(s) ==
  /\ thread[s] = "stop"
  /\ Goes(s, "kill")
  /\ proc' = [p \in Servers |-> IF p = handle THEN "gone" ELSE proc[p]]
  /\ handle' = None
  /\ UNCHANGED <<target, state, alone, smooth>>

\* Mutant: nobody looks whether the port is in use.
kill_None(s) ==
  /\ thread[s] = "kill"
  /\ Goes(s, "spawn")
  /\ UNCHANGED <<target, state, handle, proc, alone, smooth>>

\* Whoever listens on the port is asked to go, if that can be found out, and
\* after a while is left alone.
kill_existing_on_port(s) ==
  /\ thread[s] = "kill"
  /\ Goes(s, "spawn")
  /\ \/ /\ proc' = [p \in Servers |-> IF p \in Serving THEN "gone" ELSE proc[p]]
        /\ UNCHANGED smooth
     \/ /\ Serving # {}
        /\ smooth' = FALSE
        /\ UNCHANGED proc
  /\ UNCHANGED <<target, state, handle, alone>>

start(s) ==
  /\ thread[s] = "spawn"
  /\ \/ /\ proc' = [proc EXCEPT ![s] = "up"]
        /\ Goes(s, "wait")
        /\ UNCHANGED smooth
     \/ /\ Goes(s, "failed")
        /\ smooth' = FALSE
        /\ UNCHANGED proc
  /\ UNCHANGED <<target, state, handle, alone>>

\* Anybody who accepts connections on the port will do.  After the time is
\* up the new server is dropped, which does not end it.
wait_for_ready(s) ==
  /\ thread[s] = "wait"
  /\ \/ Serving # {} /\ Goes(s, "store") /\ UNCHANGED smooth
     \/ Goes(s, "failed") /\ smooth' = FALSE
  /\ UNCHANGED <<target, state, handle, proc, alone>>

\* The handle replaces one another switch may have stored.
store_handle(s) ==
  /\ thread[s] = "store"
  /\ handle' = s
  /\ Goes(s, IF Hooks THEN "post_switch" ELSE "record")
  /\ UNCHANGED <<target, state, proc, alone, smooth>>

record_loaded(s) ==
  /\ thread[s] = "record"
  /\ state' = target[s]
  /\ Goes(s, "done")
  /\ UNCHANGED <<target, handle, proc, alone, smooth>>

\* A server that is up takes the port, or ends if it is taken.
bind(p) ==
  /\ proc[p] = "up"
  /\ proc' = [proc EXCEPT ![p] = IF Serving = {} THEN "serving" ELSE "gone"]
  /\ UNCHANGED <<target, thread, state, handle, alone, smooth>>

\* A server goes by itself.
crash(p) ==
  /\ proc[p] \in {"up", "serving"}
  /\ proc' = [proc EXCEPT ![p] = "gone"]
  /\ smooth' = FALSE
  /\ UNCHANGED <<target, thread, state, handle, alone>>

LocalModelNext ==
  \/ \E s \in Switches :
       \/ local_model_switch(s) \/ handle_model(s) \/ auto_load(s) \/ switch(s)
       \/ run_hook(s) \/ stop(s) \/ kill_existing_on_port(s) \/ start(s)
       \/ wait_for_ready(s) \/ store_handle(s) \/ record_loaded(s)
  \/ \E p \in Servers : bind(p) \/ crash(p)

LocalModelSpec == LocalModelInit /\ [][LocalModelNext]_localVars

-----------------------------------------------------------------------------
(* Properties                                                              *)

Served == {target[p] : p \in Serving \cap Switches}

\* Switches made one after the other, with no server failing, end with the
\* recorded model served, and by it alone; a server somebody else had left on
\* the port does not come between (switch, kill_existing_on_port).  The
\* recorded model is what later requests for it are answered from.
RecordedIsServed ==
  alone /\ smooth /\ UnderWay = {} /\ state # None =>
    Served = {state} /\ Serving = {handle}
=============================================================================
