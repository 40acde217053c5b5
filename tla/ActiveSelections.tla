-------------------------- MODULE ActiveSelections --------------------------
(***************************************************************************)
(* Which agent, downstream session and gateway model an identity talks to  *)
(* (calciforge, commands/sessions.rs, model.rs, state.rs).  A command      *)
(* changes the map in memory and copies it under the map's lock, lets go   *)
(* of the lock, and writes the copy over the whole file.  Commands come    *)
(* from several channels at once; writing a file truncates it first.       *)
(***************************************************************************)
EXTENDS Integers, FiniteSets

CONSTANTS
  Identity, Agents, Session, Model,
  Default,       \* identity -> default_agent of its routing rule
  SessionAgent,  \* agents with sessions
  OverrideAgent, \* agents that take a model override
  Synthetic,     \* models that are alloys, cascades or dispatchers
  Matched,       \* models some provider serves by a wildcard, and no list names
  Command,       \* the commands given
  None,          \* no selection
  MaxBusy,       \* bound: commands under way at once
  MaxRestarts,   \* bound: restarts
  Edits          \* the model lists an edited configuration may have: none
                 \* if the configuration is not edited between restarts

ASSUME SelectionsAssumption ==
  /\ Default \in [Identity -> Agents]
  /\ SessionAgent \subseteq Agents /\ OverrideAgent \subseteq Agents
  /\ None \notin Agents \cup Session \cup Model
  /\ Synthetic \subseteq Model /\ Matched \subseteq Model \ Synthetic
  /\ MaxBusy \in Nat /\ MaxRestarts \in Nat
  /\ Edits \subseteq SUBSET (Model \ Matched)

VARIABLES
  allowed,    \* config: identity -> the agents it may switch to
  selectors,  \* config: the models listed in it
  agents,     \* active_agents
  sessions,   \* active_sessions
  models,     \* active_models
  disk,       \* file -> its state and, if it is readable, the map in it
  step, op,   \* command -> where it is, what it is
  snap,       \* command -> the copy it writes
  restarts,
  raced,      \* history: the files two commands have been writing at once,
              \* and nobody alone since
  granted     \* history: identity -> the agents it was ever allowed

config == <<allowed, selectors>>
memory == <<agents, sessions, models>>
selectionVars == <<config, memory, disk, step, op, snap, restarts, raced, granted>>

File == {"agents", "sessions", "models"}

EmptyMap(f) ==
  IF f = "sessions" THEN [i \in Identity |-> [a \in Agents |-> None]]
                    ELSE [i \in Identity |-> None]

Current(f) ==
  IF f = "sessions" THEN sessions
  ELSE IF f = "agents" THEN agents ELSE models

NoOp == [identity |-> None, agent |-> None, session |-> None, file |-> "agents"]

SelectionsInit ==
  /\ allowed \in [Identity -> (SUBSET Agents) \ {{}}]
  /\ selectors = Model \ Matched
  /\ agents = EmptyMap("agents")
  /\ sessions = EmptyMap("sessions")
  /\ models = EmptyMap("models")
  /\ disk = [f \in File |-> [state |-> "ok", map |-> EmptyMap(f)]]
  /\ step = [c \in Command |-> "new"]
  /\ op = [c \in Command |-> NoOp]
  /\ snap = [c \in Command |-> EmptyMap("agents")]
  /\ restarts = 0
  /\ raced = {}
  /\ granted = allowed

Busy == {c \in Command : step[c] \in {"session", "truncate", "fill"}}

\* The commands that are writing f.
Writers(f) == {c \in Command : step[c] \in {"truncate", "fill"} /\ op[c].file = f}

\* The command holds a copy of the map and is about to write it to f.
Saves(c, f, map, o) ==
  /\ snap' = [snap EXCEPT ![c] = map]
  /\ op' = [op EXCEPT ![c] = [o EXCEPT !.file = f]]
  /\ step' = [step EXCEPT ![c] = "truncate"]
  /\ raced' = IF Writers(f) \ {c} = {} THEN raced \ {f} ELSE raced \cup {f}

Arrives(c) == step[c] = "new" /\ Cardinality(Busy) < MaxBusy

active_agent_for(i) == IF agents[i] = None THEN Default[i] ELSE agents[i]

switchable(i) == allowed[i]

\* !switch agent [session], checked against the identity's routing rule.
handle_switch(c) ==
  /\ Arrives(c)
  /\ \E i \in Identity, s \in Session \cup {None} : \E a \in switchable(i) :
       /\ agents' = [agents EXCEPT ![i] = a]
       /\ Saves(c, "agents", agents',
                [identity |-> i, agent |-> a, session |-> s, file |-> "agents"])
  /\ UNCHANGED <<config, sessions, models, disk, restarts, granted>>

\* !default
handle_default(c) ==
  /\ Arrives(c)
  /\ \E i \in Identity :
       /\ agents' = [agents EXCEPT ![i] = Default[i]]
       /\ Saves(c, "agents", agents', [NoOp EXCEPT !.identity = i])
  /\ UNCHANGED <<config, sessions, models, disk, restarts, granted>>

\* !model: for an identity whose agent takes overrides.
handle_model(c) ==
  /\ Arrives(c)
  /\ \E i \in Identity, m \in selectors \cup Matched :
       /\ active_agent_for(i) \in OverrideAgent
       /\ models' = [models EXCEPT ![i] = m]
       /\ Saves(c, "models", models', [NoOp EXCEPT !.identity = i])
  /\ UNCHANGED <<config, agents, sessions, disk, restarts, granted>>

\* !new: the active agent is read first, the session is set for it after.
handle_new_session(c) ==
  /\ Arrives(c)
  /\ \E i \in Identity, s \in Session :
       /\ active_agent_for(i) \in SessionAgent
       /\ op' = [op EXCEPT ![c] = [identity |-> i, agent |-> active_agent_for(i),
                                  session |-> s, file |-> "sessions"]]
  /\ step' = [step EXCEPT ![c] = "session"]
  /\ UNCHANGED <<config, memory, disk, snap, restarts, raced, granted>>

set_active_session_for(c) ==
  /\ step[c] = "session"
  /\ sessions' = [sessions EXCEPT ![op[c].identity][op[c].agent] = op[c].session]
  /\ Saves(c, "sessions", sessions', op[c])
  /\ UNCHANGED <<config, agents, models, disk, restarts, granted>>

-----------------------------------------------------------------------------
(* write_json_map.                                                         *)

truncate(c) ==
  /\ step[c] = "truncate"
  /\ disk' = [disk EXCEPT ![op[c].file] =
                [state |-> "empty", map |-> EmptyMap(op[c].file)]]
  /\ step' = [step EXCEPT ![c] = "fill"]
  /\ UNCHANGED <<config, memory, op, snap, restarts, raced, granted>>

\* What the sessions map becomes after the agents file was written: !default
\* forgets the identity's sessions, !switch sets or forgets the agent's.
SessionsAfter(o) ==
  IF o.agent = None THEN [sessions EXCEPT ![o.identity] = [a \in Agents |-> None]]
  ELSE IF o.agent \in SessionAgent
       THEN [sessions EXCEPT ![o.identity][o.agent] = o.session]
       ELSE sessions

\* Written into a file that nobody touched since it was truncated, the file
\* is the copy; over what another command wrote, it may be a mixture.
Filled(f, map) ==
  LET copy == [state |-> "ok", map |-> map]
  IN IF disk[f].state = "empty" THEN {copy}
     ELSE {copy, [state |-> "garbled", map |-> EmptyMap(f)]}

\* After the agents file, the sessions map is changed and copied in turn.
After(c) ==
  IF op[c].file = "agents"
  THEN /\ sessions' = SessionsAfter(op[c])
       /\ Saves(c, "sessions", sessions', op[c])
  ELSE /\ step' = [step EXCEPT ![c] = "done"]
       /\ UNCHANGED <<sessions, snap, op, raced>>

fill(c) ==
  /\ step[c] = "fill"
  /\ \E content \in Filled(op[c].file, snap[c]) :
       disk' = [disk EXCEPT ![op[c].file] = content]
  /\ After(c)
  /\ UNCHANGED <<config, agents, models, restarts, granted>>

-----------------------------------------------------------------------------
(* Restart: what cannot be read counts as no selection at all.             *)

read_json_map(f) == IF disk[f].state = "ok" THEN disk[f].map ELSE EmptyMap(f)

\* Mutant: whatever was saved is taken.
retained_All(map, configured) == map

\* with_alloy_manager drops models that are not listed.  It is called only
\* if there is a synthetic model for it to manage.
retained(map, configured) ==
  IF configured \cap Synthetic = {} THEN map
  ELSE [i \in Identity |-> IF map[i] \in configured THEN map[i] ELSE None]

restart ==
  /\ restarts < MaxRestarts
  /\ restarts' = restarts + 1
  /\ \/ UNCHANGED config
     \/ /\ selectors' \in Edits
        /\ allowed' \in [Identity -> (SUBSET Agents) \ {{}}]
  /\ agents' = read_json_map("agents")
  /\ sessions' = read_json_map("sessions")
  /\ models' = retained(read_json_map("models"), selectors')
  /\ disk' = IF selectors' \cap Synthetic = {} THEN disk
             ELSE [disk EXCEPT !["models"] = [state |-> "ok", map |-> models']]
  /\ step' = [c \in Command |-> IF c \in Busy THEN "done" ELSE step[c]]
  /\ raced' = {}
  /\ granted' = [i \in Identity |-> granted[i] \cup allowed'[i]]
  /\ UNCHANGED <<op, snap>>

SelectionsNext ==
  \/ \E c \in Command :
       \/ handle_switch(c) \/ handle_default(c) \/ handle_model(c)
       \/ handle_new_session(c) \/ set_active_session_for(c)
       \/ truncate(c) \/ fill(c)
  \/ restart

SelectionsSpec == SelectionsInit /\ [][SelectionsNext]_selectionVars

-----------------------------------------------------------------------------
(* Properties.                                                             *)

\* "Persisted to active-agents.json and loaded on startup": a file that
\* nobody is writing, and that no two commands wrote at once, is read back as
\* what is in memory, and so it is right after a restart.
FilesCurrent ==
  \A f \in File \ raced : Writers(f) = {} => read_json_map(f) = Current(f)

\* Messages go to the default agent or to one the identity was allowed to
\* use when it was selected (a selection is not compared with a later
\* configuration), and an override names a model the running configuration
\* has, if that has a synthetic one, across switches, races for the files and
\* restarts, which find in the files what was selected (handle_switch,
\* handle_model, with_alloy_manager, write_json_map).
SelectionsAllowed ==
  /\ \A i \in Identity :
       /\ active_agent_for(i) \in granted[i] \cup {Default[i]}
       /\ selectors \cap Synthetic # {} =>
            models[i] \in selectors \cup Matched \cup {None}
  /\ FilesCurrent
=============================================================================
