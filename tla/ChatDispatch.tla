---------------------------- MODULE ChatDispatch ----------------------------
(***************************************************************************)
(* How a channel hands a user's message to the active agent and records    *)
(* the answer (calciforge, channels/telegram.rs; the other channels follow *)
(* the same steps).  The agent is resolved when the message arrives; a     *)
(* task spawned for it builds the context preamble, waits for the agent    *)
(* for as long as that takes, and records the exchange if it answered.     *)
(* Tasks of one chat run concurrently, and the user may switch agents or   *)
(* clear the context meanwhile.                                            *)
(***************************************************************************)
EXTENDS ConversationContext

CONSTANTS
  Chat,         \* chats; each belongs to one identity
  NativeAgent,  \* agents whose adapter handles slash commands itself
  NativeText,   \* messages that are slash commands
  MaxInFlight   \* bound: messages of a chat that await an agent at once

ASSUME DispatchAssumption ==
  /\ NativeAgent \subseteq Agent
  /\ NativeText \subseteq Message
  /\ MaxInFlight \in Nat

VARIABLES
  ctx,       \* ContextStore: chat -> Context
  active,    \* the agent messages of the chat go to
  pc,        \* message -> its task's position
  chat,      \* message -> the chat it was sent in
  agent,     \* message -> the agent resolved on arrival
  injected,  \* message -> the prompts in the preamble it was sent with
  seen,      \* history: agent -> prompts it was given with what it answered
  overlapped \* history: agent -> prompts recorded while it was being asked

vars == <<ctx, active, pc, chat, agent, injected, seen, overlapped>>

Position == {"new", "spawned", "waiting", "answered", "paused", "failed"}

Init ==
  /\ ctx = [c \in Chat |-> EmptyContext]
  /\ active \in [Chat -> Agent]
  /\ pc = [m \in Message |-> "new"]
  /\ chat \in [Message -> Chat]
  /\ agent = [m \in Message |-> CHOOSE a \in Agent : TRUE]
  /\ injected = [m \in Message |-> {}]
  /\ seen = [a \in Agent |-> {}]
  /\ overlapped = [a \in Agent |-> {}]

InFlight(c) == {m \in Message : chat[m] = c /\ pc[m] \in {"spawned", "waiting"}}

\* The agent's adapter takes slash commands as they are.
PreservesNative(m) == agent[m] \in NativeAgent /\ m \in NativeText

-----------------------------------------------------------------------------

\* The update handler resolves the agent and spawns the task.
receive(m) ==
  /\ pc[m] = "new"
  /\ Cardinality(InFlight(chat[m])) < MaxInFlight
  /\ agent' = [agent EXCEPT ![m] = active[chat[m]]]
  /\ pc' = [pc EXCEPT ![m] = "spawned"]
  /\ UNCHANGED <<ctx, active, chat, injected, seen, overlapped>>

\* augment_message_with_options, then the request to the agent.
augment_message(m) ==
  /\ pc[m] = "spawned"
  /\ injected' = [injected EXCEPT ![m] =
       IF PreservesNative(m) THEN {}
       ELSE {e.prompt : e \in build_preamble(ctx[chat[m]], agent[m])}]
  /\ pc' = [pc EXCEPT ![m] = "waiting"]
  /\ UNCHANGED <<ctx, active, chat, agent, seen, overlapped>>

\* The agent answers: push_with_options, then the reply to the user.
answer(m) ==
  /\ pc[m] = "waiting"
  /\ ctx' = IF PreservesNative(m) THEN ctx
            ELSE [ctx EXCEPT ![chat[m]] = push(@, m, agent[m])]
  /\ seen' = [seen EXCEPT ![agent[m]] = @ \cup injected[m] \cup {m}]
  /\ overlapped' = [a \in Agent |->
       IF \E q \in Message \ {m} : /\ chat[q] = chat[m] /\ agent[q] = a
                                   /\ pc[q] = "waiting"
       THEN overlapped[a] \cup {m} ELSE overlapped[a]]
  /\ pc' = [pc EXCEPT ![m] = "answered"]
  /\ UNCHANGED <<active, chat, agent, injected>>

\* The agent pauses for an approval: nothing is recorded, now or later.
approval_pending(m) ==
  /\ pc[m] = "waiting"
  /\ pc' = [pc EXCEPT ![m] = "paused"]
  /\ UNCHANGED <<ctx, active, chat, agent, injected, seen, overlapped>>

\* Any other error is reported to the user and not recorded.
dispatch_failed(m) ==
  /\ pc[m] = "waiting"
  /\ pc' = [pc EXCEPT ![m] = "failed"]
  /\ UNCHANGED <<ctx, active, chat, agent, injected, seen, overlapped>>

\* !switch
switch(c, a) ==
  /\ active' = [active EXCEPT ![c] = a]
  /\ UNCHANGED <<ctx, pc, chat, agent, injected, seen, overlapped>>

\* !context clear removes the chat's entry.
clear(c) ==
  /\ ctx' = [ctx EXCEPT ![c] = EmptyContext]
  /\ UNCHANGED <<active, pc, chat, agent, injected, seen, overlapped>>

Next ==
  \/ \E m \in Message : \/ receive(m)
                        \/ augment_message(m)
                        \/ answer(m)
                        \/ approval_pending(m)
                        \/ dispatch_failed(m)
  \/ \E c \in Chat : clear(c) \/ \E a \in Agent : switch(c, a)

Spec == Init /\ [][Next]_vars

-----------------------------------------------------------------------------
(* Properties.                                                             *)

\* What an agent was given once, with a message it answered, is never put
\* in front of it again, across switches, clears and late answers.
NeverReinjected ==
  [][\A m \in Message :
       pc[m] = "spawned" /\ pc'[m] = "waiting" =>
         injected'[m] \cap seen[agent[m]] = {}]_vars

\* If the preamble may hold the whole buffer, the only exchanges a watermark
\* passes over are those recorded between the agent's preamble and its
\* answer: neither switches, clears, native commands, failures nor dropped
\* exchanges hide anything else from an agent (augment_message, push).  A
\* buffer of no places, which never drops anything, is left aside.
SkipsOnlyOverlaps ==
  Capacity > 0 /\ InjectDepth >= Capacity =>
    \A c \in Chat, a \in Agent :
      \A i \in DOMAIN ctx[c].exchanges :
        ctx[c].exchanges[i].seq <= ctx[c].watermarks[a]
          => ctx[c].exchanges[i].prompt \in seen[a] \cup overlapped[a]
=============================================================================
