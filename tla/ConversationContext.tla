------------------------ MODULE ConversationContext ------------------------
(***************************************************************************)
(* The cross-agent conversation buffer of one chat (calciforge,            *)
(* context.rs): recent exchanges oldest first, the next sequence number    *)
(* and, per agent, the sequence number up to which it is taken to have     *)
(* seen the conversation.  An exchange is the user message it answers and  *)
(* the agent that answered; the texts are left out.                        *)
(***************************************************************************)
EXTENDS Integers, Sequences, FiniteSets

CONSTANTS
  Agent,        \* the configured agents
  Message,      \* the user messages
  Capacity,     \* context.buffer_size
  InjectDepth   \* context.inject_depth

ASSUME ContextAssumption == Capacity \in Nat /\ InjectDepth \in Nat

NoWatermark == -1

\* ConversationContext::new, and what a chat without an entry behaves like.
EmptyContext == [exchanges |-> <<>>,
                 next_seq |-> 0,
                 watermarks |-> [a \in Agent |-> NoWatermark]]

\* Mutant: the answering agent's watermark is not moved.
push_NoWatermark(ctx, prompt, agent_id) ==
  LET kept == IF Len(ctx.exchanges) = Capacity THEN Tail(ctx.exchanges)
                                               ELSE ctx.exchanges
  IN  [exchanges |-> Append(kept, [seq |-> ctx.next_seq, prompt |-> prompt,
                                   agent_id |-> agent_id]),
       next_seq |-> ctx.next_seq + 1,
       watermarks |-> ctx.watermarks]

\* push: an exchange is dropped only when the buffer is exactly full.
push(ctx, prompt, agent_id) ==
  LET kept == IF Len(ctx.exchanges) = Capacity /\ ctx.exchanges # <<>>
              THEN Tail(ctx.exchanges) ELSE ctx.exchanges
  IN  [exchanges |-> Append(kept, [seq |-> ctx.next_seq, prompt |-> prompt,
                                   agent_id |-> agent_id]),
       next_seq |-> ctx.next_seq + 1,
       watermarks |-> [ctx.watermarks EXCEPT ![agent_id] = ctx.next_seq]]

\* Mutant: the first exchange after the watermark is taken as seen.
Unseen_OffByOne(ctx, agent_id) ==
  {i \in DOMAIN ctx.exchanges :
     ctx.exchanges[i].seq > ctx.watermarks[agent_id] + 1}

\* The places of the exchanges agent_id has not seen by its watermark.
Unseen(ctx, agent_id) ==
  {i \in DOMAIN ctx.exchanges :
     ctx.exchanges[i].seq > ctx.watermarks[agent_id]}

\* build_preamble: the last inject_depth of them.
build_preamble(ctx, agent_id) ==
  {ctx.exchanges[i] : i \in
     {j \in Unseen(ctx, agent_id) :
        Cardinality({k \in Unseen(ctx, agent_id) : k > j}) < InjectDepth}}
=============================================================================
