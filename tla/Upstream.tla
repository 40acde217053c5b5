------------------------------ MODULE Upstream ------------------------------
(***************************************************************************)
(* One call to a model's provider (calciforge: proxy/gateway.rs,           *)
(* backend.rs, openai_streaming.rs, telemetry.rs, and streaming_response   *)
(* of handlers.rs): the retries, the request as it goes out, the answer as *)
(* JSON or put together from an event stream, what the client gets of it   *)
(* and what the telemetry sinks are told.                                  *)
(*                                                                         *)
(* Text is a sequence of fragments; a fragment is <<attempt, event>>, so   *)
(* no two are the same.  The provider is external.  One that leaves out    *)
(* the indexes of tool calls names them by their position in the event.    *)
(***************************************************************************)
EXTENDS Integers, Sequences, FiniteSets

CONSTANTS
  Settings,   \* configurations and requests considered
  Indexes,    \* indexes of the choices a provider answers with
  Calls,      \* a message has at most this many tool calls
  MaxEvents,  \* bound: events of one stream
  Statuses,   \* status codes other than success
  None

UpstreamAssumption ==
  /\ Indexes \subseteq Nat /\ IsFiniteSet(Indexes) /\ Indexes # {}
  /\ Calls \in Nat /\ MaxEvents \in Nat
  /\ Statuses \subseteq 100..599
  /\ \A s \in Settings :
       /\ s.engine \in {"helicone", "builtin-http"}
       /\ s.enabled \in BOOLEAN /\ s.max_retries \in Nat
       /\ {s.api_key, s.authorization, s.prefixed, s.kimi, s.kimi_backend,
           s.thinking, s.stream} \subseteq BOOLEAN

VARIABLES
  setting,
  pc,      \* "new", "called", "reading", "waiting", "answered", "failed", "gone"
  attempt, \* retries so far
  asked,   \* the request the provider was sent
  events,  \* how many events of the stream were read
  acc,     \* what they come to: the code goes through them, in the same order,
           \* once it has read them all
  fault,   \* what this stream leaves out
  got,     \* what the client was answered: messages
  told,    \* the telemetry event
  sinks,   \* those that have not been told yet
  sent     \* history: what the provider sent in this attempt

upstreamVars ==
  <<setting, pc, attempt, asked, events, acc, fault, got, told, sinks, sent>>

Parts == {<<"content", 0>>, <<"reasoning", 0>>, <<"finish", 0>>}
           \cup {<<"call", k>> : k \in 1..Calls}
Nothing == [c \in Indexes |-> [p \in Parts |-> <<>>]]

\* Nothing read yet.
ToolCallAccumulator == [seen |-> FALSE, named |-> FALSE, arguments |-> <<>>]
ChoiceAccumulator ==
  [seen |-> FALSE, content |-> <<>>, reasoning |-> <<>>, finish |-> None,
   tool_calls |-> [k \in 1..Calls |-> ToolCallAccumulator]]
Accumulated ==
  [error |-> FALSE, saw_chunk |-> FALSE,
   choices |-> [c \in Indexes |-> ChoiceAccumulator]]

UpstreamInit ==
  /\ setting \in Settings
  /\ pc = "new" /\ attempt = 0 /\ asked = None
  /\ events = 0 /\ acc = Accumulated /\ fault = "none" /\ sent = Nothing
  /\ got = None /\ told = None /\ sinks = {}

-----------------------------------------------------------------------------
(* The request.                                                            *)

\* Kimi models and Kimi servers are told not to think, unless the request
\* says what to do.
is_kimi_backend == setting.kimi_backend
is_kimi_model == setting.kimi
apply_kimi_compat ==
  IF setting.thinking THEN "as requested"
  ELSE IF is_kimi_backend \/ is_kimi_model THEN "disabled" ELSE "unsaid"

\* The key replaces an Authorization header of the configuration.
apply_authorization_header ==
  IF setting.api_key THEN "key" ELSE IF setting.authorization THEN "configured" ELSE "none"

delegates_retry_to_adapter == setting.engine = "helicone"

\* Helicone is asked to retry by itself.
openai_compatible_headers ==
  IF delegates_retry_to_adapter /\ setting.enabled THEN setting.max_retries ELSE 0

\* The model is asked for without its "kimi/".
send_chat_completion_request ==
  /\ pc = "new"
  /\ pc' = "called"
  /\ asked' = [prefixed |-> FALSE, thinking |-> apply_kimi_compat,
               authorization |-> apply_authorization_header,
               retries |-> openai_compatible_headers]
  /\ UNCHANGED <<setting, attempt, events, acc, fault, got, told, sinks, sent>>

-----------------------------------------------------------------------------
(* What comes of it.                                                       *)

failure_kind_for_status(s) ==
  CASE s = 401 -> "auth_failed"
    [] s = 403 -> "forbidden"
    [] s = 404 -> "model_not_found"
    [] s = 408 -> "timeout"
    [] s \in {413, 422} -> "context_exceeded"
    [] s = 429 -> "rate_limited"
    [] s \in (400..499) \ {401, 403, 404, 408, 413, 422, 429} -> "bad_request"
    [] s \in 500..599 -> "server_error"
    [] OTHER -> "unknown"

should_retry_locally(kind) ==
  /\ ~delegates_retry_to_adapter
  /\ setting.enabled /\ attempt < setting.max_retries /\ kind \in setting.retry_on

\* Every sink gets the event from a task of its own.
emit_gateway_attempt(event) == told' = event /\ sinks' = setting.sinks

failure(kind) == [outcome |-> "failure", kind |-> kind, choices |-> 0]
success_response(n) == [outcome |-> "success", kind |-> "none", choices |-> n]

\* What was read of an answer that fails is dropped.
Dropped == events' = 0 /\ acc' = Accumulated /\ fault' = "none" /\ sent' = Nothing

Fails(kind) ==
  /\ Dropped
  /\ UNCHANGED <<setting, asked, got>>
  /\ IF should_retry_locally(kind)
     THEN /\ pc' = "waiting" /\ attempt' = attempt + 1
          /\ UNCHANGED <<told, sinks>>
     ELSE /\ pc' = "failed" /\ UNCHANGED attempt
          /\ emit_gateway_attempt(failure(kind))

\* A client that wants a stream is sent the first choice's text, tool calls
\* and reason to finish, in one piece each.
streaming_response(messages) == <<[messages[1] EXCEPT !.reasoning = <<>>]>>

Succeeds(messages) ==
  /\ pc' = "answered"
  /\ got' = IF setting.stream THEN streaming_response(messages) ELSE messages
  /\ emit_gateway_attempt(success_response(Len(messages)))
  /\ UNCHANGED <<setting, asked, attempt>>

\* No connection, no answer in time, or a stream that breaks.
transport ==
  /\ pc \in {"called", "reading"}
  /\ \E kind \in {"timeout", "network"} : Fails(kind)

http_status_error ==
  /\ pc = "called"
  /\ \E s \in Statuses : Fails(failure_kind_for_status(s))

\* An answer in one piece, which may not be what it should.
json_answer ==
  /\ pc = "called"
  /\ \/ Fails("invalid_response")
     \/ LET text == <<<<attempt, 0>>>>
            first == CHOOSE c \in Indexes : \A d \in Indexes : c <= d
        IN  /\ sent' = [sent EXCEPT ![first][<<"content", 0>>] = text]
            /\ Succeeds(<<[content |-> text, reasoning |-> <<>>, tool_calls |-> <<>>,
                           finish |-> None]>>)
            /\ UNCHANGED <<events, acc, fault>>

\* The wait grows from retry to retry, up to its maximum.
retry_delay ==
  /\ pc = "waiting"
  /\ pc' = "new"
  /\ UNCHANGED <<setting, attempt, asked, events, acc, fault, got, told, sinks, sent>>

\* The handler is dropped, and nobody is told.
hang_up ==
  /\ pc \in {"new", "called", "reading", "waiting"}
  /\ pc' = "gone"
  /\ Dropped
  /\ UNCHANGED <<setting, attempt, asked, got, told, sinks>>

\* A sink is told, or fails, which is only logged.
sink_emits(s) ==
  /\ s \in sinks
  /\ sinks' = sinks \ {s}
  /\ UNCHANGED <<setting, pc, attempt, asked, events, acc, fault, got, told, sent>>

-----------------------------------------------------------------------------
(* The stream, as it is put together: what one more event adds.            *)

\* Mutant: a tool call is known by its place in the event.
call_index_Position(call, i) == i

call_index(call, i) == IF call.numbered THEN call.index ELSE i

\* No two calls of one event have the same index.
tool_call_delta(calls, event) ==
  [k \in 1..Calls |->
     LET here == {i \in DOMAIN event.calls : call_index(event.calls[i], i) = k}
     IN  IF here = {} THEN calls[k]
         ELSE [seen |-> TRUE,
               named |-> calls[k].named \/ \E i \in here : event.calls[i].named,
               arguments |-> Append(calls[k].arguments, event.text)]]

choice_delta(a, event) ==
  [seen |-> TRUE,
   finish |-> IF event.part[1] = "finish" THEN event.text ELSE a.finish,
   content |-> IF event.part[1] = "content" THEN Append(a.content, event.text) ELSE a.content,
   reasoning |-> IF event.part[1] = "reasoning" THEN Append(a.reasoning, event.text)
                 ELSE a.reasoning,
   tool_calls |-> tool_call_delta(a.tool_calls, event)]

\* The first event that is malformed is the end.
chunk(event) ==
  IF acc.error \/ event.kind = "comment" THEN acc
  ELSE [error |-> event.kind = "malformed",
        saw_chunk |-> TRUE,
        choices |-> IF event.kind # "choice" THEN acc.choices
                    ELSE [acc.choices EXCEPT ![event.choice] = choice_delta(@, event)]]

Reads(event) == events' = events + 1 /\ acc' = chunk(event)

-----------------------------------------------------------------------------
(* The stream, as the provider sends it.                                   *)

event_stream ==
  /\ pc = "called"
  /\ pc' = "reading"
  /\ fault' \in {"none", "no id", "unnamed call"}
  /\ UNCHANGED <<setting, attempt, asked, events, acc, got, told, sinks, sent>>

Fragment == <<attempt, events + 1>>
Says(c, p) == [sent EXCEPT ![c][p] = Append(@, Fragment)]

\* A fragment of text, or the reason to finish.
Text(c, p) ==
  /\ p[1] # "call"
  /\ sent' = Says(c, p)
  /\ Reads([kind |-> "choice", choice |-> c, part |-> p, calls |-> <<>>, text |-> Fragment])

\* Fragments of some tool calls, in any order if they are numbered.  The
\* first of a call has its id and name.
ToolCalls(c, ks, numbered) ==
  /\ numbered \/ \A i \in DOMAIN ks : ks[i] = i
  /\ sent' = [sent EXCEPT ![c] =
       [p \in Parts |-> IF \E i \in DOMAIN ks : p = <<"call", ks[i]>>
                        THEN Append(sent[c][p], Fragment) ELSE sent[c][p]]]
  /\ Reads([kind |-> "choice", choice |-> c, part |-> <<"call", 0>>,
            calls |-> [i \in DOMAIN ks |->
              [numbered |-> numbered, index |-> ks[i],
               named |-> fault # "unnamed call" /\ sent[c][<<"call", ks[i]>>] = <<>>]],
            text |-> Fragment])

\* Usage without choices; a comment, or [DONE]; or something that should not
\* be there: no JSON, no choices, a choice without its index.
Other(kind) ==
  /\ Reads([kind |-> kind])
  /\ UNCHANGED sent

emits ==
  /\ pc = "reading" /\ events < MaxEvents
  /\ \/ \E c \in Indexes, p \in Parts : Text(c, p)
     \/ \E c \in Indexes, n \in 1..Calls, numbered \in BOOLEAN :
          \E ks \in {s \in [1..n -> 1..Calls] : \A i, j \in 1..n : s[i] = s[j] => i = j} :
            ToolCalls(c, ks, numbered)
     \/ \E kind \in {"usage", "comment", "malformed"} : Other(kind)
  /\ UNCHANGED <<setting, pc, attempt, asked, fault, got, told, sinks>>

-----------------------------------------------------------------------------
(* The answer that comes of it.                                            *)

\* The numbers of S, sorted.
InOrder(S) ==
  CHOOSE s \in [1..Cardinality(S) -> S] : \A i, j \in DOMAIN s : i < j => s[i] < s[j]

message(a) ==
  LET seen == InOrder({k \in 1..Calls : a.tool_calls[k].seen})
  IN  [content |-> a.content, reasoning |-> a.reasoning, finish |-> a.finish,
       tool_calls |-> [i \in DOMAIN seen |-> a.tool_calls[seen[i]].arguments]]

\* A stream that ends counts as whole, whatever it ended with.
parse_streaming_chat_completion ==
  /\ pc = "reading"
  /\ LET seen == InOrder({c \in Indexes : acc.choices[c].seen})
         unnamed == \E c \in Indexes : \E k \in 1..Calls :
                      LET call == acc.choices[c].tool_calls[k] IN call.seen /\ ~call.named
     IN  IF acc.error \/ ~acc.saw_chunk \/ fault = "no id" \/ unnamed \/ seen = <<>>
         THEN Fails("invalid_response")
         ELSE /\ Succeeds([i \in DOMAIN seen |-> message(acc.choices[seen[i]])])
              /\ UNCHANGED <<events, acc, fault, sent>>

UpstreamNext ==
  \/ send_chat_completion_request
  \/ transport \/ http_status_error \/ json_answer \/ event_stream
  \/ emits \/ parse_streaming_chat_completion
  \/ retry_delay \/ hang_up
  \/ \E s \in sinks : sink_emits(s)

UpstreamSpec == UpstreamInit /\ [][UpstreamNext]_upstreamVars

-----------------------------------------------------------------------------
(* Properties                                                              *)

\* The message a provider sent for choice c, from its fragments.
Sent(c) ==
  LET calls == InOrder({k \in 1..Calls : sent[c][<<"call", k>>] # <<>>})
      finish == sent[c][<<"finish", 0>>]
  IN  [content |-> sent[c][<<"content", 0>>],
       reasoning |-> IF setting.stream THEN <<>> ELSE sent[c][<<"reasoning", 0>>],
       finish |-> IF finish = <<>> THEN None ELSE finish[Len(finish)],
       tool_calls |-> [i \in DOMAIN calls |-> sent[c][<<"call", calls[i]>>]]]

\* What a client is answered is what the provider sent in the attempt that
\* succeeded: every choice (for a client that streams the first one), text and
\* tool calls apart, each with all its fragments in order and no fragment of
\* another choice, another call or an earlier attempt, however the deltas were
\* interleaved (parse_streaming_chat_completion, LoggingGateway's retries).
\* Telemetry counts the same choices.
StreamIsReassembled ==
  pc = "answered" =>
    LET spoken == InOrder({c \in Indexes : \E p \in Parts : sent[c][p] # <<>>})
    IN  /\ got = [i \in 1..(IF setting.stream THEN 1 ELSE Len(spoken)) |-> Sent(spoken[i])]
        /\ told.choices = Len(spoken)
=============================================================================
