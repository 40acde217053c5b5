--------------------------- MODULE OpenClawChannel ---------------------------
(***************************************************************************)
(* A message to an OpenClaw agent and its answer: the adapter              *)
(* (adapters/openclaw_channel.rs) posts the message to the channel plugin  *)
(* (calciforge-openclaw-channel-plugin/index.js), the plugin runs the      *)
(* agent and posts the answer back to the adapter's reply server, which    *)
(* finds the dispatch that waits for it.  Connections fail, responses and  *)
(* callbacks are lost, runs report an error and still answer later, and    *)
(* dispatches time out at any moment.                                      *)
(* The agent's session is the sequence of its assistant messages, each     *)
(* with the request whose run wrote it.                                    *)
(***************************************************************************)
EXTENDS Naturals, Sequences, FiniteSets

CONSTANTS
  Reqs, Sessions,
  SessionOf,      \* the session key of each request
  Inputs,         \* the combinations of message kinds considered, see Kinds
  HasTimes,       \* whether session messages carry timestamps
  MaxRetries,     \* INBOUND_CONNECT_RETRY_DELAYS_MS.len()
  MaxLog,         \* bound: messages in a session
  None

(* A message is served by the subagent or by the channel runtime, or is     *)
(* refused by the plugin for its key, agent or channel, or was sent by an   *)
(* adapter whose reply token is not the plugin's.                           *)
Kinds == {"subagent", "native", "unroutable", "stranger"}

ASSUME ChannelAssumption ==
  /\ SessionOf \in [Reqs -> Sessions]
  /\ Inputs \subseteq [Reqs -> Kinds]
  /\ Reqs \cap Sessions = {}
  /\ None \notin Reqs \cup Sessions
  /\ HasTimes \in BOOLEAN
  /\ MaxRetries \in Nat /\ MaxLog \in Nat

VARIABLES
  input,   \* the kind of each message
  server,  \* the reply server of the port: "off", "starting", "up", "failed"
  pc,      \* each dispatch of the adapter
  tries,   \* connection attempts that failed
  pending, \* ReplyRouter: request ids and session keys -> request
  mail,    \* the oneshot channel of each dispatch
  run,     \* each request in the plugin
  base,    \* the last message of the session before the run, None if unread
  mark,    \* length of the session when the run started
  alive,   \* requests whose run may still write to the session
  log,     \* log[s]: sequence of [of, silent]
  calls,   \* callbacks under way: [req, kind, index]
  runs     \* history: how often the plugin started a run for a request

vars == <<input, server, pc, tries, pending, mail, run, base, mark, alive, log, calls,
          runs>>

adapter == <<input, server, pc, tries, pending, mail>>
plugin == <<run, base, mark, alive, log, runs>>

Native == {r \in Reqs : input[r] = "native"}
Routable == {r \in Reqs : input[r] # "unroutable"}

Over == {"answered", "failed", "timeout"}

Init ==
  /\ input \in Inputs
  /\ server = "off"
  /\ pc = [r \in Reqs |-> "idle"]
  /\ tries = [r \in Reqs |-> 0]
  /\ pending = [k \in Reqs \cup Sessions |-> None]
  /\ mail = [r \in Reqs |-> None]
  /\ run = [r \in Reqs |-> "none"]
  /\ base = [r \in Reqs |-> None]
  /\ mark = [r \in Reqs |-> 0]
  /\ alive = {}
  /\ log = [s \in Sessions |-> << >>]
  /\ calls = {}
  /\ runs = [r \in Reqs |-> 0]

-----------------------------------------------------------------------------
(* The adapter                                                             *)

(* ReplyRouter::remove and the clean-up of take_authorized.                *)
Without(r) ==
  [k \in DOMAIN pending |-> IF pending[k] = r THEN None ELSE pending[k]]

(* insert_with_auth: a session key names a request only while that is the  *)
(* only one of the session that waits.                                     *)
insert_with_auth(r) ==
  LET s == SessionOf[r]
      others == \E k \in DOMAIN pending :
                  /\ pending[k] \notin {None, r}
                  /\ SessionOf[pending[k]] = s
  IN  [pending EXCEPT ![r] = r, ![s] = IF others THEN None ELSE r]

(* The first dispatch starts the server; others wait for it; a server that *)
(* failed to start refuses everything.                                     *)
ensure_reply_server_started(r) ==
  /\ pc[r] = "idle"
  /\ pc' = [pc EXCEPT ![r] = "starting"]
  /\ server' = IF server = "off" THEN "starting" ELSE server
  /\ UNCHANGED <<input, tries, pending, mail, plugin, calls>>

ReplyServer_run ==
  /\ server = "starting"
  /\ server' \in {"up", "failed"}
  /\ UNCHANGED <<input, pc, tries, pending, mail, plugin, calls>>

(* Mutant: only a server that came up wakes those who wait for it.         *)
WaitsForServer(r) ==
  /\ pc[r] = "starting"
  /\ server = "up"
  /\ pending' = insert_with_auth(r)
  /\ pc' = [pc EXCEPT ![r] = "send"]
  /\ UNCHANGED <<input, server, tries, mail, plugin, calls>>

dispatch_message_with_context(r) ==
  /\ pc[r] = "starting"
  /\ \/ /\ server = "up"
        /\ pending' = insert_with_auth(r)
        /\ pc' = [pc EXCEPT ![r] = "send"]
     \/ /\ server = "failed"
        /\ pc' = [pc EXCEPT ![r] = "failed"]
        /\ UNCHANGED pending
  /\ UNCHANGED <<input, server, tries, mail, plugin, calls>>

Fail(r, how) ==
  /\ pc' = [pc EXCEPT ![r] = how]
  /\ pending' = Without(r)

(* A connection that fails was not made: the message is sent again.        *)
connect_fails(r) ==
  /\ pc[r] = "send"
  /\ IF tries[r] < MaxRetries
     THEN tries' = [tries EXCEPT ![r] = @ + 1] /\ UNCHANGED <<pc, pending>>
     ELSE Fail(r, "failed") /\ UNCHANGED tries
  /\ UNCHANGED <<input, server, mail, plugin, calls>>

(* Mutant: a request whose answer was lost is sent again.                  *)
ResendsAfterTimeout(r) ==
  IF tries[r] < MaxRetries
  THEN tries' = [tries EXCEPT ![r] = @ + 1] /\ UNCHANGED <<pc, pending>>
  ELSE Fail(r, "timeout") /\ UNCHANGED tries

(* The request got through and its response did not come back in time.     *)
LostResponse(r) == Fail(r, "timeout") /\ UNCHANGED tries

(* handleInboundRequest: a request that may not be routed is refused;      *)
(* otherwise it is acknowledged before the agent runs.                     *)
send_inbound_with_retries(r) ==
  /\ pc[r] = "send"
  /\ IF r \in Routable
     THEN /\ run' = [run EXCEPT ![r] = "accepted"]
          /\ runs' = [runs EXCEPT ![r] = @ + 1]
          /\ \/ /\ pc' = [pc EXCEPT ![r] = "wait"]
                /\ tries' = [tries EXCEPT ![r] = 0]
                /\ UNCHANGED pending
             \/ LostResponse(r)
     ELSE Fail(r, "failed") /\ UNCHANGED <<run, runs, tries>>
  /\ UNCHANGED <<input, server, mail, base, mark, alive, log, calls>>

receive(r) ==
  /\ pc[r] = "wait"
  /\ mail[r] # None
  /\ pc' = [pc EXCEPT ![r] = IF mail[r].kind = "error" THEN "failed" ELSE "answered"]
  /\ mail' = [mail EXCEPT ![r] = None]
  /\ UNCHANGED <<input, server, tries, pending, plugin, calls>>

timeout(r) ==
  /\ pc[r] = "wait"
  /\ mail[r] = None
  /\ Fail(r, "timeout")
  /\ UNCHANGED <<input, server, tries, mail, plugin, calls>>

(* The callback's token must be the one of the adapter that sent the        *)
(* request; a callback nobody waits for is acknowledged and dropped.        *)
take_authorized(c) ==
  /\ pending[c.req] # None
  /\ input[pending[c.req]] # "stranger"

handle_reply(c) ==
  /\ c \in calls
  /\ server = "up"
  /\ calls' = calls \ {c}
  /\ IF take_authorized(c)
     THEN LET r == pending[c.req] IN
          /\ pending' = Without(r)
          /\ mail' = IF pc[r] \in Over THEN mail ELSE [mail EXCEPT ![r] = c]
     ELSE UNCHANGED <<pending, mail>>
  /\ UNCHANGED <<input, server, pc, tries, plugin>>

-----------------------------------------------------------------------------
(* The plugin                                                              *)

Session(r) == log[SessionOf[r]]

(* deliverReply: what was posted arrives once or, if the webhook cannot be  *)
(* reached, never.                                                          *)
deliverReply(r, kind, index) ==
  /\ run' = [run EXCEPT ![r] = "done"]
  /\ \/ calls' = calls \cup {[req |-> r, kind |-> kind, index |-> index]}
     \/ UNCHANGED calls

(* safeReadLatestAssistantReply before the run, which may fail or time out. *)
ReadBaseline(r) ==
  /\ run[r] = "accepted"
  /\ run' = [run EXCEPT ![r] = "ready"]
  /\ base' \in {[base EXCEPT ![r] = Len(Session(r))], base}
  /\ UNCHANGED <<adapter, mark, alive, log, calls, runs>>

StartRun(r) ==
  /\ run[r] = "ready"
  /\ run' = [run EXCEPT ![r] = "running"]
  /\ mark' = [mark EXCEPT ![r] = Len(Session(r))]
  /\ alive' = alive \cup {r}
  /\ UNCHANGED <<adapter, base, log, calls, runs>>

(* No runtime, or the run could not be started: the error is the answer.    *)
dispatch_error(r) ==
  /\ run[r] \in {"accepted", "ready"}
  /\ deliverReply(r, "note", 0)
  /\ UNCHANGED <<adapter, base, mark, alive, log, runs>>

(* The agent (external) writes to its session.                              *)
agent_writes(r) ==
  /\ r \in alive
  /\ Len(Session(r)) < MaxLog
  /\ \E silent \in BOOLEAN :
       log' = [log EXCEPT ![SessionOf[r]] = Append(@, [of |-> r, silent |-> silent])]
  /\ UNCHANGED <<adapter, run, base, mark, alive, calls, runs>>

(* A run that is ok has written its message; one that failed or took too    *)
(* long may still do so.                                                    *)
Wrote(r) == \E i \in DOMAIN Session(r) : i > mark[r] /\ Session(r)[i].of = r

waitForRun(r) ==
  /\ run[r] = "running"
  /\ \/ Wrote(r) /\ run' = [run EXCEPT ![r] = "ok"] /\ alive' = alive \ {r}
     \/ r \notin Native /\ run' = [run EXCEPT ![r] = "recover"] /\ UNCHANGED alive
     \/ r \in Native /\ run' = [run EXCEPT ![r] = "ok"] /\ UNCHANGED alive
  /\ UNCHANGED <<adapter, base, mark, log, calls, runs>>

Last(r) == Len(Session(r))

Visible(r, i) == i > 0 /\ ~Session(r)[i].silent

isNewReply(r) == Last(r) > 0 /\ (base[r] = None \/ Last(r) # base[r])

(* Mutant: a new message counts whenever it was written.                    *)
NewIsEnough(r) == isNewReply(r) /\ HasTimes

(* replyMatchesRunWindow: the message must carry a timestamp that is not    *)
(* older than the run.                                                      *)
isRecoverableReply(r) == isNewReply(r) /\ HasTimes /\ Last(r) > mark[r]

(* The end of an ok subagent run: the last message of the session.          *)
dispatchViaSubagentRuntime(r) ==
  /\ run[r] = "ok"
  /\ r \notin Native
  /\ IF Visible(r, Last(r)) THEN deliverReply(r, "reply", Last(r))
     ELSE deliverReply(r, "error", 0)
  /\ UNCHANGED <<adapter, base, mark, alive, log, runs>>

(* After a failed run the session is polled for a while; then the failure   *)
(* itself is the answer.                                                    *)
recoverReplyAfterRunError(r) ==
  /\ run[r] = "recover"
  /\ \/ /\ isRecoverableReply(r) /\ Visible(r, Last(r))
        /\ deliverReply(r, "reply", Last(r))
     \/ deliverReply(r, "note", 0)
  /\ UNCHANGED <<adapter, base, mark, alive, log, runs>>

(* The channel runtime hands over what the agent sent; if that is nothing   *)
(* to see, the session is read once, unless the read fails.                 *)
dispatchViaChannelRuntime(r) ==
  /\ run[r] = "ok"
  /\ r \in Native
  /\ \/ \E i \in DOMAIN Session(r) :
          /\ i > mark[r] /\ Session(r)[i].of = r /\ Visible(r, i)
          /\ deliverReply(r, "reply", i)
     \/ /\ isRecoverableReply(r) \/ isNewReply(r)
        /\ deliverReply(r, "reply", Last(r))
     \/ deliverReply(r, "error", 0)
  /\ UNCHANGED <<adapter, base, mark, alive, log, runs>>

Next ==
  \/ ReplyServer_run
  \/ \E c \in calls : handle_reply(c)
  \/ \E r \in Reqs :
       \/ ensure_reply_server_started(r) \/ dispatch_message_with_context(r)
       \/ connect_fails(r) \/ send_inbound_with_retries(r) \/ receive(r)
       \/ timeout(r) \/ ReadBaseline(r) \/ StartRun(r) \/ dispatch_error(r)
       \/ agent_writes(r) \/ waitForRun(r)
       \/ dispatchViaSubagentRuntime(r) \/ recoverReplyAfterRunError(r)
       \/ dispatchViaChannelRuntime(r)

Spec == Init /\ [][Next]_vars

(* The runtime starts the server task, client timeouts end a request that   *)
(* gets no response, and tokio's timer ends a wait.                         *)
Fairness ==
  /\ WF_vars(ReplyServer_run)
  /\ \A r \in Reqs :
       /\ WF_vars(dispatch_message_with_context(r))
       /\ WF_vars(connect_fails(r) \/ send_inbound_with_retries(r))
       /\ WF_vars(receive(r) \/ timeout(r))

-----------------------------------------------------------------------------
(* The agent never runs twice on one message, and a dispatch is answered    *)
(* with the callback of its own request: a session key in the router names  *)
(* a request that waits under its own id and is the only one of its         *)
(* session, so a callback that names the session alone cannot reach the     *)
(* wrong dispatch, and no key outlives its request                          *)
(* (send_inbound_with_retries, handle_reply, insert_with_auth, remove).     *)
RunsOnce ==
  /\ \A r \in Reqs : runs[r] <= 1 /\ (mail[r] # None => mail[r].req = r)
  /\ \A k \in DOMAIN pending : pending[k] # None =>
       LET r == pending[k] IN
       /\ pending[r] = r
       /\ pc[r] \notin Over
       /\ k \in Sessions =>
            \A q \in Reqs \ {r} : SessionOf[q] = k => pending[q] = None

(* Replies for r, received or under way.                                   *)
RepliesTo(r) ==
  {c \in calls \cup {mail[r]} : c # None /\ c.req = r /\ c.kind = "reply"}

(* The answer to a message was written after its run began, also when it    *)
(* was recovered from the session after an error and other requests of the  *)
(* session were running; the channel runtime promises less: the answer is   *)
(* newer than the baseline, where there is one (isRecoverableReply,         *)
(* isNewReply).                                                             *)
FreshAnswer ==
  \A r \in Reqs : \A c \in RepliesTo(r) :
    IF r \in Native THEN base[r] # None => c.index > base[r]
    ELSE c.index > mark[r]

(* Whatever is lost, every dispatch comes to an end.                        *)
DispatchesEnd == \A r \in Reqs : pc[r] = "starting" ~> pc[r] \in Over
=============================================================================
