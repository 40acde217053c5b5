------------------------------ MODULE MCGateway ------------------------------
(* Models for TLC: requests for an alloy (ModelGateway), one call to a       *)
(* provider (Upstream), and switches of the local model (LocalModel).  They  *)
(* share no state; a behaviour moves one of them.                            *)
EXTENDS ModelGateway, LocalModel, GatewayCalls

CONSTANTS m1, m2

VARIABLE part

MCTwo == <<m1, m2>>

\* The load at start-up and two switches, to either model or to one nobody
\* knows; or none of them.
MCSwitches == {"startup", "s1", "s2"}
MCNothing == [s \in MCSwitches |-> None]
MCWanted ==
  {w \in [MCSwitches -> {m1, m2, "unknown"}] : w["startup"] = m1} \cup {MCNothing}

MCModels == {m1, m2}

\* A plain request; one to Helicone; one for a Kimi model that is retried once,
\* with telemetry; and clients that want a stream.
MCPlain ==
  [engine |-> "builtin-http", enabled |-> FALSE, max_retries |-> 1,
   retry_on |-> {"timeout", "network", "rate_limited", "server_error", "invalid_response"},
   sinks |-> {}, api_key |-> TRUE, authorization |-> TRUE, prefixed |-> FALSE,
   kimi |-> FALSE, kimi_backend |-> FALSE, thinking |-> FALSE, stream |-> FALSE]
MCSettings ==
  {[MCPlain EXCEPT !.stream = TRUE, !.thinking = TRUE],
   [MCPlain EXCEPT !.engine = "helicone", !.enabled = TRUE, !.api_key = FALSE],
   [MCPlain EXCEPT !.enabled = TRUE, !.prefixed = TRUE, !.kimi = TRUE,
                   !.sinks = {"log", "http-json"}]}

MCStatuses == {302, 400, 401, 403, 404, 408, 413, 429, 503}

\* The part that does not move starts in one state only.
MCInit ==
  /\ part \in {"gateway", "local", "call"}
  /\ Init /\ LocalModelInit /\ Call!UpstreamInit
  /\ (part = "local") = (target # MCNothing)
  /\ part = "local" \/ proc[External] = "none"
  /\ part = "call" \/ setting.stream

MCNext ==
  /\ \/ part = "gateway" /\ Next /\ UNCHANGED <<localVars, callVars>>
     \/ part = "local" /\ LocalModelNext /\ UNCHANGED <<vars, callVars>>
     \/ part = "call" /\ Call!UpstreamNext /\ UNCHANGED <<vars, localVars>>
  /\ UNCHANGED part

MCSpec == MCInit /\ [][MCNext]_<<vars, localVars, callVars, part>> /\ Fairness
=============================================================================
