------------------------------- MODULE Clashd -------------------------------
(***************************************************************************)
(* The policy sidecar and the OpenClaw plugin that asks it before a tool   *)
(* call (crates clashd and calciforge-policy-plugin).  The policy is the   *)
(* shipped config/default-policy.star, or one that fails.                  *)
(*                                                                         *)
(* A call comes through the plugin, through the hook of Claude Code, or is *)
(* reported by zeroclaw after the fact.                                    *)
(***************************************************************************)
EXTENDS Naturals, FiniteSets

CONSTANTS
  Calls,
  Inputs,     \* the combinations of calls considered, see IsCall
  Configs,    \* agent -> [allowed, denied, sources], the agents file
  Feeds,      \* source -> domains it lists
  Policies,   \* "default", "raises", "no verdict", "not json", "does not parse"
  Fallbacks,  \* what fallbackOnError is set to: "allow", "deny", "other", "unset"
  Nothing

\* site: how the arguments name a domain.  "host:port" is taken for a URL
\* with a scheme and no host.
IsCall(c) ==
  \/ c = Nothing
  \/ /\ c.via \in {"plugin", "claude-code", "zeroclaw"}
     /\ c.tool \in {"gateway change", "destructive", "cron change", "other"}
     /\ c.site \in {"none", "url", "host", "host:port"}

ASSUME ClashdAssumption ==
  /\ \A i \in Inputs : \A c \in Calls : IsCall(i[c])
  /\ \A s \in UNION {Configs[a].sources : a \in DOMAIN Configs} : s \in DOMAIN Feeds
  /\ Nothing \notin {"allow", "deny", "review", "runs", "blocked", "asks"}

VARIABLES
  call,      \* the calls
  policy_file, \* the policy file
  fallback,
  server,    \* "off", "on", "ended"
  agents,    \* PolicyEngine: agent_configs
  lists,     \* DomainListManager: source -> domains fetched
  stage,     \* where each call is
  answer,    \* clashd's answer to each call
  outcome    \* "runs", "blocked", "asks"

cvars == <<call, policy_file, fallback, server, agents, lists, stage, answer,
           outcome>>

ClashdInit ==
  /\ call \in Inputs
  /\ policy_file \in Policies
  /\ fallback \in Fallbacks
  /\ server = "off"
  /\ agents = [a \in {} |-> Nothing]
  /\ lists = [s \in {} |-> {}]
  /\ stage = [c \in Calls |-> "idle"]
  /\ answer = [c \in Calls |-> Nothing]
  /\ outcome = [c \in Calls |-> Nothing]

-----------------------------------------------------------------------------
(* clashd                                                                  *)

\* The agents replace those of the same name; no source is added to the
\* lists.
set_agent_configs(configs) ==
  /\ agents' = [a \in DOMAIN agents \cup DOMAIN configs |->
                  IF a \in DOMAIN configs THEN configs[a] ELSE agents[a]]
  /\ UNCHANGED lists

\* A policy that does not parse, or a file of agents that does not, ends the
\* process; without the file there are no agents.
main ==
  /\ server = "off"
  /\ \/ /\ server' = "ended"
        /\ UNCHANGED <<agents, lists>>
     \/ /\ policy_file # "does not parse"
        /\ server' = "on"
        /\ set_agent_configs(Configs) \/ UNCHANGED <<agents, lists>>
  /\ UNCHANGED <<call, policy_file, fallback, stage, answer, outcome>>

\* Every list that is due is fetched, or keeps what it has.
refresh_all ==
  /\ server = "on"
  /\ lists' \in [DOMAIN lists -> {{}} \cup {Feeds[s] : s \in DOMAIN Feeds}]
  /\ \A s \in DOMAIN lists : lists'[s] \in {lists[s], Feeds[s]}
  /\ UNCHANGED <<call, policy_file, fallback, server, agents, stage, answer, outcome>>

extract_domain(c) == IF c.site \in {"url", "host"} THEN c.domain ELSE Nothing

\* The lists a domain is on.
matches(domain) == {s \in DOMAIN lists : domain \in lists[s]}

\* What the policy gets to see of the agent's own lists.
AllowedFor(a) == IF a \in DOMAIN agents THEN agents[a].allowed ELSE {}
DeniedFor(a) == IF a \in DOMAIN agents THEN agents[a].denied ELSE {}

\* config/default-policy.star: the rules on domains come first, and answer
\* before those on tools are looked at.
default_policy(c) ==
  LET domain == extract_domain(c)
      allowed == AllowedFor(c.agent)
  IN  IF domain # Nothing /\ (matches(domain) # {} \/ domain \in DeniedFor(c.agent))
      THEN "deny"
      ELSE IF domain # Nothing /\ allowed # {} /\ domain \notin allowed THEN "review"
      ELSE IF c.tool \in {"gateway change", "cron change"} THEN "review"
      ELSE IF c.tool = "destructive" THEN "deny"
      ELSE "allow"

\* Mutant: a policy that fails allows.
evaluate_Open(c) == IF policy_file = "default" THEN default_policy(c) ELSE "allow"

\* A policy that raises, or returns what is no verdict, denies.
evaluate(c) == IF policy_file = "default" THEN default_policy(c) ELSE "deny"

answer_request(c) ==
  /\ server = "on" /\ stage[c] \in {"asked", "left"} /\ answer[c] = Nothing
  /\ answer' = [answer EXCEPT ![c] = evaluate(call[c])]
  /\ UNCHANGED <<call, policy_file, fallback, server, agents, lists, stage, outcome>>

-----------------------------------------------------------------------------
(* The plugin and the hooks                                                *)

Settle(c, what) ==
  /\ outcome' = [outcome EXCEPT ![c] = what]
  /\ stage' = [stage EXCEPT ![c] = IF what = "asks" THEN "approval" ELSE "over"]

\* zeroclaw reports a call it makes whatever the answer.
before_tool_call(c) ==
  /\ stage[c] = "idle" /\ call[c] # Nothing
  /\ IF call[c].via = "zeroclaw"
     THEN /\ stage' = [stage EXCEPT ![c] = "left"]
          /\ outcome' = [outcome EXCEPT ![c] = "runs"]
     ELSE /\ stage' = [stage EXCEPT ![c] = "asked"]
          /\ UNCHANGED outcome
  /\ UNCHANGED <<call, policy_file, fallback, server, agents, lists, answer>>

\* Anything that is not one of the two words is "deny".
normalizeFallbackOnError == IF fallback = "allow" THEN "allow" ELSE "deny"

Decided(c, verdict) ==
  Settle(c, CASE verdict = "deny" -> "blocked"
              [] verdict = "review" -> "asks"
              [] verdict = "allow" -> "runs")

\* The plugin takes the answer.
parseClashdResponse(c) ==
  /\ stage[c] = "asked" /\ call[c].via = "plugin" /\ answer[c] # Nothing
  /\ Decided(c, answer[c])
  /\ UNCHANGED <<call, policy_file, fallback, server, agents, lists, answer>>

\* No answer, or none in time, or one that makes no sense.
fall_back(c) ==
  /\ stage[c] = "asked" /\ call[c].via = "plugin"
  /\ Settle(c, IF normalizeFallbackOnError = "allow" THEN "runs" ELSE "blocked")
  /\ UNCHANGED <<call, policy_file, fallback, server, agents, lists, answer>>

\* Claude Code is told allow, deny or ask.
claude_code_hook(c) ==
  /\ stage[c] = "asked" /\ call[c].via = "claude-code" /\ answer[c] # Nothing
  /\ Decided(c, answer[c])
  /\ UNCHANGED <<call, policy_file, fallback, server, agents, lists, answer>>

\* The operator; silence is a denial.
approve(c) ==
  /\ stage[c] = "approval"
  /\ \E what \in {"runs", "blocked"} : Settle(c, what)
  /\ UNCHANGED <<call, policy_file, fallback, server, agents, lists, answer>>

ClashdNext ==
  \/ main \/ refresh_all
  \/ \E c \in Calls :
       \/ before_tool_call(c) \/ answer_request(c) \/ parseClashdResponse(c)
       \/ fall_back(c) \/ claude_code_hook(c) \/ approve(c)

ClashdSpec == ClashdInit /\ [][ClashdNext]_cvars

-----------------------------------------------------------------------------
(* Properties                                                              *)

Asked(c) == call[c] # Nothing /\ call[c].via # "zeroclaw"

\* A call runs only after an answer that lets it, unless the operator chose
\* to go on without answers: with a policy that fails, or one that does not
\* load, nothing runs; a site an agent is denied is not visited by it; and a
\* destructive command runs with approval at most, and only if the site it
\* names was sent to review first (before_tool_call, PolicyEngine::evaluate).
\* Answers that come after the plugin's time change nothing.
PolicyHolds ==
  \A c \in Calls :
    Asked(c) /\ outcome[c] = "runs" /\ ~ (call[c].via = "plugin" /\ fallback = "allow") =>
      LET domain == extract_domain(call[c])
          agent_id == call[c].agent
      IN  /\ policy_file = "default"
          /\ domain # Nothing => domain \notin DeniedFor(agent_id)
          /\ answer[c] \in {"allow", "review"}
          /\ call[c].tool = "destructive" =>
               /\ answer[c] = "review"
               /\ domain # Nothing /\ domain \notin AllowedFor(agent_id)
=============================================================================
