------------------------------- MODULE MCWeb -------------------------------
(* What agents get from and send to the web, for TLC: requests through the   *)
(* security proxy (SecurityProxy) and fetches through the adversary detector *)
(* (AdversaryDetector), over the same scanner pipeline, and the tool calls   *)
(* they ask clashd about (Clashd).  They share no other state; a behaviour   *)
(* moves one of them.                                                        *)
EXTENDS SecurityProxy, AdversaryDetector, Clashd, TLC

CONSTANTS r1, search, model, s1, s2, agent

VARIABLE part

\* A tool call of either agent, and one that zeroclaw makes beside it.
Call(via, tool, site, agt, domain) ==
  [via |-> via, tool |-> tool, site |-> site, agent |-> agt, domain |-> domain]

Reported == Call("zeroclaw", "other", "url", "zeroclaw", "bad")
NoCalls == [c \in Calls |-> Nothing]

MCInputs ==
  {NoCalls} \cup
  {"c1" :> Call(v, t, s, v, d) @@ "c2" :> Reported :
     v \in {"plugin", "claude-code"},
     t \in {"gateway change", "destructive", "cron change", "other"},
     s \in {"none", "url", "host", "host:port"}, d \in {"bad", "fed", "good", "new"}}

\* The agents file knows the agent of the plugin.
MCConfigs ==
  [a \in {"plugin"} |-> [allowed |-> {"good", "fed"}, denied |-> {"bad"},
                         sources |-> {"feed"}]]

MCFeeds == [s \in {"feed"} |-> {"fed"}]

\* A request of one of these shapes, a search host and a model host, two
\* secrets of which one is pinned by the administrator.
MCHosts == {search, model}

Plain ==
  [path |-> "mitm", agent |-> agent, host |-> model, url |-> {}, header |-> {},
   body |-> {}, kind |-> "none", credentials |-> {}, token |-> "none",
   browse |-> "none", denied |-> FALSE]

Cred(w, v) == [where |-> w, value |-> v]

MCShapes ==
  {[Plain EXCEPT !.url = {s1}, !.header = {s1},
                 !.credentials = {Cred("query", "reference"), Cred("header", "scheme")}],
   [Plain EXCEPT !.body = {s1}, !.kind = "json", !.browse = "tool"],
   [Plain EXCEPT !.path = "intercept", !.host = search, !.header = {s1}],
   [Plain EXCEPT !.path = "intercept", !.body = {s1, s2}, !.kind = "text"],
   [Plain EXCEPT !.host = search, !.kind = "raw"],
   [Plain EXCEPT !.path = "intercept", !.kind = "raw", !.body = {s1}],
   [Plain EXCEPT !.kind = "json", !.browse = "model", !.denied = TRUE],
   [Plain EXCEPT !.agent = NoAgent, !.header = {s1}],
   [Plain EXCEPT !.host = NoHost, !.header = {s1}],
   [Plain EXCEPT !.header = {s1}, !.token = "bad",
                 !.credentials = {Cred("header", "mixed"), Cred("own", "plain")}],
   [Plain EXCEPT !.credentials = {Cred("query", "scheme")}],
   [Plain EXCEPT !.path = "vault", !.host = NoHost, !.url = {s1}, !.token = "good"]}

MCRules == {[agents |-> {agent}, secrets |-> {s1, s2}]}
MCStatic == (s2 :> {model})
MCMappings == (model :> s2)
MCChecks == <<[kind |-> "starlark", fail_closed |-> TRUE],
              [kind |-> "remote", fail_closed |-> FALSE]>>

Symmetric == Permutations(Fetches) \cup Permutations(Contents)

\* The part that does not move starts in one state only.
MCInit ==
  /\ part \in {"proxy", "detector", "tools"}
  /\ Init /\ DetectorInit /\ ClashdInit
  /\ part # "proxy" => \A r \in Reqs : shape[r].path = "vault"
  /\ part # "detector" => \A f \in Fetches : job[f].kind = "fetch"
  /\ IF part = "tools" THEN call # NoCalls
     ELSE call = NoCalls /\ policy_file = "default" /\ fallback = "unset"

MCNext ==
  /\ \/ part = "proxy" /\ Next /\ UNCHANGED <<detectorVars, cvars>>
     \/ part = "detector" /\ DetectorNext /\ UNCHANGED <<vars, cvars>>
     \/ part = "tools" /\ ClashdNext /\ UNCHANGED <<vars, detectorVars>>
  /\ UNCHANGED part

MCSpec == MCInit /\ [][MCNext]_<<vars, detectorVars, cvars, part>>
=============================================================================
