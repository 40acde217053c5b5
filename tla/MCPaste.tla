------------------------------- MODULE MCPaste -------------------------------
(* Secrets on their way in and out, for TLC: the one-shot paste links        *)
(* (PasteServer), and the control API, helper, MCP server and chat commands  *)
(* that list names and store values (SecretDiscovery).  The two have their   *)
(* own stores here; a behaviour moves one of them.                           *)
EXTENDS PasteServer, SecretDiscovery, TLC

CONSTANTS n1, n2, head, agent, s1, s2

\* Every single link asks for the same secret.
MCLinkName == [l \in Link \ Bulk |-> n1]

\* The same secret twice, with a line that cannot be stored in between.
MCDumps == {<<n1, Blank, BadLine, n1>>}

\* A phone of the same network for the single links; the bulk links are
\* behind a public address, which only the second origin has.
MCOrigins == {[scheme |-> "http", host |-> "lan", port |-> 8080],
              [scheme |-> "https", host |-> "forge.example", port |-> 0],
              [scheme |-> "null", host |-> "", port |-> 0]}
MCConfig ==
  [l \in Link |->
     [require_localhost_origin |-> TRUE, allow_null_origin |-> FALSE,
      public_base_url |-> IF l \in Bulk
        THEN {[scheme |-> "https", host |-> "forge.example", port |-> 0]} ELSE {},
      public_host |-> IF l \in Bulk THEN {"forge.example"} ELSE {}]]

-----------------------------------------------------------------------------
(* Sessions: an agent that says who it is, or not, by every way in.          *)

Listing(via, base, token, id) ==
  [via |-> via, op |-> "list", name |-> n1, base |-> base, token |-> token,
   id |-> id, dests |-> FALSE]
Asking(c, n) == [c EXCEPT !.op = "ref", !.name = n]
Storing(c, n, d) == [c EXCEPT !.op = "set", !.name = n, !.dests = d]
Http == Listing("http", "none", "discovery", agent)
Helper == Listing("helper", "none", "none", agent)
MCCalls ==
  {Http, [Http EXCEPT !.id = Unknown], [Http EXCEPT !.token = "control"],
   Asking(Http, n1), Asking(Http, BadName), Asking([Http EXCEPT !.token = "none"], n1)}
  \cup {Storing([Http EXCEPT !.token = t], n1, d) : t \in {"discovery", "control"}, d \in BOOLEAN}
  \cup {[Helper EXCEPT !.id = i] : i \in {agent, Unknown}}
  \cup {[Helper EXCEPT !.base = b, !.token = "discovery"] : b \in {"https", "plain"}}
  \cup {Asking(Helper, n) : n \in {n2, BadName}}
  \cup {Asking([Helper EXCEPT !.base = "loopback", !.token = "discovery"], n1),
        Storing(Helper, BadName, FALSE), Storing([Helper EXCEPT !.base = "https"], n1, FALSE)}
  \cup {Listing("mcp", "none", "none", i) : i \in {agent, Unknown}}
  \cup {Listing("chat", "none", "none", Unknown),
        Storing(Listing("chat", "none", "none", Unknown), n1, FALSE)}
Lets(names) == [state |-> "rules", rules |-> {[who |-> {agent}, secrets |-> names]}]
MCPolicies == {[state |-> "gone", rules |-> {}], [state |-> "broken", rules |-> {}],
               Lets({n1})}
MCKeys == {[discovery |-> "set", control |-> "set"], [discovery |-> "unset", control |-> "set"],
           [discovery |-> "blank", control |-> "unset"]}

MCNames == {n1, n2, head}

-----------------------------------------------------------------------------
VARIABLE part

MCInit ==
  /\ Init
  /\ call \in [Session -> Calls]
  /\ \/ part = "paste" /\ call = [s \in Session |-> Http]
        /\ file = [state |-> "gone", rules |-> {}]
        /\ keys = [discovery |-> "set", control |-> "set"]
     \/ part = "discovery" /\ store = [n \in Name |-> Nobody]
        /\ call[s2] \in {Http, Storing([Http EXCEPT !.token = "control"], n1, TRUE)}
  /\ DiscoveryInit

MCNext ==
  /\ \/ part = "paste" /\ Next /\ UNCHANGED discoveryVars
     \/ part = "discovery" /\ DiscoveryNext /\ UNCHANGED vars
  /\ UNCHANGED part

MCSpec == MCInit /\ [][MCNext]_<<vars, discoveryVars, part>> /\ Fairness
=============================================================================
