------------------------------ MODULE MCAgents ------------------------------
(* Messages to agents for TLC: through the OpenClaw channel                  *)
(* (OpenClawChannel) and through the other adapters (Adapters).  They share  *)
(* no state; a behaviour moves one of them.                                  *)
EXTENDS OpenClawChannel, Adapters, TLC

CONSTANTS r1, r2, s1, d1, d2

VARIABLE part

\* Two requests of one OpenClaw session.
MCSessionOf == r1 :> s1 @@ r2 :> s1
MCInputs == {r1 :> "subagent" @@ r2 :> k : k \in {"native", "unroutable", "stranger"}}

-----------------------------------------------------------------------------
(* One message through each other adapter, and two where messages can meet  *)
(* in a file, a directory or a session.                                     *)

Plain ==
  [kind |-> "cli", args |-> "plain", large |-> FALSE, output |-> "own",
   model |-> "other", override |-> "none", allowed |-> TRUE, session |-> "none"]

One(i) == d1 :> i @@ d2 :> Nothing
Both(i) == [d \in {d1, d2} |-> i]

MCMessages ==
  {Both(Nothing)}
  \cup {One([Plain EXCEPT !.kind = k]) :
          k \in {"cli", "dirac-cli", "hermes", "ironclaw", "zeroclaw", "zeroclaw-http",
                 "zeroclaw-native"}}
  \cup {One([Plain EXCEPT !.kind = "openai-compat", !.override = o, !.allowed = b]) :
          o \in {"none", "openclaw"}, b \in BOOLEAN}
  \cup {One([Plain EXCEPT !.kind = "kimi-cli", !.args = a]) : a \in {"plain", "message"}}
  \cup {One([Plain EXCEPT !.kind = "claude-cli", !.large = b]) : b \in BOOLEAN}
  \cup {One([Plain EXCEPT !.kind = "codex-cli", !.args = a, !.output = o]) :
          a \in {"message", "both"}, o \in {"own", "incomplete"}}
  \cup {Both([Plain EXCEPT !.kind = "codex-cli", !.large = TRUE, !.output = o]) :
          o \in {"own", "fixed"}}
  \cup {Both([Plain EXCEPT !.kind = k]) : k \in {"acp", "artifact-cli"}}
  \cup {d1 :> [Plain EXCEPT !.kind = "acpx", !.session = a] @@
        d2 :> [Plain EXCEPT !.kind = "acpx", !.session = b] :
          a \in {"none", "work"}, b \in {"work", "workshop"}}

\* Names of sessions that contain each other.
MCWithin == {<<"work", "work">>, <<"work", "workshop">>, <<"workshop", "workshop">>,
             <<"cwd", "cwd">>}

File(n, inside) == [kind |-> "file", size |-> n, inside |-> inside]

MCTrees ==
  {{}, {File(1, TRUE)}, {File(3, TRUE)}, {File(1, FALSE)}, {File(1, TRUE), File(2, TRUE)},
   {[kind |-> "other", size |-> 0, inside |-> TRUE]}}

-----------------------------------------------------------------------------

\* The part that does not move starts in one state only.
MCInit ==
  /\ Init /\ AdaptersInit
  /\ \/ part = "openclaw" /\ message = Both(Nothing)
     \/ part = "adapters" /\ message # Both(Nothing) /\ input[r2] = "native"

MCNext ==
  /\ \/ part = "openclaw" /\ Next /\ UNCHANGED avars
     \/ part = "adapters" /\ AdaptersNext /\ UNCHANGED vars
  /\ UNCHANGED part

\* Where a part does not move none of its fair actions is enabled.
MCSpec ==
  MCInit /\ [][MCNext]_<<vars, avars, part>> /\ Fairness /\ AdaptersFair
=============================================================================
