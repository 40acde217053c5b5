------------------------------ MODULE MCChannels ------------------------------
(* Small instance of Channels.                                               *)
EXTENDS Channels

CONSTANTS own, other, foreign

From(kind, sender, text) == [kind |-> kind, sender |-> sender, text |-> text]

MCMessage == 1 .. 3

\* For the buttons of old requests: four messages, two of which pause an agent.
FourMessages == 1 .. 4
FewInbound == {From("telegram", "ann", Say("hello"))}

Naming(word, agent) == [word |-> word, id |-> agent]
MCAllowedAgents == [i \in Routed |-> {own, other}]
MCBtwAgent == [i \in Routed |-> other]

\* ann is routed to an agent, bob is not; guest is allowed in the Matrix room
\* and is no identity.
MCInbound ==
  {From("telegram", "ann", Say(w)) : w \in {"hello", "1", "!model"}}
  \cup {From("telegram", "ann", Naming("!sessions", own)),
        From("telegram", "bob", Say("1")),
        From("telegram", "bob", Say("!agents")),
        From("matrix", "guest", Say("!deny")),
        From("matrix", "guest", Say("hello")),
        From("signal", "ann", Say("Mo")),
        From("whatsapp", "ann", Say("ny")),
        From("signal", "stranger", Say("1")),
        From("signal", "bob", Say("!ping")),
        From("sms", "ann", Say("!secret set")),
        From("sms", "bob", Say("!secret")),
        From("sms", "ann", Say("hello")),
        From("mock", "ann", Say("hello")),
        From("mock", "ann", Say("!btw")),
        From("mock", "ann", Naming("!btw", foreign)),
        From("mock", "bob", Say("!status"))}
===============================================================================
