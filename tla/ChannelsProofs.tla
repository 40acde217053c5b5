----------------------------- MODULE ChannelsProofs -----------------------------
(***************************************************************************)
(* Proofs about Channels and PendingApprovals, for any number of messages, *)
(* identities, agents and approvals.                                       *)
(*                                                                         *)
(* The three invariants rest on where a message's task is: what its text   *)
(* may have become, whose list of choices it may answer, and whether it    *)
(* has resolved an approval yet.                                           *)
(***************************************************************************)
EXTENDS Channels, TLAPS

Word   == {x.text.word : x \in Inbound} \cup KnownWord \cup {""}
Name   == Id \cup Agent \cup {NoId}
Text   == [word : Word, id : Name]
Person == Identity \cup AllowedUser
Kind   == {"none", "approval", "!sessions"} \cup ListRequest
Offer  == [kind : Kind, id : Name, fresh : BOOLEAN, turn : Nat]
Pressed == [kind : {"button"}, sender : Identity, text : Text]

\* Where a task has its text and has not come to act on it, ...
Arriving == {"new", "scanning", "admitted"}

\* ... and the places it comes to later, with nothing known of its text.
Elsewhere == {"dropped", "blocked", "done", "listing", "linking", "stored", "refused",
              "deciding", "asking", "asking once"}

Place == Arriving \cup {"routing", "notifying"} \cup Elsewhere

ChannelsTypeOK ==
  /\ at \in [Message -> Place]
  /\ input \in [Message -> Inbound \cup Pressed]
  /\ who \in [Message -> Person \cup {NoOne}]
  /\ goal \in [Message -> Text]
  /\ choices \in [Person -> Offer]
  /\ turn \in [Person -> Nat]
  /\ acted \subseteq [list : Offer, by : Message, late : Int]
  /\ asked \in [Id -> Person \cup {NoOne}]

ApprovalsTypeOK ==
  /\ raised \subseteq Id /\ pending \subseteq raised
  /\ pc \in [Message -> Position]
  /\ verdict \in [Message -> {"none", "approve", "deny"}]
  /\ named \in [Message -> Name]
  /\ chosen \in [Message -> Id \cup {NoId}]
  /\ decision \in [Id -> {"none", "approve", "deny"}]

\* A command past its resolution is about a request that was raised, and an
\* approval about the one it named, if it named one.
Resolution ==
  \A c \in Message :
    /\ pc[c] = "new" => chosen[c] = NoId
    /\ pc[c] \notin {"new", "refused"} =>
         /\ chosen[c] \in raised /\ verdict[c] \in {"approve", "deny"}
         /\ verdict[c] = "approve" => named[c] \in {chosen[c], NoId}
    /\ pc[c] \in {"removing", "polling", "done"} => decision[chosen[c]] # "none"

Approvals == ApprovalsTypeOK /\ Resolution /\ DecidedOnRequest

\* Where the task of a message is says what its text may be.
Placed ==
  \A m \in Message :
    /\ at[m] \notin {"new", "dropped"} => who[m] \in Person
    /\ at[m] \in {"scanning", "admitted"} => goal[m] = input[m].text
    /\ at[m] = "routing" =>
         goal[m] = input[m].text \/ goal[m].word \in {"!approve", "!deny", "!switch"}
    /\ at[m] = "notifying" => goal[m].id \in raised /\ asked[goal[m].id] = who[m]
    /\ at[m] \in Arriving \cup {"routing"} \/ who[m] \notin Person => pc[m] = "new"

\* A list that may be answered is the last thing said, and that of an
\* approval was shown to the identity it is about.
Offered ==
  \A i \in Person :
    /\ choices[i].fresh => choices[i].turn = turn[i]
    /\ choices[i].kind = "approval" =>
         choices[i].id \in raised /\ asked[choices[i].id] = i

\* What follows from an answer that was acted on.
Acting(a) ==
  /\ a.late = 0 /\ a.list.fresh
  /\ at[a.by] \notin Arriving /\ who[a.by] \in Person
  /\ a.list.turn < turn[who[a.by]]
  /\ a.list.kind = "approval" =>
       /\ a.list.id \in raised /\ asked[a.list.id] = who[a.by]
       /\ at[a.by] = "routing" => goal[a.by].id = a.list.id
       /\ chosen[a.by] # NoId /\ verdict[a.by] = "approve" => chosen[a.by] = a.list.id

ActedOnce ==
  \A a, b \in acted : a.list = b.list /\ who[a.by] = who[b.by] => a.by = b.by

Answers == (\A a \in acted : Acting(a)) /\ ActedOnce

ChInv ==
  /\ ChannelsTypeOK
  /\ Approvals
  /\ Placed
  /\ Offered
  /\ Answers
  /\ AgentsHearOnlyTheirs

-----------------------------------------------------------------------------

LEMMA InboundText == \A x \in Inbound : x.text \in Text
<1> SUFFICES ASSUME NEW x \in Inbound PROVE x.text \in Text
  OBVIOUS
<1>1. x.text \in [word : STRING, id : Name]
  BY ChannelsAssumption DEF Name
<1>2. x.text.word \in Word /\ x.text.id \in Name
  BY <1>1 DEF Word
<1> QED
  BY <1>1, <1>2 DEF Text

LEMMA InitChInv == Init => ChInv
<1> SUFFICES ASSUME Init PROVE ChInv
  OBVIOUS
<1> USE ChannelsAssumption, ApprovalsAssumption DEF Init, ApprovalsInit
<1>1. ChannelsTypeOK
  <2>1. NoList \in Offer /\ Say("") \in Text
    BY DEF NoList, Offer, Kind, Name, Say, Text, Word
  <2>2. (CHOOSE x \in Inbound : TRUE) \in Inbound
    OBVIOUS
  <2>3. at \in [Message -> Place]
    BY DEF Place, Arriving
  <2> QED
    BY <2>1, <2>2, <2>3 DEF ChannelsTypeOK, Person
<1>2. Approvals
  BY DEF Approvals, ApprovalsTypeOK, Resolution, DecidedOnRequest, Position, Name
<1>3. Placed
  BY DEF Placed
<1>4. Offered
  BY DEF Offered, NoList, Person
<1>5. Answers /\ AgentsHearOnlyTheirs
  BY DEF Answers, ActedOnce, AgentsHearOnlyTheirs
<1> QED
  BY <1>1, <1>2, <1>3, <1>4, <1>5 DEF ChInv

\* The invariant gives what the runs check.
LEMMA ChInvStray == ChInv => StrayNumbersInert
<1> SUFFICES ASSUME ChInv PROVE StrayNumbersInert
  OBVIOUS
<1>1. \A a \in acted :
        /\ a.late = 0 /\ a.list.fresh
        /\ a.list.kind = "approval" /\ chosen[a.by] # NoId
           /\ verdict[a.by] = "approve" =>
             chosen[a.by] = a.list.id /\ asked[chosen[a.by]] = who[a.by]
  BY DEF ChInv, Answers, Acting
<1>2. ActedOnce
  BY DEF ChInv, Answers
<1> QED
  BY <1>1, <1>2 DEF StrayNumbersInert, ActedOnce

-----------------------------------------------------------------------------
(* Approvals: the steps of PendingApprovals.                               *)

LEMMA ApprovalsKept == Approvals /\ UNCHANGED approvalVars => Approvals'
BY DEF Approvals, ApprovalsTypeOK, Resolution, DecidedOnRequest, approvalVars

LEMMA RegisterKeeps ==
  ASSUME Approvals, NEW i \in Id, register_pending_approval(i)
  PROVE  Approvals'
<1> USE DEF Approvals, register_pending_approval
<1>1. ApprovalsTypeOK'
  BY DEF ApprovalsTypeOK
<1>2. Resolution'
  BY DEF Resolution
<1>3. DecidedOnRequest'
  BY DEF DecidedOnRequest
<1> QED
  BY <1>1, <1>2, <1>3

\* What a command may be about is pending, and what an approval names.
LEMMA ResolvedIsPending ==
  ASSUME NEW v \in {"approve", "deny"}, NEW id, NEW i \in Resolved(v, id)
  PROVE  i \in pending /\ (v = "approve" => id \in {i, NoId})
BY DEF Resolved, resolve_pending_approval, resolve_pending_denial

LEMMA ResolveKeeps ==
  ASSUME Approvals, NEW c \in Message, NEW v \in {"approve", "deny"},
         NEW id \in Name, resolve(c, v, id)
  PROVE  /\ Approvals' /\ UNCHANGED raised
         /\ \A n \in Message : n # c =>
              pc'[n] = pc[n] /\ chosen'[n] = chosen[n] /\ verdict'[n] = verdict[n]
         /\ pc'[c] # "new" /\ verdict'[c] = v
         /\ chosen'[c] # NoId /\ v = "approve" => id \in {chosen'[c], NoId}
<1> USE DEF Approvals
<1>1. /\ verdict' \in [Message -> {"none", "approve", "deny"}] /\ verdict'[c] = v
      /\ named' \in [Message -> Name] /\ named'[c] = id
      /\ \A n \in Message : n # c => verdict'[n] = verdict[n] /\ named'[n] = named[n]
  BY DEF resolve, ApprovalsTypeOK
<1>2. pc[c] = "new" /\ chosen[c] = NoId /\ UNCHANGED <<pending, decision, raised>>
  BY DEF resolve, Resolution
<1>3. /\ chosen' \in [Message -> Id \cup {NoId}] /\ pc' \in [Message -> Position]
      /\ \A n \in Message : n # c => chosen'[n] = chosen[n] /\ pc'[n] = pc[n]
      /\ \/ /\ pc'[c] = "sending" /\ chosen'[c] \in pending
            /\ v = "approve" => id \in {chosen'[c], NoId}
         \/ pc'[c] = "refused" /\ chosen'[c] = NoId
  <2>1. CASE \E i \in Resolved(v, id) :
               /\ chosen' = [chosen EXCEPT ![c] = i]
               /\ pc' = [pc EXCEPT ![c] = "sending"]
    <3>1. PICK i \in Resolved(v, id) : /\ chosen' = [chosen EXCEPT ![c] = i]
                                       /\ pc' = [pc EXCEPT ![c] = "sending"]
      BY <2>1
    <3>2. i \in pending /\ i \in Id /\ (v = "approve" => id \in {i, NoId})
      BY ResolvedIsPending DEF ApprovalsTypeOK
    <3> QED
      BY <3>1, <3>2 DEF ApprovalsTypeOK, Position
  <2>2. CASE pc' = [pc EXCEPT ![c] = "refused"] /\ UNCHANGED chosen
    BY <1>2, <2>2 DEF ApprovalsTypeOK, Position
  <2> QED
    BY <2>1, <2>2 DEF resolve
<1>4. ApprovalsTypeOK'
  BY <1>1, <1>2, <1>3 DEF ApprovalsTypeOK
<1>5. Resolution'
  BY <1>1, <1>2, <1>3 DEF Resolution, ApprovalsTypeOK
<1>6. DecidedOnRequest'
  <2>1. \A i \in raised' \ pending' : decision'[i] # "none"
    BY <1>2 DEF DecidedOnRequest
  <2>2. ASSUME NEW i \in Id, decision'[i] # "none"
        PROVE  \E d \in Message :
                 /\ chosen'[d] = i /\ verdict'[d] = decision'[i]
                 /\ decision'[i] = "approve" => named'[d] \in {i, NoId}
    <3>1. PICK d \in Message : /\ chosen[d] = i /\ verdict[d] = decision[i]
                               /\ decision[i] = "approve" => named[d] \in {i, NoId}
      BY <1>2, <2>2, ChannelsAssumption DEF DecidedOnRequest
    <3>2. d # c
      BY <1>2, <3>1, ApprovalsAssumption
    <3> QED
      BY <1>1, <1>2, <1>3, <3>1, <3>2
  <2> QED
    BY <2>1, <2>2, ChannelsAssumption DEF DecidedOnRequest
<1> QED
  BY <1>1, <1>2, <1>3, <1>4, <1>5, <1>6

\* The decision of a command reaches the gateway, or the call fails, before
\* or after that.
LEMMA DeliverKeeps ==
  ASSUME Approvals, NEW c \in Message, pc[c] = "sending",
         NEW where \in {"removing", "send_failed"}, pc' = [pc EXCEPT ![c] = where],
         \/ Deliver(chosen[c], verdict[c])
         \/ where = "send_failed" /\ UNCHANGED decision,
         UNCHANGED <<pending, verdict, named, chosen, raised>>
  PROVE  Approvals'
<1> USE DEF Approvals
<1>1. /\ chosen[c] \in raised /\ chosen[c] \in Id /\ verdict[c] \in {"approve", "deny"}
      /\ verdict[c] = "approve" => named[c] \in {chosen[c], NoId}
  BY DEF Resolution, ApprovalsTypeOK
<1>2. /\ decision' \in [Id -> {"none", "approve", "deny"}]
      /\ \A i \in Id : \/ decision'[i] = decision[i]
                       \/ i = chosen[c] /\ decision'[i] = verdict[c]
      /\ \A i \in Id : decision[i] # "none" => decision'[i] # "none"
      /\ where = "removing" => decision'[chosen[c]] # "none"
  BY <1>1 DEF Deliver, ApprovalsTypeOK
<1>3. /\ pc' \in [Message -> Position] /\ pc'[c] = where
      /\ \A n \in Message : n # c => pc'[n] = pc[n]
  BY DEF ApprovalsTypeOK, Position
<1>4. ApprovalsTypeOK'
  BY <1>2, <1>3 DEF ApprovalsTypeOK
<1>5. Resolution'
  <2> SUFFICES ASSUME NEW n \in Message
               PROVE  /\ pc'[n] = "new" => chosen[n] = NoId
                      /\ pc'[n] \notin {"new", "refused"} =>
                           /\ chosen[n] \in raised /\ verdict[n] \in {"approve", "deny"}
                           /\ verdict[n] = "approve" => named[n] \in {chosen[n], NoId}
                      /\ pc'[n] \in {"removing", "polling", "done"} =>
                           decision'[chosen[n]] # "none"
    BY DEF Resolution
  <2>1. CASE n = c
    BY <1>1, <1>2, <1>3, <2>1
  <2>2. CASE n # c
    <3>1. /\ pc[n] = "new" => chosen[n] = NoId
          /\ pc[n] \notin {"new", "refused"} =>
               /\ chosen[n] \in raised /\ verdict[n] \in {"approve", "deny"}
               /\ verdict[n] = "approve" => named[n] \in {chosen[n], NoId}
          /\ pc[n] \in {"removing", "polling", "done"} => decision[chosen[n]] # "none"
      BY DEF Resolution
    <3>2. chosen[n] \in raised => chosen[n] \in Id
      BY DEF ApprovalsTypeOK
    <3> QED
      BY <1>2, <1>3, <2>2, <3>1, <3>2
  <2> QED
    BY <2>1, <2>2
<1>6. DecidedOnRequest'
  <2>1. \A i \in raised' \ pending' : decision'[i] # "none"
    BY <1>2 DEF DecidedOnRequest, ApprovalsTypeOK
  <2>2. ASSUME NEW i \in Id, decision'[i] # "none"
        PROVE  \E d \in Message :
                 /\ chosen[d] = i /\ verdict[d] = decision'[i]
                 /\ decision'[i] = "approve" => named[d] \in {i, NoId}
    <3>1. CASE decision'[i] = decision[i]
      BY <2>2, <3>1, ChannelsAssumption DEF DecidedOnRequest
    <3>2. CASE i = chosen[c] /\ decision'[i] = verdict[c]
      BY <1>1, <3>2
    <3> QED
      BY <1>2, <3>1, <3>2
  <2> QED
    BY <2>1, <2>2, ChannelsAssumption DEF DecidedOnRequest
<1> QED
  BY <1>4, <1>5, <1>6

LEMMA RemoveKeeps ==
  ASSUME Approvals, NEW c \in Message, remove_pending(c)
  PROVE  Approvals'
<1> USE DEF Approvals, remove_pending
<1>1. /\ pc' \in [Message -> Position] /\ pc'[c] = "polling"
      /\ \A n \in Message : n # c => pc'[n] = pc[n]
  BY DEF ApprovalsTypeOK, Position
<1>2. decision[chosen[c]] # "none"
  BY DEF Resolution
<1>3. ApprovalsTypeOK'
  BY <1>1 DEF ApprovalsTypeOK
<1>4. Resolution'
  BY <1>1 DEF Resolution
<1>5. DecidedOnRequest'
  BY <1>2 DEF DecidedOnRequest
<1> QED
  BY <1>3, <1>4, <1>5

LEMMA PollKeeps ==
  ASSUME Approvals, NEW c \in Message, poll_result(c)
  PROVE  Approvals'
<1> USE DEF Approvals, poll_result
<1>1. /\ pc' \in [Message -> Position] /\ pc'[c] = "done"
      /\ \A n \in Message : n # c => pc'[n] = pc[n]
  BY DEF ApprovalsTypeOK, Position
<1>2. ApprovalsTypeOK'
  BY <1>1 DEF ApprovalsTypeOK
<1>3. Resolution'
  BY <1>1 DEF Resolution
<1>4. DecidedOnRequest'
  BY DEF DecidedOnRequest
<1> QED
  BY <1>2, <1>3, <1>4

-----------------------------------------------------------------------------
(* What the steps of the handlers have in common.                          *)

\* Answers that were acted on stay right as long as their messages keep
\* their identity, a text that waits to be acted on is not exchanged, and
\* the approval it decides is the one it names.
LEMMA AnswersStay ==
  ASSUME ChInv,
         \A n \in Message : at[n] \notin Arriving =>
           /\ at'[n] \notin Arriving /\ who'[n] = who[n]
           /\ at'[n] = "routing" => at[n] = "routing" /\ goal'[n] = goal[n]
           /\ \/ chosen'[n] = chosen[n] /\ verdict'[n] = verdict[n]
              \/ /\ at[n] = "routing"
                 /\ chosen'[n] # NoId /\ verdict'[n] = "approve" =>
                      goal[n].id \in {chosen'[n], NoId},
         \A id \in raised : id \in raised' /\ asked'[id] = asked[id],
         \A i \in Person : turn'[i] \in Nat /\ turn'[i] >= turn[i]
  PROVE  \A a \in acted : Acting(a)'
<1> SUFFICES ASSUME NEW a \in acted PROVE Acting(a)'
  OBVIOUS
<1>1. a.by \in Message /\ a.list.turn \in Nat
  BY DEF ChInv, ChannelsTypeOK, Offer
<1>2. Acting(a)
  BY DEF ChInv, Answers
<1>3. at'[a.by] \notin Arriving /\ who'[a.by] = who[a.by] /\ who[a.by] \in Person
  BY <1>1, <1>2 DEF Acting
<1>4. turn[who[a.by]] \in Nat
  BY <1>3 DEF ChInv, ChannelsTypeOK
<1>5. a.list.turn < turn'[who'[a.by]]
  BY <1>1, <1>2, <1>3, <1>4 DEF Acting
<1>6. ASSUME a.list.kind = "approval"
      PROVE  /\ a.list.id \in raised' /\ asked'[a.list.id] = who'[a.by]
             /\ at'[a.by] = "routing" => goal'[a.by].id = a.list.id
             /\ chosen'[a.by] # NoId /\ verdict'[a.by] = "approve" =>
                  chosen'[a.by] = a.list.id
  <2>1. a.list.id \in raised /\ a.list.id # NoId
    BY <1>2, <1>6, ApprovalsAssumption DEF Acting, ChInv, Approvals, ApprovalsTypeOK
  <2> QED
    BY <1>1, <1>2, <1>3, <1>6, <2>1 DEF Acting
<1> QED
  BY <1>2, <1>3, <1>5, <1>6 DEF Acting

LEMMA OnceStays ==
  ASSUME ChInv, UNCHANGED acted,
         \A n \in Message : at[n] \notin Arriving => who'[n] = who[n]
  PROVE  ActedOnce'
<1>1. \A a \in acted : a.by \in Message /\ at[a.by] \notin Arriving
  BY DEF ChInv, ChannelsTypeOK, Answers, Acting
<1> QED
  BY <1>1 DEF ChInv, Answers, ActedOnce

\* A task that is past its arrival moves on.
LEMMA MoveKeeps ==
  ASSUME ChInv, NEW m \in Message, at[m] \notin Arriving \cup {"dropped"},
         NEW w \in Elsewhere, at' = [at EXCEPT ![m] = w],
         UNCHANGED <<approvalVars, input, who, goal, turn, acted, asked>>
  PROVE  at' \in [Message -> Place] /\ Approvals' /\ Placed' /\ Answers'
<1> USE DEF ChInv
<1>1. /\ at' \in [Message -> Place] /\ at'[m] = w
      /\ \A n \in Message : n # m => at'[n] = at[n]
  BY DEF ChannelsTypeOK, Place
<1>2. Approvals'
  BY ApprovalsKept
<1>3. UNCHANGED <<pc, raised, chosen, verdict>>
  BY DEF approvalVars
<1>4. Placed'
  BY <1>1, <1>3 DEF Placed, Elsewhere, Arriving
<1>5. /\ \A n \in Message : at[n] \notin Arriving =>
           at'[n] \notin Arriving /\ (at'[n] = "routing" => at[n] = "routing")
      /\ \A i \in Person : turn'[i] \in Nat /\ turn'[i] >= turn[i]
  <2>1. w \notin Arriving /\ w # "routing"
    BY DEF Elsewhere, Arriving
  <2>2. \A i \in Person : turn'[i] \in Nat /\ turn'[i] >= turn[i]
    BY DEF ChannelsTypeOK
  <2> QED
    BY <1>1, <2>1, <2>2
<1>6. \A a \in acted' : Acting(a)'
  BY <1>3, <1>5, AnswersStay
<1>7. ActedOnce'
  BY OnceStays
<1> QED
  BY <1>1, <1>2, <1>4, <1>6, <1>7 DEF Answers

LEMMA MoveStep ==
  ASSUME ChInv, NEW m \in Message, at[m] \notin Arriving \cup {"dropped"},
         NEW w \in Elsewhere, at' = [at EXCEPT ![m] = w],
         UNCHANGED <<approvalVars, input, who, goal, choices, turn, acted, heard, asked>>
  PROVE  ChInv'
<1>1. at' \in [Message -> Place] /\ Approvals' /\ Placed' /\ Answers'
  BY MoveKeeps
<1>2. ChannelsTypeOK' /\ Offered' /\ AgentsHearOnlyTheirs'
  BY <1>1 DEF ChInv, ChannelsTypeOK, Offered, AgentsHearOnlyTheirs, approvalVars
<1> QED
  BY <1>1, <1>2 DEF ChInv

\* ... and an agent is given its text, ...
LEMMA HearStep ==
  ASSUME ChInv, NEW m \in Message, at[m] = "routing", NEW agent,
         NEW w \in {"asking", "asking once"}, at' = [at EXCEPT ![m] = w],
         Hears(m, agent), input[m].text.word # "!secret set", who[m] \in Routed,
         agent = NoId \/ AllowedAgents[who[m]] = {} \/ agent \in AllowedAgents[who[m]],
         UNCHANGED <<approvalVars, input, who, goal, choices, turn, acted, asked>>
  PROVE  ChInv'
<1>1. at' \in [Message -> Place] /\ Approvals' /\ Placed' /\ Answers'
  BY MoveKeeps DEF Elsewhere, Arriving
<1>2. ChannelsTypeOK' /\ Offered'
  BY <1>1 DEF ChInv, ChannelsTypeOK, Offered, approvalVars
<1>3. AgentsHearOnlyTheirs'
  <2> SUFFICES ASSUME NEW h \in heard'
               PROVE  /\ h.text.word # "!secret set" /\ h.who \in Routed
                      /\ \/ h.agent = NoId \/ AllowedAgents[h.who] = {}
                         \/ h.agent \in AllowedAgents[h.who]
    BY DEF AgentsHearOnlyTheirs
  <2>1. CASE h \in heard
    BY <2>1 DEF ChInv, AgentsHearOnlyTheirs
  <2>2. CASE h = [kind |-> input[m].kind, who |-> who[m], agent |-> agent,
                  text |-> input[m].text]
    BY <2>2
  <2> QED
    BY <2>1, <2>2 DEF Hears
<1> QED
  BY <1>1, <1>2, <1>3 DEF ChInv

\* ... or a list is offered.
LEMMA RecordStep ==
  ASSUME ChInv, NEW m \in Message, at[m] \notin Arriving \cup {"dropped"},
         at' = [at EXCEPT ![m] = "done"], NEW kind \in Kind, NEW id \in Name,
         record_pending_choices(who[m], kind, id),
         kind = "approval" => id \in raised /\ asked[id] = who[m],
         UNCHANGED <<approvalVars, input, who, goal, turn, acted, heard, asked>>
  PROVE  ChInv'
<1> USE DEF ChInv
<1> DEFINE i == who[m]
           list == List(kind, id, i)
<1>1. at' \in [Message -> Place] /\ Approvals' /\ Placed' /\ Answers'
  BY MoveKeeps DEF Elsewhere
<1>2. i \in Person
  BY DEF Placed, Arriving
<1>3. /\ list \in Offer /\ list.turn = turn[i]
      /\ list.kind = kind /\ list.id = id
  <2>1. turn[i] \in Nat
    BY <1>2 DEF ChannelsTypeOK
  <2> QED
    BY <2>1 DEF List, Offer
<1>4. choices' = [choices EXCEPT ![i] = list]
  BY DEF record_pending_choices
<1>5. kind = "approval" => id \in raised /\ asked[id] = i
  OBVIOUS
<1> HIDE DEF list, i
<1>6. /\ choices' \in [Person -> Offer] /\ choices'[i] = list
      /\ \A j \in Person : j # i => choices'[j] = choices[j]
  BY <1>2, <1>3, <1>4 DEF ChannelsTypeOK
<1>7. ChannelsTypeOK'
  BY <1>1, <1>6 DEF ChannelsTypeOK
<1>8. Offered'
  BY <1>2, <1>3, <1>5, <1>6 DEF Offered, approvalVars
<1>9. AgentsHearOnlyTheirs'
  BY DEF AgentsHearOnlyTheirs
<1> QED
  BY <1>1, <1>7, <1>8, <1>9

-----------------------------------------------------------------------------
(* A message arrives.                                                      *)

\* It is resolved to an identity, or dropped.
LEMMA ReceiveStep ==
  ASSUME ChInv, NEW m \in Message, NEW kind, NEW scans \in BOOLEAN,
         NEW identity \in [Sender -> Person \cup {NoOne}],
         Receive(m, kind, identity, scans)
  PROVE  ChInv'
<1> USE DEF ChInv
<1>1. PICK x \in Inbound :
        /\ input' = [input EXCEPT ![m] = x]
        /\ who' = [who EXCEPT ![m] = identity[x.sender]]
        /\ goal' = [goal EXCEPT ![m] = x.text]
        /\ at' = [at EXCEPT ![m] = IF identity[x.sender] = NoOne THEN "dropped"
                                   ELSE IF scans THEN "scanning" ELSE "admitted"]
  BY DEF Receive
<1>2. at[m] = "new" /\ UNCHANGED <<approvalVars, choices, turn, acted, heard, asked>>
  BY DEF Receive
<1>3. identity[x.sender] \in Person \cup {NoOne} /\ x.text \in Text
  BY InboundText DEF Sender
<1>4. /\ input' \in [Message -> Inbound \cup Pressed] /\ input'[m] = x
      /\ who' \in [Message -> Person \cup {NoOne}] /\ who'[m] = identity[x.sender]
      /\ goal' \in [Message -> Text] /\ goal'[m] = x.text
      /\ at' \in [Message -> Place] /\ at'[m] \in {"dropped", "scanning", "admitted"}
      /\ who'[m] = NoOne => at'[m] = "dropped"
      /\ \A n \in Message : n # m => /\ input'[n] = input[n] /\ who'[n] = who[n]
                                     /\ goal'[n] = goal[n] /\ at'[n] = at[n]
  BY <1>1, <1>3 DEF ChannelsTypeOK, Place, Arriving, Elsewhere
<1>5. ChannelsTypeOK'
  BY <1>2, <1>4 DEF ChannelsTypeOK
<1>6. UNCHANGED <<pc, raised, chosen, verdict>>
  BY <1>2 DEF approvalVars
<1>7. Approvals'
  BY <1>2, ApprovalsKept
<1>8. Placed'
  BY <1>2, <1>3, <1>4, <1>6 DEF Placed, Arriving
<1>9. Offered' /\ AgentsHearOnlyTheirs'
  BY <1>2, <1>6 DEF Offered, AgentsHearOnlyTheirs
<1>10. \A n \in Message : at[n] \notin Arriving => n # m
  BY <1>2 DEF Arriving
<1>11. \A i \in Person : turn'[i] \in Nat /\ turn'[i] >= turn[i]
  BY <1>2 DEF ChannelsTypeOK
<1>12. \A a \in acted' : Acting(a)'
  BY <1>2, <1>4, <1>6, <1>10, <1>11, AnswersStay
<1>13. ActedOnce'
  BY <1>2, <1>4, <1>10, OnceStays
<1> QED
  BY <1>5, <1>7, <1>8, <1>9, <1>12, <1>13 DEF Answers

LEMMA AliasIsPerson ==
  /\ ByAlias \in [Sender -> Person \cup {NoOne}]
  /\ [s \in Sender |-> IF s \notin AllowedUser THEN NoOne
                       ELSE IF ByAlias[s] # NoOne THEN ByAlias[s] ELSE s]
       \in [Sender -> Person \cup {NoOne}]
BY DEF ByAlias, resolve_channel_sender, Person

\* A button was shown for an approval that was raised, or for a list.
LEMMA CallbackStep ==
  ASSUME ChInv, NEW m \in Message, handle_callback_query(m)
  PROVE  ChInv'
<1> USE DEF ChInv
<1>1. PICK s \in Identity, button \in choice_keyboard :
        /\ button.word \in parse_callback_action
        /\ input' = [input EXCEPT ![m] = [kind |-> "button", sender |-> s, text |-> button]]
        /\ who' = [who EXCEPT ![m] = s]
        /\ goal' = [goal EXCEPT ![m] = button]
  BY DEF handle_callback_query
<1>2. /\ at[m] = "new" /\ at' = [at EXCEPT ![m] = "routing"]
      /\ UNCHANGED <<approvalVars, choices, turn, acted, heard, asked>>
  BY DEF handle_callback_query, To
<1>3. button \in Text
  <2>1. {"!approve", "!deny", "!switch"} \subseteq Word
    BY DEF Word, KnownWord, LocalWord
  <2>2. raised \cup {NoId} \subseteq Name
    BY DEF Name, Approvals, ApprovalsTypeOK
  <2>3. \/ \E w \in {"!approve", "!deny"}, id \in raised : button = [word |-> w, id |-> id]
        \/ button = [word |-> "!switch", id |-> NoId]
    BY DEF choice_keyboard, Say
  <2> QED
    BY <2>1, <2>2, <2>3 DEF Text
<1> DEFINE x == [kind |-> "button", sender |-> s, text |-> button]
<1>4. x \in Pressed /\ x.text = button
  BY <1>3 DEF Pressed
<1>5. input' = [input EXCEPT ![m] = x]
  BY <1>1
<1> HIDE DEF x
<1>6. /\ input' \in [Message -> Inbound \cup Pressed] /\ input'[m] = x
      /\ who' \in [Message -> Person \cup {NoOne}] /\ who'[m] = s
      /\ goal' \in [Message -> Text] /\ goal'[m] = button
      /\ at' \in [Message -> Place] /\ at'[m] = "routing"
      /\ \A n \in Message : n # m => /\ input'[n] = input[n] /\ who'[n] = who[n]
                                     /\ goal'[n] = goal[n] /\ at'[n] = at[n]
  BY <1>1, <1>2, <1>3, <1>4, <1>5 DEF ChannelsTypeOK, Place, Person
<1>7. ChannelsTypeOK'
  BY <1>2, <1>6 DEF ChannelsTypeOK
<1>8. UNCHANGED <<pc, raised, chosen, verdict>>
  BY <1>2 DEF approvalVars
<1>9. Approvals'
  BY <1>2, ApprovalsKept
<1>10. Placed'
  BY <1>2, <1>4, <1>6, <1>8 DEF Placed, Arriving, Person
<1>11. Offered' /\ AgentsHearOnlyTheirs'
  BY <1>2, <1>8 DEF Offered, AgentsHearOnlyTheirs
<1>12. \A n \in Message : at[n] \notin Arriving => n # m
  BY <1>2 DEF Arriving
<1>13. \A i \in Person : turn'[i] \in Nat /\ turn'[i] >= turn[i]
  BY <1>2 DEF ChannelsTypeOK
<1>14. \A a \in acted' : Acting(a)'
  BY <1>2, <1>6, <1>8, <1>12, <1>13, AnswersStay
<1>15. ActedOnce'
  BY <1>2, <1>6, <1>12, OnceStays
<1> QED
  BY <1>7, <1>9, <1>10, <1>11, <1>14, <1>15 DEF Answers

LEMMA ScanMessageStep ==
  ASSUME ChInv, NEW m \in Message, inbound_scan_block_reply(m)
  PROVE  ChInv'
<1> USE DEF ChInv, inbound_scan_block_reply
<1>1. /\ at' \in [Message -> Place] /\ at'[m] \in {"blocked", "admitted"}
      /\ \A n \in Message : n # m => at'[n] = at[n]
  BY DEF ChannelsTypeOK, Place, Arriving, Elsewhere
<1>2. ChannelsTypeOK'
  BY <1>1 DEF ChannelsTypeOK
<1>3. UNCHANGED <<pc, raised, chosen, verdict>>
  BY DEF approvalVars
<1>4. Approvals'
  BY ApprovalsKept
<1>5. Placed'
  BY <1>1, <1>3 DEF Placed, Arriving
<1>6. Offered' /\ AgentsHearOnlyTheirs'
  BY <1>3 DEF Offered, AgentsHearOnlyTheirs
<1>7. \A n \in Message : at[n] \notin Arriving => at'[n] = at[n]
  BY <1>1 DEF Arriving
<1>8. \A i \in Person : turn'[i] \in Nat /\ turn'[i] >= turn[i]
  BY DEF ChannelsTypeOK
<1>9. \A a \in acted' : Acting(a)'
  BY <1>3, <1>7, <1>8, AnswersStay
<1>10. ActedOnce'
  BY OnceStays
<1> QED
  BY <1>2, <1>4, <1>5, <1>6, <1>9, <1>10 DEF Answers

-----------------------------------------------------------------------------
(* The answer to the last list.                                            *)

LEMMA OptionsOf ==
  ASSUME NEW list \in Offer
  PROVE  /\ DOMAIN Options(list) = 1 .. Len(Options(list))
         /\ \A k \in DOMAIN Options(list) :
              /\ Options(list)[k].text \in Text
              /\ Options(list)[k].text.word \in {"!approve", "!deny", "!switch"}
              /\ list.kind = "approval" => Options(list)[k].text.id = list.id
<1>1. {"!approve", "!deny", "!switch"} \subseteq Word /\ NoId \in Name /\ list.id \in Name
  BY DEF Word, KnownWord, LocalWord, Name, Offer
<1>2. CASE list.kind = "approval"
  <2> DEFINE a == [label |-> "Approve", text |-> [word |-> "!approve", id |-> list.id]]
             b == [label |-> "Deny",    text |-> [word |-> "!deny",    id |-> list.id]]
  <2>1. Options(list) = <<a, b>>
    BY <1>2 DEF Options
  <2>2. /\ a.text \in Text /\ a.text.word = "!approve" /\ a.text.id = list.id
        /\ b.text \in Text /\ b.text.word = "!deny" /\ b.text.id = list.id
    BY <1>1 DEF Text
  <2> HIDE DEF a, b
  <2>3. DOMAIN Options(list) = 1 .. 2 /\ Len(Options(list)) = 2
    BY <2>1
  <2>4. \A k \in 1 .. 2 : Options(list)[k] = a \/ Options(list)[k] = b
    BY <2>1
  <2> QED
    BY <2>2, <2>3, <2>4
<1>3. CASE list.kind = "!sessions"
  <2> DEFINE a == [label |-> "main", text |-> Say("!switch")]
  <2>1. Options(list) = <<a>>
    BY <1>3 DEF Options
  <2>2. a.text \in Text /\ a.text.word = "!switch"
    BY <1>1 DEF Text, Say
  <2> HIDE DEF a
  <2>3. DOMAIN Options(list) = 1 .. 1 /\ Len(Options(list)) = 1
    BY <2>1
  <2>4. \A k \in 1 .. 1 : Options(list)[k] = a
    BY <2>1
  <2> QED
    BY <1>3, <2>2, <2>3, <2>4
<1>4. CASE list.kind # "approval" /\ list.kind # "!sessions"
  <2> DEFINE a == [label |-> "Model A", text |-> Say("!switch")]
             b == [label |-> "Model B", text |-> Say("!switch")]
  <2>1. Options(list) = <<a, b>>
    BY <1>4 DEF Options
  <2>2. /\ a.text \in Text /\ a.text.word = "!switch"
        /\ b.text \in Text /\ b.text.word = "!switch"
    BY <1>1 DEF Text, Say
  <2> HIDE DEF a, b
  <2>3. DOMAIN Options(list) = 1 .. 2 /\ Len(Options(list)) = 2
    BY <2>1
  <2>4. \A k \in 1 .. 2 : Options(list)[k] = a \/ Options(list)[k] = b
    BY <2>1
  <2> QED
    BY <1>4, <2>2, <2>3, <2>4
<1> QED
  BY <1>2, <1>3, <1>4

\* A reply that is one of the options stands for its text, any other for
\* itself.
LEMMA MatchIsOption ==
  ASSUME NEW list \in Offer, NEW t
  PROVE  LET r == match_reply(list, t)
         IN  \/ r.how = "one" /\ \E k \in DOMAIN Options(list) : r.text = Options(list)[k].text
             \/ r.how \in {"none", "ambiguous", "out of range"} /\ r.text = t
<1> DEFINE options == Options(list)
           n == NumberOf(t.word)
           One(k) == [how |-> "one", text |-> options[k].text]
           Not(why) == [how |-> why, text |-> t]
           t1 == {k \in DOMAIN options : Exactly(t.word, options[k].label)}
           t2 == {k \in DOMAIN options : StartOf(t.word, options[k].label)}
           t3 == {k \in DOMAIN options : Within(t.word, options[k].label)}
           tiers == <<t1, t2, t3>>
           hit == {i \in 1 .. 3 : tiers[i] # {}}
           tier == tiers[Min(hit)]
           r == match_reply(list, t)
<1>1. r = IF n > 0
          THEN IF n <= Len(options) THEN One(n) ELSE Not("out of range")
          ELSE IF hit = {} THEN Not("none")
          ELSE IF Cardinality(tier) = 1 THEN One(CHOOSE k \in tier : TRUE)
          ELSE Not("ambiguous")
  BY DEF match_reply
<1>2. n \in {0, 1, 2, 9}
  BY DEF NumberOf
<1>3. DOMAIN options = 1 .. Len(options)
  BY OptionsOf
<1>4. t1 \subseteq DOMAIN options /\ t2 \subseteq DOMAIN options /\ t3 \subseteq DOMAIN options
  OBVIOUS
<1> HIDE DEF t1, t2, t3
<1>5. \A i \in 1 .. 3 : tiers[i] \subseteq DOMAIN options
  BY <1>4
<1>6. hit # {} => (CHOOSE k \in tier : TRUE) \in DOMAIN options
  <2> SUFFICES ASSUME hit # {} PROVE (CHOOSE k \in tier : TRUE) \in DOMAIN options
    OBVIOUS
  <2>1. hit \subseteq {1, 2, 3}
    OBVIOUS
  <2>2. \E x \in hit : \A y \in hit : x <= y
    <3> HIDE DEF hit
    <3>1. CASE 1 \in hit
      BY <2>1, <3>1
    <3>2. CASE 1 \notin hit /\ 2 \in hit
      BY <2>1, <3>2
    <3>3. CASE 1 \notin hit /\ 2 \notin hit
      <4>1. hit = {3}
        BY <2>1, <3>3
      <4> QED
        BY <4>1
    <3> QED
      BY <3>1, <3>2, <3>3
  <2>3. Min(hit) \in hit
    <3> HIDE DEF hit
    <3> QED BY <2>2 DEF Min
  <2>4. Min(hit) \in 1 .. 3 /\ tiers[Min(hit)] # {}
    BY <2>3
  <2>5. tier # {} /\ tier \subseteq DOMAIN options
    BY <1>5, <2>4
  <2> HIDE DEF tier
  <2> QED
    BY <2>5
<1>7. /\ \A k : One(k).how = "one" /\ One(k).text = options[k].text
      /\ \A why : Not(why).how = why /\ Not(why).text = t
  OBVIOUS
<1> HIDE DEF n, options, hit, tier, tiers, One, Not, r
<1>8. CASE n > 0 /\ n <= Len(options)
  <2>1. r = One(n)
    BY <1>1, <1>8
  <2>2. n \in DOMAIN options
    BY <1>2, <1>3, <1>8
  <2> QED
    BY <2>1, <2>2, <1>7 DEF r, options
<1>9. CASE ~(n > 0) /\ hit # {} /\ Cardinality(tier) = 1
  <2>1. r = One(CHOOSE k \in tier : TRUE)
    BY <1>1, <1>9
  <2> QED
    BY <1>6, <1>7, <1>9, <2>1 DEF r, options
<1>10. CASE ~(n > 0 /\ n <= Len(options)) /\ ~(~(n > 0) /\ hit # {} /\ Cardinality(tier) = 1)
  <2>1. r \in {Not("out of range"), Not("none"), Not("ambiguous")}
    BY <1>1, <1>10
  <2> QED
    BY <1>7, <2>1 DEF r
<1> QED
  BY <1>8, <1>9, <1>10

LEMMA AnswerIsOption ==
  ASSUME ChInv, NEW m \in Message, at[m] = "admitted"
  PROVE  LET list == choices[who[m]]  a == Answer(m)
         IN  \/ /\ a.how = "one" /\ list.fresh /\ a.text \in Text
                /\ a.text.word \in {"!approve", "!deny", "!switch"}
                /\ list.kind = "approval" => a.text.id = list.id
             \/ a.how \in {"none", "ambiguous", "out of range"} /\ a.text = goal[m]
<1> DEFINE list == choices[who[m]]
           a == Answer(m)
<1>1. list \in Offer
  BY DEF ChInv, Placed, ChannelsTypeOK
<1>2. CASE ~list.fresh
  BY <1>2 DEF Answer
<1>3. CASE list.fresh
  <2>1. a = match_reply(list, goal[m])
    BY <1>3 DEF Answer
  <2> HIDE DEF list, a
  <2>2. \/ a.how = "one" /\ \E k \in DOMAIN Options(list) : a.text = Options(list)[k].text
        \/ a.how \in {"none", "ambiguous", "out of range"} /\ a.text = goal[m]
    BY <1>1, <2>1, MatchIsOption
  <2>3. a.how = "one" => /\ a.text \in Text
                         /\ a.text.word \in {"!approve", "!deny", "!switch"}
                         /\ list.kind = "approval" => a.text.id = list.id
    BY <1>1, <2>2, OptionsOf
  <2>4. list.fresh /\ (a.how = "one" \/ (a.how \in {"none", "ambiguous", "out of range"}
                                           /\ a.text = goal[m]))
    BY <1>3, <2>2
  <2> QED
    BY <2>3, <2>4 DEF list, a
<1> QED
  BY <1>2, <1>3

\* A list is answered at most once: an answer takes it away, and it was
\* offered after every answer before.
LEMMA ReplyStep ==
  ASSUME ChInv, NEW m \in Message, resolve_pending_choice_reply(m)
  PROVE  ChInv'
<1> USE DEF ChInv
<1> DEFINE i == who[m]
           list == choices[i]
           how == Answer(m).how
           text == Answer(m).text
<1>1. /\ at[m] = "admitted"
      /\ choices' = IF how = "ambiguous" THEN choices ELSE [choices EXCEPT ![i] = NoList]
      /\ turn' = IF how = "ambiguous" THEN turn ELSE [turn EXCEPT ![i] = @ + 1]
      /\ goal' = [goal EXCEPT ![m] = text]
      /\ at' = [at EXCEPT ![m] = IF how \in {"ambiguous", "out of range"}
                                 THEN "done" ELSE "routing"]
      /\ UNCHANGED <<approvalVars, input, who, heard, asked>>
  BY DEF resolve_pending_choice_reply
<1>2. acted' = IF how # "one" THEN acted
               ELSE acted \cup {[list |-> list, by |-> m, late |-> turn[i] - list.turn]}
  BY DEF resolve_pending_choice_reply
<1>3. /\ i \in Person /\ list \in Offer /\ turn[i] \in Nat
      /\ goal[m] = input[m].text /\ goal[m] \in Text /\ pc[m] = "new"
  BY <1>1 DEF Placed, ChannelsTypeOK, Arriving
<1>4. \/ /\ how = "one" /\ list.fresh /\ text \in Text
         /\ text.word \in {"!approve", "!deny", "!switch"}
         /\ list.kind = "approval" => text.id = list.id
      \/ how \in {"none", "ambiguous", "out of range"} /\ text = goal[m]
  BY <1>1, AnswerIsOption
<1>5. /\ list.fresh => list.turn = turn[i]
      /\ list.kind = "approval" => list.id \in raised /\ asked[list.id] = i
      /\ list.turn \in Nat
  BY <1>3 DEF Offered, Offer
<1>6. NoList \in Offer /\ ~NoList.fresh /\ NoList.kind = "none"
  BY DEF NoList, Offer, Kind, Name
<1> HIDE DEF i, list, how, text
<1>7. /\ goal' \in [Message -> Text] /\ goal'[m] = text
      /\ at' \in [Message -> Place] /\ at'[m] \in {"done", "routing"}
      /\ how = "one" => at'[m] = "routing"
      /\ \A n \in Message : n # m => goal'[n] = goal[n] /\ at'[n] = at[n]
  BY <1>1, <1>3, <1>4 DEF ChannelsTypeOK, Place, Elsewhere
<1>8. /\ turn' \in [Person -> Nat]
      /\ \A j \in Person : j # i => turn'[j] = turn[j]
      /\ turn'[i] = IF how = "ambiguous" THEN turn[i] ELSE turn[i] + 1
  <2>1. turn \in [Person -> Nat] /\ turn[i] + 1 \in Nat
    BY <1>3 DEF ChannelsTypeOK
  <2>2. turn' = IF how = "ambiguous" THEN turn ELSE [turn EXCEPT ![i] = turn[i] + 1]
    BY <1>1
  <2>3. CASE how = "ambiguous"
    BY <2>1, <2>2, <2>3
  <2>4. CASE how # "ambiguous"
    BY <1>3, <2>1, <2>2, <2>4
  <2> QED
    BY <2>3, <2>4
<1>9. /\ choices' \in [Person -> Offer]
      /\ \A j \in Person : j # i => choices'[j] = choices[j]
      /\ choices'[i] = IF how = "ambiguous" THEN choices[i] ELSE NoList
  BY <1>1, <1>3, <1>6 DEF ChannelsTypeOK
<1>10. PICK new \in [list : Offer, by : Message, late : Int] :
         /\ new = [list |-> list, by |-> m, late |-> turn[i] - list.turn]
         /\ new.list = list /\ new.by = m /\ new.late = turn[i] - list.turn
  <2>1. turn[i] - list.turn \in Int
    BY <1>3, <1>5
  <2> DEFINE r == [list |-> list, by |-> m, late |-> turn[i] - list.turn]
  <2>2. /\ r \in [list : Offer, by : Message, late : Int]
        /\ r.list = list /\ r.by = m /\ r.late = turn[i] - list.turn
    BY <1>3, <2>1
  <2>3. r = [list |-> list, by |-> m, late |-> turn[i] - list.turn]
    OBVIOUS
  <2> HIDE DEF r
  <2> QED
    BY <2>2, <2>3
<1>11. acted' = IF how # "one" THEN acted ELSE acted \cup {new}
  BY <1>2, <1>10
<1>12. ChannelsTypeOK'
  <2>1. acted' \subseteq [list : Offer, by : Message, late : Int]
    BY <1>10, <1>11 DEF ChannelsTypeOK
  <2> QED
    BY <1>1, <1>7, <1>8, <1>9, <2>1 DEF ChannelsTypeOK
<1>13. UNCHANGED <<pc, raised, chosen, verdict>>
  BY <1>1 DEF approvalVars
<1>14. Approvals'
  BY <1>1, ApprovalsKept
<1>15. Placed'
  BY <1>1, <1>3, <1>4, <1>7, <1>13 DEF Placed, Arriving, i
<1>16. Offered'
  BY <1>1, <1>6, <1>8, <1>9, <1>13 DEF Offered
<1>17. AgentsHearOnlyTheirs'
  BY <1>1 DEF AgentsHearOnlyTheirs
<1>18. \A n \in Message : at[n] \notin Arriving => n # m
  BY <1>1 DEF Arriving
<1>19. \A j \in Person : turn'[j] \in Nat /\ turn'[j] >= turn[j]
  BY <1>3, <1>8 DEF ChannelsTypeOK
<1>20. \A a \in acted : Acting(a)'
  BY <1>1, <1>7, <1>13, <1>18, <1>19, AnswersStay
<1>21. CASE how # "one"
  <2>1. UNCHANGED acted
    BY <1>11, <1>21
  <2>2. ActedOnce'
    BY <1>1, <2>1, OnceStays
  <2> QED
    BY <1>12, <1>14, <1>15, <1>16, <1>17, <1>20, <2>1, <2>2 DEF Answers
<1>22. CASE how = "one"
  <2>1. list.fresh /\ list.turn = turn[i] /\ turn'[i] = turn[i] + 1
    BY <1>4, <1>5, <1>8, <1>22
  <2>2. chosen[m] = NoId
    BY <1>3 DEF Approvals, Resolution
  <2>3. at'[m] = "routing" /\ (list.kind = "approval" => goal'[m].id = list.id)
    BY <1>4, <1>7, <1>22
  <2>4. who'[m] = i
    BY <1>1 DEF i
  <2>5. Acting(new)'
    <3>1. new.late = 0 /\ new.list.fresh /\ new.list.turn < turn'[i]
      BY <1>3, <1>10, <2>1
    <3>2. at'[new.by] \notin Arriving /\ who'[new.by] = i
      BY <1>10, <2>3, <2>4 DEF Arriving
    <3>3. new.list.kind = "approval" =>
            /\ new.list.id \in raised' /\ asked'[new.list.id] = i
            /\ goal'[new.by].id = new.list.id /\ chosen'[new.by] = NoId
      BY <1>1, <1>5, <1>10, <1>13, <2>2, <2>3
    <3> QED
      BY <1>3, <3>1, <3>2, <3>3 DEF Acting
  <2>6. \A a \in acted : ~(a.list = new.list /\ who'[a.by] = who'[new.by])
    <3> SUFFICES ASSUME NEW a \in acted, a.list = new.list, who'[a.by] = who'[new.by]
                 PROVE  FALSE
      OBVIOUS
    <3>1. Acting(a) /\ who[a.by] = i
      BY <1>1, <1>10, <2>4 DEF Answers
    <3>2. list.turn < turn[i]
      BY <1>10, <3>1 DEF Acting
    <3> QED
      BY <1>3, <2>1, <3>2
  <2>7. ActedOnce'
    BY <1>1, <1>11, <1>22, <2>6 DEF Answers, ActedOnce
  <2>8. \A a \in acted' : Acting(a)'
    BY <1>11, <1>20, <1>22, <2>5
  <2> QED
    BY <1>12, <1>14, <1>15, <1>16, <1>17, <2>7, <2>8 DEF Answers
<1> QED
  BY <1>21, <1>22

LEMMA ExpireStep ==
  ASSUME ChInv, NEW i \in Person, choice_expires(i)
  PROVE  ChInv'
<1> USE DEF ChInv, choice_expires
<1>1. choices[i] \in Offer
  BY DEF ChannelsTypeOK
<1> DEFINE list == [choices[i] EXCEPT !.fresh = FALSE]
<1>2. /\ list \in Offer /\ ~list.fresh
      /\ list.kind = choices[i].kind /\ list.id = choices[i].id
  BY <1>1 DEF Offer
<1>3. choices' = [choices EXCEPT ![i] = list]
  OBVIOUS
<1> HIDE DEF list
<1>4. /\ choices' \in [Person -> Offer] /\ choices'[i] = list
      /\ \A j \in Person : j # i => choices'[j] = choices[j]
  BY <1>2, <1>3 DEF ChannelsTypeOK
<1>5. ChannelsTypeOK'
  BY <1>4 DEF ChannelsTypeOK
<1>6. UNCHANGED <<pc, raised, chosen, verdict>>
  BY DEF approvalVars
<1>7. Approvals'
  BY ApprovalsKept
<1>8. Placed' /\ AgentsHearOnlyTheirs'
  BY <1>6 DEF Placed, AgentsHearOnlyTheirs
<1>9. Offered'
  BY <1>2, <1>4, <1>6 DEF Offered
<1>10. Answers'
  BY <1>6 DEF Answers, Acting, ActedOnce
<1> QED
  BY <1>5, <1>7, <1>8, <1>9, <1>10

-----------------------------------------------------------------------------
(* Commands.                                                               *)

LEMMA OfferStep ==
  ASSUME ChInv, NEW m \in Message, offer_choices(m)
  PROVE  ChInv'
<1>1. /\ at[m] = "routing" /\ at' = [at EXCEPT ![m] = "done"]
      /\ UNCHANGED <<approvalVars, input, who, goal, turn, acted, heard, asked>>
      /\ goal[m].word \in Kind /\ goal[m].word # "approval" /\ NoId \in Name
  BY DEF offer_choices, Goes, To, Kind, Name, ListRequest
<1>2. CASE record_pending_choices(who[m], goal[m].word, NoId)
  BY <1>1, <1>2, RecordStep DEF Arriving
<1>3. CASE UNCHANGED choices
  BY <1>1, <1>3, MoveStep DEF Arriving, Elsewhere
<1> QED
  BY <1>2, <1>3 DEF offer_choices

LEMMA SessionsListedStep ==
  ASSUME ChInv, NEW m \in Message, sessions_listed(m)
  PROVE  ChInv'
<1>1. /\ at[m] = "listing" /\ at' = [at EXCEPT ![m] = "done"]
      /\ UNCHANGED <<approvalVars, input, who, goal, turn, acted, heard, asked>>
      /\ NoId \in Name /\ "!sessions" \in Kind
  BY DEF sessions_listed, To, Kind, Name
<1>2. CASE record_pending_choices(who[m], "!sessions", NoId)
  BY <1>1, <1>2, RecordStep DEF Arriving
<1>3. CASE UNCHANGED choices
  BY <1>1, <1>3, MoveStep DEF Arriving, Elsewhere
<1> QED
  BY <1>2, <1>3 DEF sessions_listed, active_sessions_message

\* What is answered without the lists, the agents or the approvals.
LEMMA LocalStep ==
  ASSUME ChInv, NEW m \in Message,
         \/ answer_command(m) \/ cmd_status_for_identity(m) \/ handle_sessions(m)
         \/ handle_secure(m) \/ secure_input(m) \/ scan_agent_response(m)
         \/ approval_request_text(m)
  PROVE  ChInv'
<1>1. \E w \in Elsewhere : at' = [at EXCEPT ![m] = w]
  BY DEF answer_command, cmd_status_for_identity, handle_sessions, handle_secure,
         secure_input, scan_agent_response, approval_request_text, Goes, To, Elsewhere
<1>2. /\ at[m] \notin Arriving \cup {"dropped"}
      /\ UNCHANGED <<approvalVars, input, who, goal, choices, turn, acted, heard, asked>>
  BY DEF answer_command, cmd_status_for_identity, handle_sessions, handle_secure,
         secure_input, scan_agent_response, approval_request_text, Goes, Arriving
<1> QED
  BY <1>1, <1>2, MoveStep

\* !approve and !deny: an answer to a list decides the approval of that list.
LEMMA AsyncStep ==
  ASSUME ChInv, NEW m \in Message, handle_async(m)
  PROVE  ChInv'
<1> USE DEF ChInv
<1> DEFINE v == IF goal[m].word = "!approve" THEN "approve" ELSE "deny"
           id == goal[m].id
<1>1. /\ at[m] = "routing" /\ resolve(m, v, id)
      /\ at' = [at EXCEPT ![m] = IF pc'[m] = "refused" THEN "done" ELSE "deciding"]
      /\ UNCHANGED <<input, who, goal, choices, turn, acted, heard, asked>>
  BY DEF handle_async, Goes, To
<1>2. v \in {"approve", "deny"} /\ id \in Name
  BY DEF ChannelsTypeOK, Text
<1> HIDE DEF v
<1>3. /\ Approvals' /\ UNCHANGED raised
      /\ \A n \in Message : n # m =>
           pc'[n] = pc[n] /\ chosen'[n] = chosen[n] /\ verdict'[n] = verdict[n]
      /\ pc'[m] # "new" /\ verdict'[m] = v
      /\ chosen'[m] # NoId /\ v = "approve" => id \in {chosen'[m], NoId}
  BY <1>1, <1>2, ResolveKeeps
<1>4. /\ at' \in [Message -> Place] /\ at'[m] \in {"done", "deciding"}
      /\ \A n \in Message : n # m => at'[n] = at[n]
  BY <1>1 DEF ChannelsTypeOK, Place, Elsewhere
<1>5. ChannelsTypeOK'
  BY <1>1, <1>4 DEF ChannelsTypeOK
<1>6. Placed'
  BY <1>1, <1>3, <1>4 DEF Placed, Arriving
<1>7. Offered' /\ AgentsHearOnlyTheirs'
  BY <1>1, <1>3 DEF Offered, AgentsHearOnlyTheirs
<1>8. \A n \in Message : at[n] \notin Arriving =>
        /\ at'[n] \notin Arriving
        /\ at'[n] = "routing" => at[n] = "routing"
        /\ \/ chosen'[n] = chosen[n] /\ verdict'[n] = verdict[n]
           \/ /\ at[n] = "routing"
              /\ chosen'[n] # NoId /\ verdict'[n] = "approve" =>
                   goal[n].id \in {chosen'[n], NoId}
  BY <1>1, <1>3, <1>4 DEF Arriving
<1>9. \A i \in Person : turn'[i] \in Nat /\ turn'[i] >= turn[i]
  BY <1>1 DEF ChannelsTypeOK
<1>10. \A a \in acted' : Acting(a)'
  BY <1>1, <1>3, <1>8, <1>9, AnswersStay
<1>11. ActedOnce'
  BY <1>1, OnceStays
<1> QED
  BY <1>3, <1>5, <1>6, <1>7, <1>10, <1>11 DEF Answers

\* The decision is sent and the entry removed; nothing of the lists changes.
LEMMA ApproveStep ==
  ASSUME ChInv, NEW m \in Message, at[m] # "new", handle_approve(m)
  PROVE  ChInv'
<1> USE DEF ChInv
<1>1. /\ Approvals' /\ UNCHANGED <<raised, chosen, verdict>>
      /\ pc[m] \notin {"new", "refused"}
      /\ \A n \in Message : n # m => pc'[n] = pc[n]
  <2>1. CASE send_approval_decision(m)
    BY <2>1, DeliverKeeps DEF send_approval_decision, Approvals, ApprovalsTypeOK
  <2>2. CASE send_fails(m)
    BY <2>2, DeliverKeeps DEF send_fails, Approvals, ApprovalsTypeOK
  <2>3. CASE remove_pending(m)
    BY <2>3, RemoveKeeps DEF remove_pending, Approvals, ApprovalsTypeOK
  <2>4. CASE poll_result(m)
    BY <2>4, PollKeeps DEF poll_result, Approvals, ApprovalsTypeOK
  <2> QED
    BY <2>1, <2>2, <2>3, <2>4 DEF handle_approve
<1>2. /\ UNCHANGED <<input, who, goal, choices, turn, acted, heard, asked>>
      /\ at' \in {at, [at EXCEPT ![m] = "done"]}
  BY DEF handle_approve, handlerVars, To
<1>3. at[m] \notin Arriving \cup {"routing"}
  BY <1>1 DEF Placed
<1>4. /\ at' \in [Message -> Place] /\ at'[m] \in {at[m], "done"}
      /\ \A n \in Message : n # m => at'[n] = at[n]
  BY <1>2 DEF ChannelsTypeOK, Place, Elsewhere
<1>5. ChannelsTypeOK'
  BY <1>2, <1>4 DEF ChannelsTypeOK
<1>6. who[m] \in Person
  BY <1>1 DEF Placed
<1>7. Placed'
  BY <1>1, <1>2, <1>3, <1>4, <1>6 DEF Placed, Arriving
<1>8. Offered' /\ AgentsHearOnlyTheirs'
  BY <1>1, <1>2 DEF Offered, AgentsHearOnlyTheirs
<1>9. \A n \in Message : at[n] \notin Arriving =>
        at'[n] \notin Arriving /\ (at'[n] = "routing" => at[n] = "routing")
  BY <1>4 DEF Arriving
<1>10. \A i \in Person : turn'[i] \in Nat /\ turn'[i] >= turn[i]
  BY <1>2 DEF ChannelsTypeOK
<1>11. \A a \in acted' : Acting(a)'
  BY <1>1, <1>2, <1>9, <1>10, AnswersStay
<1>12. ActedOnce'
  BY <1>2, OnceStays
<1> QED
  BY <1>1, <1>5, <1>7, <1>8, <1>11, <1>12 DEF Answers

-----------------------------------------------------------------------------
(* Agents.                                                                 *)

\* What is said to an agent is what was typed, as answers to lists are
\* commands.
LEMMA DispatchStep ==
  ASSUME ChInv, NEW m \in Message, dispatch_message(m)
  PROVE  ChInv'
<1>1. /\ at[m] = "routing" /\ goal[m].word \notin KnownWord
      /\ UNCHANGED <<approvalVars, input, who, goal, choices, turn, acted, asked>>
  BY DEF dispatch_message, is_command
<1>2. input[m].text.word # "!secret set"
  BY <1>1 DEF ChInv, Placed, KnownWord, LocalWord
<1>3. CASE who[m] \in Routed
  <2>1. at' = [at EXCEPT ![m] = "asking"] /\ Hears(m, NoId)
    BY <1>3 DEF dispatch_message, To
  <2> QED
    BY <1>1, <1>2, <1>3, <2>1, HearStep
<1>4. CASE who[m] \notin Routed
  <2>1. at' = [at EXCEPT ![m] = "dropped"] /\ UNCHANGED heard
    BY <1>4 DEF dispatch_message, To
  <2> QED
    BY <1>1, <2>1, MoveStep DEF Arriving, Elsewhere
<1> QED
  BY <1>3, <1>4

LEMMA OneOffStep ==
  ASSUME ChInv, NEW m \in Message, dispatch_one_off(m)
  PROVE  ChInv'
<1> DEFINE agent == parse_btw_command(m)
<1>1. /\ at[m] = "routing" /\ goal[m].word = "!btw"
      /\ UNCHANGED <<approvalVars, input, who, goal, choices, turn, acted, asked>>
  BY DEF dispatch_one_off, Goes
<1>2. input[m].text.word # "!secret set"
  BY <1>1 DEF ChInv, Placed
<1>3. CASE agent # NoId
  <2>1. at' = [at EXCEPT ![m] = "asking once"] /\ Hears(m, agent)
    BY <1>3 DEF dispatch_one_off, To
  <2>2. agent \in allowed_agents(who[m])
    BY <1>3 DEF parse_btw_command
  <2>3. /\ who[m] \in Routed
        /\ AllowedAgents[who[m]] = {} \/ agent \in AllowedAgents[who[m]]
    BY <2>2 DEF allowed_agents
  <2> HIDE DEF agent
  <2> QED
    BY <1>1, <1>2, <2>1, <2>3, HearStep
<1>4. CASE agent = NoId
  <2>1. at' = [at EXCEPT ![m] = "done"] /\ UNCHANGED heard
    BY <1>4 DEF dispatch_one_off, To
  <2> QED
    BY <1>1, <2>1, MoveStep DEF Arriving, Elsewhere
<1> QED
  BY <1>3, <1>4

\* A paused agent's request is a new one, asked of the identity it paused on.
LEMMA PendingStep ==
  ASSUME ChInv, NEW m \in Message, approval_pending(m)
  PROVE  ChInv'
<1> USE DEF ChInv
<1>1. PICK id \in Id \ raised :
        /\ register_pending_approval(id)
        /\ asked' = [asked EXCEPT ![id] = who[m]]
        /\ goal' = [goal EXCEPT ![m].id = id]
  <2>1. raised # Id /\ raised \subseteq Id
    BY DEF approval_pending, Approvals, ApprovalsTypeOK
  <2>2. (CHOOSE i \in Id \ raised : TRUE) \in Id \ raised
    BY <2>1
  <2> QED
    BY <2>2 DEF approval_pending
<1>2. /\ at[m] = "asking" /\ at' = [at EXCEPT ![m] = "notifying"]
      /\ UNCHANGED <<input, who, choices, turn, acted, heard>>
  BY DEF approval_pending, To
<1>3. Approvals'
  BY <1>1, RegisterKeeps
<1>4. raised' = raised \cup {id} /\ UNCHANGED <<pc, chosen, verdict>>
  BY <1>1 DEF register_pending_approval
<1>5. who[m] \in Person /\ goal[m] \in Text /\ id \in Name
  BY <1>2 DEF Placed, ChannelsTypeOK, Name
<1>6. /\ goal' \in [Message -> Text] /\ goal'[m].id = id
      /\ \A n \in Message : n # m => goal'[n] = goal[n]
  BY <1>1, <1>5 DEF ChannelsTypeOK, Text
<1>7. /\ asked' \in [Id -> Person \cup {NoOne}] /\ asked'[id] = who[m]
      /\ \A j \in raised : asked'[j] = asked[j]
  BY <1>1, <1>5 DEF ChannelsTypeOK, Approvals, ApprovalsTypeOK
<1>8. /\ at' \in [Message -> Place] /\ at'[m] = "notifying"
      /\ \A n \in Message : n # m => at'[n] = at[n]
  BY <1>2 DEF ChannelsTypeOK, Place
<1>9. ChannelsTypeOK'
  BY <1>2, <1>6, <1>7, <1>8 DEF ChannelsTypeOK
<1>10. Placed'
  BY <1>2, <1>4, <1>5, <1>6, <1>7, <1>8 DEF Placed, Arriving
<1>11. Offered' /\ AgentsHearOnlyTheirs'
  BY <1>2, <1>4, <1>7 DEF Offered, AgentsHearOnlyTheirs
<1>12. \A n \in Message : at[n] \notin Arriving =>
         /\ at'[n] \notin Arriving
         /\ at'[n] = "routing" => at[n] = "routing" /\ goal'[n] = goal[n]
  BY <1>6, <1>8 DEF Arriving
<1>13. \A i \in Person : turn'[i] \in Nat /\ turn'[i] >= turn[i]
  BY <1>2 DEF ChannelsTypeOK
<1>14. \A a \in acted' : Acting(a)'
  BY <1>2, <1>4, <1>7, <1>12, <1>13, AnswersStay
<1>15. ActedOnce'
  BY <1>2, OnceStays
<1> QED
  BY <1>3, <1>9, <1>10, <1>11, <1>14, <1>15 DEF Answers

LEMMA RequestStep ==
  ASSUME ChInv, NEW m \in Message, approval_request_message(m)
  PROVE  ChInv'
<1>1. /\ at[m] = "notifying" /\ at' = [at EXCEPT ![m] = "done"]
      /\ record_pending_choices(who[m], "approval", goal[m].id)
      /\ UNCHANGED <<approvalVars, input, who, goal, turn, acted, heard, asked>>
  BY DEF approval_request_message, To
<1>2. goal[m].id \in raised /\ asked[goal[m].id] = who[m]
  BY <1>1 DEF ChInv, Placed
<1>3. goal[m].id \in Name /\ "approval" \in Kind
  BY DEF ChInv, ChannelsTypeOK, Text, Kind
<1> QED
  BY <1>1, <1>2, <1>3, RecordStep DEF Arriving

-----------------------------------------------------------------------------
(* The channels.                                                           *)

LEMMA HandlerStep ==
  ASSUME ChInv, NEW m \in Message, at[m] # "new",
         \/ Scan(m) \/ Lists(m) \/ Commands(m) \/ Asks(m)
         \/ approval_request_message(m) \/ approval_request_text(m)
  PROVE  ChInv'
<1>1. CASE Scan(m)
  BY <1>1, ScanMessageStep DEF Scan
<1>2. CASE Lists(m)
  BY <1>2, ReplyStep, OfferStep DEF Lists
<1>3. CASE Commands(m)
  BY <1>3, LocalStep, SessionsListedStep, AsyncStep, ApproveStep DEF Commands
<1>4. CASE Asks(m)
  BY <1>4, DispatchStep, OneOffStep, LocalStep, PendingStep DEF Asks
<1>5. CASE approval_request_message(m)
  BY <1>5, RequestStep
<1>6. CASE approval_request_text(m)
  BY <1>6, LocalStep
<1> QED
  BY <1>1, <1>2, <1>3, <1>4, <1>5, <1>6

LEMMA NextChInv == ChInv /\ [Next]_vars => ChInv'
<1> SUFFICES ASSUME ChInv, [Next]_vars PROVE ChInv'
  OBVIOUS
<1>1. ASSUME NEW m \in Message, Telegram(m) PROVE ChInv'
  <2>1. CASE telegram_message(m)
    BY <2>1, ReceiveStep, AliasIsPerson DEF telegram_message
  <2>2. CASE handle_callback_query(m)
    BY <2>2, CallbackStep
  <2>3. CASE telegram_choices(m) \/ telegram_commands(m) \/ telegram_asks(m)
    BY <2>3, HandlerStep DEF telegram_choices, telegram_commands, telegram_asks, On
  <2> QED
    BY <1>1, <2>1, <2>2, <2>3 DEF Telegram
<1>2. ASSUME NEW m \in Message, Matrix(m) PROVE ChInv'
  <2>1. CASE matrix_message(m)
    BY <2>1, ReceiveStep, AliasIsPerson DEF matrix_message
  <2>2. CASE matrix_choices(m) \/ matrix_commands(m) \/ matrix_asks(m)
    BY <2>2, HandlerStep DEF matrix_choices, matrix_commands, matrix_asks, On
  <2> QED
    BY <1>2, <2>1, <2>2 DEF Matrix
<1>3. ASSUME NEW m \in Message, WhatsApp(m) PROVE ChInv'
  <2>1. CASE whatsapp_message(m)
    <3>1. ("whatsapp" \in ScansMessages) \in BOOLEAN
      OBVIOUS
    <3> QED
      BY <2>1, <3>1, ReceiveStep, AliasIsPerson DEF whatsapp_message
  <2>2. CASE whatsapp_choices(m) \/ whatsapp_commands(m) \/ whatsapp_asks(m)
    BY <2>2, HandlerStep DEF whatsapp_choices, whatsapp_commands, whatsapp_asks, On
  <2> QED
    BY <1>3, <2>1, <2>2 DEF WhatsApp
<1>4. ASSUME NEW m \in Message, Signal(m) PROVE ChInv'
  <2>1. CASE signal_message(m)
    <3>1. ("signal" \in ScansMessages) \in BOOLEAN
      OBVIOUS
    <3> QED
      BY <2>1, <3>1, ReceiveStep, AliasIsPerson DEF signal_message
  <2>2. CASE signal_choices(m) \/ signal_commands(m) \/ signal_asks(m)
    BY <2>2, HandlerStep DEF signal_choices, signal_commands, signal_asks, On
  <2> QED
    BY <1>4, <2>1, <2>2 DEF Signal
<1>5. ASSUME NEW m \in Message, Sms(m) PROVE ChInv'
  <2>1. CASE sms_message(m)
    <3>1. ("sms" \in ScansMessages) \in BOOLEAN
      OBVIOUS
    <3> QED
      BY <2>1, <3>1, ReceiveStep, AliasIsPerson DEF sms_message
  <2>2. CASE sms_choices(m) \/ sms_commands(m) \/ sms_asks(m)
    BY <2>2, HandlerStep DEF sms_choices, sms_commands, sms_asks, On
  <2> QED
    BY <1>5, <2>1, <2>2 DEF Sms
<1>6. ASSUME NEW m \in Message, Mock(m) PROVE ChInv'
  <2>1. CASE mock_message(m)
    BY <2>1, ReceiveStep, AliasIsPerson DEF mock_message
  <2>2. CASE mock_choices(m) \/ mock_commands(m) \/ mock_asks(m)
    BY <2>2, HandlerStep DEF mock_choices, mock_commands, mock_asks, On
  <2> QED
    BY <1>6, <2>1, <2>2 DEF Mock
<1>7. ASSUME NEW i \in DOMAIN choices, choice_expires(i) PROVE ChInv'
  <2>1. i \in Person
    BY DEF ChInv, ChannelsTypeOK
  <2> QED
    BY <1>7, <2>1, ExpireStep
<1>8. CASE UNCHANGED vars
  <2>1. Approvals'
    BY <1>8, ApprovalsKept DEF vars, ChInv
  <2>2. UNCHANGED <<pc, raised, chosen, verdict>>
    BY <1>8 DEF vars, approvalVars
  <2> USE <1>8 DEF vars, handlerVars, ChInv
  <2>3. ChannelsTypeOK' /\ Placed' /\ Offered'
    BY <2>2 DEF ChannelsTypeOK, Placed, Offered
  <2>4. Answers' /\ AgentsHearOnlyTheirs'
    BY <2>2 DEF Answers, Acting, ActedOnce, AgentsHearOnlyTheirs
  <2> QED
    BY <2>1, <2>3, <2>4
<1> QED
  BY <1>1, <1>2, <1>3, <1>4, <1>5, <1>6, <1>7, <1>8 DEF Next

\* Tasks, lists and approvals stay within the inductive invariant.
THEOREM ChannelsInvariant == Spec => []ChInv
BY InitChInv, NextChInv, PTL DEF Spec

\* An answer acts on a list of choices only if nothing else was said since
\* the list was offered, no list is acted on twice, and a list of an approval
\* approves the request it was shown for, for the identity whose message the
\* agent paused on (resolve_pending_choice_reply, record_pending_choices).
THEOREM StrayNumbersAreInert == Spec => []StrayNumbersInert
BY ChannelsInvariant, ChInvStray, PTL

\* No agent is given a secret typed into a chat, the text of a sender without
\* a routing rule, or a !btw that the sender's rule does not allow it
\* (dispatch_message, dispatch_one_off, handle_secure).
THEOREM AgentsHearTheirs == Spec => []AgentsHearOnlyTheirs
<1>1. ChInv => AgentsHearOnlyTheirs
  BY DEF ChInv
<1> QED
  BY <1>1, ChannelsInvariant, PTL

\* An approval leaves the map only once the gateway has decided it, and the
\* decision was asked for by a command that resolved to that very request
\* (handle_approve, send_approval_decision).
THEOREM DecisionsAreRequested == Spec => []DecidedOnRequest
<1>1. ChInv => DecidedOnRequest
  BY DEF ChInv, Approvals
<1> QED
  BY <1>1, ChannelsInvariant, PTL
=============================================================================
