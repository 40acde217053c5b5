-------------------------- MODULE PendingApprovals --------------------------
(***************************************************************************)
(* !approve and !deny (calciforge, commands/approvals.rs).  A paused agent *)
(* leaves a pending approval in a map shared by all chats and identities.  *)
(* A command resolves the approval it is about under the map's lock, lets  *)
(* go of it, sends the decision to the agent's gateway, and only then      *)
(* removes the entry; several commands may be in between at once.          *)
(*                                                                         *)
(* The gateway is external: it accepts the first decision it gets for a    *)
(* request, and any call may fail before or after it took effect.          *)
(***************************************************************************)
EXTENDS Integers, FiniteSets

CONSTANTS
  Id,       \* approval request ids (uuids chosen by the gateway)
  Command,  \* the !approve and !deny messages
  NoId      \* no id given, or none chosen

ASSUME ApprovalsAssumption == NoId \notin Id

VARIABLES
  pending,   \* the ids in CommandHandler.pending_approvals
  pc,        \* command -> its task's position
  verdict,   \* command -> approve or deny, "none" before it arrives
  named,     \* command -> the first word after !approve or !deny
  chosen,    \* command -> the id it resolved to
  decision,  \* gateway, per id: the decision it acts on, or "none"
  raised     \* history: the ids that were ever registered

approvalVars == <<pending, pc, verdict, named, chosen, decision, raised>>

Position == {"new", "sending", "removing", "polling",
             "refused", "send_failed", "done"}

ApprovalsInit ==
  /\ pending = {}
  /\ pc = [c \in Command |-> "new"]
  /\ verdict = [c \in Command |-> "none"]
  /\ named = [c \in Command |-> NoId]
  /\ chosen = [c \in Command |-> NoId]
  /\ decision = [i \in Id |-> "none"]
  /\ raised = {}

\* A dispatch came back as ApprovalPending.
register_pending_approval(i) ==
  /\ i \notin raised
  /\ pending' = pending \cup {i}
  /\ raised' = raised \cup {i}
  /\ UNCHANGED <<pc, verdict, named, chosen, decision>>

\* The ids !approve may act on: the one named, or the only one there is.
resolve_pending_approval(id) ==
  IF id # NoId THEN pending \cap {id}
  ELSE IF Cardinality(pending) = 1 THEN pending ELSE {}

\* !deny takes a word that is no pending id for the start of the reason.
resolve_pending_denial(id) ==
  IF id \in pending THEN {id}
  ELSE IF Cardinality(pending) = 1 THEN pending ELSE {}

Resolved(v, id) ==
  IF v = "approve" THEN resolve_pending_approval(id)
                   ELSE resolve_pending_denial(id)

\* A command arrives, to approve or deny (v) the request with this id; it
\* finds its approval, or is answered with an explanation.
resolve(c, v, id) ==
  /\ pc[c] = "new"
  /\ verdict' = [verdict EXCEPT ![c] = v]
  /\ named' = [named EXCEPT ![c] = id]
  /\ \/ \E i \in Resolved(v, id) :
          /\ chosen' = [chosen EXCEPT ![c] = i]
          /\ pc' = [pc EXCEPT ![c] = "sending"]
     \/ /\ Resolved(v, id) = {}
        /\ pc' = [pc EXCEPT ![c] = "refused"]
        /\ UNCHANGED chosen
  /\ UNCHANGED <<pending, decision, raised>>

\* The gateway takes a decision for i unless it already has one.
Deliver(i, v) ==
  decision' = IF decision[i] = "none" THEN [decision EXCEPT ![i] = v]
                                      ELSE decision

\* send_approval_decision succeeds.
send_approval_decision(c) ==
  /\ pc[c] = "sending"
  /\ Deliver(chosen[c], verdict[c])
  /\ pc' = [pc EXCEPT ![c] = "removing"]
  /\ UNCHANGED <<pending, verdict, named, chosen, raised>>

\* Mutant: the entry goes whatever came of the call.
send_fails_Forgets(c) ==
  /\ pc[c] = "sending"
  /\ UNCHANGED decision \/ Deliver(chosen[c], verdict[c])
  /\ pc' = [pc EXCEPT ![c] = "send_failed"]
  /\ pending' = pending \ {chosen[c]}
  /\ UNCHANGED <<verdict, named, chosen, raised>>

\* It fails, before or after the gateway took the decision; the approval
\* stays pending.
send_fails(c) ==
  /\ pc[c] = "sending"
  /\ UNCHANGED decision \/ Deliver(chosen[c], verdict[c])
  /\ pc' = [pc EXCEPT ![c] = "send_failed"]
  /\ UNCHANGED <<pending, verdict, named, chosen, raised>>

\* Mutant: the result is not waited for, nor the task ended.
remove_pending_Waits(c) ==
  /\ pc[c] = "removing"
  /\ pending' = pending \ {chosen[c]}
  /\ UNCHANGED <<pc, verdict, named, chosen, decision, raised>>

\* The lock is taken again, and the entry removed.
remove_pending(c) ==
  /\ pc[c] = "removing"
  /\ pending' = pending \ {chosen[c]}
  /\ pc' = [pc EXCEPT ![c] = "polling"]
  /\ UNCHANGED <<verdict, named, chosen, decision, raised>>

\* poll_result ends, with the agent's answer or an error.
poll_result(c) ==
  /\ pc[c] = "polling"
  /\ pc' = [pc EXCEPT ![c] = "done"]
  /\ UNCHANGED <<pending, verdict, named, chosen, decision, raised>>

-----------------------------------------------------------------------------
(* Properties.                                                             *)

\* An approval leaves the map only once the gateway has a decision for it,
\* so a failed send can be repeated and no paused agent is forgotten.  And
\* whatever the gateway acts on was asked for by a command that resolved to
\* that request, with that verdict; an approval by name, or without one when
\* nothing else was pending.  (A denial may have named an id that is no
\* longer pending: its words are then taken for the reason.)
DecidedOnRequest ==
  /\ \A i \in raised \ pending : decision[i] # "none"
  /\ \A i \in Id : decision[i] # "none" =>
       \E c \in Command :
         /\ chosen[c] = i /\ verdict[c] = decision[i]
         /\ decision[i] = "approve" => named[c] \in {i, NoId}

\* Once the gateway has accepted its decision a command comes to an end,
\* and its approval is not offered again.
CommandsFinish ==
  \A c \in Command :
    pc[c] = "removing" ~> pc[c] = "done" /\ chosen[c] \notin pending
=============================================================================
