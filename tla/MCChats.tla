------------------------------ MODULE MCChats ------------------------------
(* What calciforge remembers of its chats, for TLC: the conversations        *)
(* (ChatDispatch) and the selections of identities (ActiveSelections).  They  *)
(* share no state; a behaviour moves one of them.                             *)
EXTENDS ChatDispatch, ActiveSelections, TLC

CONSTANT a1

VARIABLE part

\* The default agent of every identity.
MCDefault == [i \in Identity |-> a1]

Symmetric == Permutations(Command)

\* The part that does not move starts in one state only.
MCInit ==
  /\ Init /\ SelectionsInit
  /\ \/ part = "conversation" /\ allowed = [i \in Identity |-> Agents]
     \/ part = "selections" /\ active = [c \in Chat |-> a1]

MCNext ==
  /\ \/ part = "conversation" /\ Next /\ UNCHANGED selectionVars
     \/ part = "selections" /\ SelectionsNext /\ UNCHANGED vars
  /\ UNCHANGED part

MCSpec == MCInit /\ [][MCNext]_<<vars, selectionVars, part>>
=============================================================================
