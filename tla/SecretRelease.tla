---------------------------- MODULE SecretRelease ----------------------------
(***************************************************************************)
(* What the security proxy promises about secrets, without saying how: a   *)
(* request releases a secret's value to a host only if, at some moment     *)
(* between its arrival and its release, the policy allowed that secret at  *)
(* that host, and only a secret that the identity behind it may use.       *)
(* Policies may change at any time.                                        *)
(***************************************************************************)
CONSTANTS Reqs, Secrets, Hosts

VARIABLES
  may,      \* pairs <<request, secret>> the access rules allow
  policy,   \* pairs <<secret, host>> the policy allows now
  window,   \* window[r]: pairs allowed at some moment since r arrived
  released  \* triples <<request, secret, host>> that went out

Pairs == Secrets \X Hosts

Init ==
  /\ may \in SUBSET (Reqs \X Secrets)
  /\ policy \in SUBSET Pairs
  /\ window = [r \in Reqs |-> {}]
  /\ released = {}

Arrive(r) ==
  /\ window[r] = {}
  /\ window' = [window EXCEPT ![r] = policy]
  /\ UNCHANGED <<may, policy, released>>

(* Requests that have not arrived keep their empty window.                 *)
ChangePolicy ==
  \E p \in SUBSET Pairs, arrived \in SUBSET Reqs :
    /\ policy' = p
    /\ window' = [r \in Reqs |-> IF r \in arrived THEN window[r] \cup p
                                 ELSE window[r]]
    /\ UNCHANGED <<may, released>>

Release(r) ==
  \E s \in SUBSET Secrets, h \in Hosts :
    /\ s \X {h} \subseteq window[r]
    /\ {r} \X s \subseteq may
    /\ released' = released \cup ({r} \X s \X {h})
    /\ UNCHANGED <<may, policy, window>>

Next == ChangePolicy \/ \E r \in Reqs : Arrive(r) \/ Release(r)

vars == <<may, policy, window, released>>

Spec == Init /\ [][Next]_vars
=============================================================================
