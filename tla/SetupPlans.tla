----------------------------- MODULE SetupPlans -----------------------------
(* ModelPlans beside the modules of the configuration, whose names it       *)
(* shares: its state and constants under names of their own, and its        *)
(* invariants.                                                               *)

CONSTANTS PlanConfigs, Names, NameOrder, Sizes, Requested, PlanAgents

VARIABLES pconfig, pphase, manager, entries, next_rr_index, request, answer

Plans == INSTANCE ModelPlans WITH
           Configs <- PlanConfigs, Agents <- PlanAgents, config <- pconfig,
           phase <- pphase

planVars == <<pconfig, pphase, manager, entries, next_rr_index, request, answer>>

\* The models a request is sent to are those its name stands for
\* (plan_for_model) ...
PlanIsTheClosure == Plans!PlanIsTheClosure

\* ... and none of them is blocked (check_model_access_for_names).
BlockedNeverCalled == Plans!BlockedNeverCalled
=============================================================================
