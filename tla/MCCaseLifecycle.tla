-------------------------- MODULE MCCaseLifecycle --------------------------
(* Small instances of CaseLifecycle, Reports and Projections.             *)
EXTENDS Reports, Projections, TLC

CONSTANTS rh, lux \* parameter names

\* Three drafts ValidatePlan refuses (a blank text, no step, a step without
\* parameters), then plans of one step with two parameters and of two steps.
MCPlanBodies ==
    {[steps |-> <<{rh}>>, complete |-> FALSE],
     [steps |-> <<>>, complete |-> TRUE],
     [steps |-> <<{rh}, {}>>, complete |-> TRUE],
     [steps |-> <<{rh, lux}>>, complete |-> TRUE],
     [steps |-> <<{rh}, {lux}>>, complete |-> TRUE]}

Symmetry == Permutations(Regions) \cup Permutations(Actors)
=============================================================================
