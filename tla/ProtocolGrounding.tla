-------------------------- MODULE ProtocolGrounding --------------------------
(* Discovery and planning on their own, from the bootstrap of an attempt to  *)
(* the stage of implementation or the end: an instance large enough for      *)
(* several criteria, files, questions and candidate plans.                   *)
EXTENDS ProtocolPlanning

vars == <<graphVars, discovery, planning>>

Init == GraphInit /\ DiscoveryInit /\ PlanningInit

Grounded == stage \in {"Implementation", "Terminal"}

Step ==
    \/ DiscoveryNext /\ UNCHANGED planning
    \/ PlanningNext
    \/ CallLifecycle /\ UNCHANGED <<discovery, planning>>

Done == (Grounded \/ Wedged) /\ UNCHANGED vars

Next == Step \/ Done

Spec == Init /\ [][Next]_vars

\* A call that is repeated reaches the provider in the end.
Sent == Dispatch /\ UNCHANGED <<discovery, planning>>
Contacted ==
    /\ \E cost \in CallCosts : Consume(cost)
    /\ UNCHANGED <<discovery, planning>>

FairSpec == Spec /\ WF_vars(Step) /\ SF_vars(Sent) /\ SF_vars(Contacted)
-----------------------------------------------------------------------------
\* Type invariant of the stages up to planning.
TypeOK == GraphTypeOK /\ DiscoveryTypeOK /\ PlanningTypeOK

\* Rejected actions, lost calls, partial maps and refused plans do not keep an
\* attempt in discovery and planning forever: unless the convergence that
\* decide() asks for is refused (DiscoveryConcludes), it goes on or ends.
GroundingEnds == <>(Grounded \/ Wedged)

\* protocol.md: discovery without useful evidence or legal convergence "yields
\* a typed blocked outcome".  decide() may ask for one that append_event()
\* refuses, as often as it is asked.
DiscoveryConcludes == stage = "Discovery" ~> stage # "Discovery"
=============================================================================
