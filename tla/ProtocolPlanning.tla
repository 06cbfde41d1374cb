-------------------------- MODULE ProtocolPlanning ---------------------------
(* Planning: candidate plans are validated until one is accepted and becomes *)
(* a graph of nodes, or the budget is spent                                  *)
(* (src/src/execution_protocol/planning.rs and reducer.rs).                  *)
EXTENDS ProtocolPlan

VARIABLE planning
    \* latest       validation of the latest candidate
    \* plan         the targets of the accepted plan
    \* convergence  "None", "InsufficientEvidence", "BudgetBlocked"

Validations == {"None", "Accepted", "Rejected", "EvidenceGap"}

PlanningTypeOK ==
    /\ planning.latest \in Validations
    /\ planning.plan \in {<<>>} \cup [Targets -> PlannedTarget]
    /\ planning.convergence \in {"None", "InsufficientEvidence", "BudgetBlocked"}

PlanningInit == planning = [latest |-> "None", plan |-> <<>>, convergence |-> "None"]
-----------------------------------------------------------------------------
PlanningStarts ==
    /\ stage = "Planning"
    /\ Start("Planning")
    /\ UNCHANGED <<discovery, planning>>

PlanAccepted == planning.latest = "Accepted"

\* The point in planning at which decide() prepares an action or converges.
Unplanned ==
    /\ stage = "Planning" /\ Active("Planning")
    /\ call.state = "None"
    /\ ~PlanAccepted
    /\ planning.convergence = "None"

PlanningPrepares ==
    /\ Unplanned
    /\ Prepare("Planning")
    /\ UNCHANGED <<discovery, planning>>

PlanningObserves ==
    /\ stage = "Planning" /\ Active("Planning")
    /\ call.state = "Consumed"
    /\ Clear
    /\ UNCHANGED <<stage, node, revision, proofs, usage, result, discovery>>

CandidateRecorded ==
    /\ PlanningObserves
    /\ \E p \in Proposals :
         LET outcome == Validated(p) IN
         planning' = [planning EXCEPT
            !.latest = outcome,
            !.plan = IF outcome = "Accepted" THEN p.targets ELSE @]

PlanningRejects == PlanningObserves /\ UNCHANGED planning

PlanningReleases ==
    /\ stage = "Planning" /\ Active("Planning")
    /\ call.state = "Released"
    /\ Clear
    /\ UNCHANGED <<stage, node, revision, proofs, usage, result, discovery, planning>>

PlanningConverges ==
    /\ Unplanned
    /\ Exhausted("Planning")
    /\ planning' = [planning EXCEPT !.convergence =
                      IF planning.latest = "EvidenceGap" THEN "InsufficientEvidence"
                                                         ELSE "BudgetBlocked"]
    /\ UNCHANGED <<graphVars, discovery>>

PlanningFails ==
    /\ stage = "Planning" /\ Active("Planning")
    /\ planning.convergence # "None"
    /\ Fail("Planning", TRUE)
    /\ UNCHANGED <<discovery, planning>>

PlanProved ==
    /\ stage = "Planning" /\ Active("Planning") /\ call.state = "None"
    /\ PlanAccepted /\ ~Proved("PlanAccepted", "Planning")
    /\ Record("PlanAccepted", "Planning")
    /\ UNCHANGED <<discovery, planning>>

GraphMaterialized ==
    /\ Active("Planning") /\ PlanAccepted
    /\ AddPlan
    /\ UNCHANGED <<discovery, planning>>

\* The node succeeds with the graph of its plan.
PlanningSucceeds ==
    /\ stage = "Planning" /\ call.state = "None"
    /\ PlanAccepted /\ Present(Planned) = Planned
    /\ Succeed("Planning")
    /\ UNCHANGED <<discovery, planning>>

ImplementationBegins ==
    /\ node["Planning"] = "Succeeded" /\ PlanAccepted
    /\ Advance("Planning", "Implementation")
    /\ UNCHANGED <<discovery, planning>>

PlanningFinishes ==
    /\ stage = "Planning"
    /\ \/ /\ node["Planning"] = "FailedTerminal"
          /\ planning.convergence = "InsufficientEvidence"
          /\ Finish("InsufficientEvidence")
       \/ /\ node["Planning"] = "FailedTerminal"
          /\ planning.convergence = "BudgetBlocked" /\ Exhausted("Planning")
          /\ Finish("BudgetBlocked")
    /\ UNCHANGED <<discovery, planning>>

PlanningNext ==
    \/ PlanningStarts \/ PlanningPrepares \/ CandidateRecorded
    \/ PlanningRejects \/ PlanningReleases \/ PlanningConverges \/ PlanningFails
    \/ PlanProved \/ GraphMaterialized \/ PlanningSucceeds
    \/ ImplementationBegins \/ PlanningFinishes
-----------------------------------------------------------------------------
\* What the searches for a criterion found.
Found(c) ==
    UNION {discovery.searched[s] : s \in DOMAIN discovery.searched \cap ({c} \X Terms)}

\* A plan is asked for, and implemented, only when the evidence covers all the
\* criteria of the goal and no question that a read left is open; and what an
\* accepted plan changes was found by a search for a criterion it serves and
\* read to its end, whatever maps, reads and candidates came before
\* (evaluate_discovery_convergence in discovery.rs, validate_plan_candidate in
\* planning.rs, record_discovery_convergence in reducer.rs).
PlanRestsOnEvidence ==
    LET plan == planning.plan
    IN  /\ stage \in {"Planning", "Implementation"} =>
             /\ Covered(discovery.grounded) = Criteria
             /\ discovery.questions = {}
        /\ Present(Planned) # {} => DOMAIN plan = Targets
        /\ plan # <<>> =>
             \A c \in Criteria : \E t \in DOMAIN plan :
               c \in plan[t].criteria /\ plan[t].evidence \cap Found(c) # {}
        /\ \A t \in DOMAIN plan : plan[t].operation = "Modify" =>
             /\ plan[t].path \in discovery.whole
             /\ \E c \in plan[t].criteria : plan[t].path \in Found(c)
=============================================================================
