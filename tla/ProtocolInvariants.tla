------------------------- MODULE ProtocolInvariants --------------------------
(* What append_event() requires of the aggregate before it looks at an event *)
(* and again after it has applied one: what the stages keep must belong      *)
(* together.  An aggregate that fails here accepts no event any more         *)
(* (validate_invariants in src/src/execution_protocol/reducer.rs).           *)
(*                                                                           *)
(* The code also replays its log and compares; here are the parts that bind  *)
(* the stages to each other, to the graph and to the revision.  Where the    *)
(* code has no state of a stage yet, the model has its initial one:          *)
(* PlanningInit and its like then say that there is none.                    *)
EXTENDS ProtocolPublication

BeforePlanning == {"Profiling", "Discovery"}
BeforeImplementation == BeforePlanning \cup {"Planning"}
BeforeValidation == BeforeImplementation \cup {"Implementation"}
BeforeReview == BeforeValidation \cup {"Validation", "Repair"}

\* An attempt may end in discovery only as its convergence says.
DiscoveryEnded ==
    <<result, discovery.convergence>> \in {<<"InsufficientEvidence", "Insufficient">>,
                                           <<"BudgetBlocked", "BudgetBlocked">>}

DiscoveryIsBound ==
    /\ stage # "Profiling" => discovery.profile = "Goal"
    /\ discovery.action.class # "None" => Active("Discovery") /\ call.node = "Discovery"
    /\ stage \notin BeforePlanning =>
         \/ discovery.convergence = "Accepted"
         \/ stage = "Terminal" /\ DiscoveryEnded

PlanningIsBound ==
    /\ stage \in BeforePlanning => PlanningInit
    /\ call.node = "Planning" => Active("Planning")
    /\ PlanAccepted /\ stage # "Planning" => Present(Planned) = Planned

ImplementationIsBound ==
    stage \notin BeforeImplementation \cup {"Terminal"} =>
        PlanAccepted /\ DOMAIN planning.plan = Targets
-----------------------------------------------------------------------------
(* The revision changes by a verified mutation and by drift that a stage     *)
(* adopts, and each time starts from what that stage was prepared on.        *)

MutationIsBound ==
    /\ stage \in BeforeImplementation => MutationInit
    /\ \A n \in Mutators : Active(n) =>
         CASE mutation.step = "Load" -> TRUE
           [] mutation.step = "Prove" -> revision = mutation.base + 1
           [] mutation.step = "Converged" /\ Drifted -> revision = mutation.base + 1
           [] OTHER -> revision = mutation.base

\* A repair was verified and what it repaired is still to be invalidated.
RepairHandoffPending ==
    /\ stage = "Repair"
    /\ validation.failure # "None" /\ validation.repair = "Selected"
    /\ \/ Mutating(validation.repairer, "Prove") /\ mutation.base = validation.revision
       \/ node[validation.repairer] = "Succeeded"
    /\ revision = validation.revision + 1

\* A repair gave up because of drift, and the attempt ends with what is there.
RepairDriftPending ==
    /\ stage \in {"Repair", "Terminal"}
    /\ validation.failure # "None" /\ validation.repair = "Selected"
    /\ node[validation.repairer] \in {"Active", "FailedTerminal"}
    /\ mutation.step = "Converged" /\ Drifted
    /\ mutation.reason \in {"RebuildUnavailable", "AttemptBudget", "RebuildBudget"}
    /\ mutation.base = validation.revision /\ revision = validation.revision + 1
    /\ stage = "Terminal" => result = MutationOutcome("NoValidRepair")

\* The same, of a review whose diff could not be built.
ReviewDriftPending ==
    /\ stage \in {"Review", "Terminal"}
    /\ review.request = "Diff"
    /\ review.failure = "Drift" /\ review.convergence = "Drift"
    /\ revision = review.revision + 1

ValidationIsBound ==
    /\ stage \in BeforeValidation => ValidationInit
    /\ stage \notin BeforeValidation \cup {"Terminal"} => ~ValidationInit
    /\ ~ValidationInit =>
         \/ validation.revision = revision
         \/ RepairHandoffPending \/ RepairDriftPending \/ ReviewDriftPending

\* The attempt ended after a review that did not stand in the way.
ReviewPublished == stage = "Terminal" /\ ~ReviewInit /\ review.convergence = "None"

\* The review is of the revision whose engineering is proved; a publication is
\* bound to what was reviewed, and there is none of a review that converged.
ReviewIsBound ==
    /\ stage \in BeforeReview => ReviewInit /\ PublicationInit
    /\ stage \in {"Review", "Publication"} => ~ReviewInit
    /\ ~ReviewInit =>
         \/ ReviewDriftPending
         \/ review.revision = revision /\ AncestryComplete
    /\ IF stage = "Publication" \/ ReviewPublished
       THEN /\ review.evaluated /\ review.authority /\ review.manifest # "None"
            /\ publication.trees \subseteq ReviewedTrees
       ELSE PublicationInit
-----------------------------------------------------------------------------
Eligible(n) == StageOf(n) = stage /\ Succeeded(Dependencies(n))

\* A rerun was scheduled and validation resumed for it.
Rerunning == stage = "Validation" /\ validation.rerun

\* One owner at most, of the stage; nodes that may start are ready, and no
\* others are; a node that succeeded has a proof of its own kind.
GraphIsSound ==
    /\ \A m, n \in NodeIds : Active(m) /\ Active(n) => m = n
    /\ \A n \in NodeIds :
         /\ Active(n) => Eligible(n)
         /\ node[n] = "Pending" => ~Eligible(n)
         /\ node[n] = "Ready" => Succeeded(Dependencies(n))
                                 /\ (Eligible(n) \/ stage = "Terminal")
         /\ n \in CheckNodes /\ Rerunning /\ Eligible(n) => node[n] # "FailedRecoverable"
         /\ node[n] = "Succeeded" =>
              \E p \in proofs : p.node = n /\ p.kind \in SatisfyingProofs(n)

Holds(n) == call.node = n /\ call.state \in {"Reserved", "Dispatched"}

\* An open call has an active owner, and what nodes hold is what is reserved.
BudgetsAgree ==
    /\ OpenCall => Active(call.node)
    /\ \A n \in ModelNodes :
         /\ usage[n].held = IF Holds(n) THEN 1 ELSE 0
         /\ usage[n].heldCost = IF Holds(n) THEN call.cost ELSE 0
    /\ \A o \in Owners : CallsLeft(o) >= 0 /\ CostLeft(o) >= 0

\* There is a result exactly at the end, and no work after it.
ResultIsCanonical ==
    /\ result # "None" <=> stage = "Terminal"
    /\ stage = "Terminal" => NoneActive /\ ~OpenCall

InvariantsHold ==
    /\ DiscoveryIsBound /\ PlanningIsBound
    /\ ImplementationIsBound /\ MutationIsBound
    /\ ValidationIsBound /\ ReviewIsBound
    /\ GraphIsSound /\ BudgetsAgree /\ ResultIsCanonical
=============================================================================
