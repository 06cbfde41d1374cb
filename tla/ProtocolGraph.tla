---------------------------- MODULE ProtocolGraph ----------------------------
(* The state every stage of the execution protocol works on: the graph of    *)
(* nodes, the position, the recorded proofs, the one model call that may be  *)
(* open, and the budgets it is charged to                                    *)
(* (src/src/execution_protocol/reducer.rs and model.rs).                     *)
(*                                                                           *)
(* decide() proposes the next event and append_event() accepts or refuses    *)
(* it.  An operator named Can... is a guard of the second; the operators of  *)
(* this module state what the accepted event does.                           *)
(*                                                                           *)
(* Cost and duration are charged, reserved and limited by the same lines and *)
(* are one dimension here; token limits are checked against constants of the *)
(* request and are left out.                                                 *)
EXTENDS Integers, FiniteSets, FiniteSetsExt, Sequences

CONSTANTS
    Targets,            \* implementation nodes, one per change of the plan
    TargetsBefore,      \* the targets a target depends on
    CheckNodes,         \* validation nodes
    Repairs,            \* repair nodes, one per failure that is repaired
    CallLimit,          \* model calls of a node, and of the mission
    CostLimit,          \* cost (and duration) of a node, and of the mission
    CallCosts           \* what a call may turn out to cost

VARIABLES
    stage,              \* ProtocolPosition::stage
    node,               \* state of every node; "Absent" until it is added
    revision,           \* repository_revision; a revision is never met again
    proofs,             \* recorded proofs: kind, node and revision
    call,               \* the model action in progress
    usage,              \* BudgetUsage of the model nodes and of the mission
    result              \* the mission of the canonical result

graphVars == <<stage, node, revision, proofs, call, usage, result>>

Stages == {"Profiling", "Discovery", "Planning", "Implementation",
           "Validation", "Repair", "Review", "Publication", "Terminal"}

Final == {"Review", "CompletionEvaluation", "Publication"}
Planned == Targets \cup CheckNodes \cup Final
ModelNodes == {"Discovery", "Planning", "Review", "CompletionEvaluation"}
              \cup Targets \cup Repairs
NodeIds == ModelNodes \cup CheckNodes \cup {"Publication"}
Owners == ModelNodes \cup {"Mission"}

\* A node is named by the digest of what it is for and its kind: no two kinds
\* share a name.
ASSUME GraphAssumption ==
    /\ IsFiniteSet(Targets) /\ Targets # {}
    /\ IsFiniteSet(CheckNodes) /\ CheckNodes # {}
    /\ IsFiniteSet(Repairs) /\ Repairs # {}
    /\ Targets \cap CheckNodes = {} /\ Targets \cap Repairs = {}
    /\ CheckNodes \cap Repairs = {}
    /\ (Targets \cup CheckNodes \cup Repairs)
         \cap (Final \cup {"Discovery", "Planning", "Mission", "None"}) = {}
    /\ TargetsBefore \in [Targets -> SUBSET Targets]
    /\ CallLimit \in [Owners -> Nat \ {0}]
    /\ CostLimit \in [Owners -> Nat]
    /\ CallCosts \subseteq Nat /\ CallCosts \cap {0, 1} # {}

StageOf(n) ==
    CASE n \in Targets -> "Implementation"
      [] n \in CheckNodes -> "Validation"
      [] n \in Repairs -> "Repair"
      [] n = "CompletionEvaluation" -> "Review"
      [] OTHER -> n

Dependencies(n) ==
    CASE n \in Targets -> TargetsBefore[n]
      [] n \in CheckNodes -> Targets
      [] n = "Review" -> CheckNodes
      [] n = "CompletionEvaluation" -> {"Review"}
      [] n = "Publication" -> {"CompletionEvaluation"}
      [] OTHER -> {}

\* A node may also wait and resume: decide() asks for neither, the runner sends
\* neither.  No event makes a node Skipped or Superseded.
NodeStates == {"Absent", "Pending", "Ready", "Active", "Succeeded",
               "FailedRecoverable", "FailedTerminal"}
CallStates == {"None", "Prepared", "Admitted", "Reserved", "Dispatched",
               "Consumed", "Released"}
Outcomes == {"Succeeded", "SucceededNoOp", "PartialReviewable",
             "BlockedNoDiff", "NoValidRepair", "InsufficientEvidence",
             "ValidationFailed", "BudgetBlocked", "InfrastructureFailed",
             "Canceled", "PublicationFailed"}
ProofKinds == {"RepositoryProfile", "DiscoveryImpactMap", "PlanAccepted",
               "NoOpSatisfied", "MutationVerified", "ImplementationBarrier",
               "ValidationPassed", "ValidationFailure",
               "RequiredValidationPassed", "RepairEligibility",
               "RepairVerified", "ValidationRerunScheduled",
               "ReviewCompleted", "CompletionEvaluated",
               "PublicationEligibility", "PublicationCompleted"}

NoCall == [state |-> "None", node |-> "None", cost |-> 0]
Unused == [calls |-> 0, held |-> 0, cost |-> 0, heldCost |-> 0]

GraphTypeOK ==
    /\ stage \in Stages
    /\ node \in [NodeIds -> NodeStates]
    /\ revision \in Nat
    /\ proofs \subseteq [kind : ProofKinds, node : NodeIds \cup {"None"},
                         revision : Nat]
    /\ call \in [state : CallStates, node : ModelNodes \cup {"None"}, cost : Nat]
    /\ usage \in [Owners -> [calls : Nat, held : Nat, cost : Nat, heldCost : Nat]]
    /\ result \in Outcomes \cup {"None"}

GraphInit ==
    /\ stage = "Profiling"
    /\ node = [n \in NodeIds |->
                 IF n \in {"Discovery", "Planning"} THEN "Pending" ELSE "Absent"]
    /\ revision = 0
    /\ proofs = {}
    /\ call = NoCall
    /\ usage = [o \in Owners |-> Unused]
    /\ result = "None"
-----------------------------------------------------------------------------
(* Nodes.                                                                    *)

Succeeded(S) == \A n \in S : node[n] = "Succeeded"
Active(n) == node[n] = "Active"
NoneActive == \A n \in NodeIds : ~Active(n)
Present(S) == {n \in S : node[n] # "Absent"}

\* The stage's nodes that wait and whose dependencies are satisfied are ready.
Refreshed(state, in) ==
    [n \in NodeIds |->
       IF /\ StageOf(n) = in
          /\ \/ state[n] = "Pending"
             \/ n \in CheckNodes /\ state[n] = "FailedRecoverable"
          /\ \A d \in Dependencies(n) : state[d] = "Succeeded"
       THEN "Ready" ELSE state[n]]

CanStart(n) ==
    /\ NoneActive
    /\ StageOf(n) = stage
    /\ node[n] = "Ready"
    /\ Succeeded(Dependencies(n))

Start(n) ==
    /\ CanStart(n)
    /\ node' = [node EXCEPT ![n] = "Active"]
    /\ UNCHANGED <<stage, revision, proofs, call, usage, result>>

ProofOf(kind, n) == [kind |-> kind, node |-> n, revision |-> revision]
Proved(kind, n) == ProofOf(kind, n) \in proofs

Record(kind, n) ==
    /\ proofs' = proofs \cup {ProofOf(kind, n)}
    /\ UNCHANGED <<stage, node, revision, call, usage, result>>

SatisfyingProofs(n) ==
    CASE n = "Discovery" -> {"DiscoveryImpactMap"}
      [] n = "Planning" -> {"PlanAccepted", "NoOpSatisfied"}
      [] n \in Targets -> {"MutationVerified"}
      [] n \in CheckNodes -> {"ValidationPassed"}
      [] n \in Repairs -> {"RepairVerified"}
      [] n = "Review" -> {"ReviewCompleted"}
      [] n = "CompletionEvaluation" -> {"CompletionEvaluated"}
      [] n = "Publication" -> {"PublicationCompleted"}

OpenCall == call.state \in {"Admitted", "Reserved", "Dispatched"}

CanSucceed(n) ==
    /\ Active(n)
    /\ ~(OpenCall /\ call.node = n)
    /\ \E kind \in SatisfyingProofs(n) : Proved(kind, n)

Succeed(n) ==
    /\ CanSucceed(n)
    /\ node' = Refreshed([node EXCEPT ![n] = "Succeeded"], stage)
    /\ UNCHANGED <<stage, revision, proofs, call, usage, result>>

CanFail(n) == Active(n) /\ ~(OpenCall /\ call.node = n)

Fail(n, terminal) ==
    /\ CanFail(n)
    /\ node' = [node EXCEPT ![n] = IF terminal THEN "FailedTerminal"
                                               ELSE "FailedRecoverable"]
    /\ UNCHANGED <<stage, revision, proofs, call, usage, result>>

\* The accepted plan becomes nodes once.
AddPlan ==
    /\ stage = "Planning"
    /\ Proved("PlanAccepted", "Planning")
    /\ Present(Planned) = {}
    /\ node' = [n \in NodeIds |-> IF n \in Planned THEN "Pending" ELSE node[n]]
    /\ UNCHANGED <<stage, revision, proofs, call, usage, result>>

AddRepair(r) ==
    /\ stage = "Repair"
    /\ node[r] = "Absent"
    /\ node' = Refreshed([node EXCEPT ![r] = "Pending"], stage)
    /\ UNCHANGED <<stage, revision, proofs, call, usage, result>>
-----------------------------------------------------------------------------
(* Position.                                                                 *)

TransitionProof(from, to) ==
    CASE <<from, to>> = <<"Profiling", "Discovery">> -> "RepositoryProfile"
      [] <<from, to>> = <<"Discovery", "Planning">> -> "DiscoveryImpactMap"
      [] <<from, to>> = <<"Planning", "Implementation">> -> "PlanAccepted"
      [] <<from, to>> = <<"Implementation", "Validation">> -> "ImplementationBarrier"
      [] <<from, to>> = <<"Validation", "Repair">> -> "ValidationFailure"
      [] <<from, to>> = <<"Repair", "Validation">> -> "ValidationRerunScheduled"
      [] <<from, to>> = <<"Validation", "Review">> -> "RequiredValidationPassed"
      [] <<from, to>> = <<"Review", "Publication">> -> "PublicationEligibility"
      [] OTHER -> "None"

\* The node whose success the transition waits for.
PhaseOwner(from, to) ==
    CASE <<from, to>> = <<"Discovery", "Planning">> -> {"Discovery"}
      [] <<from, to>> = <<"Planning", "Implementation">> -> {"Planning"}
      [] <<from, to>> = <<"Repair", "Validation">> -> Present(Repairs)
      [] OTHER -> {}

CanAdvance(from, to) ==
    /\ stage = from
    /\ NoneActive /\ ~OpenCall
    /\ \E p \in proofs : p.kind = TransitionProof(from, to) /\ p.revision = revision
    /\ Succeeded(PhaseOwner(from, to))

\* Validation nodes that were ready wait again while a failure is repaired.
Advance(from, to) ==
    /\ CanAdvance(from, to)
    /\ stage' = to
    /\ LET parked == [n \in NodeIds |->
                        IF to = "Repair" /\ n \in CheckNodes /\ node[n] = "Ready"
                        THEN "Pending" ELSE node[n]]
       IN  node' = Refreshed(parked, to)
    /\ UNCHANGED <<revision, proofs, call, usage, result>>

\* The stages from which an outcome may be recorded.
OutcomeStages(outcome) ==
    CASE outcome \in {"Succeeded", "PartialReviewable", "PublicationFailed"}
                                        -> {"Publication"}
      [] outcome = "SucceededNoOp"      -> {"Planning"}
      [] outcome = "BlockedNoDiff"      -> {"Implementation", "Review"}
      [] outcome = "NoValidRepair"      -> {"Repair"}
      [] outcome = "InsufficientEvidence" -> {"Discovery", "Planning"}
      [] outcome = "ValidationFailed"   -> {"Validation", "Repair", "Review"}
      [] OTHER                          -> Stages \ {"Terminal"}

CanFinish(outcome) ==
    /\ result = "None"
    /\ NoneActive /\ ~OpenCall
    /\ stage \in OutcomeStages(outcome)

Finish(outcome) ==
    /\ CanFinish(outcome)
    /\ stage' = "Terminal"
    /\ result' = outcome
    /\ UNCHANGED <<node, revision, proofs, call, usage>>
-----------------------------------------------------------------------------
(* Budgets and the model call.                                               *)

CallsLeft(o) == CallLimit[o] - usage[o].calls - usage[o].held
CostLeft(o) == CostLimit[o] - usage[o].cost - usage[o].heldCost
Smaller(a, b) == IF a <= b THEN a ELSE b

\* What a node may still spend, the mission's rest counted.
NodeCallsLeft(n) == Smaller(CallsLeft(n), CallsLeft("Mission"))
Reservation(n) == Smaller(CostLeft(n), CostLeft("Mission"))
Exhausted(n) == NodeCallsLeft(n) = 0 \/ Reservation(n) = 0

HasCapacity(n, cost) ==
    \A o \in {n, "Mission"} : CallsLeft(o) >= 1 /\ CostLeft(o) >= cost

\* usage with the records of n and of the mission replaced by those of changed.
Charged(n, changed) ==
    [o \in Owners |-> IF o \in {n, "Mission"} THEN changed[o] ELSE usage[o]]

Holding(u) == [u EXCEPT !.held = @ + 1, !.heldCost = @ + call.cost]

\* Mutant: the call is given back, its reserved cost is not.
FreeingCall(u) == [u EXCEPT !.held = @ - 1]

Freeing(u) == [u EXCEPT !.held = @ - 1, !.heldCost = @ - call.cost]

\* An action is prepared with all that is left as its reservation.
Prepare(n) ==
    /\ call.state = "None"
    /\ Active(n) /\ ~Exhausted(n)
    /\ call' = [state |-> "Prepared", node |-> n, cost |-> Reservation(n)]
    /\ UNCHANGED <<stage, node, revision, proofs, usage, result>>

Admit ==
    /\ call.state = "Prepared"
    /\ Active(call.node)
    /\ HasCapacity(call.node, call.cost)
    /\ call' = [call EXCEPT !.state = "Admitted"]
    /\ UNCHANGED <<stage, node, revision, proofs, usage, result>>

Reserve ==
    /\ call.state = "Admitted"
    /\ Active(call.node)
    /\ HasCapacity(call.node, call.cost)
    /\ call' = [call EXCEPT !.state = "Reserved"]
    /\ usage' = Charged(call.node, [o \in Owners |-> Holding(usage[o])])
    /\ UNCHANGED <<stage, node, revision, proofs, result>>

Dispatch ==
    /\ call.state = "Reserved"
    /\ call' = [call EXCEPT !.state = "Dispatched"]
    /\ UNCHANGED <<stage, node, revision, proofs, usage, result>>

\* Mutant: only the cost of a call is charged.
ConsumeUncounted(cost) ==
    /\ call.state = "Dispatched"
    /\ cost <= call.cost
    /\ call' = [call EXCEPT !.state = "Consumed"]
    /\ usage' = Charged(call.node,
           [o \in Owners |-> [Freeing(usage[o]) EXCEPT !.cost = @ + cost]])
    /\ UNCHANGED <<stage, node, revision, proofs, result>>

\* The provider was contacted: the call counts, and its actual cost.
Consume(cost) ==
    /\ call.state = "Dispatched"
    /\ cost <= call.cost
    /\ call' = [call EXCEPT !.state = "Consumed"]
    /\ usage' = Charged(call.node,
           [o \in Owners |-> [Freeing(usage[o]) EXCEPT !.calls = @ + 1, !.cost = @ + cost]])
    /\ UNCHANGED <<stage, node, revision, proofs, result>>

\* The provider was not contacted: the reservation is given back.
Release ==
    /\ call.state \in {"Reserved", "Dispatched"}
    /\ call' = [call EXCEPT !.state = "Released"]
    /\ usage' = Charged(call.node, [o \in Owners |-> Freeing(usage[o])])
    /\ UNCHANGED <<stage, node, revision, proofs, result>>

\* The action is over: its result was recorded, or it was given up.
Clear == call' = NoCall

\* What happens to a call between the events of its stage.
CallLifecycle ==
    \/ Admit
    \/ Reserve
    \/ Dispatch
    \/ \E cost \in CallCosts : Consume(cost)
    \/ Release
-----------------------------------------------------------------------------
Total(field) == MapThenSumSet(LAMBDA n : usage[n][field], ModelNodes)

\* No order of admissions, reservations, dispatches, releases and consumptions
\* takes a node or the mission over its limits, the mission's account is the
\* sum of its nodes', and a call that is over holds nothing
\* (reserve_usage, release_usage, consume_usage in reducer.rs).
BudgetIsKept ==
    /\ \A o \in Owners : /\ usage[o].calls + usage[o].held <= CallLimit[o]
                         /\ usage[o].cost + usage[o].heldCost <= CostLimit[o]
    /\ \A f \in {"calls", "held", "cost", "heldCost"} : usage["Mission"][f] = Total(f)
    /\ usage["Mission"].held = IF call.state \in {"Reserved", "Dispatched"} THEN 1 ELSE 0
    /\ usage["Mission"].held = 0 => usage["Mission"].heldCost = 0
=============================================================================
