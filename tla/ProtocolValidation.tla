------------------------- MODULE ProtocolValidation --------------------------
(* Validation and repair: the gates run in order on the revision of the      *)
(* attempt; a gate that fails is diagnosed, one file is repaired, what had   *)
(* passed is invalidated, and the gate that failed is the first to run again *)
(* (src/src/execution_protocol/validation.rs and reducer.rs).                *)
EXTENDS ProtocolMutation

CONSTANTS
    Gates,          \* the commands of the policy that must pass
    GateOrder,      \* gate_order
    GateNode,       \* the validation node that owns a gate
    MaxRuns         \* max_runs of a gate

\* A check has a focused gate of its own; the broad gates follow all of these,
\* on the node of the last: those of a node are next to each other in the order
\* (build_validation_gates, validation.rs:473).
ASSUME ValidationAssumption ==
    /\ MaxRuns \in Nat \ {0} /\ "None" \notin Gates
    /\ GateNode \in [Gates -> CheckNodes]
    /\ GateOrder \in [1 .. Cardinality(Gates) -> Gates]
    /\ \A g \in Gates : \E i \in DOMAIN GateOrder : GateOrder[i] = g
    /\ \A n \in CheckNodes : \E g \in Gates : GateNode[g] = n
    /\ \A i, j, k \in DOMAIN GateOrder :
         i < j /\ j < k /\ GateNode[GateOrder[i]] = GateNode[GateOrder[k]] =>
           GateNode[GateOrder[j]] = GateNode[GateOrder[i]]

VARIABLE validation
    \* revision     the revision the evidence below is about
    \* runs         runs of every gate, whatever their revision
    \* run          the run of the next gate, at this revision
    \* evidence     current_evidence_by_gate: an outcome and its revision
    \* failure      active_failure, by its gate
    \* repair       how far the repair of that failure is
    \* repairer     its repair node
    \* origin       the gate the last repair has to satisfy
    \* rerun        whether that gate has yet to pass
    \* convergence

Runs == {"None", "Scheduled", "Started", "Exited", "Canceled", "Infrastructure"}
RepairSteps == {"None", "Ranked", "Evaluated", "NoTarget", "Selected", "Invalidated"}

Evidence == [outcome : {"None", "Passed", "Failed"}, revision : Nat]

ValidationTypeOK ==
    validation \in [revision : Nat, runs : [Gates -> 0 .. MaxRuns], run : Runs,
                    evidence : [Gates -> Evidence],
                    failure : Gates \cup {"None"}, repair : RepairSteps,
                    repairer : Repairs \cup {"None"},
                    origin : Gates \cup {"None"}, rerun : BOOLEAN,
                    convergence : {"None", "NoValidRepair", "GateRunBudget",
                                   "Infrastructure", "Canceled"}]

NoEvidence == [g \in Gates |-> [outcome |-> "None", revision |-> 0]]

ValidationInit ==
    validation = [revision |-> 0, runs |-> [g \in Gates |-> 0], run |-> "None",
                  evidence |-> NoEvidence, failure |-> "None", repair |-> "None",
                  repairer |-> "None", origin |-> "None", rerun |-> FALSE,
                  convergence |-> "None"]

\* The gates are bound to the revision implementation ended with.
ValidationEnters == validation' = [validation EXCEPT !.revision = revision]
-----------------------------------------------------------------------------
(* Gates.                                                                    *)

Pass(of) == [outcome |-> "Passed", revision |-> of]
NeedsPass(g) == validation.evidence[g] # Pass(validation.revision)
Earliest(S) == {g \in S : \E i \in DOMAIN GateOrder :
                  GateOrder[i] = g /\ \A j \in 1 .. i - 1 : GateOrder[j] \notin S}

\* Mutant: after the gate of a repair the gates run in order.
NextGateInOrder ==
    IF validation.failure # "None" \/ validation.convergence # "None" THEN {}
    ELSE IF validation.rerun THEN {validation.origin}
    ELSE Earliest({g \in Gates : NeedsPass(g)})

\* The gate that runs next, in a set of at most one: the gate of a repair,
\* then the other gates of its node, then the gates in order.
NextGate ==
    LET open   == {g \in Gates : NeedsPass(g)}
        beside == {g \in open : validation.origin # "None"
                                /\ GateNode[g] = GateNode[validation.origin]}
    IN  IF validation.failure # "None" \/ validation.convergence # "None" THEN {}
        ELSE IF validation.rerun THEN {validation.origin}
        ELSE IF beside # {} THEN Earliest(beside) ELSE Earliest(open)

Validating == stage = "Validation" /\ validation.convergence = "None"
Owns(n, g) == Active(n) /\ n = GateNode[g] /\ g \in NextGate

GateNodeStarts ==
    /\ Validating
    /\ \E g \in NextGate : Start(GateNode[g])
    /\ UNCHANGED validation

\* The current run of the gate that is next goes from one state to another.
RunAdvances(g, from, to) ==
    /\ Validating
    /\ Owns(GateNode[g], g)
    /\ validation.run = from
    /\ validation' = [validation EXCEPT !.run = to]
    /\ UNCHANGED graphVars

\* There is no run of the gate at this revision, nor was there one that is judged.
Unrun(g) ==
    /\ validation.run = "None"
    /\ validation.evidence[g].outcome # "None" =>
         validation.evidence[g].revision # validation.revision

ValidationScheduled ==
    /\ \E g \in NextGate :
         /\ Validating /\ Owns(GateNode[g], g)
         /\ Unrun(g)
         /\ validation.runs[g] < MaxRuns
         /\ validation' = [validation EXCEPT !.run = "Scheduled", !.runs[g] = @ + 1]
    /\ UNCHANGED graphVars

ProcessStarted == \E g \in NextGate : RunAdvances(g, "Scheduled", "Started")

\* A process that was never started can only have failed on the way.
ProcessCompleted ==
    \E g \in NextGate :
      \/ RunAdvances(g, "Started", "Exited")
      \/ \E from \in {"Scheduled", "Started"}, to \in {"Canceled", "Infrastructure"} :
           RunAdvances(g, from, to)

EvidenceRecorded ==
    /\ \E g \in NextGate, outcome \in {"Passed", "Failed"} :
         /\ Validating /\ Owns(GateNode[g], g)
         /\ validation.run = "Exited"
         /\ validation' = [validation EXCEPT
              !.run = "None",
              !.evidence[g] = [outcome |-> outcome, revision |-> validation.revision],
              !.rerun = @ /\ ~(outcome = "Passed" /\ g = validation.origin)]
    /\ UNCHANGED graphVars

FailureRecorded ==
    /\ Validating
    /\ \E g \in Gates :
         /\ Active(GateNode[g])
         /\ validation.failure = "None"
         /\ validation.evidence[g].outcome = "Failed"
         /\ validation' = [validation EXCEPT !.failure = g, !.rerun = FALSE,
                             !.repair = "None", !.repairer = "None"]
    /\ UNCHANGED graphVars

\* One gate cannot run again, or its last run did not end as a process does.
GateConverges ==
    /\ \E g \in NextGate :
         /\ Validating /\ Owns(GateNode[g], g)
         /\ \/ validation.run \in {"Canceled", "Infrastructure"}
            \/ Unrun(g) /\ validation.runs[g] >= MaxRuns
         /\ validation' = [validation EXCEPT !.convergence =
              IF validation.run = "None" THEN "GateRunBudget" ELSE validation.run]
    /\ UNCHANGED graphVars

\* All the gates of the active node passed, and none of them is next.
NodePassed(n) ==
    /\ Validating
    /\ Active(n) /\ n \in CheckNodes
    /\ \A g \in Gates : GateNode[g] = n => ~NeedsPass(g)
    /\ \A g \in NextGate : GateNode[g] # n

CheckProved ==
    /\ \E n \in CheckNodes :
         /\ NodePassed(n)
         /\ ~Proved("ValidationPassed", n)
         /\ Record("ValidationPassed", n)
    /\ UNCHANGED validation

CheckSucceeds ==
    /\ \E n \in CheckNodes : NodePassed(n) /\ Succeed(n)
    /\ UNCHANGED validation

\* The node of the failed gate, or of the run that converged.
CheckFails ==
    /\ stage = "Validation"
    /\ \E n \in CheckNodes :
         \/ validation.convergence # "None" /\ Fail(n, TRUE)
         \/ /\ validation.convergence = "None" /\ validation.failure # "None"
            /\ n = GateNode[validation.failure]
            /\ Fail(n, FALSE)
    /\ UNCHANGED validation

Diagnosed ==
    /\ Validating
    /\ validation.failure # "None"
    /\ node[GateNode[validation.failure]] = "FailedRecoverable"

FailureProved ==
    /\ Diagnosed
    /\ ~Proved("ValidationFailure", GateNode[validation.failure])
    /\ Record("ValidationFailure", GateNode[validation.failure])
    /\ UNCHANGED validation

RepairBegins ==
    /\ Diagnosed
    /\ Advance("Validation", "Repair")
    /\ UNCHANGED validation

AllPassed ==
    /\ Validating
    /\ NoneActive /\ NextGate = {} /\ validation.failure = "None"
    /\ ~validation.rerun
    /\ Succeeded(CheckNodes)

RequiredProved ==
    /\ AllPassed
    /\ ~Proved("RequiredValidationPassed", "None")
    /\ Record("RequiredValidationPassed", "None")
    /\ UNCHANGED validation

ReviewBegins ==
    /\ AllPassed
    /\ Advance("Validation", "Review")
    /\ UNCHANGED validation
-----------------------------------------------------------------------------
(* Repair.                                                                   *)

\* Before the repair is chosen, no node is active and no gate may be spent.
Choosing(step) ==
    /\ stage = "Repair" /\ NoneActive
    /\ validation.convergence = "None"
    /\ validation.failure # "None" /\ validation.repair = step
Spent == {g \in Gates : validation.runs[g] >= MaxRuns}

RepairStepped(from, to) ==
    /\ Choosing(from) /\ Spent = {}
    /\ validation' = [validation EXCEPT !.repair = to]
    /\ UNCHANGED graphVars

\* Only the file of the last verified change can be repaired: of the other
\* files nothing is known to hold at the revision that failed.
BaselineExists == \E p \in proofs : p.kind = "MutationVerified" /\ p.revision = revision

CandidatesRanked == RepairStepped("None", "Ranked")
EligibilityEvaluated ==
    \/ BaselineExists /\ RepairStepped("Ranked", "Evaluated")
    \/ RepairStepped("Ranked", "NoTarget")

\* The name of the node follows from the failure; Repairs holds enough of them.
TargetSelected ==
    /\ Choosing("Evaluated") /\ Spent = {}
    /\ Repairs \ Present(Repairs) # {}
    /\ LET r == CHOOSE r \in Repairs \ Present(Repairs) : TRUE
       IN  validation' = [validation EXCEPT !.repair = "Selected", !.repairer = r]
    /\ UNCHANGED graphVars

RepairConverges ==
    /\ \E step \in {"None", "Ranked", "Evaluated", "NoTarget"} : Choosing(step)
    /\ Spent # {} \/ validation.repair = "NoTarget"
    /\ validation' = [validation EXCEPT !.convergence =
                        IF Spent # {} THEN "GateRunBudget" ELSE "NoValidRepair"]
    /\ UNCHANGED graphVars

EligibilityProved ==
    /\ Choosing("Selected")
    /\ ~Proved("RepairEligibility", "None")
    /\ Record("RepairEligibility", "None")
    /\ UNCHANGED validation

\* Mutant: the node is added before its eligibility is proved.
RepairNodeAddedAtOnce ==
    /\ Choosing("Selected")
    /\ AddRepair(validation.repairer)
    /\ UNCHANGED validation

RepairNodeAdded ==
    /\ Choosing("Selected")
    /\ Proved("RepairEligibility", "None")
    /\ AddRepair(validation.repairer)
    /\ UNCHANGED validation

RepairNodeStarts ==
    /\ Choosing("Selected")
    /\ Start(validation.repairer)
    /\ UNCHANGED validation

\* A repair is proved a second time, as one, before its node succeeds.
RepairProved ==
    /\ \E r \in Repairs :
         /\ Mutating(r, "Prove")
         /\ Proved("MutationVerified", r) /\ ~Proved("RepairVerified", r)
         /\ Record("RepairVerified", r)
    /\ UNCHANGED validation

Repaired ==
    /\ stage = "Repair" /\ validation.failure # "None"
    /\ validation.repairer # "None"
    /\ node[validation.repairer] = "Succeeded"

\* The gates whose evidence no longer counts after the repair.
Invalidated == {g \in Gates : /\ validation.evidence[g].outcome # "None"
                              /\ validation.evidence[g].revision = validation.revision}
Reopened == [n \in NodeIds |->
               IF node[n] = "Succeeded" /\ \E g \in Invalidated : GateNode[g] = n
               THEN "Pending" ELSE node[n]]

\* A repair that was verified, and of whose failure there is evidence.
Invalidates ==
    /\ Repaired /\ validation.repair = "Selected"
    /\ validation.revision # revision
    /\ Invalidated # {}

\* Mutant: the evidence is invalidated, the nodes that rest on it are not.
OnlyEvidenceInvalidated ==
    /\ Invalidates
    /\ validation' = [validation EXCEPT !.repair = "Invalidated", !.run = "None",
                        !.revision = revision, !.evidence = NoEvidence]
    /\ UNCHANGED graphVars

\* Mutant: the gates stay bound to the revision before the repair.
InvalidatedInPlace ==
    /\ Invalidates
    /\ validation' = [validation EXCEPT !.repair = "Invalidated", !.run = "None",
                        !.evidence = NoEvidence]
    /\ node' = Reopened
    /\ UNCHANGED <<stage, revision, proofs, call, usage, result>>

\* Everything known of the revision before the repair no longer counts.
PriorInvalidated ==
    /\ Invalidates
    /\ validation' = [validation EXCEPT !.repair = "Invalidated", !.run = "None",
                        !.revision = revision, !.evidence = NoEvidence]
    /\ node' = Reopened
    /\ UNCHANGED <<stage, revision, proofs, call, usage, result>>

RerunScheduled ==
    /\ Repaired /\ validation.repair = "Invalidated"
    /\ validation' = [validation EXCEPT !.origin = validation.failure,
                        !.rerun = TRUE, !.failure = "None"]
    /\ UNCHANGED graphVars

RerunProved ==
    /\ stage = "Repair" /\ validation.rerun
    /\ ~Proved("ValidationRerunScheduled", "None")
    /\ Record("ValidationRerunScheduled", "None")
    /\ UNCHANGED validation

ValidationResumes ==
    /\ validation.rerun
    /\ Advance("Repair", "Validation")
    /\ UNCHANGED validation

ValidationFinishes ==
    /\ \/ /\ stage = "Repair"
          /\ \E r \in Repairs : node[r] = "FailedTerminal"
          /\ Finish(MutationOutcome("NoValidRepair"))
       \/ /\ stage \in {"Validation", "Repair"} /\ validation.convergence # "None"
          /\ Finish(CASE validation.convergence = "NoValidRepair" -> "NoValidRepair"
                      [] validation.convergence = "GateRunBudget" -> "BudgetBlocked"
                      [] validation.convergence = "Canceled" -> "Canceled"
                      [] OTHER -> "InfrastructureFailed")
    /\ UNCHANGED validation

ValidationNext ==
    \/ GateNodeStarts \/ ValidationScheduled \/ ProcessStarted \/ ProcessCompleted
    \/ EvidenceRecorded \/ FailureRecorded \/ GateConverges
    \/ CheckProved \/ CheckSucceeds \/ CheckFails
    \/ FailureProved \/ RepairBegins \/ RequiredProved
    \/ CandidatesRanked \/ EligibilityEvaluated \/ TargetSelected \/ RepairConverges
    \/ EligibilityProved \/ RepairNodeAdded \/ RepairProved
    \/ PriorInvalidated \/ RerunScheduled \/ RerunProved \/ ValidationResumes
    \/ ValidationFinishes
=============================================================================
