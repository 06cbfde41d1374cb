---------------------- MODULE ExecutionProtocol_proofs -----------------------
(* What an execution attempt keeps to through all its stages, for any plan,  *)
(* gates, limits and budgets.                                                *)
EXTENDS ExecutionProtocolInductive, FiniteSetTheorems, WellFoundedInduction, TLAPS

-----------------------------------------------------------------------------
(* The nodes.                                                                *)

\* What a node is follows from its name.
LEMMA NodeKinds ==
  /\ \A n \in Targets : /\ n \in NodeIds /\ n \in ModelNodes /\ n \in Planned
                        /\ n \notin CheckNodes /\ n \notin Repairs
                        /\ n \notin Final \cup {"Discovery", "Planning", "Mission", "None"}
  /\ \A n \in CheckNodes : /\ n \in NodeIds /\ n \notin ModelNodes /\ n \in Planned
                           /\ n \notin Targets /\ n \notin Repairs
                           /\ n \notin Final \cup {"Discovery", "Planning", "Mission", "None"}
  /\ \A n \in Repairs : /\ n \in NodeIds /\ n \in ModelNodes /\ n \notin Planned
                        /\ n \notin Targets /\ n \notin CheckNodes
                        /\ n \notin Final \cup {"Discovery", "Planning", "Mission", "None"}
  /\ Final \cup {"Discovery", "Planning"} \subseteq NodeIds
  /\ "Publication" \notin ModelNodes
  /\ "Mission" \notin NodeIds /\ "None" \notin NodeIds
  BY GraphAssumption DEF NodeIds, ModelNodes, Planned, Final

\* The stage a node belongs to.
LEMMA NodeStages ==
  /\ \A n \in Targets : StageOf(n) = "Implementation"
  /\ \A n \in CheckNodes : StageOf(n) = "Validation"
  /\ \A n \in Repairs : StageOf(n) = "Repair"
  /\ StageOf("Discovery") = "Discovery" /\ StageOf("Planning") = "Planning"
  /\ StageOf("Review") = "Review" /\ StageOf("CompletionEvaluation") = "Review"
  /\ StageOf("Publication") = "Publication"
  BY NodeKinds DEF StageOf, Final

\* What a node waits for.
LEMMA NodeDependencies ==
  /\ \A n \in Targets : Dependencies(n) = TargetsBefore[n] /\ TargetsBefore[n] \subseteq Targets
  /\ \A n \in CheckNodes : Dependencies(n) = Targets
  /\ \A n \in Repairs : Dependencies(n) = {}
  /\ Dependencies("Discovery") = {} /\ Dependencies("Planning") = {}
  /\ Dependencies("Review") = CheckNodes
  /\ Dependencies("CompletionEvaluation") = {"Review"}
  /\ Dependencies("Publication") = {"CompletionEvaluation"}
  BY NodeKinds, GraphAssumption DEF Dependencies, Final

\* Every node is of one of the kinds.
LEMMA NodeCases ==
  ASSUME NEW n \in NodeIds
  PROVE  \/ n \in Targets \/ n \in CheckNodes \/ n \in Repairs
         \/ n = "Discovery" \/ n = "Planning" \/ n = "Review"
         \/ n = "CompletionEvaluation" \/ n = "Publication"
  BY DEF NodeIds, ModelNodes

\* A node depends on nodes, and of the nodes of a stage only some wait for
\* others of it.
LEMMA DependenciesAreNodes ==
  ASSUME NEW n \in NodeIds
  PROVE  Dependencies(n) \subseteq NodeIds
  BY NodeCases, NodeDependencies, NodeKinds DEF Final

\* No call is in progress while no node is active, nor once the owner of the
\* call has what it asked for.
LEMMA NoCallWithoutOwner ==
    ASSUME GraphFollows, NoneActive
    PROVE  call = NoCall
  BY NodeKinds DEF GraphFollows, CallFollows, NoneActive, NodeIds

LEMMA NoCallOfOthers ==
    ASSUME GraphFollows, NEW n \in NodeIds, Active(n), call.state # "None"
    PROVE  call.node = n
  BY NodeKinds DEF GraphFollows, CallFollows, OneOwner, NodeIds

-----------------------------------------------------------------------------
(* Every step is one of them.                                                *)

LEMMA MovesMeans ==
  /\ \A n \in NodeIds : Starts(n) => Moves
  /\ \A kind \in ProofKinds, n \in NodeIds \cup {"None"} : Records(kind, n) => Moves
  /\ \A n \in NodeIds : Succeeds(n) => Moves
  /\ \A n \in NodeIds, terminal \in BOOLEAN : Fails(n, terminal) => Moves
  /\ AddsPlan => Moves
  /\ \A r \in Repairs : AddsRepair(r) => Moves
  /\ \A from, to \in Stages : Advances(from, to) /\ <<from, to>> \in Passages => Moves
  /\ \A outcome \in Outcomes : Finishes(outcome) => Moves
  /\ Reopens \/ StageMoves => Moves
  <1>1. \A from, to \in Stages : Advances(from, to) /\ <<from, to>> \in Passages =>
           \E p \in Passages : Advances(p[1], p[2])
    <2> TAKE from, to \in Stages
    <2>1. <<from, to>>[1] = from /\ <<from, to>>[2] = to
      OBVIOUS
    <2> QED
      BY <2>1
  <1> QED
    BY <1>1 DEF Moves, GraphMoves

LEMMA DiscoverySteps ==
    ASSUME IInv, DiscoveryNext,
           UNCHANGED <<planning, mutation, validation, review, publication>>
    PROVE  Moves
  <1>1. GraphFollows /\ stage \in Stages
    BY DEF IInv, GraphTypeOK
  <1>2. ASSUME ProfileProved PROVE Moves
    <2>1. Records("RepositoryProfile", "None")
      BY <1>2 DEF ProfileProved, Records
    <2> QED
      BY <2>1, MovesMeans DEF ProofKinds
  <1>3. ASSUME DiscoveryBegins PROVE Moves
    <2>1. NoneActive /\ stage = "Profiling"
      BY <1>3 DEF DiscoveryBegins, Advance, CanAdvance
    <2>2. Advances("Profiling", "Discovery")
      BY <1>1, <1>3, <2>1, NoCallWithoutOwner DEF DiscoveryBegins, Advances
    <2> QED
      BY <2>2, MovesMeans DEF Passages, Stages
  <1>4. ASSUME DiscoveryStarts PROVE Moves
    <2>1. NoneActive
      BY <1>4 DEF DiscoveryStarts, Start, CanStart
    <2>2. Starts("Discovery")
      BY <1>1, <1>4, <2>1, NoCallWithoutOwner, NodeKinds DEF DiscoveryStarts, Starts, Mutators
    <2> QED
      BY <2>2, MovesMeans, NodeKinds
  <1>5. ASSUME DiscoveryProved PROVE Moves
    <2>1. Records("DiscoveryImpactMap", "Discovery")
      BY <1>5 DEF DiscoveryProved, Records
    <2> QED
      BY <2>1, MovesMeans, NodeKinds DEF ProofKinds
  <1>6. ASSUME DiscoverySucceeds PROVE Moves
    <2>1. call = NoCall
      BY <1>1, <1>6 DEF DiscoverySucceeds, Converged, GraphFollows, CallFollows
    <2>2. Succeeds("Discovery")
      BY <1>6, <2>1, NodeKinds DEF DiscoverySucceeds, Converged, Succeeds, Mutators
    <2> QED
      BY <2>2, MovesMeans, NodeKinds
  <1>7. ASSUME DiscoveryFails PROVE Moves
    <2>1. call = NoCall
      BY <1>1, <1>7 DEF DiscoveryFails, Converged, GraphFollows, CallFollows
    <2>2. Fails("Discovery", TRUE)
      BY <1>7, <2>1, NodeKinds DEF DiscoveryFails, Converged, Fails, Mutators
    <2> QED
      BY <2>2, MovesMeans, NodeKinds
  <1>8. ASSUME PlanningBegins PROVE Moves
    <2>1. NoneActive
      BY <1>8 DEF PlanningBegins, Advance, CanAdvance
    <2>2. Advances("Discovery", "Planning")
      BY <1>1, <1>8, <2>1, NoCallWithoutOwner DEF PlanningBegins, Advances
    <2> QED
      BY <2>2, MovesMeans DEF Passages, Stages
  <1>9. ASSUME DiscoveryFinishes PROVE Moves
    <2>1. NoneActive /\ stage = "Discovery"
      BY <1>9 DEF DiscoveryFinishes, Finish, CanFinish
    <2>2. Finishes("InsufficientEvidence") \/ Finishes("BudgetBlocked")
      BY <1>1, <1>9, <2>1, NoCallWithoutOwner DEF DiscoveryFinishes, Finishes
    <2> QED
      BY <2>2, MovesMeans DEF Outcomes
  <1> QED
    BY <1>2, <1>3, <1>4, <1>5, <1>6, <1>7, <1>8, <1>9, MovesMeans
       DEF DiscoveryNext, DiscoveryMoves, StageMoves

LEMMA PlanningSteps ==
    ASSUME IInv, PlanningNext,
           UNCHANGED <<mutation, validation, review, publication>>
    PROVE  Moves
  <1>1. GraphFollows /\ stage \in Stages
    BY DEF IInv, GraphTypeOK
  <1>2. ASSUME PlanningStarts PROVE Moves
    <2>1. NoneActive
      BY <1>2 DEF PlanningStarts, Start, CanStart
    <2>2. Starts("Planning")
      BY <1>1, <1>2, <2>1, NoCallWithoutOwner, NodeKinds DEF PlanningStarts, Starts, Mutators
    <2> QED
      BY <2>2, MovesMeans, NodeKinds
  <1>3. ASSUME PlanningFails PROVE Moves
    <2>1. call.state = "None"
      BY <1>1, <1>3, NoCallOfOthers, NodeKinds DEF PlanningFails, GraphFollows, CallFollows
    <2>2. call = NoCall
      BY <1>1, <2>1 DEF GraphFollows, CallFollows
    <2>3. Fails("Planning", TRUE)
      BY <1>3, <2>2, NodeKinds DEF PlanningFails, Fails, Mutators
    <2> QED
      BY <2>3, MovesMeans, NodeKinds
  <1>4. ASSUME PlanProved PROVE Moves
    <2>1. Records("PlanAccepted", "Planning")
      BY <1>4 DEF PlanProved, Records
    <2> QED
      BY <2>1, MovesMeans, NodeKinds DEF ProofKinds
  <1>5. ASSUME GraphMaterialized PROVE Moves
    <2>1. AddsPlan
      BY <1>5 DEF GraphMaterialized, AddsPlan
    <2> QED
      BY <2>1, MovesMeans
  <1>6. ASSUME PlanningSucceeds PROVE Moves
    <2>1. call = NoCall
      BY <1>1, <1>6 DEF PlanningSucceeds, GraphFollows, CallFollows
    <2>2. Succeeds("Planning")
      BY <1>6, <2>1, NodeKinds DEF PlanningSucceeds, Succeeds, Mutators
    <2> QED
      BY <2>2, MovesMeans, NodeKinds
  <1>7. ASSUME ImplementationBegins PROVE Moves
    <2>1. NoneActive
      BY <1>7 DEF ImplementationBegins, Advance, CanAdvance
    <2>2. Advances("Planning", "Implementation")
      BY <1>1, <1>7, <2>1, NoCallWithoutOwner DEF ImplementationBegins, Advances
    <2> QED
      BY <2>2, MovesMeans DEF Passages, Stages
  <1>8. ASSUME PlanningFinishes PROVE Moves
    <2>1. NoneActive /\ stage = "Planning"
      BY <1>8 DEF PlanningFinishes, Finish, CanFinish
    <2>2. Finishes("InsufficientEvidence") \/ Finishes("BudgetBlocked")
      BY <1>1, <1>8, <2>1, NoCallWithoutOwner DEF PlanningFinishes, Finishes
    <2> QED
      BY <2>2, MovesMeans DEF Outcomes
  <1>9. ASSUME \/ PlanningPrepares \/ CandidateRecorded
               \/ PlanningRejects \/ PlanningReleases \/ PlanningConverges
        PROVE  Moves
    <2>1. UNCHANGED discovery
      BY <1>9 DEF PlanningPrepares, CandidateRecorded, PlanningRejects, PlanningReleases,
                  PlanningConverges, PlanningObserves
    <2> QED
      BY <1>9, <2>1, MovesMeans DEF PlanningMoves, StageMoves
  <1> QED
    BY <1>2, <1>3, <1>4, <1>5, <1>6, <1>7, <1>8, <1>9 DEF PlanningNext

\* Why a mutation failed never makes it a success.
LEMMA MutationOutcomes ==
    ASSUME NEW blocked \in Outcomes \ {"Succeeded", "PartialReviewable"}
    PROVE  MutationOutcome(blocked) \in Outcomes \ {"Succeeded", "PartialReviewable"}
  BY DEF MutationOutcome, Outcomes

LEMMA NextGateIsGate ==
    ASSUME ValidationFollows
    PROVE  NextGate \subseteq Gates
  BY DEF NextGate, Earliest, ValidationFollows, EvidenceFollows

LEMMA ImplementationSteps ==
    ASSUME IInv, ImplementationNext,
           UNCHANGED <<discovery, planning, validation, review, publication>>
    PROVE  Moves
  <1>1. GraphFollows /\ stage \in Stages
    BY DEF IInv, GraphTypeOK
  <1>2. ASSUME NEW n \in Targets, TargetStarts(n) PROVE Moves
    <2>1. NoneActive
      BY <1>2 DEF TargetStarts, Start, CanStart
    <2>2. Starts(n)
      BY <1>1, <1>2, <2>1, NoCallWithoutOwner, NodeKinds
         DEF TargetStarts, Starts, Mutators, Final
    <2> QED
      BY <2>2, MovesMeans, NodeKinds
  <1>3. ASSUME NEW n \in Mutators, MutationFails(n) \/ MutationSucceeds(n)
        PROVE  Moves
    <2>1. n \in NodeIds /\ Active(n) /\ mutation.step # "Act"
      BY <1>3, NodeKinds DEF MutationFails, MutationSucceeds, Mutating, Mutators
    <2>2. call = NoCall
      BY <1>1, <1>3, <2>1, NoCallOfOthers DEF GraphFollows, CallFollows
    <2>3. CASE MutationFails(n)
      <3>1. Fails(n, TRUE)
        BY <1>3, <2>2, <2>3, NodeKinds DEF MutationFails, Fails, Mutators, Mutating
      <3> QED
        BY <2>1, <3>1, MovesMeans
    <2>4. CASE MutationSucceeds(n)
      <3>1. Succeeds(n)
        BY <1>3, <2>2, <2>4, NodeKinds
           DEF MutationSucceeds, Succeeds, Mutators, Mutating, Final
      <3> QED
        BY <2>1, <3>1, MovesMeans
    <2> QED
      BY <1>3, <2>3, <2>4
  <1>4. ASSUME NEW n \in Mutators, MutationProved(n) PROVE Moves
    <2>1. n \in NodeIds
      BY <1>4, NodeKinds DEF Mutators
    <2>2. Records("MutationVerified", n)
      BY <1>4 DEF MutationProved, Records
    <2> QED
      BY <2>1, <2>2, MovesMeans DEF ProofKinds
  <1>5. ASSUME BarrierProved PROVE Moves
    <2>1. Records("ImplementationBarrier", "None")
      BY <1>5 DEF BarrierProved, Records
    <2> QED
      BY <2>1, MovesMeans DEF ProofKinds
  <1>6. ASSUME ImplementationFinishes PROVE Moves
    <2>1. NoneActive /\ stage = "Implementation"
      BY <1>6 DEF ImplementationFinishes, Finish, CanFinish
    <2> DEFINE outcome == MutationOutcome("BlockedNoDiff")
    <2>2. outcome \in Outcomes \ {"Succeeded", "PartialReviewable"}
      BY MutationOutcomes DEF Outcomes
    <2>3. Finish(outcome) /\ UNCHANGED mutation
      BY <1>6 DEF ImplementationFinishes
    <2> HIDE DEF outcome
    <2>4. Finishes(outcome)
      BY <1>1, <2>1, <2>2, <2>3, NoCallWithoutOwner DEF Finishes
    <2> QED
      BY <2>2, <2>4, MovesMeans
  <1>7. ASSUME NEW n \in Mutators,
               \/ ContextPrepared(n) \/ FeasibilityEvaluated(n) \/ PolicySelected(n)
               \/ ActionPrepared(n) \/ ActionReleased(n)
               \/ MutationCandidate(n) \/ ActionRejected(n) \/ AttemptFailed(n)
               \/ ApplicationObserved(n) \/ AttemptRetried(n)
               \/ MutationVerified(n) \/ ContextSuperseded(n) \/ MutationConverges(n)
        PROVE  Moves
    BY <1>7, MovesMeans DEF MutationMoves, StageMoves
  <1> QED
    BY <1>2, <1>3, <1>4, <1>5, <1>6, <1>7 DEF ImplementationNext, MutationStep

LEMMA ValidationSteps ==
    ASSUME IInv, ValidationNext,
           UNCHANGED <<discovery, planning, mutation, review, publication>>
    PROVE  Moves
  <1>1. GraphFollows /\ stage \in Stages /\ ValidationFollows
    BY DEF IInv, GraphTypeOK
  <1>2. /\ NextGate \subseteq Gates
        /\ validation.failure # "None" => validation.failure \in Gates
        /\ \A g \in Gates : GateNode[g] \in CheckNodes
    BY <1>1, NextGateIsGate, ValidationAssumption DEF ValidationFollows, ValidationTypeOK
  <1>3. ASSUME GateNodeStarts PROVE Moves
    <2>1. PICK g \in NextGate : Start(GateNode[g])
      BY <1>3 DEF GateNodeStarts
    <2>2. NoneActive
      BY <2>1 DEF Start, CanStart
    <2>3. GateNode[g] \in CheckNodes
      BY <1>2
    <2>4. Starts(GateNode[g])
      BY <1>1, <1>3, <2>1, <2>2, <2>3, NoCallWithoutOwner, NodeKinds
         DEF GateNodeStarts, Starts, Mutators, Final
    <2> QED
      BY <2>3, <2>4, MovesMeans, NodeKinds
  <1>4. ASSUME CheckProved PROVE Moves
    <2>1. PICK n \in CheckNodes : Record("ValidationPassed", n)
      BY <1>4 DEF CheckProved
    <2>2. Records("ValidationPassed", n)
      BY <1>4, <2>1 DEF CheckProved, Records
    <2> QED
      BY <2>2, MovesMeans, NodeKinds DEF ProofKinds
  <1>5. ASSUME CheckSucceeds PROVE Moves
    <2>1. PICK n \in CheckNodes : NodePassed(n) /\ Succeed(n)
      BY <1>5 DEF CheckSucceeds
    <2>2. n \in NodeIds /\ Active(n) /\ n \notin ModelNodes
      BY <2>1, NodeKinds DEF Succeed, CanSucceed
    <2>3. call = NoCall
      BY <1>1, <2>2, NoCallOfOthers DEF GraphFollows, CallFollows
    <2>4. Succeeds(n)
      BY <1>5, <2>1, <2>3, NodeKinds DEF CheckSucceeds, Succeeds, Mutators, Final
    <2> QED
      BY <2>2, <2>4, MovesMeans
  <1>6. ASSUME CheckFails PROVE Moves
    <2>1. PICK n \in CheckNodes, terminal \in BOOLEAN :
            Fail(n, terminal) /\ (~terminal => validation.failure # "None")
      BY <1>6 DEF CheckFails
    <2>2. n \in NodeIds /\ Active(n) /\ n \notin ModelNodes
      BY <2>1, NodeKinds DEF Fail, CanFail
    <2>3. call = NoCall
      BY <1>1, <2>2, NoCallOfOthers DEF GraphFollows, CallFollows
    <2>4. Fails(n, terminal)
      BY <1>1, <1>6, <2>1, <2>3, NodeKinds
         DEF CheckFails, Fails, Mutators, ValidationFollows, RepairFollows
    <2> QED
      BY <2>2, <2>4, MovesMeans
  <1>7. ASSUME FailureProved PROVE Moves
    <2>1. GateNode[validation.failure] \in NodeIds
      BY <1>2, <1>7, NodeKinds DEF FailureProved, Diagnosed
    <2>2. Records("ValidationFailure", GateNode[validation.failure])
      BY <1>7 DEF FailureProved, Records
    <2> QED
      BY <2>1, <2>2, MovesMeans DEF ProofKinds
  <1>8. ASSUME RequiredProved \/ EligibilityProved \/ RerunProved PROVE Moves
    <2>1. \E kind \in ProofKinds : Records(kind, "None")
      BY <1>8 DEF RequiredProved, EligibilityProved, RerunProved, Records, ProofKinds
    <2> QED
      BY <2>1, MovesMeans
  <1>9. ASSUME RepairProved PROVE Moves
    <2>1. PICK r \in Repairs : Records("RepairVerified", r)
      BY <1>9 DEF RepairProved, Records
    <2> QED
      BY <2>1, MovesMeans, NodeKinds DEF ProofKinds
  <1>10. ASSUME RepairBegins PROVE Moves
    <2>1. NoneActive
      BY <1>10 DEF RepairBegins, Advance, CanAdvance
    <2>2. Advances("Validation", "Repair")
      BY <1>1, <1>10, <2>1, NoCallWithoutOwner DEF RepairBegins, Advances
    <2> QED
      BY <2>2, MovesMeans DEF Passages, Stages
  <1>11. ASSUME ValidationResumes PROVE Moves
    <2>1. NoneActive
      BY <1>11 DEF ValidationResumes, Advance, CanAdvance
    <2>2. Advances("Repair", "Validation")
      BY <1>1, <1>11, <2>1, NoCallWithoutOwner DEF ValidationResumes, Advances
    <2> QED
      BY <2>2, MovesMeans DEF Passages, Stages
  <1>12. ASSUME RepairNodeAdded PROVE Moves
    <2>1. NoneActive /\ validation.repairer \in Repairs
      BY <1>1, <1>12 DEF RepairNodeAdded, Choosing, ValidationFollows, RepairFollows
    <2>2. AddsRepair(validation.repairer)
      BY <1>1, <1>12, <2>1, NoCallWithoutOwner DEF RepairNodeAdded, AddsRepair
    <2> QED
      BY <2>1, <2>2, MovesMeans
  <1>13. ASSUME PriorInvalidated PROVE Moves
    BY <1>13, MovesMeans DEF Reopens
  <1>14. ASSUME ValidationFinishes PROVE Moves
    <2>1. PICK outcome \in Outcomes \ {"Succeeded", "PartialReviewable"} :
            /\ Finish(outcome)
            /\ stage \in {"Validation", "Repair"}
            /\ \/ validation.convergence # "None"
               \/ /\ outcome = MutationOutcome("NoValidRepair")
                  /\ \E r \in Repairs : node[r] = "FailedTerminal"
      <3> DEFINE failed == MutationOutcome("NoValidRepair")
                 ended == CASE validation.convergence = "NoValidRepair" -> "NoValidRepair"
                            [] validation.convergence = "GateRunBudget" -> "BudgetBlocked"
                            [] validation.convergence = "Canceled" -> "Canceled"
                            [] OTHER -> "InfrastructureFailed"
      <3>1. failed \in Outcomes \ {"Succeeded", "PartialReviewable"}
        BY MutationOutcomes DEF Outcomes
      <3>2. ended \in Outcomes \ {"Succeeded", "PartialReviewable"}
        BY DEF Outcomes
      <3>3. \/ /\ stage = "Repair" /\ Finish(failed)
               /\ \E r \in Repairs : node[r] = "FailedTerminal"
            \/ /\ stage \in {"Validation", "Repair"} /\ Finish(ended)
               /\ validation.convergence # "None"
        BY <1>14 DEF ValidationFinishes
      <3>4. failed = MutationOutcome("NoValidRepair")
        OBVIOUS
      <3> HIDE DEF failed, ended
      <3> QED
        BY <3>1, <3>2, <3>3, <3>4
    <2>2. NoneActive
      BY <2>1 DEF Finish, CanFinish
    <2>3. Finishes(outcome)
      BY <1>1, <1>14, <2>1, <2>2, NoCallWithoutOwner DEF Finishes, ValidationFinishes
    <2> QED
      BY <2>3, MovesMeans
  <1>15. ASSUME \/ ValidationScheduled \/ ProcessStarted \/ ProcessCompleted
                \/ EvidenceRecorded \/ FailureRecorded \/ GateConverges
                \/ CandidatesRanked \/ EligibilityEvaluated \/ TargetSelected
                \/ RepairConverges \/ RerunScheduled
         PROVE  Moves
    BY <1>15, MovesMeans DEF ValidationMoves, StageMoves
  <1> QED
    BY <1>3, <1>4, <1>5, <1>6, <1>7, <1>8, <1>9, <1>10, <1>11, <1>12, <1>13, <1>14, <1>15
       DEF ValidationNext

LEMMA ReviewSteps ==
    ASSUME IInv, ReviewNext,
           UNCHANGED <<discovery, planning, mutation, validation, publication>>
    PROVE  Moves
  <1>1. GraphFollows /\ stage \in Stages /\ ReviewFollows
    BY DEF IInv, GraphTypeOK
  <1>2. ASSUME ReviewNodeStarts PROVE Moves
    <2>1. PICK n \in {"Review", "CompletionEvaluation"} : Start(n)
      BY <1>2 DEF ReviewNodeStarts
    <2>2. NoneActive /\ n \in NodeIds
      BY <2>1, NodeKinds DEF Start, CanStart, Final
    <2>3. n \notin Mutators /\ n \notin CheckNodes
      BY NodeKinds DEF Mutators, Final
    <2>4. Starts(n)
      BY <1>1, <1>2, <2>1, <2>2, <2>3, NoCallWithoutOwner
         DEF ReviewNodeStarts, Starts, Mutators, Reviewing
    <2> QED
      BY <2>2, <2>4, MovesMeans
  <1>3. ASSUME ReviewProved PROVE Moves
    <2>1. PICK n \in {"Review", "CompletionEvaluation"}, kind \in ProofKinds :
             kind \in SatisfyingProofs(n) /\ Record(kind, n)
      BY <1>3 DEF ReviewProved
    <2>2. SatisfyingProofs(n) \subseteq {"ReviewCompleted", "CompletionEvaluated"}
      BY NodeKinds DEF SatisfyingProofs, Final
    <2>3. Records(kind, n)
      BY <1>3, <2>1, <2>2 DEF ReviewProved, Records
    <2> QED
      BY <2>3, MovesMeans, NodeKinds DEF Final
  <1>4. ASSUME ReviewSucceeds PROVE Moves
    <2>1. PICK n \in {"Review", "CompletionEvaluation"} : Accomplished(n) /\ Succeed(n)
      BY <1>4 DEF ReviewSucceeds
    <2>2. n \in NodeIds /\ n \notin Mutators /\ n \notin CheckNodes /\ n \notin Repairs
      BY NodeKinds DEF Mutators, Final
    <2>3. ~Binding(n)
      BY <1>1, <2>1 DEF Accomplished, Binding, ReviewFollows
    <2>4. call = NoCall
      BY <1>1, <2>1, <2>2, <2>3, NoCallOfOthers DEF GraphFollows, CallFollows, Accomplished
    <2>5. Succeeds(n)
      BY <1>4, <2>1, <2>2, <2>4 DEF ReviewSucceeds, Succeeds, Accomplished
    <2> QED
      BY <2>2, <2>5, MovesMeans
  <1>5. ASSUME EligibilityGrantProved PROVE Moves
    <2>1. Records("PublicationEligibility", "None")
      BY <1>5 DEF EligibilityGrantProved, Records
    <2> QED
      BY <2>1, MovesMeans DEF ProofKinds
  <1>6. ASSUME ReviewFails PROVE Moves
    <2>1. PICK n \in {"Review", "CompletionEvaluation"} : Fail(n, TRUE)
      BY <1>6 DEF ReviewFails
    <2>2. n \in NodeIds /\ n \notin Mutators /\ n \notin CheckNodes
      BY NodeKinds DEF Mutators, Final
    <2>3. ~Binding(n) /\ Active(n)
      BY <1>6, <2>1 DEF ReviewFails, Binding, Reviewing, Fail, CanFail
    <2>4. call = NoCall
      BY <1>1, <2>2, <2>3, NoCallOfOthers DEF GraphFollows, CallFollows
    <2>5. Fails(n, TRUE)
      BY <1>6, <2>1, <2>2, <2>4 DEF ReviewFails, Fails
    <2> QED
      BY <2>2, <2>5, MovesMeans
  <1>7. ASSUME ReviewFinishes PROVE Moves
    <2>1. NoneActive /\ stage = "Review"
      BY <1>7 DEF ReviewFinishes, Finish, CanFinish
    <2> DEFINE outcome == ReviewOutcome
    <2>2. outcome \in Outcomes \ {"Succeeded", "PartialReviewable"}
      BY DEF ReviewOutcome, Outcomes
    <2>3. Finish(outcome) /\ UNCHANGED review /\ review.convergence # "None"
      BY <1>7 DEF ReviewFinishes
    <2> HIDE DEF outcome
    <2>4. Finishes(outcome)
      BY <1>1, <2>1, <2>2, <2>3, NoCallWithoutOwner DEF Finishes
    <2> QED
      BY <2>2, <2>4, MovesMeans
  <1>8. ASSUME \/ DiffManifestRequested \/ DiffManifestRecorded
               \/ DiffManifestBuildFailed \/ ReviewActionPrepared \/ ReviewActionReleased
               \/ ReviewActionRejected \/ DiffPageReviewed \/ DiffReviewRecorded
               \/ CompletionEvaluationRecorded
               \/ PublicationAuthorityRequested \/ PublicationAuthorityObserved
               \/ PublicationAuthorityObservationFailed
               \/ PublicationEligibilityEvaluated \/ ReviewConverges
        PROVE  Moves
    BY <1>8, MovesMeans DEF ReviewMoves, StageMoves
  <1> QED
    BY <1>2, <1>3, <1>4, <1>5, <1>6, <1>7, <1>8 DEF ReviewNext

LEMMA PublicationSteps ==
    ASSUME IInv, PublicationNext,
           UNCHANGED <<discovery, planning, mutation, validation, review>>
    PROVE  Moves
  <1>1. GraphFollows /\ stage \in Stages
    BY DEF IInv, GraphTypeOK
  <1>2. /\ "Publication" \in NodeIds /\ "Publication" \notin Mutators
        /\ "Publication" \notin CheckNodes /\ "Publication" \notin Repairs
        /\ "Publication" \notin Targets /\ "Publication" \notin ModelNodes
    BY NodeKinds DEF Mutators, Final
  <1>3. Active("Publication") => call = NoCall
    BY <1>1, <1>2, NoCallOfOthers DEF GraphFollows, CallFollows
  <1>4. ASSUME PublicationStarts PROVE Moves
    <2>1. NoneActive
      BY <1>4 DEF PublicationStarts, Start, CanStart
    <2>2. Starts("Publication")
      BY <1>1, <1>2, <1>4, <2>1, NoCallWithoutOwner DEF PublicationStarts, Starts
    <2> QED
      BY <1>2, <2>2, MovesMeans
  <1>5. ASSUME PublicationProved PROVE Moves
    <2>1. Records("PublicationCompleted", "Publication")
      BY <1>5 DEF PublicationProved, Records
    <2> QED
      BY <1>2, <2>1, MovesMeans DEF ProofKinds
  <1>6. ASSUME PublicationSucceeds PROVE Moves
    <2>1. Active("Publication")
      BY <1>6 DEF PublicationSucceeds, Succeed, CanSucceed
    <2>2. Succeeds("Publication")
      BY <1>2, <1>3, <1>6, <2>1 DEF PublicationSucceeds, Succeeds
    <2> QED
      BY <1>2, <2>2, MovesMeans
  <1>7. ASSUME PublicationFails PROVE Moves
    <2>1. Active("Publication")
      BY <1>7 DEF PublicationFails, Fail, CanFail
    <2>2. Fails("Publication", TRUE)
      BY <1>2, <1>3, <1>7, <2>1 DEF PublicationFails, Fails
    <2> QED
      BY <1>2, <2>2, MovesMeans
  <1>8. ASSUME PublicationFinishes PROVE Moves
    <2>1. PICK outcome \in Outcomes :
            /\ Finish(outcome)
            /\ \/ /\ publication.completed /\ Permits(review.completion, review.mode)
                  /\ outcome = IF review.mode = "Normal" THEN "Succeeded"
                                                         ELSE "PartialReviewable"
               \/ publication.convergence # "None" /\ outcome = "PublicationFailed"
      BY <1>8 DEF PublicationFinishes, Outcomes
    <2>2. NoneActive /\ stage = "Publication"
      BY <1>8, <2>1 DEF PublicationFinishes, Finish, CanFinish
    <2>3. Finishes(outcome)
      BY <1>1, <1>8, <2>1, <2>2, NoCallWithoutOwner DEF Finishes, PublicationFinishes
    <2> QED
      BY <2>3, MovesMeans
  <1>9. ASSUME \/ CommitIntentPersisted \/ PushIntentPersisted
               \/ PullRequestIntentPersisted
               \/ CreateCommit \/ PushExactLease \/ EnsurePullRequest \/ BranchMoves
               \/ CommitObserved \/ PushObserved \/ PullRequestObserved
               \/ PublicationConverges \/ CompletionRecorded
        PROVE  Moves
    BY <1>9, MovesMeans DEF PublicationMoves, StageMoves
  <1> QED
    BY <1>4, <1>5, <1>6, <1>7, <1>8, <1>9 DEF PublicationNext

LEMMA HandOverSteps ==
    ASSUME IInv, HandsOver
    PROVE  Moves
  <1>1. GraphFollows /\ stage \in Stages /\ ValidationFollows
    BY DEF IInv, GraphTypeOK
  <1>2. ASSUME ValidationBegins /\ ValidationEnters,
               UNCHANGED <<discovery, planning, review, publication>>
        PROVE  Moves
    <2>1. NoneActive
      BY <1>2 DEF ValidationBegins, Advance, CanAdvance
    <2>2. Advances("Implementation", "Validation")
      BY <1>1, <1>2, <2>1, NoCallWithoutOwner
         DEF ValidationBegins, Advances, AllImplemented
    <2> QED
      BY <2>2, MovesMeans DEF Passages, Stages
  <1>3. ASSUME RepairNodeStarts, mutation' = Untouched,
               UNCHANGED <<discovery, planning, review, publication>>
        PROVE  Moves
    <2>1. NoneActive /\ validation.repairer \in Repairs
      BY <1>1, <1>3 DEF RepairNodeStarts, Choosing, ValidationFollows, RepairFollows
    <2>2. Starts(validation.repairer)
      BY <1>1, <1>3, <2>1, NoCallWithoutOwner, NodeKinds
         DEF RepairNodeStarts, Starts, Mutators, Final
    <2> QED
      BY <2>1, <2>2, MovesMeans, NodeKinds
  <1>4. ASSUME ReviewBegins /\ ReviewEnters,
               UNCHANGED <<discovery, planning, mutation, publication>>
        PROVE  Moves
    <2>1. NoneActive
      BY <1>4 DEF ReviewBegins, Advance, CanAdvance
    <2>2. Advances("Validation", "Review")
      BY <1>1, <1>4, <2>1, NoCallWithoutOwner DEF ReviewBegins, Advances
    <2> QED
      BY <2>2, MovesMeans DEF Passages, Stages
  <1>5. ASSUME PublicationBegins,
               UNCHANGED <<discovery, planning, mutation, validation, publication>>
        PROVE  Moves
    <2>1. NoneActive
      BY <1>5 DEF PublicationBegins, Advance, CanAdvance
    <2>2. Advances("Review", "Publication")
      BY <1>1, <1>5, <2>1, NoCallWithoutOwner DEF PublicationBegins, Advances
    <2> QED
      BY <2>2, MovesMeans DEF Passages, Stages
  <1> QED
    BY <1>2, <1>3, <1>4, <1>5 DEF HandsOver

\* Every step of an attempt is one of the moves.
LEMMA Steps ==
    ASSUME IInv, [Next]_vars
    PROVE  Moves
  <1>1. ASSUME Calls PROVE Moves
    BY <1>1, MovesMeans DEF StageMoves
  <1>2. ASSUME UNCHANGED vars PROVE Moves
    BY <1>2 DEF Moves
  <1> QED
    BY <1>1, <1>2, DiscoverySteps, PlanningSteps, ImplementationSteps, ValidationSteps,
       ReviewSteps, PublicationSteps, HandOverSteps DEF Next, Step, Done
-----------------------------------------------------------------------------
(* What the moves of a stage leave alone.                                    *)

\* What becomes of the model call and of the budgets.
CallChanges ==
    \/ UNCHANGED <<call, usage>>
    \/ \E n \in ModelNodes : Prepare(n)
    \/ Clear /\ call.state \in {"Consumed", "Released"} /\ UNCHANGED usage
    \/ CallLifecycle

LEMMA DiscoveryMovesKeep ==
    ASSUME DiscoveryMoves
    PROVE  NodesKept /\ CallChanges /\ stage \in BeforePlanning
  <1>1. ASSUME DiscoveryPrepares PROVE NodesKept /\ CallChanges /\ stage \in BeforePlanning
    <2>1. Prepare("Discovery") /\ stage = "Discovery"
      BY <1>1 DEF DiscoveryPrepares, Deciding
    <2>2. \E n \in ModelNodes : Prepare(n)
      BY <2>1 DEF ModelNodes
    <2>3. NodesKept
      BY <2>1 DEF Prepare, NodesKept
    <2> QED
      BY <2>1, <2>2, <2>3 DEF CallChanges, BeforePlanning
  <1>2. ASSUME \/ SearchCompleted \/ FilesRead \/ RelationshipsRecorded
               \/ ImpactMapRecorded \/ DiscoveryRejects \/ DiscoveryReleases
        PROVE  NodesKept /\ CallChanges /\ stage \in BeforePlanning
    <2>1. /\ stage = "Discovery" /\ call.state \in {"Consumed", "Released"} /\ Clear
          /\ UNCHANGED <<stage, node, revision, proofs, usage, result>>
      BY <1>2 DEF SearchCompleted, FilesRead, RelationshipsRecorded, ImpactMapRecorded,
                  DiscoveryRejects, DiscoveryReleases, Observes
    <2> QED
      BY <2>1 DEF CallChanges, NodesKept, BeforePlanning
  <1>3. ASSUME \/ ProfileRecorded \/ GoalRecorded
               \/ CandidatesRecorded \/ DiscoveryConverges \/ DeterministicMap
        PROVE  NodesKept /\ CallChanges /\ stage \in BeforePlanning
    <2>1. stage \in BeforePlanning /\ UNCHANGED graphVars
      BY <1>3 DEF ProfileRecorded, GoalRecorded, CandidatesRecorded, DiscoveryConverges,
                  DeterministicMap, Converged, Deciding, BeforePlanning
    <2> QED
      BY <2>1 DEF CallChanges, NodesKept, graphVars
  <1> QED
    BY <1>1, <1>2, <1>3 DEF DiscoveryMoves

LEMMA PlanningMovesKeep ==
    ASSUME PlanningMoves
    PROVE  NodesKept /\ CallChanges /\ stage = "Planning"
  <1>1. ASSUME PlanningPrepares PROVE NodesKept /\ CallChanges /\ stage = "Planning"
    <2>1. Prepare("Planning") /\ stage = "Planning"
      BY <1>1 DEF PlanningPrepares, Unplanned
    <2>2. \E n \in ModelNodes : Prepare(n)
      BY <2>1 DEF ModelNodes
    <2>3. NodesKept
      BY <2>1 DEF Prepare, NodesKept
    <2> QED
      BY <2>1, <2>2, <2>3 DEF CallChanges
  <1>2. ASSUME CandidateRecorded \/ PlanningRejects \/ PlanningReleases
        PROVE  NodesKept /\ CallChanges /\ stage = "Planning"
    <2>1. /\ stage = "Planning" /\ call.state \in {"Consumed", "Released"} /\ Clear
          /\ UNCHANGED <<stage, node, revision, proofs, usage, result>>
      BY <1>2 DEF CandidateRecorded, PlanningRejects, PlanningReleases, PlanningObserves
    <2> QED
      BY <2>1 DEF CallChanges, NodesKept
  <1>3. ASSUME PlanningConverges PROVE NodesKept /\ CallChanges /\ stage = "Planning"
    BY <1>3 DEF PlanningConverges, Unplanned, CallChanges, NodesKept, graphVars
  <1> QED
    BY <1>1, <1>2, <1>3 DEF PlanningMoves

LEMMA MutationMovesKeep ==
    ASSUME NEW n \in Mutators, MutationMoves(n)
    PROVE  /\ UNCHANGED <<stage, node, proofs, result>> /\ CallChanges
           /\ revision' \in {revision, revision + 1}
           /\ Active(n) /\ n \in NodeIds /\ n \in ModelNodes
  <1>1. n \in NodeIds /\ n \in ModelNodes
    BY NodeKinds DEF Mutators
  <1>2. ASSUME ActionPrepared(n)
        PROVE  NodesKept /\ CallChanges /\ Active(n)
    <2>1. Prepare(n) /\ Active(n)
      BY <1>2 DEF ActionPrepared, Mutating
    <2>2. NodesKept
      BY <2>1 DEF Prepare, NodesKept
    <2> QED
      BY <1>1, <2>1, <2>2 DEF CallChanges
  <1>3. ASSUME ActionReleased(n) \/ MutationCandidate(n) \/ ActionRejected(n)
        PROVE  NodesKept /\ CallChanges /\ Active(n)
    <2>1. /\ Active(n) /\ call.state \in {"Consumed", "Released"} /\ Clear
          /\ UNCHANGED <<stage, node, revision, proofs, usage, result>>
      BY <1>3 DEF ActionReleased, MutationCandidate, ActionRejected, ActionEnded, Mutating
    <2> QED
      BY <2>1 DEF CallChanges, NodesKept
  <1>4. ASSUME \/ ContextPrepared(n) \/ FeasibilityEvaluated(n) \/ PolicySelected(n)
               \/ AttemptFailed(n) \/ ApplicationObserved(n) \/ AttemptRetried(n)
        PROVE  NodesKept /\ CallChanges /\ Active(n)
    <2>1. Active(n) /\ UNCHANGED graphVars
      BY <1>4 DEF ContextPrepared, FeasibilityEvaluated, PolicySelected, AttemptFailed,
                  ApplicationObserved, AttemptRetried, Mutating
    <2> QED
      BY <2>1 DEF CallChanges, NodesKept, graphVars
  <1>5. ASSUME MutationVerified(n) \/ ContextSuperseded(n) \/ MutationConverges(n)
        PROVE  /\ UNCHANGED <<stage, node, proofs, result>> /\ CallChanges
               /\ revision' \in {revision, revision + 1} /\ Active(n)
    BY <1>5 DEF MutationVerified, ContextSuperseded, MutationConverges, Mutating, CallChanges
  <1> QED
    BY <1>1, <1>2, <1>3, <1>4, <1>5 DEF MutationMoves, NodesKept

LEMMA ValidationMovesKeep ==
    ASSUME ValidationMoves
    PROVE  UNCHANGED graphVars /\ stage \in {"Validation", "Repair"}
  BY DEF ValidationMoves, ValidationScheduled, ProcessStarted, ProcessCompleted,
         EvidenceRecorded, FailureRecorded, GateConverges, CandidatesRanked,
         EligibilityEvaluated, TargetSelected, RepairConverges, RerunScheduled,
         RunAdvances, RepairStepped, Choosing, Validating, Repaired

LEMMA ReviewMovesKeep ==
    ASSUME ReviewMoves
    PROVE  /\ UNCHANGED <<stage, node, proofs, result>> /\ CallChanges
           /\ revision' \in {revision, revision + 1} /\ stage = "Review"
  <1>1. ASSUME ReviewActionPrepared
        PROVE  NodesKept /\ CallChanges /\ stage = "Review"
    <2>1. PICK n \in {"Review", "CompletionEvaluation"} : Binding(n) /\ Prepare(n)
      BY <1>1 DEF ReviewActionPrepared
    <2>2. n \in ModelNodes
      BY DEF ModelNodes
    <2>3. NodesKept /\ stage = "Review"
      BY <2>1 DEF Prepare, NodesKept, Binding, Reviewing
    <2> QED
      BY <2>1, <2>2, <2>3 DEF CallChanges
  <1>2. ASSUME \/ ReviewActionReleased \/ ReviewActionRejected \/ DiffPageReviewed
               \/ CompletionEvaluationRecorded
        PROVE  NodesKept /\ CallChanges /\ stage = "Review"
    <2>1. /\ stage = "Review" /\ call.state \in {"Consumed", "Released"} /\ Clear
          /\ UNCHANGED <<stage, node, revision, proofs, usage, result>>
      BY <1>2 DEF ReviewActionReleased, ReviewActionRejected, DiffPageReviewed,
                  CompletionEvaluationRecorded, ReviewActionEnds, Binding, Reviewing
    <2> QED
      BY <2>1 DEF CallChanges, NodesKept
  <1>3. ASSUME \/ DiffManifestRequested \/ DiffManifestRecorded
               \/ DiffManifestBuildFailed \/ DiffReviewRecorded
               \/ PublicationAuthorityRequested \/ PublicationAuthorityObserved
               \/ PublicationAuthorityObservationFailed \/ PublicationEligibilityEvaluated
        PROVE  NodesKept /\ CallChanges /\ stage = "Review"
    <2>1. stage = "Review" /\ UNCHANGED graphVars
      BY <1>3 DEF DiffManifestRequested, DiffManifestRecorded, DiffManifestBuildFailed,
                  DiffReviewRecorded, PublicationAuthorityRequested,
                  PublicationAuthorityObserved, PublicationAuthorityObservationFailed,
                  PublicationEligibilityEvaluated, AwaitsDiff, AwaitsAuthority,
                  Concluded, Reviewing, Reviewed
    <2> QED
      BY <2>1 DEF CallChanges, NodesKept, graphVars
  <1>4. ASSUME ReviewConverges
        PROVE  /\ UNCHANGED <<stage, node, proofs, result>> /\ CallChanges
               /\ revision' \in {revision, revision + 1} /\ stage = "Review"
    BY <1>4 DEF ReviewConverges, CallChanges
  <1> QED
    BY <1>1, <1>2, <1>3, <1>4 DEF ReviewMoves, NodesKept

LEMMA PublicationMovesKeep ==
    ASSUME PublicationMoves
    PROVE  UNCHANGED graphVars /\ stage = "Publication" /\ Publishing
  <1>1. ASSUME CommitIntentPersisted PROVE UNCHANGED graphVars /\ Publishing
    BY <1>1 DEF CommitIntentPersisted, Persisted, Published
  <1>2. ASSUME PushIntentPersisted \/ PullRequestIntentPersisted
        PROVE  UNCHANGED graphVars /\ Publishing
    BY <1>2 DEF PushIntentPersisted, PullRequestIntentPersisted, Persisted, Published
  <1>3. ASSUME CreateCommit \/ PushExactLease \/ EnsurePullRequest \/ BranchMoves
        PROVE  UNCHANGED graphVars /\ Publishing
    BY <1>3 DEF CreateCommit, PushExactLease, EnsurePullRequest, BranchMoves,
                Unapplied, Pending, Published
  <1>4. ASSUME \/ CommitObserved \/ PushObserved \/ PullRequestObserved
               \/ PublicationConverges \/ CompletionRecorded
        PROVE  UNCHANGED graphVars /\ Publishing
    BY <1>4 DEF CommitObserved, PushObserved, PullRequestObserved, Observed, Pending,
                PublicationConverges, CompletionRecorded, Published
  <1> QED
    BY <1>1, <1>2, <1>3, <1>4 DEF PublicationMoves, Publishing

LEMMA CallsKeep ==
    ASSUME Calls
    PROVE  NodesKept /\ CallChanges
  BY DEF Calls, CallLifecycle, CallChanges, NodesKept, Admit, Reserve, Dispatch, Consume,
         Release
-----------------------------------------------------------------------------
(* What a step makes of the nodes.                                           *)

\* A node that is refreshed stays as it is, or it may start.
LEMMA RefreshedNodes ==
    ASSUME NEW state \in [NodeIds -> NodeStates], NEW in
    PROVE  /\ Refreshed(state, in) \in [NodeIds -> NodeStates]
           /\ \A n \in NodeIds :
                \/ Refreshed(state, in)[n] = state[n]
                \/ /\ Refreshed(state, in)[n] = "Ready" /\ StageOf(n) = in
                   /\ \/ state[n] = "Pending"
                      \/ n \in CheckNodes /\ state[n] = "FailedRecoverable"
                   /\ \A d \in Dependencies(n) : state[d] = "Succeeded"
           /\ \A n \in NodeIds :
                /\ StageOf(n) = in
                /\ \/ state[n] = "Pending"
                   \/ n \in CheckNodes /\ state[n] = "FailedRecoverable"
                /\ \A d \in Dependencies(n) : state[d] = "Succeeded"
                => Refreshed(state, in)[n] = "Ready"
  BY DEF Refreshed, NodeStates

\* The nodes that are not ready of the stage that is left are not touched.
LEMMA AdvancedNodes ==
    ASSUME node \in [NodeIds -> NodeStates], NEW from, NEW to, Advance(from, to)
    PROVE  /\ node' \in [NodeIds -> NodeStates] /\ stage = from /\ stage' = to
           /\ \A n \in NodeIds :
                \/ node'[n] = node[n]
                \/ to = "Repair" /\ n \in CheckNodes /\ node[n] = "Ready" /\ node'[n] = "Pending"
                \/ /\ node'[n] = "Ready" /\ StageOf(n) = to
                   /\ \/ node[n] \in {"Pending", "Ready"}
                      \/ n \in CheckNodes /\ node[n] = "FailedRecoverable"
                   /\ \A d \in Dependencies(n) : node[d] = "Succeeded"
           /\ \A n \in NodeIds :
                /\ StageOf(n) = to
                /\ \/ node[n] = "Pending"
                   \/ n \in CheckNodes /\ node[n] = "FailedRecoverable"
                /\ \A d \in Dependencies(n) : node[d] = "Succeeded"
                => node'[n] = "Ready"
           /\ to = "Repair" => \A n \in CheckNodes : node'[n] # "Ready"
  <1> DEFINE parked == [n \in NodeIds |->
                          IF to = "Repair" /\ n \in CheckNodes /\ node[n] = "Ready"
                          THEN "Pending" ELSE node[n]]
  <1>1. /\ node' = Refreshed(parked, to) /\ stage = from /\ stage' = to
    BY DEF Advance, CanAdvance
  <1>2. parked \in [NodeIds -> NodeStates]
    BY DEF NodeStates
  <1>3. \A n \in NodeIds :
          \/ parked[n] = node[n]
          \/ to = "Repair" /\ n \in CheckNodes /\ node[n] = "Ready" /\ parked[n] = "Pending"
    OBVIOUS
  <1>4. \A n \in NodeIds : parked[n] = "Succeeded" <=> node[n] = "Succeeded"
    OBVIOUS
  <1>5. \A n \in NodeIds : \A d \in Dependencies(n) :
          parked[d] = "Succeeded" <=> node[d] = "Succeeded"
    BY <1>4, DependenciesAreNodes
  <1>6. to = "Repair" => \A n \in CheckNodes : parked[n] # "Ready" /\ StageOf(n) # to
    BY NodeKinds, NodeStages
  <1> HIDE DEF parked
  <1>7. \A n \in NodeIds :
          \/ node'[n] = parked[n]
          \/ /\ node'[n] = "Ready" /\ StageOf(n) = to
             /\ \/ parked[n] = "Pending"
                \/ n \in CheckNodes /\ parked[n] = "FailedRecoverable"
             /\ \A d \in Dependencies(n) : parked[d] = "Succeeded"
    BY <1>1, <1>2, RefreshedNodes
  <1>8. \A n \in NodeIds :
          /\ StageOf(n) = to
          /\ \/ parked[n] = "Pending"
             \/ n \in CheckNodes /\ parked[n] = "FailedRecoverable"
          /\ \A d \in Dependencies(n) : parked[d] = "Succeeded"
          => node'[n] = "Ready"
    BY <1>1, <1>2, RefreshedNodes
  <1>9. node' \in [NodeIds -> NodeStates]
    BY <1>1, <1>2, RefreshedNodes
  <1>10. to = "Repair" => \A n \in CheckNodes : node'[n] # "Ready"
    BY <1>6, <1>7, NodeKinds
  <1>11. ASSUME NEW n \in NodeIds
         PROVE  \/ node'[n] = node[n]
                \/ to = "Repair" /\ n \in CheckNodes /\ node[n] = "Ready" /\ node'[n] = "Pending"
                \/ /\ node'[n] = "Ready" /\ StageOf(n) = to
                   /\ \/ node[n] \in {"Pending", "Ready"}
                      \/ n \in CheckNodes /\ node[n] = "FailedRecoverable"
                   /\ \A d \in Dependencies(n) : node[d] = "Succeeded"
    BY <1>3, <1>5, <1>7
  <1>12. ASSUME NEW n \in NodeIds, StageOf(n) = to,
                \/ node[n] = "Pending"
                \/ n \in CheckNodes /\ node[n] = "FailedRecoverable",
                \A d \in Dependencies(n) : node[d] = "Succeeded"
         PROVE  node'[n] = "Ready"
    BY <1>3, <1>5, <1>8, <1>12
  <1> QED
    BY <1>1, <1>9, <1>10, <1>11, <1>12

\* Where a node that is in a state comes from, and what may come of it.
Effects(n) ==
    /\ node'[n] = "Active" => Active(n) \/ Starts(n)
    /\ Active(n) => node'[n] = "Active" \/ Succeeds(n) \/ \E t \in BOOLEAN : Fails(n, t)
    /\ node'[n] = "Succeeded" => node[n] = "Succeeded" \/ Succeeds(n)
    /\ node[n] = "Succeeded" => node'[n] = "Succeeded" \/ (Reopens /\ n \in CheckNodes)
    /\ node'[n] = "FailedTerminal" => node[n] = "FailedTerminal" \/ Fails(n, TRUE)
    /\ node[n] = "FailedTerminal" => node'[n] = "FailedTerminal"
    /\ node'[n] = "FailedRecoverable" => node[n] = "FailedRecoverable" \/ Fails(n, FALSE)
    /\ node[n] # "Absent" => node'[n] # "Absent"
    /\ node[n] = "Absent" => \/ node'[n] = "Absent"
                             \/ (AddsPlan /\ n \in Planned)
                             \/ (n \in Repairs /\ AddsRepair(n))

LEMMA NodeEffects ==
    ASSUME IInv, Moves
    PROVE  node' \in [NodeIds -> NodeStates] /\ \A n \in NodeIds : Effects(n)
  <1>1. node \in [NodeIds -> NodeStates] /\ stage \in Stages
    BY DEF IInv, GraphTypeOK
  <1>2. ASSUME node' = node
        PROVE  node' \in [NodeIds -> NodeStates] /\ \A n \in NodeIds : Effects(n)
    BY <1>1, <1>2 DEF Effects, Active
  <1>3. ASSUME NEW m \in NodeIds, Starts(m)
        PROVE  node' \in [NodeIds -> NodeStates] /\ \A n \in NodeIds : Effects(n)
    <2>1. node' = [node EXCEPT ![m] = "Active"] /\ node[m] = "Ready"
      BY <1>3 DEF Starts, Start, CanStart
    <2> QED
      BY <1>1, <1>3, <2>1 DEF Effects, Active, NodeStates
  <1>4. ASSUME NEW m \in NodeIds, Succeeds(m)
        PROVE  node' \in [NodeIds -> NodeStates] /\ \A n \in NodeIds : Effects(n)
    <2> DEFINE done == [node EXCEPT ![m] = "Succeeded"]
    <2>1. node' = Refreshed(done, stage) /\ node[m] = "Active"
      BY <1>4 DEF Succeeds, Succeed, CanSucceed, Active
    <2>2. done \in [NodeIds -> NodeStates]
      BY <1>1 DEF NodeStates
    <2>3. \A n \in NodeIds : n # m => done[n] = node[n]
      BY <1>1
    <2>4. done[m] = "Succeeded"
      BY <1>1
    <2> HIDE DEF done
    <2>5. /\ node' \in [NodeIds -> NodeStates]
          /\ \A n \in NodeIds :
                \/ node'[n] = done[n]
                \/ node'[n] = "Ready" /\ done[n] \in {"Pending", "FailedRecoverable"}
      BY <2>1, <2>2, RefreshedNodes
    <2> QED
      BY <1>4, <2>1, <2>3, <2>4, <2>5 DEF Effects, Active
  <1>5. ASSUME NEW m \in NodeIds, NEW t \in BOOLEAN, Fails(m, t)
        PROVE  node' \in [NodeIds -> NodeStates] /\ \A n \in NodeIds : Effects(n)
    <2>1. /\ node' = [node EXCEPT ![m] = IF t THEN "FailedTerminal" ELSE "FailedRecoverable"]
          /\ node[m] = "Active"
      BY <1>5 DEF Fails, Fail, CanFail, Active
    <2>2. CASE t = TRUE
      BY <1>1, <1>5, <2>1, <2>2 DEF Effects, Active, NodeStates
    <2>3. CASE t = FALSE
      BY <1>1, <1>5, <2>1, <2>3 DEF Effects, Active, NodeStates
    <2> QED
      BY <2>2, <2>3
  <1>6. ASSUME AddsPlan
        PROVE  node' \in [NodeIds -> NodeStates] /\ \A n \in NodeIds : Effects(n)
    <2>1. /\ node' = [n \in NodeIds |-> IF n \in Planned THEN "Pending" ELSE node[n]]
          /\ \A n \in Planned : node[n] = "Absent"
      BY <1>6 DEF AddsPlan, AddPlan, Present
    <2> QED
      BY <1>1, <1>6, <2>1 DEF Effects, Active, NodeStates
  <1>7. ASSUME NEW r \in Repairs, AddsRepair(r)
        PROVE  node' \in [NodeIds -> NodeStates] /\ \A n \in NodeIds : Effects(n)
    <2> DEFINE more == [node EXCEPT ![r] = "Pending"]
    <2>1. node' = Refreshed(more, stage) /\ node[r] = "Absent" /\ r \in NodeIds
      BY <1>7, NodeKinds DEF AddsRepair, AddRepair
    <2>2. more \in [NodeIds -> NodeStates]
      BY <1>1 DEF NodeStates
    <2>3. \A n \in NodeIds : n # r => more[n] = node[n]
      BY <1>1
    <2>4. more[r] = "Pending"
      BY <1>1, <2>1
    <2> HIDE DEF more
    <2>5. /\ node' \in [NodeIds -> NodeStates]
          /\ \A n \in NodeIds :
                \/ node'[n] = more[n]
                \/ node'[n] = "Ready" /\ more[n] \in {"Pending", "FailedRecoverable"}
      BY <2>1, <2>2, RefreshedNodes
    <2> QED
      BY <1>7, <2>1, <2>3, <2>4, <2>5 DEF Effects, Active
  <1>8. ASSUME NEW p \in Passages, Advances(p[1], p[2])
        PROVE  node' \in [NodeIds -> NodeStates] /\ \A n \in NodeIds : Effects(n)
    <2>1. Advance(p[1], p[2])
      BY <1>8 DEF Advances
    <2>2. /\ node' \in [NodeIds -> NodeStates]
          /\ \A n \in NodeIds :
                \/ node'[n] = node[n]
                \/ node[n] = "Ready" /\ node'[n] = "Pending"
                \/ /\ node'[n] = "Ready"
                   /\ node[n] \in {"Pending", "Ready", "FailedRecoverable"}
      BY <1>1, <2>1, AdvancedNodes
    <2> QED
      BY <2>2 DEF Effects, Active
  <1>9. ASSUME Reopens
        PROVE  node' \in [NodeIds -> NodeStates] /\ \A n \in NodeIds : Effects(n)
    <2>1. /\ node' \in [NodeIds -> NodeStates]
          /\ \A n \in NodeIds :
                \/ node'[n] = node[n]
                \/ node[n] = "Succeeded" /\ node'[n] = "Pending" /\ n \in CheckNodes
      <3>1. node' = Reopened
        BY <1>9 DEF Reopens, PriorInvalidated
      <3>2. Invalidated \subseteq Gates
        BY DEF Invalidated
      <3>3. \A n \in NodeIds :
              \/ Reopened[n] = node[n]
              \/ /\ node[n] = "Succeeded" /\ Reopened[n] = "Pending"
                 /\ \E g \in Gates : GateNode[g] = n
        BY <3>2 DEF Reopened
      <3>4. Reopened \in [NodeIds -> NodeStates]
        BY <1>1 DEF Reopened, NodeStates
      <3>5. \A g \in Gates : GateNode[g] \in CheckNodes
        BY ValidationAssumption
      <3> QED
        BY <3>1, <3>3, <3>4, <3>5
    <2> QED
      BY <1>9, <2>1 DEF Effects, Active
  <1>10. ASSUME \/ \E kind \in ProofKinds, n \in NodeIds \cup {"None"} : Records(kind, n)
                \/ \E outcome \in Outcomes : Finishes(outcome)
         PROVE  node' = node
    BY <1>10 DEF Records, Record, Finishes, Finish
  <1>11. ASSUME StageMoves \/ UNCHANGED vars PROVE node' = node
    BY <1>11, DiscoveryMovesKeep, PlanningMovesKeep, MutationMovesKeep, ValidationMovesKeep,
       ReviewMovesKeep, PublicationMovesKeep, CallsKeep
       DEF StageMoves, NodesKept, vars, graphVars
  <1> QED
    BY <1>2, <1>3, <1>4, <1>5, <1>6, <1>7, <1>8, <1>9, <1>10, <1>11 DEF Moves, GraphMoves
-----------------------------------------------------------------------------
(* What a step makes of the rest of the graph.                               *)

LEMMA GraphMovesKeep ==
    ASSUME GraphMoves
    PROVE  UNCHANGED <<revision, call, usage>>
  BY DEF GraphMoves, Starts, Start, Records, Record, Succeeds, Succeed, Fails, Fail,
         AddsPlan, AddPlan, AddsRepair, AddRepair, Advances, Advance, Finishes, Finish,
         Reopens, PriorInvalidated

LEMMA StageMovesKeep ==
    ASSUME StageMoves
    PROVE  /\ UNCHANGED <<stage, node, proofs, result>> /\ CallChanges
           /\ revision' \in {revision, revision + 1}
           /\ revision' = revision \/ ReviewMoves \/ \E n \in Mutators : MutationMoves(n)
  BY DiscoveryMovesKeep, PlanningMovesKeep, MutationMovesKeep, ValidationMovesKeep,
     ReviewMovesKeep, PublicationMovesKeep, CallsKeep
     DEF StageMoves, NodesKept, graphVars, CallChanges

LEMMA CallEffects ==
    ASSUME Moves
    PROVE  CallChanges
  BY GraphMovesKeep, StageMovesKeep DEF Moves, vars, graphVars, CallChanges

LEMMA RevisionEffects ==
    ASSUME Moves
    PROVE  \/ revision' = revision
           \/ /\ revision' = revision + 1
              /\ ReviewMoves \/ \E n \in Mutators : MutationMoves(n)
  BY GraphMovesKeep, StageMovesKeep DEF Moves, vars, graphVars

LEMMA StageEffects ==
    ASSUME Moves
    PROVE  \/ stage' = stage
           \/ /\ <<stage, stage'>> \in Passages /\ Advances(stage, stage')
              /\ \E p \in proofs : p.kind = TransitionProof(stage, stage')
                                   /\ p.revision = revision
           \/ stage' = "Terminal" /\ \E outcome \in Outcomes : Finishes(outcome)
  <1>1. ASSUME NEW p \in Passages, Advances(p[1], p[2])
        PROVE  /\ <<stage, stage'>> \in Passages /\ Advances(stage, stage')
               /\ \E q \in proofs : q.kind = TransitionProof(stage, stage')
                                    /\ q.revision = revision
    <2>1. /\ stage = p[1] /\ stage' = p[2]
          /\ \E q \in proofs : q.kind = TransitionProof(p[1], p[2]) /\ q.revision = revision
      BY <1>1 DEF Advances, Advance, CanAdvance
    <2>2. p = <<p[1], p[2]>>
      BY <1>1 DEF Passages
    <2> QED
      BY <1>1, <2>1, <2>2
  <1>2. ASSUME NEW outcome \in Outcomes, Finishes(outcome) PROVE stage' = "Terminal"
    BY <1>2 DEF Finishes, Finish
  <1>3. ASSUME GraphMoves
        PROVE  \/ stage' = stage
               \/ \E p \in Passages : Advances(p[1], p[2])
               \/ \E outcome \in Outcomes : Finishes(outcome)
    BY <1>3 DEF GraphMoves, Starts, Start, Records, Record, Succeeds, Succeed, Fails,
                Fail, AddsPlan, AddPlan, AddsRepair, AddRepair, Reopens, PriorInvalidated
  <1> QED
    BY <1>1, <1>2, <1>3, StageMovesKeep DEF Moves, vars, graphVars

LEMMA ProofEffects ==
    ASSUME Moves
    PROVE  /\ proofs \subseteq proofs'
           /\ \A p \in proofs' : p \in proofs \/
                \E kind \in ProofKinds, n \in NodeIds \cup {"None"} :
                   Records(kind, n) /\ p = ProofOf(kind, n)
  <1>1. ASSUME NEW kind \in ProofKinds, NEW n \in NodeIds \cup {"None"}, Records(kind, n)
        PROVE  proofs' = proofs \cup {ProofOf(kind, n)}
    BY <1>1 DEF Records, Record
  <1>2. ASSUME GraphMoves
        PROVE  \/ proofs' = proofs
               \/ \E kind \in ProofKinds, n \in NodeIds \cup {"None"} : Records(kind, n)
    BY <1>2 DEF GraphMoves, Starts, Start, Succeeds, Succeed, Fails, Fail, AddsPlan,
                AddPlan, AddsRepair, AddRepair, Advances, Advance, Finishes, Finish,
                Reopens, PriorInvalidated
  <1> QED
    BY <1>1, <1>2, StageMovesKeep DEF Moves, vars, graphVars

\* What is known stays known.
LEMMA KnownStays ==
    ASSUME Moves, NEW kind, NEW of, Known(kind, of)
    PROVE  Known(kind, of)'
  BY ProofEffects DEF Known

LEMMA ResultEffects ==
    ASSUME Moves
    PROVE  \/ result' = result /\ (stage' = "Terminal" => stage = "Terminal")
           \/ stage' = "Terminal" /\ \E outcome \in Outcomes :
                Finishes(outcome) /\ result' = outcome
  <1>1. ASSUME NEW outcome \in Outcomes, Finishes(outcome)
        PROVE  stage' = "Terminal" /\ result' = outcome
    BY <1>1 DEF Finishes, Finish
  <1>2. ASSUME GraphMoves
        PROVE  \/ result' = result
               \/ \E outcome \in Outcomes : Finishes(outcome)
    BY <1>2 DEF GraphMoves, Starts, Start, Records, Record, Succeeds, Succeed, Fails, Fail,
                AddsPlan, AddPlan, AddsRepair, AddRepair, Advances, Advance,
                Reopens, PriorInvalidated
  <1>3. \A p \in Passages : p[2] # "Terminal"
    BY DEF Passages
  <1>4. <<stage, stage'>> \in Passages => stage' # "Terminal"
    BY <1>3
  <1> QED
    BY <1>1, <1>2, <1>4, StageMovesKeep, StageEffects DEF Moves, vars, graphVars

-----------------------------------------------------------------------------
(* The graph.                                                                *)

LEMMA PositionTypes ==
    ASSUME IInv, Moves
    PROVE  /\ stage' \in Stages /\ revision' \in Nat /\ result' \in Outcomes \cup {"None"}
           /\ proofs' \subseteq [kind : ProofKinds, node : NodeIds \cup {"None"},
                                 revision : Nat]
  <1>1. GraphTypeOK
    BY DEF IInv
  <1>2. stage' \in Stages
    <2>1. \A p \in Passages : p[2] \in Stages
      BY DEF Passages, Stages
    <2>2. <<stage, stage'>> \in Passages => stage' \in Stages
      BY <2>1
    <2> QED
      BY <1>1, <2>2, StageEffects DEF GraphTypeOK, Stages
  <1>3. revision' \in Nat
    BY <1>1, RevisionEffects DEF GraphTypeOK
  <1>4. result' \in Outcomes \cup {"None"}
    BY <1>1, ResultEffects DEF GraphTypeOK
  <1>5. ASSUME NEW p \in proofs'
        PROVE  p \in [kind : ProofKinds, node : NodeIds \cup {"None"}, revision : Nat]
    BY <1>1, ProofEffects DEF GraphTypeOK, ProofOf
  <1> QED
    BY <1>2, <1>3, <1>4, <1>5

\* The nodes of a stage.
LEMMA StageNodes ==
    ASSUME NEW n \in NodeIds
    PROVE  /\ StageOf(n) \notin {"Profiling", "Terminal"}
           /\ StageOf(n) = "Discovery" => n = "Discovery"
           /\ StageOf(n) = "Planning" => n = "Planning"
           /\ StageOf(n) = "Implementation" => n \in Targets
           /\ StageOf(n) = "Validation" => n \in CheckNodes
           /\ StageOf(n) = "Repair" => n \in Repairs
           /\ StageOf(n) = "Review" => n \in {"Review", "CompletionEvaluation"}
           /\ StageOf(n) = "Publication" => n = "Publication"
  BY NodeCases, NodeStages

LEMMA NextOwner ==
    ASSUME IInv, Moves
    PROVE  OneOwner'
  <1>1. OneOwner /\ node \in [NodeIds -> NodeStates]
    BY DEF IInv, GraphFollows, GraphTypeOK
  <1>2. ASSUME NEW m \in NodeIds, NEW n \in NodeIds, Active(m)', Active(n)'
        PROVE  m = n
    <2>1. (Active(m) \/ Starts(m)) /\ (Active(n) \/ Starts(n))
      BY <1>2, NodeEffects DEF Effects, Active
    <2>2. ASSUME NEW k \in NodeIds, Starts(k)
          PROVE  \A j \in NodeIds : node'[j] = "Active" => j = k
      BY <1>1, <2>2 DEF Starts, Start, CanStart, NoneActive, Active
    <2> QED
      BY <1>1, <1>2, <2>1, <2>2 DEF OneOwner, Active
  <1> QED
    BY <1>2 DEF OneOwner

LEMMA NextProved ==
    ASSUME IInv, Moves
    PROVE  NodesAreProved'
  <1>1. NodesAreProved
    BY DEF IInv, GraphFollows
  <1>2. ASSUME NEW n \in NodeIds, node'[n] = "Succeeded"
        PROVE  \E p \in proofs' : p.node = n /\ p.kind \in SatisfyingProofs(n)
    <2>1. node[n] = "Succeeded" \/ Succeeds(n)
      BY <1>2, NodeEffects DEF Effects
    <2>2. CASE node[n] = "Succeeded"
      BY <1>1, <2>2, ProofEffects DEF NodesAreProved
    <2>3. CASE Succeeds(n)
      <3>1. PICK kind \in SatisfyingProofs(n) : ProofOf(kind, n) \in proofs
        BY <2>3 DEF Succeeds, Succeed, CanSucceed, Proved
      <3>2. ProofOf(kind, n).node = n /\ ProofOf(kind, n).kind = kind
        BY DEF ProofOf
      <3> QED
        BY <3>1, <3>2, ProofEffects
    <2> QED
      BY <2>1, <2>2, <2>3
  <1> QED
    BY <1>2 DEF NodesAreProved, SatisfyingProofs

LEMMA NextStages ==
    ASSUME IInv, Moves
    PROVE  StagesFollow'
  <1>1. StagesFollow
    BY DEF IInv, GraphFollows
  <1>2. /\ Targets \subseteq NodeIds /\ CheckNodes \subseteq NodeIds
        /\ {"Review", "CompletionEvaluation"} \subseteq NodeIds
        /\ \A n \in Targets \cup {"Review", "CompletionEvaluation"} : n \notin CheckNodes
    BY NodeKinds DEF Final
  <1>3. \A n \in Targets \cup {"Review", "CompletionEvaluation"} :
           node[n] = "Succeeded" => node'[n] = "Succeeded"
    BY <1>2, NodeEffects DEF Effects
  <1>4. stage # "Repair" =>
           \A n \in CheckNodes : node[n] = "Succeeded" => node'[n] = "Succeeded"
    BY <1>2, NodeEffects DEF Effects, Reopens, PriorInvalidated, Invalidates, Repaired
  <1>5. CASE stage' = stage
    BY <1>1, <1>3, <1>4, <1>5 DEF StagesFollow, Succeeded
  <1>6. CASE stage' = "Terminal"
    BY <1>6 DEF StagesFollow
  <1>7. CASE <<stage, stage'>> \in Passages /\ Advances(stage, stage')
    <2>1. /\ stage = "Implementation" => Succeeded(Targets)
          /\ stage' = "Review" => Succeeded(CheckNodes)
          /\ stage' = "Publication" => Succeeded({"Review", "CompletionEvaluation"})
      BY <1>7 DEF Advances, AllPassed, Concluded
    <2>2. /\ stage' \notin BeforeValidation \cup {"Terminal"} =>
               stage \notin BeforeValidation \cup {"Terminal"} \/ stage = "Implementation"
          /\ stage' = "Review" => stage = "Validation"
          /\ stage' = "Publication" => stage = "Review"
      BY <1>7 DEF Passages, BeforeValidation, BeforeImplementation, BeforePlanning
    <2>3. stage' \notin BeforeValidation \cup {"Terminal"} => Succeeded(Targets)'
      BY <1>1, <1>3, <2>1, <2>2 DEF StagesFollow, Succeeded
    <2>4. stage' \in {"Review", "Publication"} => Succeeded(CheckNodes)'
      BY <1>1, <1>4, <2>1, <2>2 DEF StagesFollow, Succeeded
    <2>5. stage' = "Publication" => Succeeded({"Review", "CompletionEvaluation"})'
      BY <1>3, <2>1 DEF Succeeded
    <2> QED
      BY <2>3, <2>4, <2>5 DEF StagesFollow
  <1> QED
    BY <1>5, <1>6, <1>7, StageEffects

\* The state of a node fits its dependencies and its stage.
Fits(n) ==
    /\ Active(n) => Eligible(n)
    /\ node[n] = "Pending" => ~Eligible(n)
    /\ node[n] = "Ready" => Succeeded(Dependencies(n))
                            /\ (Eligible(n) \/ stage = "Terminal")

\* Nothing is ready in a stage that is left, but what is put aside for a repair.
LEMMA NothingLeftReady ==
    ASSUME IInv, NEW from \in Stages, NEW to \in Stages, <<from, to>> \in Passages,
           Advances(from, to), NEW n \in NodeIds, node[n] = "Ready"
    PROVE  from = "Validation" /\ to = "Repair" /\ n \in CheckNodes
  <1>1. stage = from /\ from # "Terminal" /\ Succeeded(PhaseOwner(from, to))
    BY DEF Advances, Advance, CanAdvance, Passages
  <1>2. StageOf(n) = from
    BY <1>1 DEF IInv, GraphFollows, NodesFit, Eligible
  <1>3. CASE from = "Implementation"
    BY <1>2, <1>3, StageNodes DEF Advances, Succeeded
  <1>4. CASE from = "Validation"
    <2>1. n \in CheckNodes
      BY <1>2, <1>4, StageNodes
    <2>2. to \in {"Repair", "Review"}
      BY <1>4 DEF Passages
    <2> QED
      BY <1>4, <2>1, <2>2 DEF Advances, AllPassed, Succeeded
  <1>5. CASE from \in {"Discovery", "Planning"}
    <2>1. n \in PhaseOwner(from, to)
      <3>1. n = from
        BY <1>2, <1>5, StageNodes
      <3>2. <<from, to>> \in {<<"Discovery", "Planning">>, <<"Planning", "Implementation">>}
        BY <1>5 DEF Passages
      <3> QED
        BY <3>1, <3>2 DEF PhaseOwner
    <2> QED
      BY <1>1, <2>1 DEF Succeeded
  <1>6. CASE from = "Repair"
    <2>1. n \in Present(Repairs)
      BY <1>2, <1>6, StageNodes DEF Present
    <2>2. to = "Validation"
      BY <1>6 DEF Passages
    <2> QED
      BY <1>1, <1>6, <2>1, <2>2 DEF PhaseOwner, Succeeded
  <1>7. CASE from = "Review"
    <2>1. n \in {"Review", "CompletionEvaluation"}
      BY <1>2, <1>7, StageNodes
    <2>2. to = "Publication"
      BY <1>7 DEF Passages
    <2> QED
      BY <2>1, <2>2 DEF Advances, Concluded, Succeeded
  <1>8. from \in {"Profiling", "Discovery", "Planning", "Implementation", "Validation",
                  "Repair", "Review"}
    BY DEF Passages
  <1> QED
    BY <1>2, <1>3, <1>4, <1>5, <1>6, <1>7, <1>8, StageNodes

LEMMA NextFits ==
    ASSUME IInv, Moves
    PROVE  NodesFit'
  <1>1. /\ node \in [NodeIds -> NodeStates] /\ stage \in Stages
        /\ \A n \in NodeIds : Fits(n)
        /\ OneOwner
    BY DEF IInv, GraphTypeOK, GraphFollows, NodesFit, Fits
  <1>2. \A n \in NodeIds : Dependencies(n) \subseteq NodeIds
    BY DependenciesAreNodes
  <1>3. ASSUME NEW n \in NodeIds, stage' = stage, node'[n] = node[n],
               \A d \in Dependencies(n) : node'[d] = "Succeeded" <=> node[d] = "Succeeded"
        PROVE  Fits(n)'
    BY <1>1, <1>3 DEF Fits, Eligible, Succeeded, Active
  <1>4. ASSUME NEW m \in NodeIds, Starts(m)
        PROVE  \A n \in NodeIds : Fits(n)'
    <2>1. /\ node' = [node EXCEPT ![m] = "Active"] /\ node[m] = "Ready" /\ stage' = stage
          /\ StageOf(m) = stage /\ Succeeded(Dependencies(m))
      BY <1>4 DEF Starts, Start, CanStart
    <2>2. \A d \in NodeIds : node'[d] = "Succeeded" <=> node[d] = "Succeeded"
      BY <1>1, <2>1
    <2>3. \A n \in NodeIds : n # m => node'[n] = node[n]
      BY <1>1, <2>1
    <2>4. Fits(m)'
      BY <1>1, <1>2, <2>1, <2>2 DEF Fits, Eligible, Succeeded, Active
    <2> QED
      BY <1>2, <1>3, <2>1, <2>2, <2>3, <2>4
  <1>5. ASSUME NEW m \in NodeIds, Succeeds(m)
        PROVE  \A n \in NodeIds : Fits(n)'
    <2> DEFINE done == [node EXCEPT ![m] = "Succeeded"]
    <2>1. node' = Refreshed(done, stage) /\ node[m] = "Active" /\ stage' = stage
      BY <1>5 DEF Succeeds, Succeed, CanSucceed, Active
    <2>2. done \in [NodeIds -> NodeStates]
      BY <1>1 DEF NodeStates
    <2>3. done[m] = "Succeeded" /\ \A n \in NodeIds : n # m => done[n] = node[n]
      BY <1>1
    <2> HIDE DEF done
    <2>4. ASSUME NEW n \in NodeIds
          PROVE  /\ \/ node'[n] = done[n]
                    \/ /\ node'[n] = "Ready" /\ StageOf(n) = stage
                       /\ done[n] \in {"Pending", "FailedRecoverable"}
                       /\ \A d \in Dependencies(n) : done[d] = "Succeeded"
                 /\ StageOf(n) = stage /\ done[n] = "Pending"
                    /\ (\A d \in Dependencies(n) : done[d] = "Succeeded")
                    => node'[n] = "Ready"
      BY <2>1, <2>2, RefreshedNodes
    <2>5. \A d \in NodeIds : node'[d] = "Succeeded" <=> done[d] = "Succeeded"
      BY <2>4
    <2>6. \A d \in NodeIds : node[d] = "Succeeded" => done[d] = "Succeeded"
      BY <2>3
    <2>7. ASSUME NEW n \in NodeIds
          PROVE  Fits(n)'
      <3>1. n # m /\ node[n] = "Active" => FALSE
        BY <1>1, <2>1 DEF OneOwner, Active
      <3>2. Succeeded(Dependencies(n))' <=> \A d \in Dependencies(n) : done[d] = "Succeeded"
        BY <1>2, <2>5 DEF Succeeded
      <3>3. Succeeded(Dependencies(n)) => Succeeded(Dependencies(n))'
        BY <1>2, <2>6, <3>2 DEF Succeeded
      <3>4. node'[n] # "Active"
        BY <2>1, <2>3, <2>4, <3>1
      <3>5. node'[n] = "Pending" => ~Eligible(n)'
        BY <2>1, <2>4, <3>2 DEF Eligible
      <3>6. node'[n] = "Ready" => Succeeded(Dependencies(n))'
                                  /\ (Eligible(n)' \/ stage' = "Terminal")
        BY <1>1, <2>1, <2>3, <2>4, <3>2, <3>3 DEF Eligible, Fits
      <3> QED
        BY <3>4, <3>5, <3>6 DEF Fits, Active
    <2> QED
      BY <2>7
  <1>6. ASSUME NEW m \in NodeIds, NEW t \in BOOLEAN, Fails(m, t)
        PROVE  \A n \in NodeIds : Fits(n)'
    <2>1. /\ node' = [node EXCEPT ![m] = IF t THEN "FailedTerminal" ELSE "FailedRecoverable"]
          /\ node[m] = "Active" /\ stage' = stage
      BY <1>6 DEF Fails, Fail, CanFail, Active
    <2>2. \A n \in NodeIds : n # m => node'[n] = node[n]
      BY <1>1, <2>1
    <2>3. node'[m] \in {"FailedTerminal", "FailedRecoverable"}
      BY <1>1, <2>1
    <2>4. \A d \in NodeIds : node'[d] = "Succeeded" <=> node[d] = "Succeeded"
      BY <2>1, <2>2, <2>3
    <2>5. Fits(m)'
      BY <2>3 DEF Fits, Active
    <2> QED
      BY <1>2, <1>3, <2>1, <2>2, <2>4, <2>5
  <1>7. ASSUME AddsPlan
        PROVE  \A n \in NodeIds : Fits(n)'
    <2>1. /\ node' = [n \in NodeIds |-> IF n \in Planned THEN "Pending" ELSE node[n]]
          /\ stage = "Planning" /\ stage' = stage
      BY <1>7 DEF AddsPlan, AddPlan
    <2>2. ASSUME NEW n \in NodeIds, n \in Planned
          PROVE  Fits(n)'
      <3>1. node'[n] = "Pending" /\ StageOf(n) # "Planning"
        BY <2>1, <2>2, NodeKinds, NodeStages DEF Planned, Final
      <3> QED
        BY <2>1, <3>1 DEF Fits, Eligible, Active
    <2>3. ASSUME NEW n \in NodeIds, n \notin Planned
          PROVE  Fits(n)'
      <3>1. node'[n] = node[n]
        BY <2>1, <2>3
      <3>2. CASE StageOf(n) = "Planning"
        <4>1. Dependencies(n) = {}
          BY <3>2, StageNodes, NodeDependencies
        <4> QED
          BY <1>3, <2>1, <3>1, <4>1
      <3>3. CASE StageOf(n) # "Planning"
        BY <1>1, <2>1, <3>1, <3>3 DEF Fits, Eligible, Active
      <3> QED
        BY <3>2, <3>3
    <2> QED
      BY <2>2, <2>3
  <1>8. ASSUME NEW r \in Repairs, AddsRepair(r)
        PROVE  \A n \in NodeIds : Fits(n)'
    <2> DEFINE more == [node EXCEPT ![r] = "Pending"]
    <2>1. /\ node' = Refreshed(more, stage) /\ node[r] = "Absent" /\ r \in NodeIds
          /\ stage = "Repair" /\ stage' = stage
      BY <1>8, NodeKinds DEF AddsRepair, AddRepair
    <2>2. more \in [NodeIds -> NodeStates]
      BY <1>1 DEF NodeStates
    <2>3. more[r] = "Pending" /\ \A n \in NodeIds : n # r => more[n] = node[n]
      BY <1>1, <2>1
    <2> HIDE DEF more
    <2>4. ASSUME NEW n \in NodeIds
          PROVE  \/ node'[n] = more[n]
                 \/ /\ node'[n] = "Ready" /\ StageOf(n) = stage
                    /\ more[n] \in {"Pending", "FailedRecoverable"}
      BY <2>1, <2>2, RefreshedNodes
    <2>5. node'[r] = "Ready"
      BY <2>1, <2>2, <2>3, RefreshedNodes, NodeStages, NodeDependencies
    <2>6. \A d \in NodeIds : node'[d] = "Succeeded" <=> node[d] = "Succeeded"
      BY <2>1, <2>3, <2>4
    <2>7. ASSUME NEW n \in NodeIds, n \in Repairs
          PROVE  Fits(n)'
      <3>1. Dependencies(n) = {} /\ StageOf(n) = "Repair"
        BY <2>7, NodeStages, NodeDependencies
      <3>2. Eligible(n) /\ Eligible(n)'
        BY <2>1, <3>1 DEF Eligible, Succeeded
      <3>3. node'[n] # "Pending"
        <4>1. CASE n = r
          BY <2>5, <4>1
        <4>2. CASE n # r
          <5>1. node[n] # "Pending"
            BY <1>1, <3>2 DEF Fits
          <5> QED
            BY <2>3, <2>4, <4>2, <5>1
        <4> QED
          BY <4>1, <4>2
      <3> QED
        BY <3>2, <3>3 DEF Fits, Eligible
    <2>8. ASSUME NEW n \in NodeIds, n \notin Repairs
          PROVE  Fits(n)'
      <3>1. StageOf(n) # "Repair" /\ n # r
        BY <2>8, StageNodes
      <3>2. node'[n] = node[n]
        BY <2>1, <2>3, <2>4, <3>1
      <3> QED
        BY <1>2, <1>3, <2>1, <2>6, <3>2
    <2> QED
      BY <2>7, <2>8
  <1>9. ASSUME <<stage, stage'>> \in Passages, Advances(stage, stage')
        PROVE  \A n \in NodeIds : Fits(n)'
    <2>1. Advance(stage, stage') /\ NoneActive /\ stage' \in Stages
      <3>1. \A p \in Passages : p[2] \in Stages
        BY DEF Passages, Stages
      <3>2. stage' \in Stages
        BY <1>9, <3>1
      <3> QED
        BY <1>9, <3>2 DEF Advances, Advance, CanAdvance
    <2>2. ASSUME NEW n \in NodeIds
          PROVE  Fits(n)'
      <3>1. /\ \/ node'[n] = node[n]
               \/ /\ stage' = "Repair" /\ n \in CheckNodes
                  /\ node[n] = "Ready" /\ node'[n] = "Pending"
               \/ /\ node'[n] = "Ready" /\ StageOf(n) = stage'
                  /\ \A d \in Dependencies(n) : node[d] = "Succeeded"
            /\ /\ StageOf(n) = stage' /\ node[n] = "Pending"
               /\ \A d \in Dependencies(n) : node[d] = "Succeeded"
               => node'[n] = "Ready"
            /\ stage' = "Repair" /\ n \in CheckNodes => node'[n] # "Ready"
        BY <1>1, <2>1, AdvancedNodes
      <3>2. \A d \in NodeIds : node'[d] = "Succeeded" <=> node[d] = "Succeeded"
        BY <1>1, <2>1, AdvancedNodes
      <3>3. node[n] # "Active"
        BY <2>1 DEF NoneActive, Active
      <3>4. node'[n] = "Pending" => ~Eligible(n)'
        <4>1. stage' = "Repair" /\ n \in CheckNodes => StageOf(n) # stage'
          BY NodeStages
        <4> QED
          BY <1>2, <3>1, <3>2, <4>1 DEF Eligible, Succeeded
      <3>5. node'[n] = "Ready" => Succeeded(Dependencies(n))' /\ Eligible(n)'
        <4>1. node[n] = "Ready" => stage' = "Repair" /\ n \in CheckNodes
          BY <1>1, <1>9, <2>1, NothingLeftReady
        <4> QED
          BY <1>2, <3>1, <3>2, <4>1 DEF Eligible, Succeeded
      <3> QED
        BY <3>1, <3>3, <3>4, <3>5 DEF Fits, Active
    <2> QED
      BY <2>2
  <1>10. ASSUME NEW outcome \in Outcomes, Finishes(outcome)
         PROVE  \A n \in NodeIds : Fits(n)'
    <2>1. node' = node /\ stage' = "Terminal" /\ NoneActive
      BY <1>10 DEF Finishes, Finish, CanFinish
    <2>2. \A n \in NodeIds : StageOf(n) # "Terminal"
      BY StageNodes
    <2> QED
      BY <1>1, <2>1, <2>2 DEF Fits, Eligible, NoneActive, Active, Succeeded
  <1>11. ASSUME Reopens
         PROVE  \A n \in NodeIds : Fits(n)'
    <2>1. node' = Reopened /\ stage = "Repair" /\ stage' = stage
      BY <1>11 DEF Reopens, PriorInvalidated, Invalidates, Repaired
    <2>2. \A n \in NodeIds : \/ node'[n] = node[n]
                             \/ node[n] = "Succeeded" /\ node'[n] = "Pending"
      BY <1>1, <2>1 DEF Reopened
    <2>3. ASSUME NEW n \in NodeIds, n \in Repairs
          PROVE  Fits(n)'
      <3>1. Dependencies(n) = {} /\ n \notin CheckNodes
        BY <2>3, NodeKinds, NodeDependencies
      <3>2. node'[n] = node[n]
        BY <2>2, <3>1, NodeEffects DEF Effects
      <3> QED
        BY <1>3, <2>1, <3>1, <3>2
    <2>4. ASSUME NEW n \in NodeIds, n \notin Repairs
          PROVE  Fits(n)'
      <3>1. StageOf(n) # "Repair"
        BY <2>4, StageNodes
      <3> QED
        BY <1>1, <2>1, <2>2, <3>1 DEF Fits, Eligible, Active
    <2> QED
      BY <2>3, <2>4
  <1>12. ASSUME \/ \E kind \in ProofKinds, n \in NodeIds \cup {"None"} : Records(kind, n)
                \/ StageMoves \/ UNCHANGED vars
         PROVE  \A n \in NodeIds : Fits(n)'
    <2>1. stage' = stage /\ node' = node
      BY <1>12, StageMovesKeep DEF Records, Record, vars, graphVars
    <2> QED
      BY <1>3, <2>1
  <1>13. ASSUME NEW p \in Passages, Advances(p[1], p[2])
         PROVE  <<stage, stage'>> \in Passages /\ Advances(stage, stage')
    <2>1. stage = p[1] /\ stage' = p[2] /\ p = <<p[1], p[2]>>
      BY <1>13 DEF Advances, Advance, CanAdvance, Passages
    <2> QED
      BY <1>13, <2>1
  <1>14. \A n \in NodeIds : Fits(n)'
    BY <1>4, <1>5, <1>6, <1>7, <1>8, <1>9, <1>10, <1>11, <1>12, <1>13 DEF Moves, GraphMoves
  <1> QED
    BY <1>14 DEF NodesFit, Fits

\* After the end nothing is active, and nothing but what is known changes.
LEMMA NothingAfterTheEnd ==
    ASSUME IInv, Moves, stage = "Terminal"
    PROVE  /\ UNCHANGED <<stage, node, revision, call, usage, result>>
           /\ UNCHANGED <<discovery, planning, mutation, validation, review, publication>>
           /\ NoneActive /\ call = NoCall
  <1>1. NoneActive /\ call = NoCall
    <2>1. NoneActive
      BY DEF IInv, GraphFollows, ResultIsCanonical
    <2> QED
      BY <2>1, NoCallWithoutOwner DEF IInv
  <1>2. ~\E n \in NodeIds : Starts(n)
    BY StageNodes DEF Starts, Start, CanStart
  <1>3. ~\E n \in NodeIds : Succeeds(n) \/ \E t \in BOOLEAN : Fails(n, t)
    BY <1>1 DEF Succeeds, Succeed, CanSucceed, Fails, Fail, CanFail, NoneActive, Active
  <1>4. ~AddsPlan /\ ~(\E r \in Repairs : AddsRepair(r)) /\ ~Reopens
    BY DEF AddsPlan, AddPlan, AddsRepair, AddRepair, Reopens, PriorInvalidated,
           Invalidates, Repaired
  <1>5. ~\E p \in Passages : Advances(p[1], p[2])
    <2>1. \A p \in Passages : p[1] # "Terminal"
      BY DEF Passages
    <2> QED
      BY <2>1 DEF Advances, Advance, CanAdvance
  <1>6. ~\E outcome \in Outcomes : Finishes(outcome)
    BY DEF Finishes
  <1>7. ~DiscoveryMoves /\ ~PlanningMoves /\ ~ValidationMoves /\ ~ReviewMoves
        /\ ~PublicationMoves
    BY DiscoveryMovesKeep, PlanningMovesKeep, ValidationMovesKeep, ReviewMovesKeep,
       PublicationMovesKeep DEF BeforePlanning
  <1>8. ~\E n \in Mutators : MutationMoves(n)
    BY <1>1, MutationMovesKeep DEF NoneActive
  <1>9. ~Calls
    BY <1>1 DEF Calls, CallLifecycle, Admit, Reserve, Dispatch, Consume, Release, NoCall
  <1>10. ASSUME NEW kind, NEW n, Records(kind, n)
         PROVE  /\ UNCHANGED <<stage, node, revision, call, usage, result>>
                /\ UNCHANGED <<discovery, planning, mutation, validation, review,
                               publication>>
    BY <1>10 DEF Records, Record
  <1>11. ASSUME UNCHANGED vars
         PROVE  /\ UNCHANGED <<stage, node, revision, call, usage, result>>
                /\ UNCHANGED <<discovery, planning, mutation, validation, review,
                               publication>>
    BY <1>11 DEF vars, graphVars
  <1> QED
    BY <1>1, <1>2, <1>3, <1>4, <1>5, <1>6, <1>7, <1>8, <1>9, <1>10, <1>11
       DEF Moves, GraphMoves, StageMoves

LEMMA NextResult ==
    ASSUME IInv, Moves
    PROVE  ResultIsCanonical'
  <1>1. ResultIsCanonical /\ result \in Outcomes \cup {"None"} /\ "None" \notin Outcomes
    BY DEF IInv, GraphFollows, GraphTypeOK, Outcomes
  <1>2. (result' # "None") <=> stage' = "Terminal"
    <2>1. CASE stage = "Terminal"
      BY <1>1, <2>1, NothingAfterTheEnd DEF ResultIsCanonical
    <2>2. CASE stage # "Terminal"
      BY <1>1, <2>2, ResultEffects DEF ResultIsCanonical
    <2> QED
      BY <2>1, <2>2
  <1>3. ASSUME stage' = "Terminal"
        PROVE  (NoneActive /\ ~OpenCall)'
    <2>1. CASE stage = "Terminal"
      BY <2>1, NothingAfterTheEnd DEF NoneActive, Active, OpenCall, NoCall
    <2>2. CASE \E outcome \in Outcomes : Finishes(outcome)
      BY <2>2 DEF Finishes, Finish, CanFinish, NoneActive, Active, OpenCall, NoCall
    <2>3. \A p \in Passages : p[2] # "Terminal"
      BY DEF Passages
    <2>4. <<stage, stage'>> \notin Passages
      BY <1>3, <2>3
    <2> QED
      BY <1>3, <2>1, <2>2, <2>4, StageEffects
  <1> QED
    BY <1>2, <1>3 DEF ResultIsCanonical

\* The owner of a call stays active as long as the call is in progress.
LEMMA OwnerStays ==
    ASSUME IInv, Moves, call.state # "None"
    PROVE  /\ call.node \in ModelNodes /\ call.node \in NodeIds
           /\ Active(call.node) /\ node'[call.node] = "Active"
  <1>1. call.node \in ModelNodes /\ call.node \in NodeIds /\ Active(call.node)
    BY DEF IInv, GraphFollows, CallFollows, NodeIds
  <1>2. call # NoCall
    BY DEF NoCall
  <1>3. \A n \in NodeIds : ~Succeeds(n) /\ \A t \in BOOLEAN : ~Fails(n, t)
    BY <1>2 DEF Succeeds, Fails
  <1> QED
    BY <1>1, <1>3, NodeEffects DEF Effects, Active

-----------------------------------------------------------------------------
(* Calls and budgets.                                                        *)

Accounts == [calls : Nat, held : Nat, cost : Nat, heldCost : Nat]
OpenCalls == [state : CallStates, node : ModelNodes \cup {"None"}, cost : Nat]

\* What is left of an account whose record is u.
Within(o, u) ==
    u.calls + u.held <= CallLimit[o] /\ u.cost + u.heldCost <= CostLimit[o]

\* Whether u, the record of o, holds the call c that is reserved for it.
Agrees(o, u, c) ==
    LET holds == (o = "Mission" \/ c.node = o) /\ c.state \in {"Reserved", "Dispatched"}
    IN  /\ u.held = IF holds THEN 1 ELSE 0
        /\ u.heldCost = IF holds THEN c.cost ELSE 0

LEMMA BudgetMeans ==
    ASSUME GraphTypeOK
    PROVE  BudgetFollows <=>
             /\ OpenCall => Active(call.node)
             /\ \A o \in Owners : Agrees(o, usage[o], call) /\ Within(o, usage[o])
  <1>1. \A o \in Owners : /\ usage[o] \in Accounts
                          /\ CallLimit[o] \in Nat /\ CostLimit[o] \in Nat
    BY GraphAssumption DEF GraphTypeOK, Accounts
  <1>2. \A o \in Owners : Within(o, usage[o]) <=> CallsLeft(o) >= 0 /\ CostLeft(o) >= 0
    BY <1>1 DEF Within, CallsLeft, CostLeft, Accounts
  <1>3. \A n \in ModelNodes : n # "Mission"
    BY NodeKinds DEF NodeIds
  <1>4. Owners = ModelNodes \cup {"Mission"}
    BY DEF Owners
  <1>5. \A n \in ModelNodes :
           Agrees(n, usage[n], call) <=>
             /\ usage[n].held = IF Holds(n) THEN 1 ELSE 0
             /\ usage[n].heldCost = IF Holds(n) THEN call.cost ELSE 0
    BY <1>3 DEF Agrees, Holds
  <1>6. Agrees("Mission", usage["Mission"], call) <=>
          /\ usage["Mission"].held = IF call.state \in {"Reserved", "Dispatched"} THEN 1 ELSE 0
          /\ usage["Mission"].heldCost =
               IF call.state \in {"Reserved", "Dispatched"} THEN call.cost ELSE 0
    BY DEF Agrees
  <1> QED
    BY <1>2, <1>4, <1>5, <1>6 DEF BudgetFollows, BudgetsAgree

\* What holding, freeing and counting a call make of a record.
LEMMA ChargedRecords ==
    ASSUME NEW u \in Accounts, call.cost \in Nat
    PROVE  /\ Holding(u) \in Accounts
           /\ Holding(u).calls = u.calls /\ Holding(u).held = u.held + 1
           /\ Holding(u).cost = u.cost /\ Holding(u).heldCost = u.heldCost + call.cost
           /\ u.held = 1 /\ u.heldCost = call.cost =>
                /\ Freeing(u) \in Accounts
                /\ Freeing(u).calls = u.calls /\ Freeing(u).held = 0
                /\ Freeing(u).cost = u.cost /\ Freeing(u).heldCost = 0
  <1>1. u.held + 1 \in Nat /\ u.heldCost + call.cost \in Nat
    BY DEF Accounts
  <1>2. /\ Holding(u).calls = u.calls /\ Holding(u).held = u.held + 1
        /\ Holding(u).cost = u.cost /\ Holding(u).heldCost = u.heldCost + call.cost
    BY DEF Accounts, Holding
  <1>3. Holding(u) \in Accounts
    BY <1>1 DEF Accounts, Holding
  <1>4. ASSUME u.held = 1, u.heldCost = call.cost
        PROVE  /\ Freeing(u).calls = u.calls /\ Freeing(u).held = 0
               /\ Freeing(u).cost = u.cost /\ Freeing(u).heldCost = 0
    BY <1>4 DEF Accounts, Freeing
  <1>5. ASSUME u.held = 1, u.heldCost = call.cost
        PROVE  Freeing(u) \in Accounts
    <2>1. u.held - 1 \in Nat /\ u.heldCost - call.cost \in Nat
      BY <1>5
    <2> QED
      BY <2>1 DEF Accounts, Freeing
  <1> QED
    BY <1>2, <1>3, <1>4, <1>5

Counted(u, cost) == [u EXCEPT !.calls = @ + 1, !.cost = @ + cost]

LEMMA CountedRecords ==
    ASSUME NEW u \in Accounts, NEW cost \in Nat
    PROVE  /\ Counted(u, cost) \in Accounts
           /\ Counted(u, cost).calls = u.calls + 1 /\ Counted(u, cost).held = u.held
           /\ Counted(u, cost).cost = u.cost + cost
           /\ Counted(u, cost).heldCost = u.heldCost
  <1>1. u.calls + 1 \in Nat /\ u.cost + cost \in Nat
    BY DEF Accounts
  <1> DEFINE w == Counted(u, cost)
  <1>2. w.calls = u.calls + 1 /\ w.held = u.held
        /\ w.cost = u.cost + cost /\ w.heldCost = u.heldCost
    BY DEF Accounts, Counted
  <1>3. w \in Accounts
    BY <1>1 DEF Accounts, Counted
  <1> QED
    BY <1>2, <1>3

\* What is reserved for a call is held for it, of what was left.
LEMMA NextAccounts ==
    ASSUME IInv, CallChanges
    PROVE  /\ usage' \in [Owners -> Accounts] /\ call' \in OpenCalls
           /\ \A o \in Owners : Agrees(o, usage[o], call)' /\ Within(o, usage[o])'
  <1> DEFINE Kept == \A o \in Owners : Agrees(o, usage'[o], call') /\ Within(o, usage'[o])
  <1>1. /\ usage \in [Owners -> Accounts] /\ call \in OpenCalls
        /\ \A o \in Owners : Agrees(o, usage[o], call) /\ Within(o, usage[o])
    BY BudgetMeans DEF IInv, GraphFollows, GraphTypeOK, Accounts, OpenCalls
  <1>0. \A o \in Owners : /\ usage[o] \in Accounts
                          /\ usage[o].calls \in Nat /\ usage[o].held \in Nat
                          /\ usage[o].cost \in Nat /\ usage[o].heldCost \in Nat
    BY <1>1 DEF Accounts
  <1>2. \A o \in Owners : CallLimit[o] \in Nat /\ CostLimit[o] \in Nat
    BY GraphAssumption
  <1>3. Owners = ModelNodes \cup {"Mission"} /\ "Mission" \notin ModelNodes
    BY NodeKinds DEF Owners, NodeIds
  <1>4. call.state # "None" => call.node \in ModelNodes
    BY DEF IInv, GraphFollows, CallFollows
  <1>5. CASE UNCHANGED <<call, usage>>
    BY <1>1, <1>5
  <1>6. ASSUME NEW n \in ModelNodes, Prepare(n)
        PROVE  usage' \in [Owners -> Accounts] /\ call' \in OpenCalls /\ Kept
    <2>1. /\ call' = [state |-> "Prepared", node |-> n, cost |-> Reservation(n)]
          /\ call.state = "None" /\ usage' = usage
      BY <1>6 DEF Prepare
    <2>2. Reservation(n) \in Nat
      <3>2. CostLeft(n) \in Nat /\ CostLeft("Mission") \in Nat
        BY <1>0, <1>1, <1>2, <1>3 DEF CostLeft, Within
      <3> QED
        BY <3>2 DEF Reservation, Smaller
    <2>3. call' \in OpenCalls
      BY <2>1, <2>2 DEF OpenCalls, CallStates
    <2>4. \A o \in Owners : Agrees(o, usage[o], call')
      BY <1>1, <2>1 DEF Agrees
    <2> QED
      BY <1>1, <2>1, <2>3, <2>4
  <1>7. CASE Clear /\ call.state \in {"Consumed", "Released"} /\ UNCHANGED usage
    <2>1. call' \in OpenCalls
      BY <1>7 DEF Clear, NoCall, OpenCalls, CallStates
    <2>2. \A o \in Owners : Agrees(o, usage[o], call')
      BY <1>1, <1>7 DEF Agrees, Clear, NoCall
    <2> QED
      BY <1>1, <1>7, <2>1, <2>2
  <1>8. ASSUME CallLifecycle
        PROVE  usage' \in [Owners -> Accounts] /\ call' \in OpenCalls /\ Kept
    <2>1. /\ call.state \in {"Prepared", "Admitted", "Reserved", "Dispatched"}
          /\ call.node \in ModelNodes /\ call.cost \in Nat
          /\ \E s \in CallStates \ {"None"} : call' = [call EXCEPT !.state = s]
      BY <1>1, <1>4, <1>8 DEF CallLifecycle, Admit, Reserve, Dispatch, Consume, Release,
                              OpenCalls, CallStates
    <2>2. call' \in OpenCalls /\ call'.node = call.node /\ call'.cost = call.cost
      BY <1>1, <2>1 DEF OpenCalls
    <2>3. CASE Admit \/ Dispatch
      <3>1. usage' = usage /\ (\/ call.state = "Prepared" /\ call'.state = "Admitted"
                               \/ call.state = "Reserved" /\ call'.state = "Dispatched")
        BY <1>1, <2>3 DEF Admit, Dispatch, OpenCalls
      <3>2. \A o \in Owners : Agrees(o, usage[o], call')
        BY <1>1, <2>2, <3>1 DEF Agrees
      <3> QED
        BY <1>1, <2>2, <3>1, <3>2
    <2> DEFINE charged == {call.node, "Mission"}
    <2>4. charged \subseteq Owners
      BY <1>3, <2>1
    <2>5. ASSUME NEW u, usage' = Charged(call.node, u), call'.state # "None",
                 \A o \in charged :
                   u[o] \in Accounts /\ Agrees(o, u[o], call') /\ Within(o, u[o])
          PROVE  usage' \in [Owners -> Accounts] /\ call' \in OpenCalls /\ Kept
      <3>1. \A o \in Owners : usage'[o] = IF o \in charged THEN u[o] ELSE usage[o]
        BY <2>5 DEF Charged
      <3>2. usage' = [o \in Owners |-> usage'[o]]
        BY <2>5 DEF Charged
      <3>3. \A o \in Owners \ charged : Agrees(o, usage[o], call')
        BY <1>1, <2>2 DEF Agrees
      <3> HIDE DEF charged
      <3>4. \A o \in Owners : /\ usage'[o] \in Accounts
                              /\ Agrees(o, usage'[o], call') /\ Within(o, usage'[o])
        BY <1>0, <1>1, <2>5, <3>1, <3>3
      <3> QED
        BY <2>2, <3>2, <3>4
    <2>6. CASE Reserve
      <3> DEFINE u == [o \in Owners |-> Holding(usage[o])]
      <3>1. /\ call.state = "Admitted" /\ usage' = Charged(call.node, u)
            /\ call'.state = "Reserved" /\ HasCapacity(call.node, call.cost)
        BY <1>1, <2>6 DEF Reserve, OpenCalls
      <3>2. \A o \in Owners : u[o] = Holding(usage[o])
        OBVIOUS
      <3> HIDE DEF u
      <3>3. \A o \in charged :
              /\ u[o] \in Accounts
              /\ u[o].calls = usage[o].calls /\ u[o].held = usage[o].held + 1
              /\ u[o].cost = usage[o].cost /\ u[o].heldCost = usage[o].heldCost + call.cost
        BY <1>0, <2>1, <2>4, <3>2, ChargedRecords
      <3>4. \A o \in charged : usage[o].held = 0 /\ usage[o].heldCost = 0
        BY <1>1, <2>4, <3>1 DEF Agrees
      <3>5. \A o \in charged : CallsLeft(o) >= 1 /\ CostLeft(o) >= call.cost
        BY <3>1 DEF HasCapacity
      <3>6. \A o \in charged : Agrees(o, u[o], call')
        BY <2>1, <2>2, <3>1, <3>3, <3>4 DEF Agrees
      <3>7. \A o \in charged : Within(o, u[o])
        BY <1>0, <1>2, <2>1, <2>4, <3>3, <3>5 DEF Within, CallsLeft, CostLeft
      <3> HIDE DEF charged, Kept
      <3> QED
        BY <2>5, <3>1, <3>3, <3>6, <3>7
    <2>7. ASSUME call.state \in {"Reserved", "Dispatched"}
          PROVE  \A o \in charged :
                   LET u == Freeing(usage[o])
                   IN  /\ u \in Accounts /\ u.held = 0 /\ u.heldCost = 0
                       /\ u.calls = usage[o].calls /\ u.cost = usage[o].cost
                       /\ usage[o].held = 1 /\ usage[o].heldCost = call.cost
      <3>1. \A o \in charged : usage[o].held = 1 /\ usage[o].heldCost = call.cost
        BY <1>1, <2>4, <2>7 DEF Agrees
      <3> QED
        BY <1>0, <2>1, <2>4, <3>1, ChargedRecords
    <2>8. ASSUME NEW cost \in CallCosts, Consume(cost)
          PROVE  usage' \in [Owners -> Accounts] /\ call' \in OpenCalls /\ Kept
      <3> DEFINE u == [o \in Owners |->
                         [Freeing(usage[o]) EXCEPT !.calls = @ + 1, !.cost = @ + cost]]
      <3>1. /\ call.state = "Dispatched" /\ call'.state = "Consumed" /\ cost <= call.cost
            /\ usage' = Charged(call.node, u)
        BY <1>1, <2>8 DEF Consume, OpenCalls
      <3>2. cost \in Nat
        BY GraphAssumption
      <3>3. ASSUME NEW o \in charged
            PROVE  /\ u[o] \in Accounts /\ Agrees(o, u[o], call') /\ Within(o, u[o])
        <4>1. /\ Freeing(usage[o]) \in Accounts
              /\ Freeing(usage[o]).held = 0 /\ Freeing(usage[o]).heldCost = 0
              /\ Freeing(usage[o]).calls = usage[o].calls
              /\ Freeing(usage[o]).cost = usage[o].cost
              /\ usage[o].held = 1 /\ usage[o].heldCost = call.cost
          BY <2>7, <3>1
        <4>2. u[o] = Counted(Freeing(usage[o]), cost)
          BY <2>4 DEF Counted
        <4> HIDE DEF u
        <4>3. /\ u[o] \in Accounts
              /\ u[o].calls = usage[o].calls + 1 /\ u[o].held = 0
              /\ u[o].cost = usage[o].cost + cost /\ u[o].heldCost = 0
          <5> DEFINE f == Freeing(usage[o])
          <5>1. f \in Accounts /\ f.held = 0 /\ f.heldCost = 0
                /\ f.calls = usage[o].calls /\ f.cost = usage[o].cost
            BY <4>1
          <5>2. u[o] = Counted(f, cost)
            BY <4>2
          <5> HIDE DEF f
          <5>3. /\ Counted(f, cost) \in Accounts
                /\ Counted(f, cost).calls = f.calls + 1 /\ Counted(f, cost).held = f.held
                /\ Counted(f, cost).cost = f.cost + cost
                /\ Counted(f, cost).heldCost = f.heldCost
            BY <3>2, <5>1, CountedRecords
          <5> QED
            BY <5>1, <5>2, <5>3
        <4>4. Agrees(o, u[o], call')
          BY <3>1, <4>3 DEF Agrees
        <4>5. Within(o, u[o])
          BY <1>0, <1>1, <1>2, <2>1, <2>4, <3>1, <3>2, <4>1, <4>3 DEF Within
        <4> QED
          BY <4>3, <4>4, <4>5
      <3> HIDE DEF u, charged, Kept
      <3> QED
        BY <2>5, <3>1, <3>3
    <2>9. ASSUME Release
          PROVE  usage' \in [Owners -> Accounts] /\ call' \in OpenCalls /\ Kept
      <3> DEFINE u == [o \in Owners |-> Freeing(usage[o])]
      <3>1. /\ call.state \in {"Reserved", "Dispatched"} /\ call'.state = "Released"
            /\ usage' = Charged(call.node, u)
        BY <1>1, <2>9 DEF Release, OpenCalls
      <3>2. ASSUME NEW o \in charged
            PROVE  /\ u[o] \in Accounts /\ Agrees(o, u[o], call') /\ Within(o, u[o])
        <4>1. u[o] = Freeing(usage[o])
          BY <2>4
        <4> HIDE DEF u
        <4>2. /\ u[o] \in Accounts /\ u[o].held = 0 /\ u[o].heldCost = 0
              /\ u[o].calls = usage[o].calls /\ u[o].cost = usage[o].cost
              /\ usage[o].held = 1 /\ usage[o].heldCost = call.cost
          BY <2>7, <3>1, <4>1
        <4>3. Agrees(o, u[o], call')
          BY <3>1, <4>2 DEF Agrees
        <4>4. Within(o, u[o])
          BY <1>0, <1>1, <1>2, <2>1, <2>4, <4>2 DEF Within
        <4> QED
          BY <4>2, <4>3, <4>4
      <3> HIDE DEF u, charged, Kept
      <3> QED
        BY <2>5, <3>1, <3>2
    <2> QED
      BY <1>8, <2>3, <2>6, <2>8, <2>9 DEF CallLifecycle
  <1> QED
    BY <1>5, <1>6, <1>7, <1>8 DEF CallChanges

LEMMA NextGraphTypes ==
    ASSUME IInv, Moves
    PROVE  GraphTypeOK'
  BY PositionTypes, NodeEffects, CallEffects, NextAccounts DEF GraphTypeOK, Accounts, OpenCalls

\* A call that is open has the owner that prepared it.
LEMMA NextCallOwner ==
    ASSUME IInv, Moves, call'.state # "None"
    PROVE  /\ call'.node \in ModelNodes /\ node'[call'.node] = "Active"
           /\ call.state # "None" => call'.node = call.node
           /\ call.state = "None" => Prepare(call'.node)
  <1>1. call \in OpenCalls
    BY DEF IInv, GraphTypeOK, OpenCalls
  <1>2. CASE UNCHANGED <<call, usage>>
    BY <1>2, OwnerStays
  <1>3. ASSUME NEW n \in ModelNodes, Prepare(n)
        PROVE  call'.node = n /\ node'[n] = "Active" /\ call.state = "None"
    BY <1>3 DEF Prepare, Active
  <1>4. CASE CallLifecycle
    <2>1. call.state # "None" /\ call'.node = call.node
      BY <1>1, <1>4 DEF CallLifecycle, Admit, Reserve, Dispatch, Consume, Release, OpenCalls
    <2> QED
      BY <2>1, OwnerStays
  <1>5. ~Clear
    BY DEF Clear, NoCall
  <1> QED
    BY <1>2, <1>3, <1>4, <1>5, CallEffects DEF CallChanges

LEMMA NextBudget ==
    ASSUME IInv, Moves
    PROVE  BudgetFollows'
  <1>1. /\ usage' \in [Owners -> Accounts]
        /\ \A o \in Owners : Agrees(o, usage[o], call)' /\ Within(o, usage[o])'
    BY CallEffects, NextAccounts
  <1>2. \A o \in Owners : /\ usage'[o] \in Accounts
                          /\ CallLimit[o] \in Nat /\ CostLimit[o] \in Nat
    BY <1>1, GraphAssumption
  <1>3. \A o \in Owners : CallsLeft(o)' >= 0 /\ CostLeft(o)' >= 0
    BY <1>1, <1>2 DEF Within, CallsLeft, CostLeft, Accounts
  <1>4. Owners = ModelNodes \cup {"Mission"} /\ "Mission" \notin ModelNodes
    BY NodeKinds DEF NodeIds, Owners
  <1>5. \A n \in ModelNodes :
             /\ usage'[n].held = IF Holds(n)' THEN 1 ELSE 0
             /\ usage'[n].heldCost = IF Holds(n)' THEN call'.cost ELSE 0
    BY <1>1, <1>4 DEF Agrees, Holds
  <1>6. /\ usage'["Mission"].held = IF call'.state \in {"Reserved", "Dispatched"} THEN 1 ELSE 0
        /\ usage'["Mission"].heldCost =
             IF call'.state \in {"Reserved", "Dispatched"} THEN call'.cost ELSE 0
    BY <1>1, <1>4 DEF Agrees
  <1>7. OpenCall' => Active(call.node)'
    BY NextCallOwner DEF OpenCall, Active
  <1> QED
    BY <1>3, <1>5, <1>6, <1>7 DEF BudgetFollows, BudgetsAgree

\* Between the steps that open and close a call, only the call and what is
\* known change.
LEMMA WhileCalling ==
    ASSUME IInv, Moves, call.state # "None", call'.state # "None"
    PROVE  /\ UNCHANGED <<stage, node, revision, result>>
           /\ UNCHANGED <<discovery, planning, mutation, validation, review, publication>>
  <1> DEFINE n == call.node
  <1>1. /\ n \in ModelNodes /\ n \in NodeIds /\ Active(n) /\ call # NoCall
        /\ ~Clear /\ ~NoneActive
    BY DEF IInv, GraphFollows, CallFollows, NodeIds, NoCall, Clear, NoneActive
  <1>2. /\ StageOf(n) = stage
        /\ \A m \in NodeIds : Active(m) => m = n
    BY <1>1 DEF IInv, GraphFollows, OneOwner, NodesFit, Eligible
  <1>3. /\ n = "Discovery" => discovery.convergence = "None" /\ discovery.action.class # "None"
        /\ n = "Planning" => ~PlanAccepted /\ planning.convergence = "None"
        /\ n \in Mutators => mutation.step = "Act" /\ mutation.released < UncontactedLimit
        /\ n \in {"Review", "CompletionEvaluation"} => Binding(n)
    BY DEF IInv, GraphFollows, CallFollows
  <1>4. {"Discovery", "Planning", "Review", "CompletionEvaluation", "Publication"} \subseteq NodeIds
    BY NodeKinds DEF Final
  <1>5. n \notin CheckNodes /\ n # "Publication"
    BY <1>1, NodeKinds
  <1> HIDE DEF n
  <1>6. ~(stage = "Repair" /\ Repaired)
    <2>1. n \in Repairs => validation.repairer = n
      BY <1>1 DEF IInv, ValidationFollows, RepairFollows, Active
    <2>2. stage = "Repair" => n \in Repairs
      BY <1>1, <1>2, StageNodes
    <2> QED
      BY <1>1, <2>1, <2>2 DEF Repaired, Active
  <1>7. ASSUME GraphMoves
        PROVE  /\ UNCHANGED <<stage, node, revision, result>>
               /\ UNCHANGED <<discovery, planning, mutation, validation, review, publication>>
    <2>1. ~AddsPlan
      BY <1>2, <1>3, <1>4 DEF AddsPlan
    <2>2. ~Reopens
      BY <1>6 DEF Reopens, PriorInvalidated, Invalidates, Repaired
    <2>3. \E kind \in ProofKinds, m \in NodeIds \cup {"None"} : Records(kind, m)
      BY <1>1, <1>7, <2>1, <2>2 DEF GraphMoves, Starts, Succeeds, Fails, AddsRepair, Advances,
                                    Finishes
    <2> QED
      BY <2>3 DEF Records, Record
  <1>8. ~DiscoveryMoves
    <2>1. ASSUME DiscoveryMoves PROVE FALSE
      <3>1. stage \in BeforePlanning
        BY <2>1, DiscoveryMovesKeep
      <3>2. stage = "Discovery"
        BY <1>1, <1>2, <3>1, StageNodes DEF BeforePlanning
      <3>3. ProfileRecorded \/ GoalRecorded
        BY <1>1, <2>1 DEF DiscoveryMoves, DiscoveryPrepares, SearchCompleted, FilesRead,
              RelationshipsRecorded, ImpactMapRecorded, DiscoveryRejects, DiscoveryReleases,
              CandidatesRecorded, DiscoveryConverges, DeterministicMap, Observes, Converged,
              Deciding
      <3> QED
        BY <3>2, <3>3 DEF ProfileRecorded, GoalRecorded
    <2> QED
      BY <2>1
  <1>9. ~PlanningMoves
    BY <1>1 DEF PlanningMoves, PlanningPrepares, CandidateRecorded, PlanningRejects,
                PlanningReleases, PlanningConverges, PlanningObserves, Unplanned
  <1>10. ASSUME NEW m \in Mutators PROVE ~MutationMoves(m)
    <2>1. ASSUME MutationMoves(m) PROVE FALSE
      <3>1. m = n
        BY <1>2, <2>1, MutationMovesKeep
      <3>2. mutation.step = "Act" /\ mutation.released < UncontactedLimit
        BY <1>3, <3>1
      <3>3. MutationConverges(m)
        BY <1>1, <2>1, <3>2 DEF MutationMoves, ContextPrepared, FeasibilityEvaluated,
              PolicySelected, ActionPrepared, Prepare, ActionReleased, MutationCandidate,
              ActionRejected, ActionEnded, AttemptFailed, ApplicationObserved, AttemptRetried,
              MutationVerified, ContextSuperseded, Mutating
      <3> QED
        BY <3>2, <3>3 DEF MutationConverges, Convergence
    <2> QED
      BY <2>1
  <1>11. ~ValidationMoves
    <2>1. ASSUME ValidationMoves PROVE FALSE
      <3>1. stage = "Repair"
        BY <1>1, <1>2, <1>5, <2>1, ValidationMovesKeep, StageNodes
      <3> QED
        BY <1>1, <1>6, <2>1, <3>1 DEF ValidationMoves, ValidationScheduled, ProcessStarted,
           ProcessCompleted, EvidenceRecorded, FailureRecorded, GateConverges,
           CandidatesRanked, EligibilityEvaluated, TargetSelected, RepairConverges,
           RerunScheduled, RunAdvances, RepairStepped, Choosing, Validating
    <2> QED
      BY <2>1
  <1>12. ~ReviewMoves
    <2>1. ASSUME ReviewMoves PROVE FALSE
      <3>1. n \in {"Review", "CompletionEvaluation"} /\ Binding(n)
        BY <1>1, <1>2, <1>3, <2>1, ReviewMovesKeep, StageNodes
      <3>2. /\ Reviewing
            /\ Active("Review") => review.manifest # "None" /\ review.unread > 0
            /\ Active("CompletionEvaluation") => review.completion = "None"
        BY <1>2, <1>4, <3>1 DEF Binding
      <3>3. /\ review.request = "None" => review.manifest = "None"
            /\ review.verdict # "None" => review.unread = 0
        BY DEF IInv, ReviewFollows
      <3>4. ReviewConverges
        <4>1. ~DiffManifestRequested /\ ~DiffManifestRecorded /\ ~DiffManifestBuildFailed
          BY <3>2, <3>3 DEF DiffManifestRequested, DiffManifestRecorded,
                            DiffManifestBuildFailed, AwaitsDiff
        <4>2. /\ ~ReviewActionPrepared /\ ~ReviewActionReleased /\ ~ReviewActionRejected
              /\ ~DiffPageReviewed /\ ~CompletionEvaluationRecorded
          BY <1>1 DEF ReviewActionPrepared, Prepare, ReviewActionReleased,
             ReviewActionRejected, DiffPageReviewed, CompletionEvaluationRecorded,
             ReviewActionEnds
        <4>3. ~DiffReviewRecorded
          BY <3>2 DEF DiffReviewRecorded
        <4>4. /\ ~PublicationAuthorityRequested /\ ~PublicationAuthorityObserved
              /\ ~PublicationAuthorityObservationFailed /\ ~PublicationEligibilityEvaluated
          BY <1>1 DEF PublicationAuthorityRequested, PublicationAuthorityObserved,
             PublicationAuthorityObservationFailed, PublicationEligibilityEvaluated,
             AwaitsAuthority, Concluded
        <4> QED
          BY <2>1, <4>1, <4>2, <4>3, <4>4 DEF ReviewMoves
      <3>5. ReviewConvergence = "None"
        BY <1>1, <3>2, <3>3 DEF ReviewConvergence, Reviewing
      <3> QED
        BY <3>4, <3>5 DEF ReviewConverges
    <2> QED
      BY <2>1
  <1>13. ~PublicationMoves
    BY <1>2, <1>4, <1>5, PublicationMovesKeep DEF Publishing
  <1>14. ASSUME Calls
         PROVE  /\ UNCHANGED <<stage, node, revision, result>>
                /\ UNCHANGED <<discovery, planning, mutation, validation, review, publication>>
    BY <1>14, CallsKeep DEF Calls, NodesKept
  <1> QED
    BY <1>7, <1>8, <1>9, <1>10, <1>11, <1>12, <1>13, <1>14
       DEF Moves, StageMoves, vars, graphVars

\* The steps that open a call.
LEMMA OpeningCalls ==
    ASSUME IInv, Moves, call.state = "None", call'.state # "None"
    PROVE  \/ DiscoveryPrepares /\ DiscoveryMoves
           \/ PlanningPrepares /\ PlanningMoves
           \/ \E n \in Mutators : ActionPrepared(n) /\ MutationMoves(n)
           \/ ReviewActionPrepared /\ ReviewMoves
  <1>1. ~Clear /\ call' # call
    BY DEF Clear, NoCall
  <1>2. ~GraphMoves /\ ~UNCHANGED vars
    BY <1>1, GraphMovesKeep DEF vars, graphVars
  <1>3. ~ValidationMoves /\ ~PublicationMoves
    BY <1>1, ValidationMovesKeep, PublicationMovesKeep DEF graphVars
  <1>4. ~Calls
    BY DEF Calls, CallLifecycle, Admit, Reserve, Dispatch, Consume, Release
  <1>5. DiscoveryMoves => DiscoveryPrepares
    BY <1>1 DEF DiscoveryMoves, ProfileRecorded, GoalRecorded, SearchCompleted, FilesRead,
          RelationshipsRecorded, ImpactMapRecorded, DiscoveryRejects, DiscoveryReleases,
          CandidatesRecorded, DiscoveryConverges, DeterministicMap, Observes, graphVars
  <1>6. PlanningMoves => PlanningPrepares
    BY <1>1 DEF PlanningMoves, CandidateRecorded, PlanningRejects,
                PlanningReleases, PlanningConverges, PlanningObserves, graphVars
  <1>7. ASSUME NEW n \in Mutators, MutationMoves(n)
        PROVE  ActionPrepared(n)
    BY <1>1, <1>7 DEF MutationMoves, ContextPrepared, FeasibilityEvaluated,
              PolicySelected, ActionReleased, MutationCandidate,
              ActionRejected, ActionEnded, AttemptFailed, ApplicationObserved, AttemptRetried,
              MutationVerified, ContextSuperseded, MutationConverges, graphVars
  <1>8. ReviewMoves => ReviewActionPrepared
    BY <1>1 DEF ReviewMoves, DiffManifestRequested, DiffManifestRecorded,
          DiffManifestBuildFailed, ReviewActionReleased, ReviewActionRejected,
          DiffPageReviewed, DiffReviewRecorded, CompletionEvaluationRecorded,
          ReviewActionEnds, PublicationAuthorityRequested, PublicationAuthorityObserved,
          PublicationAuthorityObservationFailed, PublicationEligibilityEvaluated,
          ReviewConverges, Reviewed, graphVars
  <1> QED
    BY <1>2, <1>3, <1>4, <1>5, <1>6, <1>7, <1>8 DEF Moves, StageMoves

LEMMA ActionClasses ==
    ASSUME NEW a \in Bindings
    PROVE  a.class \in {"DiscoverCandidates", "GroundCandidateEvidence",
                        "ResolveNamedRelationship", "RecordImpactMap"}
  BY DEF Bindings, Substate

LEMMA NextCall ==
    ASSUME IInv, Moves
    PROVE  CallFollows'
  <1>1. call'.state = "None" => call' = NoCall
    <2>1. call \in OpenCalls /\ (call.state = "None" => call = NoCall)
      BY DEF IInv, GraphTypeOK, GraphFollows, CallFollows, OpenCalls
    <2>2. CASE UNCHANGED <<call, usage>>
      BY <2>1, <2>2
    <2>3. ASSUME NEW n \in ModelNodes, Prepare(n) PROVE call'.state # "None"
      BY <2>3 DEF Prepare
    <2>4. CallLifecycle => call'.state # "None"
      BY <2>1 DEF CallLifecycle, Admit, Reserve, Dispatch, Consume, Release, OpenCalls
    <2> QED
      BY <2>2, <2>3, <2>4, CallEffects DEF CallChanges, Clear
  <1>2. CASE call'.state = "None"
    BY <1>1, <1>2 DEF CallFollows
  <1>3. CASE call'.state # "None" /\ call.state # "None"
    <2>1. call'.node = call.node
      BY <1>3, NextCallOwner
    <2>2. CallFollows /\ UNCHANGED <<stage, node, revision, discovery, planning, mutation, review>>
      BY <1>3, WhileCalling DEF IInv, GraphFollows
    <2> QED
      BY <1>3, <2>1, <2>2 DEF CallFollows, PlanAccepted, Binding, Reviewing, Active
  <1>4. CASE call'.state # "None" /\ call.state = "None"
    <2>1. /\ call'.node \in ModelNodes /\ node'[call'.node] = "Active"
          /\ Prepare(call'.node) /\ Active(call'.node)
      BY <1>4, NextCallOwner DEF Prepare
    <2>2. ASSUME NEW n, Prepare(n) PROVE call'.node = n
      BY <2>2 DEF Prepare
    <2>3. CASE DiscoveryPrepares /\ DiscoveryMoves
      <3>1. call'.node = "Discovery"
        BY <2>2, <2>3 DEF DiscoveryPrepares
      <3>2. discovery'.convergence = "None" /\ discovery'.action.class # "None"
        <4>1. PICK a \in Bindings : discovery' = [discovery EXCEPT !.action = a]
          BY <2>3 DEF DiscoveryPrepares
        <4>2. discovery \in DiscoveryStates /\ discovery.convergence = "None"
          BY <2>3 DEF IInv, DiscoveryFollows, DiscoveryPrepares, Deciding
        <4>3. discovery'.action = a /\ discovery'.convergence = "None"
          BY <4>1, <4>2 DEF DiscoveryStates
        <4> QED
          BY <4>3, ActionClasses
      <3>3. "Discovery" \notin Mutators
        BY NodeKinds DEF Mutators
      <3> QED
        BY <1>4, <2>1, <3>1, <3>2, <3>3 DEF CallFollows, Active
    <2>4. CASE PlanningPrepares /\ PlanningMoves
      <3>1. call'.node = "Planning" /\ ~PlanAccepted /\ planning.convergence = "None"
            /\ planning' = planning
        BY <2>2, <2>4 DEF PlanningPrepares, Unplanned
      <3>2. "Planning" \notin Mutators
        BY NodeKinds DEF Mutators
      <3> QED
        BY <1>4, <2>1, <3>1, <3>2 DEF CallFollows, PlanAccepted, Active
    <2>5. ASSUME NEW n \in Mutators, ActionPrepared(n)
          PROVE  CallFollows'
      <3>1. /\ call'.node = n /\ mutation.step = "Act" /\ mutation.released < UncontactedLimit
            /\ mutation' = mutation
        BY <2>2, <2>5 DEF ActionPrepared, Mutating
      <3>2. n \notin {"Discovery", "Planning", "Review", "CompletionEvaluation"}
        BY NodeKinds DEF Mutators, Final
      <3> QED
        BY <1>4, <2>1, <3>1, <3>2 DEF CallFollows, Active
    <2>6. CASE ReviewActionPrepared /\ ReviewMoves
      <3>1. PICK n \in {"Review", "CompletionEvaluation"} : Binding(n) /\ Prepare(n)
        BY <2>6 DEF ReviewActionPrepared
      <3>2. /\ call'.node = n /\ review.released < ReleaseLimit
            /\ UNCHANGED <<review, stage, node>>
        BY <2>2, <2>6, <3>1 DEF ReviewActionPrepared, Prepare
      <3>3. Binding(call.node)'
        BY <3>1, <3>2 DEF Binding, Reviewing, Active
      <3>4. n \notin Mutators
        BY NodeKinds DEF Mutators, Final
      <3> QED
        BY <1>4, <2>1, <3>2, <3>3, <3>4 DEF CallFollows, Active
    <2> QED
      BY <1>4, <2>3, <2>4, <2>5, <2>6, OpeningCalls
  <1> QED
    BY <1>2, <1>3, <1>4

LEMMA NextGraph ==
    ASSUME IInv, Moves
    PROVE  GraphTypeOK' /\ GraphFollows'
  BY NextGraphTypes, NextOwner, NextFits, NextProved, NextStages, NextBudget, NextCall,
     NextResult DEF GraphFollows

-----------------------------------------------------------------------------
(* Whose steps change what.                                                  *)

LEMMA StateEffects ==
    ASSUME Moves
    PROVE  /\ discovery' = discovery \/ DiscoveryMoves
           /\ planning' = planning \/ PlanningMoves
           /\ \/ mutation' = mutation
              \/ \E n \in Mutators : MutationMoves(n)
              \/ mutation' = Untouched /\ \E n \in Mutators : Starts(n) \/ Succeeds(n)
           /\ \/ validation' = validation \/ ValidationMoves \/ Reopens
              \/ Advances("Implementation", "Validation")
           /\ \/ review' = review \/ ReviewMoves \/ Advances("Validation", "Review")
           /\ publication' = publication \/ PublicationMoves
  <1>1. CASE StageMoves
    BY <1>1 DEF StageMoves, DiscoveryMoves, PlanningMoves, MutationMoves, ValidationMoves,
                ReviewMoves, PublicationMoves, Calls
  <1>2. ASSUME NEW p \in Passages, Advances(p[1], p[2])
        PROVE  /\ UNCHANGED <<discovery, planning, mutation, publication>>
               /\ validation' = validation \/ Advances("Implementation", "Validation")
               /\ review' = review \/ Advances("Validation", "Review")
    <2>1. /\ p[1] = "Implementation" => p[2] = "Validation"
          /\ p[2] = "Review" => p[1] = "Validation"
      BY DEF Passages
    <2>2. UNCHANGED <<discovery, planning, mutation, publication>>
      BY <1>2 DEF Advances
    <2>3. p[1] # "Implementation" => validation' = validation
      BY <1>2 DEF Advances
    <2>4. p[2] # "Review" => review' = review
      BY <1>2 DEF Advances
    <2> QED
      BY <1>2, <2>1, <2>2, <2>3, <2>4
  <1>3. ASSUME NEW n \in NodeIds, Starts(n) \/ Succeeds(n)
        PROVE  /\ UNCHANGED <<discovery, planning, validation, review, publication>>
               /\ mutation' = mutation \/ (mutation' = Untouched /\ n \in Mutators)
    BY <1>3 DEF Starts, Succeeds
  <1>4. ASSUME \/ \E kind \in ProofKinds, n \in NodeIds \cup {"None"} : Records(kind, n)
               \/ \E n \in NodeIds, terminal \in BOOLEAN : Fails(n, terminal)
               \/ AddsPlan \/ \E r \in Repairs : AddsRepair(r)
               \/ \E outcome \in Outcomes : Finishes(outcome)
        PROVE  UNCHANGED <<discovery, planning, mutation, validation, review, publication>>
    BY <1>4 DEF Records, Fails, AddsPlan, AddsRepair, Finishes
  <1>5. ASSUME Reopens
        PROVE  UNCHANGED <<discovery, planning, mutation, review, publication>>
    BY <1>5 DEF Reopens
  <1>6. CASE UNCHANGED vars
    BY <1>6 DEF vars
  <1> QED
    BY <1>1, <1>2, <1>3, <1>4, <1>5, <1>6 DEF Moves, GraphMoves

\* A stage that is left is left by Advances or Finishes, an end by nothing.
LEMMA Leaving ==
    ASSUME Moves, stage' # stage
    PROVE  \/ <<stage, stage'>> \in Passages /\ Advances(stage, stage')
           \/ stage' = "Terminal" /\ stage # "Terminal"
              /\ \E outcome \in Outcomes : Finishes(outcome) /\ result' = outcome
  <1>1. \A outcome \in Outcomes : Finishes(outcome) => result' = outcome
    BY DEF Finishes, Finish
  <1> QED
    BY <1>1, StageEffects

\* Which stage a stage is entered from.
LEMMA EnteredFrom ==
    ASSUME <<stage, stage'>> \in Passages
    PROVE  /\ stage' \notin {"Profiling", "Terminal"} /\ stage # "Terminal"
           /\ stage' = "Discovery" => stage = "Profiling"
           /\ stage' = "Planning" => stage = "Discovery"
           /\ stage' = "Implementation" => stage = "Planning"
           /\ stage' = "Validation" => stage \in {"Implementation", "Repair"}
           /\ stage' = "Repair" => stage = "Validation"
           /\ stage' = "Review" => stage = "Validation"
           /\ stage' = "Publication" => stage = "Review"
  BY DEF Passages
-----------------------------------------------------------------------------
(* Discovery.                                                                *)

LEMMA EvidenceIsOfPaths ==
    ASSUME discovery \in DiscoveryStates
    PROVE  /\ \A c \in Criteria : Grounding(c) \subseteq Paths
           /\ MapEvidence \subseteq Paths
           /\ \A c \in Criteria :
                Areas(c) \subseteq [paths : SUBSET Paths, evidence : SUBSET Paths]
  <1>1. \A c \in Criteria : Grounding(c) \subseteq Paths
    BY DEF DiscoveryStates, Grounding
  <1>2. MapEvidence \subseteq Paths
    BY <1>1 DEF MapEvidence, Best
  <1> QED
    BY <1>1, <1>2 DEF Areas

\* A new order of new candidates.
LEMMA FoundInOrder ==
    ASSUME NEW S \in SUBSET Paths, NEW found \in SetToSeqs(S)
    PROVE  found \in Seq(Paths)
  <1>1. IsFiniteSet(S)
    BY DiscoveryAssumption, FS_Subset
  <1>2. Cardinality(S) \in Nat
    BY <1>1, FS_CardinalityType
  <1>3. found \in [1 .. Cardinality(S) -> S]
    BY DEF SetToSeqs
  <1> QED
    BY <1>2, <1>3

\* What a step of discovery leaves of what it knows.
DiscoveryGoesOn ==
    /\ discovery' \in DiscoveryStates /\ discovery'.whole \subseteq discovery'.grounded
    /\ stage = "Profiling" \/ discovery'.profile = discovery.profile
    /\ stage = "Profiling" => discovery'.action = discovery.action
    /\ \/ discovery'.convergence \in {discovery.convergence, "None"}
       \/ Active("Discovery")

LEMMA DiscoveryStepTypes ==
    ASSUME IInv, DiscoveryMoves
    PROVE  DiscoveryGoesOn
  <1>1. discovery \in DiscoveryStates /\ discovery.whole \subseteq discovery.grounded
    BY DEF IInv, DiscoveryFollows
  <1>2. discovery.action \in Actions
    BY <1>1 DEF DiscoveryStates
  <1>3. CASE ProfileRecorded \/ GoalRecorded
    BY <1>1, <1>3 DEF ProfileRecorded, GoalRecorded, DiscoveryStates, DiscoveryGoesOn
  <1>4. CASE DiscoveryPrepares
    <2>1. PICK a \in Bindings : discovery' = [discovery EXCEPT !.action = a]
      BY <1>4 DEF DiscoveryPrepares
    <2>2. a \in Actions
      <3>1. \A s \in Searches : {s} \in SUBSET Searches
        OBVIOUS
      <3>2. \A q \in discovery.questions : {q} \in SUBSET Paths
        BY <1>1 DEF DiscoveryStates
      <3>3. NextReads \in SUBSET Paths
        BY DEF NextReads, Ungrounded, Candidates
      <3> QED
        BY <3>1, <3>2, <3>3 DEF Bindings, Substate, Actions, ReadingActions
    <2>3. stage = "Discovery"
      BY <1>4 DEF DiscoveryPrepares, Deciding
    <2> QED
      BY <1>1, <2>1, <2>2, <2>3 DEF DiscoveryStates, DiscoveryGoesOn
  <1>5. CASE SearchCompleted
    <2>1. /\ stage = "Discovery" /\ discovery.action.class = "DiscoverCandidates"
      BY <1>5 DEF SearchCompleted, Observes
    <2>2. PICK matched \in SUBSET Paths, s \in discovery.action.on :
            discovery' = [discovery EXCEPT
              !.searched = [t \in DOMAIN @ \cup {s} |-> IF t = s THEN matched ELSE @[t]],
              !.action = NoAction]
      BY <1>5 DEF SearchCompleted
    <2> DEFINE more == [t \in DOMAIN discovery.searched \cup {s} |->
                          IF t = s THEN matched ELSE discovery.searched[t]]
    <2>3. s \in Searches
      BY <1>2, <2>1 DEF Actions, ReadingActions
    <2>4. more \in PartialSearches
      <3>1. PICK S \in SUBSET Searches : discovery.searched \in [S -> SUBSET Paths]
        BY <1>1 DEF DiscoveryStates, PartialSearches
      <3>2. more \in [S \cup {s} -> SUBSET Paths] /\ S \cup {s} \in SUBSET Searches
        BY <2>3, <3>1
      <3> HIDE DEF more
      <3> QED
        BY <3>2 DEF PartialSearches
    <2>5. discovery' = [discovery EXCEPT !.searched = more, !.action = NoAction]
      BY <2>2
    <2> HIDE DEF more
    <2>6. NoAction \in Actions
      BY DEF NoAction, Actions, ReadingActions
    <2> QED
      BY <1>1, <2>1, <2>4, <2>5, <2>6 DEF DiscoveryStates, DiscoveryGoesOn
  <1>6. CASE FilesRead
    <2>1. /\ stage = "Discovery"
          /\ discovery.action.class \in {"GroundCandidateEvidence", "ResolveNamedRelationship"}
      BY <1>6 DEF FilesRead, Observes
    <2>2. PICK asked, ended \in SUBSET discovery.action.on :
            discovery' = [discovery EXCEPT
              !.grounded = @ \cup discovery.action.on, !.whole = @ \cup ended,
              !.questions = @ \cup asked, !.action = NoAction]
      BY <1>6 DEF FilesRead
    <2>3. discovery.action.on \subseteq Paths
      BY <1>2, <2>1 DEF Actions, ReadingActions
    <2>4. NoAction \in Actions
      BY DEF NoAction, Actions, ReadingActions
    <2> QED
      BY <1>1, <2>1, <2>2, <2>3, <2>4 DEF DiscoveryStates, DiscoveryGoesOn
  <1>7. CASE RelationshipsRecorded \/ DiscoveryRejects \/ DiscoveryReleases
    <2>1. /\ stage = "Discovery"
          /\ \/ discovery' = [discovery EXCEPT !.questions = @ \ discovery.action.on,
                                               !.action = NoAction]
             \/ discovery' = [discovery EXCEPT !.action = NoAction]
      BY <1>7 DEF RelationshipsRecorded, DiscoveryRejects, DiscoveryReleases, Observes
    <2>2. NoAction \in Actions
      BY DEF NoAction, Actions, ReadingActions
    <2> QED
      BY <1>1, <2>1, <2>2 DEF DiscoveryStates, DiscoveryGoesOn
  <1>8. CASE ImpactMapRecorded
    <2>1. stage = "Discovery"
      BY <1>8 DEF ImpactMapRecorded, Observes
    <2>2. PICK mapped \in SUBSET Criteria :
            \E m \in [mapped -> UNION {Areas(c) : c \in mapped}] :
              discovery' = [discovery EXCEPT !.areas = m, !.convergence = "None",
                                             !.action = NoAction]
      BY <1>8 DEF ImpactMapRecorded
    <2>3. PICK m \in [mapped -> UNION {Areas(c) : c \in mapped}] :
            discovery' = [discovery EXCEPT !.areas = m, !.convergence = "None",
                                           !.action = NoAction]
      BY <2>2
    <2>4. m \in PartialMaps
      <3>1. m \in [mapped -> [paths : SUBSET Paths, evidence : SUBSET Paths]]
        BY <1>1, EvidenceIsOfPaths
      <3> QED
        BY <3>1 DEF PartialMaps
    <2>5. NoAction \in Actions
      BY DEF NoAction, Actions, ReadingActions
    <2> QED
      BY <1>1, <2>1, <2>3, <2>4, <2>5 DEF DiscoveryStates, Convergences, DiscoveryGoesOn
  <1>9. CASE CandidatesRecorded
    <2>0. PICK s \in Unprojected : \E found \in SetToSeqs(discovery.searched[s] \ Candidates) :
            discovery' = [discovery EXCEPT !.covers = Projected(s), !.ranked = @ \o found]
      BY <1>9 DEF CandidatesRecorded
    <2>1. PICK found \in SetToSeqs(discovery.searched[s] \ Candidates) :
            /\ stage = "Discovery"
            /\ discovery' = [discovery EXCEPT !.covers = Projected(s), !.ranked = @ \o found]
      BY <1>9, <2>0 DEF CandidatesRecorded
    <2>2. s \in Searches /\ discovery.searched[s] \subseteq Paths
      BY <1>1 DEF Unprojected, DiscoveryStates, PartialSearches
    <2>3. Projected(s) \in [Paths -> SUBSET Criteria]
      BY <1>1, <2>2 DEF Projected, DiscoveryStates, Searches
    <2>4. found \in Seq(Paths)
      BY <2>2, FoundInOrder
    <2>5. discovery.ranked \in Seq(Paths)
      BY <1>1 DEF DiscoveryStates
    <2>6. discovery.ranked \o found \in Seq(Paths)
      BY <2>4, <2>5
    <2>7. discovery' = [discovery EXCEPT !.covers = Projected(s),
                                         !.ranked = discovery.ranked \o found]
      BY <2>1
    <2> QED
      BY <1>1, <2>1, <2>3, <2>6, <2>7 DEF DiscoveryStates, DiscoveryGoesOn
  <1>10. CASE DiscoveryConverges
    <2>1. /\ stage = "Discovery" /\ Active("Discovery")
          /\ discovery' = [discovery EXCEPT !.convergence = Evaluated]
      BY <1>10 DEF DiscoveryConverges, Deciding
    <2>2. Evaluated \in Convergences
      BY DEF Evaluated, Convergences
    <2> QED
      BY <1>1, <2>1, <2>2 DEF DiscoveryStates, DiscoveryGoesOn
  <1>11. CASE DeterministicMap
    <2> DEFINE map == [c \in Criteria |-> [paths |-> Grounding(c),
                                           evidence |-> Grounding(c) \cap MapEvidence]]
    <2>1. /\ stage = "Discovery"
          /\ discovery' = [discovery EXCEPT !.areas = map, !.convergence = "None"]
      BY <1>11 DEF DeterministicMap, Converged
    <2>2. map \in PartialMaps
      <3>1. map \in [Criteria -> [paths : SUBSET Paths, evidence : SUBSET Paths]]
        BY <1>1, EvidenceIsOfPaths
      <3> HIDE DEF map
      <3> QED
        BY <3>1 DEF PartialMaps
    <2> HIDE DEF map
    <2> QED
      BY <1>1, <2>1, <2>2 DEF DiscoveryStates, Convergences, DiscoveryGoesOn
  <1> QED
    BY <1>3, <1>4, <1>5, <1>6, <1>7, <1>8, <1>9, <1>10, <1>11 DEF DiscoveryMoves

\* An action of discovery is open as long as its call is.
LEMMA NextReading ==
    ASSUME IInv, Moves, discovery'.action.class # "None"
    PROVE  call'.node = "Discovery" /\ node'["Discovery"] = "Active"
  <1>1. /\ discovery.action.class # "None" => call.node = "Discovery"
        /\ call.state = "None" => call = NoCall
        /\ discovery \in DiscoveryStates
    BY DEF IInv, GraphFollows, CallFollows, DiscoveryFollows
  <1>2. ASSUME call'.state = "None", call.node = "Discovery", call.state # "None"
        PROVE  FALSE
    <2>1. /\ call.state # "None" /\ Active("Discovery") /\ stage = "Discovery"
          /\ call' # call
      BY <1>2, NodeKinds, NodeStages DEF IInv, GraphFollows, CallFollows, NodesFit, Eligible
    <2>2. \A n \in NodeIds : Active(n) => n = "Discovery"
      BY <2>1, NodeKinds DEF IInv, GraphFollows, OneOwner
    <2>3. ~GraphMoves /\ ~UNCHANGED vars
      BY <2>1, GraphMovesKeep DEF vars, graphVars
    <2>4. /\ ~PlanningMoves /\ ~ValidationMoves /\ ~ReviewMoves /\ ~PublicationMoves
      BY <2>1, PlanningMovesKeep, ValidationMovesKeep, ReviewMovesKeep, PublicationMovesKeep
    <2>5. ASSUME NEW n \in Mutators PROVE ~MutationMoves(n)
      BY <2>2, MutationMovesKeep, NodeKinds DEF Mutators
    <2>6. call \in OpenCalls
      BY DEF IInv, GraphTypeOK, OpenCalls
    <2>7. ~Calls
      BY <1>2, <2>6 DEF Calls, CallLifecycle, Admit, Reserve, Dispatch, Consume, Release, OpenCalls
    <2>8. DiscoveryMoves
      BY <2>3, <2>4, <2>5, <2>7 DEF Moves, StageMoves
    <2>9. \/ SearchCompleted \/ FilesRead \/ RelationshipsRecorded
          \/ ImpactMapRecorded \/ DiscoveryRejects \/ DiscoveryReleases
      BY <2>1, <2>8 DEF DiscoveryMoves, ProfileRecorded, GoalRecorded, DiscoveryPrepares,
         Prepare, CandidatesRecorded, DiscoveryConverges, DeterministicMap, Converged,
         Deciding
    <2>10. discovery'.action = NoAction
      BY <1>1, <2>9 DEF SearchCompleted, FilesRead, RelationshipsRecorded,
         ImpactMapRecorded, DiscoveryRejects, DiscoveryReleases, DiscoveryStates
    <2> QED
      BY <2>10 DEF NoAction
  <1>3. CASE call'.state # "None" /\ call.state # "None"
    <2>1. discovery' = discovery /\ call'.node = call.node /\ node' = node
      BY <1>3, WhileCalling, NextCallOwner
    <2> QED
      BY <1>1, <1>3, <2>1, NextCallOwner
  <1>4. CASE call'.state # "None" /\ call.state = "None"
    <2>1. discovery.action.class = "None"
      BY <1>1, <1>4 DEF NoCall
    <2>2. discovery' # discovery
      BY <2>1
    <2>3. \/ DiscoveryPrepares \/ PlanningPrepares
          \/ (\E n \in Mutators : ActionPrepared(n) /\ MutationMoves(n))
          \/ ReviewActionPrepared /\ ReviewMoves
      BY <1>4, OpeningCalls
    <2>4. DiscoveryPrepares
      BY <2>2, <2>3 DEF PlanningPrepares, MutationMoves, ReviewMoves
    <2>5. call'.node = "Discovery"
      BY <2>4 DEF DiscoveryPrepares, Prepare
    <2> QED
      BY <1>4, <2>5, NextCallOwner
  <1>5. CASE call'.state = "None"
    <2>1. discovery' = discovery => discovery.action.class # "None"
      OBVIOUS
    <2>2. CASE discovery.action.class # "None"
      BY <1>1, <1>2, <1>5, <2>2 DEF NoCall
    <2>3. CASE discovery.action.class = "None"
      <3>1. DiscoveryMoves
        BY <2>1, <2>3, StateEffects
      <3>2. ~DiscoveryPrepares
        BY <1>5 DEF DiscoveryPrepares, Prepare
      <3>3. ~SearchCompleted /\ ~FilesRead /\ ~RelationshipsRecorded /\ ~ImpactMapRecorded
            /\ ~DiscoveryRejects
        BY <2>3 DEF SearchCompleted, FilesRead, RelationshipsRecorded, ImpactMapRecorded,
                    DiscoveryRejects, Observes
      <3>4. discovery'.action \in {discovery.action, NoAction}
        BY <1>1, <3>1, <3>2, <3>3 DEF DiscoveryMoves, ProfileRecorded, GoalRecorded,
           DiscoveryReleases, CandidatesRecorded, DiscoveryConverges, DeterministicMap,
           DiscoveryStates
      <3> QED
        BY <2>3, <3>4 DEF NoAction
    <2> QED
      BY <2>2, <2>3
  <1> QED
    BY <1>3, <1>4, <1>5

LEMMA NextDiscovery ==
    ASSUME IInv, Moves
    PROVE  DiscoveryFollows' /\ DiscoveryIsBound'
  <1>1. DiscoveryFollows /\ DiscoveryIsBound /\ stage \in Stages
    BY DEF IInv, StagesAreBound, GraphTypeOK
  <1>2. /\ discovery' \in DiscoveryStates /\ discovery'.whole \subseteq discovery'.grounded
    BY <1>1, StateEffects, DiscoveryStepTypes DEF DiscoveryFollows, DiscoveryGoesOn
  <1>3. ASSUME discovery'.convergence \in {"Insufficient", "BudgetBlocked"}
        PROVE  node'["Discovery"] \in {"Active", "FailedTerminal"}
    <2>1. node["Discovery"] \in {"Active", "FailedTerminal"}
      BY <1>1, <1>3, StateEffects, DiscoveryStepTypes DEF DiscoveryFollows, DiscoveryGoesOn,
         Active
    <2>2. CASE DiscoveryMoves
      BY <2>1, <2>2, DiscoveryMovesKeep DEF NodesKept
    <2>3. CASE discovery' = discovery
      <3>1. "Discovery" \in NodeIds
        BY NodeKinds
      <3>2. ~Succeeds("Discovery")
        BY <1>3, <2>3 DEF Succeeds
      <3>3. ASSUME NEW t \in BOOLEAN, Fails("Discovery", t)
            PROVE  node'["Discovery"] = "FailedTerminal"
        <4>1. t
          BY <3>3, NodeKinds DEF Fails
        <4> QED
          BY <3>1, <3>3, <4>1 DEF Fails, Fail, IInv, GraphTypeOK
      <3> QED
        BY <2>1, <3>1, <3>2, <3>3, NodeEffects DEF Effects, Active
    <2> QED
      BY <2>2, <2>3, StateEffects
  <1>4. stage' # "Profiling" => discovery'.profile = "Goal"
    <2>1. CASE stage = "Profiling" /\ stage' # "Profiling"
      <3>1. stage' \in {"Discovery"} \/ \E outcome \in Outcomes : Finishes(outcome)
        BY <2>1, Leaving, EnteredFrom DEF Passages
      <3>2. Advances("Profiling", "Discovery")
        BY <2>1, <3>1, Leaving DEF Finishes
      <3> QED
        BY <3>2 DEF Advances
    <2>2. CASE stage # "Profiling"
      BY <1>1, <2>2, StateEffects, DiscoveryStepTypes DEF DiscoveryIsBound, DiscoveryGoesOn
    <2> QED
      BY <2>1, <2>2
  <1>5. stage' \notin BeforePlanning =>
          \/ discovery'.convergence = "Accepted"
          \/ stage' = "Terminal" /\ DiscoveryEnded'
    <2>1. CASE stage \notin BeforePlanning
      <3>1. discovery' = discovery
        BY <2>1, StateEffects, DiscoveryMovesKeep
      <3>2. stage = "Terminal" => stage' = "Terminal" /\ result' = result
        BY NothingAfterTheEnd
      <3> QED
        BY <1>1, <2>1, <3>1, <3>2 DEF DiscoveryIsBound, DiscoveryEnded
    <2>2. CASE stage \in BeforePlanning /\ stage' # stage
      <3>1. CASE Advances(stage, stage') /\ <<stage, stage'>> \in Passages
        <4>1. stage' = "Planning" \/ stage' \in BeforePlanning
          BY <2>2, <3>1, EnteredFrom DEF BeforePlanning, Passages
        <4> QED
          BY <3>1, <4>1 DEF Advances
      <3>2. CASE stage' = "Terminal"
                 /\ \E outcome \in Outcomes : Finishes(outcome) /\ result' = outcome
        BY <2>2, <3>2 DEF Finishes, DiscoveryEnded, BeforePlanning
      <3> QED
        BY <2>2, <3>1, <3>2, Leaving
    <2> QED
      BY <2>1, <2>2
  <1> QED
    BY <1>2, <1>3, <1>4, <1>5, NextReading DEF DiscoveryFollows, DiscoveryIsBound, Active
-----------------------------------------------------------------------------
(* Planning.                                                                 *)

\* What is accepted has the targets of the graph.
LEMMA AcceptedPlans ==
    ASSUME NEW p \in Proposals, Validated(p) = "Accepted"
    PROVE  p.targets \in [Targets -> PlannedTarget]
  <1>1. p.decision \in {"Changes", "NoOp", "EvidenceGap"}
    BY PlanAssumption DEF Decisions
  <1>2. p.decision = "Changes" /\ ChangesAreValid(p.targets)
    BY <1>1 DEF Validated
  <1> QED
    BY <1>2, PlanAssumption DEF ChangesAreValid

LEMMA ValidatedPlans ==
    ASSUME NEW p \in Proposals
    PROVE  Validated(p) \in Validations
  BY PlanAssumption DEF Decisions, Validated, Validations

LEMMA PlanningStepTypes ==
    ASSUME IInv, PlanningMoves
    PROVE  /\ planning' \in PlanningStates /\ Active("Planning")
           /\ ~PlanAccepted /\ planning.convergence = "None"
           /\ PlanAccepted' => /\ planning'.plan \in [Targets -> PlannedTarget]
                               /\ planning'.convergence = "None"
  <1>1. planning \in PlanningStates
    BY DEF IInv, PlanningFollows
  <1>2. Active("Planning")
    BY DEF PlanningMoves, PlanningPrepares, CandidateRecorded, PlanningRejects,
           PlanningReleases, PlanningConverges, PlanningObserves, Unplanned
  <1>3. call.state # "None" => ~PlanAccepted /\ planning.convergence = "None"
    <2>1. call.state # "None" => call.node = "Planning"
      BY <1>2, NoCallOfOthers, NodeKinds DEF IInv
    <2> QED
      BY <2>1 DEF IInv, GraphFollows, CallFollows
  <1>4. ~PlanAccepted /\ planning.convergence = "None"
    BY <1>3 DEF PlanningMoves, PlanningPrepares, CandidateRecorded, PlanningRejects,
           PlanningReleases, PlanningConverges, PlanningObserves, Unplanned
  <1>5. CASE PlanningPrepares \/ PlanningRejects \/ PlanningReleases
    <2>1. planning' = planning
      BY <1>5 DEF PlanningPrepares, PlanningRejects, PlanningReleases
    <2> QED
      BY <1>1, <1>2, <1>4, <2>1 DEF PlanAccepted
  <1>6. CASE CandidateRecorded
    <2>1. PICK p \in Proposals :
            planning' = [planning EXCEPT
              !.latest = Validated(p),
              !.plan = IF Validated(p) = "Accepted" THEN p.targets ELSE @]
      BY <1>6 DEF CandidateRecorded
    <2>2. /\ Validated(p) \in Validations
          /\ Validated(p) = "Accepted" => p.targets \in [Targets -> PlannedTarget]
      BY AcceptedPlans, ValidatedPlans
    <2> QED
      BY <1>1, <1>2, <1>4, <2>1, <2>2 DEF PlanningStates, PlanAccepted
  <1>7. CASE PlanningConverges
    <2>1. \E c \in {"InsufficientEvidence", "BudgetBlocked"} :
            planning' = [planning EXCEPT !.convergence = c]
      BY <1>7 DEF PlanningConverges
    <2> QED
      BY <1>1, <1>2, <1>4, <2>1 DEF PlanningStates, PlanAccepted
  <1> QED
    BY <1>5, <1>6, <1>7 DEF PlanningMoves

LEMMA NextPlanning ==
    ASSUME IInv, Moves
    PROVE  PlanningFollows' /\ PlanningIsBound' /\ ImplementationIsBound'
  <1>1. PlanningFollows /\ PlanningIsBound /\ ImplementationIsBound
    BY DEF IInv, StagesAreBound
  <1>2. "Planning" \in NodeIds /\ "Planning" \notin Targets \cup CheckNodes \cup Repairs
        /\ Planned \subseteq NodeIds /\ "Planning" \notin Mutators /\ "Planning" \notin Planned
    BY NodeKinds DEF Planned, Final, Mutators
  <1>3. Present(Planned) = Planned => Present(Planned)' = Planned
    BY <1>2, NodeEffects DEF Effects, Present
  <1>4. CASE PlanningMoves
    <2>1. /\ UNCHANGED <<stage, node>> /\ stage = "Planning"
          /\ planning' \in PlanningStates /\ Active("Planning")
          /\ PlanAccepted' => /\ planning'.plan \in [Targets -> PlannedTarget]
                              /\ planning'.convergence = "None"
      BY <1>4, PlanningStepTypes, PlanningMovesKeep DEF NodesKept
    <2>2. PlanningFollows'
      BY <2>1 DEF PlanningFollows, Active
    <2>3. call'.node = "Planning" => Active("Planning")'
      BY <2>1 DEF Active
    <2> QED
      BY <2>1, <2>2, <2>3 DEF PlanningIsBound, ImplementationIsBound, BeforeImplementation,
                              BeforePlanning
  <1>5. CASE planning' = planning
    <2>1. PlanAccepted' = PlanAccepted /\ (PlanningInit <=> PlanningInit')
      BY <1>5 DEF PlanAccepted, PlanningInit
    <2>2. Succeeds("Planning") => PlanAccepted /\ Present(Planned) = Planned
      BY DEF Succeeds
    <2>3. \A t \in BOOLEAN : Fails("Planning", t) => planning.convergence # "None"
                                                    /\ node'["Planning"] = "FailedTerminal"
      BY <1>2 DEF Fails, Fail, IInv, GraphTypeOK
    <2>4. Succeeds("Planning") => planning.convergence = "None"
      BY <1>1, <2>2 DEF PlanningFollows
    <2>5. node'["Planning"] = "Succeeded" => PlanAccepted' /\ Present(Planned)' = Planned
      BY <1>1, <1>2, <1>3, <2>1, <2>2, NodeEffects DEF Effects, PlanningFollows
    <2>6. node'["Planning"] = "FailedTerminal" => planning'.convergence # "None"
      BY <1>1, <1>2, <1>5, <2>3, NodeEffects DEF Effects, PlanningFollows
    <2>7. planning'.convergence # "None" =>
            ~PlanAccepted' /\ node'["Planning"] \in {"Active", "FailedTerminal"}
      BY <1>1, <1>2, <1>5, <2>1, <2>3, <2>4, NodeEffects DEF Effects, PlanningFollows, Active
    <2>8. PlanningFollows'
      BY <1>1, <1>5, <2>1, <2>5, <2>6, <2>7 DEF PlanningFollows
    <2>9. stage' \in BeforePlanning => stage \in BeforePlanning
      BY Leaving, EnteredFrom DEF BeforePlanning
    <2>10. call'.node = "Planning" => Active("Planning")'
      <3>1. call'.state = "None" => call' = NoCall
        BY NextCall DEF CallFollows
      <3> QED
        BY <3>1, NextCallOwner DEF NoCall, Active
    <2>11. PlanAccepted' /\ stage' # "Planning" => Present(Planned)' = Planned
      <3>1. CASE stage # "Planning"
        BY <1>1, <1>3, <2>1, <3>1 DEF PlanningIsBound
      <3>2. ASSUME stage = "Planning", stage' # "Planning", PlanAccepted
            PROVE  Present(Planned) = Planned
        <4>1. <<stage, stage'>> \in Passages => stage' = "Implementation"
          BY <3>2 DEF Passages
        <4>2. Advances(stage, stage') /\ stage' = "Implementation" => node["Planning"] = "Succeeded"
          BY DEF Advances
        <4>3. \A outcome \in Outcomes : ~Finishes(outcome)
          BY <1>1, <3>2 DEF Finishes, PlanningFollows
        <4> QED
          BY <1>1, <3>2, <4>1, <4>2, <4>3, Leaving DEF PlanningFollows
      <3> QED
        BY <1>3, <2>1, <3>1, <3>2
    <2>12. stage' \notin BeforeImplementation \cup {"Terminal"} =>
             PlanAccepted /\ DOMAIN planning.plan = Targets
      <3>1. CASE stage \notin BeforeImplementation \cup {"Terminal"}
        BY <1>1, <3>1 DEF ImplementationIsBound
      <3>2. ASSUME stage \in BeforeImplementation \cup {"Terminal"},
                   stage' \notin BeforeImplementation \cup {"Terminal"}
            PROVE  PlanAccepted /\ DOMAIN planning.plan = Targets
        <4>1. <<stage, stage'>> \in Passages /\ Advances(stage, stage')
          BY <3>2, Leaving
        <4>2. stage' = "Implementation"
          BY <3>2, <4>1, EnteredFrom DEF BeforeImplementation, BeforePlanning, Passages
        <4>3. node["Planning"] = "Succeeded"
          BY <4>1, <4>2 DEF Advances
        <4> QED
          BY <1>1, <4>3 DEF PlanningFollows
      <3> QED
        BY <3>1, <3>2
    <2> QED
      BY <1>1, <1>5, <2>1, <2>8, <2>9, <2>10, <2>11, <2>12
         DEF PlanningIsBound, ImplementationIsBound
  <1> QED
    BY <1>4, <1>5, StateEffects

-----------------------------------------------------------------------------
(* Mutation.                                                                 *)

\* What a context that was prepared has to do with the files as they are.
ContextIsCurrent ==
    CASE mutation.step = "Load" -> TRUE
      [] mutation.step = "Prove" -> revision = mutation.base + 1
      [] mutation.step = "Converged" /\ Drifted -> revision = mutation.base + 1
      [] OTHER -> revision = mutation.base

\* The parts that hold of the entry by itself.
EntryFollows ==
    /\ MutationTypeOK
    /\ mutation.step \in {"Load", "Feasibility", "Policy"} => mutation.attempt < AttemptLimit
    /\ mutation.step \in {"Apply", "Verify", "Failed"} => mutation.chosen \in Strategies
    /\ mutation.failure # "None" => mutation.step \in {"Failed", "Converged"}

LEMMA UntouchedFollows ==
    ASSUME mutation' = Untouched
    PROVE  EntryFollows' /\ ContextIsCurrent' /\ mutation'.step = "Load"
  <1>1. AttemptLimit \in Nat \ {0} /\ RebuildLimit \in Nat /\ UncontactedLimit \in Nat
    BY MutationAssumption
  <1>2. mutation'.step = "Load" /\ mutation'.attempt = 0 /\ mutation'.failure = "None"
    BY DEF Untouched
  <1>3. MutationTypeOK'
    BY <1>1 DEF MutationTypeOK, Untouched, MutationSteps
  <1> QED
    BY <1>1, <1>2, <1>3 DEF EntryFollows, ContextIsCurrent

LEMMA RetryStrategies ==
    ASSUME MutationTypeOK, mutation.chosen \in Strategies
    PROVE  Retry \subseteq Strategies
  BY DEF Retry, Fallback, Strategies

LEMMA MutationStepTypes ==
    ASSUME IInv, NEW n \in Mutators, MutationMoves(n)
    PROVE  /\ EntryFollows' /\ ContextIsCurrent'
           /\ mutation.step # "Converged" /\ ~(mutation.step = "Prove")
           /\ revision' \in {revision, revision + 1}
  <1>1. /\ EntryFollows /\ revision \in Nat
    BY DEF IInv, MutationFollows, EntryFollows, GraphTypeOK
  <1>2. /\ AttemptLimit \in Nat \ {0} /\ RebuildLimit \in Nat /\ UncontactedLimit \in Nat \ {0}
    BY MutationAssumption
  <1>3. Active(n) /\ n \in NodeIds
    BY MutationMovesKeep
  <1>4. ContextIsCurrent
    BY <1>3 DEF IInv, StagesAreBound, MutationIsBound, ContextIsCurrent
  <1>5. Initial \subseteq Strategies
    BY DEF Initial, Strategies
  <1> DEFINE Goal == /\ EntryFollows' /\ ContextIsCurrent'
                     /\ mutation.step # "Converged" /\ ~(mutation.step = "Prove")
                     /\ revision' \in {revision, revision + 1}
  <1>6. ASSUME ContextPrepared(n) PROVE Goal
    <2>1. /\ mutation.step = "Load" /\ revision' = revision
          /\ mutation' = [mutation EXCEPT !.step = "Feasibility", !.base = revision]
      BY <1>6 DEF ContextPrepared, Mutating, graphVars
    <2> QED
      BY <1>1, <2>1 DEF EntryFollows, MutationTypeOK, MutationSteps, ContextIsCurrent
  <1>7. ASSUME FeasibilityEvaluated(n) PROVE Goal
    <2>1. PICK S \in SUBSET Initial :
             mutation' = [mutation EXCEPT !.step = "Policy", !.feasible = S]
      BY <1>7 DEF FeasibilityEvaluated
    <2>2. mutation.step = "Feasibility" /\ revision' = revision
      BY <1>7 DEF FeasibilityEvaluated, Mutating, graphVars
    <2> QED
      BY <1>1, <1>4, <2>1, <2>2 DEF EntryFollows, MutationTypeOK, MutationSteps, ContextIsCurrent
  <1>8. ASSUME NEW permitted \in SUBSET Strategies, mutation' = Policy(permitted),
               mutation.attempt < AttemptLimit, mutation.step \in {"Policy", "Failed"},
               revision' = revision
        PROVE  Goal
    <2>1. /\ mutation'.step = "Act" /\ mutation'.failure = "None"
          /\ mutation'.base = mutation.base
      BY <1>1, <1>8 DEF Policy, EntryFollows, MutationTypeOK
    <2>2. mutation.attempt + 1 \in 0 .. AttemptLimit
      BY <1>1, <1>2, <1>8 DEF EntryFollows, MutationTypeOK
    <2>3. MutationTypeOK'
      <3>1. /\ "Act" \in MutationSteps /\ 0 \in 0 .. UncontactedLimit
            /\ permitted \in SUBSET Strategies
        BY <1>2 DEF MutationSteps
      <3>2. mutation' = [mutation EXCEPT !.step = "Act", !.attempt = mutation.attempt + 1,
                                         !.permitted = permitted, !.released = 0,
                                         !.chosen = "None", !.failure = "None"]
        BY <1>8 DEF Policy
      <3> QED
        BY <1>1, <2>2, <3>1, <3>2 DEF EntryFollows, MutationTypeOK
    <2> QED
      BY <1>4, <1>8, <2>1, <2>3 DEF EntryFollows, ContextIsCurrent
  <1>9. ASSUME PolicySelected(n) PROVE Goal
    <2>1. /\ mutation.step = "Policy" /\ revision' = revision
          /\ mutation' = Policy(mutation.feasible)
      BY <1>9 DEF PolicySelected, Mutating, graphVars
    <2>2. mutation.feasible \in SUBSET Strategies /\ mutation.attempt < AttemptLimit
      BY <1>1, <1>5, <2>1 DEF EntryFollows, MutationTypeOK
    <2> HIDE DEF Goal
    <2> QED
      BY <1>8, <2>1, <2>2
  <1>10. ASSUME ActionPrepared(n) PROVE Goal
    <2>1. mutation' = mutation /\ revision' = revision /\ mutation.step = "Act"
      BY <1>10 DEF ActionPrepared, Prepare, Mutating
    <2> QED
      BY <1>1, <1>4, <2>1 DEF EntryFollows, MutationTypeOK, ContextIsCurrent, Drifted
  <1>11. ASSUME ActionReleased(n) PROVE Goal
    <2>1. /\ mutation.step = "Act" /\ revision' = revision /\ call.state = "Released"
          /\ mutation' = [mutation EXCEPT !.released = @ + 1]
      BY <1>11 DEF ActionReleased, ActionEnded, Mutating
    <2>2. mutation.released < UncontactedLimit
      BY <1>3, <2>1, NoCallOfOthers DEF IInv, GraphFollows, CallFollows
    <2>3. mutation.released + 1 \in 0 .. UncontactedLimit
      BY <1>1, <1>2, <2>2 DEF EntryFollows, MutationTypeOK
    <2>4. MutationTypeOK' /\ mutation'.step = "Act" /\ mutation'.failure = mutation.failure
          /\ mutation'.base = mutation.base
      BY <1>1, <2>1, <2>3 DEF EntryFollows, MutationTypeOK
    <2> QED
      BY <1>1, <1>4, <2>1, <2>4 DEF EntryFollows, ContextIsCurrent
  <1>12. ASSUME MutationCandidate(n) PROVE Goal
    <2>1. PICK s \in mutation.permitted :
             mutation' = [mutation EXCEPT !.step = "Apply", !.chosen = s]
      BY <1>12 DEF MutationCandidate
    <2>2. mutation.step = "Act" /\ revision' = revision
      BY <1>12 DEF MutationCandidate, ActionEnded, Mutating
    <2> QED
      BY <1>1, <1>4, <2>1, <2>2 DEF EntryFollows, MutationTypeOK, MutationSteps, ContextIsCurrent
  <1>13. ASSUME NEW class \in Rejections \cup Refusals \cup Mismatches,
                NEW s \in Strategies, mutation' = Failed(class, s),
                mutation.step \in {"Act", "Apply", "Verify"}, revision' = revision
         PROVE  Goal
    <2>1. /\ mutation'.step = "Failed" /\ mutation'.base = mutation.base
          /\ mutation'.chosen = s /\ MutationTypeOK'
      BY <1>1, <1>13 DEF Failed, EntryFollows, MutationTypeOK, MutationSteps
    <2> QED
      BY <1>4, <1>13, <2>1 DEF EntryFollows, ContextIsCurrent
  <1>14. ASSUME ActionRejected(n) PROVE Goal
    <2>1. PICK class \in Rejections, s \in mutation.permitted : mutation' = Failed(class, s)
      BY <1>14 DEF ActionRejected
    <2>2. mutation.step = "Act" /\ revision' = revision
      BY <1>14 DEF ActionRejected, ActionEnded, Mutating
    <2>3. s \in Strategies
      BY <1>1 DEF EntryFollows, MutationTypeOK
    <2> HIDE DEF Goal
    <2> QED
      BY <1>13, <2>1, <2>2, <2>3
  <1>15. ASSUME AttemptFailed(n) PROVE Goal
    <2>1. PICK class \in Refusals \cup Mismatches :
             mutation' = Failed(class, mutation.chosen) /\ mutation.step \in {"Apply", "Verify"}
      BY <1>15 DEF AttemptFailed, Mutating
    <2>2. revision' = revision
      BY <1>15 DEF AttemptFailed, graphVars
    <2>3. mutation.chosen \in Strategies
      BY <1>1, <2>1 DEF EntryFollows
    <2> HIDE DEF Goal
    <2> QED
      BY <1>13, <2>1, <2>2, <2>3
  <1>16. ASSUME ApplicationObserved(n) PROVE Goal
    <2>1. /\ mutation.step = "Apply" /\ revision' = revision
          /\ mutation' = [mutation EXCEPT !.step = "Verify"]
      BY <1>16 DEF ApplicationObserved, Mutating, graphVars
    <2> QED
      BY <1>1, <1>4, <2>1 DEF EntryFollows, MutationTypeOK, MutationSteps, ContextIsCurrent
  <1>17. ASSUME AttemptRetried(n) PROVE Goal
    <2>1. /\ mutation.step = "Failed" /\ revision' = revision
          /\ Retry # {} /\ mutation' = Policy(Retry)
      BY <1>17 DEF AttemptRetried, Mutating, graphVars
    <2>2. mutation.attempt < AttemptLimit
      BY <1>1, <1>2, <2>1 DEF Retry, LastAttempt, EntryFollows, MutationTypeOK
    <2>3. Retry \in SUBSET Strategies
      BY <1>1, <2>1, RetryStrategies DEF EntryFollows
    <2> HIDE DEF Goal
    <2> QED
      BY <1>8, <2>1, <2>2, <2>3
  <1>18. ASSUME MutationVerified(n) PROVE Goal
    <2>1. /\ mutation.step = "Verify" /\ mutation.base = revision /\ revision' = revision + 1
          /\ mutation' = [mutation EXCEPT !.step = "Prove"]
      BY <1>18 DEF MutationVerified, Mutating
    <2> QED
      BY <1>1, <2>1 DEF EntryFollows, MutationTypeOK, MutationSteps, ContextIsCurrent
  <1>19. ASSUME ContextSuperseded(n) PROVE Goal
    <2>1. /\ mutation.step = "Failed" /\ revision' = revision + 1 /\ MayRebuild
          /\ mutation' = [mutation EXCEPT !.step = "Load", !.rebuilds = @ + 1,
                                          !.chosen = "None", !.failure = "None"]
      BY <1>19 DEF ContextSuperseded, Mutating
    <2>2. mutation.attempt < AttemptLimit /\ mutation.rebuilds + 1 \in 0 .. RebuildLimit
      BY <1>1, <1>2, <2>1 DEF MayRebuild, LastAttempt, EntryFollows, MutationTypeOK
    <2>3. MutationTypeOK'
      BY <1>1, <2>1, <2>2 DEF EntryFollows, MutationTypeOK, MutationSteps
    <2>4. /\ mutation'.step = "Load" /\ mutation'.failure = "None"
          /\ mutation'.attempt = mutation.attempt
      BY <1>1, <2>1 DEF EntryFollows, MutationTypeOK
    <2> QED
      BY <2>1, <2>2, <2>3, <2>4 DEF EntryFollows, ContextIsCurrent
  <1>20. ASSUME MutationConverges(n) PROVE Goal
    <2>1. /\ Convergence(n) # "None"
          /\ mutation' = [mutation EXCEPT !.step = "Converged", !.reason = Convergence(n)]
          /\ revision' = IF mutation.step = "Failed" /\ Drifted THEN revision + 1 ELSE revision
      BY <1>20 DEF MutationConverges
    <2>2. mutation.step \in {"Policy", "Act", "Failed"} /\ Convergence(n) \in Reasons
      BY <2>1 DEF Convergence, Exhaustion, Reasons
    <2>3. /\ MutationTypeOK' /\ mutation'.step = "Converged"
          /\ mutation'.failure = mutation.failure /\ mutation'.base = mutation.base
      BY <1>1, <2>1, <2>2 DEF EntryFollows, MutationTypeOK, MutationSteps
    <2>4. mutation.step # "Failed" => ~Drifted
      BY <1>1, <2>2 DEF EntryFollows, Drifted
    <2>5. revision = mutation.base
      BY <1>4, <2>2 DEF ContextIsCurrent
    <2> QED
      BY <2>1, <2>2, <2>3, <2>4, <2>5 DEF EntryFollows, ContextIsCurrent, Drifted
  <1> QED
    BY <1>6, <1>7, <1>9, <1>10, <1>11, <1>12, <1>14, <1>15, <1>16, <1>17, <1>18, <1>19, <1>20
       DEF MutationMoves

LEMMA Mutates ==
    ASSUME NEW n \in Mutators
    PROVE  /\ n \in NodeIds /\ n \notin CheckNodes
           /\ n \notin Final \cup {"Discovery", "Planning"}
           /\ StageOf(n) \in {"Implementation", "Repair"}
           /\ n \in Targets <=> StageOf(n) = "Implementation"
           /\ n \in Repairs <=> StageOf(n) = "Repair"
  BY NodeKinds, NodeStages DEF Mutators

\* The one that fails was given up, and nothing is changed after it.
LEMMA MutatorEffects ==
    ASSUME IInv, Moves, NEW n \in Mutators
    PROVE  /\ node'[n] = "FailedTerminal" =>
                node[n] = "FailedTerminal" \/ (mutation.step = "Converged" /\ Active(n))
           /\ Active(n) => \/ node'[n] = "Active"
                           \/ Succeeds(n) /\ mutation.step = "Prove"
                           \/ node'[n] = "FailedTerminal"
  <1>1. \A t \in BOOLEAN : Fails(n, t) => t /\ mutation.step = "Converged" /\ Active(n)
    BY Mutates DEF Fails, Fail, CanFail
  <1>2. Fails(n, TRUE) => node'[n] = "FailedTerminal"
    BY Mutates DEF Fails, Fail, IInv, GraphTypeOK
  <1>3. Succeeds(n) => mutation.step = "Prove"
    BY DEF Succeeds
  <1> QED
    BY <1>1, <1>2, <1>3, Mutates, NodeEffects DEF Effects

LEMMA NextGivenUp ==
    ASSUME IInv, Moves
    PROVE  /\ mutation'.step = "Converged" =>
                \E n \in Mutators : node'[n] \in {"Active", "FailedTerminal"}
           /\ \A n \in Mutators : node'[n] = "FailedTerminal" => mutation'.step = "Converged"
  <1>1. /\ mutation.step = "Converged" =>
             \E n \in Mutators : node[n] \in {"Active", "FailedTerminal"}
        /\ \A n \in Mutators : node[n] = "FailedTerminal" => mutation.step = "Converged"
    BY DEF IInv, MutationFollows
  <1>2. ASSUME NEW n \in Mutators, MutationMoves(n)
        PROVE  /\ mutation'.step = "Converged" =>
                    \E m \in Mutators : node'[m] \in {"Active", "FailedTerminal"}
               /\ \A m \in Mutators : node'[m] # "FailedTerminal"
    BY <1>1, <1>2, MutationMovesKeep, MutationStepTypes DEF Active
  <1>3. ASSUME NEW n \in Mutators, Starts(n), mutation' = Untouched
        PROVE  \A m \in Mutators : node'[m] # "FailedTerminal"
    <2>1. /\ StageOf(n) = stage /\ node[n] = "Ready" /\ node' = [node EXCEPT ![n] = "Active"]
          /\ n \in Targets => \A t \in Targets : node[t] # "FailedTerminal"
          /\ n \in Repairs => n = validation.repairer
      BY <1>3 DEF Starts, Start, CanStart
    <2>2. \A r \in Repairs : node[r] \notin {"Absent", "Succeeded"} =>
             validation.repair = "Selected" /\ validation.repairer = r
      BY DEF IInv, ValidationFollows, RepairFollows
    <2>3. \A m \in Mutators : node[m] # "FailedTerminal"
      <3>1. CASE n \in Targets
        <4>1. stage = "Implementation"
          BY <2>1, <3>1, NodeStages
        <4>2. ValidationInit
          BY <4>1 DEF IInv, StagesAreBound, ValidationIsBound, BeforeValidation
        <4>3. validation.repair # "Selected"
          BY <4>2 DEF ValidationInit
        <4> QED
          BY <2>1, <2>2, <3>1, <4>3 DEF Mutators
      <3>2. CASE n \in Repairs
        <4>1. stage = "Repair"
          BY <2>1, <3>2, NodeStages
        <4>2. Succeeded(Targets)
          BY <4>1 DEF IInv, GraphFollows, StagesFollow, BeforeValidation,
                      BeforeImplementation, BeforePlanning
        <4>3. \A t \in Targets : node[t] # "FailedTerminal"
          BY <4>2 DEF Succeeded
        <4>4. \A r \in Repairs : node[r] = "FailedTerminal" => r = n
          BY <2>1, <2>2, <3>2
        <4> QED
          BY <2>1, <4>3, <4>4 DEF Mutators
      <3> QED
        BY <3>1, <3>2 DEF Mutators
    <2> QED
      BY <2>1, <2>3, Mutates DEF IInv, GraphTypeOK
  <1>4. ASSUME NEW n \in Mutators, Succeeds(n)
        PROVE  \A m \in Mutators : node'[m] # "FailedTerminal"
    <2>1. mutation.step = "Prove"
      BY <1>4 DEF Succeeds
    <2> QED
      BY <1>1, <2>1, MutatorEffects
  <1>5. mutation' = Untouched => mutation'.step # "Converged"
    BY DEF Untouched
  <1>6. CASE mutation' = mutation
    BY <1>1, <1>6, MutatorEffects, Mutates, NodeEffects DEF Effects, Active
  <1> QED
    BY <1>2, <1>3, <1>4, <1>5, <1>6, StateEffects

LEMMA NextMutation ==
    ASSUME IInv, Moves
    PROVE  MutationFollows' /\ MutationIsBound'
  <1>1. /\ MutationFollows /\ MutationIsBound /\ revision \in Nat
        /\ node \in [NodeIds -> NodeStates]
    BY DEF IInv, StagesAreBound, GraphTypeOK
  <1>2. EntryFollows'
    <2>1. CASE mutation' = mutation
      BY <1>1, <2>1 DEF EntryFollows, MutationFollows, MutationTypeOK
    <2> QED
      BY <2>1, StateEffects, MutationStepTypes, UntouchedFollows
  <1>3. revision' \in Nat /\ revision' >= revision
    BY <1>1, RevisionEffects
  <1>4. ASSUME NEW n \in Targets, node'[n] = "Succeeded"
        PROVE  revision' > 0
    <2>1. n \in NodeIds /\ n \in Mutators
      BY NodeKinds DEF Mutators
    <2>2. CASE node[n] = "Succeeded"
      BY <1>1, <1>3, <2>2 DEF MutationFollows
    <2>3. CASE Succeeds(n)
      <3>1. mutation.step = "Prove" /\ Active(n)
        BY <2>1, <2>3 DEF Succeeds, Succeed, CanSucceed
      <3>2. revision = mutation.base + 1 /\ mutation.base \in Nat
        BY <1>1, <2>1, <3>1 DEF MutationIsBound, MutationFollows, MutationTypeOK
      <3> QED
        BY <1>3, <3>2
    <2> QED
      BY <1>4, <2>1, <2>2, <2>3, NodeEffects DEF Effects
  <1>5. MutationFollows'
    BY <1>2, <1>4, NextGivenUp DEF EntryFollows, MutationFollows
  <1>6. stage' \in BeforeImplementation => MutationInit'
    <2>1. ASSUME stage' \in BeforeImplementation
          PROVE  stage \in BeforeImplementation
      BY <2>1, Leaving, EnteredFrom DEF BeforeImplementation, BeforePlanning
    <2>2. ASSUME stage \in BeforeImplementation
          PROVE  mutation' = mutation
      <3>1. \A n \in Mutators : StageOf(n) # stage
        BY <2>2, Mutates DEF BeforeImplementation, BeforePlanning
      <3>2. \A n \in Mutators : ~Active(n) /\ ~Starts(n)
        BY <3>1, Mutates DEF Starts, Start, CanStart, IInv, GraphFollows, NodesFit, Eligible
      <3>3. \A n \in Mutators : ~MutationMoves(n) /\ ~Succeeds(n)
        BY <3>2, MutationMovesKeep DEF Succeeds, Succeed, CanSucceed
      <3> QED
        BY <3>2, <3>3, StateEffects
    <2> QED
      BY <1>1, <2>1, <2>2 DEF MutationIsBound, MutationInit
  <1>7. ASSUME NEW n \in Mutators, node'[n] = "Active"
        PROVE  ContextIsCurrent'
    <2>1. CASE mutation' = Untouched
      BY <2>1, UntouchedFollows
    <2>2. CASE \E m \in Mutators : MutationMoves(m)
      BY <2>2, MutationStepTypes
    <2>3. CASE mutation' = mutation /\ mutation' # Untouched /\ ~\E m \in Mutators : MutationMoves(m)
      <3>1. ~Starts(n)
        BY <2>3 DEF Starts
      <3>2. Active(n)
        BY <1>7, <3>1, Mutates, NodeEffects DEF Effects
      <3>3. ContextIsCurrent
        BY <1>1, <3>2 DEF MutationIsBound, ContextIsCurrent
      <3>4. ~ReviewMoves
        <4>1. StageOf(n) = stage
          BY <3>2, Mutates DEF IInv, GraphFollows, NodesFit, Eligible
        <4> QED
          BY <4>1, Mutates, ReviewMovesKeep
      <3>5. revision' = revision
        BY <2>3, <3>4, RevisionEffects
      <3> QED
        BY <2>3, <3>3, <3>5 DEF ContextIsCurrent, Drifted
    <2> QED
      BY <2>1, <2>2, <2>3, StateEffects
  <1>8. MutationIsBound'
    BY <1>6, <1>7 DEF MutationIsBound, ContextIsCurrent, Active
  <1> QED
    BY <1>5, <1>8

-----------------------------------------------------------------------------
(* Review.                                                                   *)

\* The parts that hold of the review by itself.
ReviewEntry ==
    /\ ReviewTypeOK
    /\ review.request = "None" => review.manifest = "None"
    /\ review.manifest = "None" => review.verdict = "None" /\ review.unread = 0
    /\ review.verdict # "None" => review.unread = 0
    /\ review.request # "Authority" => ~review.authority
    /\ ~review.authority => review.faults = {} /\ ~review.evaluated
    /\ ~review.evaluated => review.denied = {}
    /\ review.failure \in {"Limit", "Drift", "Durability"} => review.request = "Diff"
    /\ review.failure # "None" /\ review.convergence # "None" =>
         review.convergence = review.failure
    /\ review.convergence = "Drift" => review.failure = "Drift"
    /\ Granted => review.faults = {} /\ review.manifest # "None"

\* What is granted has nothing to be denied for.
LEMMA EligibleMeans ==
    ASSUME FailedPredicates = {}, ReviewEntry
    PROVE  /\ review.faults = {} /\ review.verdict = "Accepted" /\ review.manifest # "None"
           /\ Permits(review.completion, review.mode)
  <1>1. /\ "RemoteHeadUnchanged" \in Predicates /\ "CompleteDiffReviewed" \in Predicates
        /\ "AuthorityValid" \in Predicates /\ "CompletionPermitsMode" \in Predicates
    BY DEF Predicates, StalePredicates
  <1>2. "Moved" \notin review.faults /\ "Invalid" \notin review.faults
    BY <1>1 DEF FailedPredicates
  <1>3. review.verdict = "Accepted" /\ Permits(review.completion, review.mode)
    BY <1>1 DEF FailedPredicates
  <1>4. review.faults \subseteq Faults
    BY DEF ReviewEntry, ReviewTypeOK
  <1> QED
    BY <1>2, <1>3, <1>4 DEF ReviewEntry, Faults

\* What a step of the review makes of it.
ReviewStepped ==
    /\ ReviewEntry'
    /\ review'.mode = review.mode /\ review'.revision = review.revision
    /\ review.convergence = "None"
    /\ review.verdict = "Accepted" => review'.verdict = "Accepted"
    /\ Granted => Granted'
    /\ Granted' => Granted \/ PublicationEligibilityEvaluated
    /\ revision' # revision =>
         /\ review'.request = "Diff" /\ review'.failure = "Drift"
         /\ review'.convergence = "Drift" /\ ~review.evaluated
         /\ revision' = revision + 1

LEMMA ReviewStepTypes ==
    ASSUME IInv, ReviewMoves
    PROVE  ReviewStepped
  <1>1. ReviewEntry /\ revision \in Nat
    BY DEF IInv, ReviewFollows, ReviewEntry, GraphTypeOK
  <1>2. PageLimit \in Nat \ {0} /\ ReleaseLimit \in Nat \ {0}
    BY ReviewAssumption
  <1>3. ASSUME DiffManifestRequested PROVE ReviewStepped
    <2>1. /\ review.request = "None" /\ review.convergence = "None" /\ review.failure = "None"
          /\ review' = [review EXCEPT !.request = "Diff"] /\ revision' = revision
      BY <1>3 DEF DiffManifestRequested, Reviewed, Reviewing, graphVars
    <2> QED
      BY <1>1, <2>1 DEF ReviewStepped, ReviewEntry, ReviewTypeOK, Requests, Granted
  <1>4. ASSUME DiffManifestRecorded PROVE ReviewStepped
    <2>1. PICK m \in {"Safe", "Unsafe"}, pages \in 0 .. PageLimit :
             Reviewed([review EXCEPT !.manifest = m, !.unread = pages])
      BY <1>4 DEF DiffManifestRecorded
    <2>2. /\ review.request = "Diff" /\ review.manifest = "None"
          /\ review.convergence = "None" /\ review.failure = "None"
      BY <1>4 DEF DiffManifestRecorded, AwaitsDiff, Reviewing
    <2> QED
      BY <1>1, <2>1, <2>2
         DEF ReviewStepped, ReviewEntry, ReviewTypeOK, Granted, Reviewed, graphVars
  <1>5. ASSUME DiffManifestBuildFailed PROVE ReviewStepped
    <2>1. PICK f \in {"Limit", "Drift", "Durability"} : Reviewed([review EXCEPT !.failure = f])
      BY <1>5 DEF DiffManifestBuildFailed
    <2>2. /\ review.request = "Diff" /\ review.manifest = "None"
          /\ review.convergence = "None" /\ review.failure = "None"
      BY <1>5 DEF DiffManifestBuildFailed, AwaitsDiff, Reviewing
    <2> QED
      BY <1>1, <2>1, <2>2
         DEF ReviewStepped, ReviewEntry, ReviewTypeOK, Granted, Reviewed, graphVars,
             EffectFailures
  <1>6. ASSUME ReviewActionPrepared PROVE ReviewStepped
    <2>1. PICK n \in {"Review", "CompletionEvaluation"} : Binding(n) /\ Prepare(n)
      BY <1>6 DEF ReviewActionPrepared
    <2>2. review' = review /\ revision' = revision /\ review.convergence = "None"
      BY <1>6, <2>1 DEF ReviewActionPrepared, Prepare, Binding, Reviewing
    <2> QED
      BY <1>1, <2>2 DEF ReviewStepped, ReviewEntry, ReviewTypeOK, Granted
  <1>7. ASSUME ReviewActionReleased PROVE ReviewStepped
    <2>1. PICK n \in {"Review", "CompletionEvaluation"} : ReviewActionEnds(n, "Released")
      BY <1>7 DEF ReviewActionReleased
    <2>2. /\ review' = [review EXCEPT !.released = @ + 1] /\ revision' = revision
          /\ review.convergence = "None" /\ call.state = "Released" /\ Active(n)
          /\ n \in NodeIds
      BY <1>7, <2>1, NodeKinds DEF ReviewActionReleased, ReviewActionEnds, Binding, Reviewing, Final
    <2>3. review.released < ReleaseLimit
      BY <2>2, NoCallOfOthers DEF IInv, GraphFollows, CallFollows
    <2>4. review.released + 1 \in 0 .. ReleaseLimit
      BY <1>1, <1>2, <2>3 DEF ReviewEntry, ReviewTypeOK
    <2> QED
      BY <1>1, <2>2, <2>4 DEF ReviewStepped, ReviewEntry, ReviewTypeOK, Granted
  <1>8. ASSUME ReviewActionRejected PROVE ReviewStepped
    <2>1. /\ review' = [review EXCEPT !.rejected = TRUE] /\ revision' = revision
          /\ review.convergence = "None"
      BY <1>8 DEF ReviewActionRejected, ReviewActionEnds, Binding, Reviewing
    <2> QED
      BY <1>1, <2>1 DEF ReviewStepped, ReviewEntry, ReviewTypeOK, Granted
  <1>9. ASSUME DiffPageReviewed PROVE ReviewStepped
    <2>1. PICK blocking \in BOOLEAN :
            review' = [review EXCEPT !.unread = review.unread - 1,
                                     !.blocking = (review.blocking \/ blocking),
                                     !.released = 0, !.rejected = FALSE]
      BY <1>9 DEF DiffPageReviewed
    <2>2. /\ review.unread > 0 /\ review.manifest # "None" /\ review.convergence = "None"
          /\ revision' = revision
      BY <1>9 DEF DiffPageReviewed, ReviewActionEnds, Binding, Reviewing
    <2>3. review.unread - 1 \in 0 .. PageLimit /\ 0 \in 0 .. ReleaseLimit
          /\ (review.blocking \/ blocking) \in BOOLEAN
      BY <1>1, <1>2, <2>2 DEF ReviewEntry, ReviewTypeOK
    <2>4. review.verdict = "None"
      BY <1>1, <1>2, <2>2 DEF ReviewEntry, ReviewTypeOK
    <2> QED
      BY <1>1, <2>1, <2>2, <2>3, <2>4 DEF ReviewStepped, ReviewEntry, ReviewTypeOK, Granted
  <1>10. ASSUME DiffReviewRecorded PROVE ReviewStepped
    <2>1. /\ review.manifest # "None" /\ review.unread = 0 /\ review.verdict = "None"
          /\ review.convergence = "None" /\ revision' = revision
      BY <1>10 DEF DiffReviewRecorded, Reviewing, Reviewed, graphVars
    <2>2. PICK v \in {"Accepted", "Blocking"} : review' = [review EXCEPT !.verdict = v]
      BY <1>10 DEF DiffReviewRecorded, Reviewed
    <2> QED
      BY <1>1, <2>1, <2>2 DEF ReviewStepped, ReviewEntry, ReviewTypeOK, Granted
  <1>11. ASSUME CompletionEvaluationRecorded PROVE ReviewStepped
    <2>1. PICK c \in Completions :
            review' = [review EXCEPT !.completion = c, !.released = 0, !.rejected = FALSE]
      BY <1>11 DEF CompletionEvaluationRecorded
    <2>2. review.convergence = "None" /\ revision' = revision /\ 0 \in 0 .. ReleaseLimit
      BY <1>2, <1>11 DEF CompletionEvaluationRecorded, ReviewActionEnds, Binding, Reviewing
    <2> QED
      BY <1>1, <2>1, <2>2 DEF ReviewStepped, ReviewEntry, ReviewTypeOK, Granted
  <1>12. ASSUME PublicationAuthorityRequested PROVE ReviewStepped
    <2>1. /\ review.request = "Diff" /\ review.convergence = "None" /\ review.failure = "None"
          /\ review' = [review EXCEPT !.request = "Authority"] /\ revision' = revision
      BY <1>12 DEF PublicationAuthorityRequested, Reviewed, Concluded, Reviewing, graphVars
    <2> QED
      BY <1>1, <2>1 DEF ReviewStepped, ReviewEntry, ReviewTypeOK, Granted, Requests
  <1>13. ASSUME PublicationAuthorityObserved PROVE ReviewStepped
    <2>1. PICK f \in SUBSET Faults :
             Reviewed([review EXCEPT !.authority = TRUE, !.faults = f])
      BY <1>13 DEF PublicationAuthorityObserved
    <2>2. /\ review.request = "Authority" /\ review.convergence = "None"
          /\ review.failure = "None" /\ ~review.authority
      BY <1>13 DEF PublicationAuthorityObserved, AwaitsAuthority, Concluded, Reviewing
    <2> QED
      BY <1>1, <2>1, <2>2
         DEF ReviewStepped, ReviewEntry, ReviewTypeOK, Granted, Reviewed, graphVars
  <1>14. ASSUME PublicationAuthorityObservationFailed PROVE ReviewStepped
    <2>1. /\ review' = [review EXCEPT !.failure = "Unavailable"] /\ revision' = revision
          /\ review.convergence = "None"
      BY <1>14 DEF PublicationAuthorityObservationFailed, AwaitsAuthority, Concluded,
                   Reviewing, Reviewed, graphVars
    <2> QED
      BY <1>1, <2>1
         DEF ReviewStepped, ReviewEntry, ReviewTypeOK, Granted, EffectFailures
  <1>15. ASSUME PublicationEligibilityEvaluated PROVE ReviewStepped
    <2> DEFINE denied == FailedPredicates
    <2>1. /\ review' = [review EXCEPT !.evaluated = TRUE, !.denied = denied]
          /\ review.convergence = "None" /\ revision' = revision
          /\ review.authority /\ ~review.evaluated
      BY <1>15 DEF PublicationEligibilityEvaluated, Concluded, Reviewing, Reviewed, graphVars
    <2>2. denied \in SUBSET Predicates
      BY DEF FailedPredicates
    <2>3. denied = {} => review.faults = {} /\ review.manifest # "None"
      BY <1>1, EligibleMeans
    <2> HIDE DEF denied
    <2> QED
      BY <1>1, <1>15, <2>1, <2>2, <2>3 DEF ReviewStepped, ReviewEntry, ReviewTypeOK, Granted
  <1>16. ASSUME ReviewConverges PROVE ReviewStepped
    <2> DEFINE c == ReviewConvergence
    <2>1. /\ review' = [review EXCEPT !.convergence = c] /\ c # "None"
          /\ review.convergence = "None"
          /\ revision' \in IF review.failure = "Drift" THEN {revision, revision + 1}
                                                       ELSE {revision}
      BY <1>16 DEF ReviewConverges
    <2>2. c \in ReviewReasons \cup {"None"} /\ (review.failure # "None" => c = review.failure)
          /\ (review.failure = "None" => c # "Drift")
      BY <1>1 DEF ReviewConvergence, ReviewReasons, ReviewEntry, ReviewTypeOK, EffectFailures
    <2> HIDE DEF c
    <2>3. revision' # revision => review.failure = "Drift" /\ revision' = revision + 1
      BY <1>1, <2>1
    <2> QED
      BY <1>1, <2>1, <2>2, <2>3 DEF ReviewStepped, ReviewEntry, ReviewTypeOK, Granted
  <1> QED
    BY <1>3, <1>4, <1>5, <1>6, <1>7, <1>8, <1>9, <1>10, <1>11, <1>12, <1>13, <1>14, <1>15, <1>16
       DEF ReviewMoves

\* Nothing of validation or of the files changes once a review has begun, but
\* for the drift it finds itself.
LEMMA DuringReview ==
    ASSUME IInv, Moves, stage \notin BeforeReview
    PROVE  /\ validation' = validation
           /\ revision' = revision \/ (ReviewMoves /\ revision' = revision + 1)
  <1>1. stage \notin {"Implementation", "Validation", "Repair"}
    BY DEF BeforeReview, BeforeValidation
  <1>2. ~ValidationMoves /\ ~Reopens /\ ~Advances("Implementation", "Validation")
    BY <1>1, ValidationMovesKeep
       DEF Reopens, PriorInvalidated, Invalidates, Repaired, Advances, Advance, CanAdvance
  <1>3. ASSUME NEW n \in Mutators, MutationMoves(n) PROVE FALSE
    <2>1. Active(n) /\ n \in NodeIds /\ StageOf(n) \in {"Implementation", "Repair"}
      BY <1>3, MutationMovesKeep, Mutates
    <2> QED
      BY <1>1, <2>1 DEF IInv, GraphFollows, NodesFit, Eligible
  <1> QED
    BY <1>2, <1>3, StateEffects, RevisionEffects

\* A review is of files whose gates are bound to them, unless it found drift.
LEMMA ReviewedIsValidated ==
    ASSUME IInv, stage = "Review", review.convergence = "None"
    PROVE  validation.revision = revision /\ review.revision = revision /\ GatesPassed
  <1>1. ~RepairHandoffPending /\ ~RepairDriftPending /\ ~ReviewDriftPending
    BY DEF RepairHandoffPending, RepairDriftPending, ReviewDriftPending
  <1>2. ~ValidationInit /\ ~ReviewInit
    BY DEF IInv, StagesAreBound, ValidationIsBound, ReviewIsBound, BeforeValidation,
           BeforeImplementation, BeforePlanning
  <1>3. validation.revision = revision /\ review.revision = revision
    BY <1>1, <1>2 DEF IInv, StagesAreBound, ValidationIsBound, ReviewIsBound
  <1>4. Succeeded(CheckNodes)
    BY DEF IInv, GraphFollows, StagesFollow
  <1>5. \A g \in Gates : ~NeedsPass(g)
    BY <1>4, ValidationAssumption DEF IInv, ValidationFollows, EvidenceFollows, Succeeded
  <1> QED
    BY <1>3, <1>5 DEF GatesPassed, NeedsPass

LEMMA NextReviewFollows ==
    ASSUME IInv, Moves
    PROVE  ReviewFollows'
  <1>1. ReviewFollows /\ ReviewIsBound /\ ReviewEntry
    BY DEF IInv, StagesAreBound, ReviewFollows, ReviewEntry
  <1>2. stage \in BeforeReview => ReviewInit
    BY <1>1 DEF ReviewIsBound
  <1>3. ReviewInit => ~Granted
    BY DEF ReviewInit, Granted
  <1>4. ASSUME Advances("Validation", "Review")
        PROVE  ReviewEntry' /\ review'.mode # "None" /\ ~Granted' /\ review'.verdict = "None"
    <2>1. stage = "Validation"
      BY <1>4 DEF Advances, Advance, CanAdvance
    <2>2. ReviewInit
      BY <1>2, <2>1 DEF BeforeReview
    <2>3. PICK m \in Modes : review' = [review EXCEPT !.mode = m, !.revision = revision]
      BY <1>4 DEF Advances, ReviewEnters
    <2>4. m # "None" /\ revision \in Nat
      BY ReviewAssumption DEF IInv, GraphTypeOK
    <2>5. /\ review'.evaluated = FALSE /\ review'.mode = m
          /\ review'.verdict = "None"
      BY <2>2, <2>3 DEF ReviewInit
    <2>6. ReviewEntry'
      BY <1>1, <2>2, <2>3, <2>4 DEF ReviewEntry, ReviewTypeOK, ReviewInit, Granted
    <2> QED
      BY <2>4, <2>5, <2>6 DEF Granted
  <1>5. ReviewEntry'
    <2>1. CASE review' = review
      BY <1>1, <2>1 DEF ReviewEntry, ReviewTypeOK, Granted
    <2> QED
      BY <1>4, <2>1, StateEffects, ReviewStepTypes DEF ReviewStepped
  <1>6. (ReviewInit <=> review.mode = "None")'
    <2>1. CASE review' = review
      BY <1>1, <2>1 DEF ReviewFollows, ReviewInit
    <2>2. CASE Advances("Validation", "Review")
      BY <1>4, <2>2 DEF ReviewInit
    <2>3. CASE ReviewMoves
      <3>1. stage = "Review"
        BY <2>3, ReviewMovesKeep
      <3>2. review.mode # "None"
        BY <1>1, <3>1 DEF ReviewFollows, ReviewIsBound
      <3> QED
        BY <2>3, <3>2, ReviewStepTypes DEF ReviewStepped, ReviewInit
    <2> QED
      BY <2>1, <2>2, <2>3, StateEffects
  <1>7. node'["Review"] = "Succeeded" => review'.verdict = "Accepted"
    <2>1. "Review" \in NodeIds
      BY NodeKinds DEF Final
    <2>2. Succeeds("Review") => review.verdict = "Accepted"
      BY DEF Succeeds
    <2>3. review.verdict = "Accepted" => review'.verdict = "Accepted"
      <3>1. CASE Advances("Validation", "Review")
        <4>1. ReviewInit
          BY <1>2, <3>1 DEF Advances, Advance, CanAdvance, BeforeReview
        <4> QED
          BY <4>1 DEF ReviewInit
      <3> QED
        BY <3>1, StateEffects, ReviewStepTypes DEF ReviewStepped
    <2> QED
      BY <1>1, <2>1, <2>2, <2>3, NodeEffects DEF Effects, ReviewFollows
  <1>8. Granted' => GatesPassed'
    <2>1. ASSUME Granted, stage \notin BeforeReview, revision' = revision
          PROVE  GatesPassed'
      <3>1. validation' = validation
        BY <2>1, DuringReview
      <3> QED
        BY <1>1, <2>1, <3>1 DEF ReviewFollows, GatesPassed, Pass
    <2>2. ASSUME ReviewMoves, Granted' PROVE GatesPassed'
      <3>1. stage = "Review" /\ stage \notin BeforeReview /\ review.convergence = "None"
        BY <2>2, ReviewMovesKeep, ReviewStepTypes
           DEF ReviewStepped, BeforeReview, BeforeValidation, BeforeImplementation,
               BeforePlanning
      <3>2. validation' = validation /\ GatesPassed
        BY <3>1, DuringReview, ReviewedIsValidated
      <3>3. review'.failure # "Drift" \/ review'.request # "Diff"
        BY <1>5, <2>2 DEF ReviewEntry, Granted
      <3>4. revision' = revision
        BY <2>2, <3>3, ReviewStepTypes DEF ReviewStepped
      <3> QED
        BY <3>2, <3>4 DEF GatesPassed, Pass
    <2>3. ASSUME review' = review, Granted', ~ReviewMoves PROVE GatesPassed'
      <3>1. Granted
        BY <2>3 DEF Granted
      <3>2. stage \notin BeforeReview
        BY <1>2, <1>3, <3>1
      <3>3. revision' = revision
        BY <2>3, <3>2, DuringReview
      <3> QED
        BY <2>1, <3>1, <3>2, <3>3
    <2> QED
      BY <1>4, <2>2, <2>3, StateEffects
  <1>9. stage' = "Publication" => Granted' /\ review'.convergence = "None"
    <2>1. CASE stage = "Publication"
      <3>1. Granted /\ review.convergence = "None"
        BY <1>1, <2>1 DEF ReviewFollows
      <3>2. review' = review
        BY <2>1, StateEffects, ReviewMovesKeep DEF Advances, Advance, CanAdvance
      <3> QED
        BY <3>1, <3>2 DEF Granted
    <2>2. ASSUME stage # "Publication", stage' = "Publication"
          PROVE  Granted' /\ review'.convergence = "None"
      <3>1. Advances(stage, "Publication")
        BY <2>2, Leaving
      <3>2. Granted /\ review.convergence = "None" /\ review' = review
        BY <3>1 DEF Advances, Concluded, Reviewing
      <3> QED
        BY <3>2 DEF Granted
    <2> QED
      BY <2>1, <2>2
  <1>10. Granted' => review'.faults = {} /\ review'.manifest # "None" /\ GatesPassed'
    BY <1>5, <1>8 DEF ReviewEntry
  <1> QED
    BY <1>5, <1>6, <1>7, <1>9, <1>10 DEF ReviewFollows, ReviewEntry

-----------------------------------------------------------------------------
(* Publication.                                                              *)

\* The intent that is persisted is one that may be.
LEMMA NextOperationMeans ==
    ASSUME PublicationFollows, NEW o \in NextOperation
    PROVE  /\ o \in Operations /\ publication.attempts[o] + 1 \in 0 .. OperationLimit
           /\ o = "Commit" => publication.intent \in {"None", "Commit"}
                              /\ publication.applied = {}
           /\ o = "Push" => /\ "Commit" \in publication.applied
                            /\ publication.applied = {"Commit"}
                            /\ publication.intent \in {"Commit", "Push"}
           /\ o = "PullRequest" => /\ {"Commit", "Push"} = publication.applied
                                   /\ publication.intent \in {"Push", "PullRequest"}
           /\ o # "Commit" => publication.intent # "None"
  <1>1. OperationLimit \in Nat \ {0}
    BY PublicationAssumption
  <1>2. /\ publication.attempts \in [Operations -> 0 .. OperationLimit]
        /\ publication.intent \in Operations \cup {"None"}
        /\ publication.applied \subseteq Operations
        /\ "Commit" \in Operations /\ "Push" \in Operations /\ "PullRequest" \in Operations
    BY DEF PublicationFollows, PublicationTypeOK, Operations
  <1>3. CASE publication.intent = "None"
    <2>1. o = "Commit" /\ publication.attempts["Commit"] = 0 /\ publication.applied = {}
      BY <1>3 DEF NextOperation, PublicationFollows, Open, MayRepeat, Confirmed
    <2> QED
      BY <1>1, <1>2, <1>3, <2>1
  <1>4. CASE publication.intent # "None" /\ MayRepeat
    <2>1. /\ o = publication.intent /\ publication.attempts[o] < OperationLimit
          /\ publication.intent \notin publication.applied
      BY <1>4 DEF NextOperation, MayRepeat, Open, Confirmed, PublicationFollows, Failures
    <2>2. publication.attempts[o] + 1 \in 0 .. OperationLimit
      BY <1>1, <1>2, <1>4, <2>1
    <2> QED
      BY <1>2, <1>4, <2>1, <2>2 DEF PublicationFollows, Operations
  <1>5. CASE publication.intent # "None" /\ ~MayRepeat
    <2>1. /\ publication.observed = "Confirmed"
          /\ publication.intent \in publication.applied
          /\ \/ publication.intent = "Commit" /\ o = "Push"
             \/ publication.intent = "Push" /\ o = "PullRequest"
      BY <1>5 DEF NextOperation, Confirmed, Open, PublicationFollows
    <2>2. publication.attempts[o] = 0
      BY <2>1 DEF PublicationFollows
    <2> QED
      BY <1>1, <1>2, <2>1, <2>2 DEF PublicationFollows, Operations
  <1> QED
    BY <1>3, <1>4, <1>5

\* The next attempt, bound to some trees.
BoundAttempt(o, trees) ==
    [publication EXCEPT !.intent = o, !.observed = "None",
                        !.attempts = [publication.attempts EXCEPT ![o] = @ + 1],
                        !.trees = trees]

PublicationStepped ==
    PublicationFollows' /\ publication'.trees \subseteq ReviewedTrees

LEMMA PublicationStepTypes ==
    ASSUME IInv, PublicationMoves
    PROVE  PublicationStepped
  <1>1. /\ PublicationFollows /\ publication.trees \subseteq ReviewedTrees
        /\ review.revision \in Nat
    <2>1. stage = "Publication"
      BY PublicationMovesKeep
    <2> QED
      BY <2>1 DEF IInv, StagesAreBound, ReviewIsBound, ReviewFollows, ReviewTypeOK
  <1>2. /\ UNCHANGED <<node, review>> /\ Publishing
    BY PublicationMovesKeep DEF PublicationMoves, graphVars
  <1>3. /\ node["Publication"] = "Active" /\ ~publication.completed
        /\ publication.convergence = "None"
    BY <1>2 DEF Publishing, Active
  <1>4. review'.mode = review.mode /\ review'.revision = review.revision
        /\ (AsDraft' <=> AsDraft) /\ ReviewedTrees' = ReviewedTrees
    BY <1>2 DEF AsDraft, ReviewedTrees, Granted
  <1>5. /\ publication.intent \in Operations \cup {"None"}
        /\ publication.applied \subseteq Operations
        /\ publication.attempts \in [Operations -> 0 .. OperationLimit]
    BY <1>1 DEF PublicationFollows, PublicationTypeOK
  <1>6. ASSUME NEW o \in NextOperation, NEW trees,
               publication' = BoundAttempt(o, trees),
               trees = {review.revision}, trees \subseteq ReviewedTrees
        PROVE  PublicationStepped
    <2> DEFINE attempts == [publication.attempts EXCEPT ![o] = @ + 1]
    <2>1. /\ o \in Operations /\ publication.attempts[o] + 1 \in 0 .. OperationLimit
          /\ o = "Commit" => publication.intent \in {"None", "Commit"}
                             /\ publication.applied = {}
          /\ o = "Push" => publication.applied = {"Commit"}
                           /\ publication.intent \in {"Commit", "Push"}
          /\ o = "PullRequest" => {"Commit", "Push"} = publication.applied
                                  /\ publication.intent \in {"Push", "PullRequest"}
      BY <1>1, NextOperationMeans
    <2>2. /\ attempts \in [Operations -> 0 .. OperationLimit]
          /\ o # "Push" => attempts["Push"] = publication.attempts["Push"]
          /\ o # "PullRequest" => attempts["PullRequest"] = publication.attempts["PullRequest"]
      BY <1>5, <2>1 DEF Operations
    <2> HIDE DEF attempts
    <2>3. publication' = [publication EXCEPT !.intent = o, !.observed = "None",
                                             !.attempts = attempts, !.trees = trees]
      BY <1>6 DEF attempts, BoundAttempt
    <2>4. /\ publication'.intent = o /\ publication'.observed = "None"
          /\ publication'.attempts = attempts /\ publication'.trees = trees
          /\ publication'.applied = publication.applied
          /\ publication'.completed = publication.completed
          /\ publication'.convergence = publication.convergence
          /\ publication'.draft = publication.draft
      BY <1>1, <2>3 DEF PublicationFollows, PublicationTypeOK
    <2>5. trees \in SUBSET Nat
      BY <1>1, <1>6
    <2>6. PublicationTypeOK'
      BY <1>1, <2>1, <2>2, <2>3, <2>5 DEF PublicationFollows, PublicationTypeOK
    <2>7. PublicationFollows'
      <3>1. o \in {"Commit", "Push", "PullRequest"}
        BY <2>1 DEF Operations
      <3>2. /\ publication.intent \in {"None", "Commit"} => publication.attempts["Push"] = 0
            /\ publication.intent # "PullRequest" => publication.attempts["PullRequest"] = 0
            /\ publication.draft <=> ("PullRequest" \in publication.applied /\ AsDraft)
        BY <1>1 DEF PublicationFollows
      <3>3. publication'.draft <=> ("PullRequest" \in publication'.applied /\ AsDraft')
        BY <1>4, <2>4, <3>2
      <3>4. /\ o = "Commit" => attempts["Push"] = 0
            /\ o # "PullRequest" => attempts["PullRequest"] = 0
        BY <2>1, <2>2, <3>1, <3>2
      <3> QED
        BY <1>3, <1>4, <1>6, <2>1, <2>4, <2>6, <3>1, <3>3, <3>4
           DEF PublicationFollows, Failures, Operations
    <2> QED
      BY <1>6, <2>4, <2>7 DEF PublicationStepped
  <1>7. ASSUME CommitIntentPersisted PROVE PublicationStepped
    <2>1. PICK tree \in ReviewedTrees :
             Persisted("Commit", [Attempt("Commit") EXCEPT !.trees = {tree}])
      BY <1>7 DEF CommitIntentPersisted
    <2>2. tree = review.revision
      BY DEF ReviewedTrees
    <2>3. /\ "Commit" \in NextOperation
          /\ publication' = BoundAttempt("Commit", {tree})
      BY <1>1, <2>1 DEF BoundAttempt, Persisted, Published, Attempt, PublicationFollows, PublicationTypeOK
    <2>4. {tree} = {review.revision} /\ {tree} \subseteq ReviewedTrees
      BY <2>1, <2>2
    <2> QED
      BY <1>6, <2>2, <2>3, <2>4
  <1>8. ASSUME NEW o \in {"Push", "PullRequest"}, Persisted(o, Attempt(o))
        PROVE  PublicationStepped
    <2>1. /\ o \in NextOperation
          /\ publication' = [publication EXCEPT !.intent = o, !.observed = "None",
                               !.attempts[o] = @ + 1]
      BY <1>8 DEF Persisted, Published, Attempt
    <2>2. publication.trees = {review.revision}
      BY <1>1, <2>1, NextOperationMeans DEF PublicationFollows
    <2>3. publication' = BoundAttempt(o, publication.trees)
      BY <1>1, <2>1 DEF BoundAttempt, PublicationFollows, PublicationTypeOK
    <2> QED
      BY <1>1, <1>6, <2>1, <2>2, <2>3
  <1>9. ASSUME NEW o \in Operations, Unapplied(o), NEW head \in {"Expected", "Commit", "Foreign"},
               NEW draft \in BOOLEAN,
               publication' = [publication EXCEPT
                                 !.applied = publication.applied \cup {o},
                                 !.head = head, !.draft = draft],
               draft <=> ("PullRequest" \in publication.applied \cup {o} /\ AsDraft)
        PROVE  PublicationStepped
    <2>1. publication.intent = o /\ publication.observed = "None" /\ o \notin publication.applied
      BY <1>9 DEF Unapplied, Pending, Open
    <2>2. /\ publication'.intent = o /\ publication'.observed = "None"
          /\ publication'.attempts = publication.attempts
          /\ publication'.trees = publication.trees
          /\ publication'.applied = publication.applied \cup {o}
          /\ publication'.completed = publication.completed
          /\ publication'.convergence = publication.convergence
          /\ publication'.draft = draft
      BY <1>1, <1>9, <2>1 DEF PublicationFollows, PublicationTypeOK
    <2>3. PublicationTypeOK'
      BY <1>1, <1>9 DEF PublicationFollows, PublicationTypeOK
    <2>4. publication'.draft <=> ("PullRequest" \in publication'.applied /\ AsDraft')
      BY <1>4, <1>9, <2>2
    <2>5. o \in {"Commit", "Push", "PullRequest"}
      BY DEF Operations
    <2>6. PublicationFollows'
      BY <1>1, <1>3, <1>4, <2>1, <2>2, <2>3, <2>4, <2>5
         DEF PublicationFollows, Failures
    <2> QED
      BY <1>1, <2>2, <2>6 DEF PublicationStepped
  <1>10. /\ "Commit" \in Operations /\ "Push" \in Operations /\ "PullRequest" \in Operations
         /\ publication.draft \in BOOLEAN /\ AsDraft \in BOOLEAN
         /\ publication.head \in {"Expected", "Commit", "Foreign"}
         /\ publication.draft <=> ("PullRequest" \in publication.applied /\ AsDraft)
    BY <1>1 DEF Operations, PublicationFollows, PublicationTypeOK, AsDraft
  <1>11. ASSUME CreateCommit PROVE PublicationStepped
    <2>1. /\ Unapplied("Commit")
          /\ publication' = [publication EXCEPT
                                 !.applied = publication.applied \cup {"Commit"},
                                 !.head = publication.head, !.draft = publication.draft]
      BY <1>1, <1>11 DEF CreateCommit, Published, PublicationFollows, PublicationTypeOK
    <2> QED
      BY <1>9, <1>10, <2>1
  <1>12. ASSUME PushExactLease PROVE PublicationStepped
    <2>1. /\ Unapplied("Push")
          /\ publication' = [publication EXCEPT
                                 !.applied = publication.applied \cup {"Push"},
                                 !.head = "Commit", !.draft = publication.draft]
      BY <1>1, <1>12 DEF PushExactLease, Published, PublicationFollows, PublicationTypeOK
    <2> QED
      BY <1>9, <1>10, <2>1
  <1>13. ASSUME EnsurePullRequest PROVE PublicationStepped
    <2>1. /\ Unapplied("PullRequest")
          /\ publication' = [publication EXCEPT
                                 !.applied = publication.applied \cup {"PullRequest"},
                                 !.head = publication.head, !.draft = AsDraft]
      BY <1>1, <1>13 DEF EnsurePullRequest, Published, PublicationFollows, PublicationTypeOK
    <2> QED
      BY <1>9, <1>10, <2>1
  <1>14. ASSUME BranchMoves PROVE PublicationStepped
    <2>1. publication' = [publication EXCEPT !.head = "Foreign"]
      BY <1>14 DEF BranchMoves, Published
    <2>2. PublicationTypeOK' /\ publication'.trees = publication.trees
      BY <1>1, <2>1 DEF PublicationFollows, PublicationTypeOK
    <2>3. PublicationFollows'
      BY <1>1, <1>2, <1>4, <2>1, <2>2 DEF PublicationFollows, Confirmed, PublicationTypeOK
    <2> QED
      BY <1>1, <2>2, <2>3 DEF PublicationStepped
  <1>15. ASSUME NEW o \in Operations, NEW outcome \in PublicationOutcomes, Pending(o),
                publication' = [publication EXCEPT !.observed = outcome],
                outcome = "Confirmed" => o \in publication.applied,
                outcome \in Failures => o \notin publication.applied,
                outcome = "RemoteBranchMoved" => o = "Push"
         PROVE  PublicationStepped
    <2>1. publication.intent = o
      BY <1>15 DEF Pending
    <2>2. PublicationTypeOK' /\ publication'.trees = publication.trees
      BY <1>1, <1>15 DEF PublicationFollows, PublicationTypeOK
    <2>3. o # "None"
      BY DEF Operations
    <2>4. PublicationFollows'
      BY <1>1, <1>3, <1>4, <1>15, <2>1, <2>2, <2>3
         DEF PublicationFollows, PublicationTypeOK
    <2> QED
      BY <1>1, <2>2, <2>4 DEF PublicationStepped
  <1>16. ASSUME NEW o \in Operations, NEW outcomes, Observed(o, outcomes),
                outcomes \subseteq Answers(o) \cup {"RemoteBranchMoved"},
                o # "Push" => outcomes \subseteq Answers(o)
         PROVE  PublicationStepped
    <2>1. PICK outcome \in outcomes : Published([publication EXCEPT !.observed = outcome])
      BY <1>16 DEF Observed
    <2>2. /\ outcome \in PublicationOutcomes
          /\ outcome = "Confirmed" => o \in publication.applied
          /\ outcome \in Failures => o \notin publication.applied
          /\ outcome = "RemoteBranchMoved" => o = "Push"
      BY <1>16, <2>1 DEF Answers, FailuresOf, Failures, PublicationOutcomes
    <2>3. Pending(o) /\ publication' = [publication EXCEPT !.observed = outcome]
      BY <1>16, <2>1 DEF Observed, Published
    <2> QED
      BY <1>15, <2>2, <2>3
  <1>17. ASSUME CommitObserved \/ PushObserved \/ PullRequestObserved PROVE PublicationStepped
    <2>1. CASE CommitObserved
      BY <1>10, <1>16, <2>1 DEF CommitObserved
    <2>2. CASE PushObserved
      BY <1>10, <1>16, <2>2 DEF PushObserved, Movement
    <2>3. CASE PullRequestObserved
      BY <1>10, <1>16, <2>3 DEF PullRequestObserved
    <2> QED
      BY <1>17, <2>1, <2>2, <2>3
  <1>18. ASSUME PublicationConverges PROVE PublicationStepped
    <2> DEFINE c == PublicationConvergence
    <2>1. publication' = [publication EXCEPT !.convergence = c] /\ c # "None"
      BY <1>18 DEF PublicationConverges, Published
    <2>2. /\ c \in {"None", "AttemptsExhausted", "Permanent", "RemoteBranchMoved"}
          /\ c # "None" => publication.observed \in Failures \cup {"RemoteBranchMoved"}
      BY DEF PublicationConvergence, Failures
    <2> HIDE DEF c
    <2>3. PublicationTypeOK' /\ publication'.trees = publication.trees
      BY <1>1, <2>1, <2>2 DEF PublicationFollows, PublicationTypeOK
    <2>4. PublicationFollows'
      BY <1>1, <1>2, <1>3, <1>4, <2>1, <2>2, <2>3
         DEF PublicationFollows, PublicationTypeOK
    <2> QED
      BY <1>1, <2>3, <2>4 DEF PublicationStepped
  <1>19. ASSUME CompletionRecorded PROVE PublicationStepped
    <2>1. /\ publication' = [publication EXCEPT !.completed = TRUE]
          /\ publication.intent = "PullRequest" /\ publication.observed = "Confirmed"
      BY <1>19 DEF CompletionRecorded, Published, Confirmed
    <2>3. PublicationTypeOK' /\ publication'.trees = publication.trees
      BY <1>1, <2>1 DEF PublicationFollows, PublicationTypeOK
    <2>4. PublicationFollows'
      BY <1>1, <1>2, <1>3, <1>4, <2>1, <2>3
         DEF PublicationFollows, PublicationTypeOK, Confirmed
    <2> QED
      BY <1>1, <2>3, <2>4 DEF PublicationStepped
  <1> QED
    BY <1>7, <1>8, <1>11, <1>12, <1>13, <1>14, <1>17, <1>18, <1>19
       DEF PublicationMoves, PushIntentPersisted, PullRequestIntentPersisted

\* What was found stays with the files it was found of.
LEMMA AncestryStays ==
    ASSUME Moves, AncestryComplete, revision' = revision
    PROVE  AncestryComplete'
  <1> DEFINE Has(kind, r) == \E p \in proofs : p.kind = kind /\ p.revision = r
             Had(kind, r) == \E p \in proofs' : p.kind = kind /\ p.revision = r
  <1>1. proofs \subseteq proofs'
    BY ProofEffects
  <1>2. \A kind, n : Proved(kind, n) => Proved(kind, n)'
    BY <1>1 DEF Proved, ProofOf
  <1>3. \A kind, r : Has(kind, r) => Had(kind, r)
    BY <1>1
  <1>4. PICK barrier \in 0 .. revision :
          /\ Has("ImplementationBarrier", barrier)
          /\ \A r \in barrier + 1 .. revision :
               /\ Has("ValidationFailure", r - 1) /\ Has("RepairEligibility", r - 1)
               /\ Has("MutationVerified", r) /\ Has("RepairVerified", r)
               /\ Has("ValidationRerunScheduled", r)
    BY DEF AncestryComplete
  <1>5. /\ Had("ImplementationBarrier", barrier)
        /\ \A r \in barrier + 1 .. revision :
             /\ Had("ValidationFailure", r - 1) /\ Had("RepairEligibility", r - 1)
             /\ Had("MutationVerified", r) /\ Had("RepairVerified", r)
             /\ Had("ValidationRerunScheduled", r)
    <2> HIDE DEF Has, Had
    <2> QED
      BY <1>3, <1>4
  <1>6. /\ \A n \in CheckNodes : Proved("ValidationPassed", n)'
        /\ Proved("RequiredValidationPassed", "None")'
    BY <1>2 DEF AncestryComplete
  <1> QED
    BY <1>5, <1>6 DEF AncestryComplete

\* A review is entered with nothing published.
LEMMA ReviewEntered ==
    ASSUME IInv, Advances("Validation", "Review")
    PROVE  /\ stage = "Validation" /\ stage' = "Review" /\ ReviewInit /\ PublicationInit
           /\ review'.mode # "None" /\ review'.revision = revision
           /\ AncestryComplete /\ publication' = publication /\ revision' = revision
  <1>1. stage = "Validation" /\ stage' = "Review" /\ revision' = revision
        /\ publication' = publication
    BY DEF Advances, Advance, CanAdvance
  <1>2. ReviewInit /\ PublicationInit
    BY <1>1 DEF IInv, StagesAreBound, ReviewIsBound, BeforeReview
  <1>3. PICK m \in Modes : review' = [review EXCEPT !.mode = m, !.revision = revision]
    BY DEF Advances, ReviewEnters
  <1>4. m # "None"
    BY ReviewAssumption
  <1> QED
    BY <1>1, <1>2, <1>3, <1>4 DEF ReviewInit, Advances, ReviewEnters

LEMMA NextPublicationFollows ==
    ASSUME IInv, Moves
    PROVE  PublicationFollows'
  <1>1. PublicationFollows /\ "Publication" \in NodeIds
    BY NodeKinds DEF IInv, Final
  <1>2. ASSUME publication' = publication,
               publication.intent = "None" \/ review'.revision = review.revision,
               publication.applied = {} \/ review'.mode = review.mode
        PROVE  PublicationFollows'
    <2>1. publication.convergence # "None" => node'["Publication"] \in {"Active", "FailedTerminal"}
      <3>1. Succeeds("Publication") => publication.convergence = "None"
        BY <1>1 DEF Succeeds, PublicationFollows
      <3>2. \A t \in BOOLEAN : Fails("Publication", t) => node'["Publication"] = "FailedTerminal"
        BY <1>1, NodeKinds DEF Fails, Fail, Final, IInv, GraphTypeOK
      <3> QED
        BY <1>1, <3>1, <3>2, NodeEffects DEF Effects, PublicationFollows, Active
    <2>2. publication.intent # "None" => publication.trees = {review'.revision}
      BY <1>1, <1>2 DEF PublicationFollows
    <2>3. publication.draft <=> ("PullRequest" \in publication.applied /\ AsDraft')
      BY <1>1, <1>2 DEF PublicationFollows, AsDraft
    <2> QED
      BY <1>1, <1>2, <2>1, <2>2, <2>3 DEF PublicationFollows, PublicationTypeOK, Confirmed
  <1>3. CASE PublicationMoves
    BY <1>3, PublicationStepTypes DEF PublicationStepped
  <1>4. CASE publication' = publication /\ review' = review
    BY <1>2, <1>4
  <1>5. CASE publication' = publication /\ ReviewMoves
    BY <1>2, <1>5, ReviewStepTypes DEF ReviewStepped
  <1>6. CASE Advances("Validation", "Review")
    <2>1. publication' = publication /\ PublicationInit
      BY <1>6, ReviewEntered
    <2>2. publication.intent = "None" /\ publication.applied = {}
      BY <2>1 DEF PublicationInit
    <2> QED
      BY <1>2, <2>1, <2>2
  <1> QED
    BY <1>3, <1>4, <1>5, <1>6, StateEffects

\* Drift that a review found ends the attempt.
LEMMA ReviewDriftStays ==
    ASSUME IInv, Moves, ReviewDriftPending
    PROVE  ReviewDriftPending'
  <1>1. stage \in {"Review", "Terminal"} /\ review.convergence = "Drift"
    BY DEF ReviewDriftPending
  <1>2. ~Advances(stage, "Publication")
    BY <1>1 DEF Advances, Concluded, Reviewing
  <1>3. stage' # stage => stage' = "Terminal" \/ stage' = "Publication"
    BY <1>1, Leaving, EnteredFrom DEF Passages
  <1>4. stage' \in {"Review", "Terminal"}
    BY <1>1, <1>2, <1>3, Leaving
  <1>5. stage \notin BeforeReview
    BY <1>1 DEF BeforeReview, BeforeValidation, BeforeImplementation, BeforePlanning
  <1>6. ~ReviewMoves /\ stage # "Validation"
    BY <1>1, ReviewStepTypes DEF ReviewStepped
  <1>7. review' = review /\ revision' = revision
    BY <1>5, <1>6, StateEffects, ReviewEntered, DuringReview
  <1> QED
    BY <1>4, <1>7 DEF ReviewDriftPending

LEMMA NextReviewBound ==
    ASSUME IInv, Moves
    PROVE  ReviewIsBound'
  <1>1. ReviewIsBound /\ ReviewFollows /\ revision \in Nat
    BY DEF IInv, StagesAreBound, GraphTypeOK
  <1>2. ReviewFollows'
    BY NextReviewFollows
  <1>3. stage' \in BeforeReview => stage \in BeforeReview
    BY Leaving, EnteredFrom DEF BeforeReview, BeforeValidation, BeforeImplementation,
       BeforePlanning
  <1>4. stage \in BeforeReview =>
          \/ review' = review /\ publication' = publication
          \/ Advances("Validation", "Review")
    <2>1. stage \in BeforeReview => stage # "Review" /\ stage # "Publication"
      BY DEF BeforeReview, BeforeValidation, BeforeImplementation, BeforePlanning
    <2> QED
      BY <2>1, StateEffects, ReviewMovesKeep, PublicationMovesKeep DEF Advances
  <1>5. stage' \in BeforeReview => ReviewInit' /\ PublicationInit'
    <2>1. Advances("Validation", "Review") => stage' \notin BeforeReview
      BY ReviewEntered DEF BeforeReview, BeforeValidation, BeforeImplementation, BeforePlanning
    <2> QED
      BY <1>1, <1>3, <1>4, <2>1 DEF ReviewIsBound, ReviewInit, PublicationInit
  <1>6. stage' \in {"Review", "Publication"} => ~ReviewInit'
    <2>1. ASSUME stage' \in {"Review", "Publication"} PROVE review'.mode # "None"
      <3>1. CASE Advances("Validation", "Review")
        BY <3>1, ReviewEntered
      <3>2. CASE ~Advances("Validation", "Review")
        <4>1. stage \in {"Review", "Publication"}
          BY <2>1, <3>2, Leaving, EnteredFrom
        <4>2. review.mode # "None"
          BY <1>1, <4>1 DEF ReviewIsBound, ReviewFollows
        <4> QED
          BY <3>2, <4>2, StateEffects, ReviewStepTypes DEF ReviewStepped
      <3> QED
        BY <3>1, <3>2
    <2> QED
      BY <2>1 DEF ReviewInit
  <1>7. ~ReviewInit' =>
           \/ ReviewDriftPending'
           \/ review'.revision = revision' /\ AncestryComplete'
    <2>1. CASE Advances("Validation", "Review")
      BY <2>1, ReviewEntered, AncestryStays
    <2>2. CASE ReviewMoves
      <3>1. stage = "Review" /\ stage' = "Review" /\ ReviewStepped
        BY <2>2, ReviewMovesKeep, ReviewStepTypes
      <3>2. review.revision = revision /\ AncestryComplete
        BY <1>1, <3>1 DEF ReviewIsBound, ReviewDriftPending, ReviewStepped
      <3>3. CASE revision' = revision
        BY <3>1, <3>2, <3>3, AncestryStays DEF ReviewStepped
      <3>4. CASE revision' # revision
        BY <3>1, <3>2, <3>4 DEF ReviewStepped, ReviewDriftPending
      <3> QED
        BY <3>3, <3>4
    <2>3. CASE review' = review /\ ~ReviewMoves
      <3>1. ASSUME ~ReviewInit
            PROVE  \/ ReviewDriftPending'
                   \/ review'.revision = revision' /\ AncestryComplete'
        <4>1. stage \notin BeforeReview
          BY <1>1, <3>1 DEF ReviewIsBound
        <4>2. revision' = revision
          BY <2>3, <4>1, DuringReview
        <4>3. CASE ReviewDriftPending
          BY <4>3, ReviewDriftStays
        <4>4. CASE review.revision = revision /\ AncestryComplete
          BY <2>3, <4>2, <4>4, AncestryStays
        <4> QED
          BY <1>1, <3>1, <4>3, <4>4 DEF ReviewIsBound
      <3>2. ReviewInit => ReviewInit'
        BY <2>3 DEF ReviewInit
      <3> QED
        BY <3>1, <3>2
    <2> QED
      BY <2>1, <2>2, <2>3, StateEffects
  <1>8. ASSUME stage' = "Publication"
        PROVE  /\ review'.evaluated /\ review'.authority /\ review'.manifest # "None"
               /\ publication'.trees \subseteq ReviewedTrees'
    <2>1. Granted'
      BY <1>2, <1>8 DEF ReviewFollows
    <2>2. review'.evaluated /\ review'.authority /\ review'.manifest # "None"
      BY <1>2, <2>1 DEF ReviewFollows, Granted, ReviewTypeOK
    <2>3. publication'.trees \subseteq ReviewedTrees'
      <3>1. CASE stage = "Publication"
        <4>1. review' = review /\ publication.trees \subseteq ReviewedTrees
          BY <1>1, <3>1, StateEffects, ReviewMovesKeep, ReviewEntered DEF ReviewIsBound
        <4>2. ReviewedTrees' = ReviewedTrees
          BY <4>1 DEF ReviewedTrees, Granted
        <4> QED
          BY <4>1, <4>2, StateEffects, PublicationStepTypes DEF PublicationStepped
      <3>2. CASE stage # "Publication"
        <4>1. Advances(stage, "Publication") /\ stage = "Review"
          BY <1>8, <3>2, Leaving, EnteredFrom
        <4>2. PublicationInit /\ publication' = publication
          BY <1>1, <4>1 DEF ReviewIsBound, ReviewPublished, Advances
        <4>3. publication'.trees = {}
          BY <4>2 DEF PublicationInit
        <4> QED
          BY <4>3
      <3> QED
        BY <3>1, <3>2
    <2> QED
      BY <2>2, <2>3
  <1>9. ASSUME stage' = "Terminal"
        PROVE  IF ReviewPublished'
               THEN /\ review'.evaluated /\ review'.authority /\ review'.manifest # "None"
                    /\ publication'.trees \subseteq ReviewedTrees'
               ELSE PublicationInit'
    <2>1. review' = review /\ publication' = publication
      <3>1. CASE stage = "Terminal"
        BY <3>1, NothingAfterTheEnd
      <3>2. CASE stage # "Terminal"
        BY <1>9, <3>2, Leaving, EnteredFrom DEF Finishes
      <3> QED
        BY <3>1, <3>2
    <2>2. /\ (ReviewInit' <=> ReviewInit) /\ (PublicationInit' <=> PublicationInit)
          /\ ReviewedTrees' = ReviewedTrees
      BY <2>1 DEF ReviewInit, PublicationInit, ReviewedTrees, Granted
    <2>3. ReviewPublished' <=> ~ReviewInit /\ review.convergence = "None"
      BY <1>9, <2>1, <2>2 DEF ReviewPublished
    <2>4. CASE stage = "Terminal"
      <3>1. ReviewPublished' <=> ReviewPublished
        BY <2>3, <2>4 DEF ReviewPublished
      <3> QED
        BY <1>1, <2>1, <2>2, <2>4, <3>1 DEF ReviewIsBound
    <2>5. CASE stage = "Publication"
      <3>1. ReviewPublished'
        BY <1>1, <2>3, <2>5 DEF ReviewIsBound, ReviewFollows
      <3> QED
        BY <1>1, <2>1, <2>2, <2>5, <3>1 DEF ReviewIsBound
    <2>6. CASE stage \notin {"Terminal", "Publication"}
      <3>1. PublicationInit
        BY <1>1, <2>6 DEF ReviewIsBound, ReviewPublished
      <3>2. ~ReviewPublished'
        <4>1. CASE stage = "Review"
          <5>1. \A outcome \in Outcomes : Finishes(outcome) => review.convergence # "None"
            BY <4>1 DEF Finishes
          <5> QED
            BY <1>9, <2>3, <2>6, <5>1, Leaving, EnteredFrom
        <4>2. CASE stage # "Review"
          <5>1. stage \in BeforeReview
            BY <2>6, <4>2 DEF IInv, GraphTypeOK, Stages, BeforeReview, BeforeValidation,
                              BeforeImplementation, BeforePlanning
          <5> QED
            BY <1>1, <2>3, <5>1 DEF ReviewIsBound
        <4> QED
          BY <4>1, <4>2
      <3> QED
        BY <2>2, <3>1, <3>2
    <2> QED
      BY <2>4, <2>5, <2>6
  <1>10. ASSUME stage' \notin {"Publication", "Terminal"} PROVE PublicationInit'
    <2>1. CASE stage' \in BeforeReview
      BY <1>5, <2>1
    <2>2. CASE stage' \notin BeforeReview
      <3>1. stage' = "Review"
        BY <1>10, <2>2, NextGraph DEF GraphTypeOK, Stages, BeforeReview, BeforeValidation,
                               BeforeImplementation, BeforePlanning
      <3>2. stage \in {"Review", "Validation"} /\ (stage = "Validation" => stage \in BeforeReview)
        BY <3>1, Leaving, EnteredFrom DEF BeforeReview
      <3>3. PublicationInit
        BY <1>1, <3>2 DEF ReviewIsBound, ReviewPublished
      <3>4. publication' = publication
        BY <3>2, StateEffects, PublicationMovesKeep
      <3> QED
        BY <3>3, <3>4 DEF PublicationInit
    <2> QED
      BY <2>1, <2>2
  <1>11. /\ stage' \in BeforeReview => ReviewInit' /\ PublicationInit'
         /\ stage' \in {"Review", "Publication"} => ~ReviewInit'
         /\ ~ReviewInit' => \/ ReviewDriftPending'
                            \/ review'.revision = revision' /\ AncestryComplete'
    BY <1>5, <1>6, <1>7
  <1>12. IF stage' = "Publication" \/ ReviewPublished'
         THEN /\ review'.evaluated /\ review'.authority /\ review'.manifest # "None"
              /\ publication'.trees \subseteq ReviewedTrees'
         ELSE PublicationInit'
    <2>1. ReviewPublished' => stage' = "Terminal"
      BY DEF ReviewPublished
    <2> QED
      BY <1>8, <1>9, <1>10, <2>1
  <1> QED
    BY <1>11, <1>12 DEF ReviewIsBound

-----------------------------------------------------------------------------
(* Validation and repair: what their steps make of what they keep.           *)

\* A run of the next gate is scheduled, starts or ends.
RunsOn ==
    /\ stage = "Validation"
    /\ \E run \in Runs, runs \in [Gates -> 0 .. MaxRuns] :
         validation' = [validation EXCEPT !.run = run, !.runs = runs]

Judges(g, outcome) ==
    /\ g \in NextGate /\ g \in Gates /\ outcome \in {"Passed", "Failed"}
    /\ Validating /\ Active(GateNode[g])
    /\ validation' = [validation EXCEPT
         !.run = "None",
         !.evidence = [validation.evidence EXCEPT
                         ![g] = [outcome |-> outcome, revision |-> validation.revision]],
         !.rerun = validation.rerun /\ ~(outcome = "Passed" /\ g = validation.origin)]

Diagnoses(g) ==
    /\ Validating /\ g \in Gates
    /\ validation.failure = "None" /\ validation.evidence[g].outcome = "Failed"
    /\ validation' = [validation EXCEPT !.failure = g, !.rerun = FALSE,
                                        !.repair = "None", !.repairer = "None"]

Stops ==
    /\ \/ stage = "Validation" /\ NextGate # {}
       \/ stage = "Repair" /\ validation.failure # "None"
          /\ validation.repair \notin {"Selected", "Invalidated"}
    /\ \E c \in {"NoValidRepair", "GateRunBudget", "Infrastructure", "Canceled"} :
         validation' = [validation EXCEPT !.convergence = c]

Weighs ==
    /\ stage = "Repair" /\ validation.failure # "None" /\ validation.convergence = "None"
    /\ validation.repair \in {"None", "Ranked"}
    /\ \E to \in {"Ranked", "Evaluated", "NoTarget"} :
         validation' = [validation EXCEPT !.repair = to]

Selects(r) ==
    /\ stage = "Repair" /\ validation.failure # "None" /\ validation.convergence = "None"
    /\ validation.repair = "Evaluated"
    /\ r \in Repairs /\ node[r] = "Absent"
    /\ validation' = [validation EXCEPT !.repair = "Selected", !.repairer = r]

Schedules ==
    /\ stage = "Repair" /\ validation.failure \in Gates
    /\ validation.repair = "Invalidated"
    /\ validation' = [validation EXCEPT !.origin = validation.failure,
                                        !.rerun = TRUE, !.failure = "None"]

ValidationCases ==
    \/ RunsOn
    \/ \E g \in Gates, outcome \in {"Passed", "Failed"} : Judges(g, outcome)
    \/ \E g \in Gates : Diagnoses(g)
    \/ Stops
    \/ Weighs
    \/ \E r \in Repairs : Selects(r)
    \/ Schedules

LEMMA ValidationMovesAre ==
    ASSUME IInv, ValidationMoves
    PROVE  ValidationCases
  <1>1. /\ ValidationTypeOK /\ MaxRuns \in Nat \ {0}
        /\ validation.runs \in [Gates -> 0 .. MaxRuns] /\ validation.run \in Runs
        /\ NextGate \subseteq Gates
    BY ValidationAssumption, NextGateIsGate DEF IInv, ValidationFollows, ValidationTypeOK
  <1>2. ASSUME ValidationScheduled PROVE RunsOn
    <2>1. PICK g \in NextGate :
            /\ Validating /\ validation.runs[g] < MaxRuns
            /\ validation' = [validation EXCEPT !.run = "Scheduled", !.runs[g] = @ + 1]
      BY <1>2 DEF ValidationScheduled
    <2>2. [validation.runs EXCEPT ![g] = @ + 1] \in [Gates -> 0 .. MaxRuns]
      BY <1>1, <2>1
    <2>3. validation' = [validation EXCEPT !.run = "Scheduled",
                                           !.runs = [validation.runs EXCEPT ![g] = @ + 1]]
      BY <1>1, <2>1 DEF ValidationTypeOK
    <2>4. "Scheduled" \in Runs /\ stage = "Validation"
      BY <2>1 DEF Runs, Validating
    <2> QED
      BY <2>2, <2>3, <2>4 DEF RunsOn
  <1>3. ASSUME NEW g, NEW from, NEW to \in Runs, RunAdvances(g, from, to) PROVE RunsOn
    <2>1. validation' = [validation EXCEPT !.run = to] /\ stage = "Validation"
      BY <1>3 DEF RunAdvances, Validating
    <2>2. validation' = [validation EXCEPT !.run = to, !.runs = validation.runs]
      BY <1>1, <2>1 DEF ValidationTypeOK
    <2> QED
      BY <1>1, <2>1, <2>2 DEF RunsOn
  <1>4. ASSUME ProcessStarted PROVE RunsOn
    <2>1. "Started" \in Runs
      BY DEF Runs
    <2> QED
      BY <1>3, <1>4, <2>1 DEF ProcessStarted
  <1>5. ASSUME ProcessCompleted PROVE RunsOn
    <2>1. "Exited" \in Runs /\ "Canceled" \in Runs /\ "Infrastructure" \in Runs
      BY DEF Runs
    <2> QED
      BY <1>3, <1>5, <2>1 DEF ProcessCompleted
  <1>6. ASSUME EvidenceRecorded
        PROVE  \E g \in Gates, outcome \in {"Passed", "Failed"} : Judges(g, outcome)
    <2>1. PICK g \in NextGate, outcome \in {"Passed", "Failed"} :
            /\ Validating /\ Owns(GateNode[g], g)
            /\ validation' = [validation EXCEPT
              !.run = "None",
              !.evidence[g] = [outcome |-> outcome, revision |-> validation.revision],
              !.rerun = @ /\ ~(outcome = "Passed" /\ g = validation.origin)]
      BY <1>6 DEF EvidenceRecorded
    <2>2. validation' = [validation EXCEPT
         !.run = "None",
         !.evidence = [validation.evidence EXCEPT
                         ![g] = [outcome |-> outcome, revision |-> validation.revision]],
         !.rerun = validation.rerun /\ ~(outcome = "Passed" /\ g = validation.origin)]
      BY <1>1, <2>1 DEF ValidationTypeOK
    <2>3. Judges(g, outcome)
      BY <1>1, <2>1, <2>2 DEF Judges, Owns
    <2> QED
      BY <1>1, <2>3
  <1>7. ASSUME FailureRecorded PROVE \E g \in Gates : Diagnoses(g)
    BY <1>7 DEF FailureRecorded, Diagnoses
  <1>8. ASSUME GateConverges PROVE Stops
    <2>1. PICK g \in NextGate :
            /\ Validating
            /\ \/ validation.run \in {"Canceled", "Infrastructure"}
               \/ Unrun(g) /\ validation.runs[g] >= MaxRuns
            /\ validation' = [validation EXCEPT !.convergence =
                 IF validation.run = "None" THEN "GateRunBudget" ELSE validation.run]
      BY <1>8 DEF GateConverges
    <2>2. stage = "Validation" /\ NextGate # {}
      BY <2>1 DEF Validating
    <2>3. \E c \in {"NoValidRepair", "GateRunBudget", "Infrastructure", "Canceled"} :
            validation' = [validation EXCEPT !.convergence = c]
      BY <2>1 DEF Unrun
    <2> QED
      BY <2>2, <2>3 DEF Stops
  <1>9. ASSUME CandidatesRanked \/ EligibilityEvaluated PROVE Weighs
    BY <1>9 DEF CandidatesRanked, EligibilityEvaluated, RepairStepped, Choosing, Weighs
  <1>10. ASSUME TargetSelected PROVE \E r \in Repairs : Selects(r)
    <2> DEFINE r == CHOOSE r \in Repairs \ Present(Repairs) : TRUE
    <2>1. /\ Repairs \ Present(Repairs) # {} /\ Choosing("Evaluated")
          /\ validation' = [validation EXCEPT !.repair = "Selected", !.repairer = r]
      BY <1>10 DEF TargetSelected
    <2>2. r \in Repairs \ Present(Repairs)
      BY <2>1
    <2> HIDE DEF r
    <2>3. r \in Repairs /\ node[r] = "Absent"
      BY <2>2 DEF Present
    <2> QED
      BY <2>1, <2>3 DEF Selects, Choosing
  <1>11. ASSUME RepairConverges PROVE Stops
    <2>1. /\ stage = "Repair" /\ validation.failure # "None"
          /\ validation.repair \notin {"Selected", "Invalidated"}
      BY <1>11 DEF RepairConverges, Choosing
    <2>2. \E c \in {"NoValidRepair", "GateRunBudget", "Infrastructure", "Canceled"} :
            validation' = [validation EXCEPT !.convergence = c]
      BY <1>11 DEF RepairConverges
    <2> QED
      BY <2>1, <2>2 DEF Stops
  <1>12. ASSUME RerunScheduled PROVE Schedules
    <2>1. validation.failure \in Gates
      BY <1>1, <1>12 DEF RerunScheduled, Repaired, ValidationTypeOK
    <2> QED
      BY <1>12, <2>1 DEF RerunScheduled, Repaired, Schedules
  <1> QED
    BY <1>2, <1>4, <1>5, <1>6, <1>7, <1>8, <1>9, <1>10, <1>11, <1>12
       DEF ValidationMoves, ValidationCases

\* What a step of validation or of repair leaves as it is.
ValidationKeeps ==
    /\ ValidationTypeOK' /\ validation'.revision = validation.revision
    /\ \A g \in Gates : validation'.evidence[g] = validation.evidence[g]
                        \/ \E outcome \in {"Passed", "Failed"} : Judges(g, outcome)
                           /\ validation'.evidence[g] =
                                [outcome |-> outcome, revision |-> validation.revision]

LEMMA ValidationStepTypes ==
    ASSUME IInv, ValidationCases
    PROVE  ValidationKeeps
  <1>1. ValidationTypeOK
    BY DEF IInv, ValidationFollows
  <1>2. CASE RunsOn
    BY <1>1, <1>2 DEF RunsOn, ValidationKeeps, ValidationTypeOK
  <1>3. ASSUME NEW g \in Gates, NEW outcome \in {"Passed", "Failed"}, Judges(g, outcome)
        PROVE  ValidationKeeps
    <2> DEFINE verdict == [outcome |-> outcome, revision |-> validation.revision]
               evidence == [validation.evidence EXCEPT ![g] = verdict]
               rerun == validation.rerun /\ ~(outcome = "Passed" /\ g = validation.origin)
    <2>1. validation.evidence \in [Gates -> Evidence] /\ validation.revision \in Nat
      BY <1>1 DEF ValidationTypeOK
    <2>2. verdict \in Evidence
      BY <2>1 DEF Evidence
    <2>3. validation' = [validation EXCEPT !.run = "None", !.evidence = evidence,
                                           !.rerun = rerun]
      BY <1>3 DEF Judges
    <2>4. /\ evidence \in [Gates -> Evidence] /\ evidence[g] = verdict
          /\ \A h \in Gates : h # g => evidence[h] = validation.evidence[h]
      <3> HIDE DEF verdict
      <3> QED
        BY <2>1, <2>2
    <2>5. rerun \in BOOLEAN /\ "None" \in Runs
      BY DEF Runs
    <2> HIDE DEF evidence, rerun
    <2>6. ValidationTypeOK' /\ validation'.revision = validation.revision
          /\ validation'.evidence = evidence
      BY <1>1, <2>3, <2>4, <2>5 DEF ValidationTypeOK
    <2> QED
      BY <1>3, <2>4, <2>6 DEF ValidationKeeps
  <1>4. ASSUME NEW g \in Gates, Diagnoses(g) PROVE ValidationKeeps
    BY <1>1, <1>4 DEF Diagnoses, ValidationKeeps, ValidationTypeOK, RepairSteps
  <1>5. CASE Stops
    BY <1>1, <1>5 DEF Stops, ValidationKeeps, ValidationTypeOK
  <1>6. CASE Weighs
    BY <1>1, <1>6 DEF Weighs, ValidationKeeps, ValidationTypeOK, RepairSteps
  <1>7. ASSUME NEW r \in Repairs, Selects(r) PROVE ValidationKeeps
    BY <1>1, <1>7 DEF Selects, ValidationKeeps, ValidationTypeOK, RepairSteps
  <1>8. CASE Schedules
    BY <1>1, <1>8 DEF Schedules, ValidationKeeps, ValidationTypeOK
  <1> QED
    BY <1>2, <1>3, <1>4, <1>5, <1>6, <1>7, <1>8 DEF ValidationCases

\* A step that does not judge a gate leaves the evidence alone, and none but
\* the choice of a repair node selects one.
LEMMA WhenBound ==
    ASSUME IInv, stage = "Validation" \/ (stage = "Repair" /\ validation.repair # "Selected")
    PROVE  /\ ~ValidationInit /\ validation.revision = revision /\ revision > 0
           /\ validation.repair # "Selected"
           /\ \A r \in Repairs : node[r] \in {"Absent", "Succeeded"}
  <1>1. ~ReviewDriftPending /\ ~ValidationInit
    BY DEF IInv, StagesAreBound, ValidationIsBound, ReviewDriftPending, BeforeValidation,
           BeforeImplementation, BeforePlanning
  <1>2. validation.repair # "Selected"
    BY DEF IInv, ValidationFollows, RepairFollows
  <1>3. ~RepairHandoffPending /\ ~RepairDriftPending
    BY <1>2 DEF RepairHandoffPending, RepairDriftPending
  <1>4. validation.revision = revision
    BY <1>1, <1>3 DEF IInv, StagesAreBound, ValidationIsBound
  <1>5. revision > 0
    BY <1>1, <1>4 DEF IInv, ValidationFollows, GraphTypeOK
  <1> QED
    BY <1>1, <1>2, <1>4, <1>5 DEF IInv, ValidationFollows, RepairFollows

\* The gates are bound to what the targets made of the files.
LEMMA GatesEntered ==
    ASSUME IInv, Advances("Implementation", "Validation")
    PROVE  /\ stage = "Implementation" /\ stage' = "Validation" /\ ValidationInit
           /\ validation' = [validation EXCEPT !.revision = revision]
           /\ revision' = revision /\ revision > 0 /\ NoneActive
           /\ Known("ImplementationBarrier", revision)
  <1>1. /\ stage = "Implementation" /\ stage' = "Validation" /\ NoneActive
        /\ revision' = revision /\ Succeeded(Targets)
        /\ validation' = [validation EXCEPT !.revision = revision]
    BY DEF Advances, Advance, CanAdvance, ValidationEnters
  <1>2. ValidationInit
    BY <1>1 DEF IInv, StagesAreBound, ValidationIsBound, BeforeValidation
  <1>3. revision > 0
    BY <1>1, GraphAssumption DEF IInv, MutationFollows, Succeeded
  <1>4. TransitionProof("Implementation", "Validation") = "ImplementationBarrier"
    BY DEF TransitionProof
  <1>5. Known("ImplementationBarrier", revision)
    BY <1>4 DEF Advances, Advance, CanAdvance, Known
  <1> QED
    BY <1>1, <1>2, <1>3, <1>5

\* What is reopened rested on the files before the repair.
LEMMA ReopensMeans ==
    ASSUME IInv, Reopens
    PROVE  /\ stage = "Repair" /\ stage' = "Repair" /\ revision' = revision
           /\ revision = validation.revision + 1 /\ validation.revision > 0
           /\ validation.failure # "None" /\ validation.repair = "Selected"
           /\ validation.repairer \in Repairs /\ node[validation.repairer] = "Succeeded"
           /\ validation' = [validation EXCEPT !.repair = "Invalidated", !.run = "None",
                               !.revision = revision, !.evidence = NoEvidence]
           /\ node' = Reopened
           /\ ~ValidationInit
  <1>1. /\ stage = "Repair" /\ stage' = "Repair" /\ revision' = revision
        /\ validation.failure # "None" /\ validation.repair = "Selected"
        /\ node[validation.repairer] = "Succeeded" /\ validation.revision # revision
        /\ validation' = [validation EXCEPT !.repair = "Invalidated", !.run = "None",
                            !.revision = revision, !.evidence = NoEvidence]
        /\ node' = Reopened
    BY DEF Reopens, PriorInvalidated, Invalidates, Repaired
  <1>2. ~ValidationInit /\ validation.repairer \in Repairs
    BY <1>1 DEF IInv, StagesAreBound, ValidationIsBound, BeforeValidation,
           BeforeImplementation, BeforePlanning, ValidationFollows, RepairFollows
  <1>3. ~RepairDriftPending /\ ~ReviewDriftPending
    BY <1>1 DEF RepairDriftPending, ReviewDriftPending
  <1>4. RepairHandoffPending
    BY <1>1, <1>2, <1>3 DEF IInv, StagesAreBound, ValidationIsBound
  <1>5. revision = validation.revision + 1
    BY <1>4 DEF RepairHandoffPending
  <1>6. validation.revision > 0
    BY <1>2 DEF IInv, ValidationFollows, ValidationTypeOK
  <1> QED
    BY <1>1, <1>2, <1>5, <1>6

LEMMA NextValidationTypes ==
    ASSUME IInv, Moves
    PROVE  ValidationTypeOK' /\ (ValidationInit <=> validation.revision = 0)'
  <1>1. ValidationTypeOK /\ (ValidationInit <=> validation.revision = 0) /\ revision \in Nat
    BY DEF IInv, ValidationFollows, GraphTypeOK
  <1>2. ValidationInit' => validation'.revision = 0
    BY DEF ValidationInit
  <1>3. CASE validation' = validation
    BY <1>1, <1>3 DEF ValidationTypeOK, ValidationInit
  <1>4. CASE ValidationMoves
    <2>1. ValidationKeeps
      BY <1>4, ValidationMovesAre, ValidationStepTypes
    <2>2. stage \in {"Validation", "Repair"}
      BY <1>4, ValidationMovesKeep
    <2>3. validation.revision # 0
      BY <1>1, <2>2 DEF IInv, StagesAreBound, ValidationIsBound, BeforeValidation,
                        BeforeImplementation, BeforePlanning
    <2> QED
      BY <1>2, <2>1, <2>3 DEF ValidationKeeps
  <1>5. CASE Reopens
    <2>1. /\ validation' = [validation EXCEPT !.repair = "Invalidated", !.run = "None",
                               !.revision = revision, !.evidence = NoEvidence]
          /\ revision = validation.revision + 1
      BY <1>5, ReopensMeans
    <2>2. NoEvidence \in [Gates -> Evidence] /\ "Invalidated" \in RepairSteps /\ "None" \in Runs
      BY DEF NoEvidence, Evidence, RepairSteps, Runs
    <2>3. ValidationTypeOK' /\ validation'.revision = revision
      BY <1>1, <2>1, <2>2 DEF ValidationTypeOK
    <2>4. revision # 0
      BY <1>1, <2>1 DEF ValidationTypeOK
    <2> QED
      BY <1>2, <2>3, <2>4
  <1>6. CASE Advances("Implementation", "Validation")
    <2>1. validation' = [validation EXCEPT !.revision = revision] /\ revision > 0
      BY <1>6, GatesEntered
    <2>2. ValidationTypeOK' /\ validation'.revision = revision
      BY <1>1, <2>1 DEF ValidationTypeOK
    <2> QED
      BY <1>1, <1>2, <2>1, <2>2
  <1> QED
    BY <1>3, <1>4, <1>5, <1>6, StateEffects

\* A repair that is verified is a mutation that was.
LEMMA RepairsAreMutations ==
    ASSUME IInv, Moves
    PROVE  \A p \in proofs' : p.kind = "RepairVerified" => Known("MutationVerified", p.revision)'
  <1>1. ASSUME NEW p \in proofs', p.kind = "RepairVerified"
        PROVE  Known("MutationVerified", p.revision)
    <2>1. CASE p \in proofs
      BY <1>1, <2>1 DEF IInv, ValidationFollows, RepairFollows
    <2>2. CASE p \notin proofs
      <3>1. PICK kind \in ProofKinds, n \in NodeIds \cup {"None"} :
               Records(kind, n) /\ p = ProofOf(kind, n)
        BY <2>2, ProofEffects
      <3>2. kind = "RepairVerified" /\ p.revision = revision
        BY <1>1, <3>1 DEF ProofOf
      <3>3. Proved("MutationVerified", n)
        BY <3>1, <3>2 DEF Records
      <3> QED
        BY <3>2, <3>3 DEF Proved, ProofOf, Known
    <2> QED
      BY <2>1, <2>2
  <1> QED
    BY <1>1, KnownStays

\* The nodes of repairs come and go one at a time.
LEMMA RepairNodes ==
    ASSUME IInv, Moves, NEW r \in Repairs
    PROVE  /\ node'[r] \notin {"Absent", "Succeeded"} =>
                node[r] \notin {"Absent", "Succeeded"} \/ AddsRepair(r)
           /\ node'[r] # "Absent" => node[r] # "Absent" \/ AddsRepair(r)
           /\ node[r] # "Absent" => node'[r] # "Absent"
           /\ node'[r] = "Succeeded" => node[r] = "Succeeded" \/ Succeeds(r)
           /\ node[r] = "Succeeded" => node'[r] = "Succeeded"
           /\ r \in NodeIds /\ r \in Mutators
  BY NodeKinds, NodeEffects DEF Effects, Mutators

LEMMA AddsRepairMeans ==
    ASSUME IInv, NEW r \in Repairs, AddsRepair(r)
    PROVE  /\ stage = "Repair" /\ validation.failure # "None"
           /\ validation.repair = "Selected" /\ validation.repairer = r
           /\ node[r] = "Absent" /\ UNCHANGED <<stage, validation, revision>>
           /\ Known("RepairEligibility", revision) /\ validation.revision = revision
  <1>1. /\ stage = "Repair" /\ validation.failure # "None"
        /\ validation.repair = "Selected" /\ validation.repairer = r
        /\ node[r] = "Absent" /\ UNCHANGED <<stage, validation, revision>>
        /\ Proved("RepairEligibility", "None")
    BY DEF AddsRepair, Choosing, AddRepair
  <1>2. Known("RepairEligibility", revision)
    BY <1>1 DEF Proved, ProofOf, Known
  <1>3. ~RepairHandoffPending /\ ~RepairDriftPending /\ ~ReviewDriftPending
    BY <1>1 DEF RepairHandoffPending, RepairDriftPending, ReviewDriftPending, Mutating, Active
  <1>4. ~ValidationInit
    BY <1>1 DEF ValidationInit
  <1> QED
    BY <1>1, <1>2, <1>3, <1>4 DEF IInv, StagesAreBound, ValidationIsBound

\* While the repair node is at work or done, only it changes the files.
LEMMA AfterRepair ==
    ASSUME IInv, Moves, validation.repair = "Selected",
           node[validation.repairer] = "Succeeded"
    PROVE  revision' = revision
  <1>1. stage \in {"Repair", "Terminal"}
    BY DEF IInv, ValidationFollows, RepairFollows
  <1>2. ASSUME NEW n \in Mutators, MutationMoves(n) PROVE FALSE
    <2>1. Active(n) /\ n \in NodeIds /\ StageOf(n) = stage
      BY <1>2, MutationMovesKeep DEF IInv, GraphFollows, NodesFit, Eligible
    <2>2. n \in Repairs
      BY <1>1, <2>1, Mutates
    <2>3. n = validation.repairer
      BY <2>1, <2>2 DEF IInv, ValidationFollows, RepairFollows, Active
    <2> QED
      BY <2>1, <2>3 DEF Active
  <1> QED
    BY <1>1, <1>2, RevisionEffects, ReviewMovesKeep

\* The parts of RepairFollows.
RepairSteady ==
    /\ validation.failure # "None" => ~validation.rerun
    /\ validation.failure = "None" => validation.repair \in {"None", "Invalidated"}
    /\ stage = "Repair" => validation.rerun \/ validation.failure # "None"
    /\ stage = "Repair" /\ validation.rerun => validation.convergence = "None"
    /\ validation.repair = "Selected" =>
         /\ validation.repairer \in Repairs
         /\ validation.convergence = "None" /\ stage \in {"Repair", "Terminal"}
    /\ validation.failure # "None" /\ validation.repair = "Invalidated" =>
         validation.convergence = "None"

RepairNodesFollow ==
    /\ \A r \in Repairs : node[r] \notin {"Absent", "Succeeded"} =>
         validation.repair = "Selected" /\ validation.repairer = r
    /\ stage = "Repair" /\ validation.failure # "None"
       /\ validation.repair # "Invalidated" =>
         Known("ValidationFailure", validation.revision)
    /\ validation.repair = "Selected" /\ node[validation.repairer] # "Absent" =>
         Known("RepairEligibility", validation.revision)
    /\ validation.repair = "Selected" /\ node[validation.repairer] = "Succeeded" =>
         Known("RepairVerified", revision)

\* Where the position of the stages goes while a failure is repaired.
LEMMA ValidationLeaves ==
    ASSUME IInv, Moves
    PROVE  /\ stage' = "Repair" /\ stage # "Repair" =>
                /\ stage = "Validation" /\ validation.failure # "None" /\ ~validation.rerun
                /\ validation' = validation /\ Known("ValidationFailure", validation.revision)
           /\ stage = "Repair" /\ stage' \notin {"Repair", "Terminal"} =>
                /\ stage' = "Validation" /\ validation.rerun /\ validation.repair # "Selected"
                /\ Known("ValidationRerunScheduled", validation.revision)
  <1>1. RepairSteady
    BY DEF IInv, ValidationFollows, RepairFollows, RepairSteady
  <1>2. ASSUME stage' = "Repair", stage # "Repair"
        PROVE  /\ stage = "Validation" /\ validation.failure # "None" /\ ~validation.rerun
               /\ validation' = validation /\ Known("ValidationFailure", validation.revision)
    <2>1. stage = "Validation" /\ Advances("Validation", "Repair")
      BY <1>2, Leaving, EnteredFrom
    <2>2. TransitionProof("Validation", "Repair") = "ValidationFailure"
      BY DEF TransitionProof
    <2>3. Known("ValidationFailure", revision)
      BY <2>1, <2>2 DEF Advances, Advance, CanAdvance, Known
    <2>4. validation.revision = revision
      BY <2>1, WhenBound
    <2> QED
      BY <1>1, <2>1, <2>3, <2>4 DEF Advances, Diagnosed, RepairSteady
  <1>3. ASSUME stage = "Repair", stage' \notin {"Repair", "Terminal"}
        PROVE  /\ stage' = "Validation" /\ validation.rerun /\ validation.repair # "Selected"
               /\ Known("ValidationRerunScheduled", validation.revision)
    <2>1. Advances("Repair", "Validation") /\ stage' = "Validation"
      BY <1>3, Leaving DEF Passages
    <2>2. TransitionProof("Repair", "Validation") = "ValidationRerunScheduled"
      BY DEF TransitionProof
    <2>3. Known("ValidationRerunScheduled", revision)
      BY <2>1, <2>2 DEF Advances, Advance, CanAdvance, Known
    <2>4. validation.rerun /\ validation.repair # "Selected"
      BY <1>1, <2>1 DEF Advances, RepairSteady
    <2> QED
      BY <1>3, <2>1, <2>3, <2>4, WhenBound
  <1> QED
    BY <1>2, <1>3

LEMMA NextRepairSteady ==
    ASSUME IInv, Moves
    PROVE  RepairSteady'
  <1>1. RepairSteady /\ ValidationTypeOK
    BY DEF IInv, ValidationFollows, RepairFollows, RepairSteady
  <1>2. CASE validation' = validation
    BY <1>1, <1>2, ValidationLeaves, NothingAfterTheEnd DEF RepairSteady
  <1>3. CASE ValidationMoves
    <2>1. stage' = stage /\ ValidationCases /\ stage \in {"Validation", "Repair"}
      BY <1>3, ValidationMovesKeep, ValidationMovesAre DEF graphVars
    <2>2. NextGate # {} => validation.failure = "None"
      BY DEF NextGate
    <2>3. CASE RunsOn
      BY <1>1, <2>1, <2>3 DEF RunsOn, RepairSteady, ValidationTypeOK
    <2>4. ASSUME NEW g \in Gates, NEW outcome \in {"Passed", "Failed"}, Judges(g, outcome)
          PROVE  RepairSteady'
      <3>1. /\ validation'.failure = validation.failure /\ validation'.repair = validation.repair
            /\ validation'.repairer = validation.repairer
            /\ validation'.convergence = validation.convergence
            /\ validation'.rerun => validation.rerun
            /\ stage = "Validation"
        BY <1>1, <2>4 DEF Judges, ValidationTypeOK, Validating
      <3> QED
        BY <1>1, <2>1, <3>1 DEF RepairSteady
    <2>5. ASSUME NEW g \in Gates, Diagnoses(g) PROVE RepairSteady'
      <3>1. g # "None"
        BY ValidationAssumption
      <3> QED
        BY <1>1, <2>1, <2>5, <3>1 DEF Diagnoses, RepairSteady, ValidationTypeOK, Validating
    <2>6. CASE Stops
      BY <1>1, <2>1, <2>2, <2>6 DEF Stops, RepairSteady, ValidationTypeOK
    <2>7. CASE Weighs
      BY <1>1, <2>1, <2>7 DEF Weighs, RepairSteady, ValidationTypeOK
    <2>8. ASSUME NEW r \in Repairs, Selects(r) PROVE RepairSteady'
      BY <1>1, <2>1, <2>8 DEF Selects, RepairSteady, ValidationTypeOK
    <2>9. CASE Schedules
      <3>1. validation.failure # "None"
        BY <2>9, ValidationAssumption DEF Schedules
      <3> QED
        BY <1>1, <2>1, <2>9, <3>1 DEF Schedules, RepairSteady, ValidationTypeOK
    <2> QED
      BY <2>1, <2>3, <2>4, <2>5, <2>6, <2>7, <2>8, <2>9 DEF ValidationCases
  <1>4. CASE Reopens
    BY <1>1, <1>4, ReopensMeans DEF RepairSteady, ValidationTypeOK
  <1>5. CASE Advances("Implementation", "Validation")
    BY <1>1, <1>5, GatesEntered DEF RepairSteady, ValidationTypeOK, ValidationInit
  <1> QED
    BY <1>2, <1>3, <1>4, <1>5, StateEffects

LEMMA NextRepairNodes ==
    ASSUME IInv, Moves
    PROVE  RepairNodesFollow'
  <1>1. RepairSteady /\ RepairNodesFollow /\ ValidationTypeOK
    BY DEF IInv, ValidationFollows, RepairFollows, RepairSteady, RepairNodesFollow
  <1>2. CASE validation' = validation
    <2>1. \A r \in Repairs : node'[r] \notin {"Absent", "Succeeded"} =>
             validation'.repair = "Selected" /\ validation'.repairer = r
      BY <1>1, <1>2, RepairNodes, AddsRepairMeans DEF RepairNodesFollow
    <2>2. ASSUME stage' = "Repair", validation'.failure # "None",
                 validation'.repair # "Invalidated"
          PROVE  \A of : of = validation'.revision => Known("ValidationFailure", of)'
      <3>1. Known("ValidationFailure", validation.revision)
        BY <1>1, <1>2, <2>2, ValidationLeaves DEF RepairNodesFollow
      <3> QED
        BY <1>2, <3>1, KnownStays
    <2>3. ASSUME validation.repair = "Selected"
          PROVE  /\ node'[validation.repairer] # "Absent" =>
                      \A of : of = validation.revision => Known("RepairEligibility", of)'
                 /\ node'[validation.repairer] = "Succeeded" =>
                      \A of : of = revision' => Known("RepairVerified", of)'
      <3>1. validation.repairer \in Repairs
        BY <1>1, <2>3 DEF RepairSteady
      <3>2. node'[validation.repairer] # "Absent" =>
              Known("RepairEligibility", validation.revision)
        BY <1>1, <2>3, <3>1, RepairNodes, AddsRepairMeans DEF RepairNodesFollow
      <3>3. CASE node[validation.repairer] = "Succeeded"
        <4>1. revision' = revision /\ Known("RepairVerified", revision)
          BY <1>1, <2>3, <3>3, AfterRepair DEF RepairNodesFollow
        <4> QED
          BY <3>2, <4>1, KnownStays
      <3>4. CASE Succeeds(validation.repairer)
        <4>1. SatisfyingProofs(validation.repairer) = {"RepairVerified"}
          BY <3>1, NodeKinds DEF SatisfyingProofs, Final
        <4>2. Proved("RepairVerified", validation.repairer) /\ revision' = revision
          BY <3>4, <4>1 DEF Succeeds, Succeed, CanSucceed
        <4>3. Known("RepairVerified", revision)
          BY <4>2 DEF Proved, ProofOf, Known
        <4> QED
          BY <3>2, <4>2, <4>3, KnownStays
      <3> QED
        BY <3>1, <3>2, <3>3, <3>4, RepairNodes, KnownStays
    <2> QED
      BY <1>2, <2>1, <2>2, <2>3 DEF RepairNodesFollow
  <1>3. CASE ValidationMoves
    <2>1. /\ UNCHANGED <<stage, node, proofs, revision>> /\ ValidationCases
          /\ stage \in {"Validation", "Repair"}
      BY <1>3, ValidationMovesKeep, ValidationMovesAre DEF graphVars
    <2>2. \A kind, of : Known(kind, of)' <=> Known(kind, of)
      BY <2>1 DEF Known
    <2>3. ASSUME validation'.failure = validation.failure,
                 validation'.repair = validation.repair,
                 validation'.repairer = validation.repairer,
                 validation'.revision = validation.revision
          PROVE  RepairNodesFollow'
      BY <1>1, <2>1, <2>2, <2>3 DEF RepairNodesFollow
    <2>4. CASE RunsOn
      BY <1>1, <2>3, <2>4 DEF RunsOn, ValidationTypeOK
    <2>5. ASSUME NEW g \in Gates, NEW outcome \in {"Passed", "Failed"}, Judges(g, outcome)
          PROVE  RepairNodesFollow'
      BY <1>1, <2>3, <2>5 DEF Judges, ValidationTypeOK
    <2>6. CASE Stops
      BY <1>1, <2>3, <2>6 DEF Stops, ValidationTypeOK
    <2>7. ASSUME validation.repair # "Selected",
                 \A r \in Repairs : node[r] \notin {"Absent", "Succeeded"} =>
                    validation'.repair = "Selected" /\ validation'.repairer = r,
                 validation'.repair = "Selected" => node[validation'.repairer] = "Absent",
                 stage = "Repair" /\ validation'.failure # "None"
                    /\ validation'.repair # "Invalidated" =>
                    /\ validation.failure # "None" /\ validation.repair # "Invalidated",
                 validation'.revision = validation.revision
          PROVE  RepairNodesFollow'
      BY <1>1, <2>1, <2>2, <2>7 DEF RepairNodesFollow
    <2>8. ASSUME NEW g \in Gates, Diagnoses(g) PROVE RepairNodesFollow'
      <3>1. stage = "Validation" /\ validation.repair # "Selected"
            /\ \A r \in Repairs : node[r] \in {"Absent", "Succeeded"}
        BY <2>8, WhenBound DEF Diagnoses, Validating
      <3>2. validation'.repair = "None" /\ validation'.revision = validation.revision
        BY <1>1, <2>8 DEF Diagnoses, ValidationTypeOK
      <3> QED
        BY <2>7, <3>1, <3>2
    <2>9. CASE Weighs
      <3>1. /\ validation.repair # "Selected" /\ validation.repair # "Invalidated"
            /\ \A r \in Repairs : node[r] \in {"Absent", "Succeeded"}
            /\ validation.failure # "None"
        BY <2>9, WhenBound DEF Weighs
      <3>2. validation'.repair # "Selected" /\ validation'.revision = validation.revision
        BY <1>1, <2>9 DEF Weighs, ValidationTypeOK
      <3> QED
        BY <2>7, <3>1, <3>2
    <2>10. ASSUME NEW r \in Repairs, Selects(r) PROVE RepairNodesFollow'
      <3>1. /\ validation.repair = "Evaluated" /\ validation.failure # "None"
            /\ \A s \in Repairs : node[s] \in {"Absent", "Succeeded"}
        BY <2>10, WhenBound DEF Selects
      <3>2. /\ validation'.repair = "Selected" /\ validation'.repairer = r
            /\ node[r] = "Absent" /\ validation'.revision = validation.revision
        BY <1>1, <2>10 DEF Selects, ValidationTypeOK
      <3> QED
        BY <2>7, <3>1, <3>2
    <2>11. CASE Schedules
      <3>1. /\ validation.repair = "Invalidated"
            /\ \A s \in Repairs : node[s] \in {"Absent", "Succeeded"}
        BY <2>11, WhenBound DEF Schedules
      <3>2. /\ validation'.repair = "Invalidated" /\ validation'.failure = "None"
            /\ validation'.revision = validation.revision
        BY <1>1, <2>11 DEF Schedules, ValidationTypeOK
      <3> QED
        BY <2>7, <3>1, <3>2
    <2> QED
      BY <2>1, <2>4, <2>5, <2>6, <2>8, <2>9, <2>10, <2>11 DEF ValidationCases
  <1>4. CASE Reopens
    <2>1. /\ validation.repair = "Selected" /\ node[validation.repairer] = "Succeeded"
          /\ stage' = "Repair"
      BY <1>4, ReopensMeans
    <2>2. validation'.repair = "Invalidated"
      BY <1>1, <1>4, ReopensMeans DEF ValidationTypeOK
    <2>3. \A r \in Repairs : ~AddsRepair(r)
      BY <1>4, ReopensMeans, AddsRepairMeans
    <2>4. \A r \in Repairs : node'[r] \in {"Absent", "Succeeded"}
      BY <1>1, <2>1, <2>3, RepairNodes DEF RepairNodesFollow
    <2> QED
      BY <2>2, <2>4 DEF RepairNodesFollow
  <1>5. CASE Advances("Implementation", "Validation")
    <2>1. stage = "Implementation" /\ stage' = "Validation" /\ ValidationInit
      BY <1>5, GatesEntered
    <2>2. validation.repair = "None" /\ validation'.repair = "None"
      BY <1>1, <1>5, <2>1, GatesEntered DEF ValidationInit, ValidationTypeOK
    <2>3. \A r \in Repairs : ~AddsRepair(r)
      BY <2>1, AddsRepairMeans
    <2>4. \A r \in Repairs : node'[r] \in {"Absent", "Succeeded"}
      BY <1>1, <2>2, <2>3, RepairNodes DEF RepairNodesFollow
    <2> QED
      BY <2>1, <2>2, <2>4 DEF RepairNodesFollow
  <1> QED
    BY <1>2, <1>3, <1>4, <1>5, StateEffects

LEMMA NextRepair ==
    ASSUME IInv, Moves
    PROVE  RepairFollows'
  BY NextRepairSteady, NextRepairNodes, RepairsAreMutations
     DEF RepairSteady, RepairNodesFollow, RepairFollows

\* What the gate of a repair and a failure have in common: they need a pass.
EvidenceSteady ==
    /\ \A g \in Gates : validation.evidence[g].revision <= validation.revision
    /\ validation.revision <= revision
    /\ validation.rerun => validation.origin \in Gates /\ NeedsPass(validation.origin)
    /\ validation.failure # "None" => NeedsPass(validation.failure)

\* What a check that succeeded rests on.
CheckRests(n) ==
    /\ ~ValidationInit
    /\ \A g \in Gates : GateNode[g] = n => ~NeedsPass(g)
    /\ \E p \in proofs : p.kind = "ValidationPassed" /\ p.node = n
                         /\ p.revision = validation.revision

LEMMA EvidenceSplits ==
    EvidenceFollows <=> /\ EvidenceSteady
                        /\ \A n \in CheckNodes : node[n] = "Succeeded" => CheckRests(n)
  BY DEF EvidenceFollows, EvidenceSteady, CheckRests

\* A check succeeds on a pass of its gates at the revision they are bound to.
LEMMA CheckSucceedsOn ==
    ASSUME IInv, NEW n \in CheckNodes, Succeeds(n)
    PROVE  /\ CheckRests(n) /\ UNCHANGED <<stage, validation, revision, proofs>>
           /\ stage = "Validation"
  <1>1. /\ NodePassed(n) /\ UNCHANGED <<stage, validation, revision, proofs>>
        /\ \E kind \in SatisfyingProofs(n) : Proved(kind, n)
    BY DEF Succeeds, Succeed, CanSucceed
  <1>2. SatisfyingProofs(n) = {"ValidationPassed"}
    BY NodeKinds DEF SatisfyingProofs, Final
  <1>3. stage = "Validation"
    BY <1>1 DEF NodePassed, Validating
  <1>4. ~ValidationInit /\ validation.revision = revision
    BY <1>3, WhenBound
  <1>5. ProofOf("ValidationPassed", n) \in proofs
    BY <1>1, <1>2 DEF Proved
  <1>6. \E p \in proofs : p.kind = "ValidationPassed" /\ p.node = n /\ p.revision = revision
    BY <1>5 DEF ProofOf
  <1>7. \A g \in Gates : GateNode[g] = n => ~NeedsPass(g)
    BY <1>1 DEF NodePassed
  <1> QED
    BY <1>1, <1>3, <1>4, <1>6, <1>7 DEF CheckRests

\* The gate that is judged while a repair is to be confirmed is that of the
\* repair, and there is no failure then.
LEMMA NextGateMeans ==
    ASSUME NEW g \in NextGate
    PROVE  /\ validation.failure = "None" /\ validation.convergence = "None"
           /\ validation.rerun => g = validation.origin
  BY DEF NextGate

LEMMA NextEvidenceSteady ==
    ASSUME IInv, Moves
    PROVE  EvidenceSteady'
  <1>1. /\ EvidenceSteady /\ ValidationTypeOK /\ RepairSteady
        /\ validation.revision \in Nat /\ revision \in Nat /\ revision' \in Nat
    BY EvidenceSplits, PositionTypes DEF IInv, ValidationFollows, RepairFollows, RepairSteady,
       GraphTypeOK, ValidationTypeOK
  <1>2. revision <= revision'
    BY <1>1, RevisionEffects
  <1>3. ASSUME validation'.evidence = validation.evidence,
               validation'.revision = validation.revision,
               validation'.rerun => validation'.origin \in Gates
                                    /\ NeedsPass(validation'.origin),
               validation'.failure # "None" => NeedsPass(validation'.failure)
        PROVE  EvidenceSteady'
    BY <1>1, <1>2, <1>3 DEF EvidenceSteady, NeedsPass
  <1>4. ASSUME validation'.evidence = validation.evidence,
               validation'.revision = validation.revision,
               validation'.rerun = validation.rerun, validation'.origin = validation.origin,
               validation'.failure = validation.failure
        PROVE  EvidenceSteady'
    BY <1>1, <1>3, <1>4 DEF EvidenceSteady
  <1>5. CASE validation' = validation
    BY <1>4, <1>5
  <1>6. CASE ValidationMoves
    <2>1. ValidationCases /\ ValidationKeeps
      BY <1>6, ValidationMovesAre, ValidationStepTypes
    <2>2. CASE RunsOn
      BY <1>1, <1>4, <2>2 DEF RunsOn, ValidationTypeOK
    <2>3. ASSUME NEW g \in Gates, NEW outcome \in {"Passed", "Failed"}, Judges(g, outcome)
          PROVE  EvidenceSteady'
      <3> DEFINE evidence == [validation.evidence EXCEPT
                                ![g] = [outcome |-> outcome, revision |-> validation.revision]]
                 rerun == validation.rerun /\ ~(outcome = "Passed" /\ g = validation.origin)
      <3>1. /\ validation' = [validation EXCEPT !.run = "None", !.evidence = evidence,
                                                !.rerun = rerun]
            /\ g \in NextGate
        BY <2>3 DEF Judges
      <3>2. /\ evidence[g] = [outcome |-> outcome, revision |-> validation.revision]
            /\ \A h \in Gates : h # g => evidence[h] = validation.evidence[h]
        BY <1>1 DEF ValidationTypeOK
      <3>3. rerun <=> validation.rerun /\ ~(outcome = "Passed" /\ g = validation.origin)
        OBVIOUS
      <3> HIDE DEF evidence, rerun
      <3>4. /\ validation'.evidence = evidence /\ validation'.revision = validation.revision
            /\ validation'.rerun <=> rerun
            /\ validation'.origin = validation.origin
            /\ validation'.failure = validation.failure
        BY <1>1, <3>1 DEF ValidationTypeOK
      <3>5. validation.failure = "None" /\ (validation.rerun => g = validation.origin)
        BY <3>1, NextGateMeans
      <3>6. \A h \in Gates : validation'.evidence[h].revision <= validation'.revision
        BY <1>1, <3>2, <3>4 DEF EvidenceSteady
      <3>7. rerun => validation'.evidence[g] # Pass(validation'.revision)
        BY <2>3, <3>2, <3>3, <3>4, <3>5 DEF Pass
      <3>8. rerun => g = validation'.origin /\ validation'.origin \in Gates
        BY <2>3, <3>3, <3>4, <3>5
      <3> QED
        BY <1>1, <1>2, <3>4, <3>5, <3>6, <3>7, <3>8 DEF EvidenceSteady, NeedsPass
    <2>4. ASSUME NEW g \in Gates, Diagnoses(g) PROVE EvidenceSteady'
      <3>1. /\ validation'.evidence = validation.evidence
            /\ validation'.revision = validation.revision
            /\ ~validation'.rerun /\ validation'.failure = g
        BY <1>1, <2>4 DEF Diagnoses, ValidationTypeOK
      <3>2. NeedsPass(g)
        BY <2>4 DEF Diagnoses, NeedsPass, Pass
      <3> QED
        BY <1>3, <3>1, <3>2
    <2>5. CASE Stops
      BY <1>1, <1>4, <2>5 DEF Stops, ValidationTypeOK
    <2>6. CASE Weighs
      BY <1>1, <1>4, <2>6 DEF Weighs, ValidationTypeOK
    <2>7. ASSUME NEW r \in Repairs, Selects(r) PROVE EvidenceSteady'
      BY <1>1, <1>4, <2>7 DEF Selects, ValidationTypeOK
    <2>8. CASE Schedules
      <3>1. /\ validation'.evidence = validation.evidence
            /\ validation'.revision = validation.revision
            /\ validation'.failure = "None" /\ validation'.origin = validation.failure
            /\ validation.failure \in Gates
        BY <1>1, <2>8 DEF Schedules, ValidationTypeOK
      <3>2. validation.failure # "None"
        BY <3>1, ValidationAssumption
      <3> QED
        BY <1>1, <1>3, <3>1, <3>2 DEF EvidenceSteady
    <2> QED
      BY <2>1, <2>2, <2>3, <2>4, <2>5, <2>6, <2>7, <2>8 DEF ValidationCases
  <1>7. ASSUME validation'.evidence = NoEvidence, validation'.revision = revision,
               revision' = revision, ~validation'.rerun,
               validation'.failure \in Gates \cup {"None"}
        PROVE  EvidenceSteady'
    <2>1. \A g \in Gates : /\ validation'.evidence[g].revision <= validation'.revision
                           /\ validation'.evidence[g] # Pass(validation'.revision)
      <3>1. \A g \in Gates : NoEvidence[g] = [outcome |-> "None", revision |-> 0]
        BY DEF NoEvidence
      <3> QED
        BY <1>1, <1>7, <3>1 DEF Pass
    <2> QED
      BY <1>1, <1>7, <2>1 DEF EvidenceSteady, NeedsPass
  <1>8. CASE Reopens
    <2>1. /\ validation.failure # "None" /\ revision' = revision
          /\ validation' = [validation EXCEPT !.repair = "Invalidated", !.run = "None",
                               !.revision = revision, !.evidence = NoEvidence]
      BY <1>8, ReopensMeans
    <2>2. /\ validation'.evidence = NoEvidence /\ validation'.revision = revision
          /\ ~validation'.rerun /\ validation'.failure \in Gates \cup {"None"}
      BY <1>1, <2>1 DEF RepairSteady, ValidationTypeOK
    <2> QED
      BY <1>7, <2>1, <2>2
  <1>9. CASE Advances("Implementation", "Validation")
    <2>1. /\ ValidationInit /\ revision' = revision
          /\ validation' = [validation EXCEPT !.revision = revision]
      BY <1>9, GatesEntered
    <2>2. /\ validation'.evidence = NoEvidence /\ validation'.revision = revision
          /\ ~validation'.rerun /\ validation'.failure \in Gates \cup {"None"}
      BY <1>1, <2>1 DEF ValidationInit, ValidationTypeOK
    <2> QED
      BY <1>7, <2>1, <2>2
  <1> QED
    BY <1>5, <1>6, <1>8, <1>9, StateEffects

LEMMA NextCheckRests ==
    ASSUME IInv, Moves, NEW n \in CheckNodes, node'[n] = "Succeeded"
    PROVE  CheckRests(n)'
  <1>1. /\ node[n] = "Succeeded" => CheckRests(n)
        /\ n \in NodeIds /\ ValidationTypeOK /\ ValidationTypeOK'
    BY EvidenceSplits, NodeKinds, NextValidationTypes DEF IInv, ValidationFollows
  <1>2. node[n] = "Succeeded" \/ Succeeds(n)
    BY <1>1, NodeEffects DEF Effects
  <1>3. proofs \subseteq proofs'
    BY ProofEffects
  <1>4. CASE validation' = validation
    <2>1. CheckRests(n)
      BY <1>1, <1>2, CheckSucceedsOn
    <2> QED
      BY <1>3, <1>4, <2>1 DEF CheckRests, ValidationInit, NeedsPass
  <1>5. CASE ValidationMoves
    <2>1. /\ ValidationCases /\ ValidationKeeps /\ node' = node
      BY <1>5, ValidationMovesKeep, ValidationMovesAre, ValidationStepTypes DEF graphVars
    <2>2. CheckRests(n) /\ validation.revision # 0 /\ ~Active(n)
      BY <1>1, <2>1 DEF IInv, ValidationFollows, CheckRests, Active
    <2>3. ~ValidationInit'
      BY <2>1, <2>2 DEF ValidationKeeps, ValidationInit
    <2>4. ASSUME NEW g \in Gates, GateNode[g] = n
          PROVE  validation'.evidence[g] = validation.evidence[g]
      BY <2>1, <2>2, <2>4 DEF ValidationKeeps, Judges
    <2> QED
      BY <1>3, <2>1, <2>2, <2>3, <2>4 DEF CheckRests, NeedsPass, ValidationKeeps
  <1>6. CASE Reopens
    <2>1. node' = Reopened /\ stage = "Repair"
      BY <1>6, ReopensMeans
    <2>2. node[n] = "Succeeded" /\ \A g \in Invalidated : GateNode[g] # n
      BY <1>1, <1>2, <2>1, CheckSucceedsOn DEF Reopened
    <2>3. PICK g \in Gates : GateNode[g] = n
      BY ValidationAssumption
    <2>4. validation.evidence[g] = Pass(validation.revision)
      BY <1>1, <2>2, <2>3 DEF CheckRests, NeedsPass
    <2>5. g \in Invalidated
      BY <2>4 DEF Invalidated, Pass
    <2> QED
      BY <2>2, <2>3, <2>5
  <1>7. CASE Advances("Implementation", "Validation")
    BY <1>1, <1>2, <1>7, GatesEntered, CheckSucceedsOn DEF CheckRests
  <1> QED
    BY <1>4, <1>5, <1>6, <1>7, StateEffects

LEMMA NextEvidence ==
    ASSUME IInv, Moves
    PROVE  EvidenceFollows'
  BY NextEvidenceSteady, NextCheckRests DEF EvidenceFollows, EvidenceSteady, CheckRests

\* The ancestry of the revision the gates are bound to, as Lineage has it.
Descends(barrier) ==
    /\ Known("ImplementationBarrier", barrier)
    /\ \A r \in barrier + 1 .. validation.revision :
         /\ RepairKnown(r)
         /\ \/ Known("ValidationRerunScheduled", r)
            \/ /\ r = validation.revision /\ stage \in {"Repair", "Terminal"}
               /\ validation.repair = "Invalidated"

LEMMA LineageMeans ==
    Lineage <=> (~ValidationInit => \E barrier \in 0 .. validation.revision : Descends(barrier))
  BY DEF Lineage, Descends

LEMMA RepairKnownStays ==
    ASSUME Moves, NEW of, RepairKnown(of)
    PROVE  RepairKnown(of)'
  <1>1. \A kind, at : Known(kind, at) => Known(kind, at)'
    BY KnownStays
  <1> QED
    BY <1>1 DEF RepairKnown

LEMMA NextLineage ==
    ASSUME IInv, Moves
    PROVE  Lineage'
  <1>1. /\ ValidationTypeOK /\ validation.revision \in Nat /\ revision \in Nat
        /\ ~ValidationInit => \E barrier \in 0 .. validation.revision : Descends(barrier)
    BY LineageMeans DEF IInv, ValidationFollows, ValidationTypeOK, GraphTypeOK
  <1>2. \A kind, of : Known(kind, of) => Known(kind, of)'
    BY KnownStays
  <1>3. \A of : RepairKnown(of) => RepairKnown(of)'
    BY RepairKnownStays
  <1>4. ASSUME NEW barrier \in 0 .. validation.revision, Descends(barrier),
               validation'.revision = validation.revision,
               \/ Known("ValidationRerunScheduled", validation.revision)
               \/ stage \in {"Repair", "Terminal"} /\ validation.repair = "Invalidated" =>
                  stage' \in {"Repair", "Terminal"} /\ validation'.repair = "Invalidated"
        PROVE  Descends(barrier)'
    BY <1>2, <1>3, <1>4 DEF Descends
  <1>5. CASE validation' = validation
    <2>1. stage \in {"Repair", "Terminal"} => stage' \in {"Repair", "Terminal"}
                                              \/ Known("ValidationRerunScheduled",
                                                       validation.revision)
      BY ValidationLeaves, NothingAfterTheEnd DEF vars, graphVars
    <2> QED
      BY <1>1, <1>4, <1>5, <2>1 DEF Lineage, Descends, ValidationInit
  <1>6. CASE ValidationMoves
    <2>1. /\ ValidationCases /\ ValidationKeeps /\ stage' = stage
          /\ stage \in {"Validation", "Repair"}
      BY <1>6, ValidationMovesKeep, ValidationMovesAre, ValidationStepTypes DEF graphVars
    <2>2. ~ValidationInit
      BY <2>1 DEF IInv, StagesAreBound, ValidationIsBound, BeforeValidation,
                  BeforeImplementation, BeforePlanning
    <2>3. stage = "Repair" /\ validation.repair = "Invalidated" =>
            validation'.repair = "Invalidated"
      <3>1. CASE RunsOn
        BY <1>1, <3>1 DEF RunsOn, ValidationTypeOK
      <3>2. ASSUME NEW g \in Gates, NEW outcome \in {"Passed", "Failed"}, Judges(g, outcome)
            PROVE  stage # "Repair"
        BY <3>2 DEF Judges, Validating
      <3>3. ASSUME NEW g \in Gates, Diagnoses(g) PROVE stage # "Repair"
        BY <3>3 DEF Diagnoses, Validating
      <3>4. CASE Stops
        BY <1>1, <3>4 DEF Stops, ValidationTypeOK
      <3>5. CASE Weighs
        BY <3>5 DEF Weighs
      <3>6. ASSUME NEW r \in Repairs, Selects(r) PROVE validation.repair = "Evaluated"
        BY <3>6 DEF Selects
      <3>7. CASE Schedules
        BY <1>1, <3>7 DEF Schedules, ValidationTypeOK
      <3> QED
        BY <2>1, <3>1, <3>2, <3>3, <3>4, <3>5, <3>6, <3>7 DEF ValidationCases
    <2>4. validation'.revision = validation.revision
      BY <2>1 DEF ValidationKeeps
    <2> QED
      BY <1>1, <1>4, <2>1, <2>2, <2>3, <2>4 DEF Lineage, Descends
  <1>7. CASE Reopens
    <2>1. /\ stage = "Repair" /\ stage' = "Repair" /\ ~ValidationInit
          /\ revision = validation.revision + 1
          /\ validation.failure # "None" /\ validation.repair = "Selected"
          /\ node[validation.repairer] = "Succeeded"
          /\ validation' = [validation EXCEPT !.repair = "Invalidated", !.run = "None",
                               !.revision = revision, !.evidence = NoEvidence]
      BY <1>7, ReopensMeans
    <2>2. validation'.revision = revision /\ validation'.repair = "Invalidated"
      BY <1>1, <2>1 DEF ValidationTypeOK
    <2>3. /\ Known("ValidationFailure", validation.revision)
          /\ Known("RepairEligibility", validation.revision)
          /\ Known("RepairVerified", revision)
      BY <2>1 DEF IInv, ValidationFollows, RepairFollows
    <2>4. Known("MutationVerified", revision)
      BY <2>3 DEF IInv, ValidationFollows, RepairFollows, Known
    <2>5. revision - 1 = validation.revision
      BY <1>1, <2>1
    <2>6. RepairKnown(revision)
      BY <2>3, <2>4, <2>5 DEF RepairKnown
    <2>7. PICK barrier \in 0 .. validation.revision : Descends(barrier)
      BY <1>1, <2>1
    <2>8. Known("ImplementationBarrier", barrier)'
      BY <1>2, <2>7 DEF Descends
    <2>9. ASSUME NEW r \in barrier + 1 .. revision
          PROVE  /\ RepairKnown(r)
                 /\ Known("ValidationRerunScheduled", r) \/ r = revision
      <3>1. r = revision \/ r \in barrier + 1 .. validation.revision
        BY <1>1, <2>1
      <3> QED
        BY <2>1, <2>6, <2>7, <3>1 DEF Descends
    <2>10. barrier \in 0 .. revision
      BY <1>1, <2>1
    <2>11. \A r \in barrier + 1 .. revision :
             RepairKnown(r)' /\ (Known("ValidationRerunScheduled", r)' \/ r = revision)
      BY <1>2, <1>3, <2>9
    <2>12. \A r \in barrier + 1 .. validation'.revision :
             /\ RepairKnown(r)'
             /\ Known("ValidationRerunScheduled", r)' \/ r = validation'.revision
      BY <2>2, <2>11
    <2>13. barrier \in 0 .. validation'.revision
      BY <2>2, <2>10
    <2> QED
      BY <2>1, <2>2, <2>8, <2>12, <2>13 DEF Lineage
  <1>8. CASE Advances("Implementation", "Validation")
    <2>1. /\ validation' = [validation EXCEPT !.revision = revision]
          /\ Known("ImplementationBarrier", revision)
      BY <1>8, GatesEntered
    <2>2. validation'.revision = revision
      BY <1>1, <2>1 DEF ValidationTypeOK
    <2>3. \A at : at = validation'.revision => Known("ImplementationBarrier", at)'
      BY <1>2, <2>1, <2>2
    <2>4. \A r \in validation'.revision + 1 .. validation'.revision : FALSE
      BY <1>1, <2>2
    <2>5. validation'.revision \in 0 .. validation'.revision
      BY <1>1, <2>2
    <2> QED
      BY <2>3, <2>4, <2>5 DEF Lineage
  <1> QED
    BY <1>5, <1>6, <1>7, <1>8, StateEffects

\* The order of the gates.
LEMMA EarliestOne ==
    ASSUME NEW S, NEW g \in Earliest(S), NEW h \in Earliest(S)
    PROVE  g = h
  <1>1. PICK i \in DOMAIN GateOrder :
          GateOrder[i] = g /\ \A k \in 1 .. i - 1 : GateOrder[k] \notin S
    BY DEF Earliest
  <1>2. PICK j \in DOMAIN GateOrder :
          GateOrder[j] = h /\ \A k \in 1 .. j - 1 : GateOrder[k] \notin S
    BY DEF Earliest
  <1>3. g \in S /\ h \in S
    BY DEF Earliest
  <1>4. DOMAIN GateOrder = 1 .. Cardinality(Gates)
    BY ValidationAssumption
  <1>5. i \in Int /\ 1 <= i /\ j \in Int /\ 1 <= j
    BY <1>4
  <1>6. ~(i < j) /\ ~(j < i)
    BY <1>1, <1>2, <1>3, <1>5
  <1> QED
    BY <1>1, <1>2, <1>5, <1>6

\* When the first gate is done, the next one is of the same node as long as
\* that has one left.
LEMMA NextBeside ==
    ASSUME NEW S \in SUBSET Gates, NEW g \in Earliest(S),
           NEW h \in S \ {g}, GateNode[h] = GateNode[g],
           NEW e \in Earliest(S \ {g})
    PROVE  GateNode[e] = GateNode[g]
  <1>1. PICK i \in DOMAIN GateOrder :
          GateOrder[i] = g /\ \A k \in 1 .. i - 1 : GateOrder[k] \notin S
    BY DEF Earliest
  <1>2. PICK j \in DOMAIN GateOrder :
          GateOrder[j] = e /\ \A k \in 1 .. j - 1 : GateOrder[k] \notin S \ {g}
    BY DEF Earliest
  <1>3. PICK k \in DOMAIN GateOrder : GateOrder[k] = h
    BY ValidationAssumption
  <1>4. e \in S /\ e # g
    BY DEF Earliest
  <1>5. DOMAIN GateOrder = 1 .. Cardinality(Gates)
    BY ValidationAssumption
  <1>6. i \in Int /\ 1 <= i /\ j \in Int /\ 1 <= j /\ k \in Int /\ 1 <= k
    BY <1>5
  <1>7. i < j
    <2>1. ~(j < i)
      BY <1>1, <1>2, <1>4, <1>6
    <2> QED
      BY <1>1, <1>2, <1>4, <1>6, <2>1
  <1>8. ~(k < j)
    BY <1>2, <1>3, <1>6
  <1>9. CASE j = k
    BY <1>2, <1>3, <1>9
  <1>10. CASE j < k
    BY <1>1, <1>2, <1>3, <1>7, <1>10, ValidationAssumption
  <1> QED
    BY <1>6, <1>8, <1>9, <1>10

\* At most one gate is next.
LEMMA OneNextGate ==
    ASSUME NEW g \in NextGate, NEW h \in NextGate
    PROVE  g = h
  BY EarliestOne DEF NextGate

\* A gate that was judged leaves its node with the next gate, or done.
LEMMA JudgedCanGoOn ==
    ASSUME IInv, Moves, NEW g \in Gates, NEW outcome \in {"Passed", "Failed"},
           Judges(g, outcome), stage' = stage, node' = node
    PROVE  \/ NodePassed(GateNode[g])'
           \/ (\A h \in NextGate : GateNode[h] = GateNode[g])'
  <1> DEFINE n == GateNode[g]
             open == {h \in Gates : NeedsPass(h)}
             beside == {h \in open : validation.origin # "None"
                                     /\ GateNode[h] = GateNode[validation.origin]}
             left == IF outcome = "Passed" THEN open \ {g} ELSE open
             leftBeside == {h \in left : validation.origin # "None"
                                         /\ GateNode[h] = GateNode[validation.origin]}
             evidence == [validation.evidence EXCEPT
                            ![g] = [outcome |-> outcome, revision |-> validation.revision]]
             rerun == validation.rerun /\ ~(outcome = "Passed" /\ g = validation.origin)
  <1>1. /\ validation.rerun => validation.origin \in Gates /\ NeedsPass(validation.origin)
        /\ ValidationTypeOK
    BY DEF IInv, ValidationFollows, EvidenceFollows
  <1>2. /\ validation' = [validation EXCEPT !.run = "None", !.evidence = evidence,
                                            !.rerun = rerun]
        /\ g \in NextGate /\ Validating /\ Active(n)
    BY DEF Judges
  <1>3. /\ validation.failure = "None" /\ validation.convergence = "None"
        /\ validation.rerun => g = validation.origin
    BY <1>2, NextGateMeans
  <1>4. /\ evidence[g] = [outcome |-> outcome, revision |-> validation.revision]
        /\ \A h \in Gates : h # g => evidence[h] = validation.evidence[h]
    BY <1>1 DEF ValidationTypeOK
  <1>5. rerun <=> validation.rerun /\ ~(outcome = "Passed" /\ g = validation.origin)
    OBVIOUS
  <1>6. n \in CheckNodes /\ g # "None"
    BY ValidationAssumption
  <1>7. open \subseteq Gates /\ left \subseteq open
    OBVIOUS
  <1>8. g \in open
    <2>1. ~validation.rerun => g \in Earliest(open) \/ g \in Earliest(beside)
      BY <1>2, <1>3 DEF NextGate
    <2>2. validation.rerun => g \in open
      BY <1>1, <1>3
    <2> QED
      BY <2>1, <2>2 DEF Earliest
  <1>9. ~validation.rerun =>
          g \in IF beside # {} THEN Earliest(beside) ELSE Earliest(open)
    BY <1>2, <1>3 DEF NextGate
  <1> HIDE DEF evidence, rerun
  <1>10. /\ validation'.evidence = evidence /\ validation'.revision = validation.revision
         /\ validation'.rerun <=> rerun
         /\ validation'.origin = validation.origin
         /\ validation'.failure = "None" /\ validation'.convergence = "None"
    BY <1>1, <1>2, <1>3 DEF ValidationTypeOK
  <1>11. \A h \in Gates : NeedsPass(h)' <=> h \in left
    <2>1. ASSUME NEW h \in Gates, h # g PROVE NeedsPass(h)' <=> h \in left
      BY <1>4, <1>10, <2>1 DEF NeedsPass
    <2>2. NeedsPass(g)' <=> outcome # "Passed"
      BY <1>4, <1>10 DEF NeedsPass, Pass
    <2>3. g \in left <=> outcome # "Passed"
      BY <1>8
    <2> QED
      BY <2>1, <2>2, <2>3
  <1>12. {h \in Gates : NeedsPass(h)}' = left
    BY <1>7, <1>11
  <1>13. {h \in left : validation'.origin # "None"
                       /\ GateNode[h] = GateNode[validation'.origin]} = leftBeside
    BY <1>10
  <1>14. NextGate' = IF rerun THEN {validation.origin}
                     ELSE IF leftBeside # {} THEN Earliest(leftBeside) ELSE Earliest(left)
    <2> HIDE DEF left, leftBeside
    <2> QED
      BY <1>10, <1>12, <1>13 DEF NextGate
  <1>15. ASSUME \A h \in left : GateNode[h] # n, \A h \in NextGate' : GateNode[h] # n
         PROVE  NodePassed(n)'
    <2>1. \A h \in Gates : GateNode[h] = n => ~NeedsPass(h)'
      BY <1>11, <1>15
    <2> QED
      BY <1>2, <1>6, <1>10, <1>15, <2>1 DEF NodePassed, Validating, Active
  <1>16. ASSUME NEW S, NEW h \in Earliest(S) PROVE h \in S
    BY DEF Earliest
  <1>17. CASE rerun
    BY <1>3, <1>5, <1>14, <1>17
  <1>18. CASE ~rerun /\ validation.origin # "None" /\ GateNode[validation.origin] = n
    <2>1. leftBeside = {h \in left : GateNode[h] = n}
      BY <1>18
    <2>2. CASE leftBeside # {}
      <3>1. NextGate' = Earliest(leftBeside)
        BY <1>14, <1>18, <2>2
      <3>2. \A h \in NextGate' : GateNode[h] = n
        BY <1>16, <2>1, <3>1
      <3> QED
        BY <3>2
    <2>3. CASE leftBeside = {}
      <3>1. NextGate' = Earliest(left)
        BY <1>14, <1>18, <2>3
      <3>2. \A h \in left : GateNode[h] # n
        BY <2>1, <2>3
      <3>3. \A h \in NextGate' : GateNode[h] # n
        BY <1>16, <3>1, <3>2
      <3> QED
        BY <1>15, <3>2, <3>3
    <2> QED
      BY <2>2, <2>3
  <1>19. CASE ~rerun /\ ~(validation.origin # "None" /\ GateNode[validation.origin] = n)
    <2>1. ~validation.rerun
      BY <1>3, <1>5, <1>6, <1>19
    <2>2. beside = {}
      <3>1. g \notin beside
        BY <1>19
      <3> QED
        BY <1>9, <1>16, <2>1, <3>1
    <2>3. leftBeside = {} /\ g \in Earliest(open)
      BY <1>7, <1>9, <2>1, <2>2
    <2>4. NextGate' = Earliest(left)
      BY <1>14, <1>19, <2>3
    <2>5. CASE outcome = "Failed"
      <3>1. left = open
        BY <2>5
      <3>2. \A h \in NextGate' : h = g
        BY <2>3, <2>4, <3>1, EarliestOne
      <3> QED
        BY <3>2
    <2>6. CASE outcome = "Passed" /\ \A h \in left : GateNode[h] # n
      <3>1. \A h \in NextGate' : GateNode[h] # n
        BY <1>16, <2>4, <2>6
      <3> QED
        BY <1>15, <2>6, <3>1
    <2>7. CASE outcome = "Passed" /\ ~ \A h \in left : GateNode[h] # n
      <3>1. left = open \ {g}
        BY <2>7
      <3>2. PICK h \in open \ {g} : GateNode[h] = n
        BY <2>7, <3>1
      <3>3. \A e \in Earliest(open \ {g}) : GateNode[e] = GateNode[g]
        BY <1>7, <2>3, <3>2, NextBeside
      <3> QED
        BY <2>4, <3>1, <3>3
    <2> QED
      BY <2>5, <2>6, <2>7
  <1> QED
    BY <1>17, <1>18, <1>19

\* The parts of validation that its next gate depends on.
LEMMA NextGateStays ==
    ASSUME validation'.failure = validation.failure,
           validation'.convergence = validation.convergence,
           validation'.rerun = validation.rerun, validation'.origin = validation.origin,
           validation'.evidence = validation.evidence,
           validation'.revision = validation.revision
    PROVE  NextGate' = NextGate /\ \A g : NeedsPass(g)' <=> NeedsPass(g)
  <1>1. \A g : NeedsPass(g)' <=> NeedsPass(g)
    BY DEF NeedsPass
  <1>2. {g \in Gates : NeedsPass(g)}' = {g \in Gates : NeedsPass(g)}
    BY <1>1
  <1>3. Gates' = Gates /\ GateNode' = GateNode
    OBVIOUS
  <1> QED
    BY <1>1, <1>2 DEF NextGate

LEMMA NextCanGoOn ==
    ASSUME IInv, Moves
    PROVE  ActiveCheckCanGoOn'
  <1> SUFFICES ASSUME NEW n \in CheckNodes, Active(n)'
               PROVE  NodePassed(n)' \/ (\A g \in NextGate : GateNode[g] = n)'
    BY DEF ActiveCheckCanGoOn
  <1>1. /\ n \in NodeIds /\ ValidationTypeOK
        /\ Active(n) => StageOf(n) = stage /\ stage = "Validation"
    BY NodeKinds, NodeStages DEF IInv, ValidationFollows, GraphFollows, NodesFit, Eligible
  <1>2. Active(n) \/ Starts(n)
    BY <1>1, NodeEffects DEF Effects, Active
  <1>3. ASSUME NextGate' = NextGate, \A g : NeedsPass(g)' <=> NeedsPass(g),
               stage' = stage, validation'.convergence = validation.convergence, Active(n)
        PROVE  NodePassed(n)' \/ (\A g \in NextGate : GateNode[g] = n)'
    <2>1. NodePassed(n) \/ \A g \in NextGate : GateNode[g] = n
      BY <1>3 DEF IInv, ValidationFollows, ActiveCheckCanGoOn
    <2>2. NodePassed(n) => NodePassed(n)'
      BY <1>3 DEF NodePassed, Validating
    <2> QED
      BY <1>3, <2>1, <2>2
  <1>4. CASE Starts(n)
    <2>1. Validating /\ validation' = validation /\ \E g \in NextGate : n = GateNode[g]
      BY <1>4 DEF Starts
    <2>2. \A g \in NextGate : GateNode[g] = n
      BY <2>1, OneNextGate
    <2>3. NextGate' = NextGate
      BY <2>1, NextGateStays
    <2> QED
      BY <2>2, <2>3
  <1>5. CASE Active(n) /\ validation' = validation
    <2>1. stage' = stage
      <3>1. ~NoneActive
        BY <1>1, <1>5 DEF NoneActive
      <3> QED
        BY <3>1, StageEffects DEF Advances, Advance, CanAdvance, Finishes, Finish, CanFinish
    <2>2. NextGate' = NextGate /\ \A g : NeedsPass(g)' <=> NeedsPass(g)
      BY <1>5, NextGateStays
    <2> QED
      BY <1>3, <1>5, <2>1, <2>2
  <1>6. CASE Active(n) /\ ValidationMoves
    <2>1. ValidationCases /\ stage' = stage /\ node' = node /\ stage = "Validation"
      BY <1>1, <1>6, ValidationMovesKeep, ValidationMovesAre DEF graphVars
    <2>2. CASE RunsOn
      <3>1. NextGate' = NextGate /\ (\A g : NeedsPass(g)' <=> NeedsPass(g))
            /\ validation'.convergence = validation.convergence
        BY <1>1, <2>2, NextGateStays DEF RunsOn, ValidationTypeOK
      <3> QED
        BY <1>3, <1>6, <2>1, <3>1
    <2>3. ASSUME NEW g \in Gates, NEW outcome \in {"Passed", "Failed"}, Judges(g, outcome)
          PROVE  NodePassed(n)' \/ (\A h \in NextGate : GateNode[h] = n)'
      <3>1. GateNode[g] = n
        BY <1>1, <1>6, <2>3, NodeKinds, ValidationAssumption
           DEF Judges, IInv, GraphFollows, OneOwner
      <3> QED
        BY <2>1, <2>3, <3>1, JudgedCanGoOn
    <2>4. ASSUME NEW g \in Gates, Diagnoses(g) PROVE NextGate' = {}
      <3>1. validation'.failure = g /\ g # "None"
        BY <1>1, <2>4, ValidationAssumption DEF Diagnoses, ValidationTypeOK
      <3> QED
        BY <3>1 DEF NextGate
    <2>5. CASE Stops
      <3>1. validation'.convergence # "None"
        BY <1>1, <2>5 DEF Stops, ValidationTypeOK
      <3>2. NextGate' = {}
        BY <3>1 DEF NextGate
      <3> QED
        BY <3>2
    <2>6. ~Weighs /\ ~Schedules /\ \A r \in Repairs : ~Selects(r)
      BY <2>1 DEF Weighs, Schedules, Selects
    <2> QED
      BY <2>1, <2>2, <2>3, <2>4, <2>5, <2>6 DEF ValidationCases
  <1>7. CASE Active(n) /\ Reopens
    BY <1>1, <1>7, ReopensMeans
  <1>8. CASE Active(n) /\ Advances("Implementation", "Validation")
    BY <1>1, <1>8, GatesEntered
  <1> QED
    BY <1>2, <1>4, <1>5, <1>6, <1>7, <1>8, StateEffects

\* A rerun finds no check that failed: those that had are ready again.
LEMMA NextRerunning ==
    ASSUME IInv, Moves
    PROVE  (Rerunning => \A n \in CheckNodes : node[n] # "FailedRecoverable")'
  <1> SUFFICES ASSUME stage' = "Validation", validation'.rerun,
                      NEW n \in CheckNodes, node'[n] = "FailedRecoverable"
               PROVE  FALSE
    BY DEF Rerunning
  <1>1. /\ n \in NodeIds /\ StageOf(n) = "Validation" /\ Dependencies(n) = Targets
        /\ ValidationTypeOK /\ node \in [NodeIds -> NodeStates]
        /\ stage = "Validation" /\ validation.rerun => node[n] # "FailedRecoverable"
    BY NodeKinds, NodeStages, NodeDependencies
       DEF IInv, ValidationFollows, GraphTypeOK, Rerunning
  <1>2. ~Fails(n, FALSE)
    BY DEF Fails
  <1>3. node[n] = "FailedRecoverable"
    BY <1>1, <1>2, NodeEffects DEF Effects
  <1>4. CASE stage = "Validation"
    <2>1. ~validation.rerun
      BY <1>1, <1>3, <1>4
    <2>2. CASE ValidationMoves
      <3>1. ValidationCases
        BY <2>2, ValidationMovesAre
      <3>2. CASE RunsOn
        BY <1>1, <2>1, <3>2 DEF RunsOn, ValidationTypeOK
      <3>3. ASSUME NEW g \in Gates, NEW outcome \in {"Passed", "Failed"}, Judges(g, outcome)
            PROVE  FALSE
        BY <1>1, <2>1, <3>3 DEF Judges, ValidationTypeOK
      <3>4. ASSUME NEW g \in Gates, Diagnoses(g) PROVE FALSE
        BY <1>1, <2>1, <3>4 DEF Diagnoses, ValidationTypeOK
      <3>5. CASE Stops
        BY <1>1, <2>1, <3>5 DEF Stops, ValidationTypeOK
      <3>6. ~Weighs /\ ~Schedules /\ \A r \in Repairs : ~Selects(r)
        BY <1>4 DEF Weighs, Schedules, Selects
      <3> QED
        BY <3>1, <3>2, <3>3, <3>4, <3>5, <3>6 DEF ValidationCases
    <2> QED
      BY <1>4, <2>1, <2>2, StateEffects, ReopensMeans, GatesEntered
  <1>5. CASE stage # "Validation"
    <2>1. Advances(stage, "Validation") /\ stage \in {"Implementation", "Repair"}
      BY <1>5, Leaving, EnteredFrom
    <2>2. CASE stage = "Implementation"
      <3>1. ValidationInit /\ validation' = [validation EXCEPT !.revision = revision]
        BY <2>1, <2>2, GatesEntered
      <3> QED
        BY <1>1, <3>1 DEF ValidationInit, ValidationTypeOK
    <2>3. CASE stage = "Repair"
      <3>1. Succeeded(Targets)
        BY <2>3 DEF IInv, GraphFollows, StagesFollow, BeforeValidation, BeforeImplementation,
                    BeforePlanning
      <3>2. Advance("Repair", "Validation")
        BY <2>1, <2>3 DEF Advances
      <3>3. node'[n] = "Ready"
        BY <1>1, <1>3, <3>1, <3>2, AdvancedNodes DEF Succeeded
      <3> QED
        BY <3>3
    <2> QED
      BY <2>1, <2>2, <2>3
  <1> QED
    BY <1>4, <1>5

\* What is reviewed did not converge.
LEMMA NextUnconverged ==
    ASSUME IInv, Moves
    PROVE  (stage \in {"Review", "Publication"} => validation.convergence = "None")'
  <1> SUFFICES ASSUME stage' \in {"Review", "Publication"}
               PROVE  validation'.convergence = "None"
    OBVIOUS
  <1>1. CASE stage = "Validation"
    <2>1. Advances("Validation", stage')
      BY <1>1, Leaving
    <2>2. stage' = "Review"
      BY <1>1, Leaving, EnteredFrom
    <2> QED
      BY <2>1, <2>2 DEF Advances, AllPassed, Validating
  <1>2. CASE stage # "Validation"
    <2>1. stage \in {"Review", "Publication"}
      BY <1>2, Leaving, EnteredFrom
    <2>2. stage \notin BeforeReview
      BY <2>1 DEF BeforeReview, BeforeValidation, BeforeImplementation, BeforePlanning
    <2>3. validation' = validation /\ validation.convergence = "None"
      BY <2>1, <2>2, DuringReview DEF IInv, ValidationFollows
    <2> QED
      BY <2>3
  <1> QED
    BY <1>1, <1>2

LEMMA NextValidationFollows ==
    ASSUME IInv, Moves
    PROVE  ValidationFollows'
  BY NextValidationTypes, NextRepair, NextEvidence, NextLineage, NextCanGoOn,
     NextRerunning, NextUnconverged DEF ValidationFollows

\* What is known while a file is chosen for repair.
LEMMA SelectedMeans ==
    ASSUME IInv, validation.repair = "Selected"
    PROVE  /\ validation.failure # "None" /\ ~validation.rerun
           /\ validation.convergence = "None" /\ stage \in {"Repair", "Terminal"}
           /\ validation.repairer \in Repairs /\ validation.repairer \in Mutators
           /\ validation.repairer \in NodeIds /\ validation.repairer \notin CheckNodes
           /\ validation.repairer \notin Targets
           /\ \A r \in Repairs : node[r] \notin {"Absent", "Succeeded"} =>
                r = validation.repairer
  BY NodeKinds DEF IInv, ValidationFollows, RepairFollows, Mutators

\* The node that changes files during repair is the one that was chosen.
LEMMA RepairerMutates ==
    ASSUME IInv, NEW n \in Mutators, Active(n), ~ValidationInit
    PROVE  /\ stage = "Repair" /\ n \in Repairs /\ n \notin Targets
           /\ validation.repair = "Selected" /\ n = validation.repairer
  <1>1. n \in NodeIds /\ StageOf(n) = stage /\ node[n] = "Active"
    BY Mutates DEF IInv, GraphFollows, NodesFit, Eligible, Active
  <1>2. stage # "Implementation"
    BY DEF IInv, StagesAreBound, ValidationIsBound, BeforeValidation
  <1>3. n \in Repairs /\ stage = "Repair" /\ n \notin Targets
    BY <1>1, <1>2, Mutates
  <1> QED
    BY <1>1, <1>3 DEF IInv, ValidationFollows, RepairFollows

\* A repair that changes the files was verified, or gave up because of drift.
LEMMA RepairChanges ==
    ASSUME IInv, NEW n \in Mutators, MutationMoves(n), ~ValidationInit,
           validation.revision = revision, revision' # revision
    PROVE  RepairHandoffPending' \/ RepairDriftPending'
  <1>1. /\ Active(n) /\ UNCHANGED <<stage, node, proofs, result>> /\ validation' = validation
        /\ revision \in Nat /\ mutation \in [step : MutationSteps, base : Nat,
               feasible : SUBSET Initial, attempt : 0 .. AttemptLimit,
               permitted : SUBSET Strategies, released : 0 .. UncontactedLimit,
               chosen : Strategies \cup {"None"},
               failure : Rejections \cup Refusals \cup Mismatches \cup {"None"},
               rebuilds : 0 .. RebuildLimit, reason : Reasons \cup {"None"}]
    BY MutationMovesKeep DEF MutationMoves, IInv, GraphTypeOK, MutationFollows, MutationTypeOK
  <1>2. /\ stage = "Repair" /\ n \in Repairs /\ n \notin Targets
        /\ validation.repair = "Selected" /\ n = validation.repairer
    BY <1>1, RepairerMutates
  <1>3. validation.failure # "None"
    BY <1>2, SelectedMeans
  <1>4. ContextIsCurrent
    BY <1>1, Mutates DEF IInv, StagesAreBound, MutationIsBound, ContextIsCurrent
  <1>5. CASE MutationVerified(n)
    <2>1. /\ mutation.base = revision /\ revision' = revision + 1
          /\ mutation' = [mutation EXCEPT !.step = "Prove"]
      BY <1>5 DEF MutationVerified
    <2>2. mutation'.step = "Prove" /\ mutation'.base = validation.revision
      BY <1>1, <2>1
    <2>3. Mutating(validation.repairer, "Prove")'
      BY <1>1, <1>2, <2>2 DEF Mutating, Active
    <2> QED
      BY <1>1, <1>2, <1>3, <2>1, <2>2, <2>3 DEF RepairHandoffPending
  <1>6. CASE MutationConverges(n)
    <2>1. /\ mutation.step = "Failed" /\ Drifted /\ revision' = revision + 1
          /\ mutation' = [mutation EXCEPT !.step = "Converged", !.reason = Convergence(n)]
          /\ Convergence(n) # "None"
      BY <1>6 DEF MutationConverges
    <2>2. Convergence(n) = Exhaustion(n)
      BY <2>1 DEF Convergence
    <2>3. Exhaustion(n) \in {"RebuildUnavailable", "AttemptBudget", "RebuildBudget"}
      BY <1>2, <2>1 DEF Exhaustion, Drifted, NoRetry
    <2>4. mutation.base = revision
      BY <1>4, <2>1 DEF ContextIsCurrent
    <2>5. /\ mutation'.step = "Converged" /\ mutation'.failure = mutation.failure
          /\ mutation'.base = validation.revision
          /\ mutation'.reason \in {"RebuildUnavailable", "AttemptBudget", "RebuildBudget"}
      BY <1>1, <2>1, <2>2, <2>3, <2>4
    <2>6. Drifted' /\ node'[validation'.repairer] = "Active"
      BY <1>1, <1>2, <2>1, <2>5 DEF Drifted, Active
    <2> QED
      BY <1>1, <1>2, <1>3, <2>1, <2>5, <2>6 DEF RepairDriftPending
  <1>7. ~ContextSuperseded(n)
    BY <1>2 DEF ContextSuperseded
  <1>8. CASE ActionPrepared(n)
    BY <1>8 DEF ActionPrepared, Prepare
  <1>9. CASE ActionReleased(n) \/ MutationCandidate(n) \/ ActionRejected(n)
    BY <1>9 DEF ActionReleased, MutationCandidate, ActionRejected, ActionEnded
  <1>10. CASE \/ ContextPrepared(n) \/ FeasibilityEvaluated(n) \/ PolicySelected(n)
              \/ AttemptFailed(n) \/ ApplicationObserved(n) \/ AttemptRetried(n)
    BY <1>10 DEF ContextPrepared, FeasibilityEvaluated, PolicySelected, AttemptFailed,
                 ApplicationObserved, AttemptRetried, graphVars
  <1> QED
    BY <1>5, <1>6, <1>7, <1>8, <1>9, <1>10 DEF MutationMoves

\* Where an attempt goes while the chosen node is at work or done.
LEMMA RepairStays ==
    ASSUME IInv, Moves, validation.repair = "Selected", stage = "Repair"
    PROVE  \/ stage' = "Repair"
           \/ /\ stage' = "Terminal" /\ node[validation.repairer] = "FailedTerminal"
              /\ result' = MutationOutcome("NoValidRepair")
  <1>1. /\ validation.convergence = "None" /\ ~validation.rerun
        /\ \A r \in Repairs : node[r] \notin {"Absent", "Succeeded"} =>
                r = validation.repairer
    BY SelectedMeans
  <1>2. ASSUME stage' # "Repair", stage' # "Terminal" PROVE FALSE
    BY <1>1, <1>2, ValidationLeaves
  <1>3. ASSUME stage' = "Terminal"
        PROVE  /\ node[validation.repairer] = "FailedTerminal"
               /\ result' = MutationOutcome("NoValidRepair")
    <2>1. PICK outcome \in Outcomes : Finishes(outcome) /\ result' = outcome
      BY <1>3, Leaving, EnteredFrom
    <2>2. /\ outcome = MutationOutcome("NoValidRepair")
          /\ \E r \in Repairs : node[r] = "FailedTerminal"
      BY <1>1, <2>1 DEF Finishes
    <2> QED
      BY <1>1, <2>1, <2>2
  <1> QED
    BY <1>2, <1>3

LEMMA HandoffStays ==
    ASSUME IInv, Moves, RepairHandoffPending, validation' = validation
    PROVE  RepairHandoffPending'
  <1>1. /\ stage = "Repair" /\ validation.repair = "Selected" /\ validation.failure # "None"
        /\ revision = validation.revision + 1
    BY DEF RepairHandoffPending
  <1>2. /\ validation.repairer \in Repairs /\ validation.repairer \in Mutators
        /\ validation.repairer \in NodeIds
    BY <1>1, SelectedMeans
  <1>3. node[validation.repairer] # "FailedTerminal"
    BY DEF RepairHandoffPending, Mutating, Active
  <1>4. stage' = "Repair"
    BY <1>1, <1>3, RepairStays
  <1>5. CASE node[validation.repairer] = "Succeeded"
    <2>1. node'[validation.repairer] = "Succeeded" /\ revision' = revision
      BY <1>1, <1>2, <1>5, RepairNodes, AfterRepair
    <2> QED
      BY <1>1, <1>4, <2>1 DEF RepairHandoffPending
  <1>6. CASE Mutating(validation.repairer, "Prove") /\ mutation.base = validation.revision
    <2>1. Active(validation.repairer) /\ mutation.step = "Prove"
      BY <1>6 DEF Mutating
    <2>2. \A n \in Mutators : ~MutationMoves(n)
      BY <2>1, MutationStepTypes
    <2>3. revision' = revision
      BY <1>1, <2>2, RevisionEffects, ReviewMovesKeep
    <2>4. \/ node'[validation.repairer] = "Active" \/ Succeeds(validation.repairer)
      BY <1>2, <1>3, <2>1, MutatorEffects
    <2>5. CASE Succeeds(validation.repairer)
      <3>1. node' = Refreshed([node EXCEPT ![validation.repairer] = "Succeeded"], stage)
        BY <2>5 DEF Succeeds, Succeed
      <3>2. node'[validation.repairer] = "Succeeded"
        BY <1>2, <3>1, NodeKinds DEF Refreshed, IInv, GraphTypeOK
      <3> QED
        BY <1>1, <1>4, <2>3, <3>2 DEF RepairHandoffPending
    <2>6. CASE ~Succeeds(validation.repairer)
      <3>1. \A n \in Mutators : ~Starts(n)
        BY <1>2, <2>1 DEF Starts, Start, CanStart, NoneActive
      <3>2. \A n \in Mutators : ~Succeeds(n)
        <4>1. ASSUME NEW n \in Mutators, Succeeds(n) PROVE n = validation.repairer
          BY <1>2, <2>1, <4>1, Mutates DEF Succeeds, Succeed, CanSucceed, IInv, GraphFollows,
                                           OneOwner
        <4> QED
          BY <2>6, <4>1
      <3>3. mutation' = mutation
        BY <2>2, <3>1, <3>2, StateEffects
      <3> QED
        BY <1>1, <1>2, <1>4, <1>6, <2>3, <2>4, <2>6, <3>3
           DEF RepairHandoffPending, Mutating, Active
    <2> QED
      BY <2>5, <2>6
  <1> QED
    BY <1>5, <1>6 DEF RepairHandoffPending

LEMMA RepairDriftStays ==
    ASSUME IInv, Moves, RepairDriftPending, validation' = validation
    PROVE  RepairDriftPending'
  <1>1. /\ stage \in {"Repair", "Terminal"} /\ validation.repair = "Selected"
        /\ node[validation.repairer] \in {"Active", "FailedTerminal"}
        /\ mutation.step = "Converged"
    BY DEF RepairDriftPending
  <1>2. CASE stage = "Terminal"
    <2>1. UNCHANGED <<stage, node, revision, result, mutation>>
      BY <1>2, NothingAfterTheEnd
    <2> QED
      BY <2>1 DEF RepairDriftPending, Drifted, MutationOutcome, Infrastructure
  <1>3. CASE stage = "Repair"
    <2>1. /\ validation.repairer \in Repairs /\ validation.repairer \in Mutators
          /\ validation.repairer \in NodeIds
          /\ validation.convergence = "None" /\ ~validation.rerun
          /\ \A r \in Repairs : node[r] \notin {"Absent", "Succeeded"} =>
                r = validation.repairer
      BY <1>1, SelectedMeans
    <2>2. \A n \in Mutators : ~MutationMoves(n) /\ ~Succeeds(n)
      BY <1>1, MutationStepTypes DEF Succeeds
    <2>3. ASSUME NEW n \in Mutators, Starts(n) PROVE FALSE
      <3>1. StageOf(n) = "Repair" /\ node[n] = "Ready"
        BY <1>3, <2>3 DEF Starts, Start, CanStart
      <3>2. n \in Repairs
        BY <3>1, Mutates
      <3> QED
        BY <1>1, <2>1, <3>1, <3>2
    <2>4. mutation' = mutation
      BY <2>2, <2>3, StateEffects
    <2>5. revision' = revision
      BY <1>3, <2>2, RevisionEffects, ReviewMovesKeep
    <2>6. node'[validation.repairer] \in {"Active", "FailedTerminal"}
      BY <1>1, <2>1, <2>2, MutatorEffects, NodeEffects DEF Effects, Active
    <2>7. \/ stage' = "Repair"
          \/ stage' = "Terminal" /\ result' = MutationOutcome("NoValidRepair")
      BY <1>1, <1>3, RepairStays
    <2>8. MutationOutcome("NoValidRepair")' = MutationOutcome("NoValidRepair")
      BY <2>4 DEF MutationOutcome, Infrastructure
    <2> QED
      BY <2>4, <2>5, <2>6, <2>7, <2>8 DEF RepairDriftPending, Drifted
  <1> QED
    BY <1>1, <1>2, <1>3

LEMMA NextValidationBound ==
    ASSUME IInv, Moves
    PROVE  ValidationIsBound'
  <1>1. /\ ValidationIsBound /\ ValidationTypeOK /\ revision \in Nat
        /\ ValidationInit <=> validation.revision = 0
    BY DEF IInv, StagesAreBound, ValidationFollows, GraphTypeOK
  <1>2. ValidationTypeOK' /\ (ValidationInit' <=> validation'.revision = 0)
    BY NextValidationTypes
  <1>3. stage' \in BeforeValidation => stage \in BeforeValidation
    BY Leaving, EnteredFrom DEF BeforeValidation, BeforeImplementation, BeforePlanning
  <1>4. stage \in BeforeValidation =>
          validation' = validation \/ Advances("Implementation", "Validation")
    <2>1. stage \in BeforeValidation => stage \notin {"Validation", "Repair"}
      BY DEF BeforeValidation, BeforeImplementation, BeforePlanning
    <2> QED
      BY <2>1, StateEffects, ValidationMovesKeep, ReopensMeans
  <1>5. stage' \in BeforeValidation => ValidationInit'
    <2>1. Advances("Implementation", "Validation") => stage' \notin BeforeValidation
      BY GatesEntered DEF BeforeValidation, BeforeImplementation, BeforePlanning
    <2> QED
      BY <1>1, <1>3, <1>4, <2>1 DEF ValidationIsBound, ValidationInit
  <1>6. ASSUME Advances("Implementation", "Validation") \/ Reopens
        PROVE  validation'.revision = revision' /\ ~ValidationInit'
    <2>1. /\ revision > 0 /\ revision' = revision
          /\ \/ validation' = [validation EXCEPT !.revision = revision]
             \/ validation' = [validation EXCEPT !.repair = "Invalidated", !.run = "None",
                               !.revision = revision, !.evidence = NoEvidence]
      <3>1. Reopens => revision > 0
        BY <1>1, ReopensMeans DEF ValidationTypeOK
      <3> QED
        BY <1>6, <3>1, GatesEntered, ReopensMeans
    <2>2. validation'.revision = revision
      BY <1>1, <2>1 DEF ValidationTypeOK
    <2> QED
      BY <1>1, <1>2, <2>1, <2>2
  <1>7. ASSUME ValidationMoves
        PROVE  validation'.revision = revision' /\ ~ValidationInit'
    <2>1. /\ ValidationCases /\ ValidationKeeps /\ stage \in {"Validation", "Repair"}
          /\ revision' = revision
      BY <1>7, ValidationMovesKeep, ValidationMovesAre, ValidationStepTypes DEF graphVars
    <2>2. stage = "Validation" \/ validation.repair # "Selected"
      BY <2>1 DEF ValidationCases, RunsOn, Judges, Diagnoses, Stops, Weighs, Selects,
                  Schedules, Validating
    <2>3. ~ValidationInit /\ validation.revision = revision
      BY <2>1, <2>2, WhenBound
    <2> QED
      BY <1>1, <1>2, <2>1, <2>3 DEF ValidationKeeps
  <1>8. ASSUME validation' = validation, ~ValidationInit'
        PROVE  \/ validation'.revision = revision'
               \/ RepairHandoffPending' \/ RepairDriftPending' \/ ReviewDriftPending'
    <2>1. ~ValidationInit
      BY <1>8 DEF ValidationInit
    <2>2. CASE validation.revision = revision
      <3>1. CASE revision' = revision
        BY <1>8, <2>2, <3>1
      <3>2. ASSUME NEW n \in Mutators, MutationMoves(n), revision' # revision
            PROVE  RepairHandoffPending' \/ RepairDriftPending'
        BY <2>1, <2>2, <3>2, RepairChanges
      <3>3. CASE ReviewMoves /\ revision' # revision
        <4>1. ReviewStepped /\ stage = "Review" /\ stage' = "Review"
          BY <3>3, ReviewStepTypes, ReviewMovesKeep
        <4>2. review.convergence = "None"
          BY <4>1 DEF ReviewStepped
        <4>3. review.revision = revision
          BY <4>1, <4>2, ReviewedIsValidated
        <4>4. ReviewDriftPending'
          BY <3>3, <4>1, <4>3 DEF ReviewDriftPending, ReviewStepped
        <4> QED
          BY <4>4
      <3> QED
        BY <3>1, <3>2, <3>3, RevisionEffects
    <2> QED
      BY <1>1, <1>8, <2>1, <2>2, HandoffStays, RepairDriftStays, ReviewDriftStays
         DEF ValidationIsBound
  <1>9. stage' \notin BeforeValidation \cup {"Terminal"} => ~ValidationInit'
    <2>1. CASE validation' = validation
      <3>1. stage' \notin BeforeValidation \cup {"Terminal"} =>
              \/ stage \notin BeforeValidation \cup {"Terminal"}
              \/ Advances("Implementation", "Validation")
        <4>1. CASE stage' = stage
          BY <4>1
        <4>2. CASE <<stage, stage'>> \in Passages /\ Advances(stage, stage')
          <5>1. stage' \in {"Discovery", "Planning", "Implementation"}
                \/ <<stage, stage'>> = <<"Implementation", "Validation">>
                \/ stage \in {"Validation", "Repair", "Review"}
            BY <4>2 DEF Passages
          <5> QED
            BY <4>2, <5>1 DEF BeforeValidation, BeforeImplementation, BeforePlanning
        <4> QED
          BY <4>1, <4>2, Leaving
      <3> QED
        BY <1>1, <1>6, <2>1, <3>1 DEF ValidationIsBound, ValidationInit
    <2> QED
      BY <1>6, <1>7, <2>1, StateEffects
  <1>10. ~ValidationInit' =>
           \/ validation'.revision = revision'
           \/ RepairHandoffPending' \/ RepairDriftPending' \/ ReviewDriftPending'
    BY <1>6, <1>7, <1>8, StateEffects
  <1> QED
    BY <1>5, <1>9, <1>10 DEF ValidationIsBound

LEMMA NextValidation ==
    ASSUME IInv, Moves
    PROVE  ValidationFollows' /\ ValidationIsBound'
  BY NextValidationFollows, NextValidationBound

-----------------------------------------------------------------------------
(* The invariant holds initially and is kept.                                *)

LEMMA NothingIsPartial ==
    /\ <<>> \in PartialSearches /\ <<>> \in PartialMaps
    /\ <<>> \in Seq(Paths)
  <1>1. <<>> \in Seq(Paths)
    OBVIOUS
  <1>2. DOMAIN <<>> = {}
    OBVIOUS
  <1>3. <<>> = [x \in {} |-> x]
    BY <1>2
  <1>4. <<>> \in [{} -> SUBSET Paths]
    BY <1>3
  <1>5. <<>> \in [{} -> [paths : SUBSET Paths, evidence : SUBSET Paths]]
    BY <1>3
  <1>6. {} \in SUBSET Searches /\ {} \in SUBSET Criteria
    OBVIOUS
  <1> QED
    BY <1>1, <1>4, <1>5, <1>6 DEF PartialSearches, PartialMaps

LEMMA InitGraph ==
    ASSUME Init
    PROVE  GraphTypeOK /\ GraphFollows
  <1>1. /\ stage = "Profiling" /\ revision = 0 /\ proofs = {} /\ call = NoCall
        /\ usage = [o \in Owners |-> Unused] /\ result = "None"
        /\ node = [n \in NodeIds |->
                     IF n \in {"Discovery", "Planning"} THEN "Pending" ELSE "Absent"]
    BY DEF Init, GraphInit
  <1>2. Unused \in [calls : Nat, held : Nat, cost : Nat, heldCost : Nat]
    BY DEF Unused
  <1>3. NoCall \in [state : CallStates, node : ModelNodes \cup {"None"}, cost : Nat]
    BY DEF NoCall, CallStates
  <1>4. GraphTypeOK
    BY <1>1, <1>2, <1>3 DEF GraphTypeOK, Stages, NodeStates, Owners
  <1>5. \A n \in NodeIds : node[n] \in {"Pending", "Absent"} /\ ~Active(n)
    BY <1>1 DEF Active
  <1>6. \A n \in NodeIds : node[n] = "Pending" => n \in {"Discovery", "Planning"}
    BY <1>1
  <1>7. \A n \in NodeIds : StageOf(n) # "Profiling"
    BY NodeCases, NodeStages
  <1>8. OneOwner /\ NodesFit /\ NodesAreProved
    BY <1>1, <1>5, <1>7 DEF OneOwner, NodesFit, NodesAreProved, Eligible
  <1>9. StagesFollow
    BY <1>1 DEF StagesFollow, BeforeValidation, BeforeImplementation, BeforePlanning
  <1>10. /\ call.state = "None" /\ call.node = "None" /\ call.cost = 0
    BY <1>1 DEF NoCall
  <1>11. \A o \in Owners : /\ usage[o].held = 0 /\ usage[o].heldCost = 0
                           /\ usage[o].calls = 0 /\ usage[o].cost = 0
    BY <1>1 DEF Unused
  <1>12. \A o \in Owners : CallsLeft(o) >= 0 /\ CostLeft(o) >= 0
    BY <1>11, GraphAssumption DEF CallsLeft, CostLeft
  <1>13. BudgetFollows
    <2>1. \A n \in ModelNodes : n \in Owners
      BY DEF Owners
    <2>2. "Mission" \in Owners
      BY DEF Owners
    <2>3. BudgetsAgree
      BY <1>10, <1>11, <1>12, <2>1 DEF BudgetsAgree, OpenCall, Holds
    <2> QED
      BY <1>10, <1>11, <2>2, <2>3 DEF BudgetFollows
  <1>14. CallFollows
    BY <1>1, <1>10 DEF CallFollows
  <1>15. ResultIsCanonical
    BY <1>1 DEF ResultIsCanonical
  <1> QED
    BY <1>4, <1>8, <1>9, <1>13, <1>14, <1>15 DEF GraphFollows

LEMMA InitStages ==
    ASSUME Init
    PROVE  DiscoveryFollows /\ PlanningFollows /\ MutationFollows
  <1>1. \A n \in NodeIds : node[n] \in {"Pending", "Absent"}
    BY DEF Init, GraphInit
  <1>2. "Discovery" \in NodeIds /\ "Planning" \in NodeIds
    BY NodeKinds
  <1>3. DiscoveryFollows
    <2>1. discovery = [profile |-> "None", searched |-> <<>>,
                 covers |-> [p \in Paths |-> {}], ranked |-> <<>>,
                 grounded |-> {}, whole |-> {}, questions |-> {},
                 areas |-> <<>>, convergence |-> "None", action |-> NoAction]
      BY DEF Init, DiscoveryInit
    <2>2. NoAction \in Actions /\ NoAction.class = "None"
      BY DEF NoAction, Actions, ReadingActions
    <2>3. "None" \in Convergences /\ [p \in Paths |-> {}] \in [Paths -> SUBSET Criteria]
      BY DEF Convergences
    <2>4. discovery \in DiscoveryStates
      BY <2>1, <2>2, <2>3, NothingIsPartial DEF DiscoveryStates
    <2> QED
      BY <2>1, <2>2, <2>4 DEF DiscoveryFollows
  <1>4. PlanningFollows
    <2>1. planning = [latest |-> "None", plan |-> <<>>, convergence |-> "None"]
      BY DEF Init, PlanningInit
    <2>2. planning \in PlanningStates
      BY <2>1 DEF PlanningStates, Validations
    <2> QED
      BY <1>1, <1>2, <2>1, <2>2 DEF PlanningFollows, PlanAccepted
  <1>5. MutationFollows
    <2>1. MutationTypeOK /\ mutation.step = "Load" /\ mutation.attempt = 0
          /\ mutation.failure = "None"
      BY MutationAssumption DEF Init, MutationInit, MutationTypeOK, Untouched, MutationSteps
    <2>2. \A n \in Mutators : node[n] # "FailedTerminal"
      BY <1>1, Mutates
    <2>3. \A n \in Targets : node[n] # "Succeeded"
      BY <1>1, NodeKinds
    <2> QED
      BY <2>1, <2>2, <2>3, MutationAssumption DEF MutationFollows
  <1> QED
    BY <1>3, <1>4, <1>5

LEMMA InitValidation ==
    ASSUME Init
    PROVE  ValidationFollows
  <1>1. validation = [revision |-> 0, runs |-> [g \in Gates |-> 0], run |-> "None",
                  evidence |-> NoEvidence, failure |-> "None", repair |-> "None",
                  repairer |-> "None", origin |-> "None", rerun |-> FALSE,
                  convergence |-> "None"]
    BY DEF Init, ValidationInit
  <1>2. \A n \in NodeIds : node[n] \in {"Pending", "Absent"}
        /\ (node[n] = "Pending" => n \in {"Discovery", "Planning"})
    BY DEF Init, GraphInit
  <1>3. stage = "Profiling" /\ revision = 0 /\ proofs = {}
    BY DEF Init, GraphInit
  <1>4. NoEvidence \in [Gates -> Evidence]
    BY DEF NoEvidence, Evidence
  <1>5. [g \in Gates |-> 0] \in [Gates -> 0 .. MaxRuns]
    BY ValidationAssumption
  <1>6. ValidationTypeOK
    BY <1>1, <1>4, <1>5 DEF ValidationTypeOK, Runs, RepairSteps
  <1>7. ValidationInit /\ validation.revision = 0 /\ validation.failure = "None"
        /\ validation.repair = "None" /\ ~validation.rerun
    BY <1>1 DEF ValidationInit
  <1>8. \A r \in Repairs : node[r] = "Absent"
    BY <1>2, NodeKinds
  <1>9. RepairFollows
    BY <1>3, <1>7, <1>8 DEF RepairFollows
  <1>10. \A n \in CheckNodes : node[n] = "Absent"
    BY <1>2, NodeKinds
  <1>11. EvidenceFollows
    <2>1. \A g \in Gates : validation.evidence[g].revision = 0
      BY <1>1 DEF NoEvidence
    <2> QED
      BY <1>3, <1>7, <1>10, <2>1 DEF EvidenceFollows
  <1>12. Lineage /\ ActiveCheckCanGoOn /\ ~Rerunning
    BY <1>3, <1>7, <1>10 DEF Lineage, ActiveCheckCanGoOn, Rerunning, Active
  <1> QED
    BY <1>3, <1>6, <1>7, <1>9, <1>11, <1>12 DEF ValidationFollows

LEMMA InitReview ==
    ASSUME Init
    PROVE  ReviewFollows /\ PublicationFollows
  <1>1. ReviewInit /\ PublicationInit /\ stage = "Profiling"
    BY DEF Init, GraphInit
  <1>2. \A n \in NodeIds : node[n] \in {"Pending", "Absent"}
    BY DEF Init, GraphInit
  <1>3. ReviewTypeOK
    BY <1>1, ReviewAssumption DEF ReviewInit, ReviewTypeOK, Requests
  <1>4. ReviewFollows
    BY <1>1, <1>2, <1>3, NodeKinds DEF ReviewInit, ReviewFollows, Granted, Final
  <1>5. PublicationFollows
    <2>1. [o \in Operations |-> 0] \in [Operations -> 0 .. OperationLimit]
      BY PublicationAssumption
    <2>2. PublicationTypeOK
      BY <1>1, <2>1 DEF PublicationInit, PublicationTypeOK
    <2>3. /\ publication.intent = "None" /\ publication.observed = "None"
          /\ publication.applied = {} /\ publication.trees = {}
          /\ ~publication.completed /\ publication.convergence = "None"
          /\ ~publication.draft
          /\ \A o \in Operations : publication.attempts[o] = 0
      BY <1>1 DEF PublicationInit
    <2>4. "None" \notin Failures
      BY DEF Failures
    <2> QED
      BY <2>2, <2>3, <2>4 DEF PublicationFollows, Operations
  <1> QED
    BY <1>4, <1>5

LEMMA InitBound ==
    ASSUME Init
    PROVE  StagesAreBound
  <1>1. /\ stage = "Profiling" /\ call = NoCall
        /\ \A n \in NodeIds : node[n] \in {"Pending", "Absent"}
        /\ DiscoveryInit /\ PlanningInit /\ MutationInit /\ ValidationInit
        /\ ReviewInit /\ PublicationInit
    BY DEF Init, GraphInit
  <1>2. DiscoveryIsBound
    BY <1>1 DEF DiscoveryIsBound, DiscoveryInit, NoAction, BeforePlanning
  <1>3. PlanningIsBound /\ ImplementationIsBound
    BY <1>1 DEF PlanningIsBound, PlanningInit, PlanAccepted, NoCall, ImplementationIsBound,
                BeforeImplementation, BeforePlanning
  <1>4. MutationIsBound
    BY <1>1, Mutates DEF MutationIsBound, Active
  <1>5. ValidationIsBound
    BY <1>1 DEF ValidationIsBound, BeforeValidation, BeforeImplementation, BeforePlanning
  <1>6. ReviewIsBound
    BY <1>1 DEF ReviewIsBound, ReviewPublished
  <1> QED
    BY <1>2, <1>3, <1>4, <1>5, <1>6 DEF StagesAreBound

LEMMA NextInvariant ==
    ASSUME IInv, [Next]_vars
    PROVE  IInv'
  <1>1. Moves
    BY Steps
  <1> QED
    BY <1>1, NextGraph, NextDiscovery, NextPlanning, NextMutation, NextValidation,
       NextReviewFollows, NextReviewBound, NextPublicationFollows DEF IInv, StagesAreBound

\* In every behaviour of the stages together, what each of them keeps agrees
\* with the graph, the files and the other stages (append_event, reducer.rs:3110).
THEOREM Invariant == Spec => []IInv
  <1>1. Init => IInv
    BY InitGraph, InitStages, InitValidation, InitReview, InitBound DEF IInv
  <1>2. IInv /\ [Next]_vars => IInv'
    BY NextInvariant
  <1> QED
    BY <1>1, <1>2, PTL DEF Spec
-----------------------------------------------------------------------------
(* What follows from it.                                                     *)

LEMMA InvariantIsValid ==
    ASSUME IInv
    PROVE  AggregateIsValid
  <1>1. DiscoveryTypeOK
    <2>1. discovery \in DiscoveryStates /\ discovery.whole \subseteq discovery.grounded
      BY DEF IInv, DiscoveryFollows
    <2>2. /\ discovery.searched \in PartialSearches /\ discovery.areas \in PartialMaps
          /\ discovery.action \in Actions
      BY <2>1 DEF DiscoveryStates
    <2>3. /\ DOMAIN discovery.searched \subseteq Searches
          /\ \A s \in DOMAIN discovery.searched : discovery.searched[s] \subseteq Paths
      BY <2>2 DEF PartialSearches
    <2>4. /\ DOMAIN discovery.areas \subseteq Criteria
          /\ \A c \in DOMAIN discovery.areas :
               discovery.areas[c] \in [paths : SUBSET Paths, evidence : SUBSET Paths]
      BY <2>2 DEF PartialMaps
    <2>5. discovery.action.class \in {"None", "DiscoverCandidates",
            "GroundCandidateEvidence", "ResolveNamedRelationship", "RecordImpactMap"}
      BY <2>2 DEF Actions, ReadingActions
    <2> QED
      BY <2>1, <2>3, <2>4, <2>5 DEF DiscoveryStates, DiscoveryTypeOK
  <1>2. PlanningTypeOK
    BY DEF IInv, PlanningFollows, PlanningStates, PlanningTypeOK
  <1>3. /\ GraphTypeOK /\ MutationTypeOK /\ ValidationTypeOK /\ ReviewTypeOK
        /\ PublicationTypeOK
    BY DEF IInv, MutationFollows, ValidationFollows, ReviewFollows, PublicationFollows
  <1>4. GraphIsSound
    <2>1. OneOwner /\ NodesFit /\ NodesAreProved
      BY DEF IInv, GraphFollows
    <2>2. Rerunning => \A n \in CheckNodes : node[n] # "FailedRecoverable"
      BY DEF IInv, ValidationFollows
    <2> QED
      BY <2>1, <2>2 DEF GraphIsSound, OneOwner, NodesFit, NodesAreProved
  <1>5. BudgetsAgree /\ ResultIsCanonical
    BY DEF IInv, GraphFollows, BudgetFollows
  <1> QED
    BY <1>1, <1>2, <1>3, <1>4, <1>5 DEF AggregateIsValid, InvariantsHold, IInv, StagesAreBound

\* No order of calls, failures, drift and repairs leads to an aggregate that
\* refuses all further events (validate_invariants, reducer.rs:12251).
THEOREM AlwaysValid == Spec => []AggregateIsValid
  <1>1. IInv => AggregateIsValid
    BY InvariantIsValid
  <1> QED
    BY <1>1, Invariant, PTL

\* An active check can run its next gate, or is done (next_gate_id,
\* validation.rs:2814).
THEOREM ChecksGoOn == Spec => []ActiveCheckCanGoOn
  <1>1. IInv => ActiveCheckCanGoOn
    BY DEF IInv, ValidationFollows
  <1> QED
    BY <1>1, Invariant, PTL

LEMMA InvariantIsCurrent ==
    ASSUME IInv
    PROVE  SucceededChecksAreCurrent
  <1> SUFFICES ASSUME stage \in {"Validation", "Review", "Publication"},
                      review.convergence # "Drift",
                      NEW n \in CheckNodes, node[n] = "Succeeded",
                      NEW g \in Gates, GateNode[g] = n
               PROVE  validation.evidence[g] = Pass(revision)
    BY DEF SucceededChecksAreCurrent
  <1>1. ~ValidationInit /\ ~NeedsPass(g)
    BY DEF IInv, ValidationFollows, EvidenceFollows
  <1>2. ~RepairHandoffPending /\ ~RepairDriftPending /\ ~ReviewDriftPending
    BY DEF RepairHandoffPending, RepairDriftPending, ReviewDriftPending
  <1>3. validation.revision = revision
    BY <1>1, <1>2 DEF IInv, StagesAreBound, ValidationIsBound
  <1> QED
    BY <1>1, <1>3 DEF NeedsPass

\* A check counts as done only by evidence of the files as they are
\* (PriorValidationInvalidated, reducer.rs:3392).
THEOREM ChecksAreCurrent == Spec => []SucceededChecksAreCurrent
  <1>1. IInv => SucceededChecksAreCurrent
    BY InvariantIsCurrent
  <1> QED
    BY <1>1, Invariant, PTL

LEMMA InvariantIsProved ==
    ASSUME IInv
    PROVE  ReviewCanBegin
  <1> SUFFICES ASSUME AllPassed, Proved("RequiredValidationPassed", "None")
               PROVE  AncestryComplete
    BY DEF ReviewCanBegin
  <1>1. stage = "Validation" /\ Succeeded(CheckNodes)
    BY DEF AllPassed, Validating
  <1>2. ~ValidationInit /\ validation.revision = revision
    BY <1>1, WhenBound
  <1>3. ASSUME NEW n \in CheckNodes PROVE Proved("ValidationPassed", n)
    <2>1. PICK p \in proofs : p.kind = "ValidationPassed" /\ p.node = n
                              /\ p.revision = revision
      BY <1>1, <1>2 DEF IInv, ValidationFollows, EvidenceFollows, Succeeded
    <2>2. p = ProofOf("ValidationPassed", n)
      BY <2>1 DEF IInv, GraphTypeOK, ProofOf
    <2> QED
      BY <2>1, <2>2 DEF Proved
  <1>4. PICK barrier \in 0 .. validation.revision : Descends(barrier)
    BY <1>2, LineageMeans DEF IInv, ValidationFollows
  <1>5. ASSUME NEW r \in barrier + 1 .. revision
        PROVE  RepairKnown(r) /\ Known("ValidationRerunScheduled", r)
    BY <1>1, <1>2, <1>4 DEF Descends
  <1>6. barrier \in 0 .. revision /\ Known("ImplementationBarrier", barrier)
    BY <1>2, <1>4 DEF Descends
  <1> QED
    BY <1>3, <1>5, <1>6 DEF AncestryComplete, RepairKnown, Known

\* An attempt that repaired and passed can be reviewed: the proofs its review
\* asks for are there, of every revision since the barrier
\* (engineering_ancestry, reducer.rs:6864).
THEOREM ReviewsCanBegin == Spec => []ReviewCanBegin
  <1>1. IInv => ReviewCanBegin
    BY InvariantIsProved
  <1> QED
    BY <1>1, Invariant, PTL

-----------------------------------------------------------------------------
(* What has been given up.                                                   *)

\* No call, node, effect or revision is new.
NothingIsTried ==
    /\ call' = call /\ usage' = usage /\ revision' = revision
    /\ publication'.applied = publication.applied
    /\ \A n \in NodeIds : node'[n] # "Active" \/ node[n] = "Active"

\* A call is of a node of the stage.
LEMMA CallersStage ==
    ASSUME IInv, call.state # "None"
    PROVE  call.node \in ModelNodes /\ StageOf(call.node) = stage /\ Active(call.node)
  <1>1. /\ call.node \in ModelNodes /\ Active(call.node)
        /\ \A n \in NodeIds : Active(n) => Eligible(n)
    BY DEF IInv, GraphFollows, CallFollows, NodesFit
  <1>2. call.node \in NodeIds
    BY <1>1 DEF NodeIds
  <1> QED
    BY <1>1, <1>2 DEF Eligible

LEMMA MutatorsStage ==
    ASSUME IInv, NEW n \in Mutators, MutationMoves(n)
    PROVE  stage \in {"Implementation", "Repair"}
  <1>1. Active(n) /\ n \in NodeIds
    BY MutationMovesKeep
  <1>2. Eligible(n)
    BY <1>1 DEF IInv, GraphFollows, NodesFit
  <1> QED
    BY <1>2, Mutates DEF Eligible

\* A step that starts no node, opens no call, and is of neither a mutation nor
\* the review or publication.
LEMMA QuietStep ==
    ASSUME IInv, Moves, call.state = "None", call'.state = "None",
           \A n \in NodeIds : ~Starts(n),
           \A n \in Mutators : ~MutationMoves(n),
           ~ReviewMoves, ~PublicationMoves
    PROVE  NothingIsTried
  <1>1. call' = call /\ usage' = usage
    <2>1. \A n \in ModelNodes : ~Prepare(n)
      BY DEF Prepare
    <2>2. ~CallLifecycle
      BY DEF CallLifecycle, Admit, Reserve, Dispatch, Consume, Release
    <2> QED
      BY <2>1, <2>2, CallEffects DEF CallChanges
  <1>2. revision' = revision
    BY RevisionEffects
  <1>3. publication' = publication
    BY StateEffects
  <1>4. \A n \in NodeIds : node'[n] # "Active" \/ node[n] = "Active"
    BY NodeEffects DEF Effects, Active
  <1> QED
    BY <1>1, <1>2, <1>3, <1>4 DEF NothingIsTried

LEMMA StuckDiscovery ==
    ASSUME IInv, DiscoveryMoves, call.state = "None",
           discovery.convergence \in {"Insufficient", "BudgetBlocked"}
    PROVE  discovery'.convergence = discovery.convergence /\ ~DiscoveryPrepares
  <1>1. discovery \in DiscoveryStates
    BY DEF IInv, DiscoveryFollows
  <1>2. ~DiscoveryPrepares /\ ~DiscoveryConverges
    BY DEF DiscoveryPrepares, DiscoveryConverges, Deciding
  <1>3. ~DeterministicMap
    BY DEF DeterministicMap, Converged
  <1>4. ~SearchCompleted /\ ~FilesRead /\ ~RelationshipsRecorded /\ ~ImpactMapRecorded
        /\ ~DiscoveryRejects
    BY DEF SearchCompleted, FilesRead, RelationshipsRecorded, ImpactMapRecorded,
           DiscoveryRejects, Observes
  <1>5. ~DiscoveryReleases
    BY DEF DiscoveryReleases
  <1>6. ASSUME ProfileRecorded \/ GoalRecorded
        PROVE  discovery'.convergence = discovery.convergence
    <2>1. PICK profile : discovery' = [discovery EXCEPT !.profile = profile]
      BY <1>6 DEF ProfileRecorded, GoalRecorded
    <2> QED
      BY <1>1, <2>1 DEF DiscoveryStates
  <1>7. ASSUME CandidatesRecorded
        PROVE  discovery'.convergence = discovery.convergence
    <2>1. PICK covers, ranked :
             discovery' = [discovery EXCEPT !.covers = covers, !.ranked = ranked]
      BY <1>7 DEF CandidatesRecorded
    <2> QED
      BY <1>1, <2>1 DEF DiscoveryStates
  <1> QED
    BY <1>2, <1>3, <1>4, <1>5, <1>6, <1>7 DEF DiscoveryMoves

\* Discovery that lacks evidence or budget.
LEMMA DiscoveryGivenUp ==
    ASSUME IInv, Moves, stage # "Terminal",
           discovery.convergence \in {"Insufficient", "BudgetBlocked"}
    PROVE  Blocked' /\ NothingIsTried
  <1>1. stage \in {"Profiling", "Discovery"}
    BY DEF IInv, StagesAreBound, DiscoveryIsBound, BeforePlanning
  <1>2. /\ node["Discovery"] \in {"Active", "FailedTerminal"}
        /\ call.node = "Discovery" /\ call.state # "None" => discovery.convergence = "None"
    BY DEF IInv, DiscoveryFollows, GraphFollows, CallFollows
  <1>3. call.state = "None"
    <2> SUFFICES ASSUME call.state # "None" PROVE FALSE
      OBVIOUS
    <2>1. call.node \in NodeIds /\ StageOf(call.node) \in {"Profiling", "Discovery"}
      BY <1>1, CallersStage DEF NodeIds
    <2> QED
      BY <1>2, <2>1, StageNodes
  <1>4. ASSUME NEW n \in NodeIds, Starts(n)
        PROVE  FALSE
    <2>1. StageOf(n) = stage /\ node[n] = "Ready"
      BY <1>4 DEF Starts, Start, CanStart
    <2> QED
      BY <1>1, <1>2, <2>1, StageNodes
  <1>5. ~PlanningMoves /\ ~ReviewMoves /\ ~PublicationMoves
    BY <1>1, PlanningMovesKeep, ReviewMovesKeep, PublicationMovesKeep
  <1>6. \A n \in Mutators : ~MutationMoves(n)
    BY <1>1, MutatorsStage
  <1>7. call'.state = "None"
    BY <1>3, <1>5, <1>6, OpeningCalls, StuckDiscovery
  <1>8. discovery'.convergence = discovery.convergence
    BY <1>3, StateEffects, StuckDiscovery
  <1> QED
    BY <1>3, <1>4, <1>5, <1>6, <1>7, <1>8, QuietStep DEF Blocked

\* Planning that has no plan.
LEMMA PlanningGivenUp ==
    ASSUME IInv, Moves, stage # "Terminal", planning.convergence # "None"
    PROVE  Blocked' /\ NothingIsTried
  <1>1. ~PlanAccepted /\ node["Planning"] \in {"Active", "FailedTerminal"}
    BY DEF IInv, PlanningFollows
  <1>2. stage = "Planning"
    <2>1. stage \notin BeforePlanning
      BY DEF IInv, StagesAreBound, PlanningIsBound, PlanningInit
    <2>2. stage \in BeforeImplementation \cup {"Terminal"}
      BY <1>1 DEF IInv, StagesAreBound, ImplementationIsBound
    <2> QED
      BY <2>1, <2>2 DEF BeforeImplementation
  <1>3. call.state = "None"
    <2> SUFFICES ASSUME call.state # "None" PROVE FALSE
      OBVIOUS
    <2>1. call.node \in NodeIds /\ StageOf(call.node) = "Planning"
      BY <1>2, CallersStage DEF NodeIds
    <2>2. call.node = "Planning"
      BY <2>1, StageNodes
    <2> QED
      BY <2>2 DEF IInv, GraphFollows, CallFollows
  <1>4. ASSUME NEW n \in NodeIds, Starts(n)
        PROVE  FALSE
    <2>1. StageOf(n) = stage /\ node[n] = "Ready"
      BY <1>4 DEF Starts, Start, CanStart
    <2> QED
      BY <1>1, <1>2, <2>1, StageNodes
  <1>5. ~PlanningMoves
    BY PlanningStepTypes
  <1>6. ~DiscoveryMoves /\ ~ReviewMoves /\ ~PublicationMoves
    BY <1>2, DiscoveryMovesKeep, ReviewMovesKeep, PublicationMovesKeep DEF BeforePlanning
  <1>7. \A n \in Mutators : ~MutationMoves(n)
    BY <1>2, MutatorsStage
  <1>8. call'.state = "None"
    BY <1>3, <1>5, <1>6, <1>7, OpeningCalls
  <1>9. planning' = planning
    BY <1>5, StateEffects
  <1> QED
    BY <1>3, <1>4, <1>6, <1>7, <1>8, <1>9, QuietStep DEF Blocked

\* A mutation that converged.
LEMMA MutationGivenUp ==
    ASSUME IInv, Moves, stage # "Terminal", mutation.step = "Converged"
    PROVE  Blocked' /\ NothingIsTried
  <1>1. PICK m \in Mutators : node[m] \in {"Active", "FailedTerminal"}
    BY DEF IInv, MutationFollows
  <1>2. /\ stage \notin BeforeImplementation
        /\ stage \notin BeforeValidation \cup {"Terminal"} => Succeeded(Targets)
        /\ \A r \in Repairs : node[r] \notin {"Absent", "Succeeded"} =>
             validation.repair = "Selected" /\ validation.repairer = r
        /\ validation.repair = "Selected" => stage \in {"Repair", "Terminal"}
    <2>1. stage \notin BeforeImplementation
      BY DEF IInv, StagesAreBound, MutationIsBound, MutationInit, Untouched
    <2> QED
      BY <2>1 DEF IInv, GraphFollows, StagesFollow, ValidationFollows, RepairFollows
  <1>3. /\ m \in Targets => stage = "Implementation"
        /\ m \in Repairs => stage = "Repair" /\ validation.repairer = m
    <2>1. m \in Repairs => stage = "Repair" /\ validation.repairer = m
      BY <1>1, <1>2
    <2>2. m \in Targets => ~Succeeded(Targets)
      BY <1>1 DEF Succeeded
    <2> QED
      BY <1>2, <2>1, <2>2 DEF BeforeValidation, BeforeImplementation
  <1>4. stage \in {"Implementation", "Repair"}
    BY <1>3 DEF Mutators
  <1>5. call.state = "None"
    <2> SUFFICES ASSUME call.state # "None" PROVE FALSE
      OBVIOUS
    <2>1. call.node \in NodeIds /\ StageOf(call.node) = stage
      BY CallersStage DEF NodeIds
    <2>2. call.node \in Mutators
      BY <1>4, <2>1, StageNodes DEF Mutators
    <2> QED
      BY <2>2 DEF IInv, GraphFollows, CallFollows
  <1>6. ASSUME NEW n \in NodeIds, Starts(n)
        PROVE  FALSE
    <2>1. /\ NoneActive /\ StageOf(n) = stage /\ node[n] = "Ready"
          /\ n \in Targets => \A t \in Targets : node[t] # "FailedTerminal"
      BY <1>6 DEF Starts, Start, CanStart
    <2>2. node[m] = "FailedTerminal"
      BY <1>1, <2>1, Mutates DEF NoneActive, Active
    <2>3. CASE m \in Targets
      <3>1. n \in Targets
        BY <1>3, <2>1, <2>3, StageNodes
      <3> QED
        BY <2>1, <2>2, <2>3, <3>1
    <2>4. CASE m \in Repairs
      <3>1. n \in Repairs
        BY <1>3, <2>1, <2>4, StageNodes
      <3>2. n = m
        BY <1>2, <1>3, <2>1, <2>4, <3>1
      <3> QED
        BY <2>1, <2>2, <3>2
    <2> QED
      BY <2>3, <2>4 DEF Mutators
  <1>7. \A n \in Mutators : ~MutationMoves(n)
    BY MutationStepTypes
  <1>8. ~DiscoveryMoves /\ ~PlanningMoves /\ ~ReviewMoves /\ ~PublicationMoves
    BY <1>4, DiscoveryMovesKeep, PlanningMovesKeep, ReviewMovesKeep, PublicationMovesKeep
       DEF BeforePlanning
  <1>9. call'.state = "None"
    BY <1>5, <1>7, <1>8, OpeningCalls
  <1>10. mutation' = mutation
    <2>1. \A n \in Mutators : ~Succeeds(n) /\ ~Starts(n)
      BY <1>6, Mutates DEF Succeeds
    <2> QED
      BY <1>7, <2>1, StateEffects
  <1> QED
    BY <1>5, <1>6, <1>7, <1>8, <1>9, <1>10, QuietStep DEF Blocked

\* A gate that cannot run, or a failure that nothing repairs.
LEMMA ValidationGivenUp ==
    ASSUME IInv, Moves, stage # "Terminal", validation.convergence # "None"
    PROVE  Blocked' /\ NothingIsTried
  <1>1. /\ stage \in {"Validation", "Repair"}
        /\ validation.repair # "Selected"
    <2>1. stage \notin BeforeValidation
      BY DEF IInv, StagesAreBound, ValidationIsBound, ValidationInit
    <2>2. stage \notin {"Review", "Publication"} /\ validation.repair # "Selected"
      BY DEF IInv, ValidationFollows, RepairFollows
    <2>3. stage \in Stages
      BY DEF IInv, GraphTypeOK
    <2> QED
      BY <2>1, <2>2, <2>3 DEF Stages, BeforeValidation, BeforeImplementation, BeforePlanning
  <1>2. \A r \in Repairs : node[r] \in {"Absent", "Succeeded"}
    BY <1>1, WhenBound
  <1>3. ASSUME NEW n \in NodeIds, Starts(n)
        PROVE  FALSE
    <2>1. StageOf(n) = stage /\ node[n] = "Ready" /\ (n \in CheckNodes => Validating)
      BY <1>3 DEF Starts, Start, CanStart
    <2>2. n \in CheckNodes
      BY <1>1, <1>2, <2>1, StageNodes
    <2> QED
      BY <2>1, <2>2 DEF Validating
  <1>4. call.state = "None"
    <2> SUFFICES ASSUME call.state # "None" PROVE FALSE
      OBVIOUS
    <2>1. /\ call.node \in NodeIds /\ StageOf(call.node) = stage
          /\ node[call.node] = "Active" /\ call.node \in ModelNodes
      BY CallersStage DEF NodeIds, Active
    <2>2. call.node \in CheckNodes
      BY <1>1, <1>2, <2>1, StageNodes
    <2> QED
      BY <2>1, <2>2, NodeKinds
  <1>5. \A n \in Mutators : ~MutationMoves(n)
    <2> SUFFICES ASSUME NEW n \in Mutators, MutationMoves(n) PROVE FALSE
      OBVIOUS
    <2>1. node[n] = "Active" /\ StageOf(n) = stage /\ n \in NodeIds
      BY MutationMovesKeep DEF Active, IInv, GraphFollows, NodesFit, Eligible
    <2>2. n \in Repairs
      BY <1>1, <2>1, Mutates DEF Mutators
    <2> QED
      BY <1>2, <2>1, <2>2
  <1>6. ~DiscoveryMoves /\ ~PlanningMoves /\ ~ReviewMoves /\ ~PublicationMoves
    BY <1>1, DiscoveryMovesKeep, PlanningMovesKeep, ReviewMovesKeep, PublicationMovesKeep
       DEF BeforePlanning
  <1>7. call'.state = "None"
    BY <1>4, <1>5, <1>6, OpeningCalls
  <1>8. validation'.convergence # "None"
    <2>1. ValidationTypeOK
      BY DEF IInv, ValidationFollows
    <2>2. CASE RunsOn
      BY <2>1, <2>2 DEF RunsOn, ValidationTypeOK
    <2>3. ASSUME NEW g \in Gates, NEW outcome \in {"Passed", "Failed"}, Judges(g, outcome)
          PROVE  FALSE
      BY <2>3 DEF Judges, Validating
    <2>4. ASSUME NEW g \in Gates, Diagnoses(g)
          PROVE  FALSE
      BY <2>4 DEF Diagnoses, Validating
    <2>5. CASE Stops
      BY <2>1, <2>5 DEF Stops, ValidationTypeOK
    <2>6. ~Weighs /\ \A r \in Repairs : ~Selects(r)
      BY DEF Weighs, Selects
    <2>7. CASE Schedules
      BY <2>1, <2>7 DEF Schedules, ValidationTypeOK
    <2>8. ~Reopens
      BY <1>1, ReopensMeans
    <2>9. ~Advances("Implementation", "Validation")
      BY <1>1, GatesEntered
    <2>10. CASE ValidationMoves
      BY <2>2, <2>3, <2>4, <2>5, <2>6, <2>7, <2>10, ValidationMovesAre DEF ValidationCases
    <2> QED
      BY <2>8, <2>9, <2>10, StateEffects
  <1> QED
    BY <1>3, <1>4, <1>5, <1>6, <1>7, <1>8, QuietStep DEF Blocked

\* A review that ended without a grant.
LEMMA ReviewGivenUp ==
    ASSUME IInv, Moves, stage # "Terminal", review.convergence # "None"
    PROVE  Blocked' /\ NothingIsTried
  <1>1. stage = "Review"
    <2>1. stage \notin BeforeReview
      BY DEF IInv, StagesAreBound, ReviewIsBound, ReviewInit
    <2>2. stage # "Publication" /\ stage \in Stages
      BY DEF IInv, ReviewFollows, GraphTypeOK
    <2> QED
      BY <2>1, <2>2 DEF Stages, BeforeReview, BeforeValidation, BeforeImplementation,
                        BeforePlanning
  <1>2. ASSUME NEW n \in NodeIds, Starts(n)
        PROVE  FALSE
    <2>1. /\ StageOf(n) = stage
          /\ n \in {"Review", "CompletionEvaluation"} => review.convergence = "None"
      BY <1>2 DEF Starts, Start, CanStart
    <2> QED
      BY <1>1, <2>1, StageNodes
  <1>3. call.state = "None"
    <2> SUFFICES ASSUME call.state # "None" PROVE FALSE
      OBVIOUS
    <2>1. call.node \in NodeIds /\ StageOf(call.node) = "Review"
      BY <1>1, CallersStage DEF NodeIds
    <2>2. call.node \in {"Review", "CompletionEvaluation"}
      BY <2>1, StageNodes
    <2>3. Binding(call.node)
      BY <2>2 DEF IInv, GraphFollows, CallFollows
    <2> QED
      BY <2>3 DEF Binding, Reviewing
  <1>4. \A n \in Mutators : ~MutationMoves(n)
    BY <1>1, MutatorsStage
  <1>5. ~ReviewMoves
    BY ReviewStepTypes DEF ReviewStepped
  <1>6. ~DiscoveryMoves /\ ~PlanningMoves /\ ~PublicationMoves
    BY <1>1, DiscoveryMovesKeep, PlanningMovesKeep, PublicationMovesKeep DEF BeforePlanning
  <1>7. call'.state = "None"
    BY <1>3, <1>4, <1>5, <1>6, OpeningCalls
  <1>8. review' = review
    <2>1. ~Advances("Validation", "Review")
      BY <1>1, ReviewEntered
    <2> QED
      BY <1>5, <2>1, StateEffects
  <1> QED
    BY <1>2, <1>3, <1>4, <1>5, <1>6, <1>7, <1>8, QuietStep DEF Blocked

\* A publication that failed for good.
LEMMA PublicationGivenUp ==
    ASSUME IInv, Moves, stage # "Terminal", publication.convergence # "None"
    PROVE  Blocked' /\ NothingIsTried
  <1>1. stage = "Publication" /\ node["Publication"] \in {"Active", "FailedTerminal"}
    <2>1. ~PublicationInit
      BY DEF PublicationInit
    <2>2. stage = "Publication"
      BY <2>1 DEF IInv, StagesAreBound, ReviewIsBound, ReviewPublished
    <2> QED
      BY <2>2 DEF IInv, PublicationFollows
  <1>2. ASSUME NEW n \in NodeIds, Starts(n)
        PROVE  FALSE
    <2>1. StageOf(n) = stage /\ node[n] = "Ready"
      BY <1>2 DEF Starts, Start, CanStart
    <2> QED
      BY <1>1, <2>1, StageNodes
  <1>3. call.state = "None"
    <2> SUFFICES ASSUME call.state # "None" PROVE FALSE
      OBVIOUS
    <2>1. /\ call.node \in NodeIds /\ StageOf(call.node) = "Publication"
          /\ call.node \in ModelNodes
      BY <1>1, CallersStage DEF NodeIds
    <2> QED
      BY <2>1, StageNodes, NodeKinds
  <1>4. \A n \in Mutators : ~MutationMoves(n)
    BY <1>1, MutatorsStage
  <1>5. ~PublicationMoves
    BY PublicationMovesKeep DEF Publishing
  <1>6. ~DiscoveryMoves /\ ~PlanningMoves /\ ~ReviewMoves
    BY <1>1, DiscoveryMovesKeep, PlanningMovesKeep, ReviewMovesKeep DEF BeforePlanning
  <1>7. call'.state = "None"
    BY <1>3, <1>4, <1>5, <1>6, OpeningCalls
  <1>8. publication' = publication
    BY <1>5, StateEffects
  <1> QED
    BY <1>2, <1>3, <1>4, <1>5, <1>6, <1>7, <1>8, QuietStep DEF Blocked

\* What a stage gave up is not tried again.
LEMMA BlockedStep ==
    ASSUME IInv, [Next]_vars, Blocked
    PROVE  Blocked' /\ NothingIsTried
  <1>1. Moves
    BY Steps
  <1>2. CASE stage = "Terminal"
    <2>1. /\ UNCHANGED <<stage, node, revision, call, usage, result>>
          /\ UNCHANGED <<discovery, planning, mutation, validation, review, publication>>
      BY <1>1, <1>2, NothingAfterTheEnd
    <2> QED
      BY <2>1 DEF Blocked, NothingIsTried
  <1> QED
    BY <1>1, <1>2, DiscoveryGivenUp, PlanningGivenUp, MutationGivenUp, ValidationGivenUp,
       ReviewGivenUp, PublicationGivenUp DEF Blocked

\* Once a stage has recorded that it cannot go on, no call is opened, no node
\* started, no effect applied and no revision made, and the record stays: the
\* freezes of append_event hold together across stages (reducer.rs:3127-3290).
THEOREM BlockedStays == Spec => BlockedIsFinal
  <1>1. IInv /\ [Next]_vars =>
          [Blocked => /\ Blocked'
                      /\ call' = call /\ usage' = usage /\ revision' = revision
                      /\ publication.applied' = publication.applied
                      /\ \A n \in NodeIds : node'[n] # "Active" \/ node[n] = "Active"]_vars
    <2>1. publication.applied' = publication'.applied
      OBVIOUS
    <2> QED
      BY <2>1, BlockedStep DEF NothingIsTried
  <1> QED
    BY <1>1, Invariant, PTL DEF Spec, BlockedIsFinal

-----------------------------------------------------------------------------
(* The stages implement ReviewedDelivery.                                    *)

\* What has taken effect is a beginning of the three operations, and the
\* commit among them is of the files as they are.
InOrder ==
    \/ publication.applied = {} /\ Taken = 0
    \/ publication.applied = {"Commit"} /\ Taken = 1
    \/ publication.applied = {"Commit", "Push"} /\ Taken = 2
    \/ publication.applied = Operations /\ Taken = 3

LEMMA PublishedInOrder ==
    ASSUME IInv
    PROVE  InOrder
  <1>1. publication.applied \subseteq Operations
    BY DEF IInv, PublicationFollows, PublicationTypeOK
  <1>2. publication.intent \in Operations \cup {"None"}
    BY DEF IInv, PublicationFollows, PublicationTypeOK
  <1>3. \/ publication.applied = {}
        \/ publication.applied = {"Commit"} /\ publication.intent # "None"
        \/ publication.applied = {"Commit", "Push"}
        \/ publication.applied = Operations
    <2>1. /\ publication.intent = "None" => publication.applied = {}
          /\ publication.intent \in {"None", "Commit"} => publication.applied \subseteq {"Commit"}
          /\ publication.intent = "Push" => /\ {"Commit"} \subseteq publication.applied
                                            /\ publication.applied \subseteq {"Commit", "Push"}
          /\ publication.intent = "PullRequest" => {"Commit", "Push"} \subseteq publication.applied
      BY DEF IInv, PublicationFollows
    <2>2. CASE publication.intent = "Commit"
      BY <2>1, <2>2
    <2>3. CASE publication.intent = "Push"
      BY <2>1, <2>3
    <2>4. CASE publication.intent = "PullRequest"
      BY <1>1, <2>1, <2>4 DEF Operations
    <2> QED
      BY <1>2, <2>1, <2>2, <2>3, <2>4 DEF Operations
  <1>4. publication.applied # {} => publication.trees = {revision}
    <2> SUFFICES ASSUME publication.applied # {} PROVE publication.trees = {revision}
      OBVIOUS
    <2>1. ~PublicationInit
      BY DEF PublicationInit
    <2>2. stage = "Publication" \/ ReviewPublished
      BY <2>1 DEF IInv, StagesAreBound, ReviewIsBound
    <2>3. review.convergence = "None" /\ ~ReviewInit
      BY <2>2 DEF ReviewPublished, IInv, ReviewFollows, StagesAreBound, ReviewIsBound
    <2>4. review.revision = revision
      BY <2>3 DEF IInv, StagesAreBound, ReviewIsBound, ReviewDriftPending
    <2>5. publication.trees = {review.revision}
      BY DEF IInv, PublicationFollows
    <2> QED
      BY <2>4, <2>5
  <1>5. "Push" \notin {"Commit"} /\ "PullRequest" \notin {"Commit", "Push"}
        /\ Operations # {} /\ "PullRequest" \in Operations
    BY DEF Operations
  <1>6. CASE publication.applied = {}
    BY <1>5, <1>6 DEF Taken, InOrder
  <1>7. CASE publication.applied = {"Commit"}
    BY <1>4, <1>5, <1>7 DEF Taken, InOrder
  <1>8. CASE publication.applied = {"Commit", "Push"}
    BY <1>5, <1>8 DEF Taken, InOrder
  <1>9. CASE publication.applied = Operations
    BY <1>5, <1>9 DEF Taken, InOrder
  <1> QED
    BY <1>3, <1>6, <1>7, <1>8, <1>9

LEMMA StillInOrder == IInv' => InOrder'
  <1>1. IInv => InOrder
    BY PublishedInOrder
  <1> QED
    BY <1>1, PTL

\* How far it got follows from what took effect.
LEMMA TakenFollows ==
    ASSUME IInv, IInv', publication'.applied = publication.applied
    PROVE  Taken' = Taken
  <1>1. InOrder /\ InOrder'
    BY PublishedInOrder, StillInOrder
  <1>2. publication.applied' = publication.applied
    OBVIOUS
  <1>3. "Push" \notin {"Commit"} /\ "PullRequest" \notin {"Commit", "Push"}
        /\ Operations = {"Commit", "Push", "PullRequest"}
    BY DEF Operations
  <1> QED
    BY <1>1, <1>2, <1>3 DEF InOrder

\* What the gates say changes by evidence alone.
LEMMA EvidenceEffects ==
    ASSUME IInv, Moves
    PROVE  \/ validation'.evidence = validation.evidence
           \/ /\ \E g \in Gates, outcome \in {"Passed", "Failed"} : Judges(g, outcome)
              /\ UNCHANGED graphVars /\ ValidationMoves
           \/ Reopens
  <1>1. ValidationTypeOK
    BY DEF IInv, ValidationFollows
  <1>2. ASSUME ValidationMoves
        PROVE  \/ validation'.evidence = validation.evidence
               \/ \E g \in Gates, outcome \in {"Passed", "Failed"} : Judges(g, outcome)
    <2>1. CASE RunsOn
      BY <1>1, <2>1 DEF RunsOn, ValidationTypeOK
    <2>2. ASSUME NEW g \in Gates, Diagnoses(g)
          PROVE  validation'.evidence = validation.evidence
      BY <1>1, <2>2 DEF Diagnoses, ValidationTypeOK
    <2>3. CASE Stops
      BY <1>1, <2>3 DEF Stops, ValidationTypeOK
    <2>4. CASE Weighs
      BY <1>1, <2>4 DEF Weighs, ValidationTypeOK
    <2>5. ASSUME NEW r \in Repairs, Selects(r)
          PROVE  validation'.evidence = validation.evidence
      BY <1>1, <2>5 DEF Selects, ValidationTypeOK
    <2>6. CASE Schedules
      BY <1>1, <2>6 DEF Schedules, ValidationTypeOK
    <2> QED
      BY <1>2, <2>1, <2>2, <2>3, <2>4, <2>5, <2>6, ValidationMovesAre DEF ValidationCases
  <1>3. Advances("Implementation", "Validation") => validation'.evidence = validation.evidence
    BY <1>1, GatesEntered DEF ValidationTypeOK
  <1> QED
    BY <1>2, <1>3, StateEffects, ValidationMovesKeep

\* Whether the gates passed, and whether a publication was granted, is a fact.
LEMMA TruthValues ==
    /\ Granted \in BOOLEAN /\ GatesPassed \in BOOLEAN
    /\ Granted' \in BOOLEAN /\ GatesPassed' \in BOOLEAN
  BY DEF Granted, GatesPassed

\* A new revision: no gate has passed it, and nothing was granted before.
LEMMA ChangesDeliver ==
    ASSUME IInv, IInv', Moves, revision' # revision
    PROVE  Delivery!Change
  <1>1. /\ revision' = revision + 1
        /\ ReviewMoves \/ \E n \in Mutators : MutationMoves(n)
    BY RevisionEffects
  <1>2. /\ stage \in {"Implementation", "Repair", "Review"}
        /\ UNCHANGED <<stage, result, validation, publication>>
        /\ ~ReviewMoves => review' = review /\ stage # "Review"
    <2>1. CASE ReviewMoves
      BY <2>1, ReviewMovesKeep DEF ReviewMoves
    <2>2. ASSUME NEW n \in Mutators, MutationMoves(n)
          PROVE  /\ stage \in {"Implementation", "Repair"}
                 /\ UNCHANGED <<stage, result, validation, publication, review>>
      BY <2>2, MutatorsStage, MutationMovesKeep DEF MutationMoves
    <2>3. CASE \E n \in Mutators : MutationMoves(n)
      <3>1. stage # "Review"
        BY <2>2, <2>3
      <3>2. ~ReviewMoves
        BY <3>1, ReviewMovesKeep
      <3> QED
        BY <2>2, <2>3, <3>1, <3>2
    <2> QED
      BY <1>1, <2>1, <2>3
  <1>3. result = "None"
    BY <1>2 DEF IInv, GraphFollows, ResultIsCanonical
  <1>4. ~Granted /\ ~Granted'
    <2>1. CASE ReviewMoves
      <3>1. ~review.evaluated /\ (Granted' => Granted \/ PublicationEligibilityEvaluated)
        BY <2>1, ReviewStepTypes DEF ReviewStepped
      <3>2. ~PublicationEligibilityEvaluated
        BY DEF PublicationEligibilityEvaluated, Reviewed, graphVars
      <3> QED
        BY <3>1, <3>2 DEF Granted
    <2>2. CASE ~ReviewMoves
      <3>1. ReviewInit
        BY <1>2, <2>2 DEF IInv, StagesAreBound, ReviewIsBound, BeforeReview, BeforeValidation,
                          BeforeImplementation
      <3>2. ~review.evaluated
        BY <3>1 DEF ReviewInit
      <3> QED
        BY <1>2, <2>2, <3>2 DEF Granted
    <2> QED
      BY <2>1, <2>2
  <1>5. ~GatesPassed'
    <2>1. PICK g \in Gates : TRUE
      BY ValidationAssumption, GraphAssumption
    <2>2. /\ validation.evidence[g].revision <= validation.revision
          /\ validation.revision <= revision
          /\ validation.evidence[g] \in Evidence
          /\ validation.revision \in Nat /\ revision \in Nat
      BY DEF IInv, GraphTypeOK, ValidationFollows, EvidenceFollows, ValidationTypeOK
    <2>3. validation.evidence[g].revision # revision'
      BY <1>1, <2>2 DEF Evidence
    <2>4. validation.evidence[g] # [outcome |-> "Passed", revision |-> revision']
      BY <2>3
    <2> QED
      BY <1>2, <2>4 DEF GatesPassed, Pass
  <1>6. Taken' = Taken
    BY <1>2, TakenFollows
  <1> QED
    BY <1>1, <1>2, <1>3, <1>4, <1>5, <1>6, TruthValues DEF Delivery!Change, Delivery!Running

\* The last gate passes.
LEMMA ChecksDeliver ==
    ASSUME IInv, IInv', Moves, ValidationMoves, UNCHANGED graphVars,
           NEW g \in Gates, NEW outcome \in {"Passed", "Failed"}, Judges(g, outcome)
    PROVE  Delivery!Check \/ UNCHANGED Delivery!vars
  <1>1. stage = "Validation" /\ g \in NextGate
    BY DEF Judges, Validating
  <1>2. NeedsPass(g)
    <2>1. validation.rerun => NeedsPass(validation.origin)
      BY DEF IInv, ValidationFollows, EvidenceFollows
    <2>2. CASE validation.rerun
      BY <1>1, <2>1, <2>2, NextGateMeans
    <2>3. CASE ~validation.rerun
      BY <1>1, <2>3 DEF NextGate, Earliest
    <2> QED
      BY <2>2, <2>3
  <1>3. ~GatesPassed
    BY <1>1, <1>2, WhenBound DEF GatesPassed, NeedsPass
  <1>4. UNCHANGED <<revision, result, publication, review>>
    BY DEF ValidationMoves, graphVars
  <1>5. result = "None"
    BY <1>1 DEF IInv, GraphFollows, ResultIsCanonical
  <1>6. Taken' = Taken /\ (Granted' <=> Granted)
    BY <1>4, TakenFollows DEF Granted
  <1> QED
    BY <1>3, <1>4, <1>5, <1>6, TruthValues DEF Delivery!Check, Delivery!Running, Delivery!vars

\* What a step makes of the approval: it is given to content that passed.
LEMMA ApprovalsDeliver ==
    ASSUME IInv, IInv', Moves, revision' = revision, ~(Granted' <=> Granted)
    PROVE  Delivery!Approve
  <1>1. PublicationEligibilityEvaluated /\ ReviewMoves /\ Granted' /\ ~Granted
    <2>1. review' # review
      BY DEF Granted
    <2>2. CASE Advances("Validation", "Review")
      <3>1. PICK m \in Modes : review' = [review EXCEPT !.mode = m, !.revision = revision]
        BY <2>2 DEF Advances, ReviewEnters
      <3>2. ReviewInit
        BY <2>2, ReviewEntered
      <3>3. ~review.evaluated /\ ~review'.evaluated
        BY <3>1, <3>2 DEF ReviewInit
      <3> QED
        BY <3>3 DEF Granted
    <2>3. CASE ReviewMoves
      BY <2>3, ReviewStepTypes DEF ReviewStepped
    <2> QED
      BY <2>1, <2>2, <2>3, StateEffects
  <1>2. stage = "Review" /\ review.convergence = "None"
    BY <1>1, ReviewMovesKeep, ReviewStepTypes DEF ReviewStepped
  <1>3. GatesPassed /\ UNCHANGED <<result, validation, publication>>
    BY <1>1, <1>2, ReviewedIsValidated, ReviewMovesKeep DEF ReviewMoves
  <1>4. GatesPassed'
    BY <1>3 DEF GatesPassed, Pass
  <1>5. result = "None"
    BY <1>2 DEF IInv, GraphFollows, ResultIsCanonical
  <1>6. Taken' = Taken
    BY <1>3, TakenFollows
  <1> QED
    BY <1>1, <1>3, <1>4, <1>5, <1>6, TruthValues DEF Delivery!Approve, Delivery!Running

\* An operation of the publication takes effect, or none does.
LEMMA EffectsDeliver ==
    ASSUME IInv, IInv', PublicationMoves
    PROVE  \/ Delivery!Publish
           \/ publication'.applied = publication.applied
              /\ publication'.draft = publication.draft
  <1>1. /\ stage = "Publication" /\ Granted /\ result = "None"
        /\ UNCHANGED <<revision, result, review, validation>>
    BY PublicationMovesKeep DEF IInv, GraphFollows, ResultIsCanonical, ReviewFollows,
                                PublicationMoves, graphVars
  <1>2. InOrder /\ InOrder'
    BY PublishedInOrder, StillInOrder
  <1>3. Granted' /\ (GatesPassed' <=> GatesPassed)
    BY <1>1 DEF Granted, GatesPassed, Pass
  <1>4. "Push" \notin {"Commit"} /\ "PullRequest" \notin {"Commit", "Push"} /\ "Commit" \notin {}
        /\ "Push" # "PullRequest" /\ Operations = {"Commit", "Push", "PullRequest"}
    BY DEF Operations
  <1>5. /\ PublicationTypeOK /\ PublicationTypeOK'
        /\ publication.intent = "Commit" => publication.applied \subseteq {"Commit"}
        /\ publication.intent = "Push" => /\ {"Commit"} \subseteq publication.applied
                                          /\ publication.applied \subseteq {"Commit", "Push"}
        /\ publication.intent = "PullRequest" => {"Commit", "Push"} \subseteq publication.applied
        /\ publication.applied' = publication'.applied
    BY DEF IInv, PublicationFollows
  <1>6. CASE CreateCommit
    <2>1. publication' = [publication EXCEPT !.applied = @ \cup {"Commit"}]
          /\ publication.intent = "Commit" /\ "Commit" \notin publication.applied
      BY <1>6 DEF CreateCommit, Unapplied, Pending, Published
    <2>2. publication.applied = {} /\ publication'.applied = {"Commit"}
          /\ publication'.draft = publication.draft
      BY <1>5, <2>1 DEF PublicationTypeOK
    <2>3. Taken = 0 /\ Taken' = 1
      BY <1>2, <1>4, <1>5, <2>2 DEF InOrder
    <2> QED
      BY <1>1, <1>3, <2>2, <2>3, TruthValues DEF Delivery!Publish, Delivery!Running
  <1>7. CASE PushExactLease
    <2>1. publication' = [publication EXCEPT !.applied = @ \cup {"Push"}, !.head = "Commit"]
          /\ publication.intent = "Push" /\ "Push" \notin publication.applied
      BY <1>7 DEF PushExactLease, Unapplied, Pending, Published
    <2>2. publication.applied = {"Commit"} /\ publication'.applied = {"Commit", "Push"}
          /\ publication'.draft = publication.draft
      BY <1>5, <2>1 DEF PublicationTypeOK
    <2>3. Taken = 1 /\ Taken' = 2
      BY <1>2, <1>4, <1>5, <2>2 DEF InOrder
    <2> QED
      BY <1>1, <1>3, <2>2, <2>3, TruthValues DEF Delivery!Publish, Delivery!Running
  <1>8. CASE EnsurePullRequest
    <2>1. publication' = [publication EXCEPT !.applied = @ \cup {"PullRequest"},
                                             !.draft = AsDraft]
          /\ publication.intent = "PullRequest" /\ "PullRequest" \notin publication.applied
      BY <1>8 DEF EnsurePullRequest, Unapplied, Pending, Published
    <2>2. publication'.applied = publication.applied \cup {"PullRequest"}
          /\ publication'.draft \in BOOLEAN
      BY <1>5, <2>1 DEF PublicationTypeOK
    <2>3. publication.applied = {"Commit", "Push"} /\ publication'.applied = Operations
      BY <1>2, <1>4, <1>5, <2>1, <2>2 DEF InOrder
    <2>4. Taken = 2 /\ Taken' = 3
      BY <1>2, <1>4, <1>5, <2>3 DEF InOrder
    <2> QED
      BY <1>1, <1>3, <2>2, <2>4, TruthValues DEF Delivery!Publish, Delivery!Running
  <1>9. ASSUME CommitIntentPersisted \/ PushIntentPersisted \/ PullRequestIntentPersisted
        PROVE  publication'.applied = publication.applied
               /\ publication'.draft = publication.draft
    <2>1. PICK o, trees : publication' = [Attempt(o) EXCEPT !.trees = trees]
                          \/ publication' = Attempt(o)
      BY <1>9 DEF CommitIntentPersisted, PushIntentPersisted, PullRequestIntentPersisted,
                  Persisted, Published
    <2> QED
      BY <1>5, <2>1 DEF Attempt, PublicationTypeOK
  <1>10. ASSUME CommitObserved \/ PushObserved \/ PullRequestObserved
         PROVE  publication'.applied = publication.applied
                /\ publication'.draft = publication.draft
    <2>1. PICK outcome : publication' = [publication EXCEPT !.observed = outcome]
      BY <1>10 DEF CommitObserved, PushObserved, PullRequestObserved, Observed, Published
    <2> QED
      BY <1>5, <2>1 DEF PublicationTypeOK
  <1>11. CASE BranchMoves
    BY <1>5, <1>11 DEF BranchMoves, Published, PublicationTypeOK
  <1>12. CASE PublicationConverges
    BY <1>5, <1>12 DEF PublicationConverges, Published, PublicationTypeOK
  <1>13. CASE CompletionRecorded
    BY <1>5, <1>13 DEF CompletionRecorded, Published, PublicationTypeOK
  <1> QED
    BY <1>6, <1>7, <1>8, <1>9, <1>10, <1>11, <1>12, <1>13 DEF PublicationMoves

\* The attempt ends with what the publication came to.
LEMMA ReportsDeliver ==
    ASSUME IInv, IInv', Moves, NEW outcome \in Outcomes, Finishes(outcome)
    PROVE  Delivery!Report
  <1>1. /\ result = "None" /\ result' = outcome
        /\ UNCHANGED <<revision, validation, review, publication>>
    BY DEF Finishes, Finish, CanFinish
  <1>2. /\ Taken' = Taken /\ Granted' = Granted /\ GatesPassed' = GatesPassed
    BY <1>1, TakenFollows, TruthValues DEF Granted, GatesPassed, Pass
  <1>3. InOrder /\ PublicationFollows /\ publication.applied \subseteq Operations
    BY PublishedInOrder DEF IInv, PublicationFollows, PublicationTypeOK
  <1>4. "Push" \notin {"Commit"} /\ "PullRequest" \notin {"Commit", "Push"}
        /\ Operations = {"Commit", "Push", "PullRequest"} /\ Operations # {}
    BY DEF Operations
  <1>5. outcome \in IF Taken < 3 THEN Outcomes \ {"Succeeded", "PartialReviewable"}
                    ELSE IF publication.draft THEN {"PartialReviewable"} ELSE {"Succeeded"}
    <2>1. CASE stage # "Publication"
      <3>1. publication.applied = {}
        <4>1. stage # "Terminal"
          BY DEF Finishes
        <4>2. PublicationInit
          BY <2>1, <4>1 DEF IInv, StagesAreBound, ReviewIsBound, ReviewPublished
        <4> QED
          BY <4>2 DEF PublicationInit
      <3>2. Taken = 0
        BY <1>3, <1>4, <3>1 DEF InOrder
      <3>3. outcome \notin {"Succeeded", "PartialReviewable"}
        BY <2>1 DEF Finishes
      <3> QED
        BY <3>2, <3>3
    <2>2. CASE stage = "Publication" /\ publication.convergence # "None"
      <3>1. ~publication.completed /\ publication.observed \in Failures \cup {"RemoteBranchMoved"}
        BY <1>3, <2>2 DEF PublicationFollows
      <3>2. outcome = "PublicationFailed"
        BY <2>2, <3>1 DEF Finishes
      <3>3. publication.applied # Operations
        <4>1. CASE publication.observed \in Failures
          <5>1. publication.intent \notin publication.applied
            BY <1>3, <4>1 DEF PublicationFollows
          <5>2. publication.intent = "None" => publication.applied = {}
            BY <1>3 DEF PublicationFollows
          <5>3. publication.intent \in Operations \cup {"None"}
            BY <1>3 DEF PublicationFollows, PublicationTypeOK
          <5> QED
            BY <1>4, <5>1, <5>2, <5>3
        <4>2. CASE publication.observed = "RemoteBranchMoved"
          BY <1>3, <1>4, <4>2 DEF PublicationFollows
        <4> QED
          BY <3>1, <4>1, <4>2
      <3>4. Taken < 3
        BY <1>3, <3>3 DEF InOrder
      <3> QED
        BY <3>2, <3>4
    <2>3. CASE stage = "Publication" /\ publication.convergence = "None"
      <3>1. /\ publication.completed /\ Permits(review.completion, review.mode)
            /\ outcome = IF review.mode = "Normal" THEN "Succeeded" ELSE "PartialReviewable"
        BY <2>3 DEF Finishes
      <3>2. publication.applied = Operations
        <4>1. publication.intent = "PullRequest" /\ "PullRequest" \in publication.applied
          BY <1>3, <3>1 DEF PublicationFollows, Confirmed
        <4>2. {"Commit", "Push"} \subseteq publication.applied
          BY <1>3, <4>1 DEF PublicationFollows
        <4> QED
          BY <1>3, <1>4, <4>1, <4>2
      <3>3. Taken = 3
        BY <1>3, <1>4, <3>2 DEF InOrder
      <3>4. publication.draft <=> review.mode = "NormalWithExternalReview"
        BY <1>3, <1>4, <3>2 DEF PublicationFollows, AsDraft
      <3>5. review.mode \in {"Normal", "NormalWithExternalReview"}
        BY <3>1 DEF Permits
      <3> QED
        BY <3>1, <3>3, <3>4, <3>5
    <2> QED
      BY <2>1, <2>2, <2>3
  <1> QED
    BY <1>1, <1>2, <1>5 DEF Delivery!Report, Delivery!Running

\* Every step of the stages is a step of what an attempt promises, or none.
LEMMA StepsDeliver ==
    ASSUME IInv, IInv', [Next]_vars
    PROVE  [Delivery!Next]_Delivery!vars
  <1>1. Moves
    BY Steps
  <1>2. CASE revision' # revision
    BY <1>1, <1>2, ChangesDeliver DEF Delivery!Next
  <1>3. CASE revision' = revision
    <2>1. CASE \E outcome \in Outcomes : Finishes(outcome)
      BY <1>1, <2>1, ReportsDeliver DEF Delivery!Next
    <2>2. CASE UNCHANGED graphVars /\ ValidationMoves
               /\ \E g \in Gates, outcome \in {"Passed", "Failed"} : Judges(g, outcome)
      BY <1>1, <2>2, ChecksDeliver DEF Delivery!Next
    <2>3. CASE ~(Granted' <=> Granted)
      BY <1>1, <1>3, <2>3, ApprovalsDeliver DEF Delivery!Next
    <2>4. CASE PublicationMoves /\ Delivery!Publish
      BY <2>4 DEF Delivery!Next
    <2>5. ASSUME ~\E outcome \in Outcomes : Finishes(outcome),
                 validation'.evidence = validation.evidence \/ Reopens,
                 Granted' <=> Granted,
                 publication'.applied = publication.applied,
                 publication'.draft = publication.draft
          PROVE  UNCHANGED Delivery!vars
      <3>1. result' = result
        BY <1>1, <2>5, ResultEffects
      <3>2. GatesPassed' <=> GatesPassed
        <4>1. CASE validation'.evidence = validation.evidence
          BY <1>3, <4>1 DEF GatesPassed, Pass
        <4>2. CASE Reopens
          <5>1. PICK g \in Gates : TRUE
            BY ValidationAssumption, GraphAssumption
          <5>2. /\ revision = validation.revision + 1 /\ validation.revision > 0
                /\ validation' = [validation EXCEPT !.repair = "Invalidated", !.run = "None",
                                    !.revision = revision, !.evidence = NoEvidence]
            BY <4>2, ReopensMeans
          <5>3. /\ validation.evidence[g].revision <= validation.revision
                /\ validation.evidence[g] \in Evidence /\ validation.revision \in Nat
                /\ ValidationTypeOK
            BY DEF IInv, ValidationFollows, EvidenceFollows, ValidationTypeOK
          <5>4. validation.evidence[g] # Pass(revision)
            BY <5>2, <5>3 DEF Evidence, Pass
          <5>5. validation'.evidence = NoEvidence
            BY <5>2, <5>3 DEF ValidationTypeOK
          <5>6. validation'.evidence[g] # Pass(revision')
            BY <5>5 DEF NoEvidence, Pass
          <5>7. validation.evidence[g]' = validation'.evidence[g]
            OBVIOUS
          <5> QED
            BY <5>4, <5>6 DEF GatesPassed, Pass
        <4> QED
          BY <2>5, <4>1, <4>2
      <3>3. Taken' = Taken
        BY <2>5, TakenFollows
      <3> QED
        BY <1>3, <2>5, <3>1, <3>2, <3>3, TruthValues DEF Delivery!vars
    <2>6. \/ Delivery!Publish /\ PublicationMoves
          \/ publication'.applied = publication.applied
             /\ publication'.draft = publication.draft
      BY <1>1, EffectsDeliver, StateEffects
    <2> QED
      BY <1>1, <2>1, <2>2, <2>3, <2>4, <2>5, <2>6, EvidenceEffects
  <1> QED
    BY <1>2, <1>3

LEMMA StartsUndelivered ==
    ASSUME Init
    PROVE  Delivery!Init
  <1>1. /\ revision = 0 /\ result = "None" /\ ReviewInit /\ PublicationInit /\ ValidationInit
    BY DEF Init, GraphInit
  <1>2. ~GatesPassed
    <2>1. PICK g \in Gates : TRUE
      BY ValidationAssumption, GraphAssumption
    <2>2. validation.evidence[g].outcome = "None"
      BY <1>1 DEF ValidationInit, NoEvidence
    <2> QED
      BY <2>2 DEF GatesPassed, Pass
  <1>3. ~Granted
    BY <1>1 DEF ReviewInit, Granted
  <1>4. publication.applied = {} /\ publication.draft = FALSE
    BY <1>1 DEF PublicationInit
  <1>5. Taken = 0
    <2>1. {} # {"Commit"} /\ {} # {"Commit", "Push"} /\ {} # Operations
      BY DEF Operations
    <2> QED
      BY <1>4, <2>1 DEF Taken
  <1>6. Granted \in BOOLEAN /\ GatesPassed \in BOOLEAN
    BY DEF Granted, GatesPassed
  <1> QED
    BY <1>1, <1>2, <1>3, <1>4, <1>5, <1>6 DEF Delivery!Init

\* The stages implement what an attempt promises: only files that passed every
\* gate are approved, approved files change no more and are published once and
\* in order, and the result says what was published (decide and append_event of
\* every stage, reducer.rs).
THEOREM StagesDeliver == Spec => DeliverySpec
  <1>1. Init => Delivery!Init
    BY StartsUndelivered
  <1>2. IInv /\ IInv' /\ [Next]_vars => [Delivery!Next]_Delivery!vars
    BY StepsDeliver
  <1> QED
    BY <1>1, <1>2, Invariant, PTL DEF Spec, DeliverySpec, Delivery!Spec

-----------------------------------------------------------------------------
(* What a plan rests on.                                                     *)

\* Evidence suffices as long as it stays what it is.
LEMMA SameEvidence ==
    ASSUME discovery'.searched = discovery.searched, discovery'.covers = discovery.covers,
           discovery'.grounded = discovery.grounded, discovery'.questions = discovery.questions
    PROVE  EvidenceSuffices => EvidenceSuffices'
  <1>1. \A s \in DOMAIN discovery.searched : Projected(s)' = Projected(s)
    BY DEF Projected
  <1>2. Unprojected' = Unprojected
    BY <1>1 DEF Unprojected
  <1>3. Covered(discovery.grounded)' = Covered(discovery.grounded)
    BY DEF Covered
  <1> QED
    BY <1>2, <1>3 DEF EvidenceSuffices

\* While an action of discovery is open there is no complete map and nothing is
\* converged.
LEMMA WhileReading ==
    ASSUME IInv, MapFollows, Active("Discovery"), call.state # "None"
    PROVE  /\ discovery.convergence = "None" /\ discovery.action.class # "None"
           /\ ~MapComplete
  <1>1. call.node = "Discovery"
    BY NoCallOfOthers, NodeKinds DEF IInv
  <1> QED
    BY <1>1 DEF IInv, GraphFollows, CallFollows, MapFollows

\* No action of discovery is open between its calls.
LEMMA BetweenCalls ==
    ASSUME IInv, call.state = "None"
    PROVE  discovery.action.class = "None"
  BY DEF IInv, GraphFollows, CallFollows, NoCall, DiscoveryFollows

\* An action is decided on when the evidence has been projected; a map, when it
\* suffices.
LEMMA ActionsFollow ==
    ASSUME IInv, Deciding, NEW a \in Bindings
    PROVE  /\ a.class = "RecordImpactMap" => EvidenceSuffices
           /\ a.class = "DiscoverCandidates" => a.on \cap DOMAIN discovery.searched = {}
  <1>1. a.class = "DiscoverCandidates" => a.on \cap DOMAIN discovery.searched = {}
    BY DEF Bindings, Substate
  <1>2. ASSUME a.class = "RecordImpactMap"
        PROVE  EvidenceSuffices
    <2>1. Substate = "ReadyToSynthesize"
      BY <1>2 DEF Bindings, Substate
    <2>2. /\ Ungrounded = {} /\ Covered(Candidates) = Criteria
          /\ discovery.questions = {}
      BY <2>1 DEF Substate
    <2>3. Candidates \subseteq discovery.grounded /\ discovery.grounded \subseteq Paths
      BY <2>2 DEF Ungrounded, IInv, DiscoveryFollows, DiscoveryStates
    <2>4. discovery.covers \in [Paths -> SUBSET Criteria]
      BY DEF IInv, DiscoveryFollows, DiscoveryStates
    <2>5. Covered(discovery.grounded) = Criteria
      BY <2>2, <2>3, <2>4 DEF Covered
    <2> QED
      BY <2>2, <2>5 DEF EvidenceSuffices, Deciding
  <1> QED
    BY <1>1, <1>2

\* Discovery converges as accepted on a complete map and as sufficient on
\* evidence that covers the criteria.
LEMMA ConvergesOnEvidence ==
    ASSUME MapFollows, Deciding, Evaluated \in {"Sufficient", "Accepted"}
    PROVE  EvidenceSuffices
  <1>1. CASE MapComplete
    BY <1>1 DEF MapFollows
  <1>2. CASE ~MapComplete
    BY <1>2 DEF Evaluated, Deciding, EvidenceSuffices
  <1> QED
    BY <1>1, <1>2

\* The steps that leave the searches and the candidates alone.
LEMMA SameSearches ==
    ASSUME SearchesFollow, discovery'.searched = discovery.searched,
           discovery'.covers = discovery.covers,
           discovery'.action.class = "DiscoverCandidates" =>
             discovery'.action.on \cap DOMAIN discovery.searched = {}
    PROVE  SearchesFollow'
  BY DEF SearchesFollow

\* The steps that leave the map and what it rests on alone.
LEMMA SameMap ==
    ASSUME MapFollows, discovery'.searched = discovery.searched,
           discovery'.covers = discovery.covers, discovery'.areas = discovery.areas,
           discovery'.grounded = discovery.grounded, discovery'.questions = discovery.questions,
           discovery'.action.class = "RecordImpactMap"
             \/ discovery'.convergence \in {"Sufficient", "Accepted"} => EvidenceSuffices,
           MapComplete => discovery'.action.class = "None"
    PROVE  MapFollows'
  <1>1. MapComplete' <=> MapComplete
    BY DEF MapComplete
  <1>2. EvidenceSuffices => EvidenceSuffices'
    BY SameEvidence
  <1>3. MapComplete => EvidenceSuffices
    BY DEF MapFollows
  <1> QED
    BY <1>1, <1>2, <1>3 DEF MapFollows

\* A step that answers an action leaves nothing to rest on the evidence.
LEMMA NoMapYet ==
    ASSUME MapFollows, ~MapComplete, discovery.convergence = "None",
           discovery'.covers = discovery.covers, discovery'.areas = discovery.areas,
           discovery'.convergence = discovery.convergence, discovery'.action = NoAction
    PROVE  MapFollows'
  <1>1. ~MapComplete'
    BY DEF MapComplete
  <1>2. discovery'.action.class = "None"
    BY DEF NoAction
  <1>3. \A c \in DOMAIN discovery'.areas :
          /\ discovery'.areas[c].evidence \subseteq discovery'.areas[c].paths
          /\ \A p \in discovery'.areas[c].paths : c \in discovery'.covers[p]
    BY DEF MapFollows
  <1> QED
    BY <1>1, <1>2, <1>3 DEF MapFollows

LEMMA SearchesGrow ==
    ASSUME IInv, SearchesFollow, MapFollows, SearchCompleted
    PROVE  SearchesFollow' /\ MapFollows'
  <1>1. PICK matched \in SUBSET Paths, s \in discovery.action.on :
          discovery' = [discovery EXCEPT
            !.searched = [t \in DOMAIN @ \cup {s} |-> IF t = s THEN matched ELSE @[t]],
            !.action = NoAction]
    BY DEF SearchCompleted
  <1> DEFINE more == [t \in DOMAIN discovery.searched \cup {s} |->
                        IF t = s THEN matched ELSE discovery.searched[t]]
  <1>2. discovery \in DiscoveryStates
    BY DEF IInv, DiscoveryFollows
  <1>3. /\ discovery'.searched = more /\ discovery'.action = NoAction
        /\ discovery'.covers = discovery.covers /\ discovery'.areas = discovery.areas
        /\ discovery'.convergence = discovery.convergence
    BY <1>1, <1>2 DEF DiscoveryStates
  <1>4. /\ call.state = "Consumed" /\ Active("Discovery")
        /\ discovery.action.class = "DiscoverCandidates"
    BY DEF SearchCompleted, Observes
  <1>5. MapFollows'
    BY <1>3, <1>4, WhileReading, NoMapYet
  <1>6. s \notin DOMAIN discovery.searched
    BY <1>4 DEF SearchesFollow
  <1>7. \A t \in DOMAIN discovery.searched :
          t \in DOMAIN more /\ more[t] = discovery.searched[t]
    BY <1>6
  <1> HIDE DEF more
  <1>8. discovery'.action.class = "None"
    BY <1>3 DEF NoAction
  <1>9. ASSUME NEW p \in Paths, NEW c \in discovery'.covers[p]
        PROVE  \E t \in DOMAIN discovery'.searched :
                 t[1] = c /\ p \in discovery'.searched[t]
    <2>1. PICK t \in DOMAIN discovery.searched : t[1] = c /\ p \in discovery.searched[t]
      BY <1>3, <1>9 DEF SearchesFollow
    <2> QED
      BY <1>3, <1>7, <2>1
  <1>10. SearchesFollow'
    BY <1>8, <1>9 DEF SearchesFollow
  <1> QED
    BY <1>5, <1>10

LEMMA CandidatesGrow ==
    ASSUME IInv, SearchesFollow, MapFollows, CandidatesRecorded
    PROVE  SearchesFollow' /\ MapFollows'
  <1>1. PICK s \in Unprojected : \E found \in SetToSeqs(discovery.searched[s] \ Candidates) :
          discovery' = [discovery EXCEPT !.covers = Projected(s), !.ranked = @ \o found]
    BY DEF CandidatesRecorded
  <1>2. PICK found \in SetToSeqs(discovery.searched[s] \ Candidates) :
          discovery' = [discovery EXCEPT !.covers = Projected(s), !.ranked = @ \o found]
    BY <1>1
  <1>3. discovery \in DiscoveryStates
    BY DEF IInv, DiscoveryFollows
  <1>4. /\ discovery'.covers = Projected(s) /\ discovery'.searched = discovery.searched
        /\ discovery'.areas = discovery.areas /\ discovery'.action = discovery.action
        /\ discovery'.convergence = discovery.convergence
    BY <1>2, <1>3 DEF DiscoveryStates
  <1>5. ~EvidenceSuffices
    BY <1>1 DEF EvidenceSuffices
  <1>6. /\ discovery.action.class # "RecordImpactMap" /\ ~MapComplete
        /\ discovery.convergence \notin {"Sufficient", "Accepted"}
    BY <1>5 DEF MapFollows
  <1>7. ~MapComplete'
    BY <1>4, <1>6 DEF MapComplete
  <1>8. s \in DOMAIN discovery.searched
    BY <1>1 DEF Unprojected
  <1>9. \A p \in Paths :
          /\ discovery.covers[p] \subseteq discovery'.covers[p]
          /\ \A c \in discovery'.covers[p] :
               c \in discovery.covers[p] \/ (c = s[1] /\ p \in discovery.searched[s])
    <2>1. ASSUME NEW p \in Paths
          PROVE  discovery'.covers[p] = IF p \in discovery.searched[s]
                   THEN discovery.covers[p] \cup {s[1]} ELSE discovery.covers[p]
      BY <1>4 DEF Projected
    <2> QED
      BY <2>1
  <1>10. SearchesFollow'
    BY <1>4, <1>8, <1>9 DEF SearchesFollow
  <1>11. \A c \in DOMAIN discovery.areas : discovery.areas[c].paths \subseteq Paths
    <2>1. PICK C \in SUBSET Criteria :
            discovery.areas \in [C -> [paths : SUBSET Paths, evidence : SUBSET Paths]]
      BY <1>3 DEF DiscoveryStates, PartialMaps
    <2> QED
      BY <2>1
  <1>12. MapFollows'
    BY <1>4, <1>6, <1>7, <1>9, <1>11 DEF MapFollows
  <1> QED
    BY <1>10, <1>12

LEMMA ModelMaps ==
    ASSUME IInv, SearchesFollow, MapFollows, ImpactMapRecorded
    PROVE  SearchesFollow' /\ MapFollows'
  <1>1. PICK mapped \in SUBSET Criteria :
          \E m \in [mapped -> UNION {Areas(c) : c \in mapped}] :
            /\ \A c \in mapped : m[c] \in Areas(c)
            /\ discovery' = [discovery EXCEPT !.areas = m, !.convergence = "None",
                                              !.action = NoAction]
    BY DEF ImpactMapRecorded
  <1>2. PICK m \in [mapped -> UNION {Areas(c) : c \in mapped}] :
          /\ \A c \in mapped : m[c] \in Areas(c)
          /\ discovery' = [discovery EXCEPT !.areas = m, !.convergence = "None",
                                            !.action = NoAction]
    BY <1>1
  <1>3. discovery \in DiscoveryStates
    BY DEF IInv, DiscoveryFollows
  <1>4. /\ discovery'.areas = m /\ discovery'.action.class = "None"
        /\ discovery'.convergence = "None"
        /\ discovery'.searched = discovery.searched /\ discovery'.covers = discovery.covers
        /\ discovery'.grounded = discovery.grounded
        /\ discovery'.questions = discovery.questions
    BY <1>2, <1>3 DEF DiscoveryStates, NoAction
  <1>5. SearchesFollow'
    BY <1>4, SameSearches
  <1>6. discovery.action.class = "RecordImpactMap"
    BY DEF ImpactMapRecorded, Observes
  <1>7. EvidenceSuffices'
    BY <1>4, <1>6, SameEvidence DEF MapFollows
  <1>8. \A c \in mapped : /\ m[c].evidence \subseteq m[c].paths
                          /\ \A p \in m[c].paths : c \in discovery.covers[p]
    BY <1>2 DEF Areas, Grounding
  <1>9. \A c \in DOMAIN discovery'.areas :
          /\ discovery'.areas[c].evidence \subseteq discovery'.areas[c].paths
          /\ \A p \in discovery'.areas[c].paths : c \in discovery'.covers[p]
    BY <1>2, <1>4, <1>8
  <1>10. MapFollows'
    BY <1>4, <1>7, <1>9 DEF MapFollows
  <1> QED
    BY <1>5, <1>10

LEMMA DeterministicMaps ==
    ASSUME IInv, SearchesFollow, MapFollows, DeterministicMap
    PROVE  SearchesFollow' /\ MapFollows'
  <1> DEFINE map == [c \in Criteria |-> [paths |-> Grounding(c),
                                         evidence |-> Grounding(c) \cap MapEvidence]]
  <1>1. /\ discovery' = [discovery EXCEPT !.areas = map, !.convergence = "None"]
        /\ discovery.convergence = "Sufficient" /\ call.state = "None"
    BY DEF DeterministicMap, Converged
  <1>2. discovery \in DiscoveryStates
    BY DEF IInv, DiscoveryFollows
  <1>3. \A c \in DOMAIN map :
          /\ map[c].evidence \subseteq map[c].paths
          /\ \A p \in map[c].paths : c \in discovery.covers[p]
    BY DEF Grounding
  <1> HIDE DEF map
  <1>4. /\ discovery'.areas = map /\ discovery'.action.class = "None"
        /\ discovery'.convergence = "None"
        /\ discovery'.searched = discovery.searched /\ discovery'.covers = discovery.covers
        /\ discovery'.grounded = discovery.grounded
        /\ discovery'.questions = discovery.questions
    BY <1>1, <1>2, BetweenCalls DEF DiscoveryStates
  <1>5. SearchesFollow'
    BY <1>4, SameSearches
  <1>6. EvidenceSuffices'
    BY <1>1, <1>4, SameEvidence DEF MapFollows
  <1>7. MapFollows'
    BY <1>3, <1>4, <1>6 DEF MapFollows
  <1> QED
    BY <1>5, <1>7

LEMMA NextGrounding ==
    ASSUME IInv, SearchesFollow, MapFollows, DiscoveryMoves
    PROVE  SearchesFollow' /\ MapFollows'
  <1>1. discovery \in DiscoveryStates
    BY DEF IInv, DiscoveryFollows
  <1>2. CASE ProfileRecorded \/ GoalRecorded
    <2>1. \E x \in {"Recorded", "Goal"} : discovery' = [discovery EXCEPT !.profile = x]
      BY <1>2 DEF ProfileRecorded, GoalRecorded
    <2>2. /\ discovery'.searched = discovery.searched /\ discovery'.covers = discovery.covers
          /\ discovery'.areas = discovery.areas /\ discovery'.grounded = discovery.grounded
          /\ discovery'.questions = discovery.questions
          /\ discovery'.convergence = discovery.convergence
          /\ discovery'.action = discovery.action
      BY <1>1, <2>1 DEF DiscoveryStates
    <2>3. SearchesFollow'
      BY <2>2, SameSearches DEF SearchesFollow
    <2>4. MapFollows'
      BY <2>2, SameMap DEF MapFollows
    <2> QED
      BY <2>3, <2>4
  <1>3. CASE DiscoveryPrepares
    <2>1. PICK a \in Bindings : discovery' = [discovery EXCEPT !.action = a]
      BY <1>3 DEF DiscoveryPrepares
    <2>2. Deciding /\ ~MapComplete
      BY <1>3 DEF DiscoveryPrepares, MustConverge
    <2>3. /\ discovery'.searched = discovery.searched /\ discovery'.covers = discovery.covers
          /\ discovery'.areas = discovery.areas /\ discovery'.grounded = discovery.grounded
          /\ discovery'.questions = discovery.questions
          /\ discovery'.convergence = discovery.convergence
          /\ discovery'.action = a
      BY <1>1, <2>1 DEF DiscoveryStates
    <2>4. SearchesFollow'
      BY <2>2, <2>3, ActionsFollow, SameSearches
    <2>5. discovery.convergence = "None"
      BY <2>2 DEF Deciding
    <2>6. MapFollows'
      BY <2>2, <2>3, <2>5, ActionsFollow, SameMap
    <2> QED
      BY <2>4, <2>6
  <1>4. CASE FilesRead \/ RelationshipsRecorded \/ DiscoveryRejects \/ DiscoveryReleases
    <2>1. Active("Discovery") /\ call.state # "None"
      BY <1>4 DEF FilesRead, RelationshipsRecorded, DiscoveryRejects, DiscoveryReleases,
                  Observes
    <2>2. /\ discovery'.searched = discovery.searched /\ discovery'.covers = discovery.covers
          /\ discovery'.areas = discovery.areas
          /\ discovery'.convergence = discovery.convergence
          /\ discovery'.action = NoAction
      <3>1. CASE FilesRead
        BY <1>1, <3>1 DEF FilesRead, DiscoveryStates
      <3>2. CASE RelationshipsRecorded
        BY <1>1, <3>2 DEF RelationshipsRecorded, DiscoveryStates
      <3>3. CASE DiscoveryRejects \/ DiscoveryReleases
        BY <1>1, <3>3 DEF DiscoveryRejects, DiscoveryReleases, DiscoveryStates
      <3> QED
        BY <1>4, <3>1, <3>2, <3>3
    <2>3. SearchesFollow'
      BY <2>2, SameSearches DEF NoAction
    <2>4. MapFollows'
      BY <2>1, <2>2, WhileReading, NoMapYet
    <2> QED
      BY <2>3, <2>4
  <1>5. CASE DiscoveryConverges
    <2>1. /\ discovery' = [discovery EXCEPT !.convergence = Evaluated]
          /\ Deciding
      BY <1>5 DEF DiscoveryConverges
    <2>2. discovery.action.class = "None"
      BY <2>1, BetweenCalls DEF Deciding
    <2>3. /\ discovery'.searched = discovery.searched /\ discovery'.covers = discovery.covers
          /\ discovery'.areas = discovery.areas /\ discovery'.grounded = discovery.grounded
          /\ discovery'.questions = discovery.questions
          /\ discovery'.convergence = Evaluated
          /\ discovery'.action = discovery.action
      BY <1>1, <2>1 DEF DiscoveryStates
    <2>4. SearchesFollow'
      BY <2>2, <2>3, SameSearches
    <2>5. MapFollows'
      BY <2>1, <2>2, <2>3, ConvergesOnEvidence, SameMap
    <2> QED
      BY <2>4, <2>5
  <1> QED
    BY <1>2, <1>3, <1>4, <1>5, SearchesGrow, CandidatesGrow, ModelMaps, DeterministicMaps
       DEF DiscoveryMoves

\* What an area maps to a criterion was found by a search for it.
LEMMA AreasAreFound ==
    ASSUME IInv, SearchesFollow, MapFollows, NEW c \in Criteria, NEW p,
           c \in DOMAIN discovery.areas, p \in discovery.areas[c].paths
    PROVE  p \in Found(c)
  <1>1. discovery \in DiscoveryStates
    BY DEF IInv, DiscoveryFollows
  <1>2. p \in Paths
    <2>1. PICK C \in SUBSET Criteria :
            discovery.areas \in [C -> [paths : SUBSET Paths, evidence : SUBSET Paths]]
      BY <1>1 DEF DiscoveryStates, PartialMaps
    <2> QED
      BY <2>1
  <1>3. c \in discovery.covers[p]
    BY DEF MapFollows
  <1>4. PICK s \in DOMAIN discovery.searched : s[1] = c /\ p \in discovery.searched[s]
    BY <1>2, <1>3 DEF SearchesFollow
  <1>5. DOMAIN discovery.searched \subseteq Searches
    BY <1>1 DEF DiscoveryStates, PartialSearches
  <1>6. s \in {c} \X Terms
    BY <1>4, <1>5 DEF Searches
  <1> QED
    BY <1>4, <1>6 DEF Found

\* The changes of a plan that is valid were found, and read to their end.
LEMMA ValidPlansAreGrounded ==
    ASSUME IInv, SearchesFollow, MapFollows, NEW targets \in [Targets -> PlannedTarget],
           ChangesAreValid(targets)
    PROVE  PlanIsGrounded(targets)
  <1>1. \A t \in Targets : targets[t].criteria \subseteq Criteria
    BY DEF PlannedTarget
  <1>2. ASSUME NEW c \in Criteria
        PROVE  \E t \in DOMAIN targets :
                 c \in targets[t].criteria /\ targets[t].evidence \cap Found(c) # {}
    <2>1. PICK t \in DOMAIN targets : c \in targets[t].criteria
      BY DEF ChangesAreValid
    <2>2. PICK e \in targets[t].evidence : Admits(c, e)
      BY <2>1 DEF ChangesAreValid, TargetIsValid, CriterionIsGrounded
    <2>3. e \in Found(c)
      BY <2>2, AreasAreFound DEF Admits, MapFollows
    <2> QED
      BY <2>1, <2>2, <2>3
  <1>3. ASSUME NEW t \in DOMAIN targets, targets[t].operation = "Modify"
        PROVE  /\ targets[t].path \in discovery.whole
               /\ \E c \in targets[t].criteria : targets[t].path \in Found(c)
    <2>1. targets[t].path \in discovery.whole
      BY <1>3 DEF ChangesAreValid, TargetIsValid, FitsFile
    <2>2. PICK c \in targets[t].criteria : CriterionIsGrounded(c, targets[t])
      BY DEF ChangesAreValid, TargetIsValid
    <2>3. /\ c \in DOMAIN discovery.areas
          /\ targets[t].path \in discovery.areas[c].paths
      BY <1>3, <2>2 DEF CriterionIsGrounded, Admits
    <2>4. targets[t].path \in Found(c)
      BY <1>1, <2>3, AreasAreFound
    <2> QED
      BY <2>1, <2>4
  <1> QED
    BY <1>2, <1>3 DEF PlanIsGrounded

LEMMA NextPlanFollows ==
    ASSUME IInv, GroundingFollows, Moves
    PROVE  PlanFollows'
  <1>1. Present(Planned) # {} => PlanAccepted
    BY DEF GroundingFollows, PlanFollows
  <1>2. Planned \subseteq NodeIds
    BY NodeKinds DEF Planned, Final
  <1>3. CASE DiscoveryMoves
    <2>1. planning' = planning /\ node' = node /\ PlanningInit
      BY <1>3, DiscoveryMovesKeep DEF DiscoveryMoves, NodesKept, IInv, StagesAreBound,
         PlanningIsBound
    <2>2. planning'.plan = <<>> /\ Present(Planned)' = {}
      BY <1>1, <2>1 DEF PlanningInit, PlanAccepted, Present
    <2> QED
      BY <2>2 DEF PlanFollows
  <1>4. CASE PlanningMoves
    <2>1. discovery' = discovery /\ Present(Planned)' = {}
      BY <1>1, <1>4, PlanningMovesKeep, PlanningStepTypes DEF PlanningMoves, NodesKept, Present
    <2>2. planning'.plan = planning.plan \/ PlanIsGrounded(planning'.plan)
      <3>1. planning \in PlanningStates
        BY DEF IInv, PlanningFollows
      <3>2. CASE CandidateRecorded
        <4>1. PICK p \in Proposals :
                planning' = [planning EXCEPT
                  !.latest = Validated(p),
                  !.plan = IF Validated(p) = "Accepted" THEN p.targets ELSE @]
          BY <3>2 DEF CandidateRecorded
        <4>2. planning'.plan = IF Validated(p) = "Accepted" THEN p.targets ELSE planning.plan
          BY <3>1, <4>1 DEF PlanningStates
        <4>3. ASSUME Validated(p) = "Accepted"
              PROVE  PlanIsGrounded(p.targets)
          <5>1. ChangesAreValid(p.targets)
            BY <4>3, PlanAssumption DEF Decisions, Validated
          <5> QED
            BY <4>3, <5>1, AcceptedPlans, ValidPlansAreGrounded DEF GroundingFollows
        <4> QED
          BY <4>2, <4>3
      <3>3. CASE PlanningConverges
        BY <3>1, <3>3 DEF PlanningConverges, PlanningStates
      <3>4. CASE PlanningPrepares \/ PlanningRejects \/ PlanningReleases
        BY <3>4 DEF PlanningPrepares, PlanningRejects, PlanningReleases
      <3> QED
        BY <1>4, <3>2, <3>3, <3>4 DEF PlanningMoves
    <2> QED
      BY <2>1, <2>2 DEF GroundingFollows, PlanFollows, PlanIsGrounded, Found
  <1>5. CASE discovery' = discovery /\ planning' = planning
    <2>1. Present(Planned)' # {} => Present(Planned) # {} \/ AddsPlan
      <3>1. ASSUME NEW n \in Planned, node'[n] # "Absent", node[n] = "Absent"
            PROVE  AddsPlan
        BY <1>2, <3>1, NodeEffects, NodeKinds DEF Effects, Planned, Final
      <3> QED
        BY <3>1 DEF Present
    <2>2. Present(Planned)' # {} => PlanAccepted'
      BY <1>1, <1>5, <2>1 DEF AddsPlan, PlanAccepted
    <2>3. planning'.plan # <<>> => PlanIsGrounded(planning.plan)'
      BY <1>5 DEF GroundingFollows, PlanFollows, PlanIsGrounded, Found
    <2> QED
      BY <2>2, <2>3 DEF PlanFollows
  <1>6. PlanningMoves => discovery' = discovery
    BY DEF PlanningMoves
  <1> QED
    BY <1>3, <1>4, <1>5, <1>6, StateEffects

LEMMA InitGrounding ==
    ASSUME Init
    PROVE  GroundingFollows
  <1>1. DiscoveryInit /\ PlanningInit /\ GraphInit
    BY DEF Init
  <1>2. DOMAIN discovery.areas = {}
    BY <1>1 DEF DiscoveryInit
  <1>3. ~MapComplete
    BY <1>2, DiscoveryAssumption DEF MapComplete
  <1>4. SearchesFollow
    BY <1>1 DEF SearchesFollow, DiscoveryInit, NoAction
  <1>5. discovery.action.class = "None" /\ discovery.convergence = "None"
    BY <1>1 DEF DiscoveryInit, NoAction
  <1>6. MapFollows
    BY <1>2, <1>3, <1>5 DEF MapFollows
  <1>7. Present(Planned) = {}
    BY <1>1, NodeKinds DEF GraphInit, Present, Planned, Final
  <1>8. PlanFollows
    BY <1>1, <1>7 DEF PlanFollows, PlanningInit
  <1> QED
    BY <1>4, <1>6, <1>8 DEF GroundingFollows

LEMMA GroundedRests ==
    ASSUME IInv, GroundingFollows
    PROVE  PlanRestsOnEvidence
  <1>1. stage \in {"Planning", "Implementation"} =>
          Covered(discovery.grounded) = Criteria /\ discovery.questions = {}
    BY DEF IInv, StagesAreBound, DiscoveryIsBound, BeforePlanning, GroundingFollows,
           MapFollows, EvidenceSuffices
  <1>2. Present(Planned) # {} => DOMAIN planning.plan = Targets
    BY DEF IInv, PlanningFollows, GroundingFollows, PlanFollows
  <1>3. planning.plan # <<>> => PlanIsGrounded(planning.plan)
    BY DEF GroundingFollows, PlanFollows
  <1>4. planning.plan = <<>> => DOMAIN planning.plan = {}
    OBVIOUS
  <1> QED
    BY <1>1, <1>2, <1>3, <1>4 DEF PlanRestsOnEvidence, PlanIsGrounded

\* A plan is asked for and implemented only on evidence that covers the criteria
\* and leaves no question open; what it changes was found by a search for a
\* criterion it serves and was read to its end (evaluate_discovery_convergence,
\* validate_plan_candidate).
THEOREM PlansRestOnEvidence == Spec => []PlanRestsOnEvidence
  <1>1. Init => GroundingFollows
    BY InitGrounding
  <1>2. IInv /\ GroundingFollows /\ [Next]_vars => GroundingFollows'
    <2> SUFFICES ASSUME IInv, GroundingFollows, [Next]_vars
                 PROVE  GroundingFollows'
      OBVIOUS
    <2>1. Moves
      BY Steps
    <2>2. PlanFollows'
      BY <2>1, NextPlanFollows
    <2>3. CASE DiscoveryMoves
      BY <2>2, <2>3, NextGrounding DEF GroundingFollows
    <2>4. CASE discovery' = discovery
      <3>1. /\ discovery'.searched = discovery.searched
            /\ discovery'.covers = discovery.covers
            /\ discovery'.grounded = discovery.grounded
            /\ discovery'.questions = discovery.questions
            /\ discovery'.areas = discovery.areas
            /\ discovery'.action = discovery.action
            /\ discovery'.convergence = discovery.convergence
        BY <2>4
      <3>2. SearchesFollow'
        BY <3>1, SameSearches DEF GroundingFollows, SearchesFollow
      <3>3. MapFollows'
        BY <3>1, SameMap DEF GroundingFollows, MapFollows
      <3> QED
        BY <2>2, <3>2, <3>3 DEF GroundingFollows
    <2> QED
      BY <2>1, <2>3, <2>4, StateEffects
  <1>3. IInv /\ GroundingFollows => PlanRestsOnEvidence
    BY GroundedRests
  <1> QED
    BY <1>1, <1>2, <1>3, Invariant, PTL DEF Spec

-----------------------------------------------------------------------------
(* Sums over the model nodes.                                                *)

LEMMA LeastNumber ==
    ASSUME NEW T \in SUBSET Nat, T # {}
    PROVE  \E n \in T : \A m \in T : n <= m
  <1>1. PICK n \in T : \A m \in T : <<m, n>> \notin OpToRel(<, Nat)
    BY WFMin, NatLessThanWellFounded
  <1>2. \A m \in T : <<m, n>> \in Nat \X Nat
    OBVIOUS
  <1>3. \A m \in T : ~(m < n)
    BY <1>1, <1>2 DEF OpToRel
  <1> QED
    BY <1>3

Pick(s) == CHOOSE x \in s : TRUE

LEMMA PickIn ==
    ASSUME NEW s, s # {}
    PROVE  Pick(s) \in s
  BY Zenon DEF Pick

\* What holds of the empty set, and of a set when it holds of the rest of it,
\* holds of every subset.
LEMMA SubsetInduction ==
    ASSUME NEW S, IsFiniteSet(S), NEW G \in SUBSET (SUBSET S), {} \in G,
           \A s \in SUBSET S : s # {} /\ s \ {Pick(s)} \in G => s \in G
    PROVE  G = SUBSET S
  <1> DEFINE T == {Cardinality(s) : s \in (SUBSET S) \ G}
  <1>1. \A s \in SUBSET S : IsFiniteSet(s) /\ Cardinality(s) \in Nat
    BY FS_Subset, FS_CardinalityType
  <1>2. SUFFICES ASSUME (SUBSET S) \ G # {}
                 PROVE  FALSE
    OBVIOUS
  <1>3. T \in SUBSET Nat /\ T # {}
    BY <1>1, <1>2
  <1>4. PICK k \in T : \A m \in T : k <= m
    <2> HIDE DEF T
    <2> QED
      BY <1>3, LeastNumber
  <1>5. PICK s \in (SUBSET S) \ G : Cardinality(s) = k
    BY <1>4
  <1>6. s # {} /\ Pick(s) \in s
    BY <1>5, PickIn
  <1>7. s \ {Pick(s)} \in SUBSET S /\ Cardinality(s \ {Pick(s)}) = k - 1 /\ k \in Nat
    BY <1>1, <1>5, <1>6, FS_RemoveElement
  <1>8. s \ {Pick(s)} \notin G
    BY <1>5, <1>6
  <1>9. k - 1 \in T
    BY <1>7, <1>8
  <1> QED
    BY <1>4, <1>7, <1>9

\* h sums the field f of the records u over every set of model nodes.
Summing(u, f, h) ==
    h = [s \in SUBSET ModelNodes |->
           IF s = {} THEN 0 ELSE u[Pick(s)][f] + h[s \ {Pick(s)}]]

SumOf(u, f) == MapThenSumSet(LAMBDA n : u[n][f], ModelNodes)

UpTo(k) == {s \in SUBSET ModelNodes : Cardinality(s) <= k}

SummingTo(u, f, h, k) ==
    h = [s \in UpTo(k) |-> IF s = {} THEN 0 ELSE u[Pick(s)][f] + h[s \ {Pick(s)}]]

LEMMA FiniteModelNodes == IsFiniteSet(ModelNodes)
  <1>1. IsFiniteSet({"Discovery", "Planning", "Review", "CompletionEvaluation"})
    <2>1. {"Discovery", "Planning", "Review", "CompletionEvaluation"}
            = {"Discovery"} \cup {"Planning"} \cup {"Review"} \cup {"CompletionEvaluation"}
      OBVIOUS
    <2>2. IsFiniteSet({"Discovery"}) /\ IsFiniteSet({"Planning"})
          /\ IsFiniteSet({"Review"}) /\ IsFiniteSet({"CompletionEvaluation"})
      BY FS_Singleton
    <2>3. IsFiniteSet({"Discovery"} \cup {"Planning"})
      BY <2>2, FS_Union
    <2>4. IsFiniteSet({"Discovery"} \cup {"Planning"} \cup {"Review"})
      BY <2>2, <2>3, FS_Union
    <2>5. IsFiniteSet({"Discovery"} \cup {"Planning"} \cup {"Review"}
                        \cup {"CompletionEvaluation"})
      BY <2>2, <2>4, FS_Union
    <2> QED
      BY <2>1, <2>5
  <1> QED
    BY <1>1, GraphAssumption, FS_Union DEF ModelNodes

LEMMA SummingExists ==
    ASSUME NEW u, NEW f
    PROVE  \E h : Summing(u, f, h)
  <1> DEFINE T == {k \in Nat : ~ \E h : SummingTo(u, f, h, k)}
  <1>1. \A s \in SUBSET ModelNodes : IsFiniteSet(s) /\ Cardinality(s) \in Nat
    BY FiniteModelNodes, FS_Subset, FS_CardinalityType
  <1>2. T = {}
    <2> SUFFICES ASSUME T # {}
                 PROVE  FALSE
      OBVIOUS
    <2>1. PICK k \in T : \A m \in T : k <= m
      <3>1. T \in SUBSET Nat
        OBVIOUS
      <3> HIDE DEF T
      <3> QED
        BY <3>1, LeastNumber
    <2>2. k \in Nat /\ ~ \E h : SummingTo(u, f, h, k)
      OBVIOUS
    <2>3. CASE k = 0
      <3> DEFINE g == [s \in UpTo(0) |-> 0]
      <3>1. \A s \in UpTo(0) : s = {}
        BY <1>1, FS_EmptySet DEF UpTo
      <3>2. SummingTo(u, f, g, 0)
        BY <3>1 DEF SummingTo
      <3> QED
        BY <2>2, <2>3, <3>2
    <2>4. CASE k # 0
      <3>1. k - 1 \in Nat /\ k - 1 \notin T
        BY <2>1, <2>2, <2>4
      <3>2. PICK h : SummingTo(u, f, h, k - 1)
        BY <3>1
      <3> DEFINE g == [s \in UpTo(k) |->
                         IF s = {} THEN 0 ELSE u[Pick(s)][f] + h[s \ {Pick(s)}]]
      <3>3. ASSUME NEW s \in UpTo(k), s # {}
            PROVE  s \ {Pick(s)} \in UpTo(k - 1) /\ s \ {Pick(s)} \in UpTo(k)
        <4>1. Pick(s) \in s /\ s \in SUBSET ModelNodes /\ Cardinality(s) <= k
          BY <3>3, PickIn DEF UpTo
        <4>2. Cardinality(s \ {Pick(s)}) = Cardinality(s) - 1
          BY <1>1, <4>1, FS_RemoveElement
        <4> QED
          BY <1>1, <2>2, <4>1, <4>2 DEF UpTo
      <3>4. \A t \in UpTo(k - 1) :
              h[t] = IF t = {} THEN 0 ELSE u[Pick(t)][f] + h[t \ {Pick(t)}]
        BY <3>2, Zenon DEF SummingTo
      <3>5. \A t \in UpTo(k) : t \in UpTo(k - 1) => g[t] = h[t]
        BY <3>4
      <3>6. \A s \in UpTo(k) :
              g[s] = IF s = {} THEN 0 ELSE u[Pick(s)][f] + g[s \ {Pick(s)}]
        BY <3>3, <3>5
      <3>7. g = [s \in UpTo(k) |-> g[s]]
        OBVIOUS
      <3> HIDE DEF g
      <3>8. g = [s \in UpTo(k) |-> IF s = {} THEN 0 ELSE u[Pick(s)][f] + g[s \ {Pick(s)}]]
        BY <3>6, <3>7
      <3> QED
        BY <2>2, <3>8 DEF SummingTo
    <2> QED
      BY <2>3, <2>4
  <1>3. UpTo(Cardinality(ModelNodes)) = SUBSET ModelNodes
    BY FiniteModelNodes, FS_Subset DEF UpTo
  <1>4. Cardinality(ModelNodes) \in Nat
    BY FiniteModelNodes, FS_CardinalityType
  <1>5. PICK h : SummingTo(u, f, h, Cardinality(ModelNodes))
    BY <1>2, <1>4
  <1>6. Summing(u, f, h)
    BY <1>3, <1>5, Zenon DEF SummingTo, Summing
  <1> QED
    BY <1>6

SumsUp(u, f, h) ==
    /\ SumOf(u, f) = h[ModelNodes]
    /\ h[{}] = 0
    /\ \A s \in SUBSET ModelNodes : s # {} =>
         h[s] = u[Pick(s)][f] + h[s \ {Pick(s)}]

LEMMA SumIsSumming ==
    ASSUME NEW u, NEW f
    PROVE  \E h : SumsUp(u, f, h)
  <1>1. SumOf(u, f) = (CHOOSE h : Summing(u, f, h))[ModelNodes]
    BY Zenon DEF SumOf, MapThenSumSet, MapThenFoldSet, Summing, Pick
  <1>2. PICK h : Summing(u, f, h) /\ SumOf(u, f) = h[ModelNodes]
    BY <1>1, SummingExists, Zenon
  <1>3. \A s \in SUBSET ModelNodes :
          h[s] = IF s = {} THEN 0 ELSE u[Pick(s)][f] + h[s \ {Pick(s)}]
    BY <1>2, Zenon DEF Summing
  <1>4. SumsUp(u, f, h)
    BY <1>2, <1>3 DEF SumsUp
  <1> QED
    BY <1>4

\* Records that are zero in a field sum up to zero.
LEMMA SumOfZeros ==
    ASSUME NEW u, NEW f, \A n \in ModelNodes : u[n][f] = 0
    PROVE  SumOf(u, f) = 0
  <1>1. PICK h : SumsUp(u, f, h)
    BY SumIsSumming
  <1> USE DEF SumsUp
  <1> DEFINE G == {s \in SUBSET ModelNodes : h[s] = 0}
  <1>2. {} \in G
    BY <1>1
  <1>3. ASSUME NEW s \in SUBSET ModelNodes, s # {}, s \ {Pick(s)} \in G
        PROVE  s \in G
    <2>1. u[Pick(s)][f] = 0
      BY <1>3, PickIn
    <2> QED
      BY <1>1, <1>3, <2>1
  <1>4. G \in SUBSET (SUBSET ModelNodes)
    OBVIOUS
  <1>5. G = SUBSET ModelNodes
    <2> HIDE DEF G
    <2> QED
      BY <1>2, <1>3, <1>4, FiniteModelNodes, SubsetInduction
  <1> QED
    BY <1>1, <1>5

\* What is added to one model node's field is added to the sum.
LEMMA SumShifts ==
    ASSUME NEW u, NEW v, NEW f, NEW d \in Int, NEW m \in ModelNodes,
           \A n \in ModelNodes : u[n][f] \in Int,
           \A n \in ModelNodes \ {m} : v[n][f] = u[n][f],
           v[m][f] = u[m][f] + d
    PROVE  SumOf(v, f) = SumOf(u, f) + d
  <1>1. PICK h : SumsUp(u, f, h)
    BY SumIsSumming
  <1>2. PICK g : SumsUp(v, f, g)
    BY SumIsSumming
  <1> USE DEF SumsUp
  <1> DEFINE G == {s \in SUBSET ModelNodes :
                     h[s] \in Int /\ g[s] = h[s] + (IF m \in s THEN d ELSE 0)}
  <1>3. {} \in G
    BY <1>1, <1>2
  <1>4. ASSUME NEW s \in SUBSET ModelNodes, s # {}, s \ {Pick(s)} \in G
        PROVE  s \in G
    <2>1. Pick(s) \in s /\ Pick(s) \in ModelNodes /\ u[Pick(s)][f] \in Int
      BY <1>4, PickIn
    <2> DEFINE r == s \ {Pick(s)}
    <2>2. h[s] = u[Pick(s)][f] + h[r] /\ g[s] = v[Pick(s)][f] + g[r]
      BY <1>1, <1>2, <1>4
    <2>3. h[r] \in Int /\ g[r] = h[r] + (IF m \in r THEN d ELSE 0)
      BY <1>4
    <2>4. CASE Pick(s) = m
      <3>1. m \in s /\ m \notin r /\ v[Pick(s)][f] = u[Pick(s)][f] + d
        BY <2>1, <2>4
      <3> HIDE DEF r
      <3>2. h[s] \in Int /\ g[s] = h[s] + d
        BY <2>1, <2>2, <2>3, <3>1
      <3> QED
        BY <3>1, <3>2
    <2>5. CASE Pick(s) # m
      <3>1. (m \in s <=> m \in r) /\ v[Pick(s)][f] = u[Pick(s)][f]
        BY <2>1, <2>5
      <3> HIDE DEF r
      <3>2. h[s] \in Int /\ g[s] = h[s] + (IF m \in r THEN d ELSE 0)
        BY <2>1, <2>2, <2>3, <3>1
      <3> QED
        BY <3>1, <3>2
    <2> QED
      BY <2>4, <2>5
  <1>5. G \in SUBSET (SUBSET ModelNodes)
    OBVIOUS
  <1>6. G = SUBSET ModelNodes
    <2> HIDE DEF G
    <2> QED
      BY <1>3, <1>4, <1>5, FiniteModelNodes, SubsetInduction
  <1> QED
    BY <1>1, <1>2, <1>6

-----------------------------------------------------------------------------
(* What the mission is charged with.                                         *)

Fields == {"calls", "held", "cost", "heldCost"}

MissionIsSum == \A f \in Fields : usage["Mission"][f] = Total(f)

\* The records of the node n and of the mission change by the same amounts d.
BothChange(n, d) ==
    /\ \A o \in {n, "Mission"}, f \in Fields : usage'[o][f] = usage[o][f] + d[f]
    /\ \A o \in ModelNodes \ {n} : usage'[o] = usage[o]

LEMMA TotalIsSum ==
    ASSUME NEW f
    PROVE  Total(f) = SumOf(usage, f) /\ Total(f)' = SumOf(usage', f)
  <1>1. Total(f) = SumOf(usage, f)
    BY Zenon DEF Total, SumOf
  <1>2. Total(f)' = SumOf(usage', f)
    BY Zenon DEF Total, SumOf, MapThenSumSet, MapThenFoldSet
  <1> QED
    BY <1>1, <1>2

\* What holding, freeing and counting a call add to each field of a record.
LEMMA HoldingAdds ==
    ASSUME NEW u \in Accounts, call.cost \in Nat
    PROVE  \A f \in Fields :
             Holding(u)[f] = u[f] + [calls |-> 0, held |-> 1,
                                     cost |-> 0, heldCost |-> call.cost][f]
  <1>1. /\ Holding(u).calls = u.calls /\ Holding(u).held = u.held + 1
        /\ Holding(u).cost = u.cost /\ Holding(u).heldCost = u.heldCost + call.cost
    BY DEF Accounts, Holding
  <1>2. u.calls \in Nat /\ u.held \in Nat /\ u.cost \in Nat /\ u.heldCost \in Nat
    BY DEF Accounts
  <1> QED
    BY <1>1, <1>2 DEF Fields

LEMMA FreeingAdds ==
    ASSUME NEW u \in Accounts, call.cost \in Nat
    PROVE  /\ \A f \in Fields :
                Freeing(u)[f] = u[f] + [calls |-> 0, held |-> -1,
                                        cost |-> 0, heldCost |-> -call.cost][f]
           /\ \A cost \in Nat, f \in Fields :
                Counted(Freeing(u), cost)[f]
                  = u[f] + [calls |-> 1, held |-> -1,
                            cost |-> cost, heldCost |-> -call.cost][f]
  <1> DEFINE w == Freeing(u)
  <1>1. u.calls \in Nat /\ u.held \in Nat /\ u.cost \in Nat /\ u.heldCost \in Nat
    BY DEF Accounts
  <1>2. /\ w.calls = u.calls /\ w.held = u.held - 1
        /\ w.cost = u.cost /\ w.heldCost = u.heldCost - call.cost
    BY DEF Accounts, Freeing
  <1>3. w \in [calls : Int, held : Int, cost : Int, heldCost : Int]
    <2>1. u.held - 1 \in Int /\ u.heldCost - call.cost \in Int
      BY <1>1
    <2>2. u \in [calls : Int, held : Int, cost : Int, heldCost : Int]
      BY DEF Accounts
    <2> QED
      BY <2>1, <2>2 DEF Freeing
  <1> HIDE DEF w
  <1>4. ASSUME NEW cost \in Nat
        PROVE  /\ Counted(w, cost).calls = w.calls + 1 /\ Counted(w, cost).held = w.held
               /\ Counted(w, cost).cost = w.cost + cost
               /\ Counted(w, cost).heldCost = w.heldCost
    BY <1>3 DEF Counted
  <1>5. \A f \in Fields : w[f] = u[f] + [calls |-> 0, held |-> -1,
                                         cost |-> 0, heldCost |-> -call.cost][f]
    BY <1>1, <1>2 DEF Fields
  <1>6. ASSUME NEW cost \in Nat, NEW f \in Fields
        PROVE  Counted(w, cost)[f] = u[f] + [calls |-> 1, held |-> -1,
                                             cost |-> cost, heldCost |-> -call.cost][f]
    BY <1>1, <1>2, <1>4 DEF Fields
  <1> QED
    BY <1>5, <1>6 DEF w

Amounts == [calls : Int, held : Int, cost : Int, heldCost : Int]

\* A step leaves all records alone or changes a node's and the mission's alike.
LEMMA UsageEffects ==
    ASSUME IInv, CallChanges
    PROVE  \/ usage' = usage
           \/ \E n \in ModelNodes, d \in Amounts : BothChange(n, d)
  <1>1. /\ usage \in [Owners -> Accounts] /\ call \in OpenCalls
        /\ call.state # "None" => call.node \in ModelNodes
    BY DEF IInv, GraphFollows, CallFollows, GraphTypeOK, Accounts, OpenCalls
  <1>2. Owners = ModelNodes \cup {"Mission"} /\ "Mission" \notin ModelNodes
    BY NodeKinds DEF Owners, NodeIds
  <1>3. call.cost \in Nat
    BY <1>1 DEF OpenCalls
  <1>4. ASSUME NEW w, NEW d \in Amounts, usage' = Charged(call.node, w), call.state # "None",
               \A o \in {call.node, "Mission"}, f \in Fields : w[o][f] = usage[o][f] + d[f]
        PROVE  \E n \in ModelNodes, c \in Amounts : BothChange(n, c)
    <2>1. \A o \in Owners :
            usage'[o] = IF o \in {call.node, "Mission"} THEN w[o] ELSE usage[o]
      BY <1>4 DEF Charged
    <2>2. call.node \in ModelNodes
      BY <1>1, <1>4
    <2>3. BothChange(call.node, d)
      BY <1>2, <1>4, <2>1, <2>2 DEF BothChange
    <2> QED
      BY <2>2, <2>3
  <1>5. call.state # "None" => {call.node, "Mission"} \subseteq Owners
    BY <1>1, <1>2
  <1>6. CASE UNCHANGED <<call, usage>> \/ (\E n \in ModelNodes : Prepare(n))
             \/ (Clear /\ call.state \in {"Consumed", "Released"} /\ UNCHANGED usage)
             \/ Admit \/ Dispatch
    BY <1>6 DEF Prepare, Admit, Dispatch
  <1>7. CASE Reserve
    <2> DEFINE w == [o \in Owners |-> Holding(usage[o])]
    <2>1. call.state # "None" /\ usage' = Charged(call.node, w)
      BY <1>7 DEF Reserve
    <2>2. \A o \in {call.node, "Mission"} : w[o] = Holding(usage[o]) /\ usage[o] \in Accounts
      BY <1>1, <1>5, <2>1
    <2> HIDE DEF w
    <2> DEFINE d == [calls |-> 0, held |-> 1, cost |-> 0, heldCost |-> call.cost]
    <2>3. d \in Amounts
      BY <1>3 DEF Amounts
    <2>4. \A o \in {call.node, "Mission"}, f \in Fields : w[o][f] = usage[o][f] + d[f]
      BY <1>3, <2>2, HoldingAdds
    <2> HIDE DEF d
    <2> QED
      BY <1>4, <2>1, <2>3, <2>4
  <1>8. CASE Release
    <2> DEFINE w == [o \in Owners |-> Freeing(usage[o])]
    <2>1. call.state # "None" /\ usage' = Charged(call.node, w)
      BY <1>8 DEF Release
    <2>2. \A o \in {call.node, "Mission"} : w[o] = Freeing(usage[o]) /\ usage[o] \in Accounts
      BY <1>1, <1>5, <2>1
    <2> HIDE DEF w
    <2> DEFINE d == [calls |-> 0, held |-> -1, cost |-> 0, heldCost |-> -call.cost]
    <2>3. d \in Amounts
      BY <1>3 DEF Amounts
    <2>4. \A o \in {call.node, "Mission"}, f \in Fields : w[o][f] = usage[o][f] + d[f]
      BY <1>3, <2>2, FreeingAdds
    <2> HIDE DEF d
    <2> QED
      BY <1>4, <2>1, <2>3, <2>4
  <1>9. ASSUME NEW cost \in CallCosts, Consume(cost)
        PROVE  \E n \in ModelNodes, c \in Amounts : BothChange(n, c)
    <2> DEFINE w == [o \in Owners |->
                       [Freeing(usage[o]) EXCEPT !.calls = @ + 1, !.cost = @ + cost]]
    <2>1. call.state # "None" /\ usage' = Charged(call.node, w)
      BY <1>9 DEF Consume
    <2>2. \A o \in {call.node, "Mission"} :
            w[o] = Counted(Freeing(usage[o]), cost) /\ usage[o] \in Accounts
      BY <1>1, <1>5, <2>1 DEF Counted
    <2> HIDE DEF w
    <2>3. cost \in Nat
      BY GraphAssumption
    <2> DEFINE d == [calls |-> 1, held |-> -1, cost |-> cost, heldCost |-> -call.cost]
    <2>4. d \in Amounts
      BY <1>3, <2>3 DEF Amounts
    <2>5. \A o \in {call.node, "Mission"}, f \in Fields : w[o][f] = usage[o][f] + d[f]
      BY <1>3, <2>2, <2>3, FreeingAdds
    <2> HIDE DEF d
    <2> QED
      BY <1>4, <2>1, <2>4, <2>5
  <1> QED
    BY <1>6, <1>7, <1>8, <1>9 DEF CallChanges, CallLifecycle

LEMMA NextMissionIsSum ==
    ASSUME IInv, MissionIsSum, CallChanges
    PROVE  MissionIsSum'
  <1>1. usage \in [Owners -> Accounts]
    BY DEF IInv, GraphTypeOK, Accounts
  <1>2. Owners = ModelNodes \cup {"Mission"} /\ "Mission" \notin ModelNodes
    BY NodeKinds DEF Owners, NodeIds
  <1>3. \A o \in Owners, f \in Fields : usage[o][f] \in Int
    <2>1. \A o \in Owners : usage[o] \in Accounts
      BY <1>1
    <2>2. \A u \in Accounts, f \in Fields : u[f] \in Int
      BY DEF Accounts, Fields
    <2> QED
      BY <2>1, <2>2
  <1>4. \A f \in Fields : usage["Mission"][f] = SumOf(usage, f)
    BY TotalIsSum DEF MissionIsSum
  <1>5. CASE usage' = usage
    BY <1>4, <1>5, TotalIsSum DEF MissionIsSum
  <1>6. ASSUME NEW n \in ModelNodes, NEW d \in Amounts, BothChange(n, d)
        PROVE  MissionIsSum'
    <2> SUFFICES ASSUME NEW f \in Fields
                 PROVE  usage'["Mission"][f] = SumOf(usage', f)
      BY TotalIsSum DEF MissionIsSum
    <2>1. d[f] \in Int
      BY DEF Amounts, Fields
    <2>2. usage'["Mission"][f] = usage["Mission"][f] + d[f]
      BY <1>6 DEF BothChange
    <2>3. usage'[n][f] = usage[n][f] + d[f]
      BY <1>6 DEF BothChange
    <2>4. \A m \in ModelNodes \ {n} : usage'[m][f] = usage[m][f]
      BY <1>6 DEF BothChange
    <2>5. \A m \in ModelNodes : usage[m][f] \in Int
      BY <1>2, <1>3
    <2>6. SumOf(usage', f) = SumOf(usage, f) + d[f]
      BY <2>1, <2>3, <2>4, <2>5, SumShifts
    <2> QED
      BY <1>4, <2>2, <2>6
  <1> QED
    BY <1>5, <1>6, UsageEffects

LEMMA InitMissionIsSum ==
    ASSUME Init
    PROVE  MissionIsSum
  <1>1. usage = [o \in Owners |-> Unused]
    BY DEF Init, GraphInit
  <1>2. ModelNodes \subseteq Owners /\ "Mission" \in Owners
    BY DEF Owners
  <1>3. \A f \in Fields : Unused[f] = 0
    BY DEF Fields, Unused
  <1>4. \A f \in Fields : \A n \in ModelNodes : usage[n][f] = 0
    BY <1>1, <1>2, <1>3
  <1>5. \A f \in Fields : SumOf(usage, f) = 0
    BY <1>4, SumOfZeros
  <1>6. \A f \in Fields : usage["Mission"][f] = 0
    BY <1>1, <1>2, <1>3
  <1> QED
    BY <1>5, <1>6, TotalIsSum DEF MissionIsSum

\* No order of admissions, reservations, dispatches, releases and consumptions
\* takes a node or the mission over its limits, the mission's account is the
\* sum of its nodes', and a call that is over holds nothing
\* (reserve_usage, release_usage, consume_usage in reducer.rs).
THEOREM BudgetsAreKept == Spec => []BudgetIsKept
  <1>1. Init => MissionIsSum
    BY InitMissionIsSum
  <1>2. IInv /\ MissionIsSum /\ [Next]_vars => MissionIsSum'
    BY Steps, CallEffects, NextMissionIsSum
  <1>3. IInv /\ MissionIsSum => BudgetIsKept
    <2> SUFFICES ASSUME IInv, MissionIsSum
                 PROVE  BudgetIsKept
      OBVIOUS
    <2>1. BudgetFollows /\ GraphTypeOK
      BY DEF IInv, GraphFollows
    <2>2. \A o \in Owners : Within(o, usage[o])
      BY <2>1, BudgetMeans
    <2>3. /\ usage["Mission"].held
               = IF call.state \in {"Reserved", "Dispatched"} THEN 1 ELSE 0
          /\ usage["Mission"].heldCost
               = IF call.state \in {"Reserved", "Dispatched"} THEN call.cost ELSE 0
      BY <2>1 DEF BudgetFollows
    <2> QED
      BY <2>2, <2>3 DEF BudgetIsKept, MissionIsSum, Within, Fields
  <1> QED
    BY <1>1, <1>2, <1>3, Invariant, PTL DEF Spec

-----------------------------------------------------------------------------
(* Targets that wait for each other.                                         *)

\* The targets that can be ordered, as Orderable finds them, up to n rounds.
OrderingTo(targets, h, n) ==
    h = [i \in 0 .. n |->
           IF i = 0 THEN {}
           ELSE {t \in DOMAIN targets : targets[t].after \subseteq h[i - 1]}]

LEMMA OrderingExists ==
    ASSUME NEW targets, NEW n \in Nat
    PROVE  \E h : OrderingTo(targets, h, n)
  <1> DEFINE T == {k \in Nat : ~ \E h : OrderingTo(targets, h, k)}
  <1>1. SUFFICES ASSUME T # {}
                 PROVE  FALSE
    OBVIOUS
  <1>2. PICK k \in T : \A m \in T : k <= m
    <2>1. T \in SUBSET Nat
      OBVIOUS
    <2> HIDE DEF T
    <2> QED
      BY <1>1, <2>1, LeastNumber
  <1>3. k \in Nat /\ ~ \E h : OrderingTo(targets, h, k)
    OBVIOUS
  <1>4. CASE k = 0
    <2> DEFINE g == [i \in 0 .. 0 |-> {}]
    <2>1. \A i \in 0 .. 0 : i = 0
      OBVIOUS
    <2>2. OrderingTo(targets, g, 0)
      BY <2>1 DEF OrderingTo
    <2> QED
      BY <1>3, <1>4, <2>2
  <1>5. CASE k # 0
    <2>1. k - 1 \in Nat /\ k - 1 \notin T
      BY <1>2, <1>3, <1>5
    <2>2. PICK h : OrderingTo(targets, h, k - 1)
      BY <2>1
    <2> DEFINE g == [i \in 0 .. k |->
                       IF i = 0 THEN {}
                       ELSE {t \in DOMAIN targets : targets[t].after \subseteq h[i - 1]}]
    <2>3. \A i \in 0 .. k - 1 :
            h[i] = IF i = 0 THEN {}
                   ELSE {t \in DOMAIN targets : targets[t].after \subseteq h[i - 1]}
      BY <2>2, Zenon DEF OrderingTo
    <2>4. \A i \in 0 .. k : i # 0 => i - 1 \in 0 .. k - 1 /\ i - 1 \in 0 .. k
      BY <1>3
    <2>5. \A i \in 0 .. k - 1 : i \in 0 .. k
      BY <1>3
    <2>6. \A i \in 0 .. k - 1 : g[i] = h[i]
      BY <2>3, <2>5
    <2>7. \A i \in 0 .. k :
            g[i] = IF i = 0 THEN {}
                   ELSE {t \in DOMAIN targets : targets[t].after \subseteq g[i - 1]}
      BY <2>4, <2>6
    <2>8. g = [i \in 0 .. k |-> g[i]]
      OBVIOUS
    <2> HIDE DEF g
    <2>9. g = [i \in 0 .. k |->
                 IF i = 0 THEN {}
                 ELSE {t \in DOMAIN targets : targets[t].after \subseteq g[i - 1]}]
      BY <2>7, <2>8
    <2> QED
      BY <1>3, <2>9 DEF OrderingTo
  <1> QED
    BY <1>4, <1>5

\* Of the targets of a plan that can be ordered, any some have one among them
\* that waits for none of them.
LEMMA OrderableIsAcyclic ==
    ASSUME NEW targets, IsFiniteSet(DOMAIN targets),
           Orderable(targets) = DOMAIN targets,
           NEW S \in SUBSET (DOMAIN targets), S # {}
    PROVE  \E t \in S : targets[t].after \cap S = {}
  <1> DEFINE N == Cardinality(DOMAIN targets)
             h == CHOOSE f : OrderingTo(targets, f, N)
  <1>1. N \in Nat
    BY FS_CardinalityType
  <1>2. OrderingTo(targets, h, N)
    <2>1. \E f : OrderingTo(targets, f, N)
      BY <1>1, OrderingExists
    <2> QED
      BY <2>1
  <1>3. Orderable(targets) = h[N]
    BY Zenon DEF Orderable, OrderingTo
  <1> HIDE DEF h
  <1>4. \A i \in 0 .. N :
          h[i] = IF i = 0 THEN {}
                 ELSE {t \in DOMAIN targets : targets[t].after \subseteq h[i - 1]}
    BY <1>2, Zenon DEF OrderingTo
  <1> DEFINE T == {i \in 0 .. N : h[i] \cap S # {}}
  <1>5. N \in T
    BY <1>1, <1>3
  <1>6. PICK k \in T : \A m \in T : k <= m
    <2>1. T \in SUBSET Nat /\ T # {}
      BY <1>1, <1>5
    <2> HIDE DEF T
    <2> QED
      BY <2>1, LeastNumber
  <1>7. k \in 0 .. N /\ h[k] \cap S # {}
    OBVIOUS
  <1>8. k # 0
    BY <1>1, <1>4, <1>7
  <1>9. k - 1 \in 0 .. N /\ k - 1 \notin T
    BY <1>1, <1>6, <1>7, <1>8
  <1>10. h[k - 1] \cap S = {}
    BY <1>9
  <1>11. h[k] = {t \in DOMAIN targets : targets[t].after \subseteq h[k - 1]}
    BY <1>4, <1>7, <1>8
  <1> QED
    BY <1>7, <1>10, <1>11

\* No targets wait for each other.
Acyclic == \A S \in SUBSET Targets : S # {} => \E t \in S : TargetsBefore[t] \cap S = {}

\* The plan that is accepted can be ordered, and so are the nodes of its graph.
LEMMA AcceptedIsAcyclic ==
    ASSUME NEW p \in Proposals, Validated(p) = "Accepted"
    PROVE  Acyclic
  <1>1. p.decision = "Changes" /\ ChangesAreValid(p.targets)
    BY PlanAssumption DEF Decisions, Validated
  <1>2. /\ DOMAIN p.targets = Targets
        /\ \A t \in Targets : p.targets[t].after = TargetsBefore[t]
        /\ Orderable(p.targets) = DOMAIN p.targets
    BY <1>1, PlanAssumption DEF ChangesAreValid
  <1>3. IsFiniteSet(DOMAIN p.targets)
    BY <1>2, GraphAssumption
  <1> QED
    BY <1>2, <1>3, OrderableIsAcyclic DEF Acyclic

\* Acyclic speaks of constants: it holds once a plan is accepted.
PlanIsOrdered == PlanAccepted => Acyclic

LEMMA NextPlanIsOrdered ==
    ASSUME IInv, Moves, PlanIsOrdered
    PROVE  PlanIsOrdered'
  <1>1. planning \in PlanningStates
    BY DEF IInv, PlanningFollows
  <1>2. CASE CandidateRecorded
    <2>1. PICK p \in Proposals :
            planning' = [planning EXCEPT
              !.latest = Validated(p),
              !.plan = IF Validated(p) = "Accepted" THEN p.targets ELSE @]
      BY <1>2 DEF CandidateRecorded
    <2>2. PlanAccepted' => Validated(p) = "Accepted"
      BY <1>1, <2>1 DEF PlanningStates, PlanAccepted
    <2> QED
      BY <2>2, AcceptedIsAcyclic DEF PlanIsOrdered
  <1>3. CASE PlanningConverges
    <2>1. planning'.latest = planning.latest
      BY <1>1, <1>3 DEF PlanningConverges, PlanningStates
    <2> QED
      BY <2>1 DEF PlanAccepted, PlanIsOrdered
  <1>4. CASE planning' = planning
    BY <1>4 DEF PlanAccepted, PlanIsOrdered
  <1>5. PlanningPrepares \/ PlanningRejects \/ PlanningReleases => planning' = planning
    BY DEF PlanningPrepares, PlanningRejects, PlanningReleases
  <1> QED
    BY <1>2, <1>3, <1>4, <1>5, StateEffects DEF PlanningMoves

Beginning == node["Discovery"] # "Absent" /\ node["Planning"] # "Absent"

LEMMA NextBeginning ==
    ASSUME IInv, Moves, Beginning
    PROVE  Beginning'
  BY NodeEffects, NodeKinds DEF Effects, Beginning

\* What waits in its stage, waits for a node that is not done.
LEMMA WaitsForUndone ==
    ASSUME IInv, NEW n \in NodeIds, StageOf(n) = stage, node[n] = "Pending"
    PROVE  \E d \in Dependencies(n) : node[d] # "Succeeded"
  BY DEF IInv, GraphFollows, NodesFit, Eligible, Succeeded

LEMMA GraphGoesOn ==
    ASSUME IInv, PlanIsOrdered, Beginning
    PROVE  GraphCanGoOn
  <1> DEFINE own == {n \in NodeIds : StageOf(n) = stage
                                     /\ (n \in Repairs => node[n] # "Absent")}
  <1>1. SUFFICES ASSUME NoneActive, stage # "Terminal", ~Succeeded(own),
                        \A n \in own : node[n] \notin {"Ready", "FailedRecoverable",
                                                       "FailedTerminal"}
                 PROVE  FALSE
    BY DEF GraphCanGoOn
  <1> DEFINE S == {n \in own : node[n] # "Succeeded"}
  <1>2. S # {}
    BY <1>1 DEF Succeeded
  <1>3. /\ stage \notin BeforeImplementation =>
             PlanAccepted /\ \A n \in Planned : node[n] # "Absent"
        /\ stage \notin BeforeValidation => Succeeded(Targets)
        /\ stage \in {"Review", "Publication"} => Succeeded(CheckNodes)
        /\ stage = "Publication" => Succeeded({"Review", "CompletionEvaluation"})
    <2>1. stage \notin BeforeImplementation => PlanAccepted /\ Present(Planned) = Planned
      BY <1>1 DEF IInv, StagesAreBound, ImplementationIsBound, PlanningIsBound,
                  BeforeImplementation, BeforePlanning
    <2> QED
      BY <1>1, <2>1 DEF IInv, GraphFollows, StagesFollow, Present
  <1>4. \A n \in S : node[n] = "Pending"
    <2>1. ASSUME NEW n \in S PROVE node[n] # "Absent"
      <3>1. n \in NodeIds /\ StageOf(n) = stage /\ (n \in Repairs => node[n] # "Absent")
        OBVIOUS
      <3>2. CASE n \in Targets \cup CheckNodes \cup Final
        BY <1>3, <3>1, <3>2, NodeStages DEF Planned, Final, BeforeImplementation, BeforePlanning
      <3>3. CASE n \in Repairs \cup {"Discovery", "Planning"}
        BY <3>1, <3>3 DEF Beginning
      <3> QED
        BY <3>1, <3>2, <3>3, NodeCases DEF Final
    <2>2. ASSUME NEW n \in S PROVE node[n] \in NodeStates /\ n \in NodeIds /\ n \in own
      BY DEF IInv, GraphTypeOK
    <2> QED
      BY <1>1, <2>1, <2>2 DEF NodeStates, NoneActive, Active
  <1>5. \A n \in S : \E d \in Dependencies(n) : node[d] # "Succeeded"
    BY <1>4, WaitsForUndone
  <1>6. PICK n \in S : TRUE
    BY <1>2
  <1>7. n \in NodeIds /\ StageOf(n) = stage
    OBVIOUS
  <1>8. CASE stage = "Implementation"
    <2>1. S \in SUBSET Targets
      BY <1>8, NodeStages, NodeCases DEF Final
    <2>2. PICK t \in S : TargetsBefore[t] \cap S = {}
      BY <1>2, <1>3, <1>8, <2>1 DEF PlanIsOrdered, Acyclic, BeforeImplementation, BeforePlanning
    <2>3. t \in Targets /\ Dependencies(t) = TargetsBefore[t] /\ TargetsBefore[t] \subseteq Targets
      BY <2>1, NodeDependencies
    <2>4. \A d \in Targets : d \in own
      BY <1>8, NodeStages, NodeKinds
    <2> QED
      BY <1>5, <2>2, <2>3, <2>4
  <1>9. CASE stage \in {"Validation", "Review", "Publication"}
    <2>1. /\ Succeeded(Targets)
          /\ stage # "Validation" => Succeeded(CheckNodes)
          /\ stage = "Publication" => Succeeded({"Review", "CompletionEvaluation"})
      BY <1>3, <1>9 DEF BeforeValidation, BeforeImplementation, BeforePlanning
    <2>2. /\ stage = "Validation" => n \in CheckNodes
          /\ stage = "Review" => n \in {"Review", "CompletionEvaluation"}
          /\ stage = "Publication" => n = "Publication"
      BY <1>7, <1>9, NodeStages, NodeCases DEF Final
    <2>3. CASE n # "CompletionEvaluation"
      BY <1>5, <1>6, <1>9, <2>1, <2>2, <2>3, NodeDependencies DEF Succeeded
    <2>4. CASE n = "CompletionEvaluation"
      <3>1. Dependencies(n) = {"Review"} /\ "Review" \in NodeIds /\ "Review" \notin Repairs
            /\ StageOf("Review") = stage
        BY <1>7, <2>4, NodeDependencies, NodeStages, NodeKinds DEF Final
      <3>2. "Review" \in S
        BY <1>5, <1>6, <3>1
      <3>3. Dependencies("Review") = CheckNodes /\ stage = "Review"
        BY <3>1, NodeDependencies, NodeStages
      <3> QED
        BY <1>5, <2>1, <3>2, <3>3 DEF Succeeded
    <2> QED
      BY <2>3, <2>4
  <1>10. CASE stage \in {"Profiling", "Discovery", "Planning", "Repair"}
    <2>1. n \in Repairs \cup {"Discovery", "Planning"}
      BY <1>7, <1>10, NodeStages, NodeCases DEF Final
    <2> QED
      BY <1>5, <1>6, <2>1, NodeDependencies
  <1>11. stage \in Stages
    BY DEF IInv, GraphTypeOK
  <1> QED
    BY <1>1, <1>8, <1>9, <1>10, <1>11 DEF Stages

\* No stage waits for itself: while no node is active, one of the stage is ready
\* to start or has failed, or all are done; so the targets of an accepted plan
\* never wait for each other (canonical_target_order, decide_phase4_implementation,
\* refresh_ready_nodes).
THEOREM GraphsGoOn == Spec => []GraphCanGoOn
  <1>1. Init => PlanIsOrdered /\ Beginning
    <2>1. Init => PlanIsOrdered
      BY DEF Init, PlanningInit, PlanAccepted, PlanIsOrdered
    <2>2. Init => Beginning
      BY NodeKinds DEF Init, GraphInit, Beginning
    <2> QED
      BY <2>1, <2>2
  <1>2. IInv /\ PlanIsOrdered /\ [Next]_vars => PlanIsOrdered'
    BY Steps, NextPlanIsOrdered
  <1>3. IInv /\ Beginning /\ [Next]_vars => Beginning'
    BY Steps, NextBeginning
  <1>4. IInv /\ PlanIsOrdered /\ Beginning => GraphCanGoOn
    BY GraphGoesOn
  <1> QED
    BY <1>1, <1>2, <1>3, <1>4, Invariant, PTL DEF Spec
=============================================================================
