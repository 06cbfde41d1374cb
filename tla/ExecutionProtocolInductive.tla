--------------------- MODULE ExecutionProtocolInductive ----------------------
(* The inductive invariant of an execution attempt, one conjunct for the graph *)
(* and one or two for each stage, and its steps by what they do to the graph.  *)
(* ExecutionProtocol_proofs proves the one kept by the others.                 *)
EXTENDS ExecutionProtocol

-----------------------------------------------------------------------------
(* The invariant: the graph.                                                 *)

OneOwner == \A m, n \in NodeIds : Active(m) /\ Active(n) => m = n

NodesFit ==
    \A n \in NodeIds :
      /\ Active(n) => Eligible(n)
      /\ node[n] = "Pending" => ~Eligible(n)
      /\ node[n] = "Ready" => Succeeded(Dependencies(n))
                              /\ (Eligible(n) \/ stage = "Terminal")

NodesAreProved ==
    \A n \in NodeIds : node[n] = "Succeeded" =>
        \E p \in proofs : p.node = n /\ p.kind \in SatisfyingProofs(n)

\* A stage is left behind with its nodes done.
StagesFollow ==
    /\ stage \notin BeforeValidation \cup {"Terminal"} => Succeeded(Targets)
    /\ stage \in {"Review", "Publication"} => Succeeded(CheckNodes)
    /\ stage = "Publication" => Succeeded({"Review", "CompletionEvaluation"})

\* The mission holds what its nodes hold, and they keep to their limits.
BudgetFollows ==
    /\ BudgetsAgree
    /\ usage["Mission"].held = IF call.state \in {"Reserved", "Dispatched"} THEN 1 ELSE 0
    /\ usage["Mission"].heldCost =
         IF call.state \in {"Reserved", "Dispatched"} THEN call.cost ELSE 0

\* A call belongs to the active node, and to a stage that waits for it.
CallFollows ==
    /\ call.state = "None" => call = NoCall
    /\ call.state # "None" =>
         /\ call.node \in ModelNodes /\ Active(call.node)
         /\ call.node = "Discovery" =>
              discovery.convergence = "None" /\ discovery.action.class # "None"
         /\ call.node = "Planning" => ~PlanAccepted /\ planning.convergence = "None"
         /\ call.node \in Mutators =>
              mutation.step = "Act" /\ mutation.released < UncontactedLimit
         /\ call.node \in {"Review", "CompletionEvaluation"} =>
              Binding(call.node) /\ review.released < ReleaseLimit

GraphFollows ==
    /\ OneOwner /\ NodesFit /\ NodesAreProved /\ StagesFollow
    /\ BudgetFollows /\ CallFollows /\ ResultIsCanonical
-----------------------------------------------------------------------------
(* The invariant: discovery, planning and mutation.                          *)

PartialSearches == UNION {[S -> SUBSET Paths] : S \in SUBSET Searches}
PartialMaps ==
    UNION {[C -> [paths : SUBSET Paths, evidence : SUBSET Paths]] : C \in SUBSET Criteria}
ReadingActions == [class : {"None", "GroundCandidateEvidence",
                            "ResolveNamedRelationship", "RecordImpactMap"},
                   on : SUBSET Paths]
Actions == ReadingActions \cup [class : {"DiscoverCandidates"}, on : SUBSET Searches]

DiscoveryStates ==
    [profile : {"None", "Recorded", "Goal"}, searched : PartialSearches,
     covers : [Paths -> SUBSET Criteria], ranked : Seq(Paths),
     grounded : SUBSET Paths, whole : SUBSET Paths, questions : SUBSET Paths,
     areas : PartialMaps, convergence : Convergences, action : Actions]

PlanningStates ==
    [latest : Validations, plan : {<<>>} \cup [Targets -> PlannedTarget],
     convergence : {"None", "InsufficientEvidence", "BudgetBlocked"}]

DiscoveryFollows ==
    /\ discovery \in DiscoveryStates
    /\ discovery.whole \subseteq discovery.grounded
    /\ discovery.action.class # "None" => call.node = "Discovery"
    /\ discovery.convergence \in {"Insufficient", "BudgetBlocked"} =>
         node["Discovery"] \in {"Active", "FailedTerminal"}

PlanningFollows ==
    /\ planning \in PlanningStates
    /\ PlanAccepted => planning.plan \in [Targets -> PlannedTarget]
    /\ planning.convergence # "None" =>
         ~PlanAccepted /\ node["Planning"] \in {"Active", "FailedTerminal"}
    /\ node["Planning"] = "Succeeded" => PlanAccepted /\ Present(Planned) = Planned
    /\ node["Planning"] = "FailedTerminal" => planning.convergence # "None"

MutationFollows ==
    /\ MutationTypeOK
    /\ mutation.step \in {"Load", "Feasibility", "Policy"} => mutation.attempt < AttemptLimit
    /\ mutation.step \in {"Apply", "Verify", "Failed"} => mutation.chosen \in Strategies
    /\ mutation.failure # "None" => mutation.step \in {"Failed", "Converged"}
    /\ mutation.step = "Converged" =>
         \E n \in Mutators : node[n] \in {"Active", "FailedTerminal"}
    /\ \A n \in Mutators : node[n] = "FailedTerminal" => mutation.step = "Converged"
    /\ \A n \in Targets : node[n] = "Succeeded" => revision > 0
-----------------------------------------------------------------------------
(* The invariant: validation and repair.                                     *)

Known(kind, of) == \E p \in proofs : p.kind = kind /\ p.revision = of

\* What is known of a revision that a repair led to.
RepairKnown(of) ==
    /\ Known("ValidationFailure", of - 1) /\ Known("RepairEligibility", of - 1)
    /\ Known("MutationVerified", of) /\ Known("RepairVerified", of)

\* From the barrier on, every revision is that of a repair; the rerun of the
\* last one may still have to be scheduled.
Lineage ==
    ~ValidationInit =>
        \E barrier \in 0 .. validation.revision :
          /\ Known("ImplementationBarrier", barrier)
          /\ \A r \in barrier + 1 .. validation.revision :
               /\ RepairKnown(r)
               /\ \/ Known("ValidationRerunScheduled", r)
                  \/ /\ r = validation.revision /\ stage \in {"Repair", "Terminal"}
                     /\ validation.repair = "Invalidated"

\* A failure is repaired by one node, or the gate it is of runs again.
RepairFollows ==
    /\ validation.failure # "None" => ~validation.rerun
    /\ validation.failure = "None" => validation.repair \in {"None", "Invalidated"}
    /\ stage = "Repair" => validation.rerun \/ validation.failure # "None"
    /\ stage = "Repair" /\ validation.rerun => validation.convergence = "None"
    /\ validation.repair = "Selected" =>
         /\ validation.repairer \in Repairs
         /\ validation.convergence = "None" /\ stage \in {"Repair", "Terminal"}
    /\ validation.failure # "None" /\ validation.repair = "Invalidated" =>
         validation.convergence = "None"
    /\ \A r \in Repairs : node[r] \notin {"Absent", "Succeeded"} =>
         validation.repair = "Selected" /\ validation.repairer = r
    /\ stage = "Repair" /\ validation.failure # "None"
       /\ validation.repair # "Invalidated" =>
         Known("ValidationFailure", validation.revision)
    /\ validation.repair = "Selected" /\ node[validation.repairer] # "Absent" =>
         Known("RepairEligibility", validation.revision)
    /\ validation.repair = "Selected" /\ node[validation.repairer] = "Succeeded" =>
         Known("RepairVerified", revision)
    /\ \A p \in proofs : p.kind = "RepairVerified" => Known("MutationVerified", p.revision)

\* The evidence is of no later revision than the gates are bound to, and a node
\* that succeeded has it of that revision.
EvidenceFollows ==
    /\ \A g \in Gates : validation.evidence[g].revision <= validation.revision
    /\ validation.revision <= revision
    /\ validation.rerun => validation.origin \in Gates /\ NeedsPass(validation.origin)
    /\ validation.failure # "None" => NeedsPass(validation.failure)
    /\ \A n \in CheckNodes : node[n] = "Succeeded" =>
         /\ ~ValidationInit
         /\ \A g \in Gates : GateNode[g] = n => ~NeedsPass(g)
         /\ \E p \in proofs : p.kind = "ValidationPassed" /\ p.node = n
                              /\ p.revision = validation.revision

ValidationFollows ==
    /\ ValidationTypeOK /\ (ValidationInit <=> validation.revision = 0)
    /\ RepairFollows /\ EvidenceFollows /\ Lineage /\ ActiveCheckCanGoOn
    /\ Rerunning => \A n \in CheckNodes : node[n] # "FailedRecoverable"
    /\ stage \in {"Review", "Publication"} => validation.convergence = "None"
-----------------------------------------------------------------------------
(* The invariant: review and publication.                                    *)

ReviewFollows ==
    /\ ReviewTypeOK /\ (ReviewInit <=> review.mode = "None")
    /\ review.request = "None" => review.manifest = "None"
    /\ review.manifest = "None" => review.verdict = "None" /\ review.unread = 0
    /\ review.verdict # "None" => review.unread = 0
    /\ node["Review"] = "Succeeded" => review.verdict = "Accepted"
    /\ review.request # "Authority" => ~review.authority
    /\ ~review.authority => review.faults = {} /\ ~review.evaluated
    /\ ~review.evaluated => review.denied = {}
    /\ review.failure \in {"Limit", "Drift", "Durability"} => review.request = "Diff"
    /\ review.failure # "None" /\ review.convergence # "None" =>
         review.convergence = review.failure
    /\ review.convergence = "Drift" => review.failure = "Drift"
    /\ Granted => review.faults = {} /\ review.manifest # "None" /\ GatesPassed
    /\ stage = "Publication" => Granted /\ review.convergence = "None"

PublicationFollows ==
    /\ PublicationTypeOK
    /\ publication.intent = "None" =>
         /\ publication.observed = "None" /\ publication.applied = {}
         /\ publication.trees = {}
    /\ publication.intent \in {"None", "Commit"} =>
         publication.applied \subseteq {"Commit"} /\ publication.attempts["Push"] = 0
    /\ publication.intent = "None" => publication.attempts["Commit"] = 0
    /\ publication.intent # "PullRequest" => publication.attempts["PullRequest"] = 0
    /\ publication.intent = "Push" =>
         /\ {"Commit"} \subseteq publication.applied
         /\ publication.applied \subseteq {"Commit", "Push"}
    /\ publication.intent = "PullRequest" => {"Commit", "Push"} \subseteq publication.applied
    /\ publication.intent # "None" => publication.trees = {review.revision}
    /\ publication.observed = "Confirmed" => publication.intent \in publication.applied
    /\ publication.observed \in Failures => publication.intent \notin publication.applied
    /\ publication.observed = "RemoteBranchMoved" => publication.intent = "Push"
    /\ publication.completed => Confirmed("PullRequest") /\ publication.convergence = "None"
    /\ publication.convergence # "None" =>
         /\ publication.observed \in Failures \cup {"RemoteBranchMoved"}
         /\ node["Publication"] \in {"Active", "FailedTerminal"}
    /\ publication.draft <=> ("PullRequest" \in publication.applied /\ AsDraft)

StagesAreBound ==
    /\ DiscoveryIsBound /\ PlanningIsBound
    /\ ImplementationIsBound /\ MutationIsBound
    /\ ValidationIsBound /\ ReviewIsBound

IInv ==
    /\ GraphTypeOK /\ GraphFollows
    /\ DiscoveryFollows /\ PlanningFollows /\ MutationFollows
    /\ ValidationFollows /\ ReviewFollows /\ PublicationFollows
    /\ StagesAreBound

-----------------------------------------------------------------------------
(* What a plan rests on, beside the invariant.                               *)

EvidenceSuffices ==
    discovery.questions = {} /\ Covered(discovery.grounded) = Criteria /\ Unprojected = {}

\* A candidate is one for a criterion because a search for it found the path.
SearchesFollow ==
    /\ \A p \in Paths : \A c \in discovery.covers[p] :
         \E s \in DOMAIN discovery.searched : s[1] = c /\ p \in discovery.searched[s]
    /\ discovery.action.class = "DiscoverCandidates" =>
         discovery.action.on \cap DOMAIN discovery.searched = {}

\* A map is asked for, and is complete, of evidence that suffices; it maps
\* criteria to candidates for them.
MapFollows ==
    /\ \/ discovery.action.class = "RecordImpactMap" \/ MapComplete
       \/ discovery.convergence \in {"Sufficient", "Accepted"}
       => EvidenceSuffices
    /\ MapComplete => discovery.action.class = "None"
    /\ \A c \in DOMAIN discovery.areas :
         /\ discovery.areas[c].evidence \subseteq discovery.areas[c].paths
         /\ \A p \in discovery.areas[c].paths : c \in discovery.covers[p]

PlanIsGrounded(plan) ==
    /\ \A c \in Criteria : \E t \in DOMAIN plan :
         c \in plan[t].criteria /\ plan[t].evidence \cap Found(c) # {}
    /\ \A t \in DOMAIN plan : plan[t].operation = "Modify" =>
         /\ plan[t].path \in discovery.whole
         /\ \E c \in plan[t].criteria : plan[t].path \in Found(c)

PlanFollows ==
    /\ Present(Planned) # {} => PlanAccepted
    /\ planning.plan # <<>> => PlanIsGrounded(planning.plan)

GroundingFollows == SearchesFollow /\ MapFollows /\ PlanFollows

-----------------------------------------------------------------------------
(* The steps, by what they do to the graph.                                  *)

NodesKept == UNCHANGED <<stage, node, revision, proofs, result>>

Starts(n) ==
    /\ Start(n) /\ call = NoCall
    /\ n \in Targets => \A t \in Targets : node[t] # "FailedTerminal"
    /\ n \in Repairs => Choosing("Selected") /\ n = validation.repairer
    /\ n \in CheckNodes => Validating /\ \E g \in NextGate : n = GateNode[g]
    /\ n \in {"Review", "CompletionEvaluation"} => review.convergence = "None"
    /\ mutation' = IF n \in Mutators THEN Untouched ELSE mutation
    /\ UNCHANGED <<discovery, planning, validation, review, publication>>

Records(kind, n) ==
    /\ Record(kind, n)
    /\ kind = "RepairVerified" => Proved("MutationVerified", n)
    /\ UNCHANGED <<discovery, planning, mutation, validation, review, publication>>

Succeeds(n) ==
    /\ Succeed(n) /\ call = NoCall
    /\ n = "Discovery" => discovery.convergence = "Accepted"
    /\ n = "Planning" => PlanAccepted /\ Present(Planned) = Planned
    /\ n \in Mutators => mutation.step = "Prove"
    /\ n \in CheckNodes => NodePassed(n)
    /\ n = "Review" => review.verdict = "Accepted"
    /\ n = "Publication" => publication.completed
    /\ mutation' = IF n \in Mutators THEN Untouched ELSE mutation
    /\ UNCHANGED <<discovery, planning, validation, review, publication>>

Fails(n, terminal) ==
    /\ Fail(n, terminal) /\ call = NoCall
    /\ n = "Discovery" => discovery.convergence \in {"Insufficient", "BudgetBlocked"}
    /\ n = "Planning" => planning.convergence # "None"
    /\ n \in Mutators => mutation.step = "Converged"
    /\ ~terminal => n \in CheckNodes /\ ~validation.rerun
    /\ UNCHANGED <<discovery, planning, mutation, validation, review, publication>>

AddsPlan ==
    /\ AddPlan /\ Active("Planning") /\ PlanAccepted
    /\ UNCHANGED <<discovery, planning, mutation, validation, review, publication>>

AddsRepair(r) ==
    /\ AddRepair(r) /\ call = NoCall
    /\ Choosing("Selected") /\ r = validation.repairer
    /\ Proved("RepairEligibility", "None")
    /\ UNCHANGED <<discovery, planning, mutation, validation, review, publication>>

Passages == {<<"Profiling", "Discovery">>, <<"Discovery", "Planning">>,
             <<"Planning", "Implementation">>, <<"Implementation", "Validation">>,
             <<"Validation", "Repair">>, <<"Repair", "Validation">>,
             <<"Validation", "Review">>, <<"Review", "Publication">>}

Advances(from, to) ==
    /\ Advance(from, to) /\ call = NoCall
    /\ to = "Discovery" => discovery.profile = "Goal"
    /\ to = "Planning" => discovery.convergence = "Accepted"
    /\ to = "Implementation" => node["Planning"] = "Succeeded"
    /\ from = "Implementation" => Succeeded(Targets) /\ ValidationEnters
    /\ to = "Repair" => Diagnosed
    /\ from = "Repair" => validation.rerun
    /\ to = "Review" => AllPassed /\ ReviewEnters
    /\ to = "Publication" => Concluded /\ Granted
    /\ from # "Implementation" => UNCHANGED validation
    /\ to # "Review" => UNCHANGED review
    /\ UNCHANGED <<discovery, planning, mutation, publication>>

Finishes(outcome) ==
    /\ Finish(outcome) /\ call = NoCall
    /\ stage \in {"Discovery", "Planning", "Implementation", "Validation", "Repair",
                  "Review", "Publication"}
    /\ stage = "Discovery" =>
         <<outcome, discovery.convergence>> \in {<<"InsufficientEvidence", "Insufficient">>,
                                                 <<"BudgetBlocked", "BudgetBlocked">>}
    /\ stage = "Planning" => planning.convergence # "None"
    /\ stage = "Repair" =>
         \/ validation.convergence # "None"
         \/ outcome = MutationOutcome("NoValidRepair")
            /\ \E r \in Repairs : node[r] = "FailedTerminal"
    /\ stage = "Review" => review.convergence # "None"
    /\ IF stage = "Publication"
       THEN \/ /\ publication.completed /\ Permits(review.completion, review.mode)
               /\ outcome = IF review.mode = "Normal" THEN "Succeeded"
                                                      ELSE "PartialReviewable"
            \/ publication.convergence # "None" /\ outcome = "PublicationFailed"
       ELSE outcome \notin {"Succeeded", "PartialReviewable"}
    /\ UNCHANGED <<discovery, planning, mutation, validation, review, publication>>

Reopens ==
    /\ PriorInvalidated
    /\ UNCHANGED <<discovery, planning, mutation, review, publication>>

DiscoveryMoves ==
    /\ \/ ProfileRecorded \/ GoalRecorded \/ DiscoveryPrepares
       \/ SearchCompleted \/ FilesRead \/ RelationshipsRecorded \/ ImpactMapRecorded
       \/ DiscoveryRejects \/ DiscoveryReleases
       \/ CandidatesRecorded \/ DiscoveryConverges \/ DeterministicMap
    /\ UNCHANGED <<planning, mutation, validation, review, publication>>

PlanningMoves ==
    /\ \/ PlanningPrepares \/ CandidateRecorded
       \/ PlanningRejects \/ PlanningReleases \/ PlanningConverges
    /\ UNCHANGED <<discovery, mutation, validation, review, publication>>

MutationMoves(n) ==
    /\ \/ ContextPrepared(n) \/ FeasibilityEvaluated(n) \/ PolicySelected(n)
       \/ ActionPrepared(n) \/ ActionReleased(n)
       \/ MutationCandidate(n) \/ ActionRejected(n) \/ AttemptFailed(n)
       \/ ApplicationObserved(n) \/ AttemptRetried(n)
       \/ MutationVerified(n) \/ ContextSuperseded(n) \/ MutationConverges(n)
    /\ UNCHANGED <<discovery, planning, validation, review, publication>>

ValidationMoves ==
    /\ \/ ValidationScheduled \/ ProcessStarted \/ ProcessCompleted
       \/ EvidenceRecorded \/ FailureRecorded \/ GateConverges
       \/ CandidatesRanked \/ EligibilityEvaluated \/ TargetSelected \/ RepairConverges
       \/ RerunScheduled
    /\ UNCHANGED <<discovery, planning, mutation, review, publication>>

ReviewMoves ==
    /\ \/ DiffManifestRequested \/ DiffManifestRecorded \/ DiffManifestBuildFailed
       \/ ReviewActionPrepared \/ ReviewActionReleased \/ ReviewActionRejected
       \/ DiffPageReviewed \/ DiffReviewRecorded \/ CompletionEvaluationRecorded
       \/ PublicationAuthorityRequested \/ PublicationAuthorityObserved
       \/ PublicationAuthorityObservationFailed \/ PublicationEligibilityEvaluated
       \/ ReviewConverges
    /\ UNCHANGED <<discovery, planning, mutation, validation, publication>>

PublicationMoves ==
    /\ \/ CommitIntentPersisted \/ PushIntentPersisted \/ PullRequestIntentPersisted
       \/ CreateCommit \/ PushExactLease \/ EnsurePullRequest \/ BranchMoves
       \/ CommitObserved \/ PushObserved \/ PullRequestObserved
       \/ PublicationConverges \/ CompletionRecorded
    /\ UNCHANGED <<discovery, planning, mutation, validation, review>>

GraphMoves ==
    \/ \E n \in NodeIds : Starts(n)
    \/ \E kind \in ProofKinds, n \in NodeIds \cup {"None"} : Records(kind, n)
    \/ \E n \in NodeIds : Succeeds(n)
    \/ \E n \in NodeIds, terminal \in BOOLEAN : Fails(n, terminal)
    \/ AddsPlan
    \/ \E r \in Repairs : AddsRepair(r)
    \/ \E p \in Passages : Advances(p[1], p[2])
    \/ \E outcome \in Outcomes : Finishes(outcome)
    \/ Reopens

StageMoves ==
    \/ DiscoveryMoves \/ PlanningMoves
    \/ \E n \in Mutators : MutationMoves(n)
    \/ ValidationMoves \/ ReviewMoves \/ PublicationMoves
    \/ Calls

Moves == GraphMoves \/ StageMoves \/ UNCHANGED vars
=============================================================================
