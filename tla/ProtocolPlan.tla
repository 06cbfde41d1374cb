---------------------------- MODULE ProtocolPlan -----------------------------
(* A candidate plan and what is wrong with it: targets that overlap, change  *)
(* what was not read to its end, claim criteria their evidence does not      *)
(* support, or wait for each other (src/src/execution_protocol/planning.rs). *)
(*                                                                           *)
(* Only files count as evidence here, by their path.  Texts, estimates,      *)
(* identities, hashes and expected validations are sound or not; deleting or *)
(* moving a file asks for what modifying it does, and for a free destination.*)
EXTENDS ProtocolDiscovery

CONSTANTS
    NewPaths,       \* files that do not exist yet
    Proposals       \* the plans the model may come up with

TargetOperations == {"Modify", "Create"}
PlannedTarget == [path : Paths \cup NewPaths, operation : TargetOperations,
                  criteria : SUBSET Criteria, evidence : SUBSET Paths,
                  after : SUBSET Targets, sound : BOOLEAN]

\* A plan changes targets, finds nothing to do, or reports a gap.
Decisions == {"Changes", "NoOp", "EvidenceGap"}

ProposalOf(decision, targets) == [decision |-> decision, targets |-> targets]
-----------------------------------------------------------------------------
(* Targets.                                                                  *)

\* Some area of the impact map admits the evidence for a claimed criterion.
Admits(c, e) == c \in DOMAIN discovery.areas /\ e \in discovery.areas[c].evidence

EvidenceGrounds(e, target) ==
    /\ \E c \in target.criteria : Admits(c, e)
    /\ target.operation = "Create" \/ e = target.path

CriterionIsGrounded(c, target) ==
    /\ \E e \in target.evidence : Admits(c, e)
    /\ target.operation = "Create" \/ target.path \in discovery.areas[c].paths

\* Mutant: a file of which only a part was read may be changed.
FitsRead(target) ==
    CASE target.operation = "Modify" ->
           target.path \in discovery.grounded /\ target.path \in target.evidence
      [] target.operation = "Create" -> target.path \notin discovery.grounded

\* A file that is changed was read to its end, and the reading is cited; one
\* that is created was not found.
FitsFile(target) ==
    CASE target.operation = "Modify" ->
           target.path \in discovery.whole /\ target.path \in target.evidence
      [] target.operation = "Create" -> target.path \notin discovery.grounded

TargetIsValid(target) ==
    /\ target.sound
    /\ target.criteria # {} /\ target.evidence # {}
    /\ \A c \in target.criteria : CriterionIsGrounded(c, target)
    /\ \A e \in target.evidence :
         e \in discovery.grounded /\ EvidenceGrounds(e, target)
    /\ FitsFile(target)
-----------------------------------------------------------------------------
(* Plans.                                                                    *)

\* The targets that can be ordered: again and again those that wait for none
\* but ordered ones.
Orderable(targets) ==
    LET Ordered[n \in 0 .. Cardinality(DOMAIN targets)] ==
          IF n = 0 THEN {}
          ELSE {t \in DOMAIN targets : targets[t].after \subseteq Ordered[n - 1]}
    IN  Ordered[Cardinality(DOMAIN targets)]

\* The targets own their paths alone, cover the criteria and can be ordered.
ChangesAreValid(targets) ==
    /\ targets # <<>>
    /\ \A t, u \in DOMAIN targets : targets[t].path = targets[u].path => t = u
    /\ \A t \in DOMAIN targets : TargetIsValid(targets[t])
    /\ UNION {targets[t].criteria : t \in DOMAIN targets} = Criteria
    /\ Orderable(targets) = DOMAIN targets

\* One call per change and one each for the reviews of diff and completion.
MinimumCalls(targets) == Cardinality(DOMAIN targets) + 2

\* What the mission has left once discovery and planning are paid for.
Feasible(targets) ==
    LET spentCalls == usage["Discovery"].calls + usage["Planning"].calls
        spentCost  == usage["Discovery"].cost + usage["Planning"].cost
    IN  /\ MinimumCalls(targets) <= CallLimit["Mission"] - spentCalls
        /\ MinimumCalls(targets) <= CostLimit["Mission"] - spentCost

\* That nothing needs to be done cannot be proved yet: every such plan is
\* rejected, for want of a proof or of an observation.
Validated(proposal) ==
    CASE proposal.decision = "EvidenceGap" -> "EvidenceGap"
      [] proposal.decision = "NoOp" -> "Rejected"
      [] proposal.decision = "Changes" ->
           IF ChangesAreValid(proposal.targets) /\ Feasible(proposal.targets)
           THEN "Accepted" ELSE "Rejected"

\* The nodes of the graph are those of the plans that can be ordered at all.
ASSUME PlanAssumption ==
    /\ NewPaths \cap Paths = {}
    /\ \A p \in Proposals :
         /\ p.decision \in Decisions
         /\ DOMAIN p.targets \subseteq Targets
         /\ \A t \in DOMAIN p.targets : p.targets[t] \in PlannedTarget
         /\ p.decision = "Changes" /\ p.targets # <<>>
            /\ Orderable(p.targets) = DOMAIN p.targets =>
              p.targets \in [Targets -> PlannedTarget]
              /\ \A t \in Targets : p.targets[t].after = TargetsBefore[t]
=============================================================================
