-------------------------- MODULE ExecutionProtocol --------------------------
(* One execution attempt from bootstrap to its canonical result: the stages  *)
(* of the protocol composed over the graph they share.  An action of a stage *)
(* is one event that decide() proposes and append_event() accepts, or one    *)
(* that the effect it asked for brings back                                  *)
(* (src/src/execution_protocol/reducer.rs).                                  *)
EXTENDS ProtocolInvariants

vars == <<graphVars, discovery, planning, mutation, validation, review, publication>>

Init ==
    /\ GraphInit
    /\ DiscoveryInit /\ PlanningInit
    /\ MutationInit /\ ValidationInit
    /\ ReviewInit /\ PublicationInit

\* The stages that hand over to another one enter it with what it starts from.
HandsOver ==
    \/ /\ ValidationBegins /\ ValidationEnters
       /\ UNCHANGED <<discovery, planning, review, publication>>
    \/ /\ RepairNodeStarts /\ mutation' = Untouched
       /\ UNCHANGED <<discovery, planning, review, publication>>
    \/ /\ ReviewBegins /\ ReviewEnters
       /\ UNCHANGED <<discovery, planning, mutation, publication>>
    \/ /\ PublicationBegins
       /\ UNCHANGED <<discovery, planning, mutation, validation, publication>>

Step ==
    \/ /\ DiscoveryNext
       /\ UNCHANGED <<planning, mutation, validation, review, publication>>
    \/ /\ PlanningNext
       /\ UNCHANGED <<mutation, validation, review, publication>>
    \/ /\ ImplementationNext
       /\ UNCHANGED <<discovery, planning, validation, review, publication>>
    \/ /\ ValidationNext
       /\ UNCHANGED <<discovery, planning, mutation, review, publication>>
    \/ /\ ReviewNext
       /\ UNCHANGED <<discovery, planning, mutation, validation, publication>>
    \/ /\ PublicationNext
       /\ UNCHANGED <<discovery, planning, mutation, validation, review>>
    \/ HandsOver

Calls ==
    /\ CallLifecycle
    /\ UNCHANGED <<discovery, planning, mutation, validation, review, publication>>

Ended == stage = "Terminal" \/ Wedged
Done == Ended /\ UNCHANGED vars

Next == Step \/ Calls \/ Done

Spec == Init /\ [][Next]_vars
-----------------------------------------------------------------------------
\* Type invariant: the stages keep to their own types when composed, and in
\* every order of calls, failures, drift and repairs an event that is accepted
\* leaves an aggregate that the check before the next event accepts: it never
\* refuses all further events (validate_invariants, reducer.rs:12251).
AggregateIsValid ==
    /\ GraphTypeOK
    /\ DiscoveryTypeOK /\ PlanningTypeOK
    /\ MutationTypeOK /\ ValidationTypeOK
    /\ ReviewTypeOK /\ PublicationTypeOK
    /\ InvariantsHold

\* Every gate has passed on the files as they are.
GatesPassed == \A g \in Gates : validation.evidence[g] = Pass(revision)

\* How far the publication got, in order and with the files as they are.
Taken ==
    CASE publication.applied = {} -> 0
      [] publication.applied = {"Commit"} /\ publication.trees = {revision} -> 1
      [] publication.applied = {"Commit", "Push"} -> 2
      [] publication.applied = Operations -> 3

\* What an attempt promises, in the terms of its stages.
Delivery == INSTANCE ReviewedDelivery WITH
    Complete  <- "Succeeded",
    ForReview <- "PartialReviewable",
    Abandoned <- Outcomes \ {"Succeeded", "PartialReviewable"},
    content   <- revision,
    checked   <- GatesPassed,
    approved  <- Granted,
    published <- Taken,
    draft     <- publication.draft,
    outcome   <- result

\* The stages implement what an attempt promises: no sequence of retries,
\* rebuilt contexts, repairs, drift, refused calls and lost answers publishes
\* files other than those that passed all gates and were found eligible,
\* changes them after that, publishes out of order, reports as failed what is
\* published or as complete what is a draft (reducer.rs: decide and
\* append_event of every stage).
DeliverySpec == Delivery!Spec

\* The proofs a review asks for, of every revision since the barrier, are
\* there when its turn comes: an attempt that repaired and passed is reviewed
\* (engineering_ancestry, reducer.rs:6864).
ReviewCanBegin ==
    AllPassed /\ Proved("RequiredValidationPassed", "None") => AncestryComplete

\* A check counts as done only by evidence of the files as they are; drift that
\* a review finds ends the attempt (PriorValidationInvalidated, reducer.rs:3392).
SucceededChecksAreCurrent ==
    /\ stage \in {"Validation", "Review", "Publication"}
    /\ review.convergence # "Drift"
    => \A n \in CheckNodes : node[n] = "Succeeded" =>
           \A g \in Gates : GateNode[g] = n => validation.evidence[g] = Pass(revision)

\* The node that is active is the one the next gate belongs to, unless it is
\* done: after a repair the order of the gates alone would choose another one
\* and neither node could go on (next_gate_id, validation.rs:2814).
ActiveCheckCanGoOn ==
    \A n \in CheckNodes : Active(n) =>
        NodePassed(n) \/ \A g \in NextGate : GateNode[g] = n

\* No stage waits for itself: while no node is active, one of the stage is ready
\* to start or has failed, unless all are done.  Targets of an accepted plan
\* never wait for each other (canonical_target_order, planning.rs:1935;
\* decide_phase4_implementation, reducer.rs:1018).
GraphCanGoOn ==
    LET own == {n \in NodeIds : StageOf(n) = stage /\ (n \in Repairs => node[n] # "Absent")}
    IN  NoneActive /\ stage # "Terminal" =>
          \/ Succeeded(own)
          \/ \E n \in own : node[n] \in {"Ready", "FailedRecoverable", "FailedTerminal"}

\* Some stage has recorded that it cannot go on.
Blocked ==
    \/ discovery.convergence \in {"Insufficient", "BudgetBlocked"}
    \/ planning.convergence # "None" \/ mutation.step = "Converged"
    \/ validation.convergence # "None" \/ review.convergence # "None"
    \/ publication.convergence # "None"

\* From then on nothing is tried: no call, no node, no effect, and what
\* was found stays found (the freezes of append_event, reducer.rs:3127-3290).
BlockedIsFinal ==
    [][Blocked =>
         /\ Blocked'
         /\ call' = call /\ usage' = usage /\ revision' = revision
         /\ publication.applied' = publication.applied
         /\ \A n \in NodeIds : node'[n] # "Active" \/ node[n] = "Active"]_vars
=============================================================================
