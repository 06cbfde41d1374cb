-------------------------- MODULE ProtocolMutation ---------------------------
(* How the file of one node is changed, by an implementation node and by a   *)
(* repair node alike: a context is loaded, a strategy is chosen, a model     *)
(* call proposes a candidate, the candidate is applied and verified; a       *)
(* failed attempt is retried, falls back, rebuilds its context or converges  *)
(* (src/src/execution_protocol/mutation.rs, implementation.rs, reducer.rs).  *)
EXTENDS ProtocolPlanning

CONSTANTS
    AttemptLimit,       \* max_mutation_attempts of a node
    RebuildLimit,       \* max_context_rebuilds of a node
    UncontactedLimit    \* MUTATION_UNCONTACTED_RELEASE_RETRY_LIMIT + 1

ASSUME MutationAssumption ==
    AttemptLimit \in Nat \ {0} /\ RebuildLimit \in Nat /\ UncontactedLimit \in Nat \ {0}

VARIABLE mutation
    \* The ledger entry of the node that is being mutated.
    \* step       what the entry waits for
    \* base       revision of the prepared context
    \* feasible   strategies that fit the context
    \* attempt    attempt_index of the policy in force
    \* permitted  permitted_strategies of that policy
    \* released   its actions that never reached the provider
    \* chosen     strategy of its candidate, or of its failure
    \* failure    why the attempt failed
    \* rebuilds   contexts given up because the repository drifted
    \* reason     of the convergence

Strategies == {"Patch", "NormalizedPatch", "Replace"}
Initial == {"Patch", "Replace"}
Patches == {"Patch", "NormalizedPatch"}

\* Failure classes, those of one retryability and one stage taken together.
Rejections == {"ProviderProtocol", "NotDurable", "Unusable", "SchemaInvalid",
               "PatchMalformed"}
Refusals == {"PatchMalformed", "ApplyRejected", "RepositoryDrift"}
Mismatches == {"Mismatch"}
NoRetry == {"ProviderProtocol", "NotDurable", "Unusable", "Mismatch"}

Reasons == {"NoFeasibleStrategy", "AdmissionBudget", "UncontactedRetries",
            "AttemptBudget", "RebuildBudget", "RebuildUnavailable", "NoSafeFallback"}

MutationSteps == {"Load", "Feasibility", "Policy", "Act", "Apply", "Verify",
                  "Prove", "Failed", "Converged"}

MutationTypeOK ==
    mutation \in [step : MutationSteps, base : Nat, feasible : SUBSET Initial,
                  attempt : 0 .. AttemptLimit, permitted : SUBSET Strategies,
                  released : 0 .. UncontactedLimit,
                  chosen : Strategies \cup {"None"},
                  failure : Rejections \cup Refusals \cup Mismatches \cup {"None"},
                  rebuilds : 0 .. RebuildLimit, reason : Reasons \cup {"None"}]

Untouched == [step |-> "Load", base |-> 0, feasible |-> {}, attempt |-> 0,
              permitted |-> {}, released |-> 0, chosen |-> "None",
              failure |-> "None", rebuilds |-> 0, reason |-> "None"]

MutationInit == mutation = Untouched

Mutators == Targets \cup Repairs
Mutating(n, step) == n \in Mutators /\ Active(n) /\ mutation.step = step
-----------------------------------------------------------------------------
(* One attempt.                                                              *)

\* Mutant: the terminal failure of another target is not looked for.
TargetStartsAnyway(n) ==
    /\ node[n] = "Ready" /\ n = CHOOSE t \in Targets : node[t] = "Ready"
    /\ Start(n)
    /\ mutation' = Untouched

\* The first of the ready ones in node_order, as long as none has failed.
TargetStarts(n) ==
    /\ \A t \in Targets : node[t] # "FailedTerminal"
    /\ node[n] = "Ready" /\ n = CHOOSE t \in Targets : node[t] = "Ready"
    /\ Start(n)
    /\ mutation' = Untouched

ContextPrepared(n) ==
    /\ Mutating(n, "Load")
    /\ mutation' = [mutation EXCEPT !.step = "Feasibility", !.base = revision]
    /\ UNCHANGED graphVars

\* Other operations than a modification have the one strategy of their own.
FeasibilityEvaluated(n) ==
    /\ Mutating(n, "Feasibility")
    /\ \E S \in SUBSET Initial :
         mutation' = [mutation EXCEPT !.step = "Policy", !.feasible = S]
    /\ UNCHANGED graphVars

\* The policy of an attempt, the first under its context or a retry.
Policy(permitted) ==
    [mutation EXCEPT !.step = "Act", !.attempt = @ + 1, !.permitted = permitted,
                     !.released = 0, !.chosen = "None", !.failure = "None"]

PolicySelected(n) ==
    /\ Mutating(n, "Policy")
    /\ mutation.feasible # {}
    /\ mutation' = Policy(mutation.feasible)
    /\ UNCHANGED graphVars

ActionPrepared(n) ==
    /\ Mutating(n, "Act")
    /\ mutation.released < UncontactedLimit
    /\ Prepare(n)
    /\ UNCHANGED mutation

\* The call of the action is over, with or without the provider.
ActionEnded(n, as) ==
    /\ Mutating(n, "Act")
    /\ call.state = as
    /\ Clear
    /\ UNCHANGED <<stage, node, revision, proofs, usage, result>>

ActionReleased(n) ==
    /\ ActionEnded(n, "Released")
    /\ mutation' = [mutation EXCEPT !.released = @ + 1]

MutationCandidate(n) ==
    /\ ActionEnded(n, "Consumed")
    /\ \E s \in mutation.permitted :
         mutation' = [mutation EXCEPT !.step = "Apply", !.chosen = s]

Failed(class, strategy) ==
    [mutation EXCEPT !.step = "Failed", !.failure = class, !.chosen = strategy]

\* The strategy is known for a schema failure and for a malformed patch.
ActionRejected(n) ==
    /\ ActionEnded(n, "Consumed")
    /\ \E class \in Rejections, s \in mutation.permitted :
         /\ class = "PatchMalformed" => s \in Patches
         /\ mutation' = Failed(class, s)

AttemptFailed(n) ==
    /\ \E class \in Refusals \cup Mismatches :
         /\ Mutating(n, IF class \in Refusals THEN "Apply" ELSE "Verify")
         /\ class = "PatchMalformed" => mutation.chosen \in Patches
         /\ mutation' = Failed(class, mutation.chosen)
    /\ UNCHANGED graphVars

ApplicationObserved(n) ==
    /\ Mutating(n, "Apply")
    /\ mutation' = [mutation EXCEPT !.step = "Verify"]
    /\ UNCHANGED graphVars

\* Only verification makes the new content the revision of the attempt.
MutationVerified(n) ==
    /\ Mutating(n, "Verify")
    /\ mutation.base = revision
    /\ revision' = revision + 1
    /\ mutation' = [mutation EXCEPT !.step = "Prove"]
    /\ UNCHANGED <<stage, node, proofs, call, usage, result>>
-----------------------------------------------------------------------------
(* After a failed attempt.                                                   *)

LastAttempt == mutation.attempt >= AttemptLimit
Drifted == mutation.failure = "RepositoryDrift"

Fallback ==
    IF mutation.chosen \notin Patches THEN {}
    ELSE IF "Replace" \in mutation.feasible THEN {"Replace"}
    ELSE IF "Patch" \in mutation.feasible THEN {"NormalizedPatch"}
    ELSE {}

\* The strategies of the next attempt under the same context; none if there
\* is no such attempt.
Retry ==
    IF LastAttempt \/ Drifted \/ mutation.failure \in NoRetry THEN {}
    ELSE IF mutation.failure = "SchemaInvalid" THEN {mutation.chosen}
    ELSE Fallback

MayRebuild == Drifted /\ ~LastAttempt /\ mutation.rebuilds < RebuildLimit

AttemptRetried(n) ==
    /\ Mutating(n, "Failed")
    /\ Retry # {}
    /\ mutation' = Policy(Retry)
    /\ UNCHANGED graphVars

\* The observed revision becomes the attempt's; a new context is loaded.
ContextSuperseded(n) ==
    /\ Mutating(n, "Failed") /\ n \in Targets
    /\ MayRebuild
    /\ mutation.base = revision
    /\ revision' = revision + 1
    /\ mutation' = [mutation EXCEPT !.step = "Load", !.rebuilds = @ + 1,
                                    !.chosen = "None", !.failure = "None"]
    /\ UNCHANGED <<stage, node, proofs, call, usage, result>>

\* Why the failed attempt of n is the last one, if it is.
Exhaustion(n) ==
    IF MayRebuild THEN IF n \in Repairs THEN "RebuildUnavailable" ELSE "None"
    ELSE IF mutation.failure \in NoRetry THEN "NoSafeFallback"
    ELSE IF LastAttempt THEN "AttemptBudget"
    ELSE IF Drifted THEN "RebuildBudget"
    ELSE IF Retry = {} THEN "NoSafeFallback"
    ELSE "None"

Convergence(n) ==
    CASE mutation.step = "Policy" /\ mutation.feasible = {} -> "NoFeasibleStrategy"
      [] mutation.step = "Act" /\ call.state = "None" ->
           IF mutation.released >= UncontactedLimit THEN "UncontactedRetries"
           ELSE IF Exhausted(n) THEN "AdmissionBudget" ELSE "None"
      [] mutation.step = "Failed" -> Exhaustion(n)
      [] OTHER -> "None"

\* A convergence after drift adopts the observed revision.
MutationConverges(n) ==
    /\ Mutating(n, mutation.step)
    /\ Convergence(n) # "None"
    /\ mutation' = [mutation EXCEPT !.step = "Converged", !.reason = Convergence(n)]
    /\ revision' = IF mutation.step = "Failed" /\ Drifted THEN revision + 1 ELSE revision
    /\ UNCHANGED <<stage, node, proofs, call, usage, result>>

MutationFails(n) ==
    /\ Mutating(n, "Converged")
    /\ Fail(n, TRUE)
    /\ UNCHANGED mutation
-----------------------------------------------------------------------------
(* After a verified one.                                                     *)

MutationProved(n) ==
    /\ Mutating(n, "Prove")
    /\ ~Proved("MutationVerified", n)
    /\ Record("MutationVerified", n)
    /\ UNCHANGED mutation

\* The entry is of no use once its node has succeeded.
MutationSucceeds(n) ==
    /\ Mutating(n, "Prove")
    /\ Succeed(n)
    /\ mutation' = Untouched

AllImplemented == stage = "Implementation" /\ Succeeded(Targets)

BarrierProved ==
    /\ AllImplemented
    /\ ~Proved("ImplementationBarrier", "None")
    /\ Record("ImplementationBarrier", "None")
    /\ UNCHANGED mutation

ValidationBegins ==
    /\ AllImplemented
    /\ Advance("Implementation", "Validation")
    /\ UNCHANGED mutation

\* What a mutation that converged makes of the mission.
Infrastructure ==
    \/ mutation.reason = "UncontactedRetries"
    \/ mutation.failure \in {"ProviderProtocol", "NotDurable"}

MutationOutcome(blocked) ==
    IF mutation.reason \in {"AdmissionBudget", "AttemptBudget", "RebuildBudget"}
    THEN "BudgetBlocked"
    ELSE IF Infrastructure THEN "InfrastructureFailed" ELSE blocked

ImplementationFinishes ==
    /\ stage = "Implementation"
    /\ \E n \in Targets : node[n] = "FailedTerminal"
    /\ Finish(MutationOutcome("BlockedNoDiff"))
    /\ UNCHANGED mutation

MutationStep(n) ==
    \/ ContextPrepared(n) \/ FeasibilityEvaluated(n) \/ PolicySelected(n)
    \/ ActionPrepared(n) \/ ActionReleased(n)
    \/ MutationCandidate(n) \/ ActionRejected(n) \/ AttemptFailed(n)
    \/ ApplicationObserved(n) \/ MutationVerified(n)
    \/ AttemptRetried(n) \/ ContextSuperseded(n) \/ MutationConverges(n)
    \/ MutationFails(n) \/ MutationProved(n) \/ MutationSucceeds(n)

ImplementationNext ==
    \/ \E n \in Targets : TargetStarts(n)
    \/ \E n \in Mutators : MutationStep(n)
    \/ BarrierProved \/ ImplementationFinishes
=============================================================================
