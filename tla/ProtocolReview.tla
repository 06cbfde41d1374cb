--------------------------- MODULE ProtocolReview ----------------------------
(* Review: the diff of the attempt is built and read page by page, what was  *)
(* asked for is compared with it, and publication is authorised or denied    *)
(* (src/src/execution_protocol/review.rs and reducer.rs).                    *)
EXTENDS ProtocolValidation

CONSTANTS
    Modes,          \* the requested_mode a policy may have
    PageLimit,      \* max_diff_pages
    ReleaseLimit    \* max_uncontacted_releases_per_binding

ASSUME ReviewAssumption ==
    /\ Modes \subseteq {"Normal", "NormalWithExternalReview"} /\ Modes # {}
    /\ PageLimit \in Nat \ {0} /\ ReleaseLimit \in Nat \ {0}

VARIABLE review
    \* mode        requested_mode of the finalization policy, first read here
    \* revision    the revision under review
    \* request     a DiffManifestRequest, or a PublicationAuthorityRequest
    \* failure     why the effect of that request failed
    \* manifest    plan_assessment of the diff
    \* unread      its pages without a page review
    \* blocking    whether the review of some page was
    \* verdict     disposition of the diff review
    \* released    actions of the current binding that reached no provider
    \* rejected    whether another one was rejected
    \* completion  disposition of the completion evaluation
    \* authority   whether lease, coordinates and remote head were observed
    \* faults      what was found wrong with them
    \* denied      failed_predicates of the eligibility record
    \* evaluated   whether there is such a record
    \* convergence

Requests == {"None", "Diff", "Authority"}
EffectFailures == {"Limit", "Drift", "Durability", "Unavailable"}
Completions == {"Complete", "PendingExternalReview", "Incomplete"}
Faults == {"Moved", "Invalid"}
ReviewReasons == EffectFailures \cup {"Budget", "Provider", "Uncontacted",
                   "DiffBlocked", "Incomplete", "Denied", "DeniedStale"}

\* A denial for one of these reasons only is of what was validated.
StalePredicates == {"CurrentRevision", "ValidationCurrent", "NoActiveFailure",
                    "RemoteHeadUnchanged"}
Predicates == StalePredicates \cup {"ImplementationBarrier", "CompleteDiffReviewed",
                "CompletionPermitsMode", "AuthorityValid", "NoActiveWork"}

ReviewTypeOK ==
    review \in [mode : Modes \cup {"None"}, revision : Nat, request : Requests,
                failure : EffectFailures \cup {"None"},
                manifest : {"None", "Safe", "Unsafe"}, unread : 0 .. PageLimit,
                blocking : BOOLEAN, verdict : {"None", "Accepted", "Blocking"},
                released : 0 .. ReleaseLimit, rejected : BOOLEAN,
                completion : Completions \cup {"None"},
                authority : BOOLEAN, faults : SUBSET Faults,
                denied : SUBSET Predicates, evaluated : BOOLEAN,
                convergence : ReviewReasons \cup {"None"}]

ReviewInit ==
    review = [mode |-> "None", revision |-> 0, request |-> "None", failure |-> "None",
              manifest |-> "None", unread |-> 0, blocking |-> FALSE,
              verdict |-> "None", released |-> 0, rejected |-> FALSE,
              completion |-> "None", authority |-> FALSE, faults |-> {},
              denied |-> {}, evaluated |-> FALSE, convergence |-> "None"]

\* From the barrier on, every revision is that of a repair: its failure and
\* its eligibility at the revision before, its proof and its rerun at its own.
AncestryComplete ==
    /\ \A n \in CheckNodes : Proved("ValidationPassed", n)
    /\ Proved("RequiredValidationPassed", "None")
    /\ LET Known(kind, r) == \E p \in proofs : p.kind = kind /\ p.revision = r
       IN  \E barrier \in 0 .. revision :
             /\ Known("ImplementationBarrier", barrier)
             /\ \A r \in barrier + 1 .. revision :
                  /\ Known("ValidationFailure", r - 1) /\ Known("RepairEligibility", r - 1)
                  /\ Known("MutationVerified", r) /\ Known("RepairVerified", r)
                  /\ Known("ValidationRerunScheduled", r)

\* The review is bound to the revision that validation ended with.
ReviewEnters ==
    /\ AncestryComplete
    /\ \E m \in Modes : review' = [review EXCEPT !.mode = m, !.revision = revision]

Reviewing == stage = "Review" /\ review.convergence = "None" /\ review.failure = "None"

\* An event of the review's own: it changes nothing else.
Reviewed(new) == review' = new /\ UNCHANGED graphVars
-----------------------------------------------------------------------------
(* The diff and its pages.                                                   *)

ReviewNodeStarts ==
    /\ Reviewing
    /\ \E n \in {"Review", "CompletionEvaluation"} : Start(n)
    /\ UNCHANGED review

DiffManifestRequested ==
    /\ Reviewing /\ Active("Review")
    /\ review.request = "None"
    /\ Reviewed([review EXCEPT !.request = "Diff"])

AwaitsDiff == Reviewing /\ Active("Review") /\ review.request = "Diff"
              /\ review.manifest = "None"

DiffManifestRecorded ==
    /\ AwaitsDiff
    /\ \E m \in {"Safe", "Unsafe"}, pages \in 0 .. PageLimit :
         /\ m = "Safe" => pages > 0
         /\ Reviewed([review EXCEPT !.manifest = m, !.unread = pages])

DiffManifestBuildFailed ==
    /\ AwaitsDiff
    /\ \E f \in {"Limit", "Drift", "Durability"} : Reviewed([review EXCEPT !.failure = f])

\* The node whose model call is next: a page to read, or the completion.
Binding(n) ==
    /\ Reviewing /\ Active(n)
    /\ \/ n = "Review" /\ review.manifest # "None" /\ review.unread > 0
       \/ n = "CompletionEvaluation" /\ review.completion = "None"

ReviewActionPrepared ==
    /\ review.released < ReleaseLimit
    /\ \E n \in {"Review", "CompletionEvaluation"} : Binding(n) /\ Prepare(n)
    /\ UNCHANGED review

ReviewActionEnds(n, as) ==
    /\ Binding(n)
    /\ call.state = as
    /\ Clear
    /\ UNCHANGED <<stage, node, revision, proofs, usage, result>>

ReviewActionReleased ==
    /\ \E n \in {"Review", "CompletionEvaluation"} : ReviewActionEnds(n, "Released")
    /\ review' = [review EXCEPT !.released = @ + 1]

ReviewActionRejected ==
    /\ \E n \in {"Review", "CompletionEvaluation"} : ReviewActionEnds(n, "Consumed")
    /\ review' = [review EXCEPT !.rejected = TRUE]

DiffPageReviewed ==
    /\ ReviewActionEnds("Review", "Consumed")
    /\ \E blocking \in BOOLEAN :
         review' = [review EXCEPT !.unread = @ - 1, !.blocking = @ \/ blocking,
                                  !.released = 0, !.rejected = FALSE]

DiffReviewRecorded ==
    /\ Reviewing /\ Active("Review")
    /\ review.manifest # "None" /\ review.unread = 0 /\ review.verdict = "None"
    /\ Reviewed([review EXCEPT !.verdict =
          IF review.manifest = "Unsafe" \/ review.blocking THEN "Blocking" ELSE "Accepted"])

CompletionEvaluationRecorded ==
    /\ ReviewActionEnds("CompletionEvaluation", "Consumed")
    /\ \E c \in Completions :
         review' = [review EXCEPT !.completion = c, !.released = 0, !.rejected = FALSE]

\* What the node waits for is there: its proof is recorded, then it succeeds.
Accomplished(n) ==
    /\ Reviewing /\ Active(n)
    /\ \/ n = "Review" /\ review.verdict = "Accepted"
       \/ n = "CompletionEvaluation" /\ review.completion \notin {"None", "Incomplete"}

ReviewProved ==
    /\ \E n \in {"Review", "CompletionEvaluation"}, kind \in ProofKinds :
         /\ Accomplished(n)
         /\ kind \in SatisfyingProofs(n)
         /\ ~Proved(kind, n)
         /\ Record(kind, n)
    /\ UNCHANGED review

ReviewSucceeds ==
    /\ \E n \in {"Review", "CompletionEvaluation"} : Accomplished(n) /\ Succeed(n)
    /\ UNCHANGED review
-----------------------------------------------------------------------------
(* Eligibility.                                                              *)

Concluded == Reviewing /\ NoneActive /\ Succeeded({"Review", "CompletionEvaluation"})

PublicationAuthorityRequested ==
    /\ Concluded /\ ~OpenCall
    /\ review.request = "Diff"
    /\ Reviewed([review EXCEPT !.request = "Authority"])

AwaitsAuthority == Concluded /\ review.request = "Authority" /\ ~review.authority

PublicationAuthorityObserved ==
    /\ AwaitsAuthority
    /\ \E f \in SUBSET Faults :
         Reviewed([review EXCEPT !.authority = TRUE, !.faults = f])

PublicationAuthorityObservationFailed ==
    /\ AwaitsAuthority
    /\ Reviewed([review EXCEPT !.failure = "Unavailable"])

Permits(completion, mode) ==
    <<completion, mode>> \in {<<"Complete", "Normal">>,
                              <<"PendingExternalReview", "NormalWithExternalReview">>}

FailedPredicates ==
    LET holds ==
          [p \in Predicates |->
             CASE p = "CurrentRevision" -> review.revision = revision
               [] p = "ValidationCurrent" -> Proved("RequiredValidationPassed", "None")
               [] p = "NoActiveFailure" -> validation.failure = "None"
               [] p = "RemoteHeadUnchanged" -> "Moved" \notin review.faults
               [] p = "ImplementationBarrier" -> AncestryComplete /\ Succeeded(Targets)
               [] p = "CompleteDiffReviewed" -> review.verdict = "Accepted"
               [] p = "CompletionPermitsMode" -> Permits(review.completion, review.mode)
               [] p = "AuthorityValid" -> "Invalid" \notin review.faults
               [] p = "NoActiveWork" -> NoneActive /\ ~OpenCall]
    IN  {p \in Predicates : ~holds[p]}

PublicationEligibilityEvaluated ==
    /\ Concluded /\ ~OpenCall
    /\ review.authority /\ ~review.evaluated
    /\ Reviewed([review EXCEPT !.evaluated = TRUE, !.denied = FailedPredicates])

Granted == review.evaluated /\ review.denied = {}

EligibilityGrantProved ==
    /\ Concluded /\ Granted
    /\ ~Proved("PublicationEligibility", "None")
    /\ Record("PublicationEligibility", "None")
    /\ UNCHANGED review

PublicationBegins ==
    /\ Concluded /\ Granted
    /\ Advance("Review", "Publication")
    /\ UNCHANGED review
-----------------------------------------------------------------------------
(* The ways a review ends without publication.                               *)

ReviewConvergence ==
    IF review.failure # "None" THEN review.failure
    ELSE IF \E n \in {"Review", "CompletionEvaluation"} :
              Binding(n) /\ call.state = "None" /\ Exhausted(n)
         THEN IF review.rejected THEN "Provider" ELSE "Budget"
    ELSE IF \E n \in {"Review", "CompletionEvaluation"} :
              Binding(n) /\ call.state = "None" /\ review.released >= ReleaseLimit
         THEN "Uncontacted"
    ELSE IF Active("Review") /\ review.verdict = "Blocking" THEN "DiffBlocked"
    ELSE IF Active("CompletionEvaluation") /\ review.completion = "Incomplete"
         THEN "Incomplete"
    ELSE IF NoneActive /\ review.evaluated /\ review.denied # {}
         THEN IF review.denied \subseteq StalePredicates THEN "DeniedStale" ELSE "Denied"
    ELSE "None"

\* After drift, what was observed is the revision of the attempt; the drift may
\* also be of the tree only.
ReviewConverges ==
    /\ stage = "Review" /\ review.convergence = "None"
    /\ ReviewConvergence # "None"
    /\ review' = [review EXCEPT !.convergence = ReviewConvergence]
    /\ revision' \in IF review.failure = "Drift" THEN {revision, revision + 1}
                                                 ELSE {revision}
    /\ UNCHANGED <<stage, node, proofs, call, usage, result>>

ReviewFails ==
    /\ stage = "Review" /\ review.convergence # "None"
    /\ \E n \in {"Review", "CompletionEvaluation"} : Fail(n, TRUE)
    /\ UNCHANGED review

ReviewOutcome ==
    CASE review.convergence = "Budget" -> "BudgetBlocked"
      [] review.convergence \in {"Drift", "DeniedStale"} -> "ValidationFailed"
      [] review.convergence \in {"Durability", "Provider", "Uncontacted", "Unavailable"}
                                              -> "InfrastructureFailed"
      [] OTHER -> "BlockedNoDiff"

ReviewFinishes ==
    /\ stage = "Review" /\ review.convergence # "None"
    /\ Finish(ReviewOutcome)
    /\ UNCHANGED review

ReviewNext ==
    \/ ReviewNodeStarts \/ DiffManifestRequested \/ DiffManifestRecorded
    \/ DiffManifestBuildFailed \/ ReviewActionPrepared \/ ReviewActionReleased
    \/ ReviewActionRejected \/ DiffPageReviewed \/ DiffReviewRecorded
    \/ CompletionEvaluationRecorded \/ ReviewProved \/ ReviewSucceeds
    \/ PublicationAuthorityRequested \/ PublicationAuthorityObserved
    \/ PublicationAuthorityObservationFailed \/ PublicationEligibilityEvaluated
    \/ EligibilityGrantProved \/ ReviewConverges \/ ReviewFails \/ ReviewFinishes
=============================================================================
