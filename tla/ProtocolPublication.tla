------------------------- MODULE ProtocolPublication -------------------------
(* Publication by the execution protocol: commit, push and pull request, one *)
(* persisted intent at a time, each repeated only when it is known not to    *)
(* have applied (src/src/execution_protocol/publication.rs and reducer.rs).  *)
EXTENDS ProtocolReview

CONSTANT OperationLimit     \* operation_attempt_limit

ASSUME PublicationAssumption == OperationLimit \in Nat \ {0}

VARIABLE publication
    \* intent       operation of the last attempt
    \* observed     its outcome; "None" while the intent is open
    \* attempts     operation -> attempts so far
    \* trees        revisions whose tree a commit intent was bound to
    \* completed    whether the completion is recorded
    \* convergence
    \* head         of the remote branch: what the exact lease expects, the
    \*              commit, or what somebody else pushed
    \* applied      operations that took effect
    \* draft        whether the pull request was opened as a draft

Operations == {"Commit", "Push", "PullRequest"}
Failures == {"Retryable", "Permanent"}
PublicationOutcomes == Failures \cup {"Confirmed", "RemoteBranchMoved"}

PublicationTypeOK ==
    publication \in [intent : Operations \cup {"None"},
                     observed : PublicationOutcomes \cup {"None"},
                     attempts : [Operations -> 0 .. OperationLimit],
                     trees : SUBSET Nat,
                     completed : BOOLEAN,
                     convergence : {"None", "AttemptsExhausted", "Permanent",
                                    "RemoteBranchMoved"},
                     head : {"Expected", "Commit", "Foreign"},
                     applied : SUBSET Operations,
                     draft : BOOLEAN]

PublicationInit ==
    publication = [intent |-> "None", observed |-> "None",
                   attempts |-> [o \in Operations |-> 0], trees |-> {},
                   completed |-> FALSE, convergence |-> "None",
                   head |-> "Expected", applied |-> {}, draft |-> FALSE]

Publishing == stage = "Publication" /\ Active("Publication")
              /\ ~publication.completed /\ publication.convergence = "None"
Open == publication.intent # "None" /\ publication.observed = "None"
Published(new) == publication' = new /\ UNCHANGED graphVars
-----------------------------------------------------------------------------
PublicationStarts ==
    /\ stage = "Publication"
    /\ Start("Publication")
    /\ UNCHANGED publication

MayRepeat == publication.observed = "Retryable"
             /\ publication.attempts[publication.intent] < OperationLimit

\* The commit, its push or its pull request is there: the last attempt says so,
\* or it is one of an operation that follows.
Confirmed(o) == publication.intent = o /\ publication.observed = "Confirmed"

\* The operation whose intent is persisted next, if there is one.
NextOperation ==
    CASE publication.intent = "None" -> {"Commit"}
      [] Open -> {}
      [] MayRepeat -> {publication.intent}
      [] Confirmed("Commit") -> {"Push"}
      [] Confirmed("Push") -> {"PullRequest"}
      [] OTHER -> {}

Attempt(o) == [publication EXCEPT !.intent = o, !.observed = "None",
                                  !.attempts[o] = @ + 1]

\* Nothing else may be open, and it must be the turn of the operation.
Persisted(o, new) == Publishing /\ o \in NextOperation /\ Published(new)

\* The content the commit is bound to: what was reviewed, under an authority
\* that was found to stand.
ReviewedTrees == IF Granted /\ review.faults = {} THEN {review.revision} ELSE {}

\* A retry commits what the first attempt was bound to.
CommitIntentPersisted ==
    \E tree \in ReviewedTrees :
       /\ publication.trees \subseteq {tree}
       /\ Persisted("Commit", [Attempt("Commit") EXCEPT !.trees = {tree}])

PushIntentPersisted == Persisted("Push", Attempt("Push"))

PullRequestIntentPersisted == Persisted("PullRequest", Attempt("PullRequest"))
-----------------------------------------------------------------------------
(* The effects.  The answer to one may be lost: it is then asked for again,  *)
(* and reconciled with what is there.                                        *)

\* The effect of the open intent is asked for until it is answered.
Pending(o) == Publishing /\ Open /\ publication.intent = o
Unapplied(o) == Pending(o) /\ o \notin publication.applied

CreateCommit ==
    /\ Unapplied("Commit")
    /\ Published([publication EXCEPT !.applied = @ \cup {"Commit"}])

\* Accepted only if the branch is where the lease expects it.
PushExactLease ==
    /\ Unapplied("Push") /\ publication.head = "Expected"
    /\ Published([publication EXCEPT !.applied = @ \cup {"Push"}, !.head = "Commit"])

AsDraft == review.mode = "NormalWithExternalReview"

EnsurePullRequest ==
    /\ Unapplied("PullRequest") /\ publication.head = "Commit"
    /\ Published([publication EXCEPT !.applied = @ \cup {"PullRequest"},
                                     !.draft = AsDraft])

\* Somebody else pushes to the branch, before there is a pull request.
BranchMoves ==
    /\ Publishing /\ publication.head # "Foreign"
    /\ "PullRequest" \notin publication.applied
    /\ Published([publication EXCEPT !.head = "Foreign"])

\* Mutant: an answer that never came is a failure that may be retried.
FailuresOfSilence(o) == Failures

\* A failure is recorded only on evidence that the operation did not apply.
FailuresOf(o) == IF o \in publication.applied THEN {} ELSE Failures

Answers(o) == FailuresOf(o) \cup (IF o \in publication.applied THEN {"Confirmed"} ELSE {})

Observed(o, outcomes) ==
    /\ Pending(o)
    /\ \E outcome \in outcomes : Published([publication EXCEPT !.observed = outcome])

CommitObserved == Observed("Commit", Answers("Commit"))

\* What the branch was found at may also be neither expected nor the commit.
Movement == IF publication.head = "Foreign" THEN {"RemoteBranchMoved"} ELSE {}

PushObserved == Observed("Push", Answers("Push") \cup Movement)

PullRequestObserved == Observed("PullRequest", Answers("PullRequest"))
-----------------------------------------------------------------------------
PublicationConvergence ==
    IF Open \/ MayRepeat THEN "None"
    ELSE
      CASE publication.observed = "Retryable" -> "AttemptsExhausted"
        [] publication.observed \in {"Permanent", "RemoteBranchMoved"} -> publication.observed
        [] OTHER -> "None"

PublicationConverges ==
    /\ Publishing
    /\ PublicationConvergence # "None"
    /\ Published([publication EXCEPT !.convergence = PublicationConvergence])

CompletionRecorded ==
    /\ Publishing
    /\ Confirmed("PullRequest")
    /\ Published([publication EXCEPT !.completed = TRUE])

PublicationProved ==
    /\ Active("Publication") /\ publication.completed
    /\ ~Proved("PublicationCompleted", "Publication")
    /\ Record("PublicationCompleted", "Publication")
    /\ UNCHANGED publication

PublicationSucceeds ==
    /\ publication.completed
    /\ Succeed("Publication")
    /\ UNCHANGED publication

PublicationFails ==
    /\ publication.convergence # "None"
    /\ Fail("Publication", TRUE)
    /\ UNCHANGED publication

PublicationFinishes ==
    /\ stage = "Publication"
    /\ \/ /\ node["Publication"] = "FailedTerminal"
          /\ publication.convergence # "None"
          /\ Finish("PublicationFailed")
       \/ /\ node["Publication"] = "Succeeded" /\ publication.completed
          /\ Proved("PublicationCompleted", "Publication")
          /\ Permits(review.completion, review.mode)
          /\ Finish(IF review.mode = "Normal" THEN "Succeeded" ELSE "PartialReviewable")
    /\ UNCHANGED publication

PublicationNext ==
    \/ PublicationStarts
    \/ CommitIntentPersisted \/ PushIntentPersisted \/ PullRequestIntentPersisted
    \/ CreateCommit \/ PushExactLease \/ EnsurePullRequest \/ BranchMoves
    \/ CommitObserved \/ PushObserved \/ PullRequestObserved
    \/ PublicationConverges \/ CompletionRecorded \/ PublicationProved
    \/ PublicationSucceeds \/ PublicationFails \/ PublicationFinishes
=============================================================================
